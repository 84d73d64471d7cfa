----------------------------- MODULE MCGraphActions -----------------------------
(* GraphActions for TLC; the constants are given in the cfg files. *)
EXTENDS GraphActions
=================================================================================
