------------------------------- MODULE MCRxAlign -------------------------------
(***************************************************************************)
(* The instance of RxAlign for TLC.                                        *)
(***************************************************************************)
EXTENDS RxAlign
=============================================================================
