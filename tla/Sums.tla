--------------------------------- MODULE Sums ---------------------------------
(***************************************************************************)
(* The sum of a sequence of numbers, as a recursive function: unlike an    *)
(* operator, it can be reasoned about (Sums_proofs).                       *)
(***************************************************************************)
EXTENDS Integers, Sequences

\* RunningSums(s)[i] is the sum of the first i elements of s.
RunningSums(s) ==
    LET sum[i \in 0..Len(s)] == IF i = 0 THEN 0 ELSE sum[i - 1] + s[i]
    IN  sum

Total(s) == RunningSums(s)[Len(s)]
================================================================================
