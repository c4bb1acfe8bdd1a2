------------------------------ MODULE Sublists ------------------------------
(***************************************************************************)
(* Part of a list, as the loops leave it that free or copy some of its     *)
(* nodes and pass over the others.                                         *)
(***************************************************************************)
EXTENDS Integers, Sequences

\* The elements of s that are in S, in their order.
Keep(s, S) ==
  LET K[i \in 0 .. Len(s)] == IF i = 0          THEN <<>>
                              ELSE IF s[i] \in S THEN Append(K[i - 1], s[i])
                              ELSE K[i - 1]
  IN  K[Len(s)]
=============================================================================
