----------------------------- MODULE Subsequence -----------------------------
(***************************************************************************)
(* Reading the records of one kind out of a history, in their order.       *)
(***************************************************************************)
EXTENDS Naturals, Sequences

\* The elements of s that lie in S, in the order of s.
Picked(s, S) ==
  LET upTo[n \in 0 .. Len(s)] ==
        IF n = 0 THEN <<>>
        ELSE IF s[n] \in S THEN Append(upTo[n - 1], s[n])
        ELSE upTo[n - 1]
  IN  upTo[Len(s)]
==============================================================================
