------------------------------- MODULE Queues -------------------------------
(***************************************************************************)
(* The linked lists of Lua's collector as sequences: what taking members   *)
(* out of a list leaves, and which member comes before which.              *)
(***************************************************************************)
EXTENDS Naturals, Sequences, Functions

\* The members of s that are in S, in the order they have in s.
Only(s, S) ==
  LET upto[i \in 0 .. Len(s)] ==
        IF i = 0 THEN <<>>
        ELSE IF s[i] \in S THEN Append(upto[i - 1], s[i]) ELSE upto[i - 1]
  IN  upto[Len(s)]

\* The members of s that are not in S.
Without(s, S) == Only(s, Range(s) \ S)

\* x comes before y.
Before(s, x, y) == \E i, j \in 1 .. Len(s) : i < j /\ s[i] = x /\ s[j] = y
=============================================================================
