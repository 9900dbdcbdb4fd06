--------------------------- MODULE EventSelection ---------------------------
(***************************************************************************)
(* The events of a list that a query selects, in order: what the WHERE and *)
(* ORDER BY sequence of a replay compute.                                  *)
(***************************************************************************)
EXTENDS Naturals, Sequences

Members(s) == {s[i] : i \in DOMAIN s}

\* The elements of the sequence s that are in the set S, in order.
Select(s, S) ==
  LET part[n \in 0..Len(s)] == IF n = 0 THEN <<>>
                               ELSE IF s[n] \in S THEN Append(part[n - 1], s[n])
                               ELSE part[n - 1]
  IN part[Len(s)]
=============================================================================
