------------------------------- MODULE MCAsync -------------------------------
(* AsyncLoop with the ends of AsyncEnds, for TLC. *)
EXTENDS AsyncEnds

Calls == {x \in Exports : stage[x] # "idle"}
Made == {t \in Tasks : job[t] # "absent"}

\* A bound: a guest that is given an end has one call, and of that two tasks that
\* pause twice in all, or three that do not pause.
OneCallWithEnd ==
  (\E e \in AllEnds : native[e] # "none")
    => /\ Cardinality(Calls) <= 1 /\ pauses <= 2
       /\ Cardinality(Made) <= 2 \/ pauses = 0
=============================================================================
