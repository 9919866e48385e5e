--------------------------- MODULE MCTaskManager ---------------------------
(* Finite instances of TaskManager for TLC. *)
EXTENDS TaskManagerProps

Of(i, r) == [p \in Peers |-> IF p = Initiator THEN i ELSE r]

\* Setting up the IKE_SA with everything in the way, then little work.
Setup == [work : {Of({"MOBIKE", "CHILD"}, {"DELETE"})}, requests : {Of(1, 1)},
          hurdles : {{"COOKIE", "FAIL"}}, group : {1, 2}, sas : {2}]

\* An undisturbed setup, then tasks that queue behind each other.
Busy == [work : {Of({"MOBIKE", "CHILD", "DELETE"}, {"DPD", "DELETE"})},
         requests : {Of(2, 1)}, hurdles : {{}}, group : {1}, sas : {1}]

MCScenarios == Setup \cup Busy
=============================================================================
