----------------------------- MODULE SaRegistry -----------------------------
(***************************************************************************)
(* What the IKE_SA manager is for, without its tables and locks: IKE_SAs   *)
(* are created once, used by one thread at a time, and gone for good when  *)
(* destroyed, by the thread that uses them or when nobody does.            *)
(***************************************************************************)
CONSTANTS Threads, Sas

VARIABLES
  status,  \* [Sas -> {"fresh", "live", "gone"}]
  users    \* [Sas -> SUBSET Threads], the threads that may use the ike_sa_t

vars == <<status, users>>

Init == /\ status = [e \in Sas |-> "fresh"]
        /\ users  = [e \in Sas |-> {}]

Create(t, e) ==
  /\ status[e] = "fresh"
  /\ status' = [status EXCEPT ![e] = "live"]
  /\ users'  = [users EXCEPT ![e] = {t}]

\* An SPI was reserved for an SA that never comes to life.
Forget(e) ==
  /\ status[e] = "fresh"
  /\ status' = [status EXCEPT ![e] = "gone"]
  /\ UNCHANGED users

\* One SA, or at shutdown all there are.
Acquire(t, E) ==
  /\ \A e \in E : status[e] = "live" /\ users[e] = {}
  /\ users' = [e \in Sas |-> IF e \in E THEN {t} ELSE users[e]]
  /\ UNCHANGED status

Release(t, e) ==
  /\ users[e] = {t}
  /\ users' = [users EXCEPT ![e] = {}]
  /\ UNCHANGED status

\* Nobody else uses the SAs; the manager itself destroys those it still has.
Destroy(t, E) ==
  /\ \A e \in E : status[e] = "live" /\ users[e] \subseteq {t}
  /\ status' = [e \in Sas |-> IF e \in E THEN "gone" ELSE status[e]]
  /\ users'  = [e \in Sas |-> IF e \in E THEN {} ELSE users[e]]

Next == \/ \E e \in Sas : Forget(e)
        \/ \E t \in Threads, e \in Sas : Create(t, e) \/ Release(t, e)
        \/ \E t \in Threads, E \in SUBSET Sas : Acquire(t, E) \/ Destroy(t, E)

Spec == Init /\ [][Next]_vars

=============================================================================
