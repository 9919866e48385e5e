----------------------------- MODULE ChildRekey -----------------------------
(***************************************************************************)
(* Rekeying and deleting CHILD_SAs between two peers of an established     *)
(* IKE_SA (child_rekey.c, child_delete.c, child_create.c, child_sa.c):     *)
(* both peers may rekey and delete the same CHILD_SA at once, and the      *)
(* requests and responses of the two directions may overtake each other.   *)
(*                                                                         *)
(* The exchanges are those of module Exchange: each peer has at most one   *)
(* request outstanding, which is executed once and answered once.  Losses  *)
(* and retransmissions are the task manager's business (TaskManager) and   *)
(* show here only as delay.                                                *)
(*                                                                         *)
(* A CHILD_SA is a pair of SPIs negotiated by one exchange.  It is known   *)
(* by one number at both peers, each of which has an object for it.  The   *)
(* number also stands for the lower of the nonces of that exchange.        *)
(***************************************************************************)
EXTENDS Naturals, Sequences, FiniteSets, SequencesExt

CONSTANTS Peers,        \* the two ends of the IKE_SA
          Scenarios,    \* what may happen to the peers
          MaxRekeys     \* bound: rekeyings started in a scenario

\* ordered: the network keeps the order of the messages of each peer;
\* early: a CHILD_SA may be rekeyed or deleted by the peer that was asked to make
\* it before the other one knows that it exists; refuses: a peer may refuse a new
\* CHILD_SA; keeps: delete_rekeyed_delay is not 0 (else the CHILD_SAs have no
\* lifetime either).  The numbers are bounds: rekeyings started, deletions by a
\* user, SAs a peer does not accept at once, new SAs that cannot be installed.
Scenario == [ordered : BOOLEAN, early : BOOLEAN, refuses : BOOLEAN, keeps : BOOLEAN,
             rekeys : 0..MaxRekeys, deletes : Nat, rejects : Nat, failures : Nat]

ASSUME ChildRekeyConstants ==
    /\ \E p, q \in Peers : p # q /\ Peers = {p, q}
    /\ MaxRekeys \in Nat
    /\ Scenarios \subseteq Scenario

Sas == 1..(1 + MaxRekeys)
None == 0
Other(p) == CHOOSE q \in Peers : q # p

VARIABLES
    sa,         \* sa[p][c]: p's child_sa_t of CHILD_SA c
    task,       \* task[p]: the active task of p
    queue,      \* queue[p]: the tasks queued at p, <<type, CHILD_SA, successor>>
    jobs,       \* jobs[p]: the jobs p has scheduled, <<type, CHILD_SA>>; two of
                \* the same kind for the same CHILD_SA count as one
    air,        \* air[p]: p's request and response on their way, in sending order
    down,       \* down[p]: the CHILD_SAs p reported as gone, child_updown(FALSE)
    nonce,      \* nonce[c]: rank of the lower nonce of c's exchange
    scene,      \* the scenario, chosen at the start
    left        \* what remains of the bounds of scene

vars == <<sa, task, queue, jobs, air, down, nonce, scene, left>>

NoSa == [state |-> "NONE", out |-> "NONE", rekey |-> None]
NewSa == [state |-> "INSTALLED", out |-> "REGISTERED", rekey |-> None]
InUse == [NewSa EXCEPT !.out = "INSTALLED"]

\* kind: REKEY, DELETE, CREATE, or EMPTY for an exchange whose task is done.
\* A REKEY task first rekeys child into new, then deletes del, to which end it
\* has a subtask; a CREATE task makes new.  coll is the type of the colliding task
\* of the peer, other the CHILD_SA a colliding rekeying made, gone that the peer has
\* deleted it since.  failed: the new SA was not installed and is deleted at the peer.
Idle == [kind |-> "NONE", sent |-> FALSE, child |-> None, new |-> None,
         failed |-> FALSE, coll |-> "NONE", other |-> None, gone |-> FALSE,
         del |-> None, rekeyed |-> FALSE]

Init ==
    /\ sa = [p \in Peers |-> [c \in Sas |->
                IF c = 1 THEN InUse ELSE NoSa]]
    /\ task = [p \in Peers |-> Idle]
    /\ queue = [p \in Peers |-> <<>>]
    /\ jobs = [p \in Peers |-> {}]
    /\ air = [p \in Peers |-> <<>>]
    /\ down = [p \in Peers |-> {}]
    /\ scene \in Scenarios
    /\ nonce \in {f \in Injection(Sas, Sas) :
                    \A c \in Sas : c = 1 \/ c > 1 + scene.rekeys => f[c] = c}
    /\ left = [rekeys |-> scene.rekeys, deletes |-> scene.deletes,
               rejects |-> scene.rejects, failures |-> scene.failures]

-----------------------------------------------------------------------------
(* Messages *)

Request(type, c, n) == [req |-> TRUE, type |-> type, child |-> c, new |-> n]
Response(type, m) == [m EXCEPT !.req = FALSE, !.type = type]

Send(p, m) == air' = [air EXCEPT ![p] = Append(@, m)]

\* The other peer takes the i-th message of p off the network.
Arrives(p, i) == /\ i \in DOMAIN air[p]
                 /\ scene.ordered => i = 1

Received(p, i) == air' = [air EXCEPT ![p] = RemoveAt(@, i)]
Answered(p, i, q, m) == air' = [air EXCEPT ![p] = RemoveAt(@, i), ![q] = Append(@, m)]

-----------------------------------------------------------------------------
(* The objects of one peer: s is sa[p] *)

Exists(s, c) == c # None /\ s[c].state # "NONE"

\* A rekeyed CHILD_SA is kept for a while for delayed inbound packets.
IsKept(s, c) == s[c].state = "DELETING" /\ s[c].out = "NONE"

SetState(s, c, st) == [s EXCEPT ![c].state = st]
Destroy(s, c) == [s EXCEPT ![c] = NoSa]
\* install_outbound(), where the kernel takes the SA: what the tasks do if it does
\* not ("FIXME: delete the child_sa?") is left out.
InstallOutbound(s, c) == [s EXCEPT ![c].out = "INSTALLED"]
RemoveOutbound(s, c) == [s EXCEPT ![c].out = "NONE"]

\* A slip: the CHILD_SA of a colliding rekeying is taken for an ordinary one.
IsRedundant_Never(t, c) == FALSE

\* Whether c was made by a rekeying of the peer that collided with task t.
IsRedundant(t, c) == t.kind = "REKEY" /\ t.coll = "REKEY" /\ t.other = c

\* A slip: the successor is not installed when its predecessor goes.
SwitchOver_RemoveOnly(s, t, c, initiator) == RemoveOutbound(s, c)

\* A rekeyed CHILD_SA has gone: its successor takes the outbound traffic.
SwitchOver(s, t, c, initiator) ==
    LET r == s[c].rekey
        installed == IF Exists(s, r) /\ ~(initiator /\ IsRedundant(t, r))
                     THEN InstallOutbound(s, r) ELSE s
    IN RemoveOutbound(installed, c)

\* The deletion of c is complete at p, whose objects are s by now.  A rekeyed
\* CHILD_SA is destroyed by a later job if delayed packets are to be processed.
DestroyAndReestablish(p, s, t, c, rekeyed, initiator) ==
    LET keep == rekeyed /\ scene.keeps
        switched == IF rekeyed THEN SwitchOver(s, t, c, initiator) ELSE s
    IN
    /\ sa' = [sa EXCEPT ![p] = IF keep THEN switched ELSE Destroy(switched, c)]
    /\ jobs' = IF keep THEN [jobs EXCEPT ![p] = @ \cup {<<"DELETE", c>>}] ELSE jobs
    /\ down' = IF rekeyed THEN down ELSE [down EXCEPT ![p] = @ \cup {c}]

-----------------------------------------------------------------------------
(* Starting exchanges *)

\* There is something to send.  initiate() ends every handler that may bring this
\* about, so that it is never so when another handler of p begins.
Pending(p) == ~task[p].sent /\ (task[p].kind # "NONE" \/ queue[p] # <<>>)

\* child_delete.c: build_i, also as the subtask of a rekeying.
BuildDelete(p, t, c) ==
    LET state == sa[p][c].state IN
    /\ \/ /\ state = "NONE"
          /\ Send(p, Request("EMPTY", None, None))
          /\ task' = [task EXCEPT ![p] = [Idle EXCEPT !.kind = "EMPTY", !.sent = TRUE]]
          /\ UNCHANGED sa
       \/ /\ state = "DELETING"
          /\ sa' = [sa EXCEPT ![p] = Destroy(@, c)]
          /\ task' = [task EXCEPT ![p] = Idle]
          /\ UNCHANGED air
       \/ /\ state \notin {"NONE", "DELETING"}
          /\ Send(p, Request("DELETE", c, None))
          /\ sa' = [sa EXCEPT ![p] = SetState(@, c, "DELETING")]
          /\ task' = [task EXCEPT ![p] = [t EXCEPT !.sent = TRUE, !.del = c,
                                                   !.rekeyed = (state = "REKEYED")]]

\* A slip: a rekeying that has become pointless waits for a response.
BuildRekey_Waits(p, t, first) ==
    LET ready == sa[p][t.child].state = (IF first THEN "INSTALLED" ELSE "REKEYING") IN
    /\ IF ready THEN Send(p, Request("REKEY", t.child, t.new)) ELSE UNCHANGED air
    /\ sa' = IF ready THEN [sa EXCEPT ![p] = SetState(@, t.child, "REKEYING")] ELSE sa
    /\ task' = [task EXCEPT ![p] = [t EXCEPT !.sent = TRUE]]

\* child_rekey.c: build_i, for a task just activated, for one the peer asked to
\* try another DH group, and for one that deletes an SA it failed to install.
\* That child_create_t cannot allocate an SPI, nonce or DH value is left out.
BuildRekey(p, t, first) ==
    LET c == t.child
        ready == sa[p][c].state = (IF first THEN "INSTALLED" ELSE "REKEYING")
    IN \/ /\ ~ready
          /\ task' = [task EXCEPT ![p] = Idle]
          /\ UNCHANGED <<sa, air>>
       \/ /\ ready
          /\ Send(p, IF t.failed THEN Request("DELETE", t.new, None)
                                 ELSE Request("REKEY", c, t.new))
          /\ sa' = [sa EXCEPT ![p] = SetState(@, c, "REKEYING")]
          /\ task' = [task EXCEPT ![p] = [t EXCEPT !.sent = TRUE]]

\* child_create.c: build_i, or build_i_delete for an SA it failed to install.
BuildCreate(p, t) ==
    /\ Send(p, IF t.failed THEN Request("DELETE", t.new, None)
                           ELSE Request("CREATE", None, t.new))
    /\ task' = [task EXCEPT ![p] = [t EXCEPT !.sent = TRUE]]
    /\ UNCHANGED sa

\* The queued task initiate() activates: deletions first, rekeyings last.
Activated(q) ==
    LET Of(type) == {i \in DOMAIN q : q[i][1] = type} IN
    CASE Of("DELETE") # {} -> Min(Of("DELETE"))
      [] Of("DELETE") = {} /\ Of("CREATE") # {} -> Min(Of("CREATE"))
      [] OTHER -> 1

InitiateQueued(p) ==
    LET i == Activated(queue[p])
        e == queue[p][i]
        t == [Idle EXCEPT !.kind = e[1], !.child = e[2], !.new = e[3]]
    IN /\ task[p].kind = "NONE"
       /\ queue' = [queue EXCEPT ![p] = RemoveAt(@, i)]
       /\ \/ e[1] = "DELETE" /\ BuildDelete(p, t, e[2])
          \/ e[1] = "CREATE" /\ BuildCreate(p, t)
          \/ e[1] = "REKEY" /\ BuildRekey(p, t, TRUE)

\* task_manager_v2.c: initiate, which the previous handler of p ends with.
Initiate(p) ==
    LET t == task[p] IN
    /\ Pending(p)
    /\ \/ InitiateQueued(p)
       \/ t.kind = "CREATE" /\ BuildCreate(p, t) /\ UNCHANGED queue
       \/ /\ t.kind = "REKEY"
          /\ IF t.del # None THEN BuildDelete(p, t, t.del) ELSE BuildRekey(p, t, FALSE)
          /\ UNCHANGED queue
    /\ UNCHANGED <<jobs, down, nonce, scene, left>>

-----------------------------------------------------------------------------
(* What asks for exchanges *)

\* The other peer is still waiting for the response that makes c.
InTheMaking(p, c) == task[Other(p)].new = c /\ task[Other(p)].del = None

\* rekey_child_sa_job: c's soft lifetime ends, or a failed rekeying is repeated.
\* The number of the CHILD_SA that is to be made is reserved right away.
QueueRekey(p, c) ==
    /\ left.rekeys > 0
    /\ left' = [left EXCEPT !.rekeys = @ - 1]
    /\ queue' = [queue EXCEPT ![p] = Append(@, <<"REKEY", c, 2 + scene.rekeys - left.rekeys>>)]

QueueDelete(p, c) == queue' = [queue EXCEPT ![p] = Append(@, <<"DELETE", c, None>>)]

SoftExpire(p, c) ==
    /\ ~Pending(p)
    /\ Exists(sa[p], c)
    /\ InTheMaking(p, c) => scene.early
    /\ QueueRekey(p, c)
    /\ UNCHANGED <<sa, task, jobs, air, down, nonce, scene>>

\* A user deletes a CHILD_SA.
DeleteChild(p, c) ==
    /\ ~Pending(p)
    /\ Exists(sa[p], c)
    /\ InTheMaking(p, c) => scene.early
    /\ left.deletes > 0
    /\ left' = [left EXCEPT !.deletes = @ - 1]
    /\ QueueDelete(p, c)
    /\ UNCHANGED <<sa, task, jobs, air, down, nonce, scene>>

\* A scheduled job runs; the CHILD_SA may be gone by then.
RunJob(p, j) ==
    /\ ~Pending(p)
    /\ j \in jobs[p]
    /\ jobs' = [jobs EXCEPT ![p] = @ \ {j}]
    /\ \/ ~Exists(sa[p], j[2]) /\ UNCHANGED <<queue, left>>
       \/ Exists(sa[p], j[2]) /\ j[1] = "REKEY" /\ QueueRekey(p, j[2])
       \/ Exists(sa[p], j[2]) /\ j[1] = "DELETE" /\ QueueDelete(p, j[2]) /\ UNCHANGED left
    /\ UNCHANGED <<sa, task, air, down, nonce, scene>>

-----------------------------------------------------------------------------
(* Requests *)

\* child_rekey.c: collide with a rekeying of c, by which the peer made n.
CollideRekey(t, c, n) ==
    IF t.kind = "REKEY" /\ t.child = c THEN [t EXCEPT !.coll = "REKEY", !.other = n] ELSE t

\* A slip: a task does not note that the redundant CHILD_SA has been deleted.
CollideDelete_Unnoted(t, c) ==
    IF t.kind = "REKEY" /\ t.child = c THEN [t EXCEPT !.coll = "DELETE", !.other = None] ELSE t

\* child_rekey.c: collide with a deletion that does delete c.
CollideDelete(t, c) ==
    CASE IsRedundant(t, c)                   -> [t EXCEPT !.gone = TRUE]
      [] t.kind = "REKEY" /\ t.child = c     -> [t EXCEPT !.coll = "DELETE", !.other = None]
      [] OTHER                               -> t

\* The peers' configurations do not fit (NO_PROPOSAL stands for every such error)
\* or want another DH group.
Rejections == {"INVALID_KE"} \cup (IF scene.refuses THEN {"NO_PROPOSAL"} ELSE {})
Rejected(a) == IF a \in Rejections
               THEN left.rejects > 0 /\ left' = [left EXCEPT !.rejects = @ - 1]
               ELSE UNCHANGED left

\* A slip: a CHILD_SA that is being deleted counts as gone.
RekeyAnswers_Gone(q, c) ==
    IF ~Exists(sa[q], c) \/ sa[q][c].state = "DELETING" THEN {"NOT_FOUND"}
    ELSE {"OK"} \cup Rejections

\* How q answers the request to rekey c.
RekeyAnswers(q, c) ==
    IF ~Exists(sa[q], c) \/ IsKept(sa[q], c) THEN {"NOT_FOUND"}
    ELSE IF sa[q][c].state = "DELETING" THEN {"TEMPORARY_FAILURE"}
    ELSE {"OK"} \cup Rejections

\* child_rekey.c: process_r and build_r.
RespondRekey(p, i) ==
    LET q == Other(p)
        m == air[p][i]
    IN /\ Arrives(p, i)
       /\ m.req /\ m.type = "REKEY"
       /\ ~Pending(q)
       /\ \E a \in RekeyAnswers(q, m.child) :
            /\ Answered(p, i, q, Response(a, m))
            /\ Rejected(a)
            /\ IF a = "OK"
               THEN /\ sa' = [sa EXCEPT ![q][m.new] = NewSa,
                                        ![q][m.child].state = "REKEYED",
                                        ![q][m.child].rekey = m.new]
                    /\ task' = [task EXCEPT ![q] = CollideRekey(@, m.child, m.new)]
               ELSE UNCHANGED <<sa, task>>
       /\ UNCHANGED <<queue, jobs, down, nonce, scene>>

\* child_create.c: process_r and build_r.
RespondCreate(p, i) ==
    LET q == Other(p)
        m == air[p][i]
    IN /\ Arrives(p, i)
       /\ m.req /\ m.type = "CREATE"
       /\ ~Pending(q)
       /\ \E a \in {"OK"} \cup Rejections :
            /\ Answered(p, i, q, Response(a, m))
            /\ Rejected(a)
            /\ sa' = IF a = "OK" THEN [sa EXCEPT ![q][m.new] = InUse] ELSE sa
       /\ UNCHANGED <<task, queue, jobs, down, nonce, scene>>

\* child_delete.c: process_r and build_r.
RespondDelete(p, i) ==
    LET q == Other(p)
        m == air[p][i]
        c == m.child
        t == task[q]
        rekeyed == sa[q][c].state = "REKEYED" \/ IsRedundant(t, c)
    IN /\ Arrives(p, i)
       /\ m.req /\ m.type \in {"DELETE", "EMPTY"}
       /\ ~Pending(q)
       /\ Answered(p, i, q, Response("DONE", m))
       /\ IF Exists(sa[q], c) /\ sa[q][c].state # "DELETING"
          THEN /\ DestroyAndReestablish(q, SetState(sa[q], c, "DELETING"), t, c, rekeyed, FALSE)
               /\ task' = [task EXCEPT ![q] = CollideDelete(@, c)]
          ELSE UNCHANGED <<sa, jobs, down, task>>
       /\ UNCHANGED <<queue, nonce, scene, left>>

-----------------------------------------------------------------------------
(* Responses, to the request p has outstanding *)

\* The rekeying came to nothing: unless the peer has deleted the CHILD_SA, it
\* is used further and rekeyed again later.
AbortRekey(p, t) ==
    /\ task' = [task EXCEPT ![p] = Idle]
    /\ IF t.coll = "DELETE" THEN UNCHANGED <<sa, jobs>>
       ELSE /\ sa' = [sa EXCEPT ![p] = SetState(@, t.child, "INSTALLED")]
            /\ jobs' = [jobs EXCEPT ![p] = @ \cup {<<"REKEY", t.child>>}]
    /\ UNCHANGED <<queue, down, left>>

\* The other DH group is tried at once.
Retry(p) ==
    /\ task' = [task EXCEPT ![p].sent = FALSE]
    /\ UNCHANGED <<sa, queue, jobs, down, left>>

\* The peer does not know the CHILD_SA: a new one is set up in its place, unless
\* the peer has just deleted it.  It gets the number the rekeying did not use.
RekeyNotFound(p, t) ==
    /\ task' = [task EXCEPT ![p] = Idle]
    /\ IF t.coll = "DELETE" THEN UNCHANGED <<sa, queue, down>>
       ELSE /\ sa' = [sa EXCEPT ![p] = Destroy(@, t.child)]
            /\ down' = [down EXCEPT ![p] = @ \cup {t.child}]
            /\ queue' = [queue EXCEPT ![p] = Append(@, <<"CREATE", None, t.new>>)]
    /\ UNCHANGED <<jobs, left>>

\* The new SA cannot be installed: the peer has to delete it.
InstallFails(p) ==
    /\ left.failures > 0
    /\ left' = [left EXCEPT !.failures = @ - 1]
    /\ task' = [task EXCEPT ![p].sent = FALSE, ![p].failed = TRUE]
    /\ UNCHANGED <<sa, queue, jobs, down>>

\* A slip: both peers of a collision keep their own CHILD_SA.
Wins_Both(t) == t.coll # "DELETE"

\* handle_collision: which of two rekeyings that met is the better one.
Wins(t) == \/ t.coll = "NONE"
           \/ t.coll = "REKEY" /\ nonce[t.new] > nonce[t.other]

\* The new SA is there; it is used, or deleted if it is redundant.
RekeySucceeds(p, t) ==
    LET won == Wins(t)
        obsolete == ({IF won THEN t.child ELSE t.new}
                     \cup (IF won /\ t.coll = "REKEY" /\ ~t.gone THEN {t.other} ELSE {}))
        made == [sa[p] EXCEPT ![t.new] = IF won THEN InUse ELSE NewSa]
    IN /\ sa' = [sa EXCEPT ![p] = [c \in Sas |-> IF c \in obsolete
                                         THEN [made[c] EXCEPT !.state = "REKEYED"] ELSE made[c]]]
       /\ task' = [task EXCEPT ![p].sent = FALSE,
                               ![p].del = IF won THEN t.child ELSE t.new]
       /\ UNCHANGED <<queue, jobs, down, left>>

\* child_rekey.c: process_i.
RekeyResponse(p, i) ==
    LET q == Other(p)
        m == air[q][i]
        t == task[p]
    IN /\ Arrives(q, i)
       /\ ~m.req /\ t.kind = "REKEY" /\ t.del = None
       /\ Received(q, i)
       /\ \/ m.type \in {"TEMPORARY_FAILURE", "NO_PROPOSAL", "DONE"} /\ AbortRekey(p, t)
          \/ m.type = "NOT_FOUND" /\ RekeyNotFound(p, t)
          \/ m.type = "INVALID_KE" /\ Retry(p)
          \/ m.type = "OK" /\ InstallFails(p)
          \/ m.type = "OK" /\ RekeySucceeds(p, t)
       /\ UNCHANGED <<nonce, scene>>

CreateEnds(p, s) ==
    /\ sa' = [sa EXCEPT ![p] = s]
    /\ task' = [task EXCEPT ![p] = Idle]
    /\ UNCHANGED <<queue, jobs, down, left>>

\* child_create.c: process_i.
CreateResponse(p, i) ==
    LET q == Other(p)
        m == air[q][i]
        n == task[p].new
    IN /\ Arrives(q, i)
       /\ ~m.req /\ task[p].kind = "CREATE"
       /\ Received(q, i)
       /\ \/ m.type = "OK" /\ CreateEnds(p, [sa[p] EXCEPT ![n] = InUse])
          \/ m.type = "OK" /\ InstallFails(p)
          \/ m.type \in {"NO_PROPOSAL", "DONE"} /\ CreateEnds(p, sa[p])
          \/ m.type = "INVALID_KE" /\ Retry(p)
       /\ UNCHANGED <<nonce, scene>>

\* child_delete.c: process_i.
DeleteResponse(p, i) ==
    LET q == Other(p)
        m == air[q][i]
        t == task[p]
    IN /\ Arrives(q, i)
       /\ ~m.req /\ t.del # None
       /\ Received(q, i)
       /\ DestroyAndReestablish(p, sa[p], t, t.del, t.rekeyed, TRUE)
       /\ task' = [task EXCEPT ![p] = Idle]
       /\ UNCHANGED <<queue, nonce, scene, left>>

EmptyResponse(p, i) ==
    LET q == Other(p) IN
    /\ Arrives(q, i)
    /\ ~air[q][i].req /\ task[p].kind = "EMPTY"
    /\ Received(q, i)
    /\ task' = [task EXCEPT ![p] = Idle]
    /\ UNCHANGED <<sa, queue, jobs, down, nonce, scene, left>>

-----------------------------------------------------------------------------

Indices == 1..2

\* Something of the i-th message of p arrives at the other peer.
Deliver(p, i) == \/ RespondRekey(p, i)
                 \/ RespondCreate(p, i)
                 \/ RespondDelete(p, i)
                 \/ RekeyResponse(Other(p), i)
                 \/ CreateResponse(Other(p), i)
                 \/ DeleteResponse(Other(p), i)
                 \/ EmptyResponse(Other(p), i)

Run(p) == \E j \in {"DELETE", "REKEY"} \X Sas : RunJob(p, j)

Next == \E p \in Peers :
    \/ Initiate(p)
    \/ \E c \in Sas : SoftExpire(p, c) \/ DeleteChild(p, c)
    \/ Run(p)
    \/ \E i \in Indices : Deliver(p, i)

\* The task manager repeats requests until they are answered, the scheduler runs
\* every job in the end, and no handler stops before initiate().
Fairness == \A p \in Peers :
    /\ WF_vars(Initiate(p))
    /\ WF_vars(Run(p))
    /\ WF_vars(\E i \in Indices : Deliver(p, i))

Spec == Init /\ [][Next]_vars /\ Fairness
=============================================================================
