---------------------------- MODULE TaskManager ----------------------------
(***************************************************************************)
(* The IKEv2 task managers of two peers (task_manager_v2.c) and the parts  *)
(* of ike_sa.c, the retransmit job, the receiver and the IKE_SA_INIT,      *)
(* IKE_AUTH, MOBIKE, DPD and delete tasks that drive them: message IDs,    *)
(* one exchange in the air per direction, retransmission and giving up,    *)
(* the stored response, the order in which queued tasks are activated, the *)
(* restart of IKE_SA_INIT by COOKIE and INVALID_KE_PAYLOAD, exchanges      *)
(* deferred for want of a path.                                            *)
(*                                                                         *)
(* The network may lose, repeat, reorder and delay messages: net keeps     *)
(* every message ever sent, and any of them may arrive any number of       *)
(* times.  The initiator makes a single keying try.                        *)
(***************************************************************************)
EXTENDS Naturals, FiniteSets, Sequences

CONSTANTS Scenarios,    \* what the peers are configured for and asked to do
          RetransmitTries, ProbingTries, MaxRetries,
          MaxMid,       \* bound: message IDs used
          MaxSas        \* bound: IKE_SAs the responder creates

Initiator == "initiator"
Responder == "responder"
Peers == {Initiator, Responder}
Other(p) == IF p = Initiator THEN Responder ELSE Initiator

\* The tasks a user, a timer or the network queues.  CHILD is the creation of
\* a CHILD_SA; what rekeying one adds is in ChildRekey.
Queueable == {"CHILD", "DPD", "MOBIKE", "DELETE"}
Tasks == Queueable \cup {"INIT", "AUTH"}

\* work and requests: the tasks queued at each peer and a bound on the requests
\* it makes after the IKE_SA is set up; hurdles and group: what the responder may
\* answer IKE_SA_INIT with, the DH group it insists on.
Scenario == [work : [Peers -> SUBSET Queueable], requests : [Peers -> Nat],
             hurdles : SUBSET {"COOKIE", "FAIL"}, group : 1..2, sas : 0..MaxSas]

ASSUME TaskManagerConstants ==
    /\ Scenarios \subseteq Scenario
    /\ {RetransmitTries, ProbingTries, MaxRetries, MaxMid, MaxSas} \subseteq Nat
    /\ \A c \in Scenarios, p \in Peers : c.requests[p] + 3 <= MaxMid

VARIABLES sa,           \* sa[p]: the IKE_SA of p and its task manager
          half,         \* the half-open IKE_SAs of the responder
          scene,        \* the scenario, chosen at the start
          spis,         \* number of IKE_SAs the responder has created
          net,          \* every message sent so far
          left,         \* left[p]: requests p may still make (bound)
          calls, execs, answers     \* history: see Exchange

vars == <<sa, half, scene, spis, net, left, calls, execs, answers>>

Undefined == "UNDEFINED"
ExchangeOf(k) == CASE k = "INIT" -> "IKE_SA_INIT"
                   [] k = "AUTH" -> "IKE_AUTH"
                   [] k = "CHILD" -> "CREATE_CHILD_SA"
                   [] k \in {"DPD", "MOBIKE", "DELETE"} -> "INFORMATIONAL"
ExchangeTypes == {ExchangeOf(k) : k \in Tasks}

\* What tells two IKE_SA_INIT requests of the initiator apart.
Inits == [cookie : BOOLEAN, dh : 1..2]
FirstInit == [cookie |-> FALSE, dh |-> 1]
Results == {"OK", "MORE", "FAIL", "COOKIE", "INVALID_KE"}
Mids == 0..MaxMid

\* body is what a request asks for and how a response answers it; to is the
\* request a response answers; init is the IKE_SA_INIT request concerned.
Message == [from : Peers, req : BOOLEAN, mid : Mids, type : ExchangeTypes,
            spi : 0..MaxSas, init : Inits, body : Tasks \cup Results, to : Tasks]

Blank == [state |-> "NONE", init |-> FirstInit, spi |-> 0,
          imid |-> 0, itype |-> Undefined, ipkt |-> {}, tries |-> 0,
          deferred |-> FALSE, probing |-> FALSE, roamed |-> FALSE, retry |-> 0,
          jobs |-> [n \in Mids |-> 0],
          rmid |-> 0, rpkt |-> {},
          queued |-> [k \in Tasks |-> 0], active |-> {}]

Init == /\ sa = [p \in Peers |-> IF p = Initiator
                                 THEN [Blank EXCEPT !.state = "CREATED"] ELSE Blank]
        /\ scene \in Scenarios
        /\ half = {} /\ spis = 0 /\ net = {}
        /\ left = scene.requests
        /\ calls = [p \in Peers |-> <<>>]
        /\ execs = [p \in Peers |-> <<>>]
        /\ answers = [p \in Peers |-> <<>>]

-----------------------------------------------------------------------------
(* The parts of a step.  Each maps the IKE_SA of a peer to what becomes of *)
(* it, the messages sent and the calls made.                               *)

Result(s, out, called) == [sa |-> s, out |-> out, called |-> called]

\* flush() and the destruction of the IKE_SA by the job that had it.
Destroyed(s) == [Blank EXCEPT !.state = "GONE", !.imid = s.imid, !.rmid = s.rmid,
                              !.spi = s.spi, !.init = s.init, !.retry = s.retry]

Request(p, s, k) == [from |-> p, req |-> TRUE, mid |-> s.imid, type |-> ExchangeOf(k),
                     spi |-> s.spi, init |-> s.init, body |-> k, to |-> k]

Response(p, s, m, res) == [m EXCEPT !.from = p, !.req = FALSE, !.spi = s.spi, !.body = res]

\* A slip: the number of tries is never compared with the limit.
Retransmit_Forever(s, n, path) ==
    LET mobike == s.itype = "INFORMATIONAL" /\ "MOBIKE" \in s.active IN
    CASE n # s.imid \/ s.ipkt = {} -> Result(s, {}, <<>>)
      [] n = s.imid /\ s.ipkt # {} /\ mobike /\ path = "none" ->
           Result([s EXCEPT !.probing = TRUE, !.deferred = TRUE], {}, <<>>)
      [] OTHER -> Result([s EXCEPT !.tries = 1, !.jobs[n] = @ + 1], s.ipkt, <<>>)

\* retransmit(): path is what ike_mobike_t.transmit() finds, the current path,
\* another one or none.
Retransmit(s, n, path) ==
    LET mobike == s.itype = "INFORMATIONAL" /\ "MOBIKE" \in s.active
        limit  == IF mobike /\ s.probing THEN ProbingTries ELSE RetransmitTries
        probes == s.probing \/ (mobike /\ path # "current")
    IN  CASE n # s.imid \/ s.ipkt = {} -> Result(s, {}, <<>>)
          [] n = s.imid /\ s.ipkt # {} /\ s.tries > limit -> Result(Destroyed(s), {}, <<>>)
          [] n = s.imid /\ s.ipkt # {} /\ s.tries <= limit /\ mobike /\ path = "none" ->
               Result([s EXCEPT !.probing = TRUE, !.deferred = TRUE], {}, <<>>)
          [] OTHER ->
               Result([s EXCEPT !.probing = probes, !.tries = @ + 1, !.jobs[n] = @ + 1],
                      s.ipkt, <<>>)

\* activate_task() in the order of initiate().
Priority == <<"MOBIKE", "DELETE", "CHILD", "DPD">>
NextQueued(s) == CHOOSE i \in 1..Len(Priority) :
                   /\ s.queued[Priority[i]] > 0
                   /\ \A j \in 1..(i - 1) : s.queued[Priority[j]] = 0
Activate(s) ==
    CASE s.active = {} /\ s.state = "CREATED" /\ s.queued["INIT"] > 0 ->
           [s EXCEPT !.imid = 0, !.active = {"INIT", "AUTH"},
                     !.queued["INIT"] = @ - 1, !.queued["AUTH"] = @ - 1]
      [] s.active = {} /\ s.state = "ESTABLISHED"
                       /\ \E k \in Queueable : s.queued[k] > 0 ->
           LET k == Priority[NextQueued(s)] IN
           [s EXCEPT !.active = {k}, !.queued[k] = @ - 1, !.probing = (k = "MOBIKE" /\ s.roamed)]
      [] OTHER -> s

\* The task whose exchange is next; IKE_AUTH comes after IKE_SA_INIT.
Current(s) == IF "INIT" \in s.active THEN "INIT" ELSE CHOOSE k \in s.active : TRUE

\* build_i() of ike_init_t: too many restarts.
GivesUp(s, k) == k = "INIT" /\ s.retry >= MaxRetries

\* build_i() of the task: the state it sets.
Built(s, k) == CASE k = "INIT" -> [s EXCEPT !.state = "CONNECTING"]
                 [] k = "DELETE" -> [s EXCEPT !.state = "DELETING"]
                 [] OTHER -> s

Initiate(p, s, path) ==
    LET a == Activate(s)
        k == Current(a)
        b == [Built(a, k) EXCEPT !.itype = ExchangeOf(k), !.tries = 0, !.deferred = FALSE,
                                 !.ipkt = @ \cup {Request(p, a, k)}]
        r == Retransmit(b, b.imid, path)
    IN  CASE s.itype # Undefined /\ s.deferred ->
               Retransmit([s EXCEPT !.deferred = FALSE, !.tries = 0], s.imid, path)
          [] s.itype # Undefined /\ ~s.deferred -> Result(s, {}, <<>>)
          [] s.itype = Undefined /\ a.active = {} -> Result(s, {}, <<>>)
          [] s.itype = Undefined /\ a.active # {} /\ GivesUp(s, k) ->
               Result(Destroyed(a), {}, <<>>)
          [] OTHER -> [r EXCEPT !.called = IF k = "INIT" THEN <<>> ELSE <<k>>]

\* reset() of the IKE_SA and its task manager: retransmit jobs stay scheduled.
Reset(s) == [s EXCEPT !.state = "CREATED", !.spi = 0, !.imid = 0, !.itype = Undefined,
                      !.ipkt = {}, !.rmid = 0, !.rpkt = {}, !.active = {},
                      !.queued = [k \in Tasks |-> @[k] + IF k \in s.active THEN 1 ELSE 0]]

\* The end of process_response(): the exchange is over, active tasks go on.
Advance(s) == [s EXCEPT !.imid = @ + 1, !.itype = Undefined, !.ipkt = {}]

\* process_i() of ike_init_t.
InitAnswered(p, s, m, path) ==
    CASE m.body = "COOKIE" ->
           Initiate(p, [Reset(s) EXCEPT !.init.cookie = TRUE, !.retry = @ + 1], path)
      [] m.body = "INVALID_KE" ->
           Initiate(p, [Reset(s) EXCEPT !.init.dh = 2, !.retry = @ + 1], path)
      [] m.body = "OK" /\ m.init.dh = s.init.dh ->
           Initiate(p, Advance([s EXCEPT !.spi = m.spi, !.active = {"AUTH"}]), path)
      [] OTHER -> Result(Destroyed(s), {}, <<>>)

\* process_i() of ike_auth_t: the initiator may still reject the responder,
\* and says so in a request it does not repeat.
AuthAnswered(p, s, m, accept, path) ==
    LET n == Advance([s EXCEPT !.active = {}]) IN
    CASE m.body = "MORE" /\ accept -> Initiate(p, Advance(s), path)
      [] m.body = "OK" /\ accept -> Initiate(p, [n EXCEPT !.state = "ESTABLISHED"], path)
      [] m.body \in {"OK", "MORE"} /\ ~accept ->
           Result(Destroyed(s), {Request(p, n, "DELETE")}, <<"DELETE">>)
      [] OTHER -> Result(Destroyed(s), {}, <<>>)

\* The tasks that stay active for another exchange: a CHILD_SA retried with
\* another DH group, a MOBIKE update after a probe.
StillActive(s, m, more) ==
    LET k == Current(s) IN
    CASE k = "CHILD" /\ m.body = "MORE" -> {"CHILD"}
      [] k = "MOBIKE" /\ more -> {"MOBIKE"}
      [] OTHER -> {}

\* process_response().
ProcessResponse(p, s, m, accept, more, path) ==
    LET k == Current(s) IN
    CASE m.type # s.itype \/ k = "DELETE" -> Result(Destroyed(s), {}, <<>>)
      [] m.type = s.itype /\ k = "INIT" -> InitAnswered(p, s, m, path)
      [] m.type = s.itype /\ k = "AUTH" -> AuthAnswered(p, s, m, accept, path)
      [] OTHER -> Initiate(p, Advance([s EXCEPT !.active = StillActive(s, m, more),
                                                !.probing = FALSE]), path)

-----------------------------------------------------------------------------
Alive(p) == sa[p].state \notin {"NONE", "GONE"}
\* Paths are looked for by MOBIKE tasks only.
AllPaths == {"current", "other", "none"}
Paths(p) == IF "MOBIKE" \in sa[p].active \/ sa[p].queued["MOBIKE"] > 0
            THEN AllPaths ELSE {"current"}

Step(p, r) == /\ sa' = [sa EXCEPT ![p] = r.sa]
              /\ net' = net \cup r.out
              /\ calls' = [calls EXCEPT ![p] = @ \o r.called]

\* ike_sa_t.initiate() on a new IKE_SA: queue_ike().
Connect ==
    LET s == sa[Initiator] IN
    /\ s.state = "CREATED" /\ s.itype = Undefined /\ s.queued["INIT"] = 0
    /\ Step(Initiator, Initiate(Initiator, [s EXCEPT !.queued["INIT"] = 1,
                                                     !.queued["AUTH"] = 1], "current"))
    /\ UNCHANGED <<half, scene, spis, left, execs, answers>>

\* A further CHILD_SA, or dead peer detection while no task is active: the
\* task is queued and initiated.
Queue(p, k, path) ==
    LET s == sa[p] IN
    /\ s.state = "ESTABLISHED" /\ k \in scene.work[p] \cap {"CHILD", "DPD"} /\ left[p] > 0
    /\ k = "DPD" => s.active = {}
    /\ left' = [left EXCEPT ![p] = @ - 1]
    /\ Step(p, Initiate(p, [s EXCEPT !.queued[k] = @ + 1], path))
    /\ UNCHANGED <<half, scene, spis, execs, answers>>

\* ike_sa_t.roam() and queue_mobike(): an address list update if the current
\* path is still valid, a probing of paths otherwise, which an active MOBIKE
\* task joins.  Only one MOBIKE task waits at a time.
Roam(p, path) ==
    LET s == sa[p]
        dropped == s.queued["MOBIKE"] > 0
        roam == path = "other"
        q == [s EXCEPT !.queued["MOBIKE"] = 1,
                       !.roamed = IF dropped THEN @ ELSE roam,
                       !.probing = @ \/ (roam /\ "MOBIKE" \in s.active)]
    IN  /\ s.state = "ESTABLISHED" /\ "MOBIKE" \in scene.work[p] /\ path # "none"
        /\ dropped \/ left[p] > 0
        /\ left' = [left EXCEPT ![p] = IF dropped THEN @ ELSE @ - 1]
        /\ Step(p, Initiate(p, q, path))
        /\ UNCHANGED <<half, scene, spis, execs, answers>>

\* ike_sa_t.delete(): an IKE_SA that is not established goes without notice.
Delete(p, path) ==
    LET s == sa[p] IN
    /\ Alive(p) /\ "DELETE" \in scene.work[p] /\ left[p] > 0
    /\ left' = [left EXCEPT ![p] = @ - 1]
    /\ Step(p, IF s.state = "ESTABLISHED"
               THEN Initiate(p, [s EXCEPT !.queued["DELETE"] = @ + 1], path)
               ELSE Result(Destroyed(s), {}, <<>>))
    /\ UNCHANGED <<half, scene, spis, execs, answers>>

\* A retransmit job is due: it is gone, whether or not its exchange still is.
RetransmitJob(p, n, path) ==
    LET s == [sa[p] EXCEPT !.jobs[n] = @ - 1] IN
    /\ sa[p].jobs[n] > 0
    /\ Step(p, Retransmit(s, n, path))
    /\ UNCHANGED <<half, scene, spis, left, execs, answers>>

-----------------------------------------------------------------------------
\* The IKE_SAs of the responder that came from this IKE_SA_INIT request and
\* still answer a repetition of it (init hash, stored response).
Known(m) == \/ \E h \in half : h.init = m.init
            \/ Alive(Responder) /\ sa[Responder].init = m.init

\* The answer of ike_init_t, or the COOKIE that the receiver sends in its place.
InitReply(m, spi, res) == Response(Responder, [Blank EXCEPT !.spi = spi], m, res)

\* A new IKE_SA_INIT request reaches the responder: the receiver asks for a
\* cookie, or an IKE_SA is created and answers it, for good or to fail.
ReceiveInit(m, res) ==
    /\ m.type = "IKE_SA_INIT" /\ m.req /\ ~Known(m)
    /\ \/ res = "OK" /\ spis < scene.sas /\ m.init.dh = scene.group
       \/ res = "FAIL" /\ "FAIL" \in scene.hurdles
       \/ res = "COOKIE" /\ "COOKIE" \in scene.hurdles /\ ~m.init.cookie
       \/ res = "INVALID_KE" /\ m.init.dh # scene.group
    /\ IF res = "OK" THEN /\ spis' = spis + 1
                          /\ half' = half \cup {[spi |-> spis + 1, init |-> m.init]}
                     ELSE UNCHANGED <<spis, half>>
    /\ net' = net \cup {InitReply(m, IF res = "OK" THEN spis + 1 ELSE 0, res)}
    /\ UNCHANGED <<sa, scene, left, calls, execs, answers>>

\* delete_ike_sa_job_t, scheduled with half_open_timeout for every IKE_SA that
\* a request created; it spares one that got beyond CONNECTING.
HalfOpenTimeout(n) ==
    LET s == sa[Responder] IN
    /\ \/ /\ \E h \in half : h.spi = n /\ half' = half \ {h}
          /\ UNCHANGED sa
       \/ /\ s.state = "CONNECTING" /\ s.spi = n
          /\ sa' = [sa EXCEPT ![Responder] = Destroyed(s)]
          /\ UNCHANGED half
    /\ UNCHANGED <<scene, spis, net, left, calls, execs, answers>>

\* checkout_by_message(): the IKE_SA a request is for.  The first IKE_AUTH
\* request is for a half-open one.
Opened(h) == [Blank EXCEPT !.state = "CONNECTING", !.spi = h.spi, !.init = h.init, !.rmid = 1]
Addressed(p, m) ==
    {s \in {sa[p]} : Alive(p) /\ m.spi # 0 /\ s.spi = m.spi}
      \cup {Opened(h) : h \in {h \in half : /\ p = Responder /\ sa[p].state = "NONE"
                                            /\ h.spi = m.spi}}

\* A slip: what was signed is not compared.
Outcomes_Unsigned(s, m) ==
    CASE m.body = "AUTH" -> {"OK", "MORE", "FAIL"}
      [] m.body = "CHILD" -> {"OK", "MORE"}
      [] OTHER -> {"OK"}

\* The outcomes of the tasks a request creates: IKE_AUTH fails unless the
\* peers agree on the IKE_SA_INIT request that is signed.
Outcomes(s, m) ==
    CASE m.body = "AUTH" /\ m.init # s.init -> {"FAIL"}
      [] m.body = "AUTH" /\ m.init = s.init -> {"OK", "MORE", "FAIL"}
      [] m.body = "CHILD" -> {"OK", "MORE"}
      [] OTHER -> {"OK"}

\* A slip: the previous response is kept, the new one only sent.
Answer_NotStored(s, reply) == [s EXCEPT !.rmid = @ + 1]

\* The response is stored for repetitions of the request, and the next message
\* ID expected.
Answer(s, reply) == [s EXCEPT !.rpkt = {reply}, !.rmid = @ + 1]

\* process_request() and build_response(): the response is stored and sent,
\* also if the IKE_SA ends with it.
ProcessRequest(p, s, m, res) ==
    LET reply == Response(p, s, m, res)
        done  == Answer(s, reply)
        ends  == m.body = "DELETE" \/ (m.body = "AUTH" /\ res = "FAIL")
        established == m.body = "AUTH" /\ res = "OK"
    IN  Result(IF ends THEN Destroyed(done)
               ELSE IF established THEN [done EXCEPT !.state = "ESTABLISHED"] ELSE done,
               {reply}, <<>>)

\* A slip: a repeated request counts as expected.
Expected_Repeated(s, m) == m.mid <= s.rmid

\* The message ID process_message() takes for a new request.
Expected(s, m) == m.mid = s.rmid

\* process_message(), the request with the message ID that is expected.
ReceiveRequest(p, m, res) == \E s \in Addressed(p, m) :
    /\ m.req /\ m.from = Other(p) /\ Expected(s, m)
    /\ m.type = "IKE_AUTH" => s.state = "CONNECTING"
    /\ res \in Outcomes(s, m)
    /\ res = "MORE" => left[m.from] > 0
    /\ left' = [left EXCEPT ![m.from] = IF res = "MORE" THEN @ - 1 ELSE @]
    /\ Step(p, ProcessRequest(p, s, m, res))
    /\ half' = {h \in half : h.spi # s.spi}
    /\ execs' = [execs EXCEPT ![p] = Append(@, m.body)]
    /\ UNCHANGED <<scene, spis, answers>>

\* process_message(), a repeated request: the stored response is sent again.
RepeatResponse(p, m) ==
    /\ m.req /\ m.from = Other(p)
    /\ \E s \in Addressed(p, m) : /\ m.mid + 1 = s.rmid
                                  /\ net' = net \cup s.rpkt
    /\ UNCHANGED <<sa, half, scene, spis, left, calls, execs, answers>>

\* process_message(), the response to the message ID in the air.  A MOBIKE
\* task that finds another one queued leaves the update to it.
ReceiveResponse(p, m, accept, more, path) ==
    LET s == sa[p] IN
    /\ ~m.req /\ m.from = Other(p) /\ Alive(p)
    /\ m.mid = s.imid
    /\ m.spi = s.spi \/ m.type = "IKE_SA_INIT"
    /\ accept \/ m.type = "IKE_AUTH"
    /\ more => "MOBIKE" \in s.active /\ s.probing /\ s.queued["MOBIKE"] = 0 /\ left[p] > 0
    /\ left' = [left EXCEPT ![p] = IF more THEN @ - 1 ELSE @]
    /\ Step(p, ProcessResponse(p, s, m, accept, more, path))
    /\ answers' = [answers EXCEPT ![p] = IF m.type = "IKE_SA_INIT" THEN @ ELSE Append(@, m.to)]
    /\ UNCHANGED <<half, scene, spis, execs>>

Receive == \E m \in net :
    \/ \E res \in Results : ReceiveInit(m, res)
    \/ \E p \in Peers :
          \/ \E res \in Results : ReceiveRequest(p, m, res)
          \/ RepeatResponse(p, m)
          \/ \E accept, more \in BOOLEAN, path \in Paths(p) :
                ReceiveResponse(p, m, accept, more, path)

Next == \/ Connect
        \/ \E n \in 1..MaxSas : HalfOpenTimeout(n)
        \/ Receive
        \/ \E p \in Peers, path \in AllPaths : Roam(p, path)
        \/ \E p \in Peers : \E path \in Paths(p) :
              \/ \E k \in Queueable : Queue(p, k, path)
              \/ Delete(p, path)
              \/ \E n \in Mids : RetransmitJob(p, n, path)

\* Some scheduled job of a peer is executed as long as there is one: which of
\* them is left open.  The network owes nothing.
Fairness ==
    /\ \A p \in Peers : WF_vars(\E n \in Mids, path \in Paths(p) : RetransmitJob(p, n, path))
    /\ WF_vars(\E n \in 1..MaxSas : HalfOpenTimeout(n))

Spec == Init /\ [][Next]_vars /\ Fairness

=============================================================================
