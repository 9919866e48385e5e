------------------------- MODULE TaskManagerProofs --------------------------
(***************************************************************************)
(* The task managers of two peers implement at-most-once calls, whatever   *)
(* the network does, for any scenario: any tasks, any number of requests,  *)
(* half-open IKE_SAs, restarts and retransmissions; and an exchange stays  *)
(* sound at both ends while they do.                                       *)
(***************************************************************************)
EXTENDS TaskManagerProps, SequenceTheorems, FiniteSetTheorems, TLAPS

-----------------------------------------------------------------------------
(* The inductive invariant *)

\* The message ID of the first call: IKE_SA_INIT is not one.
Base(p) == IF p = Initiator THEN 1 ELSE 0

States == {"NONE", "CREATED", "CONNECTING", "ESTABLISHED", "DELETING", "GONE"}

\* The types, without the bound on message IDs, which is a matter of counting.
Messages == [from : Peers, req : BOOLEAN, mid : Nat, type : ExchangeTypes,
             spi : 0..MaxSas, init : Inits, body : Tasks \cup Results, to : Tasks]
Saves == [state : States, init : Inits, spi : 0..MaxSas, imid : Nat,
          itype : ExchangeTypes \cup {Undefined}, ipkt : SUBSET Messages,
          tries : Nat, deferred : BOOLEAN, probing : BOOLEAN, roamed : BOOLEAN, retry : Nat,
          jobs : [Mids -> Nat], rmid : Nat, rpkt : SUBSET Messages,
          queued : [Tasks -> Nat], active : SUBSET Tasks]
LooseType ==
    /\ sa \in [Peers -> Saves]
    /\ half \subseteq [spi : 1..MaxSas, init : Inits]
    /\ scene \in Scenarios
    /\ spis \in 0..MaxSas
    /\ net \subseteq Messages
    /\ left \in [Peers -> Nat]
    /\ calls \in [Peers -> Seq(Tasks)]
    /\ execs \in [Peers -> Seq(Tasks)]
    /\ answers \in [Peers -> Seq(Tasks)]

\* The state of an IKE_SA with the exchange of task k in the air.
StateIn(k) == CASE k \in {"INIT", "AUTH"} -> "CONNECTING"
                [] k = "DELETE" -> "DELETING"
                [] OTHER -> "ESTABLISHED"

\* Nothing is in the air.
Quiet(p, s, c, a) ==
    /\ s.itype = Undefined /\ s.active = {} /\ s.ipkt = {}
    /\ s.state = "NONE" => p = Responder /\ s.imid = 0 /\ c = <<>> /\ a = 0 /\ s.spi = 0
    /\ s.state = "CREATED" => p = Initiator /\ s.imid = 0 /\ c = <<>> /\ a = 0 /\ s.spi = 0
    /\ s.state = "CONNECTING" => p = Responder
    /\ s.state \notin {"CREATED", "GONE"} => s.imid = Len(c) + Base(p) /\ a = Len(c)
    /\ s.state # "DELETING"

\* The exchange of task k is in the air.
Calling(p, s, c, a, k) ==
    /\ s.itype = ExchangeOf(k) /\ s.state = StateIn(k)
    /\ k \in {"INIT", "AUTH"} => p = Initiator
    /\ s.active = IF k = "INIT" THEN {"INIT", "AUTH"} ELSE {k}
    /\ s.imid + 1 = Len(c) + Base(p)
    /\ k = "INIT" => s.spi = 0 /\ c = <<>> /\ a = 0
    /\ k # "INIT" => Len(c) = a + 1 /\ c[Len(c)] = k
    /\ \E m \in s.ipkt : s.ipkt = {m} /\ m.mid = s.imid /\ m.type = s.itype

\* A peer with record s, calls c and a answers.
PeerOf(p, s, c, a) ==
    /\ s.queued["INIT"] = 0 /\ s.queued["AUTH"] = 0
    /\ Quiet(p, s, c, a) \/ \E k \in Tasks : Calling(p, s, c, a, k)

\* What was sent, and what was answered.
ReqOf(m, c, i) ==
    /\ m.req /\ m.body \in Tasks /\ m.to = m.body /\ m.type = ExchangeOf(m.body)
    /\ m.body = "INIT" => m.from = Initiator /\ m.spi = 0 /\ m.mid = 0
    /\ m.body # "INIT" =>
         /\ m.mid + 1 - Base(m.from) \in 1..Len(c[m.from])
         /\ c[m.from][m.mid + 1 - Base(m.from)] = m.body
         /\ m.from = Responder => m.body \in Queueable
         /\ m.from = Initiator => m.init = i

RespOf(m, x, i, r) ==
    /\ ~m.req /\ m.type = ExchangeOf(m.to)
    /\ m.to = "INIT" => m.from = Responder /\ m.mid = 0 /\ (m.body = "OK" => m.spi # 0)
    /\ m.to # "INIT" =>
         /\ m.mid + 1 - Base(Other(m.from)) \in 1..Len(x[m.from])
         /\ x[m.from][m.mid + 1 - Base(Other(m.from))] = m.to
         /\ m.from = Responder => m.spi = r.spi /\ m.init = i
         /\ m.from = Responder /\ m.to = "AUTH" /\ m.body = "OK" =>
              m.init = r.init /\ r.state \in {"ESTABLISHED", "DELETING", "GONE"}

Sent(m) == IF m.req THEN ReqOf(m, calls, sa[Initiator].init)
                    ELSE RespOf(m, execs, sa[Initiator].init, sa[Responder])

\* What the other peer executes is what was called, and only that is answered.
History(p) == LET q == Other(p) IN
    /\ Len(answers[p]) <= Len(execs[q]) /\ Len(execs[q]) <= Len(calls[p])
    /\ \A j \in 1..Len(execs[q]) : execs[q][j] = calls[p][j]

\* What it expects next is what it has not executed, and it keeps its last response.
Receives(p) ==
    /\ sa[p].state = "NONE" => execs[p] = <<>> /\ sa[p].rpkt = {}
    /\ sa[p].state # "NONE" => sa[p].rmid = Len(execs[p]) + Base(Other(p))
    /\ Alive(p) /\ execs[p] # <<>> =>
         \E m \in sa[p].rpkt : /\ m.mid + 1 = sa[p].rmid
                               /\ m.type = ExchangeOf(execs[p][Len(execs[p])])
    /\ sa[p].rpkt \subseteq net
    /\ p = Responder /\ Alive(p) => sa[p].spi # 0
    /\ p = Initiator /\ sa[p].spi = 0 => execs[p] = <<>>
    /\ p = Responder /\ sa[p].state # "NONE" => execs[p] # <<>>

CallInv ==
    /\ \A p \in Peers : /\ PeerOf(p, sa[p], calls[p], Len(answers[p]))
                        /\ \A m \in sa[p].ipkt : m.from = p /\ m.req /\ Sent(m)
                        /\ History(p) /\ Receives(p)
    /\ \A m \in net : Sent(m)
    /\ sa[Initiator].state = "CREATED" => net = {}
    /\ SetupAgrees

ExchInv == LooseType /\ CallInv

\* An exchange in the air has a retransmit job, or is deferred.
AirOk(s) == s.itype # Undefined => s.deferred \/ s.jobs[s.imid] > 0

\* The messages a peer has yet to send: for its queued tasks, for its active
\* ones and for setting up the IKE_SA.
Waiting(w) == w["MOBIKE"] + w["DELETE"] + w["CHILD"] + w["DPD"]
Stage(s) == IF s.state = "CREATED" \/ "INIT" \in s.active THEN 2
            ELSE IF s.active = {} THEN 0 ELSE 1
Due(s) == Waiting(s.queued) + Stage(s)

\* The answer to the exchange in the air asks for another one.
MoreDue(p) == \E m \in net : /\ ~m.req /\ m.from = Other(p) /\ m.mid = sa[p].imid
                             /\ m.to # "INIT" /\ m.body = "MORE"
Extra(p) == IF MoreDue(p) THEN 1 ELSE 0

RetryOk(s) == s.retry <= MaxRetries /\ ("INIT" \in s.active => s.retry < MaxRetries)

\* The message IDs that are used, due and left are not more than there are.
Limit(p) == scene.requests[p] + IF p = Initiator THEN 2 ELSE 0
Budget(p) == sa[p].imid + Due(sa[p]) + left[p] + Extra(p) <= Limit(p)

TallyInv == \A p \in Peers :
    /\ Budget(p)
    /\ Len(calls[p]) + Base(p) <= MaxMid
    /\ AirOk(sa[p]) /\ RetryOk(sa[p])
    /\ sa[p].state = "NONE" => sa[p].rmid = 0

-----------------------------------------------------------------------------
(* What the parts of a step do to the record of a peer *)

LEMMA TasksFacts ==
    /\ Tasks = {"CHILD", "DPD", "MOBIKE", "DELETE", "INIT", "AUTH"}
    /\ ExchangeOf("INIT") = "IKE_SA_INIT"
    /\ ExchangeOf("AUTH") = "IKE_AUTH"
    /\ ExchangeOf("CHILD") = "CREATE_CHILD_SA"
    /\ ExchangeOf("DPD") = "INFORMATIONAL"
    /\ ExchangeOf("MOBIKE") = "INFORMATIONAL"
    /\ ExchangeOf("DELETE") = "INFORMATIONAL"
BY DEF Tasks, Queueable, ExchangeOf

LEMMA ExchangeFacts ==
    /\ \A k \in Tasks : ExchangeOf(k) \in ExchangeTypes /\ ExchangeOf(k) # Undefined
    /\ \A k \in Tasks : ExchangeOf(k) = "IKE_SA_INIT" => k = "INIT"
    /\ \A k \in Tasks : ExchangeOf(k) = "IKE_AUTH" => k = "AUTH"
BY TasksFacts DEF ExchangeTypes, Undefined

\* t has the exchange of s: only tries, jobs, deferred, probing and roamed differ.
Kept(t, s) ==
    /\ t.state = s.state /\ t.init = s.init /\ t.spi = s.spi
    /\ t.imid = s.imid /\ t.itype = s.itype /\ t.ipkt = s.ipkt
    /\ t.rmid = s.rmid /\ t.rpkt = s.rpkt
    /\ t.queued = s.queued /\ t.active = s.active /\ t.retry = s.retry

\* t is what is left of s.
Ended(t, s) ==
    /\ t.state = "GONE" /\ t.init = s.init /\ t.spi = s.spi
    /\ t.imid = s.imid /\ t.itype = Undefined /\ t.ipkt = {}
    /\ t.rmid = s.rmid /\ t.rpkt = {}
    /\ t.queued = [k \in Tasks |-> 0] /\ t.active = {} /\ t.retry = s.retry

LEMMA BlankType == Blank \in Saves
<1>1. FirstInit \in Inits
  BY DEF FirstInit, Inits
<1>2. [n \in Mids |-> 0] \in [Mids -> Nat] /\ [k \in Tasks |-> 0] \in [Tasks -> Nat]
  OBVIOUS
<1> QED
  BY <1>1, <1>2, TaskManagerConstants DEF Blank, Saves, States

LEMMA DestroyedFacts ==
    ASSUME NEW s \in Saves
    PROVE  Destroyed(s) \in Saves /\ Ended(Destroyed(s), s)
<1> DEFINE d == Destroyed(s)
<1>1. d = [Blank EXCEPT !.state = "GONE", !.imid = s.imid, !.rmid = s.rmid,
                        !.spi = s.spi, !.init = s.init, !.retry = s.retry]
  BY DEF Destroyed
<1>2. s.imid \in Nat /\ s.rmid \in Nat /\ s.spi \in 0..MaxSas /\ s.init \in Inits /\ s.retry \in Nat
  BY DEF Saves
<1>3. d \in Saves
  BY <1>1, <1>2, BlankType DEF Saves, States
<1>4. Ended(d, s)
  BY <1>1 DEF Ended, Blank
<1> QED
  BY <1>3, <1>4

LEMMA RetransmitFacts ==
    ASSUME NEW s \in Saves, NEW n \in Nat, NEW path \in AllPaths
    PROVE  LET r == Retransmit(s, n, path) IN
           /\ r.sa \in Saves /\ r.out \subseteq s.ipkt /\ r.called = <<>>
           /\ Kept(r.sa, s) \/ (Ended(r.sa, s) /\ s.tries # 0 /\ s.ipkt # {} /\ r.out = {})
           /\ s.imid \in Mids /\ (AirOk(s) \/ (n = s.imid /\ s.ipkt # {})) => AirOk(r.sa)
<1> DEFINE mobike == s.itype = "INFORMATIONAL" /\ "MOBIKE" \in s.active
           limit  == IF mobike /\ s.probing THEN ProbingTries ELSE RetransmitTries
           probes == s.probing \/ (mobike /\ path # "current")
           r == Retransmit(s, n, path)
           u == [s EXCEPT !.probing = TRUE, !.deferred = TRUE]
           v == [s EXCEPT !.probing = probes, !.tries = @ + 1, !.jobs[n] = @ + 1]
<1>0. limit \in Nat
  BY TaskManagerConstants
<1>1. \/ (n # s.imid \/ s.ipkt = {}) /\ r = Result(s, {}, <<>>)
      \/ s.tries > limit /\ s.ipkt # {} /\ r = Result(Destroyed(s), {}, <<>>)
      \/ r = Result(u, {}, <<>>)
      \/ n = s.imid /\ r = Result(v, s.ipkt, <<>>)
  BY DEF Retransmit
<1>2. s.tries \in Nat /\ s.jobs \in [Mids -> Nat] /\ s.probing \in BOOLEAN
  BY DEF Saves
<1> DEFINE j == [s.jobs EXCEPT ![n] = @ + 1]
<1>3. j \in [Mids -> Nat]
  <2>1. CASE n \in Mids
    BY <1>2, <2>1
  <2>2. CASE n \notin Mids
    <3>1. j = s.jobs
      BY <1>2, <2>2
    <3> QED
      BY <3>1, <1>2
  <2> QED
    BY <2>1, <2>2
<1>4. u \in Saves /\ Kept(u, s)
  BY DEF Saves, Kept
<1>5. probes \in BOOLEAN
  BY <1>2
<1> HIDE DEF probes
<1>6. v \in Saves
  <2> HIDE DEF j
  <2>1. \A b \in BOOLEAN, c \in Nat, i \in [Mids -> Nat] :
           [s EXCEPT !.probing = b, !.tries = c, !.jobs = i] \in Saves
    BY DEF Saves
  <2>2. v = [s EXCEPT !.probing = probes, !.tries = s.tries + 1, !.jobs = j]
    BY DEF j
  <2>3. s.tries + 1 \in Nat
    BY <1>2
  <2> HIDE DEF v
  <2> QED
    BY <2>1, <2>2, <2>3, <1>3, <1>5
<1>7. Kept(v, s)
  BY DEF Kept, Saves
<1>8. Destroyed(s) \in Saves /\ Ended(Destroyed(s), s)
  BY DestroyedFacts
<1>8a. AirOk(Destroyed(s))
  BY <1>8 DEF Ended, AirOk
<1>8b. AirOk(u)
  BY DEF AirOk, Saves
<1>8c. n = s.imid /\ s.imid \in Mids => AirOk(v)
  <2> SUFFICES ASSUME n = s.imid, s.imid \in Mids PROVE AirOk(v)
    OBVIOUS
  <2>1. v.jobs = j /\ v.imid = n
    BY DEF Saves
  <2>2. j[n] > 0
    BY <1>2
  <2> QED
    BY <2>1, <2>2 DEF AirOk
<1>9. Kept(s, s)
  BY DEF Kept
<1> HIDE DEF r, u, v, limit
<1>a. CASE (n # s.imid \/ s.ipkt = {}) /\ r = Result(s, {}, <<>>)
  <2>1. r.sa = s /\ r.out = {} /\ r.called = <<>>
    BY <1>a DEF Result
  <2> QED
    BY <2>1, <1>9, <1>a DEF r
<1>b. CASE s.tries > limit /\ s.ipkt # {} /\ r = Result(Destroyed(s), {}, <<>>)
  <2>1. r.sa = Destroyed(s) /\ r.out = {} /\ r.called = <<>>
    BY <1>b DEF Result
  <2>2. s.tries # 0 /\ s.ipkt # {}
    BY <1>b, <1>0, <1>2
  <2> QED
    BY <2>1, <2>2, <1>8, <1>8a DEF r
<1>c. CASE r = Result(u, {}, <<>>)
  <2>1. r.sa = u /\ r.out = {} /\ r.called = <<>>
    BY <1>c DEF Result
  <2> QED
    BY <2>1, <1>4, <1>8b DEF r
<1>d. CASE n = s.imid /\ r = Result(v, s.ipkt, <<>>)
  <2>1. r.sa = v /\ r.out = s.ipkt /\ r.called = <<>>
    BY <1>d DEF Result
  <2> QED
    BY <2>1, <1>6, <1>7, <1>8c, <1>d DEF r
<1> QED
  BY <1>1, <1>a, <1>b, <1>c, <1>d

\* The exchange of task k has begun, with the tasks of a active.
Begun(p, t, a, k) ==
    /\ t.state = IF k = "INIT" THEN "CONNECTING" ELSE IF k = "DELETE" THEN "DELETING" ELSE a.state
    /\ t.init = a.init /\ t.spi = a.spi /\ t.retry = a.retry
    /\ t.imid = a.imid /\ t.itype = ExchangeOf(k) /\ t.ipkt = {Request(p, a, k)}
    /\ t.rmid = a.rmid /\ t.rpkt = a.rpkt
    /\ t.queued = a.queued /\ t.active = a.active
    /\ a.imid \in Mids => AirOk(t)

LEMMA RequestType ==
    ASSUME NEW p \in Peers, NEW a \in Saves, NEW k \in Tasks
    PROVE  Request(p, a, k) \in Messages
<1>1. a.imid \in Nat /\ a.spi \in 0..MaxSas /\ a.init \in Inits
  BY DEF Saves
<1>2. ExchangeOf(k) \in ExchangeTypes
  BY ExchangeFacts
<1> QED
  BY <1>1, <1>2 DEF Request, Messages

\* initiate() with a task activated that does not give up.
LEMMA InitiateCore ==
    ASSUME NEW p \in Peers, NEW path \in AllPaths, NEW s \in Saves, NEW a \in Saves, NEW k \in Tasks,
           s.itype = Undefined, a = Activate(s), a.active # {}, a.ipkt = {}, k = Current(a),
           ~GivesUp(s, k), NEW r, r = Initiate(p, s, path)
    PROVE  /\ r.sa \in Saves /\ Begun(p, r.sa, a, k) /\ r.out \subseteq {Request(p, a, k)}
           /\ k = "INIT" => r.called = <<>>
           /\ k # "INIT" => r.called = <<k>>
<1> DEFINE q == Request(p, a, k)
           b == [Built(a, k) EXCEPT !.itype = ExchangeOf(k), !.tries = 0, !.deferred = FALSE,
                                    !.ipkt = @ \cup {q}]
           v == Retransmit(b, b.imid, path)
<1>1. r = [v EXCEPT !.called = IF k = "INIT" THEN <<>> ELSE <<k>>]
  BY DEF Initiate
<1>2. /\ Built(a, k) \in Saves
      /\ Built(a, k).state = IF k = "INIT" THEN "CONNECTING" ELSE IF k = "DELETE" THEN "DELETING" ELSE a.state
      /\ Kept([Built(a, k) EXCEPT !.state = a.state], a)
  <2>1. CASE k = "INIT"
    BY <2>1 DEF Built, Saves, States, Kept
  <2>2. CASE k = "DELETE"
    BY <2>2 DEF Built, Saves, States, Kept
  <2>3. CASE k \notin {"INIT", "DELETE"}
    BY <2>3 DEF Built, Saves, States, Kept
  <2> QED
    BY <2>1, <2>2, <2>3
<1>3. PICK c \in Saves : c = Built(a, k)
  BY <1>2
<1>4. /\ c.state = IF k = "INIT" THEN "CONNECTING" ELSE IF k = "DELETE" THEN "DELETING" ELSE a.state
      /\ c.init = a.init /\ c.spi = a.spi /\ c.retry = a.retry
      /\ c.imid = a.imid /\ c.ipkt = {}
      /\ c.rmid = a.rmid /\ c.rpkt = a.rpkt
      /\ c.queued = a.queued /\ c.active = a.active
  BY <1>2, <1>3 DEF Kept, Saves
<1>5. q \in Messages
  BY RequestType
<1> HIDE DEF q
<1>6. b = [c EXCEPT !.itype = ExchangeOf(k), !.tries = 0, !.deferred = FALSE, !.ipkt = {q}]
  BY <1>3, <1>4
<1> HIDE DEF b
<1>7. ExchangeOf(k) \in ExchangeTypes
  BY ExchangeFacts
<1>8. b \in Saves
  <2>1. \A x \in ExchangeTypes, y \in SUBSET Messages :
           [c EXCEPT !.itype = x, !.tries = 0, !.deferred = FALSE, !.ipkt = y] \in Saves
    BY DEF Saves
  <2>2. {q} \in SUBSET Messages
    BY <1>5
  <2> QED
    BY <1>6, <1>7, <2>1, <2>2
<1>9. /\ b.itype = ExchangeOf(k) /\ b.tries = 0 /\ b.ipkt = {q}
      /\ b.state = c.state /\ b.init = c.init /\ b.spi = c.spi /\ b.retry = c.retry
      /\ b.imid = c.imid /\ b.rmid = c.rmid /\ b.rpkt = c.rpkt
      /\ b.queued = c.queued /\ b.active = c.active
  BY <1>6 DEF Saves
<1>10. b.imid \in Nat
  BY <1>8 DEF Saves
<1> HIDE DEF v
<1>11. /\ v.sa \in Saves /\ v.out \subseteq b.ipkt
       /\ Kept(v.sa, b)
       /\ b.imid \in Mids => AirOk(v.sa)
  BY <1>8, <1>9, <1>10, RetransmitFacts DEF v
<1>12. \E x, y, z : v = Result(x, y, z)
  BY DEF v, Retransmit
<1>13. r.sa = v.sa /\ r.out = v.out /\ r.called = IF k = "INIT" THEN <<>> ELSE <<k>>
  BY <1>1, <1>12 DEF Result
<1>14. Begun(p, r.sa, a, k)
  BY <1>4, <1>9, <1>11, <1>13 DEF Begun, Kept, q
<1>15. r.sa \in Saves /\ r.out \subseteq {q}
  BY <1>9, <1>11, <1>13
<1> QED
  BY <1>13, <1>14, <1>15 DEF q

\* IKE_SA_INIT is begun, with result r.
Restarted(p, s, r, a) ==
    /\ a = Activate(s) /\ Begun(p, r.sa, a, "INIT")
    /\ r.out \subseteq {Request(p, a, "INIT")}
    /\ a.init = s.init /\ a.spi = s.spi /\ a.retry = s.retry
    /\ a.imid = 0 /\ a.rmid = s.rmid /\ a.rpkt = s.rpkt
    /\ a.active = {"INIT", "AUTH"}
    /\ a.queued["INIT"] = 0 /\ a.queued["AUTH"] = 0
    /\ \A k \in Queueable : a.queued[k] = s.queued[k]
    /\ s.retry < MaxRetries

\* initiate() after reset(), or on a new IKE_SA: IKE_SA_INIT begins, or it gives up.
LEMMA InitiateRestart ==
    ASSUME NEW p \in Peers, NEW path \in AllPaths, NEW s \in Saves,
           s.itype = Undefined, s.ipkt = {}, s.active = {}, s.state = "CREATED",
           s.queued["INIT"] = 1, s.queued["AUTH"] = 1, s.imid = 0,
           NEW r, r = Initiate(p, s, path)
    PROVE  /\ r.sa \in Saves /\ r.called = <<>>
           /\ \/ Ended(r.sa, s) /\ r.out = {}
              \/ \E a \in Saves : Restarted(p, s, r, a)
<1>0. s.queued \in [Tasks -> Nat]
  BY DEF Saves
<1>00. {"INIT", "AUTH"} \in SUBSET Tasks
  BY TasksFacts
<1> DEFINE w == [[s.queued EXCEPT !["INIT"] = s.queued["INIT"] - 1]
                    EXCEPT !["AUTH"] = s.queued["AUTH"] - 1]
<1>1. /\ w \in [Tasks -> Nat] /\ w["INIT"] = 0 /\ w["AUTH"] = 0
      /\ \A k \in Queueable : w[k] = s.queued[k]
  BY <1>0, TasksFacts DEF Queueable
<1>2. Activate(s) = [s EXCEPT !.imid = 0, !.active = {"INIT", "AUTH"}, !.queued = w]
  <2>1. Activate(s) = [s EXCEPT !.imid = 0, !.active = {"INIT", "AUTH"},
                                !.queued["INIT"] = @ - 1, !.queued["AUTH"] = @ - 1]
    BY DEF Activate
  <2>2. PICK t : t = [s EXCEPT !.imid = 0, !.active = {"INIT", "AUTH"}]
    OBVIOUS
  <2>3. t \in Saves /\ t.queued = s.queued
    BY <2>2, <1>00 DEF Saves
  <2>4. Activate(s) = [t EXCEPT !.queued["INIT"] = s.queued["INIT"] - 1,
                                !.queued["AUTH"] = s.queued["AUTH"] - 1]
    BY <2>1, <2>2
  <2>5. [t EXCEPT !.queued["INIT"] = s.queued["INIT"] - 1,
                  !.queued["AUTH"] = s.queued["AUTH"] - 1]
          = [t EXCEPT !.queued = w]
    BY <2>3
  <2>6. [t EXCEPT !.queued = w] = [s EXCEPT !.imid = 0, !.active = {"INIT", "AUTH"}, !.queued = w]
    BY <2>2
  <2> QED
    BY <2>4, <2>5, <2>6
<1> HIDE DEF w
<1>3. PICK a : a = Activate(s)
  OBVIOUS
<1>4. {"INIT", "AUTH"} \in SUBSET Tasks
  BY TasksFacts
<1>5. a \in Saves
  BY <1>1, <1>2, <1>3, <1>4 DEF Saves
<1>6. /\ a.init = s.init /\ a.spi = s.spi /\ a.retry = s.retry
      /\ a.imid = 0 /\ a.rmid = s.rmid /\ a.rpkt = s.rpkt /\ a.ipkt = {}
      /\ a.active = {"INIT", "AUTH"} /\ a.queued = w
  BY <1>2, <1>3 DEF Saves
<1>7. Current(a) = "INIT" /\ a.active # {}
  BY <1>6 DEF Current
<1>8. s.retry \in Nat /\ MaxRetries \in Nat
  BY TaskManagerConstants DEF Saves
<1>9. CASE GivesUp(s, "INIT")
  <2>1. r = Result(Destroyed(a), {}, <<>>)
    BY <1>3, <1>7, <1>9 DEF Initiate
  <2>2. r.sa = Destroyed(a) /\ r.out = {} /\ r.called = <<>>
    BY <2>1 DEF Result
  <2>3. Destroyed(a) \in Saves /\ Ended(Destroyed(a), a)
    BY <1>5, DestroyedFacts
  <2>4. Ended(Destroyed(a), s)
    BY <2>3, <1>6 DEF Ended
  <2> QED
    BY <2>2, <2>3, <2>4
<1>10. CASE ~GivesUp(s, "INIT")
  <2>1. "INIT" \in Tasks
    BY TasksFacts
  <2>0. PICK k \in Tasks : k = "INIT"
    BY <2>1
  <2>2. /\ r.sa \in Saves /\ Begun(p, r.sa, a, k) /\ r.out \subseteq {Request(p, a, k)}
        /\ k = "INIT" => r.called = <<>>
    <3>1. /\ s.itype = Undefined /\ a = Activate(s) /\ a.active # {} /\ a.ipkt = {}
          /\ k = Current(a) /\ ~GivesUp(s, k) /\ r = Initiate(p, s, path)
      BY <1>3, <1>6, <1>7, <1>10, <2>0
    <3> QED
      BY <3>1, <1>5, InitiateCore
  <2>3. s.retry < MaxRetries
    BY <1>8, <1>10 DEF GivesUp
  <2>4. Restarted(p, s, r, a)
    BY <1>1, <1>3, <1>6, <2>0, <2>2, <2>3 DEF Restarted
  <2> QED
    BY <1>5, <2>0, <2>2, <2>4
<1> QED
  BY <1>9, <1>10

\* initiate() with a task still active: its next exchange begins.
LEMMA InitiateGoes ==
    ASSUME NEW p \in Peers, NEW path \in AllPaths, NEW s \in Saves, NEW k \in Tasks \ {"INIT"},
           s.itype = Undefined, s.ipkt = {}, s.active = {k}
    PROVE  LET r == Initiate(p, s, path) IN
           /\ r.sa \in Saves /\ Begun(p, r.sa, s, k) /\ r.out \subseteq {Request(p, s, k)}
           /\ r.called = <<k>>
<1>1. Activate(s) = s
  BY DEF Activate
<1>2. Current(s) = k
  BY DEF Current
<1>3. ~GivesUp(s, k) /\ s.active # {} /\ k \in Tasks
  BY DEF GivesUp
<1> QED
  BY <1>1, <1>2, <1>3, InitiateCore

LEMMA NextQueuedFacts ==
    ASSUME NEW s \in Saves, \E k \in Queueable : s.queued[k] > 0
    PROVE  /\ Priority[NextQueued(s)] \in Queueable
           /\ s.queued[Priority[NextQueued(s)]] > 0
<1> DEFINE P(i) == /\ s.queued[Priority[i]] > 0
                   /\ \A j \in 1..(i - 1) : s.queued[Priority[j]] = 0
<1>1. /\ Len(Priority) = 4 /\ Priority[1] = "MOBIKE" /\ Priority[2] = "DELETE"
      /\ Priority[3] = "CHILD" /\ Priority[4] = "DPD"
  BY DEF Priority
<1>2. s.queued \in [Tasks -> Nat]
  BY DEF Saves
<1>3. /\ s.queued["MOBIKE"] \in Nat /\ s.queued["DELETE"] \in Nat
      /\ s.queued["CHILD"] \in Nat /\ s.queued["DPD"] \in Nat
  BY <1>2, TasksFacts
<1>4. \E i \in 1..4 : P(i)
  <2>1. CASE s.queued["MOBIKE"] > 0
    <3>1. P(1)
      BY <1>1, <2>1
    <3> QED
      BY <3>1
  <2>2. CASE s.queued["MOBIKE"] = 0 /\ s.queued["DELETE"] > 0
    <3>1. \A j \in 1..(2 - 1) : j = 1
      OBVIOUS
    <3>2. P(2)
      BY <1>1, <2>2, <3>1
    <3> QED
      BY <3>2
  <2>3. CASE s.queued["MOBIKE"] = 0 /\ s.queued["DELETE"] = 0 /\ s.queued["CHILD"] > 0
    <3>1. \A j \in 1..(3 - 1) : j = 1 \/ j = 2
      OBVIOUS
    <3>2. P(3)
      BY <1>1, <2>3, <3>1
    <3> QED
      BY <3>2
  <2>4. CASE s.queued["MOBIKE"] = 0 /\ s.queued["DELETE"] = 0 /\ s.queued["CHILD"] = 0
    <3>1. \A j \in 1..(4 - 1) : j = 1 \/ j = 2 \/ j = 3
      OBVIOUS
    <3>2. s.queued["DPD"] > 0
      BY <2>4, <1>3 DEF Queueable
    <3>3. P(4)
      BY <1>1, <2>4, <3>1, <3>2
    <3> QED
      BY <3>3
  <2> QED
    BY <1>3, <2>1, <2>2, <2>3, <2>4
<1>5. NextQueued(s) = CHOOSE i \in 1..4 : P(i)
  BY <1>1 DEF NextQueued
<1> HIDE DEF P
<1>6. NextQueued(s) \in 1..4 /\ P(NextQueued(s))
  BY <1>4, <1>5
<1>7. Priority[NextQueued(s)] \in Queueable
  <2>1. PICK i \in 1..4 : i = NextQueued(s)
    BY <1>6
  <2>2. i = 1 \/ i = 2 \/ i = 3 \/ i = 4
    OBVIOUS
  <2> QED
    BY <1>1, <2>1, <2>2 DEF Queueable
<1> QED
  BY <1>6, <1>7 DEF P

\* Task k is activated and its exchange begun, with result r.
Picked(p, s, r, k, a) ==
    /\ Begun(p, r.sa, a, k) /\ r.out \subseteq {Request(p, a, k)}
    /\ r.called = <<k>>
    /\ a.state = "ESTABLISHED" /\ s.state = "ESTABLISHED"
    /\ a.init = s.init /\ a.spi = s.spi /\ a.retry = s.retry
    /\ a.imid = s.imid /\ a.rmid = s.rmid /\ a.rpkt = s.rpkt
    /\ a.active = {k}
    /\ s.queued[k] > 0 /\ a.queued = [s.queued EXCEPT ![k] = @ - 1]

\* initiate() with no task active: a queued one, if any, is activated.
LEMMA InitiateFree ==
    ASSUME NEW p \in Peers, NEW path \in AllPaths, NEW s \in Saves,
           s.itype = Undefined, s.ipkt = {}, s.active = {}, s.queued["INIT"] = 0,
           NEW r, r = Initiate(p, s, path)
    PROVE  /\ r.sa \in Saves
           /\ \/ r.sa = s /\ r.out = {} /\ r.called = <<>>
              \/ \E k \in Queueable, a \in Saves : Picked(p, s, r, k, a)
<1>0. s.queued \in [Tasks -> Nat] /\ s.queued["INIT"] \in Nat
  BY TasksFacts DEF Saves
<1>1. CASE s.state = "ESTABLISHED" /\ \E k \in Queueable : s.queued[k] > 0
  <2>1. PICK k \in Queueable : k = Priority[NextQueued(s)] /\ s.queued[k] > 0
    BY <1>1, NextQueuedFacts
  <2> DEFINE w == [s.queued EXCEPT ![k] = @ - 1]
             g == (k = "MOBIKE" /\ s.roamed)
  <2>2. k \in Tasks /\ k # "INIT"
    BY TasksFacts DEF Queueable
  <2>3. s.queued[k] \in Nat /\ s.queued[k] - 1 \in Nat
    BY <2>1, <2>2, <1>0
  <2>4. w \in [Tasks -> Nat]
    BY <1>0, <2>3
  <2>5. Activate(s) = [s EXCEPT !.active = {k}, !.queued = w, !.probing = g]
    BY <1>0, <1>1, <2>1 DEF Activate
  <2>6. g \in BOOLEAN
    OBVIOUS
  <2>7. {k} \in SUBSET Tasks
    BY <2>2
  <2> HIDE DEF w, g
  <2>8. PICK a : a = [s EXCEPT !.active = {k}, !.queued = w, !.probing = g]
    OBVIOUS
  <2>9a. a \in Saves
    BY <2>4, <2>6, <2>7, <2>8 DEF Saves
  <2>9. /\ a = Activate(s)
        /\ a.active = {k} /\ a.queued = w /\ a.state = s.state /\ a.init = s.init
        /\ a.spi = s.spi /\ a.retry = s.retry /\ a.imid = s.imid /\ a.rmid = s.rmid
        /\ a.rpkt = s.rpkt /\ a.ipkt = s.ipkt
    BY <2>5, <2>8 DEF Saves
  <2>10. Current(a) = k /\ ~GivesUp(s, k)
    BY <2>2, <2>9 DEF Current, GivesUp
  <2>11. /\ r.sa \in Saves /\ Begun(p, r.sa, a, k) /\ r.out \subseteq {Request(p, a, k)}
         /\ r.called = <<k>>
    <3>1. /\ s.itype = Undefined /\ a = Activate(s) /\ a.active # {} /\ a.ipkt = {}
          /\ k = Current(a) /\ ~GivesUp(s, k) /\ r = Initiate(p, s, path)
      BY <2>9, <2>10
    <3> QED
      BY <3>1, <2>2, <2>9a, InitiateCore
  <2>12. a.queued = [s.queued EXCEPT ![k] = @ - 1]
    BY <2>9 DEF w
  <2>13. /\ Begun(p, r.sa, a, k) /\ r.out \subseteq {Request(p, a, k)}
         /\ r.called = <<k>>
         /\ a.state = "ESTABLISHED" /\ s.state = "ESTABLISHED"
         /\ a.init = s.init /\ a.spi = s.spi /\ a.retry = s.retry
         /\ a.imid = s.imid /\ a.rmid = s.rmid /\ a.rpkt = s.rpkt
         /\ a.active = {k} /\ s.queued[k] > 0
    BY <1>1, <2>1, <2>9, <2>11
  <2>14. Picked(p, s, r, k, a)
    BY <2>12, <2>13 DEF Picked
  <2> QED
    BY <2>9a, <2>11, <2>14
<1>2. CASE ~(s.state = "ESTABLISHED" /\ \E k \in Queueable : s.queued[k] > 0)
  <2>1. Activate(s) = s
    BY <1>0, <1>2 DEF Activate
  <2>2. r = Result(s, {}, <<>>)
    BY <2>1 DEF Initiate
  <2> QED
    BY <2>2 DEF Result
<1> QED
  BY <1>1, <1>2

\* initiate() while an exchange is in the air: at most it is sent once more.
LEMMA InitiateInAir ==
    ASSUME NEW p \in Peers, NEW path \in AllPaths, NEW s \in Saves, s.itype # Undefined,
           NEW r, r = Initiate(p, s, path)
    PROVE  /\ r.sa \in Saves /\ Kept(r.sa, s) /\ r.out \subseteq s.ipkt /\ r.called = <<>>
           /\ s.imid \in Mids /\ s.ipkt # {} /\ AirOk(s) => AirOk(r.sa)
<1>1. CASE ~s.deferred
  <2>1. r = Result(s, {}, <<>>)
    BY <1>1 DEF Initiate
  <2> QED
    BY <2>1 DEF Result, Kept
<1>2. CASE s.deferred
  <2>1. PICK d : d = [s EXCEPT !.deferred = FALSE, !.tries = 0]
    OBVIOUS
  <2>2. r = Retransmit(d, s.imid, path)
    BY <1>2, <2>1 DEF Initiate
  <2>3. d \in Saves /\ s.imid \in Nat
    BY <2>1 DEF Saves
  <2>4. Kept(d, s) /\ d.tries = 0
    BY <2>1 DEF Saves, Kept
  <2>5. /\ r.sa \in Saves /\ r.out \subseteq d.ipkt /\ r.called = <<>> /\ Kept(r.sa, d)
        /\ d.imid \in Mids /\ s.imid = d.imid /\ d.ipkt # {} => AirOk(r.sa)
    BY <2>2, <2>3, <2>4, RetransmitFacts
  <2>6. Kept(r.sa, s) /\ d.ipkt = s.ipkt /\ d.imid = s.imid
    BY <2>4, <2>5 DEF Kept
  <2> QED
    BY <2>5, <2>6
<1> QED
  BY <1>1, <1>2

-----------------------------------------------------------------------------
(* What the parts of a step owe *)

LEMMA WaitingFacts ==
    ASSUME NEW w \in [Tasks -> Nat]
    PROVE  /\ Waiting(w) \in Nat
           /\ \A k \in Queueable, x \in Nat : Waiting([w EXCEPT ![k] = x]) = Waiting(w) - w[k] + x
           /\ \A k \in Queueable : w[k] \in Nat
<1>1. w["MOBIKE"] \in Nat /\ w["DELETE"] \in Nat /\ w["CHILD"] \in Nat /\ w["DPD"] \in Nat
  BY TasksFacts
<1>2. Waiting(w) \in Nat /\ \A k \in Queueable : w[k] \in Nat
  BY <1>1 DEF Waiting, Queueable
<1>3. ASSUME NEW k \in Queueable, NEW x \in Nat
      PROVE  Waiting([w EXCEPT ![k] = x]) = Waiting(w) - w[k] + x
  <2>1. PICK v : v = [w EXCEPT ![k] = x]
    OBVIOUS
  <2>2. /\ v["MOBIKE"] = IF k = "MOBIKE" THEN x ELSE w["MOBIKE"]
        /\ v["DELETE"] = IF k = "DELETE" THEN x ELSE w["DELETE"]
        /\ v["CHILD"] = IF k = "CHILD" THEN x ELSE w["CHILD"]
        /\ v["DPD"] = IF k = "DPD" THEN x ELSE w["DPD"]
    BY <2>1, TasksFacts
  <2>3. k \in {"MOBIKE", "DELETE", "CHILD", "DPD"}
    BY DEF Queueable
  <2>4. CASE k = "MOBIKE"
    BY <1>1, <2>1, <2>2, <2>4 DEF Waiting
  <2>5. CASE k = "DELETE"
    BY <1>1, <2>1, <2>2, <2>5 DEF Waiting
  <2>6. CASE k = "CHILD"
    BY <1>1, <2>1, <2>2, <2>6 DEF Waiting
  <2>7. CASE k = "DPD"
    BY <1>1, <2>1, <2>2, <2>7 DEF Waiting
  <2> QED
    BY <2>3, <2>4, <2>5, <2>6, <2>7
<1> QED
  BY <1>2, <1>3

LEMMA DueFacts ==
    ASSUME NEW s \in Saves
    PROVE  /\ s.queued \in [Tasks -> Nat] /\ Waiting(s.queued) \in Nat
           /\ Stage(s) \in {0, 1, 2} /\ Due(s) \in Nat /\ s.imid \in Nat /\ s.retry \in Nat
<1>1. s.queued \in [Tasks -> Nat] /\ s.imid \in Nat /\ s.retry \in Nat
  BY DEF Saves
<1>2. Waiting(s.queued) \in Nat
  BY <1>1, WaitingFacts
<1>3. Stage(s) \in {0, 1, 2}
  BY DEF Stage
<1> QED
  BY <1>1, <1>2, <1>3 DEF Due

\* What is left of an IKE_SA owes nothing.
LEMMA EndedDue ==
    ASSUME NEW t, NEW s \in Saves, Ended(t, s)
    PROVE  t.imid = s.imid /\ Due(t) = 0 /\ AirOk(t) /\ t.retry = s.retry /\ t.active = {}
           /\ t.state = "GONE"
<1>1. Waiting(t.queued) = 0
  BY TasksFacts DEF Ended, Waiting
<1>2. Stage(t) = 0
  BY DEF Ended, Stage
<1> QED
  BY <1>1, <1>2 DEF Ended, Due, AirOk

\* initiate() makes t of s: it owes no more than before.
Spends(t, s) == /\ t.imid = s.imid /\ Due(t) <= Due(s) /\ AirOk(t) /\ RetryOk(t)
                /\ t.state # "NONE"

LEMMA AirSpends ==
    ASSUME NEW p \in Peers, NEW path \in AllPaths, NEW s \in Saves, s.itype # Undefined,
           s.imid \in Mids, s.ipkt # {}, AirOk(s), RetryOk(s), s.state # "NONE",
           NEW r, r = Initiate(p, s, path)
    PROVE  Spends(r.sa, s)
<1>1. Kept(r.sa, s) /\ AirOk(r.sa)
  BY InitiateInAir
<1>2. /\ r.sa.imid = s.imid /\ r.sa.queued = s.queued /\ r.sa.active = s.active
      /\ r.sa.state = s.state /\ r.sa.retry = s.retry
  BY <1>1 DEF Kept
<1>3. Due(r.sa) = Due(s) /\ Due(s) \in Nat
  BY <1>2, DueFacts DEF Due, Stage
<1> QED
  BY <1>1, <1>2, <1>3 DEF Spends, RetryOk

LEMMA BegunSpends ==
    ASSUME NEW p \in Peers, NEW t, NEW a \in Saves, NEW k \in Tasks \ {"INIT"}, Begun(p, t, a, k),
           a.imid \in Mids, a.active = {k}, a.state \notin {"NONE", "CREATED"}, RetryOk(a)
    PROVE  Spends(t, a)
<1>1. /\ t.imid = a.imid /\ t.queued = a.queued /\ t.active = a.active /\ t.retry = a.retry
      /\ t.state \notin {"NONE", "CREATED"} /\ AirOk(t)
  BY DEF Begun
<1>2. Due(t) = Due(a) /\ Due(a) \in Nat
  BY <1>1, DueFacts DEF Due, Stage
<1> QED
  BY <1>1, <1>2 DEF Spends, RetryOk

LEMMA GoesSpends ==
    ASSUME NEW p \in Peers, NEW path \in AllPaths, NEW s \in Saves, NEW k \in Tasks \ {"INIT"},
           s.itype = Undefined, s.ipkt = {}, s.active = {k}, s.imid \in Mids, RetryOk(s),
           s.state \notin {"NONE", "CREATED"}, NEW r, r = Initiate(p, s, path)
    PROVE  Spends(r.sa, s)
<1>1. Begun(p, r.sa, s, k)
  BY InitiateGoes
<1>2. PICK t : t = r.sa
  OBVIOUS
<1> QED
  BY <1>1, <1>2, BegunSpends

LEMMA FreeSpends ==
    ASSUME NEW p \in Peers, NEW path \in AllPaths, NEW s \in Saves,
           s.itype = Undefined, s.ipkt = {}, s.active = {}, s.queued["INIT"] = 0, s.imid \in Mids,
           RetryOk(s), s.state \notin {"NONE", "CREATED"}, NEW r, r = Initiate(p, s, path)
    PROVE  Spends(r.sa, s)
<1>0. Due(s) \in Nat /\ s.queued \in [Tasks -> Nat]
  BY DueFacts
<1>1. \/ r.sa = s
      \/ \E k \in Queueable, a \in Saves : Picked(p, s, r, k, a)
  BY InitiateFree
<1>2. CASE r.sa = s
  BY <1>0, <1>2 DEF Spends, AirOk
<1>3. CASE \E k \in Queueable, a \in Saves : Picked(p, s, r, k, a)
  <2>1. PICK k \in Queueable, a \in Saves :
          /\ Begun(p, r.sa, a, k) /\ a.state = "ESTABLISHED" /\ s.state = "ESTABLISHED"
          /\ a.retry = s.retry /\ a.imid = s.imid /\ a.active = {k}
          /\ s.queued[k] > 0 /\ a.queued = [s.queued EXCEPT ![k] = @ - 1]
    BY <1>3 DEF Picked
  <2>2. k \in Tasks \ {"INIT"} /\ k # "INIT"
    BY TasksFacts DEF Queueable
  <2>3. PICK t : t = r.sa
    OBVIOUS
  <2>4. RetryOk(a)
    BY <2>1, <2>2 DEF RetryOk
  <2>5. Spends(t, a)
    BY <2>1, <2>2, <2>3, <2>4, BegunSpends
  <2>6. s.queued[k] \in Nat /\ Waiting(s.queued) \in Nat
    BY <1>0, WaitingFacts
  <2>7. PICK x \in Nat : x = s.queued[k] - 1
    BY <2>1, <2>6
  <2>8. a.queued = [s.queued EXCEPT ![k] = x]
    BY <2>1, <2>7
  <2>9. Waiting(a.queued) = Waiting(s.queued) - s.queued[k] + x
    BY <1>0, <2>8, WaitingFacts
  <2>10. Stage(a) = 1 /\ Stage(s) = 0
    BY <2>1, <2>2 DEF Stage
  <2>11. Due(a) = Due(s)
    BY <2>6, <2>7, <2>9, <2>10 DEF Due
  <2> QED
    BY <2>1, <2>3, <2>5, <2>11 DEF Spends
<1> QED
  BY <1>1, <1>2, <1>3

LEMMA RestartSpends ==
    ASSUME NEW p \in Peers, NEW path \in AllPaths, NEW s \in Saves,
           s.itype = Undefined, s.ipkt = {}, s.active = {}, s.state = "CREATED",
           s.queued["INIT"] = 1, s.queued["AUTH"] = 1, s.imid = 0, s.retry <= MaxRetries,
           NEW r, r = Initiate(p, s, path)
    PROVE  Spends(r.sa, s)
<1>0. /\ Due(s) \in Nat /\ s.queued \in [Tasks -> Nat] /\ Waiting(s.queued) \in Nat
      /\ s.retry \in Nat /\ MaxRetries \in Nat /\ 0 \in Mids
  BY DueFacts, TaskManagerConstants DEF Mids
<1>1. Ended(r.sa, s) \/ \E a \in Saves : Restarted(p, s, r, a)
  BY InitiateRestart
<1>2. CASE Ended(r.sa, s)
  <2>1. PICK t : t = r.sa
    OBVIOUS
  <2>2. t.imid = s.imid /\ Due(t) = 0 /\ AirOk(t) /\ t.retry = s.retry /\ t.active = {}
        /\ t.state = "GONE"
    BY <1>2, <2>1, EndedDue
  <2> QED
    BY <1>0, <2>1, <2>2 DEF Spends, RetryOk
<1>3. CASE \E a \in Saves : Restarted(p, s, r, a)
  <2>1. PICK a \in Saves : Restarted(p, s, r, a)
    BY <1>3
  <2>2. /\ Begun(p, r.sa, a, "INIT") /\ a.retry = s.retry /\ a.imid = 0
        /\ a.active = {"INIT", "AUTH"} /\ \A k \in Queueable : a.queued[k] = s.queued[k]
        /\ s.retry < MaxRetries
    BY <2>1 DEF Restarted
  <2>3. /\ r.sa.imid = 0 /\ r.sa.queued = a.queued /\ r.sa.active = a.active
        /\ r.sa.retry = s.retry /\ r.sa.state = "CONNECTING" /\ AirOk(r.sa)
    BY <1>0, <2>2 DEF Begun
  <2>4. Waiting(r.sa.queued) = Waiting(s.queued)
    BY <2>2, <2>3 DEF Waiting, Queueable
  <2>5. Stage(r.sa) = 2 /\ Stage(s) = 2
    BY <2>2, <2>3 DEF Stage
  <2>6. Due(r.sa) = Due(s)
    BY <2>4, <2>5 DEF Due
  <2>7. RetryOk(r.sa)
    BY <1>0, <2>2, <2>3 DEF RetryOk
  <2> QED
    BY <1>0, <2>3, <2>6, <2>7 DEF Spends
<1> QED
  BY <1>1, <1>2, <1>3

-----------------------------------------------------------------------------
(* What was sent stays explained *)

\* d goes on where c ends.
Extends(c, d) == \A p \in Peers : /\ Len(c[p]) <= Len(d[p])
                                  /\ \A x \in 1..Len(c[p]) : d[p][x] = c[p][x]

Later == {"ESTABLISHED", "DELETING", "GONE"}

LEMMA PeersFacts ==
    /\ Peers = {Initiator, Responder} /\ Initiator # Responder
    /\ Other(Initiator) = Responder /\ Other(Responder) = Initiator
    /\ \A p \in Peers : Other(p) \in Peers /\ Other(Other(p)) = p /\ Other(p) # p
    /\ Base(Initiator) = 1 /\ Base(Responder) = 0
    /\ \A p \in Peers : Base(p) \in {0, 1}
BY DEF Peers, Initiator, Responder, Other, Base

LEMMA AppendExtends ==
    ASSUME NEW c \in [Peers -> Seq(Tasks)], NEW p \in Peers, NEW e \in Seq(Tasks),
           NEW d, d = [c EXCEPT ![p] = @ \o e]
    PROVE  /\ d \in [Peers -> Seq(Tasks)] /\ Extends(c, d) /\ d[p] = c[p] \o e
           /\ \A q \in Peers : q # p => d[q] = c[q]
<1>1. c[p] \in Seq(Tasks) /\ c[p] \o e \in Seq(Tasks)
  OBVIOUS
<1>2. d \in [Peers -> Seq(Tasks)] /\ d[p] = c[p] \o e /\ \A q \in Peers : q # p => d[q] = c[q]
  BY <1>1
<1>3. Len(c[p]) <= Len(d[p]) /\ \A x \in 1..Len(c[p]) : d[p][x] = c[p][x]
  BY <1>1, <1>2
<1>4. \A q \in Peers : Len(c[q]) \in Nat
  OBVIOUS
<1>5. Extends(c, d)
  <2> SUFFICES ASSUME NEW q \in Peers
               PROVE  /\ Len(c[q]) <= Len(d[q])
                      /\ \A x \in 1..Len(c[q]) : d[q][x] = c[q][x]
    BY DEF Extends
  <2>1. CASE q = p
    BY <2>1, <1>3
  <2>2. CASE q # p
    BY <2>2, <1>2, <1>4
  <2> QED
    BY <2>1, <2>2
<1> QED
  BY <1>2, <1>5

LEMMA ReqKeeps ==
    ASSUME NEW m \in Messages, NEW c \in [Peers -> Seq(Tasks)], NEW d \in [Peers -> Seq(Tasks)],
           NEW i, NEW j, ReqOf(m, c, i), Extends(c, d), i = j \/ c[Initiator] = <<>>
    PROVE  ReqOf(m, d, j)
<1>1. m.from \in Peers /\ m.mid \in Nat
  BY DEF Messages
<1>2. CASE m.body = "INIT"
  BY <1>2 DEF ReqOf
<1>3. CASE m.body # "INIT"
  <2>1. PICK x : x = m.mid + 1 - Base(m.from)
    OBVIOUS
  <2>2. x \in 1..Len(c[m.from]) /\ c[m.from][x] = m.body
    BY <1>3, <2>1 DEF ReqOf
  <2>3. Len(c[m.from]) \in Nat /\ Len(d[m.from]) \in Nat
    BY <1>1
  <2>4. Len(c[m.from]) <= Len(d[m.from]) /\ d[m.from][x] = m.body
    BY <1>1, <2>2 DEF Extends
  <2>5. x \in 1..Len(d[m.from])
    BY <2>2, <2>3, <2>4
  <2>6. m.from = Initiator => i = j
    BY <2>2
  <2> QED
    BY <1>3, <2>1, <2>4, <2>5, <2>6 DEF ReqOf
<1> QED
  BY <1>2, <1>3

LEMMA RespKeeps ==
    ASSUME NEW m \in Messages, NEW x \in [Peers -> Seq(Tasks)], NEW y \in [Peers -> Seq(Tasks)],
           NEW i, NEW j, NEW r \in Saves, NEW u \in Saves,
           RespOf(m, x, i, r), Extends(x, y), i = j \/ x[Responder] = <<>>,
           \/ x[Responder] = <<>>
           \/ /\ r.spi = u.spi /\ r.init = u.init
              /\ r.state \in Later => u.state \in Later
    PROVE  RespOf(m, y, j, u)
<1>1. m.from \in Peers /\ m.mid \in Nat
  BY DEF Messages
<1>2. CASE m.to = "INIT"
  BY <1>2 DEF RespOf
<1>3. CASE m.to # "INIT"
  <2>1. PICK n : n = m.mid + 1 - Base(Other(m.from))
    OBVIOUS
  <2>2. n \in 1..Len(x[m.from]) /\ x[m.from][n] = m.to
    BY <1>3, <2>1 DEF RespOf
  <2>3. Len(x[m.from]) \in Nat /\ Len(y[m.from]) \in Nat
    BY <1>1
  <2>4. Len(x[m.from]) <= Len(y[m.from]) /\ y[m.from][n] = m.to
    BY <1>1, <2>2 DEF Extends
  <2>5. n \in 1..Len(y[m.from])
    BY <2>2, <2>3, <2>4
  <2>6. m.from = Responder => /\ i = j /\ r.spi = u.spi /\ r.init = u.init
                              /\ r.state \in Later => u.state \in Later
    BY <2>2
  <2> QED
    BY <1>3, <2>1, <2>4, <2>5, <2>6 DEF RespOf, Later
<1> QED
  BY <1>2, <1>3

-----------------------------------------------------------------------------
(* A step of one peer with its own exchange: it becomes t, sends out, makes *)
(* the calls e, and has then taken n answers.                              *)

Fits(p, s, t, out, e, n) ==
    /\ PeerOf(p, t, calls[p] \o e, n)
    /\ n <= Len(execs[Other(p)])
    /\ t.rmid = s.rmid /\ t.rpkt \subseteq s.rpkt
    /\ t.rpkt = s.rpkt \/ t.state = "GONE" \/ execs[p] = <<>>
    /\ t.state = "NONE" => s.state = "NONE" /\ out = {}
    /\ s.state = "NONE" => t.state = "NONE"
    /\ s.state = "GONE" => t.state = "GONE"
    /\ t.state = "CREATED" => s.state = "CREATED" /\ out = {}
    /\ t.spi = 0 => s.spi = 0
    /\ p = Responder => t.spi = s.spi /\ t.init = s.init /\ (s.state \in Later => t.state \in Later)
    /\ p = Initiator => t.init = s.init \/ calls[p] = <<>>
    /\ p = Initiator /\ t.state \in {"ESTABLISHED", "DELETING"} =>
          /\ sa[Responder].state \in Later
          /\ sa[Responder].spi = t.spi /\ sa[Responder].init = t.init

\* All that is new in the network are requests.
OnlyRequests == net \subseteq net' /\ \A m \in net' \ net : m.req

LEMMA OwnStep ==
    ASSUME ExchInv, NEW p \in Peers, NEW t \in Saves, NEW out \in SUBSET Messages,
           NEW e \in Seq(Tasks), NEW n \in Nat,
           sa' = [sa EXCEPT ![p] = t], net' = net \cup out,
           calls' = [calls EXCEPT ![p] = @ \o e],
           half' = half, scene' = scene, spis' = spis, execs' = execs,
           left' \in [Peers -> Nat], answers' \in [Peers -> Seq(Tasks)],
           answers'[Other(p)] = answers[Other(p)], Len(answers'[p]) = n,
           Fits(p, sa[p], t, out, e, n),
           \A m \in t.ipkt \cup out : /\ m.from = p /\ m.req
                                      /\ ReqOf(m, calls', sa'[Initiator].init)
    PROVE  ExchInv' /\ OnlyRequests
<1> DEFINE s == sa[p]  q == Other(p)
<1>1. LooseType /\ CallInv
  BY DEF ExchInv
<1>2. /\ sa \in [Peers -> Saves] /\ calls \in [Peers -> Seq(Tasks)] /\ execs \in [Peers -> Seq(Tasks)]
      /\ net \subseteq Messages /\ answers \in [Peers -> Seq(Tasks)]
  BY <1>1 DEF LooseType
<1>3. LooseType'
  <2>1. calls' \in [Peers -> Seq(Tasks)]
    BY <1>2, AppendExtends
  <2>2. sa' \in [Peers -> Saves] /\ net' \subseteq Messages
    BY <1>2
  <2> QED
    BY <1>1, <2>1, <2>2 DEF LooseType
<1>4. /\ q \in Peers /\ q # p /\ Other(q) = p
      /\ \A x \in Peers : x = p \/ x = q
  BY PeersFacts
<1>5. sa'[p] = t /\ sa'[q] = sa[q]
  BY <1>2, <1>4
<1>6. /\ Extends(calls, calls') /\ calls'[p] = calls[p] \o e /\ calls'[q] = calls[q]
      /\ calls' \in [Peers -> Seq(Tasks)]
  <2>1. PICK d : d = calls'
    OBVIOUS
  <2>2. d = [calls EXCEPT ![p] = @ \o e]
    BY <2>1
  <2>3. /\ d \in [Peers -> Seq(Tasks)] /\ Extends(calls, d) /\ d[p] = calls[p] \o e
        /\ \A x \in Peers : x # p => d[x] = calls[x]
    <3>1. calls \in [Peers -> Seq(Tasks)]
      BY <1>2
    <3> QED
      BY <2>2, <3>1, AppendExtends
  <2>4. Extends(calls, calls')
    BY <2>1, <2>3
  <2> QED
    BY <2>1, <2>3, <2>4, <1>4
<1>7. /\ \A x \in Peers : /\ PeerOf(x, sa[x], calls[x], Len(answers[x]))
                          /\ \A m \in sa[x].ipkt : m.from = x /\ m.req /\ Sent(m)
                          /\ History(x) /\ Receives(x)
      /\ \A m \in net : Sent(m)
      /\ sa[Initiator].state = "CREATED" => net = {}
      /\ SetupAgrees
  BY <1>1 DEF CallInv
<1>8. Len(execs[Responder]) <= Len(calls[Initiator])
  BY <1>7, PeersFacts DEF History
<1>9. calls[Initiator] = <<>> => execs[Responder] = <<>>
  BY <1>2, <1>8, PeersFacts
<1>10. sa'[Initiator].init = sa[Initiator].init \/ calls[Initiator] = <<>>
  BY <1>2, <1>4, <1>5, PeersFacts DEF Fits
<1>11. /\ sa[Responder].spi = sa'[Responder].spi /\ sa[Responder].init = sa'[Responder].init
       /\ sa[Responder].state \in Later => sa'[Responder].state \in Later
  BY <1>2, <1>4, <1>5, PeersFacts DEF Fits
<1>12. Extends(execs, execs)
  <2>1. \A x \in Peers : Len(execs[x]) \in Nat
    BY <1>2
  <2> QED
    BY <2>1 DEF Extends
<1>13. sa[Responder] \in Saves /\ sa'[Responder] \in Saves
  BY <1>2, <1>3, PeersFacts DEF LooseType
<1>14. ASSUME NEW m \in Messages, Sent(m)
       PROVE  Sent(m)'
  <2>1. CASE m.req
    <3>1. ReqOf(m, calls, sa[Initiator].init)
      BY <1>14, <2>1 DEF Sent
    <3>2. ReqOf(m, calls', sa'[Initiator].init)
      <4>1. PICK d, i, j : d = calls' /\ i = sa[Initiator].init /\ j = sa'[Initiator].init
        OBVIOUS
      <4>2. d \in [Peers -> Seq(Tasks)] /\ Extends(calls, d) /\ (i = j \/ calls[Initiator] = <<>>)
        BY <4>1, <1>6, <1>10
      <4>3. ReqOf(m, calls, i)
        BY <3>1, <4>1
      <4>4. ReqOf(m, d, j)
        BY <4>2, <4>3, <1>2, ReqKeeps
      <4> QED
        BY <4>1, <4>4
    <3> QED
      BY <3>2, <2>1 DEF Sent
  <2>2. CASE ~m.req
    <3>1. RespOf(m, execs, sa[Initiator].init, sa[Responder])
      BY <1>14, <2>2 DEF Sent
    <3>2. RespOf(m, execs, sa'[Initiator].init, sa'[Responder])
      BY <3>1, <1>2, <1>9, <1>10, <1>11, <1>12, <1>13, RespKeeps
    <3> QED
      BY <3>2, <2>2 DEF Sent
  <2> QED
    BY <2>1, <2>2
<1>15. \A m \in t.ipkt \cup out : Sent(m)'
  BY DEF Sent
<1>16. \A m \in net' : Sent(m)'
  BY <1>2, <1>7, <1>14, <1>15
<1>17. /\ PeerOf(p, t, calls'[p], Len(answers'[p]))
       /\ PeerOf(q, sa'[q], calls'[q], Len(answers'[q]))
  <2>1. PeerOf(q, sa[q], calls[q], Len(answers[q]))
    BY <1>4, <1>7
  <2>2. PeerOf(p, t, calls[p] \o e, n)
    BY DEF Fits
  <2>3. sa'[q] = sa[q] /\ calls'[q] = calls[q] /\ answers'[q] = answers[q]
    BY <1>5, <1>6
  <2>4. PeerOf(q, sa'[q], calls'[q], Len(answers'[q]))
    BY <2>1, <2>3
  <2>5. PeerOf(p, t, calls'[p], Len(answers'[p]))
    BY <2>2, <1>6
  <2> QED
    BY <2>4, <2>5
<1>18. \A x \in Peers : \A m \in sa'[x].ipkt : m.from = x /\ m.req /\ Sent(m)'
  <2>1. \A m \in sa[q].ipkt : m \in Messages
    BY <1>2, <1>4 DEF Saves
  <2>2. \A m \in sa'[q].ipkt : m.from = q /\ m.req /\ Sent(m)'
    BY <1>4, <1>5, <1>7, <1>14, <2>1
  <2>3. \A m \in sa'[p].ipkt : m.from = p /\ m.req /\ Sent(m)'
    BY <1>5, <1>15
  <2> QED
    BY <1>4, <2>2, <2>3
<1>19. \A x \in Peers : History(x)'
  <2>1. History(p)'
    <3>1. /\ Len(execs[q]) <= Len(calls[p]) /\ \A j \in 1..Len(execs[q]) : execs[q][j] = calls[p][j]
      BY <1>7 DEF History
    <3>2. Len(calls[p]) <= Len(calls'[p]) /\ \A x \in 1..Len(calls[p]) : calls'[p][x] = calls[p][x]
      BY <1>6 DEF Extends
    <3>3. Len(calls[p]) \in Nat /\ Len(calls'[p]) \in Nat /\ Len(execs[q]) \in Nat
      BY <1>2, <1>4, <1>6
    <3>4. Len(execs[q]) <= Len(calls'[p]) /\ \A j \in 1..Len(execs[q]) : execs[q][j] = calls'[p][j]
      BY <3>1, <3>2, <3>3
    <3>5. Len(answers'[p]) <= Len(execs[q])
      BY DEF Fits
    <3> QED
      BY <3>4, <3>5 DEF History
  <2>2. History(q)'
    <3>1. History(q)
      BY <1>4, <1>7
    <3> QED
      BY <3>1, <1>6 DEF History
  <2> QED
    BY <1>4, <2>1, <2>2
<1>20. \A x \in Peers : Receives(x)'
  <2>1. Receives(p)'
    <3>1. Receives(p)
      BY <1>7
    <3>2. /\ t.state = "NONE" => execs[p] = <<>> /\ t.rpkt = {}
          /\ t.state # "NONE" => t.rmid = Len(execs[p]) + Base(Other(p))
          /\ p = Responder /\ t.state # "NONE" => execs[p] # <<>>
      BY <3>1 DEF Receives, Fits
    <3>3. t.rpkt \subseteq net'
      BY <3>1 DEF Receives, Fits
    <3>4. t.state \notin {"NONE", "GONE"} => Alive(p)
      BY DEF Alive, Fits
    <3>5. t.state \notin {"NONE", "GONE"} /\ execs[p] # <<>> =>
             \E m \in t.rpkt : /\ m.mid + 1 = t.rmid
                               /\ m.type = ExchangeOf(execs[p][Len(execs[p])])
      <4>1. ASSUME t.state \notin {"NONE", "GONE"}, execs[p] # <<>>
            PROVE  \E m \in t.rpkt : /\ m.mid + 1 = t.rmid
                                     /\ m.type = ExchangeOf(execs[p][Len(execs[p])])
        <5>1. t.rpkt = sa[p].rpkt /\ t.rmid = sa[p].rmid
          BY <4>1 DEF Fits
        <5>2. \E m \in sa[p].rpkt : /\ m.mid + 1 = sa[p].rmid
                                    /\ m.type = ExchangeOf(execs[p][Len(execs[p])])
          BY <3>1, <3>4, <4>1 DEF Receives
        <5> QED
          BY <5>1, <5>2
      <4> QED
        BY <4>1
    <3>6. p = Responder /\ t.state \notin {"NONE", "GONE"} => t.spi # 0
      BY <3>1, <3>4 DEF Receives, Fits
    <3>7. p = Initiator /\ t.spi = 0 => execs[p] = <<>>
      BY <3>1 DEF Receives, Fits
    <3>8. Alive(p)' <=> t.state \notin {"NONE", "GONE"}
      BY <1>5 DEF Alive
    <3> QED
      BY <1>5, <3>2, <3>3, <3>5, <3>6, <3>7, <3>8 DEF Receives
  <2>2. Receives(q)'
    <3>1. Receives(q)
      BY <1>4, <1>7
    <3>2. net \subseteq net'
      OBVIOUS
    <3> QED
      BY <1>5, <3>1, <3>2 DEF Receives, Alive
  <2> QED
    BY <1>4, <2>1, <2>2
<1>21. sa'[Initiator].state = "CREATED" => net' = {}
  <2>1. ASSUME sa'[Initiator].state = "CREATED"
        PROVE  net' = {}
    <3>1. CASE p = Initiator
      <4>1. sa[Initiator].state = "CREATED" /\ out = {}
        BY <1>5, <2>1, <3>1 DEF Fits
      <4> QED
        BY <4>1, <1>7
    <3>2. CASE p = Responder
      <4>1. sa[Initiator].state = "CREATED"
        BY <1>5, <2>1, <3>2, PeersFacts
      <4>2. PeerOf(Initiator, sa[Initiator], calls[Initiator], Len(answers[Initiator]))
        BY <1>7, PeersFacts
      <4>3. calls[Initiator] = <<>>
        BY <4>1, <4>2 DEF PeerOf, Quiet, Calling, StateIn
      <4>4. execs[Responder] = <<>>
        BY <4>3, <1>9
      <4>5. sa[p].state = "NONE"
        BY <4>4, <1>7, <3>2 DEF Receives
      <4>6. out = {}
        BY <4>5 DEF Fits
      <4> QED
        BY <4>1, <4>6, <1>7
    <3> QED
      BY <3>1, <3>2, PeersFacts
  <2> QED
    BY <2>1
<1>22. SetupAgrees'
  <2>1. CASE p = Initiator
    BY <1>5, <2>1, PeersFacts DEF SetupAgrees, Fits, Later
  <2>2. CASE p = Responder
    BY <1>5, <1>7, <1>11, <2>2, PeersFacts DEF SetupAgrees, Later
  <2> QED
    BY <2>1, <2>2, PeersFacts
<1>23. CallInv'
  <2>1. \A x \in Peers : PeerOf(x, sa[x], calls[x], Len(answers[x]))'
    BY <1>4, <1>5, <1>17
  <2> QED
    BY <2>1, <1>16, <1>18, <1>19, <1>20, <1>21, <1>22 DEF CallInv
<1>24. OnlyRequests
  BY DEF OnlyRequests
<1> QED
  BY <1>3, <1>23, <1>24 DEF ExchInv

Moves(p, t, out, e) ==
    /\ sa' = [sa EXCEPT ![p] = t] /\ net' = net \cup out
    /\ calls' = [calls EXCEPT ![p] = @ \o e]
    /\ half' = half /\ scene' = scene /\ spis' = spis /\ execs' = execs
    /\ left' \in [Peers -> Nat] /\ left'[Other(p)] = left[Other(p)]
    /\ answers' \in [Peers -> Seq(Tasks)] /\ answers'[Other(p)] = answers[Other(p)]

\* The calls e are at most one, made when all earlier ones are answered.
Counts(p, e) == e = <<>> \/ \E k \in Tasks : e = <<k>> /\ Len(calls[p]) = Len(answers'[p])

\* At most one answer is taken, to the next call that was executed.
Taken(p) == \/ answers' = answers
            \/ /\ Len(answers[p]) < Len(execs[Other(p)])
               /\ answers' = [answers EXCEPT ![p] = Append(@, execs[Other(p)][Len(@) + 1])]

\* As a caller, peer p goes on in order.
Proceeds(p, t, e) ==
    /\ sa' = [sa EXCEPT ![p] = t] /\ calls' = [calls EXCEPT ![p] = @ \o e] /\ execs' = execs
    /\ Counts(p, e) /\ Taken(p)
    /\ sa[p].state = "GONE" => t.state = "GONE" /\ e = <<>> /\ answers' = answers
    /\ scene' = scene /\ left'[Other(p)] = left[Other(p)] /\ OnlyRequests

\* The exchange of a peer stays as it is.
Same(t, s) ==
    /\ t.state = s.state /\ t.init = s.init /\ t.spi = s.spi
    /\ t.imid = s.imid /\ t.itype = s.itype /\ t.ipkt = s.ipkt
    /\ t.rmid = s.rmid /\ t.rpkt = s.rpkt /\ t.active = s.active
    /\ t.queued["INIT"] = 0 /\ t.queued["AUTH"] = 0

\* What the invariant says of one peer.
LEMMA PeerFacts ==
    ASSUME ExchInv, NEW p \in Peers
    PROVE  /\ sa[p] \in Saves /\ sa \in [Peers -> Saves]
           /\ calls[p] \in Seq(Tasks) /\ execs[p] \in Seq(Tasks) /\ answers[p] \in Seq(Tasks)
           /\ Len(calls[p]) \in Nat /\ Len(answers[p]) \in Nat /\ Len(execs[Other(p)]) \in Nat
           /\ Other(p) \in Peers /\ execs[Other(p)] \in Seq(Tasks)
           /\ PeerOf(p, sa[p], calls[p], Len(answers[p]))
           /\ \A m \in sa[p].ipkt : m.from = p /\ m.req /\ Sent(m)
           /\ History(p) /\ Receives(p)
           /\ Len(answers[p]) <= Len(execs[Other(p)]) /\ Len(execs[Other(p)]) <= Len(calls[p])
           /\ sa[p].ipkt \subseteq Messages
<1>1. LooseType /\ CallInv /\ Other(p) \in Peers
  BY PeersFacts DEF ExchInv
<1>2. /\ sa[p] \in Saves /\ sa \in [Peers -> Saves]
      /\ calls[p] \in Seq(Tasks) /\ execs[p] \in Seq(Tasks) /\ answers[p] \in Seq(Tasks)
      /\ execs[Other(p)] \in Seq(Tasks)
  BY <1>1 DEF LooseType
<1>3. sa[p].ipkt \subseteq Messages
  BY <1>2 DEF Saves
<1>4. /\ PeerOf(p, sa[p], calls[p], Len(answers[p]))
      /\ \A m \in sa[p].ipkt : m.from = p /\ m.req /\ Sent(m)
      /\ History(p) /\ Receives(p)
  BY <1>1 DEF CallInv
<1>5. Len(answers[p]) <= Len(execs[Other(p)]) /\ Len(execs[Other(p)]) <= Len(calls[p])
  BY <1>4 DEF History
<1> QED
  BY <1>1, <1>2, <1>3, <1>4, <1>5

\* Only an IKE_SA that is being set up, used or deleted has an exchange in the air.
LEMMA QuietFacts ==
    ASSUME NEW p, NEW s, NEW c, NEW a, PeerOf(p, s, c, a),
           s.state \in {"NONE", "CREATED", "GONE"} \/ s.itype = Undefined
    PROVE  Quiet(p, s, c, a)
<1>1. ASSUME NEW k \in Tasks, Calling(p, s, c, a, k) PROVE FALSE
  <2>1. s.itype = ExchangeOf(k) /\ s.state = StateIn(k)
    BY <1>1 DEF Calling
  <2>2. s.itype # Undefined
    BY <2>1, ExchangeFacts
  <2>3. StateIn(k) \notin {"NONE", "CREATED", "GONE"}
    BY DEF StateIn
  <2> QED
    BY <2>1, <2>2, <2>3
<1> QED
  BY <1>1 DEF PeerOf

\* Nothing has answered the exchange after the one in the air.
LEMMA NotYet ==
    ASSUME ExchInv, NEW p \in Peers, NEW k \in Tasks,
           Calling(p, sa[p], calls[p], Len(answers[p]), k)
    PROVE  \A m \in net : ~m.req /\ m.from = Other(p) /\ m.to # "INIT" => m.mid # sa[p].imid + 1
<1> SUFFICES ASSUME NEW m \in net, ~m.req, m.from = Other(p), m.to # "INIT",
                    m.mid = sa[p].imid + 1
             PROVE  FALSE
  OBVIOUS
<1>1. /\ Len(calls[p]) \in Nat /\ Len(execs[Other(p)]) \in Nat /\ sa[p] \in Saves
      /\ Len(execs[Other(p)]) <= Len(calls[p])
  BY PeerFacts
<1>2. sa[p].imid \in Nat /\ Base(p) \in {0, 1} /\ Other(Other(p)) = p
  BY <1>1, PeersFacts DEF Saves
<1>3. sa[p].imid + 1 = Len(calls[p]) + Base(p)
  BY DEF Calling
<1>4. RespOf(m, execs, sa[Initiator].init, sa[Responder])
  BY DEF ExchInv, CallInv, Sent
<1>5. m.mid + 1 - Base(p) \in 1..Len(execs[Other(p)])
  BY <1>2, <1>4 DEF RespOf
<1> QED
  BY <1>1, <1>2, <1>3, <1>5

\* What the invariants give for the message IDs.
LEMMA TallyFacts ==
    ASSUME ExchInv, TallyInv, NEW p \in Peers
    PROVE  /\ sa[p].imid \in Nat /\ Due(sa[p]) \in Nat /\ left[p] \in Nat /\ Extra(p) \in {0, 1}
           /\ Base(p) \in {0, 1} /\ Limit(p) \in Nat /\ MaxMid \in Nat
           /\ Limit(p) + 1 <= MaxMid /\ 3 <= MaxMid
           /\ sa[p].imid + Due(sa[p]) + left[p] + Extra(p) <= Limit(p)
           /\ AirOk(sa[p]) /\ RetryOk(sa[p]) /\ sa[p].imid \in Mids /\ sa[p].imid + 1 \in Mids
           /\ Len(calls[p]) + Base(p) <= MaxMid
<1>1. sa[p] \in Saves /\ left[p] \in Nat /\ scene \in Scenarios
  BY DEF ExchInv, LooseType
<1>2. sa[p].imid \in Nat /\ Due(sa[p]) \in Nat /\ Extra(p) \in {0, 1} /\ Base(p) \in {0, 1}
  BY <1>1, DueFacts DEF Extra, Base
<1>3a. scene.requests[p] \in Nat /\ MaxMid \in Nat /\ scene.requests[p] + 3 <= MaxMid
  BY <1>1, TaskManagerConstants DEF Scenario
<1>3. Limit(p) \in Nat /\ MaxMid \in Nat /\ Limit(p) + 1 <= MaxMid /\ 3 <= MaxMid
  BY <1>3a DEF Limit
<1>4. /\ sa[p].imid + Due(sa[p]) + left[p] + Extra(p) <= Limit(p)
      /\ AirOk(sa[p]) /\ RetryOk(sa[p]) /\ Len(calls[p]) + Base(p) <= MaxMid
  BY DEF TallyInv, Budget
<1>5. sa[p].imid \in Mids /\ sa[p].imid + 1 \in Mids
  <2>1. sa[p].imid <= Limit(p)
    BY <1>1, <1>2, <1>3, <1>4
  <2> QED
    BY <1>2, <1>3, <2>1 DEF Mids
<1> QED
  BY <1>1, <1>2, <1>3, <1>4, <1>5

\* Peer p becomes t within its budget, with the same exchange or the next one.
Covers(p, t) ==
    \/ t.imid = sa[p].imid /\ Due(t) + left'[p] <= Due(sa[p]) + left[p]
    \/ /\ t.imid = sa[p].imid + 1
       /\ Due(t) + left'[p] + 1 <= Due(sa[p]) + left[p] + Extra(p)
       /\ \E k \in Tasks : Calling(p, sa[p], calls[p], Len(answers[p]), k)
Within(p, t) == AirOk(t) /\ RetryOk(t) /\ (t.state = "NONE" => t.rmid = 0) /\ Covers(p, t)

\* Peer p goes on in order, and within its budget.
Continues(p) == \E t, e : Proceeds(p, t, e) /\ (TallyInv => Within(p, t))

LEMMA SpendsWithin ==
    ASSUME ExchInv, TallyInv, NEW p \in Peers, NEW t \in Saves, NEW u \in Saves, Spends(t, u),
           left'[p] \in Nat, Covers(p, u)
    PROVE  Within(p, t)
<1>1. /\ Due(t) \in Nat /\ Due(u) \in Nat /\ Due(sa[p]) \in Nat /\ left[p] \in Nat
      /\ Extra(p) \in {0, 1}
  BY DueFacts, TallyFacts
<1>2. t.imid = u.imid /\ Due(t) <= Due(u) /\ AirOk(t) /\ RetryOk(t) /\ t.state # "NONE"
  BY DEF Spends
<1>3. CASE u.imid = sa[p].imid /\ Due(u) + left'[p] <= Due(sa[p]) + left[p]
  <2>1. t.imid = sa[p].imid /\ Due(t) + left'[p] <= Due(sa[p]) + left[p]
    BY <1>1, <1>2, <1>3
  <2> QED
    BY <1>2, <2>1 DEF Within, Covers
<1>4. CASE /\ u.imid = sa[p].imid + 1
           /\ Due(u) + left'[p] + 1 <= Due(sa[p]) + left[p] + Extra(p)
           /\ \E k \in Tasks : Calling(p, sa[p], calls[p], Len(answers[p]), k)
  <2>1. Due(t) + left'[p] + 1 <= Due(sa[p]) + left[p] + Extra(p)
    BY <1>1, <1>2, <1>4
  <2> QED
    BY <1>2, <1>4, <2>1 DEF Within, Covers
<1> QED
  BY <1>3, <1>4 DEF Covers

LEMMA EndedWithin ==
    ASSUME ExchInv, TallyInv, NEW p \in Peers, NEW t, Ended(t, sa[p]),
           left'[p] \in Nat, left'[p] <= left[p]
    PROVE  Within(p, t)
<1>1. sa[p] \in Saves /\ RetryOk(sa[p]) /\ Due(sa[p]) \in Nat /\ left[p] \in Nat
  BY PeerFacts, TallyFacts
<1>2. /\ t.imid = sa[p].imid /\ Due(t) = 0 /\ AirOk(t) /\ t.retry = sa[p].retry /\ t.active = {}
      /\ t.state = "GONE"
  BY <1>1, EndedDue
<1>3. Due(t) + left'[p] <= Due(sa[p]) + left[p]
  BY <1>1, <1>2
<1> QED
  BY <1>1, <1>2, <1>3 DEF Within, Covers, RetryOk

\* u has x tasks k queued, and is s otherwise.
Puts(u, s, k, x) == /\ u.queued = [s.queued EXCEPT ![k] = x]
                    /\ u.state = s.state /\ u.active = s.active

LEMMA DueQueued ==
    ASSUME NEW s \in Saves, NEW u, NEW k \in Queueable, NEW x \in Nat, Puts(u, s, k, x)
    PROVE  Due(u) = Due(s) - s.queued[k] + x
<1>1. s.queued \in [Tasks -> Nat] /\ Waiting(s.queued) \in Nat /\ Stage(s) \in {0, 1, 2}
  BY DueFacts
<1>2. s.queued[k] \in Nat /\ Waiting(u.queued) = Waiting(s.queued) - s.queued[k] + x
  BY <1>1, WaitingFacts DEF Puts
<1>3. Stage(u) = Stage(s)
  BY DEF Stage, Puts
<1> QED
  BY <1>1, <1>2, <1>3 DEF Due

\* The next exchange is one that was due.
LEMMA NextCovers ==
    ASSUME ExchInv, TallyInv, NEW p \in Peers, NEW u \in Saves, NEW k \in Tasks,
           Calling(p, sa[p], calls[p], Len(answers[p]), k), left'[p] \in Nat,
           u.imid = sa[p].imid + 1, u.queued = sa[p].queued,
           Stage(u) + left'[p] + 1 <= Stage(sa[p]) + left[p] + Extra(p)
    PROVE  Covers(p, u)
<1>1. /\ sa[p] \in Saves /\ Waiting(sa[p].queued) \in Nat /\ Stage(sa[p]) \in {0, 1, 2}
      /\ Stage(u) \in {0, 1, 2}
  BY PeerFacts, DueFacts
<1>2. left[p] \in Nat /\ Extra(p) \in {0, 1}
  BY TallyFacts
<1>3. PICK w \in Nat, i \in Nat, j \in Nat, l \in Nat, n \in Nat, x \in Nat :
         /\ w = Waiting(sa[p].queued) /\ i = Stage(u) /\ j = Stage(sa[p])
         /\ l = left'[p] /\ n = left[p] /\ x = Extra(p)
  BY <1>1, <1>2
<1>4. i + l + 1 <= j + n + x => (w + i) + l + 1 <= (w + j) + n + x
  OBVIOUS
<1>5. Due(u) = w + i /\ Due(sa[p]) = w + j
  BY <1>3 DEF Due
<1> QED
  BY <1>3, <1>4, <1>5 DEF Covers

LEMMA Sums ==
    ASSUME NEW i \in Nat, NEW d \in Nat, NEW l \in Nat, NEW x \in {0, 1}, NEW n \in Nat,
           i + d + l + x <= n, NEW e \in Nat, NEW m \in Nat
    PROVE  e + m <= d + l => i + e + m + x <= n
OBVIOUS

LEMMA NextSums ==
    ASSUME NEW i \in Nat, NEW d \in Nat, NEW l \in Nat, NEW x \in {0, 1}, NEW n \in Nat,
           i + d + l + x <= n, NEW e \in Nat, NEW m \in Nat, e + m + 1 <= d + l + x
    PROVE  (i + 1) + e + m <= n
OBVIOUS

\* A step of a caller that keeps to its budget.
LEMMA TallyStep ==
    ASSUME ExchInv, ExchInv', TallyInv, NEW p \in Peers, Continues(p)
    PROVE  TallyInv'
<1>. PICK t, e : Proceeds(p, t, e) /\ Within(p, t)
  BY DEF Continues
<1>0. PICK q : q = Other(p)
  OBVIOUS
<1>0a. scene' = scene /\ left'[q] = left[q] /\ net \subseteq net' /\ \A m \in net' \ net : m.req
  BY <1>0 DEF Proceeds, OnlyRequests
<1>1. q \in Peers /\ q # p /\ Other(q) = p /\ \A x \in Peers : x = p \/ x = q
  BY <1>0, PeersFacts
<1>2. /\ sa \in [Peers -> Saves] /\ sa[p] \in Saves /\ calls \in [Peers -> Seq(Tasks)]
      /\ calls[p] \in Seq(Tasks) /\ left' \in [Peers -> Nat] /\ sa' \in [Peers -> Saves]
  BY DEF ExchInv, LooseType
<1>3. /\ sa' = [sa EXCEPT ![p] = t] /\ calls' = [calls EXCEPT ![p] = @ \o e]
      /\ Counts(p, e) /\ (sa[p].state = "GONE" => e = <<>>)
  BY DEF Proceeds
<1>4. /\ sa'[p] = t /\ sa'[q] = sa[q] /\ calls'[p] = calls[p] \o e /\ calls'[q] = calls[q]
      /\ left'[q] = left[q]
  BY <1>0a, <1>1, <1>2, <1>3
<1>5. t \in Saves /\ left'[p] \in Nat
  BY <1>2, <1>4
<1>6. t.imid \in Nat /\ Due(t) \in Nat
  BY <1>5, DueFacts
<1>7. /\ sa[p].imid \in Nat /\ Due(sa[p]) \in Nat /\ left[p] \in Nat /\ Extra(p) \in {0, 1}
      /\ Base(p) \in {0, 1} /\ Limit(p) \in Nat /\ MaxMid \in Nat
      /\ Limit(p) + 1 <= MaxMid /\ 3 <= MaxMid
      /\ sa[p].imid + Due(sa[p]) + left[p] + Extra(p) <= Limit(p)
      /\ Len(calls[p]) + Base(p) <= MaxMid
  BY TallyFacts
<1>7a. \A x \in Peers : Limit(x)' = Limit(x)
  BY <1>0a DEF Limit
<1>8. Budget(p)'
  <2> SUFFICES t.imid + Due(t) + left'[p] + Extra(p)' <= Limit(p)
    BY <1>4, <1>7a DEF Budget
  <2>2. CASE t.imid = sa[p].imid /\ Due(t) + left'[p] <= Due(sa[p]) + left[p]
    <3>1. MoreDue(p)' = MoreDue(p)
      BY <1>0a, <1>4, <2>2 DEF MoreDue
    <3>2. Extra(p)' = Extra(p)
      BY <3>1 DEF Extra
    <3>3. t.imid + Due(t) + left'[p] + Extra(p) <= Limit(p)
      BY <1>5, <1>6, <1>7, <2>2, Sums
    <3> QED
      BY <3>2, <3>3
  <2>3. CASE /\ t.imid = sa[p].imid + 1
             /\ Due(t) + left'[p] + 1 <= Due(sa[p]) + left[p] + Extra(p)
             /\ \E k \in Tasks : Calling(p, sa[p], calls[p], Len(answers[p]), k)
    <3>1. \A m \in net : ~m.req /\ m.from = Other(p) /\ m.to # "INIT" => m.mid # sa[p].imid + 1
      BY <2>3, NotYet
    <3>2. ~MoreDue(p)'
      BY <1>0a, <1>4, <2>3, <3>1 DEF MoreDue
    <3>3. Extra(p)' = 0
      BY <3>2 DEF Extra
    <3>4. (sa[p].imid + 1) + Due(t) + left'[p] <= Limit(p)
      BY <1>5, <1>6, <1>7, <2>3, NextSums
    <3>5. t.imid + Due(t) + left'[p] \in Nat
      BY <1>5, <1>6
    <3> QED
      BY <2>3, <3>3, <3>4, <3>5
  <2> QED
    BY <2>2, <2>3 DEF Within, Covers
<1>9. Budget(q)'
  <2>1. MoreDue(q)' = MoreDue(q)
    BY <1>0a, <1>4 DEF MoreDue
  <2>2. Extra(q)' = Extra(q)
    BY <2>1 DEF Extra
  <2>3. Budget(q)
    BY <1>1 DEF TallyInv
  <2> QED
    BY <1>1, <1>4, <1>7a, <2>2, <2>3 DEF Budget
<1>10. Len(calls'[p]) + Base(p) <= MaxMid
  <2>1. CASE e = <<>>
    <3>1. calls'[p] = calls[p]
      BY <1>2, <1>4, <2>1
    <3> QED
      BY <1>7, <3>1
  <2>2. CASE e # <<>>
    <3>1. sa[p].state # "GONE"
      BY <1>3, <2>2
    <3>2. PICK k \in Tasks : e = <<k>>
      BY <1>3, <2>2 DEF Counts
    <3>3. Len(calls'[p]) = Len(calls[p]) + 1 /\ Len(calls[p]) \in Nat
      BY <1>2, <1>4, <3>2
    <3>4. PeerOf(p, sa[p], calls[p], Len(answers[p]))
      BY PeerFacts
    <3>5. CASE Quiet(p, sa[p], calls[p], Len(answers[p]))
      <4>1. CASE sa[p].state = "CREATED"
        <5>1. calls[p] = <<>>
          BY <3>5, <4>1 DEF Quiet
        <5>2. Len(calls[p]) = 0
          BY <5>1
        <5> QED
          BY <1>7, <3>3, <5>2
      <4>2. CASE sa[p].state # "CREATED"
        <5>1. sa[p].imid = Len(calls[p]) + Base(p)
          BY <3>1, <3>5, <4>2 DEF Quiet
        <5>2. sa[p].imid <= Limit(p)
          BY <1>7
        <5> QED
          BY <1>7, <3>3, <5>1, <5>2
      <4> QED
        BY <4>1, <4>2
    <3>6. ASSUME NEW j \in Tasks, Calling(p, sa[p], calls[p], Len(answers[p]), j)
          PROVE  Len(calls'[p]) + Base(p) <= MaxMid
      <4>1. sa[p].imid + 1 = Len(calls[p]) + Base(p) /\ sa[p].active # {}
        BY <3>6 DEF Calling
      <4>2. Due(sa[p]) >= 1
        <5>1. Stage(sa[p]) >= 1
          BY <4>1 DEF Stage
        <5>2. Waiting(sa[p].queued) \in Nat /\ Stage(sa[p]) \in {0, 1, 2}
          BY <1>2, DueFacts
        <5> QED
          BY <5>1, <5>2 DEF Due
      <4>3. sa[p].imid + 1 <= Limit(p)
        BY <1>7, <4>2
      <4> QED
        BY <1>7, <3>3, <4>1, <4>3
    <3> QED
      BY <3>4, <3>5, <3>6 DEF PeerOf
  <2> QED
    BY <2>1, <2>2
<1>11. Len(calls'[q]) + Base(q) <= MaxMid
  BY <1>1, <1>4 DEF TallyInv
<1>12. AirOk(t) /\ RetryOk(t) /\ (t.state = "NONE" => t.rmid = 0)
  BY DEF Within
<1>13. AirOk(sa[q]) /\ RetryOk(sa[q]) /\ (sa[q].state = "NONE" => sa[q].rmid = 0)
  BY <1>1 DEF TallyInv
<1>14. \A x \in Peers : /\ Len(calls'[x]) + Base(x) <= MaxMid
                        /\ AirOk(sa'[x]) /\ RetryOk(sa'[x])
                        /\ (sa'[x].state = "NONE" => sa'[x].rmid = 0)
  BY <1>1, <1>4, <1>10, <1>11, <1>12, <1>13
<1>15. \A x \in Peers : Budget(x)'
  BY <1>1, <1>8, <1>9
<1> QED
  BY <1>14, <1>15 DEF TallyInv, AirOk, RetryOk

LEMMA SameStep ==
    ASSUME ExchInv, NEW p \in Peers, NEW t \in Saves, NEW out, out \subseteq sa[p].ipkt,
           Same(t, sa[p]), Moves(p, t, out, <<>>), answers' = answers
    PROVE  ExchInv' /\ OnlyRequests
<1> DEFINE s == sa[p]
<1>1. /\ s \in Saves /\ sa \in [Peers -> Saves] /\ calls[p] \in Seq(Tasks) /\ answers[p] \in Seq(Tasks)
      /\ PeerOf(p, s, calls[p], Len(answers[p]))
      /\ \A m \in s.ipkt : m.from = p /\ m.req /\ Sent(m)
      /\ Len(answers[p]) <= Len(execs[Other(p)]) /\ Len(answers[p]) \in Nat
      /\ s.ipkt \subseteq Messages
  BY PeerFacts
<1>2. calls[p] \o <<>> = calls[p] /\ <<>> \in Seq(Tasks)
  BY <1>1
<1>3. PeerOf(p, t, calls[p], Len(answers[p]))
  <2>1. CASE Quiet(p, s, calls[p], Len(answers[p]))
    <3>1. Quiet(p, t, calls[p], Len(answers[p]))
      BY <2>1 DEF Quiet, Same
    <3> QED
      BY <3>1 DEF PeerOf, Same
  <2>2. CASE \E k \in Tasks : Calling(p, s, calls[p], Len(answers[p]), k)
    <3>1. \E k \in Tasks : Calling(p, t, calls[p], Len(answers[p]), k)
      BY <2>2 DEF Calling, Same
    <3> QED
      BY <3>1 DEF PeerOf, Same
  <2> QED
    BY <1>1, <2>1, <2>2 DEF PeerOf
<1>4. s.state \in {"NONE", "CREATED"} => out = {}
  <2>1. ASSUME s.state \in {"NONE", "CREATED"} PROVE out = {}
    <3>1. Quiet(p, s, calls[p], Len(answers[p]))
      BY <1>1, <2>1, QuietFacts
    <3> QED
      BY <3>1 DEF Quiet
  <2> QED
    BY <2>1
<1>5. p = Initiator /\ s.state \in {"ESTABLISHED", "DELETING"} =>
          /\ sa[Responder].state \in Later
          /\ sa[Responder].spi = s.spi /\ sa[Responder].init = s.init
  BY DEF ExchInv, CallInv, SetupAgrees, Later
<1>6. Fits(p, s, t, out, <<>>, Len(answers[p]))
  <2>1. /\ t.state = s.state /\ t.init = s.init /\ t.spi = s.spi
        /\ t.rmid = s.rmid /\ t.rpkt = s.rpkt
    BY DEF Same
  <2> QED
    BY <1>1, <1>2, <1>3, <1>4, <1>5, <2>1 DEF Fits
<1>7. Initiator \in Peers /\ sa'[Initiator].init = sa[Initiator].init
  BY <1>1, PeersFacts DEF Moves, Same
<1>8. calls' = calls
  BY <1>2 DEF Moves, ExchInv, LooseType
<1>9. \A m \in t.ipkt \cup out : /\ m.from = p /\ m.req
                                 /\ ReqOf(m, calls', sa'[Initiator].init)
  <2>1. \A m \in s.ipkt : ReqOf(m, calls, sa[Initiator].init)
    BY <1>1 DEF Sent
  <2>2. t.ipkt = s.ipkt
    BY DEF Same
  <2> QED
    BY <1>1, <1>7, <1>8, <2>1, <2>2
<1>10. out \in SUBSET Messages
  BY <1>1
<1> QED
  BY <1>1, <1>2, <1>6, <1>9, <1>10, OwnStep DEF Moves

LEMMA GoneStep ==
    ASSUME ExchInv, NEW p \in Peers, NEW t \in Saves, NEW out \in SUBSET Messages,
           NEW e \in Seq(Tasks), NEW n \in Nat,
           sa[p].state # "NONE", Ended(t, sa[p]), Moves(p, t, out, e),
           Len(answers'[p]) = n, n <= Len(execs[Other(p)]),
           \A m \in out : m.from = p /\ m.req /\ ReqOf(m, calls', sa[Initiator].init)
    PROVE  ExchInv' /\ OnlyRequests
<1> DEFINE s == sa[p]
<1>1. /\ t.state = "GONE" /\ t.init = s.init /\ t.spi = s.spi /\ t.itype = Undefined
      /\ t.ipkt = {} /\ t.rmid = s.rmid /\ t.rpkt = {} /\ t.active = {}
      /\ t.queued["INIT"] = 0 /\ t.queued["AUTH"] = 0
  BY TasksFacts DEF Ended
<1>2. PeerOf(p, t, calls[p] \o e, n)
  BY <1>1 DEF PeerOf, Quiet
<1>3. Fits(p, s, t, out, e, n)
  BY <1>1, <1>2 DEF Fits, Later
<1>4. Initiator \in Peers /\ sa'[Initiator].init = sa[Initiator].init
  BY <1>1, PeerFacts, PeersFacts DEF Moves
<1>5. \A m \in t.ipkt \cup out : /\ m.from = p /\ m.req
                                 /\ ReqOf(m, calls', sa'[Initiator].init)
  BY <1>1, <1>4
<1> QED
  BY <1>3, <1>5, OwnStep DEF Moves

\* The next call is made, on top of the n answers taken.
LEMMA CallStep ==
    ASSUME ExchInv, NEW p \in Peers, NEW t \in Saves, NEW a \in Saves, NEW k \in Tasks \ {"INIT"},
           NEW out, NEW n \in Nat,
           Begun(p, t, a, k), out \subseteq {Request(p, a, k)}, Moves(p, t, out, <<k>>),
           Len(answers'[p]) = n, n <= Len(execs[Other(p)]), n = Len(calls[p]),
           a.imid = n + Base(p), a.active = {k}, a.queued["INIT"] = 0, a.queued["AUTH"] = 0,
           a.rmid = sa[p].rmid, a.rpkt = sa[p].rpkt, a.init = sa[p].init,
           sa[p].state \notin {"NONE", "GONE"},
           a.spi = 0 => sa[p].spi = 0,
           p = Responder => a.spi = sa[p].spi /\ k \in Queueable,
           k = "AUTH" => a.state = "CONNECTING",
           k # "AUTH" => /\ a.state = "ESTABLISHED"
                         /\ p = Initiator => /\ sa[Responder].state \in Later
                                             /\ sa[Responder].spi = a.spi
                                             /\ sa[Responder].init = a.init
    PROVE  ExchInv' /\ OnlyRequests
<1> DEFINE s == sa[p]  c == calls[p] \o <<k>>  m0 == Request(p, a, k)
<1>1. /\ t.state = (IF k = "DELETE" THEN "DELETING" ELSE a.state)
      /\ t.init = a.init /\ t.spi = a.spi
      /\ t.imid = a.imid /\ t.itype = ExchangeOf(k) /\ t.ipkt = {m0}
      /\ t.rmid = a.rmid /\ t.rpkt = a.rpkt
      /\ t.queued = a.queued /\ t.active = a.active
  BY DEF Begun
<1>2. k \in Tasks /\ <<k>> \in Seq(Tasks) /\ calls[p] \in Seq(Tasks) /\ Len(calls[p]) \in Nat
  BY PeerFacts
<1>3. c \in Seq(Tasks) /\ Len(c) = n + 1 /\ c[n + 1] = k
  BY <1>2
<1>4. /\ m0.from = p /\ m0.req /\ m0.mid = a.imid /\ m0.type = ExchangeOf(k) /\ m0.spi = a.spi
      /\ m0.init = a.init /\ m0.body = k /\ m0.to = k
  BY DEF Request
<1>5. m0 \in Messages
  BY <1>2, RequestType
<1> HIDE DEF c, m0
<1>6. Base(p) \in {0, 1} /\ a.imid \in Nat
  BY PeersFacts DEF Saves
<1>7. t.state = StateIn(k)
  BY <1>1, <1>2, TasksFacts DEF StateIn
<1>8. Calling(p, t, c, n, k)
  <2>1. k = "AUTH" => p = Initiator
    BY PeersFacts DEF Queueable
  <2>2. t.imid + 1 = Len(c) + Base(p)
    BY <1>1, <1>3, <1>6
  <2>3. t.ipkt = {m0} /\ m0.mid = t.imid /\ m0.type = t.itype
    BY <1>1, <1>4
  <2>4. \E m \in t.ipkt : t.ipkt = {m} /\ m.mid = t.imid /\ m.type = t.itype
    BY <2>3
  <2> QED
    BY <1>1, <1>3, <1>7, <2>1, <2>2, <2>4 DEF Calling
<1>9. PeerOf(p, t, c, n)
  BY <1>1, <1>2, <1>8 DEF PeerOf
<1>10. t.state \in {"CONNECTING", "ESTABLISHED", "DELETING"}
  BY <1>1
<1>11. p = Responder => t.state \in Later
  BY <1>1, PeersFacts DEF Later, Queueable
<1>12. p = Initiator /\ t.state \in {"ESTABLISHED", "DELETING"} =>
          /\ sa[Responder].state \in Later
          /\ sa[Responder].spi = t.spi /\ sa[Responder].init = t.init
  BY <1>1
<1>13. Fits(p, s, t, out, <<k>>, n)
  BY <1>1, <1>9, <1>10, <1>11, <1>12 DEF Fits, c
<1>14. calls'[p] = c
  BY PeersFacts DEF Moves, c, ExchInv, LooseType
<1>15. p = Initiator => sa'[Initiator].init = a.init
  BY <1>1, PeerFacts DEF Moves
<1>16. ReqOf(m0, calls', sa'[Initiator].init)
  <2>1. m0.mid + 1 - Base(p) = n + 1
    BY <1>4, <1>6
  <2>2. n + 1 \in 1..Len(calls'[p]) /\ calls'[p][n + 1] = k
    BY <1>3, <1>14
  <2> QED
    BY <1>2, <1>4, <1>15, <2>1, <2>2 DEF ReqOf
<1>17. \A m \in t.ipkt \cup out : /\ m.from = p /\ m.req
                                  /\ ReqOf(m, calls', sa'[Initiator].init)
  <2>1. \A m \in t.ipkt \cup out : m = m0
    BY <1>1 DEF m0
  <2> QED
    BY <2>1, <1>4, <1>16
<1>18. out \in SUBSET Messages
  BY <1>5 DEF m0
<1> QED
  BY <1>2, <1>13, <1>17, <1>18, OwnStep DEF Moves

\* IKE_SA_INIT is begun, for the first time or once more.
LEMMA InitStep ==
    ASSUME ExchInv, NEW t \in Saves, NEW a \in Saves, NEW out,
           Begun(Initiator, t, a, "INIT"), out \subseteq {Request(Initiator, a, "INIT")},
           Moves(Initiator, t, out, <<>>), answers' = answers,
           calls[Initiator] = <<>>, answers[Initiator] = <<>>, execs[Initiator] = <<>>,
           a.imid = 0, a.spi = 0, sa[Initiator].spi = 0,
           a.rmid = sa[Initiator].rmid, a.rpkt \subseteq sa[Initiator].rpkt,
           a.active = {"INIT", "AUTH"}, a.queued["INIT"] = 0, a.queued["AUTH"] = 0,
           sa[Initiator].state \notin {"NONE", "GONE"}
    PROVE  ExchInv' /\ OnlyRequests
<1> DEFINE p == Initiator  s == sa[p]  m0 == Request(p, a, "INIT")
<1>1. /\ t.state = "CONNECTING" /\ t.init = a.init /\ t.spi = 0
      /\ t.imid = 0 /\ t.itype = ExchangeOf("INIT") /\ t.ipkt = {m0}
      /\ t.rmid = s.rmid /\ t.rpkt \subseteq s.rpkt
      /\ t.queued = a.queued /\ t.active = {"INIT", "AUTH"}
  BY DEF Begun
<1>2. p \in Peers /\ "INIT" \in Tasks /\ <<>> \in Seq(Tasks) /\ Base(p) = 1 /\ Other(p) \in Peers
  BY PeersFacts, TasksFacts
<1>3. calls[p] \o <<>> = <<>> /\ Len(answers[p]) = 0 /\ Len(execs[Other(p)]) \in Nat
  BY <1>2, PeerFacts
<1>4. /\ m0.from = p /\ m0.req /\ m0.mid = 0 /\ m0.type = ExchangeOf("INIT") /\ m0.spi = 0
      /\ m0.body = "INIT" /\ m0.to = "INIT"
  BY DEF Request
<1>5. m0 \in Messages
  BY <1>2, RequestType
<1> HIDE DEF m0
<1>8. Calling(p, t, <<>>, 0, "INIT")
  <2>3. \E m \in t.ipkt : t.ipkt = {m} /\ m.mid = t.imid /\ m.type = t.itype
    BY <1>1, <1>4
  <2>4. t.imid + 1 = Len(<<>>) + Base(p)
    BY <1>1, <1>2
  <2> QED
    BY <1>1, <2>3, <2>4 DEF Calling, StateIn
<1>9. PeerOf(p, t, <<>>, 0)
  BY <1>1, <1>2, <1>8 DEF PeerOf
<1>10. p # Responder
  BY PeersFacts
<1>13. Fits(p, s, t, out, <<>>, 0)
  BY <1>1, <1>3, <1>9, <1>10 DEF Fits
<1>16. ReqOf(m0, calls', sa'[Initiator].init)
  BY <1>2, <1>4 DEF ReqOf
<1>17. \A m \in t.ipkt \cup out : /\ m.from = p /\ m.req
                                  /\ ReqOf(m, calls', sa'[Initiator].init)
  <2>1. \A m \in t.ipkt \cup out : m = m0
    BY <1>1 DEF m0
  <2> QED
    BY <2>1, <1>4, <1>16
<1>18. out \in SUBSET Messages
  BY <1>5 DEF m0
<1> QED
  BY <1>2, <1>3, <1>13, <1>17, <1>18, OwnStep DEF Moves

LEMMA IdleStep ==
    ASSUME ExchInv, NEW p \in Peers, NEW t \in Saves, NEW n \in Nat, Moves(p, t, {}, <<>>),
           Len(answers'[p]) = n, n <= Len(execs[Other(p)]), n = Len(calls[p]),
           t.itype = Undefined, t.ipkt = {}, t.active = {}, t.state = "ESTABLISHED",
           t.queued["INIT"] = 0, t.queued["AUTH"] = 0, t.imid = n + Base(p),
           t.rmid = sa[p].rmid, t.rpkt = sa[p].rpkt, t.init = sa[p].init, t.spi = sa[p].spi,
           sa[p].state \notin {"NONE", "GONE"},
           p = Initiator => /\ sa[Responder].state \in Later
                            /\ sa[Responder].spi = t.spi /\ sa[Responder].init = t.init
    PROVE  ExchInv' /\ OnlyRequests
<1>1. <<>> \in Seq(Tasks) /\ calls[p] \o <<>> = calls[p]
  BY PeerFacts
<1>2. Quiet(p, t, calls[p], n)
  BY DEF Quiet
<1>3. PeerOf(p, t, calls[p] \o <<>>, n)
  BY <1>1, <1>2 DEF PeerOf
<1>4. Fits(p, sa[p], t, {}, <<>>, n)
  BY <1>3 DEF Fits, Later
<1>5. {} \in SUBSET Messages /\ \A m \in t.ipkt \cup {} : FALSE
  OBVIOUS
<1>6. \A m \in t.ipkt \cup {} : /\ m.from = p /\ m.req
                                /\ ReqOf(m, calls', sa'[Initiator].init)
  BY <1>5
<1> QED
  BY <1>1, <1>4, <1>5, <1>6, OwnStep DEF Moves

\* initiate() with nothing in the air and no task active.
LEMMA FreeStep ==
    ASSUME ExchInv, NEW p \in Peers, NEW s \in Saves, NEW n \in Nat, NEW path \in AllPaths,
           NEW r, r = Initiate(p, s, path), Moves(p, r.sa, r.out, r.called),
           Len(answers'[p]) = n, n <= Len(execs[Other(p)]), n = Len(calls[p]),
           s.itype = Undefined, s.ipkt = {}, s.active = {}, s.state = "ESTABLISHED",
           s.queued["INIT"] = 0, s.queued["AUTH"] = 0, s.imid = n + Base(p),
           s.rmid = sa[p].rmid, s.rpkt = sa[p].rpkt, s.init = sa[p].init, s.spi = sa[p].spi,
           sa[p].state \notin {"NONE", "GONE"},
           p = Initiator => /\ sa[Responder].state \in Later
                            /\ sa[Responder].spi = s.spi /\ sa[Responder].init = s.init
    PROVE  ExchInv' /\ OnlyRequests /\ Counts(p, r.called)
<1>1. /\ r.sa \in Saves
      /\ \/ r.sa = s /\ r.out = {} /\ r.called = <<>>
         \/ \E k \in Queueable, a \in Saves : Picked(p, s, r, k, a)
  BY InitiateFree
<1>2. CASE r.sa = s /\ r.out = {} /\ r.called = <<>>
  <2>1. Moves(p, s, {}, <<>>)
    BY <1>2
  <2>2. Counts(p, r.called)
    BY <1>2 DEF Counts
  <2> QED
    BY <2>1, <2>2, IdleStep
<1>3. CASE \E k \in Queueable, a \in Saves : Picked(p, s, r, k, a)
  <2>1. PICK k \in Queueable, a \in Saves :
               /\ Begun(p, r.sa, a, k) /\ r.out \subseteq {Request(p, a, k)}
               /\ r.called = <<k>>
               /\ a.state = "ESTABLISHED"
               /\ a.init = s.init /\ a.spi = s.spi
               /\ a.imid = s.imid /\ a.rmid = s.rmid /\ a.rpkt = s.rpkt
               /\ a.active = {k} /\ a.queued = [s.queued EXCEPT ![k] = @ - 1]
    BY <1>3 DEF Picked
  <2>2. k \in Tasks \ {"INIT"} /\ k # "AUTH" /\ k # "INIT"
    BY TasksFacts DEF Queueable
  <2>3. a.queued["INIT"] = 0 /\ a.queued["AUTH"] = 0
    BY <2>1, <2>2 DEF Saves
  <2>4. Moves(p, r.sa, r.out, <<k>>)
    BY <2>1
  <2>5. PICK t, out : t = r.sa /\ out = r.out
    OBVIOUS
  <2>6. t \in Saves /\ Begun(p, t, a, k) /\ out \subseteq {Request(p, a, k)} /\ Moves(p, t, out, <<k>>)
    BY <1>1, <2>1, <2>4, <2>5
  <2>7. /\ a.imid = n + Base(p) /\ a.rmid = sa[p].rmid /\ a.rpkt = sa[p].rpkt /\ a.init = sa[p].init
        /\ a.spi = sa[p].spi
        /\ p = Initiator => /\ sa[Responder].state \in Later
                            /\ sa[Responder].spi = a.spi /\ sa[Responder].init = a.init
    BY <2>1
  <2>8. Counts(p, r.called)
    BY <2>1, <2>2 DEF Counts
  <2> QED
    BY <2>1, <2>2, <2>3, <2>6, <2>7, <2>8, CallStep
<1> QED
  BY <1>1, <1>2, <1>3

-----------------------------------------------------------------------------
(* The operations of a peer *)

LEMMA KeptSame ==
    ASSUME ExchInv, NEW p \in Peers, NEW t, Kept(t, sa[p])
    PROVE  Same(t, sa[p])
BY PeerFacts DEF Kept, Same, PeerOf

\* A task is queued and initiate() called.
LEMMA QueueStep ==
    ASSUME ExchInv, NEW p \in Peers, NEW s \in Saves, Same(s, sa[p]), NEW path \in AllPaths,
           sa[p].state = "ESTABLISHED",
           s.jobs = sa[p].jobs, s.deferred = sa[p].deferred, s.retry = sa[p].retry,
           NEW r, r = Initiate(p, s, path), Moves(p, r.sa, r.out, r.called), answers' = answers
    PROVE  ExchInv' /\ OnlyRequests /\ Counts(p, r.called) /\ r.sa \in Saves
           /\ (TallyInv => Spends(r.sa, s))
<1>0. /\ s.state = sa[p].state /\ s.init = sa[p].init /\ s.spi = sa[p].spi
      /\ s.imid = sa[p].imid /\ s.itype = sa[p].itype /\ s.ipkt = sa[p].ipkt
      /\ s.rmid = sa[p].rmid /\ s.rpkt = sa[p].rpkt /\ s.active = sa[p].active
      /\ s.queued["INIT"] = 0 /\ s.queued["AUTH"] = 0
  BY DEF Same
<1>0a. TallyInv => /\ s.imid \in Mids /\ AirOk(s) /\ RetryOk(s)
  <2> SUFFICES ASSUME TallyInv PROVE s.imid \in Mids /\ AirOk(s) /\ RetryOk(s)
    OBVIOUS
  <2>1. sa[p].imid \in Mids /\ AirOk(sa[p]) /\ RetryOk(sa[p])
    BY TallyFacts
  <2> QED
    BY <1>0, <2>1 DEF AirOk, RetryOk
<1>1. CASE s.itype # Undefined
  <2>1. r.sa \in Saves /\ Kept(r.sa, s) /\ r.out \subseteq s.ipkt /\ r.called = <<>>
    BY <1>1, InitiateInAir
  <2>2. Same(r.sa, sa[p])
    BY <1>0, <2>1 DEF Kept, Same
  <2>3. r.out \subseteq sa[p].ipkt /\ Moves(p, r.sa, r.out, <<>>)
    BY <1>0, <2>1
  <2>4. Counts(p, r.called)
    BY <2>1 DEF Counts
  <2>5. s.ipkt # {}
    <3>1. ~Quiet(p, sa[p], calls[p], Len(answers[p])) /\ PeerOf(p, sa[p], calls[p], Len(answers[p]))
      BY <1>0, <1>1, PeerFacts DEF Quiet
    <3> QED
      BY <1>0, <3>1 DEF PeerOf, Calling
  <2>6. TallyInv => Spends(r.sa, s)
    BY <1>0, <1>0a, <1>1, <2>5, AirSpends
  <2>7. ExchInv' /\ OnlyRequests
    BY <2>1, <2>2, <2>3, SameStep
  <2> QED
    BY <2>1, <2>4, <2>6, <2>7
<1>2. CASE s.itype = Undefined
  <2>1. /\ PeerOf(p, sa[p], calls[p], Len(answers[p])) /\ Len(answers[p]) \in Nat
        /\ Len(answers[p]) <= Len(execs[Other(p)])
    BY PeerFacts
  <2>2. Quiet(p, sa[p], calls[p], Len(answers[p]))
    BY <1>0, <1>2, <2>1, QuietFacts
  <2>3. /\ s.ipkt = {} /\ s.active = {} /\ Len(answers[p]) = Len(calls[p])
        /\ s.imid = Len(answers[p]) + Base(p)
    BY <1>0, <2>2 DEF Quiet
  <2>4. p = Initiator => /\ sa[Responder].state \in Later
                         /\ sa[Responder].spi = s.spi /\ sa[Responder].init = s.init
    BY <1>0 DEF ExchInv, CallInv, SetupAgrees, Later
  <2>5. PICK n \in Nat : n = Len(answers[p])
    BY <2>1
  <2>6. /\ Len(answers'[p]) = n /\ n <= Len(execs[Other(p)]) /\ n = Len(calls[p])
        /\ s.imid = n + Base(p)
    BY <2>1, <2>3, <2>5
  <2>7. TallyInv => Spends(r.sa, s)
    BY <1>0, <1>0a, <1>2, <2>3, FreeSpends
  <2>8. r.sa \in Saves
    BY <1>0, <1>2, <2>3, InitiateFree
  <2>9. ExchInv' /\ OnlyRequests /\ Counts(p, r.called)
    BY <1>0, <1>2, <2>3, <2>4, <2>6, FreeStep
  <2> QED
    BY <2>7, <2>8, <2>9
<1> QED
  BY <1>1, <1>2

LEMMA QueuedFacts ==
    ASSUME NEW s \in Saves, NEW k \in Tasks, NEW x \in Nat, NEW t, t = [s EXCEPT !.queued[k] = x]
    PROVE  t \in Saves /\ t.queued = [s.queued EXCEPT ![k] = x]
<1>1. s.queued \in [Tasks -> Nat]
  BY DEF Saves
<1>2. PICK w : w = [s.queued EXCEPT ![k] = x]
  OBVIOUS
<1>3. w \in [Tasks -> Nat]
  BY <1>1, <1>2
<1>4. t = [s EXCEPT !.queued = w]
  BY <1>2
<1>5. t \in Saves /\ t.queued = w
  BY <1>3, <1>4 DEF Saves
<1> QED
  BY <1>2, <1>5

LEMMA QueueKeeps ==
    ASSUME ExchInv, NEW p \in Peers, NEW k \in Queueable, NEW path \in AllPaths, Queue(p, k, path)
    PROVE  ExchInv' /\ Continues(p)
<1>1. /\ sa[p].state = "ESTABLISHED" /\ left[p] > 0
      /\ left' = [left EXCEPT ![p] = @ - 1]
      /\ Step(p, Initiate(p, [sa[p] EXCEPT !.queued[k] = @ + 1], path))
      /\ UNCHANGED <<half, scene, spis, execs, answers>>
  BY DEF Queue
<1>2. PICK s : s = [sa[p] EXCEPT !.queued[k] = @ + 1]
  OBVIOUS
<1>3. PICK r : r = Initiate(p, s, path)
  OBVIOUS
<1>4. sa[p] \in Saves /\ left \in [Peers -> Nat] /\ answers \in [Peers -> Seq(Tasks)]
  BY PeerFacts DEF ExchInv, LooseType
<1>5. /\ left' \in [Peers -> Nat] /\ left'[Other(p)] = left[Other(p)]
      /\ left[p] \in Nat /\ left'[p] \in Nat /\ left'[p] + 1 = left[p]
  BY <1>1, <1>4, PeersFacts
<1>6. Moves(p, r.sa, r.out, r.called)
  BY <1>1, <1>2, <1>3, <1>4, <1>5 DEF Moves, Step
<1>7. sa[p].queued \in [Tasks -> Nat] /\ k \in Tasks /\ k # "INIT" /\ k # "AUTH"
  BY <1>4 DEF Saves, Queueable, Tasks
<1>8. PICK x \in Nat : x = sa[p].queued[k] + 1
  BY <1>7
<1>9. s \in Saves /\ s.queued = [sa[p].queued EXCEPT ![k] = x]
  <2>1. s = [sa[p] EXCEPT !.queued[k] = x]
    BY <1>2, <1>8
  <2> QED
    BY <2>1, <1>4, <1>7, QueuedFacts
<1>10. sa[p].queued["INIT"] = 0 /\ sa[p].queued["AUTH"] = 0
  BY PeerFacts DEF PeerOf
<1>11. Same(s, sa[p]) /\ s.jobs = sa[p].jobs /\ s.deferred = sa[p].deferred /\ s.retry = sa[p].retry
  BY <1>2, <1>4, <1>7, <1>10 DEF Same, Saves
<1>12. /\ ExchInv' /\ OnlyRequests /\ Counts(p, r.called) /\ r.sa \in Saves
       /\ TallyInv => Spends(r.sa, s)
  BY <1>1, <1>3, <1>6, <1>9, <1>11, QueueStep
<1>13. Proceeds(p, r.sa, r.called)
  BY <1>1, <1>6, <1>12 DEF Proceeds, Moves, Taken
<1>14. TallyInv => Within(p, r.sa)
  <2> SUFFICES ASSUME TallyInv PROVE Within(p, r.sa)
    OBVIOUS
  <2>0. Puts(s, sa[p], k, x)
    BY <1>9, <1>11 DEF Same, Puts
  <2>1. Due(s) = Due(sa[p]) - sa[p].queued[k] + x
    BY <1>4, <2>0, DueQueued
  <2>2. Due(sa[p]) \in Nat /\ sa[p].queued[k] \in Nat
    BY <1>4, <1>7, DueFacts
  <2>3. Due(s) + left'[p] <= Due(sa[p]) + left[p]
    BY <1>5, <1>8, <2>1, <2>2
  <2>4. Covers(p, s)
    BY <1>11, <2>3 DEF Covers, Same
  <2> QED
    BY <1>5, <1>9, <1>12, <2>4, SpendsWithin
<1> QED
  BY <1>12, <1>13, <1>14 DEF Continues

LEMMA RoamKeeps ==
    ASSUME ExchInv, NEW p \in Peers, NEW path \in AllPaths, Roam(p, path)
    PROVE  ExchInv' /\ Continues(p)
<1> DEFINE s == sa[p]
           dropped == s.queued["MOBIKE"] > 0
           roam == path = "other"
           f == IF dropped THEN s.roamed ELSE roam
           g == s.probing \/ (roam /\ "MOBIKE" \in s.active)
<1>1. /\ s.state = "ESTABLISHED"
      /\ dropped \/ left[p] > 0
      /\ left' = [left EXCEPT ![p] = IF dropped THEN @ ELSE @ - 1]
      /\ UNCHANGED <<half, scene, spis, execs, answers>>
      /\ Step(p, Initiate(p, [s EXCEPT !.queued["MOBIKE"] = 1, !.roamed = f, !.probing = g], path))
  BY DEF Roam
<1>2. s \in Saves /\ left \in [Peers -> Nat] /\ answers \in [Peers -> Seq(Tasks)]
  BY PeerFacts DEF ExchInv, LooseType
<1>3. f \in BOOLEAN /\ g \in BOOLEAN /\ s.queued \in [Tasks -> Nat]
  BY <1>2 DEF Saves
<1>4. /\ left' \in [Peers -> Nat] /\ left'[Other(p)] = left[Other(p)]
      /\ left[p] \in Nat /\ left'[p] \in Nat /\ left'[p] = IF dropped THEN left[p] ELSE left[p] - 1
  BY <1>1, <1>2, PeersFacts
<1>5. "MOBIKE" \in Tasks
  BY TasksFacts
<1>6. PICK u : u = [s EXCEPT !.queued["MOBIKE"] = 1]
  OBVIOUS
<1>7. u \in Saves /\ u.queued = [s.queued EXCEPT !["MOBIKE"] = 1]
  <2>1. PICK x \in Nat, k \in Tasks : x = 1 /\ k = "MOBIKE"
    BY <1>5
  <2>2. u = [s EXCEPT !.queued[k] = x]
    BY <1>6, <2>1
  <2>3. u \in Saves /\ u.queued = [s.queued EXCEPT ![k] = x]
    BY <1>2, <2>2, QueuedFacts
  <2> QED
    BY <2>1, <2>3
<1>8. Same(u, s)
  <2>1. s.queued["INIT"] = 0 /\ s.queued["AUTH"] = 0
    BY PeerFacts DEF PeerOf
  <2>2. u.queued["INIT"] = 0 /\ u.queued["AUTH"] = 0
    BY <1>3, <1>7, <2>1
  <2> QED
    BY <1>2, <1>6, <2>2 DEF Same, Saves
<1> HIDE DEF f, g
<1>9. PICK v : v = [u EXCEPT !.roamed = f, !.probing = g]
  OBVIOUS
<1>10. v \in Saves
  BY <1>3, <1>7, <1>9 DEF Saves
<1>11. Same(v, s) /\ v.jobs = s.jobs /\ v.deferred = s.deferred /\ v.retry = s.retry
       /\ v.queued = u.queued
  BY <1>2, <1>6, <1>7, <1>8, <1>9 DEF Same, Saves
<1>12. v = [s EXCEPT !.queued["MOBIKE"] = 1, !.roamed = f, !.probing = g]
  BY <1>6, <1>9
<1>13. PICK r : r = Initiate(p, v, path)
  OBVIOUS
<1>14. Moves(p, r.sa, r.out, r.called)
  BY <1>1, <1>2, <1>4, <1>12, <1>13 DEF Moves, Step
<1>15. sa[p].state = "ESTABLISHED" /\ answers' = answers /\ Same(v, sa[p])
       /\ v.jobs = sa[p].jobs /\ v.deferred = sa[p].deferred /\ v.retry = sa[p].retry
  BY <1>1, <1>11
<1>15a. TallyInv => Covers(p, v)
  <2> SUFFICES ASSUME TallyInv PROVE Covers(p, v)
    OBVIOUS
  <2>0. PICK x \in Nat, k \in Queueable : x = 1 /\ k = "MOBIKE"
    BY DEF Queueable
  <2>1. v.imid = s.imid /\ Puts(v, s, k, x)
    BY <1>7, <1>11, <2>0 DEF Same, Puts
  <2>2. Due(v) = Due(s) - s.queued[k] + x
    BY <1>2, <2>1, DueQueued
  <2>3. Due(s) \in Nat /\ s.queued[k] \in Nat /\ s.queued[k] = s.queued["MOBIKE"]
    BY <1>2, <1>3, <1>5, <2>0, DueFacts
  <2>4. Due(v) + left'[p] <= Due(s) + left[p]
    BY <1>4, <2>0, <2>2, <2>3
  <2> QED
    BY <2>1, <2>4 DEF Covers
<1> HIDE DEF dropped, roam
<1>16. /\ ExchInv' /\ OnlyRequests /\ Counts(p, r.called) /\ r.sa \in Saves
       /\ TallyInv => Spends(r.sa, v)
  BY <1>10, <1>13, <1>14, <1>15, QueueStep
<1>17. Proceeds(p, r.sa, r.called)
  BY <1>14, <1>15, <1>16 DEF Proceeds, Moves, Taken
<1>18. TallyInv => Within(p, r.sa)
  BY <1>4, <1>10, <1>15a, <1>16, SpendsWithin
<1> QED
  BY <1>16, <1>17, <1>18 DEF Continues

LEMMA DeleteKeeps ==
    ASSUME ExchInv, NEW p \in Peers, NEW path \in AllPaths, Delete(p, path)
    PROVE  ExchInv' /\ Continues(p)
<1> DEFINE s == sa[p]
<1>1. /\ Alive(p) /\ left[p] > 0 /\ left' = [left EXCEPT ![p] = @ - 1]
      /\ UNCHANGED <<half, scene, spis, execs, answers>>
      /\ Step(p, IF s.state = "ESTABLISHED"
                 THEN Initiate(p, [s EXCEPT !.queued["DELETE"] = @ + 1], path)
                 ELSE Result(Destroyed(s), {}, <<>>))
  BY DEF Delete
<1>2. /\ s \in Saves /\ left \in [Peers -> Nat] /\ answers \in [Peers -> Seq(Tasks)]
      /\ Len(answers[p]) \in Nat /\ Len(answers[p]) <= Len(execs[Other(p)])
  BY PeerFacts DEF ExchInv, LooseType
<1>3. /\ left' \in [Peers -> Nat] /\ left'[Other(p)] = left[Other(p)]
      /\ left[p] \in Nat /\ left'[p] \in Nat /\ left'[p] + 1 = left[p] /\ left'[p] <= left[p]
  BY <1>1, <1>2, PeersFacts
<1>4. CASE s.state = "ESTABLISHED"
  <2>1. "DELETE" \in Tasks /\ s.queued \in [Tasks -> Nat]
    BY <1>2, TasksFacts DEF Saves
  <2>2. PICK x \in Nat : x = s.queued["DELETE"] + 1
    BY <2>1
  <2>3. PICK u : u = [s EXCEPT !.queued["DELETE"] = x]
    OBVIOUS
  <2>4. u \in Saves /\ u.queued = [s.queued EXCEPT !["DELETE"] = x]
    BY <1>2, <2>1, <2>3, QueuedFacts
  <2>5. u = [s EXCEPT !.queued["DELETE"] = @ + 1]
    BY <2>2, <2>3
  <2>6. Same(u, s) /\ u.jobs = s.jobs /\ u.deferred = s.deferred /\ u.retry = s.retry
    <3>1. s.queued["INIT"] = 0 /\ s.queued["AUTH"] = 0
      BY PeerFacts DEF PeerOf
    <3>2. u.queued["INIT"] = 0 /\ u.queued["AUTH"] = 0
      BY <2>1, <2>4, <3>1
    <3> QED
      BY <1>2, <2>3, <3>2 DEF Same, Saves
  <2>7. PICK r : r = Initiate(p, u, path)
    OBVIOUS
  <2>8. Moves(p, r.sa, r.out, r.called)
    BY <1>1, <1>2, <1>3, <1>4, <2>5, <2>7 DEF Moves, Step
  <2>9. /\ ExchInv' /\ OnlyRequests /\ Counts(p, r.called) /\ r.sa \in Saves
        /\ TallyInv => Spends(r.sa, u)
    BY <1>1, <1>4, <2>4, <2>6, <2>7, <2>8, QueueStep
  <2>10. Proceeds(p, r.sa, r.called)
    BY <1>1, <1>4, <2>8, <2>9 DEF Proceeds, Moves, Taken
  <2>11. TallyInv => Covers(p, u)
    <3> SUFFICES ASSUME TallyInv PROVE Covers(p, u)
      OBVIOUS
    <3>0. PICK k \in Queueable : k = "DELETE"
      BY DEF Queueable
    <3>1. u.imid = s.imid /\ Puts(u, s, k, x)
      BY <2>4, <2>6, <3>0 DEF Same, Puts
    <3>2. Due(u) = Due(s) - s.queued[k] + x
      BY <1>2, <3>1, DueQueued
    <3>3. Due(s) \in Nat /\ s.queued[k] \in Nat /\ s.queued[k] = s.queued["DELETE"]
      BY <1>2, <2>1, <3>0, DueFacts
    <3>4. Due(u) + left'[p] <= Due(s) + left[p]
      BY <1>3, <2>2, <3>2, <3>3
    <3> QED
      BY <3>1, <3>4 DEF Covers
  <2>12. TallyInv => Within(p, r.sa)
    BY <1>3, <2>4, <2>9, <2>11, SpendsWithin
  <2> QED
    BY <2>9, <2>10, <2>12 DEF Continues
<1>5. CASE s.state # "ESTABLISHED"
  <2>1. Destroyed(s) \in Saves /\ Ended(Destroyed(s), s)
    BY <1>2, DestroyedFacts
  <2>2. Moves(p, Destroyed(s), {}, <<>>)
    BY <1>1, <1>2, <1>3, <1>5 DEF Moves, Step, Result
  <2>3. PICK t, n : t = Destroyed(s) /\ n = Len(answers[p])
    OBVIOUS
  <2>4. /\ t \in Saves /\ Ended(t, s) /\ Moves(p, t, {}, <<>>) /\ n \in Nat
        /\ Len(answers'[p]) = n /\ n <= Len(execs[Other(p)]) /\ s.state # "NONE"
        /\ {} \in SUBSET Messages /\ <<>> \in Seq(Tasks)
    BY <1>1, <1>2, <2>1, <2>2, <2>3 DEF Alive
  <2>5. ExchInv' /\ OnlyRequests
    BY <2>4, GoneStep
  <2>6. Proceeds(p, t, <<>>)
    BY <1>1, <2>4, <2>5 DEF Proceeds, Moves, Counts, Taken, Alive
  <2>7. TallyInv => Within(p, t)
    BY <1>3, <2>4, EndedWithin
  <2> QED
    BY <2>5, <2>6, <2>7 DEF Continues
<1> QED
  BY <1>4, <1>5

LEMMA RetransmitKeeps ==
    ASSUME ExchInv, NEW p \in Peers, NEW path \in AllPaths, NEW n \in Mids, RetransmitJob(p, n, path)
    PROVE  ExchInv' /\ Continues(p)
<1> DEFINE s == sa[p]
<1>1. PICK u : u = [s EXCEPT !.jobs[n] = @ - 1]
  OBVIOUS
<1>2. PICK r : r = Retransmit(u, n, path)
  OBVIOUS
<1>3. /\ s.jobs[n] > 0 /\ Step(p, r)
      /\ UNCHANGED <<half, scene, spis, left, execs, answers>>
  BY <1>1, <1>2 DEF RetransmitJob
<1>4. /\ s \in Saves /\ left \in [Peers -> Nat] /\ answers \in [Peers -> Seq(Tasks)]
      /\ Len(answers[p]) \in Nat /\ Len(answers[p]) <= Len(execs[Other(p)])
      /\ PeerOf(p, s, calls[p], Len(answers[p]))
  BY PeerFacts DEF ExchInv, LooseType
<1>5. u \in Saves
  <2>1. s.jobs \in [Mids -> Nat] /\ s.jobs[n] - 1 \in Nat
    BY <1>3, <1>4 DEF Saves
  <2>2. PICK j : j = [s.jobs EXCEPT ![n] = @ - 1]
    OBVIOUS
  <2>3. j \in [Mids -> Nat]
    BY <2>1, <2>2
  <2>4. u = [s EXCEPT !.jobs = j]
    BY <1>1, <2>2
  <2> QED
    BY <1>4, <2>3, <2>4 DEF Saves
<1>6. Kept(u, s)
  BY <1>1, <1>4 DEF Kept, Saves
<1>7. n \in Nat
  BY TaskManagerConstants DEF Mids
<1>8. /\ r.sa \in Saves /\ r.out \subseteq u.ipkt /\ r.called = <<>>
      /\ Kept(r.sa, u) \/ (Ended(r.sa, u) /\ u.ipkt # {} /\ r.out = {})
      /\ u.imid \in Mids /\ (AirOk(u) \/ (n = u.imid /\ u.ipkt # {})) => AirOk(r.sa)
  BY <1>2, <1>5, <1>7, RetransmitFacts
<1>9. Moves(p, r.sa, r.out, <<>>)
  BY <1>3, <1>4, <1>8 DEF Moves, Step
<1>9a. Counts(p, <<>>) /\ Taken(p)
  BY <1>3 DEF Counts, Taken
<1>9b. r.sa.state \in {s.state, "GONE"}
  BY <1>6, <1>8 DEF Kept, Ended
<1>9c. OnlyRequests => Proceeds(p, r.sa, <<>>)
  BY <1>3, <1>9, <1>9a, <1>9b DEF Proceeds, Moves
<1>9d. TallyInv => AirOk(r.sa)
  <2> SUFFICES ASSUME TallyInv PROVE AirOk(r.sa)
    OBVIOUS
  <2>1. s.imid \in Mids /\ AirOk(s)
    BY TallyFacts
  <2>2. u.imid = s.imid /\ u.itype = s.itype /\ u.ipkt = s.ipkt /\ u.deferred = s.deferred
        /\ u.jobs = [s.jobs EXCEPT ![n] = @ - 1] /\ s.jobs \in [Mids -> Nat]
    BY <1>1, <1>4 DEF Saves
  <2>3. CASE n # s.imid
    <3>1. u.jobs[s.imid] = s.jobs[s.imid]
      BY <2>1, <2>2, <2>3
    <3>2. AirOk(u)
      BY <2>1, <2>2, <3>1 DEF AirOk
    <3> QED
      BY <1>8, <2>1, <2>2, <3>2
  <2>4. CASE n = s.imid /\ s.itype = Undefined
    <3>1. AirOk(u)
      BY <2>2, <2>4 DEF AirOk
    <3> QED
      BY <1>8, <2>1, <2>2, <3>1
  <2>5. CASE n = s.imid /\ s.itype # Undefined
    <3>1. s.ipkt # {}
      BY <1>4, <2>5 DEF PeerOf, Quiet, Calling
    <3> QED
      BY <1>8, <2>1, <2>2, <2>5, <3>1
  <2> QED
    BY <2>3, <2>4, <2>5
<1>10. CASE Kept(r.sa, u)
  <2>1. Kept(r.sa, s) /\ r.out \subseteq s.ipkt
    BY <1>6, <1>8, <1>10 DEF Kept
  <2>2. Same(r.sa, s)
    BY <2>1, KeptSame
  <2>3. TallyInv => Within(p, r.sa)
    <3> SUFFICES ASSUME TallyInv PROVE Within(p, r.sa)
      OBVIOUS
    <3>1. RetryOk(s) /\ (s.state = "NONE" => s.rmid = 0)
      BY DEF TallyInv
    <3>2. Due(r.sa) = Due(s) /\ left'[p] = left[p] /\ r.sa.imid = s.imid
      BY <1>3, <2>1 DEF Due, Stage, Kept
    <3>3. Due(s) \in Nat /\ left[p] \in Nat
      BY TallyFacts
    <3>4. RetryOk(r.sa) /\ (r.sa.state = "NONE" => r.sa.rmid = 0)
      BY <2>1, <3>1 DEF RetryOk, Kept
    <3> QED
      BY <1>9d, <3>2, <3>3, <3>4 DEF Within, Covers
  <2>4. ExchInv' /\ OnlyRequests
    BY <1>3, <1>8, <1>9, <2>1, <2>2, SameStep
  <2> QED
    BY <1>9c, <2>3, <2>4 DEF Continues
<1>11. CASE Ended(r.sa, u) /\ u.ipkt # {} /\ r.out = {}
  <2>1. Ended(r.sa, s) /\ s.ipkt # {} /\ r.out = {}
    BY <1>6, <1>8, <1>11 DEF Kept, Ended
  <2>2. s.state # "NONE"
    BY <1>4, <2>1, QuietFacts DEF Quiet
  <2>3. PICK t, m : t = r.sa /\ m = Len(answers[p])
    OBVIOUS
  <2>4. /\ t \in Saves /\ Ended(t, s) /\ Moves(p, t, {}, <<>>) /\ m \in Nat
        /\ Len(answers'[p]) = m /\ m <= Len(execs[Other(p)])
        /\ {} \in SUBSET Messages /\ <<>> \in Seq(Tasks)
    BY <1>3, <1>4, <1>8, <1>9, <2>1, <2>3
  <2>5. left'[p] \in Nat /\ left'[p] <= left[p]
    BY <1>3, <1>4
  <2>6. TallyInv => Within(p, r.sa)
    BY <2>1, <2>5, EndedWithin
  <2>7. ExchInv' /\ OnlyRequests
    BY <2>2, <2>4, GoneStep
  <2> QED
    BY <1>9c, <2>6, <2>7 DEF Continues
<1> QED
  BY <1>8, <1>10, <1>11

\* IKE_SA_INIT is begun by initiate(), for the first time or once more, or given up.
LEMMA RestartStep ==
    ASSUME ExchInv, NEW s \in Saves, NEW path \in AllPaths,
           NEW r, r = Initiate(Initiator, s, path), Moves(Initiator, r.sa, r.out, r.called),
           answers' = answers,
           s.itype = Undefined, s.ipkt = {}, s.active = {}, s.state = "CREATED",
           s.queued["INIT"] = 1, s.queued["AUTH"] = 1, s.imid = 0, s.spi = 0,
           s.rmid = sa[Initiator].rmid, s.rpkt \subseteq sa[Initiator].rpkt,
           calls[Initiator] = <<>>, answers[Initiator] = <<>>, execs[Initiator] = <<>>,
           sa[Initiator].spi = 0, sa[Initiator].state \notin {"NONE", "GONE"}
    PROVE  ExchInv' /\ OnlyRequests /\ r.called = <<>>
<1>1. Initiator \in Peers /\ Initiator # Responder
  BY PeersFacts
<1>2. /\ r.sa \in Saves /\ r.called = <<>>
      /\ (Ended(r.sa, s) /\ r.out = {}) \/ \E a \in Saves : Restarted(Initiator, s, r, a)
  BY <1>1, InitiateRestart
<1>3. Moves(Initiator, r.sa, r.out, <<>>)
  BY <1>2
<1>4. PICK t, out : t = r.sa /\ out = r.out
  OBVIOUS
<1>5. CASE \E a \in Saves : Restarted(Initiator, s, r, a)
  <2>1. PICK a \in Saves : Restarted(Initiator, s, r, a)
    BY <1>5
  <2>2. /\ Begun(Initiator, t, a, "INIT") /\ out \subseteq {Request(Initiator, a, "INIT")}
        /\ a.imid = 0 /\ a.spi = 0 /\ a.rmid = sa[Initiator].rmid
        /\ a.rpkt \subseteq sa[Initiator].rpkt
        /\ a.active = {"INIT", "AUTH"} /\ a.queued["INIT"] = 0 /\ a.queued["AUTH"] = 0
    BY <1>4, <2>1 DEF Restarted
  <2>3. t \in Saves /\ Moves(Initiator, t, out, <<>>)
    BY <1>2, <1>3, <1>4
  <2> QED
    BY <1>2, <2>2, <2>3, InitStep
<1>6. CASE Ended(r.sa, s) /\ r.out = {}
  <2>1. /\ t.state = "GONE" /\ t.init = s.init /\ t.spi = s.spi /\ t.itype = Undefined
        /\ t.ipkt = {} /\ t.rmid = s.rmid /\ t.rpkt = {} /\ t.active = {}
        /\ t.queued["INIT"] = 0 /\ t.queued["AUTH"] = 0
    BY <1>4, <1>6, TasksFacts DEF Ended
  <2>2. PeerOf(Initiator, t, calls[Initiator] \o <<>>, 0)
    BY <2>1 DEF PeerOf, Quiet
  <2>3. Len(execs[Other(Initiator)]) \in Nat /\ Len(answers'[Initiator]) = 0
    BY <1>1, PeerFacts
  <2>4. Fits(Initiator, sa[Initiator], t, out, <<>>, 0)
    <3>1. 0 <= Len(execs[Other(Initiator)]) /\ out = {} /\ t.spi = 0 /\ t.rmid = sa[Initiator].rmid
      BY <1>4, <1>6, <2>1, <2>3
    <3>2. t.rpkt \subseteq sa[Initiator].rpkt
      BY <2>1
    <3> QED
      BY <1>1, <2>1, <2>2, <3>1, <3>2 DEF Fits, Later
  <2>5. \A m \in t.ipkt \cup out : /\ m.from = Initiator /\ m.req
                                   /\ ReqOf(m, calls', sa'[Initiator].init)
    BY <1>4, <1>6, <2>1
  <2>6. t \in Saves /\ out \in SUBSET Messages /\ <<>> \in Seq(Tasks) /\ 0 \in Nat
        /\ Moves(Initiator, t, out, <<>>)
    BY <1>2, <1>3, <1>4, <1>6
  <2>7. PICK p \in Peers, n \in Nat, e \in Seq(Tasks) : p = Initiator /\ n = 0 /\ e = <<>>
    BY <1>1, <2>6
  <2>8. Fits(p, sa[p], t, out, e, n) /\ Len(answers'[p]) = n /\ Moves(p, t, out, e)
    BY <2>3, <2>4, <2>6, <2>7
  <2>9. \A m \in t.ipkt \cup out : /\ m.from = p /\ m.req
                                   /\ ReqOf(m, calls', sa'[Initiator].init)
    BY <2>5, <2>7
  <2> QED
    <3>1. /\ sa' = [sa EXCEPT ![p] = t] /\ net' = net \cup out
          /\ calls' = [calls EXCEPT ![p] = @ \o e]
          /\ half' = half /\ scene' = scene /\ spis' = spis /\ execs' = execs
          /\ left' \in [Peers -> Nat] /\ answers' \in [Peers -> Seq(Tasks)]
          /\ answers'[Other(p)] = answers[Other(p)]
      BY <2>8, Zenon DEF Moves
    <3> QED
      BY <1>2, <2>6, <2>8, <2>9, <3>1, OwnStep
<1> QED
  BY <1>2, <1>5, <1>6

LEMMA ConnectKeeps ==
    ASSUME ExchInv, Connect
    PROVE  ExchInv' /\ Continues(Initiator)
<1> DEFINE s == sa[Initiator]
<1>1. PICK u : u = [s EXCEPT !.queued["INIT"] = 1, !.queued["AUTH"] = 1]
  OBVIOUS
<1>2. PICK r : r = Initiate(Initiator, u, "current")
  OBVIOUS
<1>3. /\ s.state = "CREATED" /\ s.itype = Undefined /\ Step(Initiator, r)
      /\ UNCHANGED <<half, scene, spis, left, execs, answers>>
  BY <1>1, <1>2 DEF Connect
<1>4. Initiator \in Peers /\ Initiator # Responder
  BY PeersFacts
<1>5. /\ s \in Saves /\ left \in [Peers -> Nat] /\ answers \in [Peers -> Seq(Tasks)]
      /\ PeerOf(Initiator, s, calls[Initiator], Len(answers[Initiator]))
      /\ Receives(Initiator) /\ answers[Initiator] \in Seq(Tasks)
  BY <1>4, PeerFacts DEF ExchInv, LooseType
<1>6. Quiet(Initiator, s, calls[Initiator], Len(answers[Initiator]))
  BY <1>3, <1>5, QuietFacts
<1>7. /\ s.active = {} /\ s.ipkt = {} /\ s.imid = 0 /\ s.spi = 0
      /\ calls[Initiator] = <<>> /\ answers[Initiator] = <<>>
  BY <1>3, <1>5, <1>6 DEF Quiet
<1>8. execs[Initiator] = <<>>
  BY <1>5, <1>7 DEF Receives
<1>9. PICK v : v = [s EXCEPT !.queued["INIT"] = 1]
  OBVIOUS
<1>10. PICK x \in Nat, i \in Tasks, k \in Tasks : x = 1 /\ i = "INIT" /\ k = "AUTH"
  BY TasksFacts
<1>11. v \in Saves /\ v.queued = [s.queued EXCEPT ![i] = x]
  <2>1. v = [s EXCEPT !.queued[i] = x]
    BY <1>9, <1>10
  <2> QED
    BY <1>5, <2>1, QueuedFacts
<1>12. u \in Saves /\ u.queued = [v.queued EXCEPT ![k] = x]
  <2>1. u = [v EXCEPT !.queued[k] = x]
    BY <1>1, <1>9, <1>10
  <2> QED
    BY <1>11, <2>1, QueuedFacts
<1>13. u.queued["INIT"] = 1 /\ u.queued["AUTH"] = 1
  <2>1. s.queued \in [Tasks -> Nat]
    BY <1>5 DEF Saves
  <2> QED
    BY <2>1, <1>10, <1>11, <1>12
<1>14. /\ u.itype = Undefined /\ u.ipkt = {} /\ u.active = {} /\ u.state = "CREATED"
       /\ u.imid = 0 /\ u.spi = 0 /\ u.rmid = s.rmid /\ u.rpkt = s.rpkt
  BY <1>1, <1>3, <1>5, <1>7 DEF Saves
<1>15. Moves(Initiator, r.sa, r.out, r.called)
  BY <1>3, <1>5 DEF Moves, Step
<1>16. "current" \in AllPaths
  BY DEF AllPaths
<1>17. s.state \notin {"NONE", "GONE"} /\ answers' = answers
  BY <1>3
<1>18. ExchInv' /\ OnlyRequests /\ r.called = <<>>
  BY <1>2, <1>7, <1>8, <1>12, <1>13, <1>14, <1>15, <1>16, <1>17, RestartStep
<1>19. Proceeds(Initiator, r.sa, r.called)
  BY <1>15, <1>17, <1>18 DEF Proceeds, Moves, Counts, Taken
<1>20. TallyInv => Within(Initiator, r.sa)
  <2> SUFFICES ASSUME TallyInv PROVE Within(Initiator, r.sa)
    OBVIOUS
  <2>1. RetryOk(s) /\ Due(s) \in Nat /\ left[Initiator] \in Nat /\ left' = left
    BY <1>3, <1>4, TallyFacts
  <2>2. u.retry <= MaxRetries
    <3>1. u.retry = s.retry
      BY <1>1, <1>5 DEF Saves
    <3> QED
      BY <2>1, <3>1 DEF RetryOk
  <2>3. Waiting(u.queued) = Waiting(s.queued)
    <3>1. s.queued \in [Tasks -> Nat]
      BY <1>5 DEF Saves
    <3>2. \A y \in Queueable : u.queued[y] = s.queued[y]
      BY <1>10, <1>11, <1>12, <3>1, TasksFacts DEF Queueable
    <3> QED
      BY <3>2 DEF Waiting, Queueable
  <2>4. Due(u) = Due(s) /\ u.imid = s.imid
    BY <1>3, <1>7, <1>14, <2>3 DEF Due, Stage
  <2>5. Covers(Initiator, u)
    BY <2>1, <2>4 DEF Covers
  <2>6. Spends(r.sa, u)
    BY <1>2, <1>4, <1>12, <1>13, <1>14, <1>16, <2>2, RestartSpends
  <2>7. r.sa \in Saves
    BY <1>2, <1>4, <1>12, <1>13, <1>14, <1>16, InitiateRestart
  <2> QED
    BY <1>4, <1>12, <2>1, <2>5, <2>6, <2>7, SpendsWithin
<1> QED
  BY <1>18, <1>19, <1>20 DEF Continues

-----------------------------------------------------------------------------
(* Responses *)

\* A response with the message ID in the air answers the call in the air, and
\* that has been executed.
LEMMA ResponseFacts ==
    ASSUME ExchInv, NEW p \in Peers, NEW m \in net, ~m.req, m.from = Other(p), Alive(p),
           m.mid = sa[p].imid
    PROVE  LET a == Len(answers[p])  q == Other(p) IN
           /\ m.to \in Tasks /\ m \in Messages
           /\ Calling(p, sa[p], calls[p], a, m.to)
           /\ m.type = ExchangeOf(m.to) /\ m.type = sa[p].itype
           /\ RespOf(m, execs, sa[Initiator].init, sa[Responder])
           /\ m.to # "INIT" => /\ a + 1 <= Len(execs[q]) /\ execs[q][a + 1] = m.to
                               /\ a + 1 = Len(calls[p])
<1> DEFINE s == sa[p]  q == Other(p)  a == Len(answers[p])  c == calls[p]
<1>1. /\ m \in Messages /\ RespOf(m, execs, sa[Initiator].init, sa[Responder]) /\ net # {}
      /\ sa[Initiator].state # "CREATED"
  BY DEF ExchInv, LooseType, CallInv, Sent
<1>2. m.mid \in Nat /\ m.to \in Tasks
  BY <1>1 DEF Messages
<1>3. /\ s \in Saves /\ c \in Seq(Tasks) /\ Len(c) \in Nat /\ a \in Nat /\ Len(execs[q]) \in Nat
      /\ PeerOf(p, s, c, a) /\ a <= Len(execs[q]) /\ Len(execs[q]) <= Len(c) /\ History(p)
  BY PeerFacts
<1>4. Base(p) \in {0, 1} /\ Other(q) = p /\ (p = Initiator => Base(p) = 1)
  BY PeersFacts
<1>5. m.type = ExchangeOf(m.to)
  BY <1>1 DEF RespOf
<1>6. m.to = "INIT" => p = Initiator /\ m.mid = 0
  BY <1>1, PeersFacts DEF RespOf
<1>7. m.to # "INIT" => /\ m.mid + 1 - Base(p) \in 1..Len(execs[q])
                       /\ execs[q][m.mid + 1 - Base(p)] = m.to
  BY <1>1, <1>4 DEF RespOf
<1>8. ~Quiet(p, s, c, a)
  <2> SUFFICES ASSUME Quiet(p, s, c, a) PROVE FALSE
    OBVIOUS
  <2>1. s.state # "CREATED"
    BY <1>1 DEF Quiet
  <2>2. s.imid = Len(c) + Base(p)
    BY <2>1 DEF Quiet, Alive
  <2>3. CASE m.to = "INIT"
    BY <2>2, <2>3, <1>3, <1>4, <1>6
  <2>4. CASE m.to # "INIT"
    BY <2>2, <2>4, <1>2, <1>3, <1>4, <1>7
  <2> QED
    BY <2>3, <2>4
<1>9. PICK k \in Tasks : Calling(p, s, c, a, k)
  BY <1>3, <1>8 DEF PeerOf
<1>10. s.imid + 1 = Len(c) + Base(p) /\ s.imid \in Nat /\ s.itype = ExchangeOf(k)
  BY <1>3, <1>9 DEF Calling, Saves
<1>11. CASE m.to = "INIT"
  <2>1. Len(c) = 0
    BY <1>3, <1>4, <1>6, <1>10, <1>11
  <2>2. k = "INIT"
    BY <1>3, <1>9, <2>1 DEF Calling
  <2> QED
    BY <1>1, <1>2, <1>5, <1>9, <1>10, <1>11, <2>2
<1>12. CASE m.to # "INIT"
  <2>1. m.mid + 1 - Base(p) = Len(c)
    BY <1>2, <1>3, <1>4, <1>10
  <2>2. Len(c) \in 1..Len(execs[q]) /\ execs[q][Len(c)] = m.to
    BY <1>7, <1>12, <2>1
  <2>3. k # "INIT"
    BY <1>9, <2>2, <1>3 DEF Calling
  <2>4. Len(c) = a + 1 /\ c[Len(c)] = k
    BY <1>9, <2>3 DEF Calling
  <2>5. execs[q][Len(c)] = c[Len(c)]
    BY <1>3, <2>2 DEF History
  <2>6. k = m.to
    BY <2>2, <2>4, <2>5
  <2>7. a + 1 <= Len(execs[q]) /\ execs[q][a + 1] = m.to
    BY <2>2, <2>4, <1>3
  <2> QED
    BY <1>1, <1>2, <1>5, <1>9, <1>10, <2>4, <2>6, <2>7
<1> QED
  BY <1>11, <1>12

\* The end of an exchange.
LEMMA AdvanceFacts ==
    ASSUME NEW v \in Saves, NEW u, u = Advance(v)
    PROVE  /\ u \in Saves
           /\ u.imid = v.imid + 1 /\ u.itype = Undefined /\ u.ipkt = {} /\ u.active = v.active
           /\ u.state = v.state /\ u.init = v.init /\ u.spi = v.spi /\ u.rmid = v.rmid
           /\ u.rpkt = v.rpkt /\ u.queued = v.queued /\ u.retry = v.retry
<1>2. PICK n \in Nat : n = v.imid + 1
  BY DEF Saves
<1>3. u = [v EXCEPT !.imid = n, !.itype = Undefined, !.ipkt = {}]
  BY <1>2 DEF Advance
<1>4. u \in Saves
  BY <1>3 DEF Saves
<1>6. /\ u.imid = n /\ u.itype = Undefined /\ u.ipkt = {} /\ u.active = v.active
      /\ u.state = v.state /\ u.init = v.init /\ u.spi = v.spi /\ u.rmid = v.rmid
      /\ u.rpkt = v.rpkt /\ u.queued = v.queued /\ u.retry = v.retry
  BY <1>3 DEF Saves
<1> QED
  BY <1>2, <1>4, <1>6

\* The active task k goes on with its next exchange.
LEMMA GoesStep ==
    ASSUME ExchInv, NEW p \in Peers, NEW u \in Saves, NEW k \in Tasks \ {"INIT"}, NEW n \in Nat,
           NEW path \in AllPaths, NEW r, r = Initiate(p, u, path), Moves(p, r.sa, r.out, r.called),
           Len(answers'[p]) = n, n <= Len(execs[Other(p)]), n = Len(calls[p]),
           u.itype = Undefined, u.ipkt = {}, u.active = {k}, u.queued["INIT"] = 0, u.queued["AUTH"] = 0,
           u.imid = n + Base(p),
           u.rmid = sa[p].rmid, u.rpkt = sa[p].rpkt, u.init = sa[p].init,
           sa[p].state \notin {"NONE", "GONE"},
           u.spi = 0 => sa[p].spi = 0,
           p = Responder => u.spi = sa[p].spi /\ k \in Queueable,
           k = "AUTH" => u.state = "CONNECTING",
           k # "AUTH" => /\ u.state = "ESTABLISHED"
                         /\ p = Initiator => /\ sa[Responder].state \in Later
                                             /\ sa[Responder].spi = u.spi
                                             /\ sa[Responder].init = u.init
    PROVE  ExchInv' /\ OnlyRequests /\ Counts(p, r.called)
<1>1. /\ r.sa \in Saves /\ Begun(p, r.sa, u, k) /\ r.out \subseteq {Request(p, u, k)}
      /\ r.called = <<k>>
  BY InitiateGoes
<1>2. PICK t, out : t = r.sa /\ out = r.out
  OBVIOUS
<1>3. /\ t \in Saves /\ Begun(p, t, u, k) /\ out \subseteq {Request(p, u, k)}
      /\ Moves(p, t, out, <<k>>)
  BY <1>1, <1>2
<1>4. Counts(p, r.called)
  BY <1>1 DEF Counts
<1> QED
  BY <1>3, <1>4, CallStep

LEMMA CurrentFacts ==
    ASSUME NEW s, NEW k \in Tasks, s.active = IF k = "INIT" THEN {"INIT", "AUTH"} ELSE {k}
    PROVE  Current(s) = k
<1>1. CASE k = "INIT"
  BY <1>1 DEF Current
<1>2. CASE k # "INIT"
  BY <1>2 DEF Current
<1> QED
  BY <1>1, <1>2

\* What a response does, but for the step of its task.
Takes(p, m, r) ==
    /\ m \in net /\ ~m.req /\ m.from = Other(p) /\ Alive(p) /\ m.mid = sa[p].imid
    /\ m.spi = sa[p].spi \/ m.type = "IKE_SA_INIT"
    /\ Step(p, r)
    /\ left' \in [Peers -> Nat] /\ left'[Other(p)] = left[Other(p)] /\ left'[p] <= left[p]
    /\ answers' = [answers EXCEPT ![p] = IF m.type = "IKE_SA_INIT" THEN @ ELSE Append(@, m.to)]
    /\ UNCHANGED <<half, scene, spis, execs>>

LEMMA TakesFacts ==
    ASSUME ExchInv, NEW p \in Peers, NEW m, NEW r, Takes(p, m, r)
    PROVE  /\ m.to \in Tasks /\ Moves(p, r.sa, r.out, r.called)
           /\ Calling(p, sa[p], calls[p], Len(answers[p]), m.to) /\ Current(sa[p]) = m.to
           /\ m.type = ExchangeOf(m.to) /\ m.type = sa[p].itype
           /\ RespOf(m, execs, sa[Initiator].init, sa[Responder])
           /\ m.to = "INIT" => answers' = answers
           /\ m.to # "INIT" => /\ Len(answers'[p]) = Len(calls[p])
                               /\ Len(calls[p]) <= Len(execs[Other(p)])
                               /\ execs[Other(p)][Len(answers[p]) + 1] = m.to
                               /\ answers' = [answers EXCEPT ![p] = Append(@, m.to)]
                               /\ m.spi = sa[p].spi
           /\ Taken(p)
<1>1. /\ m.to \in Tasks /\ m \in Messages
      /\ Calling(p, sa[p], calls[p], Len(answers[p]), m.to)
      /\ m.type = ExchangeOf(m.to) /\ m.type = sa[p].itype
      /\ RespOf(m, execs, sa[Initiator].init, sa[Responder])
      /\ m.to # "INIT" => /\ Len(answers[p]) + 1 <= Len(execs[Other(p)])
                          /\ execs[Other(p)][Len(answers[p]) + 1] = m.to
                          /\ Len(answers[p]) + 1 = Len(calls[p])
  BY ResponseFacts DEF Takes
<1>2. m.type = "IKE_SA_INIT" <=> m.to = "INIT"
  BY <1>1, ExchangeFacts, TasksFacts
<1>3. answers \in [Peers -> Seq(Tasks)] /\ answers[p] \in Seq(Tasks) /\ Other(p) # p /\ Other(p) \in Peers
  BY PeerFacts, PeersFacts DEF ExchInv, LooseType
<1>4. CASE m.to = "INIT"
  <2>1. answers' = answers
    BY <1>2, <1>3, <1>4 DEF Takes
  <2>2. Moves(p, r.sa, r.out, r.called)
    BY <1>3, <2>1 DEF Takes, Moves, Step
  <2>3. Current(sa[p]) = m.to
    BY <1>1, CurrentFacts DEF Calling
  <2> QED
    BY <1>1, <1>4, <2>1, <2>2, <2>3 DEF Taken
<1>5. CASE m.to # "INIT"
  <2>1. answers' = [answers EXCEPT ![p] = Append(@, m.to)]
    BY <1>2, <1>5 DEF Takes
  <2>2. answers'[p] = Append(answers[p], m.to) /\ answers' \in [Peers -> Seq(Tasks)]
        /\ answers'[Other(p)] = answers[Other(p)]
    BY <1>1, <1>3, <2>1
  <2>3. Len(answers'[p]) = Len(answers[p]) + 1
    BY <1>1, <1>3, <2>2
  <2>4. Moves(p, r.sa, r.out, r.called)
    BY <2>2 DEF Takes, Moves, Step
  <2>5. Current(sa[p]) = m.to
    BY <1>1, CurrentFacts DEF Calling
  <2>6. m.spi = sa[p].spi
    BY <1>2, <1>5 DEF Takes
  <2>7. Taken(p)
    <3>1. Len(answers[p]) \in Nat /\ Len(execs[Other(p)]) \in Nat
      BY PeerFacts
    <3>2. Len(answers[p]) < Len(execs[Other(p)])
      BY <1>1, <1>5, <3>1
    <3>3. [answers EXCEPT ![p] = Append(@, execs[Other(p)][Len(@) + 1])]
             = [answers EXCEPT ![p] = Append(answers[p], execs[Other(p)][Len(answers[p]) + 1])]
      BY <1>3
    <3>4. Append(answers[p], execs[Other(p)][Len(answers[p]) + 1]) = Append(answers[p], m.to)
      BY <1>1, <1>5
    <3>5. answers' = [answers EXCEPT ![p] = Append(answers[p], m.to)]
      BY <2>1
    <3> QED
      BY <3>2, <3>3, <3>4, <3>5 DEF Taken
  <2> QED
    BY <1>1, <1>5, <2>1, <2>3, <2>4, <2>5, <2>6, <2>7
<1> QED
  BY <1>4, <1>5

\* The IKE_SA ends with the response.
LEMMA EndResponse ==
    ASSUME ExchInv, NEW p \in Peers, NEW m, NEW r, Takes(p, m, r),
           r = Result(Destroyed(sa[p]), {}, <<>>)
    PROVE  ExchInv' /\ OnlyRequests /\ Counts(p, r.called) /\ (TallyInv => Within(p, r.sa))
<1>1. r.sa = Destroyed(sa[p]) /\ r.out = {} /\ r.called = <<>>
  BY DEF Result
<1>2. sa[p] \in Saves /\ Len(answers[p]) \in Nat /\ Len(calls[p]) \in Nat
      /\ Len(answers[p]) <= Len(execs[Other(p)])
  BY PeerFacts
<1>3. Destroyed(sa[p]) \in Saves /\ Ended(Destroyed(sa[p]), sa[p])
  BY <1>2, DestroyedFacts
<1>4. Moves(p, Destroyed(sa[p]), {}, <<>>)
  <2>1. Moves(p, r.sa, r.out, r.called)
    BY TakesFacts
  <2> QED
    BY <1>1, <2>1
<1>5. Len(answers'[p]) \in Nat /\ Len(answers'[p]) <= Len(execs[Other(p)])
  BY <1>2, TakesFacts
<1>6. PICK t, n : t = Destroyed(sa[p]) /\ n = Len(answers'[p])
  OBVIOUS
<1>7. /\ t \in Saves /\ Ended(t, sa[p]) /\ Moves(p, t, {}, <<>>) /\ n \in Nat
      /\ Len(answers'[p]) = n /\ n <= Len(execs[Other(p)]) /\ sa[p].state # "NONE"
      /\ {} \in SUBSET Messages /\ <<>> \in Seq(Tasks)
  BY <1>3, <1>4, <1>5, <1>6 DEF Takes, Alive
<1>8. Counts(p, r.called)
  BY <1>1 DEF Counts
<1>9. left'[p] \in Nat /\ left'[p] <= left[p]
  BY DEF Takes
<1>10. TallyInv => Within(p, r.sa)
  BY <1>1, <1>6, <1>7, <1>9, EndedWithin
<1> QED
  BY <1>7, <1>8, <1>10, GoneStep

LEMMA InitResponse ==
    ASSUME ExchInv, NEW m, NEW r, NEW path \in AllPaths, Takes(Initiator, m, r), m.to = "INIT",
           r = InitAnswered(Initiator, sa[Initiator], m, path)
    PROVE  ExchInv' /\ OnlyRequests /\ Counts(Initiator, r.called)
           /\ (TallyInv => Within(Initiator, r.sa))
<1> DEFINE p == Initiator  s == sa[p]
<1>1. p \in Peers /\ p # Responder /\ Base(p) = 1
  BY PeersFacts
<1>2. /\ Calling(p, s, calls[p], Len(answers[p]), "INIT") /\ answers' = answers
      /\ Moves(p, r.sa, r.out, r.called) /\ RespOf(m, execs, sa[Initiator].init, sa[Responder])
  BY <1>1, TakesFacts
<1>3. /\ s \in Saves /\ answers[p] \in Seq(Tasks) /\ Receives(p) /\ Len(execs[Other(p)]) \in Nat
      /\ PeerOf(p, s, calls[p], Len(answers[p])) /\ net \subseteq Messages
  BY <1>1, PeerFacts DEF ExchInv, LooseType
<1>4. /\ s.state = "CONNECTING" /\ s.active = {"INIT", "AUTH"} /\ s.spi = 0
      /\ calls[p] = <<>> /\ Len(answers[p]) = 0 /\ s.imid = 0
  <2>1. s.imid \in Nat
    BY <1>3 DEF Saves
  <2> QED
    BY <1>1, <1>2, <2>1 DEF Calling, StateIn
<1>5. answers[p] = <<>> /\ execs[p] = <<>> /\ s.rmid = 0
  <2>1. answers[p] = <<>> /\ execs[p] = <<>>
    BY <1>3, <1>4 DEF Receives
  <2>2. Base(Other(p)) = 0
    BY PeersFacts
  <2> QED
    BY <1>3, <1>4, <2>1, <2>2 DEF Receives
<1>6. s.queued \in [Tasks -> Nat] /\ s.queued["INIT"] = 0 /\ s.queued["AUTH"] = 0
      /\ s.init \in Inits /\ s.retry \in Nat
  BY <1>3 DEF PeerOf, Saves
<1>7. s.state \notin {"NONE", "GONE"} /\ left'[p] \in Nat /\ left'[p] <= left[p]
  BY <1>1, <1>4 DEF Takes
<1>8. ASSUME NEW i \in Inits, r = Initiate(p, [Reset(s) EXCEPT !.init = i, !.retry = @ + 1], path)
      PROVE  ExchInv' /\ OnlyRequests /\ Counts(p, r.called) /\ (TallyInv => Within(p, r.sa))
  <2>1. PICK w : w = [k \in Tasks |-> s.queued[k] + IF k \in s.active THEN 1 ELSE 0]
    OBVIOUS
  <2>2. w \in [Tasks -> Nat] /\ w["INIT"] = 1 /\ w["AUTH"] = 1
    BY <1>4, <1>6, <2>1, TasksFacts
  <2>3. PICK n \in Nat : n = s.retry + 1
    BY <1>6
  <2>4. PICK u : u = [Reset(s) EXCEPT !.init = i, !.retry = @ + 1]
    OBVIOUS
  <2>5. u = [s EXCEPT !.state = "CREATED", !.spi = 0, !.imid = 0, !.itype = Undefined,
                      !.ipkt = {}, !.rmid = 0, !.rpkt = {}, !.active = {}, !.queued = w,
                      !.init = i, !.retry = n]
    BY <1>3, <2>1, <2>3, <2>4 DEF Reset, Saves
  <2>6. u \in Saves
    <3>1. 0 \in 0..MaxSas /\ "CREATED" \in States
      BY TaskManagerConstants DEF States
    <3>2. PICK v : v = [s EXCEPT !.state = "CREATED", !.spi = 0, !.imid = 0, !.itype = Undefined,
                                 !.ipkt = {}]
      OBVIOUS
    <3>3. v \in Saves
      BY <1>3, <3>1, <3>2 DEF Saves
    <3>4. u = [v EXCEPT !.rmid = 0, !.rpkt = {}, !.active = {}, !.queued = w,
                        !.init = i, !.retry = n]
      BY <2>5, <3>2
    <3> QED
      BY <2>2, <3>3, <3>4 DEF Saves
  <2>7. /\ u.itype = Undefined /\ u.ipkt = {} /\ u.active = {} /\ u.state = "CREATED"
        /\ u.queued = w /\ u.imid = 0 /\ u.spi = 0 /\ u.rmid = 0 /\ u.rpkt = {} /\ u.retry = n
    BY <1>3, <2>5 DEF Saves
  <2>8. r = Initiate(Initiator, u, path)
    BY <1>8, <2>4
  <2>9. ExchInv' /\ OnlyRequests /\ r.called = <<>>
    BY <1>2, <1>4, <1>5, <1>7, <2>2, <2>6, <2>7, <2>8, RestartStep
  <2>10. TallyInv => Within(p, r.sa)
    <3> SUFFICES ASSUME TallyInv PROVE Within(p, r.sa)
      OBVIOUS
    <3>1. RetryOk(s) /\ Due(s) \in Nat /\ left[p] \in Nat /\ MaxRetries \in Nat
      BY <1>1, TallyFacts, TaskManagerConstants
    <3>2. u.retry <= MaxRetries
      BY <1>4, <1>6, <2>3, <2>7, <3>1 DEF RetryOk
    <3>3. Waiting(u.queued) = Waiting(s.queued)
      <4>1. \A k \in Queueable : w[k] = s.queued[k]
        BY <1>4, <1>6, <2>1, TasksFacts DEF Queueable
      <4> QED
        BY <2>7, <4>1 DEF Waiting, Queueable
    <3>4. Due(u) = Due(s) /\ u.imid = s.imid
      BY <1>4, <2>7, <3>3 DEF Due, Stage
    <3>5. Covers(p, u)
      BY <1>7, <3>1, <3>4 DEF Covers
    <3>6. u.queued["INIT"] = 1 /\ u.queued["AUTH"] = 1
      BY <2>2, <2>7
    <3>7. Spends(r.sa, u)
      BY <1>1, <2>6, <2>7, <2>8, <3>2, <3>6, RestartSpends
    <3>8. r.sa \in Saves
      BY <1>1, <2>6, <2>7, <2>8, <3>6, InitiateRestart
    <3> QED
      BY <1>1, <1>7, <2>6, <3>5, <3>7, <3>8, SpendsWithin
  <2> QED
    BY <2>9, <2>10 DEF Counts
<1>9. CASE m.body = "COOKIE"
  <2>1. PICK i : i = [s.init EXCEPT !.cookie = TRUE]
    OBVIOUS
  <2>2. i \in Inits
    BY <1>6, <2>1 DEF Inits
  <2>3. Reset(s).init = s.init
    BY <1>3 DEF Reset, Saves
  <2>4. r = Initiate(p, [Reset(s) EXCEPT !.init.cookie = TRUE, !.retry = @ + 1], path)
    BY <1>9 DEF InitAnswered
  <2>5. [Reset(s) EXCEPT !.init.cookie = TRUE, !.retry = @ + 1]
           = [Reset(s) EXCEPT !.init = i, !.retry = @ + 1]
    BY <2>1, <2>3
  <2> QED
    BY <1>8, <2>2, <2>4, <2>5
<1>10. CASE m.body = "INVALID_KE"
  <2>1. PICK i : i = [s.init EXCEPT !.dh = 2]
    OBVIOUS
  <2>2. i \in Inits
    BY <1>6, <2>1 DEF Inits
  <2>3. Reset(s).init = s.init
    BY <1>3 DEF Reset, Saves
  <2>4. r = Initiate(p, [Reset(s) EXCEPT !.init.dh = 2, !.retry = @ + 1], path)
    BY <1>10 DEF InitAnswered
  <2>5. [Reset(s) EXCEPT !.init.dh = 2, !.retry = @ + 1]
           = [Reset(s) EXCEPT !.init = i, !.retry = @ + 1]
    BY <2>1, <2>3
  <2> QED
    BY <1>8, <2>2, <2>4, <2>5
<1>11. CASE m.body = "OK" /\ m.init.dh = s.init.dh
  <2>1. m \in Messages /\ m.spi # 0
    BY <1>2, <1>3, <1>11 DEF RespOf, Takes
  <2>2. m.spi \in 0..MaxSas /\ {"AUTH"} \in SUBSET Tasks /\ s.probing \in BOOLEAN
    BY <1>3, <2>1, TasksFacts DEF Messages, Saves
  <2>3. PICK v, u : v = [s EXCEPT !.spi = m.spi, !.active = {"AUTH"}] /\ u = Advance(v)
    OBVIOUS
  <2>4. v \in Saves
    BY <1>3, <2>2, <2>3 DEF Saves
  <2>5. /\ u \in Saves
        /\ u.imid = s.imid + 1 /\ u.itype = Undefined /\ u.ipkt = {} /\ u.active = {"AUTH"}
        /\ u.state = s.state /\ u.init = s.init /\ u.spi = m.spi /\ u.rmid = s.rmid
        /\ u.rpkt = s.rpkt /\ u.queued = s.queued /\ u.retry = s.retry
    <3>1. /\ v.imid = s.imid /\ v.active = {"AUTH"} /\ v.state = s.state /\ v.init = s.init
          /\ v.spi = m.spi /\ v.rmid = s.rmid /\ v.rpkt = s.rpkt /\ v.queued = s.queued
          /\ v.retry = s.retry
      BY <1>3, <2>3 DEF Saves
    <3>2. /\ u \in Saves
          /\ u.imid = v.imid + 1 /\ u.itype = Undefined /\ u.ipkt = {} /\ u.active = v.active
          /\ u.state = v.state /\ u.init = v.init /\ u.spi = v.spi /\ u.rmid = v.rmid
          /\ u.rpkt = v.rpkt /\ u.queued = v.queued /\ u.retry = v.retry
      <4>1. u = Advance(v)
        BY <2>3
      <4> QED
        BY <2>4, <4>1, AdvanceFacts
    <3> QED
      BY <3>1, <3>2
  <2>6. r = Initiate(p, u, path)
    BY <1>11, <2>3 DEF InitAnswered
  <2>7. PICK n \in Nat, k \in Tasks \ {"INIT"}, q \in Peers : n = 0 /\ k = "AUTH" /\ q = Initiator
    BY <1>1, TasksFacts
  <2>8. /\ Len(answers'[q]) = n /\ n <= Len(execs[Other(q)]) /\ n = Len(calls[q])
        /\ u.imid = n + Base(q) /\ u.active = {k}
        /\ u.queued["INIT"] = 0 /\ u.queued["AUTH"] = 0
        /\ u.rmid = sa[q].rmid /\ u.rpkt = sa[q].rpkt /\ u.init = sa[q].init
        /\ sa[q].state \notin {"NONE", "GONE"} /\ u.spi # 0 /\ q # Responder
        /\ k = "AUTH" /\ u.state = "CONNECTING"
    BY <1>1, <1>2, <1>3, <1>4, <1>6, <2>1, <2>5, <2>7
  <2>9. Moves(q, r.sa, r.out, r.called) /\ r = Initiate(q, u, path)
    BY <1>2, <2>6, <2>7
  <2>10. ExchInv' /\ OnlyRequests /\ Counts(q, r.called)
    BY <2>5, <2>7, <2>8, <2>9, GoesStep
  <2>11. TallyInv => Within(p, r.sa)
    <3> SUFFICES ASSUME TallyInv PROVE Within(q, r.sa)
      BY <2>7
    <3>1. /\ sa[q].imid + 1 \in Mids /\ RetryOk(sa[q]) /\ left[q] \in Nat /\ Extra(q) \in {0, 1}
          /\ u.imid = sa[q].imid + 1 /\ u.queued = sa[q].queued /\ u.retry = sa[q].retry
      BY <2>5, <2>7, TallyFacts
    <3>2. RetryOk(u)
      BY <2>5, <3>1 DEF RetryOk
    <3>3. Stage(u) = 1 /\ Stage(sa[q]) = 2
      BY <1>4, <2>5, <2>7, <2>8 DEF Stage
    <3>4. /\ Calling(q, sa[q], calls[q], Len(answers[q]), "INIT") /\ "INIT" \in Tasks
          /\ left'[q] \in Nat /\ left'[q] <= left[q]
      BY <1>2, <1>7, <2>7, TasksFacts
    <3>5. Stage(u) + left'[q] + 1 <= Stage(sa[q]) + left[q] + Extra(q)
      BY <3>1, <3>3, <3>4
    <3>6. Covers(q, u)
      BY <2>5, <3>1, <3>4, <3>5, NextCovers
    <3>7. u.imid \in Mids /\ u.state \notin {"NONE", "CREATED"}
      BY <2>8, <3>1
    <3>8. Spends(r.sa, u)
      BY <2>5, <2>7, <2>8, <2>9, <3>2, <3>7, GoesSpends
    <3>9. r.sa \in Saves
      BY <2>5, <2>7, <2>8, <2>9, InitiateGoes
    <3> QED
      BY <2>5, <3>4, <3>6, <3>8, <3>9, SpendsWithin
  <2> QED
    BY <2>7, <2>10, <2>11
<1>12. CASE m.body \notin {"COOKIE", "INVALID_KE"} /\ ~(m.body = "OK" /\ m.init.dh = s.init.dh)
  <2>1. r = Result(Destroyed(s), {}, <<>>)
    BY <1>12 DEF InitAnswered
  <2> QED
    BY <1>1, <2>1, EndResponse
<1> QED
  BY <1>9, <1>10, <1>11, <1>12

LEMMA AuthResponse ==
    ASSUME ExchInv, NEW p \in Peers, NEW m, NEW r, NEW path \in AllPaths, NEW accept \in BOOLEAN,
           Takes(p, m, r), m.to = "AUTH", r = AuthAnswered(p, sa[p], m, accept, path)
    PROVE  ExchInv' /\ OnlyRequests /\ Counts(p, r.called) /\ (TallyInv => Within(p, r.sa))
<1> DEFINE s == sa[p]  n == Len(calls[p])
<1>1. /\ Calling(p, s, calls[p], Len(answers[p]), "AUTH")
      /\ Moves(p, r.sa, r.out, r.called) /\ RespOf(m, execs, sa[Initiator].init, sa[Responder])
      /\ Len(answers'[p]) = n /\ n <= Len(execs[Other(p)]) /\ m.spi = s.spi
  BY TakesFacts
<1>2. p = Initiator /\ p # Responder /\ Base(p) = 1
  BY <1>1, PeersFacts DEF Calling
<1>3. s \in Saves /\ n \in Nat /\ PeerOf(p, s, calls[p], Len(answers[p])) /\ calls[p] \in Seq(Tasks)
  BY PeerFacts
<1>4. s.state = "CONNECTING" /\ s.active = {"AUTH"} /\ s.imid = n /\ s.imid \in Nat
  <2>1. s.imid \in Nat
    BY <1>3 DEF Saves
  <2>2. s.imid + 1 = n + Base(p) /\ s.state = "CONNECTING" /\ s.active = {"AUTH"}
    BY <1>1 DEF Calling, StateIn
  <2> QED
    BY <1>2, <1>3, <2>1, <2>2
<1>5. s.queued["INIT"] = 0 /\ s.queued["AUTH"] = 0 /\ s.state \notin {"NONE", "GONE"}
  BY <1>3, <1>4 DEF PeerOf
<1>5a. left'[p] \in Nat /\ left'[p] <= left[p]
  BY DEF Takes
<1>5b. TallyInv => /\ s.imid + 1 \in Mids /\ RetryOk(s) /\ left[p] \in Nat
                   /\ Extra(p) \in {0, 1} /\ (m.body = "MORE" => Extra(p) = 1)
  <2>1. m.body = "MORE" => Extra(p) = 1
    BY DEF Extra, MoreDue, Takes
  <2> QED
    BY <2>1, TallyFacts
<1>5c. Stage(s) = 1
  BY <1>4 DEF Stage
<1>6. PICK v, u : v = [s EXCEPT !.active = {}] /\ u = Advance(v)
  OBVIOUS
<1>7. v \in Saves
  BY <1>3, <1>6 DEF Saves
<1>8. /\ v.imid = s.imid /\ v.active = {} /\ v.state = s.state /\ v.init = s.init
      /\ v.spi = s.spi /\ v.rmid = s.rmid /\ v.rpkt = s.rpkt /\ v.queued = s.queued
      /\ v.retry = s.retry
  BY <1>3, <1>6 DEF Saves
<1>9. /\ u \in Saves
      /\ u.imid = v.imid + 1 /\ u.itype = Undefined /\ u.ipkt = {} /\ u.active = v.active
      /\ u.state = v.state /\ u.init = v.init /\ u.spi = v.spi /\ u.rmid = v.rmid
      /\ u.rpkt = v.rpkt /\ u.queued = v.queued /\ u.retry = v.retry
  <2>1. u = Advance(v)
    BY <1>6
  <2> QED
    BY <1>7, <2>1, AdvanceFacts
<1>10. CASE m.body = "MORE" /\ accept
  <2>0. PICK k \in Tasks \ {"INIT"} : k = "AUTH"
    BY TasksFacts
  <2>1. PICK w : w = Advance(s)
    OBVIOUS
  <2>2. /\ w \in Saves
        /\ w.imid = s.imid + 1 /\ w.itype = Undefined /\ w.ipkt = {} /\ w.active = s.active
        /\ w.state = s.state /\ w.init = s.init /\ w.spi = s.spi /\ w.rmid = s.rmid
        /\ w.rpkt = s.rpkt /\ w.queued = s.queued /\ w.retry = s.retry
    BY <1>3, <2>1, AdvanceFacts
  <2>3. r = Initiate(p, w, path)
    BY <1>10, <2>1 DEF AuthAnswered
  <2>4. /\ w.imid = n + Base(p) /\ w.active = {k} /\ w.queued["INIT"] = 0 /\ w.queued["AUTH"] = 0
        /\ w.state = "CONNECTING" /\ k = "AUTH"
    BY <1>2, <1>4, <1>5, <2>0, <2>2
  <2> HIDE DEF n
  <2>5. n = Len(calls[p]) /\ w.spi = sa[p].spi /\ w.rmid = sa[p].rmid /\ w.rpkt = sa[p].rpkt
        /\ w.init = sa[p].init /\ sa[p].state \notin {"NONE", "GONE"}
    BY <1>5, <2>2 DEF n
  <2>6. /\ w.spi = 0 => sa[p].spi = 0
        /\ p = Responder => w.spi = sa[p].spi /\ k \in Queueable
        /\ k = "AUTH" => w.state = "CONNECTING"
        /\ k # "AUTH" => /\ w.state = "ESTABLISHED"
                         /\ p = Initiator => /\ sa[Responder].state \in Later
                                             /\ sa[Responder].spi = w.spi
                                             /\ sa[Responder].init = w.init
    BY <1>2, <2>4, <2>5
  <2>7. /\ n \in Nat /\ Len(answers'[p]) = n /\ n <= Len(execs[Other(p)]) /\ n = Len(calls[p])
        /\ w.itype = Undefined /\ w.ipkt = {} /\ w.active = {k}
        /\ Moves(p, r.sa, r.out, r.called)
    BY <1>1, <1>3, <2>2, <2>4, <2>5
  <2>8. ExchInv' /\ OnlyRequests /\ Counts(p, r.called)
    BY <2>2, <2>3, <2>4, <2>5, <2>6, <2>7, GoesStep
  <2>9. TallyInv => Within(p, r.sa)
    <3> SUFFICES ASSUME TallyInv PROVE Within(p, r.sa)
      OBVIOUS
    <3>1. RetryOk(w) /\ Stage(w) = 1
      BY <1>5b, <2>0, <2>2, <2>4 DEF RetryOk, Stage
    <3>2. Stage(w) + left'[p] + 1 <= Stage(s) + left[p] + Extra(p)
      BY <1>5a, <1>5b, <1>5c, <1>10, <3>1
    <3>3. Covers(p, w)
      BY <1>1, <1>5a, <2>2, <3>2, NextCovers, TasksFacts
    <3>4. w.imid \in Mids /\ w.state \notin {"NONE", "CREATED"}
      BY <1>5b, <2>2, <2>4
    <3>5. Spends(r.sa, w)
      BY <2>2, <2>3, <2>7, <3>1, <3>4, GoesSpends
    <3>6. r.sa \in Saves
      BY <2>2, <2>3, <2>7, InitiateGoes
    <3> QED
      BY <1>5a, <2>2, <3>3, <3>5, <3>6, SpendsWithin
  <2> QED
    BY <2>8, <2>9
<1>11. CASE m.body = "OK" /\ accept
  <2>1. PICK w : w = [u EXCEPT !.state = "ESTABLISHED"]
    OBVIOUS
  <2>2. w \in Saves
    BY <1>9, <2>1 DEF Saves, States
  <2>3. /\ w.imid = u.imid /\ w.itype = Undefined /\ w.ipkt = {} /\ w.active = {}
        /\ w.state = "ESTABLISHED" /\ w.init = s.init /\ w.spi = s.spi /\ w.rmid = s.rmid
        /\ w.rpkt = s.rpkt /\ w.queued = s.queued /\ w.retry = s.retry
    BY <1>8, <1>9, <2>1 DEF Saves
  <2>4. r = Initiate(p, w, path)
    BY <1>6, <1>11, <2>1 DEF AuthAnswered
  <2>5. w.imid = n + Base(p)
    BY <1>2, <1>4, <1>8, <1>9, <2>3
  <2>6. m.from = Responder
    BY <1>2, PeersFacts DEF Takes
  <2>7. /\ sa[Responder].state \in Later
        /\ sa[Responder].spi = w.spi /\ sa[Responder].init = w.init
    BY <1>1, <1>2, <1>11, <2>3, <2>6 DEF RespOf, Later
  <2> HIDE DEF n
  <2>8. n = Len(calls[p]) /\ w.spi = sa[p].spi /\ w.rmid = sa[p].rmid /\ w.rpkt = sa[p].rpkt
        /\ w.init = sa[p].init /\ sa[p].state \notin {"NONE", "GONE"}
        /\ w.queued["INIT"] = 0 /\ w.queued["AUTH"] = 0
    BY <1>5, <2>3 DEF n
  <2>9. ExchInv' /\ OnlyRequests /\ Counts(p, r.called)
    BY <1>1, <1>3, <2>2, <2>3, <2>4, <2>5, <2>7, <2>8, FreeStep
  <2>10. TallyInv => Within(p, r.sa)
    <3> SUFFICES ASSUME TallyInv PROVE Within(p, r.sa)
      OBVIOUS
    <3>1. RetryOk(w) /\ Stage(w) = 0
      BY <1>5b, <2>3 DEF RetryOk, Stage
    <3>2. Stage(w) + left'[p] + 1 <= Stage(s) + left[p] + Extra(p)
      BY <1>5a, <1>5b, <1>5c, <3>1
    <3>2a. w.imid = s.imid + 1
      BY <1>8, <1>9, <2>3
    <3>3. Covers(p, w)
      BY <1>1, <1>5a, <2>2, <2>3, <3>2, <3>2a, NextCovers, TasksFacts
    <3>4. w.imid \in Mids /\ w.state \notin {"NONE", "CREATED"}
      BY <1>5b, <2>3, <3>2a
    <3>5. Spends(r.sa, w)
      BY <2>2, <2>3, <2>4, <2>8, <3>1, <3>4, FreeSpends
    <3>6. r.sa \in Saves
      BY <2>2, <2>3, <2>4, <2>8, InitiateFree
    <3> QED
      BY <1>5a, <2>2, <3>3, <3>5, <3>6, SpendsWithin
  <2> QED
    BY <2>9, <2>10
<1>12. CASE m.body \in {"OK", "MORE"} /\ ~accept
  <2>1. r = Result(Destroyed(s), {Request(p, u, "DELETE")}, <<"DELETE">>)
    BY <1>6, <1>12 DEF AuthAnswered
  <2>2a. PICK k \in Tasks : k = "DELETE"
    BY TasksFacts
  <2>2b. PICK t, q : t = Destroyed(s) /\ q = Request(p, u, "DELETE")
    OBVIOUS
  <2>2. t = Destroyed(s) /\ q = Request(p, u, "DELETE") /\ k = "DELETE"
    BY <2>2a, <2>2b
  <2>3. t \in Saves /\ Ended(t, s)
    BY <1>3, <2>2, DestroyedFacts
  <2>4. q \in Messages
    <3>1. q = Request(p, u, k)
      BY <2>2
    <3> QED
      BY <1>9, <3>1, RequestType
  <2>5. /\ q.from = p /\ q.req /\ q.mid = u.imid /\ q.type = ExchangeOf(k) /\ q.init = s.init
        /\ q.body = k /\ q.to = k
    BY <1>8, <1>9, <2>2 DEF Request
  <2>6. Moves(p, t, {q}, <<k>>)
    BY <1>1, <2>1, <2>2 DEF Result
  <2>7. calls'[p] = calls[p] \o <<k>>
    BY <2>6 DEF Moves, ExchInv, LooseType
  <2>8. Len(calls'[p]) = n + 1 /\ calls'[p][n + 1] = k
    BY <1>3, <2>7
  <2>9. q.mid + 1 - Base(q.from) = n + 1
    BY <1>2, <1>4, <1>8, <1>9, <2>5
  <2>10. n + 1 \in 1..Len(calls'[q.from])
    BY <1>3, <2>5, <2>8
  <2>11. ReqOf(q, calls', sa[Initiator].init)
    <3>1. k # "INIT" /\ k \in Queueable /\ calls'[q.from][n + 1] = k
      BY <2>2, <2>5, <2>8 DEF Queueable
    <3> QED
      BY <1>2, <2>5, <2>9, <2>10, <3>1 DEF ReqOf
  <2>12. PICK out, e : out = {q} /\ e = <<k>>
    OBVIOUS
  <2>13. /\ out \in SUBSET Messages /\ e \in Seq(Tasks) /\ Moves(p, t, out, e)
         /\ \A x \in out : x.from = p /\ x.req /\ ReqOf(x, calls', sa[Initiator].init)
         /\ sa[p].state # "NONE"
    BY <1>5, <2>4, <2>5, <2>6, <2>11, <2>12
  <2>14. Counts(p, r.called)
    BY <1>1, <2>1, <2>2 DEF Counts, Result
  <2> HIDE DEF n
  <2>15. TallyInv => Within(p, r.sa)
    <3>1. r.sa = t
      BY <2>1, <2>2 DEF Result
    <3> QED
      BY <1>5a, <2>3, <3>1, EndedWithin
  <2>16. ExchInv' /\ OnlyRequests
    BY <1>1, <1>3, <2>3, <2>13, GoneStep
  <2> QED
    BY <2>14, <2>15, <2>16
<1>13. CASE m.body \notin {"OK", "MORE"}
  <2>1. r = Result(Destroyed(s), {}, <<>>)
    BY <1>13 DEF AuthAnswered
  <2> QED
    BY <2>1, EndResponse
<1> QED
  BY <1>10, <1>11, <1>12, <1>13

LEMMA TaskResponse ==
    ASSUME ExchInv, NEW p \in Peers, NEW m, NEW r, NEW path \in AllPaths, NEW more \in BOOLEAN,
           Takes(p, m, r), m.to \in {"CHILD", "DPD", "MOBIKE"},
           more => left'[p] + 1 <= left[p],
           r = Initiate(p, Advance([sa[p] EXCEPT !.active = StillActive(sa[p], m, more),
                                                 !.probing = FALSE]), path)
    PROVE  ExchInv' /\ OnlyRequests /\ Counts(p, r.called) /\ (TallyInv => Within(p, r.sa))
<1> DEFINE s == sa[p]  n == Len(calls[p])
<1>1. /\ Calling(p, s, calls[p], Len(answers[p]), m.to) /\ Current(s) = m.to /\ m.to \in Tasks
      /\ Moves(p, r.sa, r.out, r.called)
      /\ Len(answers'[p]) = n /\ n <= Len(execs[Other(p)])
  BY TakesFacts
<1>2. Base(p) \in {0, 1}
  BY PeersFacts
<1>3. s \in Saves /\ n \in Nat /\ PeerOf(p, s, calls[p], Len(answers[p]))
  BY PeerFacts
<1>4. s.state = "ESTABLISHED" /\ s.active = {m.to} /\ s.imid + 1 = n + Base(p)
  BY <1>1 DEF Calling, StateIn
<1>5. s.queued["INIT"] = 0 /\ s.queued["AUTH"] = 0 /\ s.state \notin {"NONE", "GONE"}
  BY <1>3, <1>4 DEF PeerOf
<1>6. PICK x : x = StillActive(s, m, more)
  OBVIOUS
<1>7. x = {} \/ x = {m.to}
  BY <1>1, <1>6 DEF StillActive
<1>8. PICK v, u : v = [s EXCEPT !.active = x, !.probing = FALSE] /\ u = Advance(v)
  OBVIOUS
<1>9. x \in SUBSET Tasks
  BY <1>1, <1>7
<1>10. v \in Saves
  BY <1>3, <1>8, <1>9 DEF Saves
<1>11. /\ v.imid = s.imid /\ v.active = x /\ v.state = s.state /\ v.init = s.init
       /\ v.spi = s.spi /\ v.rmid = s.rmid /\ v.rpkt = s.rpkt /\ v.queued = s.queued
       /\ v.retry = s.retry
  BY <1>3, <1>8 DEF Saves
<1>12. /\ u \in Saves
       /\ u.imid = v.imid + 1 /\ u.itype = Undefined /\ u.ipkt = {} /\ u.active = v.active
       /\ u.state = v.state /\ u.init = v.init /\ u.spi = v.spi /\ u.rmid = v.rmid
       /\ u.rpkt = v.rpkt /\ u.queued = v.queued /\ u.retry = v.retry
  <2>1. u = Advance(v)
    BY <1>8
  <2> QED
    BY <1>10, <2>1, AdvanceFacts
<1>13. r = Initiate(p, u, path)
  BY <1>6, <1>8
<1>14. p = Initiator => /\ sa[Responder].state \in Later
                        /\ sa[Responder].spi = u.spi /\ sa[Responder].init = u.init
  BY <1>4, <1>11, <1>12 DEF ExchInv, CallInv, SetupAgrees, Later
<1>15. /\ n = Len(calls[p]) /\ u.spi = sa[p].spi /\ u.rmid = sa[p].rmid /\ u.rpkt = sa[p].rpkt
       /\ u.init = sa[p].init /\ sa[p].state \notin {"NONE", "GONE"} /\ u.imid = n + Base(p)
       /\ u.queued["INIT"] = 0 /\ u.queued["AUTH"] = 0 /\ u.state = "ESTABLISHED"
       /\ u.active = x /\ u.itype = Undefined /\ u.ipkt = {}
  BY <1>4, <1>5, <1>11, <1>12
<1>15a. left'[p] \in Nat /\ left'[p] <= left[p]
  BY DEF Takes
<1>15b. x # {} => more \/ (m.body = "MORE" /\ MoreDue(p))
  <2>1. x # {} => more \/ m.body = "MORE"
    BY <1>6 DEF StillActive
  <2>2. m.body = "MORE" => MoreDue(p)
    BY DEF MoreDue, Takes
  <2> QED
    BY <2>1, <2>2
<1>15c. ASSUME TallyInv
        PROVE  /\ u.imid \in Mids /\ RetryOk(u) /\ Covers(p, u)
               /\ u.state \notin {"NONE", "CREATED"}
  <2>1. /\ s.imid + 1 \in Mids /\ RetryOk(s) /\ left[p] \in Nat /\ Extra(p) \in {0, 1}
    BY <1>15c, TallyFacts
  <2>2. u.imid = s.imid + 1 /\ u.queued = s.queued /\ u.retry = s.retry /\ "INIT" \notin u.active
    BY <1>7, <1>11, <1>12
  <2>3. RetryOk(u)
    BY <2>1, <2>2 DEF RetryOk
  <2>4. Stage(s) = 1 /\ Stage(u) = IF x = {} THEN 0 ELSE 1
    BY <1>4, <1>7, <1>15 DEF Stage
  <2>5. MoreDue(p) => Extra(p) = 1
    BY DEF Extra
  <2>6. Stage(u) + left'[p] + 1 <= Stage(s) + left[p] + Extra(p)
    BY <1>15a, <1>15b, <2>1, <2>4, <2>5
  <2>7. Covers(p, u)
    BY <1>1, <1>12, <1>15a, <1>15c, <2>2, <2>6, NextCovers
  <2> QED
    BY <1>15, <2>1, <2>2, <2>3, <2>7
<1> HIDE DEF n
<1>16. CASE x = {}
  <2>1. ExchInv' /\ OnlyRequests /\ Counts(p, r.called)
    BY <1>1, <1>3, <1>12, <1>13, <1>14, <1>15, <1>16, FreeStep
  <2>2. r.sa \in Saves
    BY <1>12, <1>13, <1>15, <1>16, InitiateFree
  <2>3. TallyInv => Spends(r.sa, u)
    BY <1>12, <1>13, <1>15, <1>15c, <1>16, FreeSpends
  <2>4. TallyInv => Within(p, r.sa)
    BY <1>12, <1>15a, <1>15c, <2>2, <2>3, SpendsWithin
  <2> QED
    BY <2>1, <2>4
<1>17. CASE x = {m.to}
  <2>1. PICK k \in Tasks \ {"INIT"} : k = m.to /\ k \in Queueable /\ k # "AUTH"
    BY TasksFacts DEF Queueable
  <2>2. u.active = {k}
    BY <1>15, <1>17, <2>1
  <2>3. ExchInv' /\ OnlyRequests /\ Counts(p, r.called)
    BY <1>1, <1>3, <1>12, <1>13, <1>14, <1>15, <2>1, <2>2, GoesStep
  <2>4. r.sa \in Saves
    BY <1>12, <1>13, <1>15, <2>2, InitiateGoes
  <2>5. TallyInv => Spends(r.sa, u)
    BY <1>12, <1>13, <1>15, <1>15c, <2>2, GoesSpends
  <2>6. TallyInv => Within(p, r.sa)
    BY <1>12, <1>15a, <1>15c, <2>4, <2>5, SpendsWithin
  <2> QED
    BY <2>3, <2>6
<1> QED
  BY <1>7, <1>16, <1>17

LEMMA ResponseKeeps ==
    ASSUME ExchInv, NEW p \in Peers, NEW m \in net, NEW accept \in BOOLEAN, NEW more \in BOOLEAN,
           NEW path \in AllPaths, ReceiveResponse(p, m, accept, more, path)
    PROVE  ExchInv' /\ Continues(p)
<1>1. PICK r : r = ProcessResponse(p, sa[p], m, accept, more, path)
  OBVIOUS
<1>2. Takes(p, m, r)
  <2>1. left \in [Peers -> Nat]
    BY DEF ExchInv, LooseType
  <2>2. left' \in [Peers -> Nat] /\ left'[Other(p)] = left[Other(p)] /\ left'[p] <= left[p]
    BY <2>1, PeersFacts DEF ReceiveResponse
  <2> QED
    BY <1>1, <2>2 DEF ReceiveResponse, Takes
<1>2a. more => left'[p] + 1 <= left[p]
  <2>1. left \in [Peers -> Nat]
    BY DEF ExchInv, LooseType
  <2> QED
    BY <2>1 DEF ReceiveResponse
<1>3. /\ m.to \in Tasks /\ Current(sa[p]) = m.to /\ m.type = sa[p].itype
      /\ Calling(p, sa[p], calls[p], Len(answers[p]), m.to)
  BY <1>2, TakesFacts
<1> SUFFICES ExchInv' /\ OnlyRequests /\ Counts(p, r.called) /\ (TallyInv => Within(p, r.sa))
  <2> SUFFICES ASSUME OnlyRequests, Counts(p, r.called) PROVE Proceeds(p, r.sa, r.called)
    BY DEF Continues
  <2>1. Moves(p, r.sa, r.out, r.called) /\ Taken(p)
    BY <1>2, TakesFacts
  <2>2. sa[p].state # "GONE"
    BY <1>2 DEF Takes, Alive
  <2> QED
    BY <2>1, <2>2 DEF Proceeds, Moves
<1>4. CASE m.to = "INIT"
  <2>1. p = Initiator
    BY <1>3, <1>4 DEF Calling
  <2>2. r = InitAnswered(Initiator, sa[Initiator], m, path)
    BY <1>1, <1>3, <1>4, <2>1 DEF ProcessResponse
  <2> QED
    BY <1>2, <1>4, <2>1, <2>2, InitResponse
<1>5. CASE m.to = "AUTH"
  <2>1. r = AuthAnswered(p, sa[p], m, accept, path)
    BY <1>1, <1>3, <1>5 DEF ProcessResponse
  <2> QED
    BY <1>2, <1>5, <2>1, AuthResponse
<1>6. CASE m.to = "DELETE"
  <2>1. r = Result(Destroyed(sa[p]), {}, <<>>)
    BY <1>1, <1>3, <1>6 DEF ProcessResponse
  <2> QED
    BY <1>2, <2>1, EndResponse
<1>7. CASE m.to \in {"CHILD", "DPD", "MOBIKE"}
  <2>1. r = Initiate(p, Advance([sa[p] EXCEPT !.active = StillActive(sa[p], m, more),
                                              !.probing = FALSE]), path)
    BY <1>1, <1>3, <1>7 DEF ProcessResponse
  <2> QED
    BY <1>2, <1>2a, <1>7, <2>1, TaskResponse
<1> QED
  BY <1>3, <1>4, <1>5, <1>6, <1>7, TasksFacts

-----------------------------------------------------------------------------
(* Requests, and what only adds to the network *)

\* No peer takes a step: the network gains explained messages.
LEMMA NetStep ==
    ASSUME ExchInv, sa' = sa, scene' = scene, left' = left, calls' = calls, execs' = execs,
           answers' = answers, half' \subseteq [spi : 1..MaxSas, init : Inits], spis' \in 0..MaxSas,
           net \subseteq net', net' \subseteq Messages, \A m \in net' : Sent(m),
           net = {} => net' = {}
    PROVE  ExchInv'
<1>1. LooseType'
  BY DEF ExchInv, LooseType
<1>2. CallInv
  BY DEF ExchInv
<1>3. \A p \in Peers : Receives(p)'
  <2> SUFFICES ASSUME NEW p \in Peers PROVE Receives(p)'
    OBVIOUS
  <2>1. Receives(p)
    BY <1>2 DEF CallInv
  <2> QED
    BY <2>1 DEF Receives, Alive
<1>4. \A p \in Peers : History(p)'
  BY <1>2 DEF CallInv, History
<1>5. \A m \in net' : Sent(m)'
  BY DEF Sent
<1>6. \A p \in Peers : \A m \in sa'[p].ipkt : m.from = p /\ m.req /\ Sent(m)'
  BY <1>2 DEF CallInv, Sent
<1>7. \A p \in Peers : PeerOf(p, sa[p], calls[p], Len(answers[p]))'
  BY <1>2 DEF CallInv
<1>8. SetupAgrees' /\ (sa'[Initiator].state = "CREATED" => net' = {})
  BY <1>2 DEF CallInv, SetupAgrees
<1>9. CallInv'
  BY <1>3, <1>4, <1>5, <1>6, <1>7, <1>8 DEF CallInv
<1> QED
  BY <1>1, <1>9 DEF ExchInv

LEMMA NetFacts ==
    ASSUME ExchInv, NEW m \in net
    PROVE  /\ m \in Messages /\ Sent(m) /\ net # {} /\ net \subseteq Messages
           /\ m.mid \in Nat /\ m.from \in Peers /\ m.to \in Tasks
           /\ sa[Initiator].state # "CREATED"
<1>1. m \in Messages /\ Sent(m) /\ net # {} /\ net \subseteq Messages /\ sa[Initiator].state # "CREATED"
  BY DEF ExchInv, LooseType, CallInv
<1> QED
  BY <1>1 DEF Messages

LEMMA ReceiveInitKeeps ==
    ASSUME ExchInv, NEW m \in net, NEW res \in Results, ReceiveInit(m, res)
    PROVE  ExchInv' /\ net \subseteq net' /\ \A y \in net' \ net : y.to = "INIT"
<1>1. /\ m.type = "IKE_SA_INIT" /\ m.req
      /\ UNCHANGED <<sa, scene, left, calls, execs, answers>>
      /\ net' = net \cup {InitReply(m, IF res = "OK" THEN spis + 1 ELSE 0, res)}
      /\ res = "OK" => spis < scene.sas
      /\ IF res = "OK" THEN /\ spis' = spis + 1
                            /\ half' = half \cup {[spi |-> spis + 1, init |-> m.init]}
                       ELSE UNCHANGED <<spis, half>>
  BY DEF ReceiveInit
<1>2. m \in Messages /\ Sent(m) /\ net # {} /\ net \subseteq Messages
  BY NetFacts
<1>3. /\ scene \in Scenarios /\ spis \in 0..MaxSas /\ half \subseteq [spi : 1..MaxSas, init : Inits]
  BY DEF ExchInv, LooseType
<1>4. scene.sas \in 0..MaxSas /\ MaxSas \in Nat
  BY <1>3, TaskManagerConstants DEF Scenario
<1>5. PICK x : x = IF res = "OK" THEN spis + 1 ELSE 0
  OBVIOUS
<1>6. /\ x \in 0..MaxSas /\ (res = "OK" => x # 0)
      /\ res = "OK" => spis + 1 \in 1..MaxSas
  BY <1>1, <1>3, <1>4, <1>5
<1>7. ReqOf(m, calls, sa[Initiator].init)
  BY <1>1, <1>2 DEF Sent
<1>8. m.body = "INIT" /\ m.to = "INIT" /\ m.mid = 0
  BY <1>1, <1>7, ExchangeFacts DEF ReqOf
<1>9. PICK y : y = InitReply(m, x, res)
  OBVIOUS
<1>10. y = [m EXCEPT !.from = Responder, !.req = FALSE, !.spi = x, !.body = res]
  BY <1>9 DEF InitReply, Response, Blank
<1>11. y \in Messages
  BY <1>2, <1>6, <1>10, PeersFacts DEF Messages, Results
<1>12. /\ y.from = Responder /\ ~y.req /\ y.spi = x /\ y.body = res /\ y.to = "INIT" /\ y.mid = 0
       /\ y.type = m.type
  BY <1>2, <1>8, <1>10 DEF Messages
<1>13. Sent(y)
  BY <1>1, <1>6, <1>12, TasksFacts DEF Sent, RespOf
<1>14. net' = net \cup {y}
  BY <1>1, <1>5, <1>9
<1>15. half' \subseteq [spi : 1..MaxSas, init : Inits] /\ spis' \in 0..MaxSas
  <2>1. m.init \in Inits
    BY <1>2 DEF Messages
  <2>2. CASE res = "OK"
    BY <1>1, <1>3, <1>6, <2>1, <2>2
  <2>3. CASE res # "OK"
    BY <1>1, <1>3, <2>3
  <2> QED
    BY <2>2, <2>3
<1>16. \A z \in net' : Sent(z)
  <2>1. \A z \in net : Sent(z)
    BY NetFacts
  <2> QED
    BY <1>13, <1>14, <2>1
<1>17. net \subseteq net' /\ net' \subseteq Messages
  BY <1>2, <1>11, <1>14
<1>18. \A z \in net' \ net : z.to = "INIT"
  BY <1>12, <1>14
<1> QED
  BY <1>1, <1>2, <1>15, <1>16, <1>17, <1>18, NetStep

LEMMA RepeatKeeps ==
    ASSUME ExchInv, NEW p \in Peers, NEW m \in net, RepeatResponse(p, m)
    PROVE  ExchInv' /\ net' = net
<1>1. PICK s \in Addressed(p, m) : net' = net \cup s.rpkt
  BY DEF RepeatResponse
<1>2. UNCHANGED <<sa, half, scene, spis, left, calls, execs, answers>>
  BY DEF RepeatResponse
<1>3. s.rpkt \subseteq net
  <2>1. CASE s = sa[p]
    <3>1. Receives(p)
      BY PeerFacts
    <3> QED
      BY <2>1, <3>1 DEF Receives
  <2>2. CASE \E h \in half : s = Opened(h)
    <3>1. s.rpkt = {}
      BY <2>2 DEF Opened, Blank
    <3> QED
      BY <3>1
  <2> QED
    BY <1>1, <2>1, <2>2 DEF Addressed
<1>4. net' = net
  BY <1>1, <1>3
<1>5. \A z \in net' : Sent(z)
  BY <1>4, NetFacts
<1>6. net' \subseteq Messages /\ half' \subseteq [spi : 1..MaxSas, init : Inits] /\ spis' \in 0..MaxSas
  BY <1>2, <1>4 DEF ExchInv, LooseType
<1> QED
  BY <1>2, <1>4, <1>5, <1>6, NetStep

LEMMA TimeoutKeeps ==
    ASSUME ExchInv, NEW n \in 1..MaxSas, HalfOpenTimeout(n)
    PROVE  /\ ExchInv' /\ (UNCHANGED sa \/ Continues(Responder))
           /\ UNCHANGED <<scene, net, left, calls, execs, answers>>
<1> DEFINE s == sa[Responder]
<1>1. UNCHANGED <<scene, spis, net, left, calls, execs, answers>>
  BY DEF HalfOpenTimeout
<1>2. CASE half' \subseteq half /\ UNCHANGED sa
  <2>1. net' \subseteq Messages /\ half' \subseteq [spi : 1..MaxSas, init : Inits] /\ spis' \in 0..MaxSas
    BY <1>1, <1>2 DEF ExchInv, LooseType
  <2>2. \A z \in net' : Sent(z)
    BY <1>1, NetFacts
  <2> QED
    BY <1>1, <1>2, <2>1, <2>2, NetStep
<1>3. CASE s.state = "CONNECTING" /\ sa' = [sa EXCEPT ![Responder] = Destroyed(s)] /\ UNCHANGED half
  <2>1. Responder \in Peers
    BY PeersFacts
  <2>2. PICK p \in Peers : p = Responder
    BY <2>1
  <2>3. /\ sa[p] \in Saves /\ calls[p] \in Seq(Tasks) /\ Len(answers[p]) \in Nat
        /\ Len(answers[p]) <= Len(execs[Other(p)])
        /\ left \in [Peers -> Nat] /\ answers \in [Peers -> Seq(Tasks)]
        /\ calls \in [Peers -> Seq(Tasks)]
    BY PeerFacts DEF ExchInv, LooseType
  <2>4. PICK t, k : t = Destroyed(sa[p]) /\ k = Len(answers[p])
    OBVIOUS
  <2>5. t \in Saves /\ Ended(t, sa[p])
    BY <2>3, <2>4, DestroyedFacts
  <2>6. calls' = [calls EXCEPT ![p] = @ \o <<>>]
    BY <1>1, <2>3
  <2>7. Moves(p, t, {}, <<>>)
    BY <1>1, <1>3, <2>2, <2>3, <2>4, <2>6 DEF Moves
  <2>8. /\ {} \in SUBSET Messages /\ <<>> \in Seq(Tasks) /\ k \in Nat /\ sa[p].state # "NONE"
        /\ Len(answers'[p]) = k /\ k <= Len(execs[Other(p)])
    BY <1>1, <1>3, <2>2, <2>3, <2>4
  <2> QED
    <3>1. Counts(p, <<>>) /\ Taken(p)
      BY <1>1 DEF Counts, Taken
    <3>2. ExchInv' /\ OnlyRequests
      BY <2>5, <2>7, <2>8, GoneStep
    <3>3. Proceeds(p, t, <<>>)
      BY <1>3, <2>2, <2>7, <3>1, <3>2 DEF Proceeds, Moves
    <3>4. left'[p] \in Nat /\ left'[p] <= left[p]
      BY <1>1, <2>3
    <3>5. TallyInv => Within(p, t)
      BY <2>5, <3>4, EndedWithin
    <3> QED
      BY <1>1, <2>2, <3>2, <3>3, <3>5 DEF Continues
<1> QED
  BY <1>2, <1>3 DEF HalfOpenTimeout

\* The request with the message ID expected is the first call not yet executed.
LEMMA RequestFacts ==
    ASSUME ExchInv, NEW p \in Peers, NEW m \in net, m.req, m.from = Other(p),
           NEW s \in Addressed(p, m), m.mid = s.rmid
    PROVE  LET q == Other(p) IN
           /\ s \in Saves /\ s.spi # 0 /\ s.state \notin {"NONE", "GONE", "CREATED"}
           /\ ReqOf(m, calls, sa[Initiator].init) /\ m.body \in Tasks /\ m.body # "INIT"
           /\ s.rmid = Len(execs[p]) + Base(q)
           /\ Len(execs[p]) + 1 <= Len(calls[q]) /\ calls[q][Len(execs[p]) + 1] = m.body
           /\ PeerOf(p, s, calls[p], Len(answers[p])) /\ s.ipkt \subseteq sa[p].ipkt
           /\ \/ s = sa[p]
              \/ p = Responder /\ execs[p] = <<>> /\ sa[p].state = "NONE"
<1> DEFINE q == Other(p)
<1>1. /\ m \in Messages /\ Sent(m) /\ m.mid \in Nat /\ sa[Initiator].state # "CREATED"
  BY NetFacts
<1>2. ReqOf(m, calls, sa[Initiator].init)
  BY <1>1 DEF Sent
<1>3. /\ sa[p] \in Saves /\ execs[p] \in Seq(Tasks) /\ Len(execs[p]) \in Nat /\ Receives(p)
      /\ PeerOf(p, sa[p], calls[p], Len(answers[p]))
  BY PeerFacts
<1>4. q \in Peers /\ Len(calls[q]) \in Nat
  BY PeersFacts, PeerFacts
<1>5. half \subseteq [spi : 1..MaxSas, init : Inits] /\ MaxSas \in Nat
  BY TaskManagerConstants DEF ExchInv, LooseType
<1>6. Base(q) \in {0, 1} /\ Base(Initiator) = 1 /\ Other(Responder) = Initiator
  BY PeersFacts
<1> DEFINE Found ==
      /\ s \in Saves /\ s.spi # 0 /\ s.spi = m.spi /\ s.state \notin {"NONE", "GONE", "CREATED"}
      /\ s.rmid = Len(execs[p]) + Base(q)
      /\ PeerOf(p, s, calls[p], Len(answers[p])) /\ s.ipkt \subseteq sa[p].ipkt
      /\ \/ s = sa[p]
         \/ p = Responder /\ execs[p] = <<>> /\ sa[p].state = "NONE"
<1>7. Found
  <2>1. CASE s = sa[p] /\ Alive(p) /\ m.spi # 0 /\ s.spi = m.spi
    <3>1. s.state \notin {"NONE", "GONE"}
      BY <2>1 DEF Alive
    <3>2. s.state # "CREATED"
      <4>1. ASSUME s.state = "CREATED" PROVE FALSE
        <5>1. Quiet(p, s, calls[p], Len(answers[p]))
          BY <1>3, <2>1, <4>1, QuietFacts
        <5> QED
          BY <1>1, <2>1, <4>1, <5>1 DEF Quiet
      <4> QED
        BY <4>1
    <3>3. s.rmid = Len(execs[p]) + Base(q)
      BY <1>3, <2>1, <3>1 DEF Receives
    <3> QED
      BY <1>3, <2>1, <3>1, <3>2, <3>3
  <2>2. ASSUME NEW h \in half, s = Opened(h), p = Responder, sa[p].state = "NONE", h.spi = m.spi
        PROVE  Found
    <3>1. h.spi \in 1..MaxSas /\ h.init \in Inits
      BY <1>5
    <3>2. s = [Blank EXCEPT !.state = "CONNECTING", !.spi = h.spi, !.init = h.init, !.rmid = 1]
      BY <2>2 DEF Opened
    <3>3. h.spi \in 0..MaxSas /\ h.spi # 0
      BY <1>5, <3>1
    <3>4. s \in Saves
      BY <3>1, <3>2, <3>3, BlankType DEF Saves, States
    <3>5. /\ s.state = "CONNECTING" /\ s.spi = h.spi /\ s.rmid = 1 /\ s.imid = 0
          /\ s.itype = Undefined /\ s.active = {} /\ s.ipkt = {}
          /\ s.queued["INIT"] = 0 /\ s.queued["AUTH"] = 0
      BY <3>2, TasksFacts DEF Blank
    <3>6. Quiet(p, sa[p], calls[p], Len(answers[p]))
      BY <1>3, <2>2, QuietFacts
    <3>7. calls[p] = <<>> /\ Len(answers[p]) = 0 /\ execs[p] = <<>>
      BY <1>3, <2>2, <3>6 DEF Quiet, Receives
    <3>8. Base(p) = 0 /\ Base(q) = 1
      BY <2>2, PeersFacts
    <3>9. Quiet(p, s, calls[p], Len(answers[p]))
      BY <2>2, <3>5, <3>7, <3>8 DEF Quiet
    <3>10. PeerOf(p, s, calls[p], Len(answers[p]))
      BY <3>5, <3>9 DEF PeerOf
    <3>11. s.rmid = Len(execs[p]) + Base(q)
      BY <3>5, <3>7, <3>8
    <3> QED
      BY <2>2, <3>3, <3>4, <3>5, <3>7, <3>10, <3>11
  <2>3. \/ s = sa[p] /\ Alive(p) /\ m.spi # 0 /\ s.spi = m.spi
        \/ \E h \in half : s = Opened(h) /\ p = Responder /\ sa[p].state = "NONE" /\ h.spi = m.spi
    BY DEF Addressed
  <2> HIDE DEF Found
  <2> QED
    BY <2>1, <2>2, <2>3
<1>8. m.body \in Tasks /\ m.body # "INIT"
  BY <1>2, <1>7 DEF ReqOf
<1>9. /\ m.mid + 1 - Base(q) \in 1..Len(calls[q])
      /\ calls[q][m.mid + 1 - Base(q)] = m.body
  BY <1>2, <1>8 DEF ReqOf
<1>10. m.mid + 1 - Base(q) = Len(execs[p]) + 1
  BY <1>3, <1>6, <1>7
<1>11. Len(execs[p]) + 1 <= Len(calls[q]) /\ calls[q][Len(execs[p]) + 1] = m.body
  BY <1>3, <1>4, <1>9, <1>10
<1> QED
  BY <1>2, <1>7, <1>8, <1>11

LEMMA RequestKeeps ==
    ASSUME ExchInv, NEW p \in Peers, NEW m \in net, NEW res \in Results, ReceiveRequest(p, m, res)
    PROVE  ExchInv'
<1> DEFINE q == Other(p)
<1>1. PICK s \in Addressed(p, m) :
        /\ m.req /\ m.from = Other(p) /\ Expected(s, m)
        /\ m.type = "IKE_AUTH" => s.state = "CONNECTING"
        /\ res \in Outcomes(s, m)
        /\ res = "MORE" => left[m.from] > 0
        /\ left' = [left EXCEPT ![m.from] = IF res = "MORE" THEN @ - 1 ELSE @]
        /\ Step(p, ProcessRequest(p, s, m, res))
        /\ half' = {h \in half : h.spi # s.spi}
        /\ execs' = [execs EXCEPT ![p] = Append(@, m.body)]
        /\ UNCHANGED <<scene, spis, answers>>
  BY DEF ReceiveRequest
<1>2. m.mid = s.rmid
  BY <1>1 DEF Expected
<1>3. /\ s \in Saves /\ s.spi # 0 /\ s.state \notin {"NONE", "GONE", "CREATED"}
      /\ ReqOf(m, calls, sa[Initiator].init) /\ m.body \in Tasks /\ m.body # "INIT"
      /\ s.rmid = Len(execs[p]) + Base(q)
      /\ Len(execs[p]) + 1 <= Len(calls[q]) /\ calls[q][Len(execs[p]) + 1] = m.body
      /\ PeerOf(p, s, calls[p], Len(answers[p])) /\ s.ipkt \subseteq sa[p].ipkt
      /\ \/ s = sa[p]
         \/ p = Responder /\ execs[p] = <<>> /\ sa[p].state = "NONE"
  BY <1>1, <1>2, RequestFacts
<1>4. /\ q \in Peers /\ q # p /\ Other(q) = p /\ \A x \in Peers : x = p \/ x = q
  BY PeersFacts
<1>5. /\ sa \in [Peers -> Saves] /\ calls \in [Peers -> Seq(Tasks)] /\ execs \in [Peers -> Seq(Tasks)]
      /\ net \subseteq Messages /\ left \in [Peers -> Nat] /\ LooseType /\ CallInv
      /\ m \in Messages /\ sa[Initiator].state # "CREATED"
  BY NetFacts DEF ExchInv, LooseType
\* The response, and what becomes of the IKE_SA.
<1> DEFINE y == Response(p, s, m, res)
           done == Answer(s, y)
           ends == m.body = "DELETE" \/ (m.body = "AUTH" /\ res = "FAIL")
           established == m.body = "AUTH" /\ res = "OK"
<1>6. y = [m EXCEPT !.from = p, !.req = FALSE, !.spi = s.spi, !.body = res]
  BY DEF Response
<1>7. y \in Messages
  <2>1. s.spi \in 0..MaxSas
    BY <1>3 DEF Saves
  <2> QED
    BY <1>5, <1>6, <2>1 DEF Messages
<1>8. /\ y.from = p /\ ~y.req /\ y.spi = s.spi /\ y.body = res /\ y.to = m.to /\ y.mid = m.mid
      /\ y.type = m.type /\ y.init = m.init
  BY <1>5, <1>6 DEF Messages
<1> HIDE DEF y
<1>9. done \in Saves
  <2>1. PICK n \in Nat : n = s.rmid + 1
    BY <1>3 DEF Saves
  <2>2. done = [s EXCEPT !.rpkt = {y}, !.rmid = n]
    BY <2>1 DEF Answer
  <2> HIDE DEF done
  <2> QED
    BY <1>3, <1>7, <2>2 DEF Saves
<1>10. /\ done.rpkt = {y} /\ done.rmid = s.rmid + 1
       /\ done.state = s.state /\ done.init = s.init /\ done.spi = s.spi /\ done.imid = s.imid
       /\ done.itype = s.itype /\ done.ipkt = s.ipkt /\ done.active = s.active
       /\ done.queued = s.queued
  BY <1>3 DEF Answer, Saves
<1> HIDE DEF done
<1>11. PICK t : t = IF ends THEN Destroyed(done)
                    ELSE IF established THEN [done EXCEPT !.state = "ESTABLISHED"] ELSE done
  OBVIOUS
<1>12. sa' = [sa EXCEPT ![p] = t] /\ net' = net \cup {y} /\ calls' = [calls EXCEPT ![p] = @ \o <<>>]
  BY <1>1, <1>11 DEF Step, ProcessRequest, Result, y, done
<1>13. calls' = calls
  BY <1>5, <1>12
<1>14. ASSUME established
       PROVE  p = Responder /\ s.state = "CONNECTING" /\ m.init = s.init
  <2>1. m.type = "IKE_AUTH"
    BY <1>3, <1>14, TasksFacts DEF ReqOf
  <2>2. m.from # Responder
    BY <1>3, <1>14 DEF ReqOf, Queueable
  <2>3. p = Responder
    BY <1>1, <1>4, <2>2, PeersFacts
  <2>4. m.init = s.init
    BY <1>1, <1>14 DEF Outcomes
  <2> QED
    BY <1>1, <2>1, <2>3, <2>4
<1>15. /\ t \in Saves /\ t.rmid = s.rmid + 1 /\ t.spi = s.spi /\ t.init = s.init
       /\ t.ipkt \subseteq s.ipkt /\ t.rpkt \subseteq {y}
       /\ t.state = "GONE" \/ t.rpkt = {y}
       /\ t.state \notin {"NONE", "CREATED"}
       /\ t.state = s.state \/ t.state = "GONE" \/ (t.state = "ESTABLISHED" /\ established)
       /\ established => t.state = "ESTABLISHED"
       /\ PeerOf(p, t, calls[p], Len(answers[p]))
  <2>1. CASE ends
    <3>1. t = Destroyed(done)
      BY <1>11, <2>1
    <3>2. t \in Saves /\ Ended(t, done)
      BY <1>9, <3>1, DestroyedFacts
    <3>3. /\ t.state = "GONE" /\ t.init = s.init /\ t.spi = s.spi /\ t.itype = Undefined
          /\ t.ipkt = {} /\ t.rmid = s.rmid + 1 /\ t.rpkt = {} /\ t.active = {}
          /\ t.queued["INIT"] = 0 /\ t.queued["AUTH"] = 0
      BY <1>10, <3>2, TasksFacts DEF Ended
    <3>4. PeerOf(p, t, calls[p], Len(answers[p]))
      BY <3>3 DEF PeerOf, Quiet
    <3>5. ~established
      BY <2>1
    <3> QED
      BY <3>2, <3>3, <3>4, <3>5
  <2>2. CASE ~ends /\ established
    <3>1. t = [done EXCEPT !.state = "ESTABLISHED"]
      BY <1>11, <2>2
    <3>2. t \in Saves
      BY <1>9, <3>1 DEF Saves, States
    <3>3. /\ t.rpkt = {y} /\ t.rmid = s.rmid + 1
          /\ t.state = "ESTABLISHED" /\ t.init = s.init /\ t.spi = s.spi /\ t.imid = s.imid
          /\ t.itype = s.itype /\ t.ipkt = s.ipkt /\ t.active = s.active
          /\ t.queued = s.queued
      BY <1>9, <1>10, <3>1 DEF Saves
    <3>4. p = Responder /\ s.state = "CONNECTING" /\ p # Initiator
      BY <1>14, <2>2, PeersFacts
    <3>5. Quiet(p, s, calls[p], Len(answers[p]))
      <4>1. ASSUME NEW k \in Tasks, Calling(p, s, calls[p], Len(answers[p]), k) PROVE FALSE
        BY <3>4, <4>1 DEF Calling, StateIn
      <4> QED
        BY <1>3, <4>1 DEF PeerOf
    <3>6. Quiet(p, t, calls[p], Len(answers[p]))
      BY <3>3, <3>4, <3>5 DEF Quiet
    <3>7. PeerOf(p, t, calls[p], Len(answers[p]))
      BY <1>3, <3>3, <3>6 DEF PeerOf
    <3> QED
      BY <2>2, <3>2, <3>3, <3>7
  <2>3. CASE ~ends /\ ~established
    <3>1. t = done
      BY <1>11, <2>3
    <3>2. PeerOf(p, t, calls[p], Len(answers[p]))
      <4>1. CASE Quiet(p, s, calls[p], Len(answers[p]))
        <5>1. Quiet(p, t, calls[p], Len(answers[p]))
          BY <1>10, <3>1, <4>1 DEF Quiet
        <5> QED
          BY <1>3, <1>10, <3>1, <5>1 DEF PeerOf
      <4>2. CASE \E k \in Tasks : Calling(p, s, calls[p], Len(answers[p]), k)
        <5>1. \E k \in Tasks : Calling(p, t, calls[p], Len(answers[p]), k)
          BY <1>10, <3>1, <4>2 DEF Calling
        <5> QED
          BY <1>3, <1>10, <3>1, <5>1 DEF PeerOf
      <4> QED
        BY <1>3, <4>1, <4>2 DEF PeerOf
    <3> QED
      BY <1>3, <1>9, <1>10, <2>3, <3>1, <3>2
  <2> QED
    BY <2>1, <2>2, <2>3
<1> HIDE DEF ends, established
<1>16. sa'[p] = t /\ sa'[q] = sa[q]
  BY <1>4, <1>5, <1>12
<1>17. execs'[p] = Append(execs[p], m.body) /\ execs'[q] = execs[q]
       /\ execs' \in [Peers -> Seq(Tasks)]
  BY <1>1, <1>3, <1>4, <1>5
<1>18. /\ Len(execs[p]) \in Nat /\ Len(execs'[p]) = Len(execs[p]) + 1
       /\ execs'[p][Len(execs[p]) + 1] = m.body
       /\ \A x \in 1..Len(execs[p]) : execs'[p][x] = execs[p][x]
  BY <1>3, <1>5, <1>17
<1>19. PICK d : d = execs'
  OBVIOUS
<1>20. Extends(execs, d)
  <2>1. Len(execs[q]) \in Nat
    BY <1>4, <1>5
  <2>2. ASSUME NEW x \in Peers
        PROVE  Len(execs[x]) <= Len(d[x]) /\ \A j \in 1..Len(execs[x]) : d[x][j] = execs[x][j]
    <3>1. CASE x = p
      BY <1>18, <1>19, <3>1
    <3>2. CASE x = q
      BY <1>17, <1>19, <2>1, <3>2
    <3> QED
      BY <1>4, <3>1, <3>2
  <2> QED
    BY <2>2 DEF Extends
<1>21. LooseType'
  <2>1. sa' \in [Peers -> Saves] /\ net' \subseteq Messages
    BY <1>5, <1>7, <1>12, <1>15
  <2>2. left' \in [Peers -> Nat]
    <3>1. left[m.from] \in Nat
      BY <1>1, <1>4, <1>5
    <3>2. (IF res = "MORE" THEN left[m.from] - 1 ELSE left[m.from]) \in Nat
      BY <1>1, <3>1
    <3> QED
      BY <1>1, <1>5, <3>2
  <2>3. half' \subseteq [spi : 1..MaxSas, init : Inits]
    BY <1>1, <1>5 DEF LooseType
  <2> QED
    BY <1>1, <1>5, <1>13, <1>17, <2>1, <2>2, <2>3 DEF LooseType
\* What was sent stays explained.
<1>22. sa'[Initiator].init = sa[Initiator].init
  <2>1. p = Initiator => s = sa[p]
    BY <1>3, PeersFacts
  <2> QED
    BY <1>4, <1>15, <1>16, <2>1, PeersFacts
<1>23. \/ execs[Responder] = <<>>
       \/ /\ sa[Responder].spi = sa'[Responder].spi /\ sa[Responder].init = sa'[Responder].init
          /\ sa[Responder].state \in Later => sa'[Responder].state \in Later
  <2>1. CASE p = Responder /\ s = sa[p]
    BY <1>15, <1>16, <2>1 DEF Later
  <2>2. CASE p = Initiator
    BY <1>4, <1>16, <2>2, PeersFacts
  <2> QED
    BY <1>3, <2>1, <2>2, PeersFacts
<1>24. sa[Responder] \in Saves /\ sa'[Responder] \in Saves
  BY <1>5, <1>21, PeersFacts DEF LooseType
<1>25. ASSUME NEW z \in Messages, Sent(z)
       PROVE  Sent(z)'
  <2>1. CASE z.req
    BY <1>13, <1>22, <1>25, <2>1 DEF Sent
  <2>2. CASE ~z.req
    <3>1. RespOf(z, execs, sa[Initiator].init, sa[Responder])
      BY <1>25, <2>2 DEF Sent
    <3>2. PICK i, u, v : i = sa[Initiator].init /\ u = sa[Responder] /\ v = sa'[Responder]
      OBVIOUS
    <3>3. RespOf(z, execs, i, u) /\ d \in [Peers -> Seq(Tasks)] /\ u \in Saves /\ v \in Saves
      BY <1>17, <1>19, <1>24, <3>1, <3>2
    <3>4. \/ execs[Responder] = <<>>
          \/ /\ u.spi = v.spi /\ u.init = v.init
             /\ u.state \in Later => v.state \in Later
      BY <1>23, <3>2
    <3>5. RespOf(z, d, i, v)
      BY <1>5, <1>20, <3>3, <3>4, RespKeeps
    <3>6. RespOf(z, execs', sa'[Initiator].init, sa'[Responder])
      BY <1>19, <1>22, <3>2, <3>5
    <3> QED
      BY <2>2, <3>6 DEF Sent
  <2> QED
    BY <2>1, <2>2
<1>26. Sent(y)'
  <2>1. m.to = m.body /\ m.type = ExchangeOf(m.body)
        /\ (p = Responder => m.init = sa[Initiator].init)
    BY <1>1, <1>3, PeersFacts DEF ReqOf
  <2>2. Base(q) \in {0, 1} /\ m.mid \in Nat
    BY <1>4, <1>5, PeersFacts DEF Messages
  <2>3. y.mid + 1 - Base(Other(y.from)) = Len(execs[p]) + 1
    BY <1>2, <1>3, <1>8, <1>18, <2>2
  <2>4. /\ y.mid + 1 - Base(Other(y.from)) \in 1..Len(execs'[y.from])
        /\ execs'[y.from][y.mid + 1 - Base(Other(y.from))] = y.to
    BY <1>8, <1>18, <2>1, <2>3
  <2>5. ASSUME y.from = Responder
        PROVE  y.spi = sa'[Responder].spi /\ y.init = sa'[Initiator].init
    BY <1>8, <1>15, <1>16, <1>22, <2>1, <2>5
  <2>6. ASSUME y.from = Responder, y.to = "AUTH", y.body = "OK"
        PROVE  /\ y.init = sa'[Responder].init
               /\ sa'[Responder].state \in {"ESTABLISHED", "DELETING", "GONE"}
    <3>1. established
      BY <1>8, <2>1, <2>6 DEF established
    <3> QED
      BY <1>8, <1>14, <1>15, <1>16, <2>6, <3>1
  <2>7. RespOf(y, execs', sa'[Initiator].init, sa'[Responder])
    BY <1>3, <1>8, <2>1, <2>4, <2>5, <2>6 DEF RespOf
  <2> QED
    BY <1>8, <2>7 DEF Sent
<1>27. \A z \in net' : Sent(z)'
  <2>1. \A z \in net : z \in Messages /\ Sent(z)
    BY <1>5 DEF CallInv
  <2> QED
    BY <1>12, <1>25, <1>26, <2>1
<1>28. \A x \in Peers : \A z \in sa'[x].ipkt : z.from = x /\ z.req /\ Sent(z)'
  <2>1. \A x \in Peers : \A z \in sa[x].ipkt : z \in Messages /\ z.from = x /\ z.req /\ Sent(z)
    BY <1>5 DEF CallInv, Saves
  <2>2. sa'[p].ipkt \subseteq sa[p].ipkt
    BY <1>3, <1>15, <1>16
  <2> QED
    BY <1>4, <1>16, <1>25, <2>1, <2>2
<1>29. \A x \in Peers : PeerOf(x, sa[x], calls[x], Len(answers[x]))'
  <2>1. PeerOf(q, sa[q], calls[q], Len(answers[q]))
    BY <1>4, <1>5 DEF CallInv
  <2>2. PeerOf(p, sa'[p], calls'[p], Len(answers'[p]))
    BY <1>1, <1>13, <1>15, <1>16
  <2>3. PeerOf(q, sa'[q], calls'[q], Len(answers'[q]))
    BY <1>1, <1>13, <1>16, <2>1
  <2> QED
    BY <1>4, <2>2, <2>3
<1>30. \A x \in Peers : History(x)'
  <2>1. History(p) /\ History(q)
    BY <1>4, <1>5 DEF CallInv
  <2>2. History(p)'
    BY <1>1, <1>13, <1>17, <2>1 DEF History
  <2>3. History(q)'
    <3>1. /\ Len(answers[q]) <= Len(execs[p])
          /\ \A j \in 1..Len(execs[p]) : execs[p][j] = calls[q][j]
      BY <1>4, <2>1 DEF History
    <3>2. Len(answers[q]) \in Nat
      BY <1>4, PeerFacts
    <3>3. Len(answers'[q]) <= Len(execs'[p]) /\ Len(execs'[p]) <= Len(calls'[q])
      BY <1>1, <1>3, <1>13, <1>18, <3>1, <3>2
    <3>4. \A j \in 1..Len(execs'[p]) : execs'[p][j] = calls'[q][j]
      BY <1>3, <1>13, <1>18, <3>1
    <3> QED
      BY <1>4, <3>3, <3>4 DEF History
  <2> QED
    BY <1>4, <2>2, <2>3
<1>31. \A x \in Peers : Receives(x)'
  <2>1. Receives(q)
    BY <1>4, <1>5 DEF CallInv
  <2>2. Receives(q)'
    BY <1>12, <1>16, <1>17, <2>1 DEF Receives, Alive
  <2>3. Base(q) \in {0, 1}
    BY <1>4, PeersFacts
  <2>4. sa'[p].rmid = Len(execs'[p]) + Base(Other(p))
    BY <1>3, <1>15, <1>16, <1>18, <2>3
  <2>5. execs'[p] # <<>>
    BY <1>18
  <2>6. sa'[p].state # "GONE" => /\ y \in sa'[p].rpkt
                                 /\ y.mid + 1 = sa'[p].rmid
                                 /\ y.type = ExchangeOf(execs'[p][Len(execs'[p])])
    BY <1>2, <1>3, <1>8, <1>15, <1>16, <1>18 DEF ReqOf
  <2>7. sa'[p].rpkt \subseteq net' /\ sa'[p].spi # 0 /\ sa'[p].state # "NONE"
    BY <1>3, <1>12, <1>15, <1>16
  <2>8. Receives(p)'
    BY <2>4, <2>5, <2>6, <2>7 DEF Receives, Alive
  <2> QED
    BY <1>4, <2>2, <2>8
<1>32. sa'[Initiator].state # "CREATED"
  BY <1>4, <1>5, <1>15, <1>16, PeersFacts
<1>33. SetupAgrees'
  <2>1. SetupAgrees
    BY <1>5 DEF CallInv
  <2>2. CASE p = Initiator
    <3>1. s = sa[p] /\ ~established
      BY <1>3, <1>14, <2>2, PeersFacts
    <3>2. sa'[Initiator].state \in {"ESTABLISHED", "DELETING"} =>
             sa[Initiator].state \in {"ESTABLISHED", "DELETING"}
      BY <1>15, <1>16, <2>2, <3>1
    <3>3. sa'[Responder] = sa[Responder] /\ sa'[Initiator].spi = sa[Initiator].spi
      BY <1>15, <1>16, <2>2, <3>1, PeersFacts
    <3> QED
      BY <1>22, <2>1, <3>2, <3>3 DEF SetupAgrees
  <2>3. CASE p = Responder
    <3>1. sa'[Initiator] = sa[Initiator]
      BY <1>16, <2>3, PeersFacts
    <3>2. ASSUME sa[Initiator].state \in {"ESTABLISHED", "DELETING"}
          PROVE  /\ sa'[Responder].state \in {"ESTABLISHED", "DELETING", "GONE"}
                 /\ sa'[Responder].spi = sa[Initiator].spi
                 /\ sa'[Responder].init = sa[Initiator].init
      <4>1. /\ sa[Responder].state \in {"ESTABLISHED", "DELETING", "GONE"}
            /\ sa[Responder].spi = sa[Initiator].spi
            /\ sa[Responder].init = sa[Initiator].init
        BY <2>1, <3>2 DEF SetupAgrees
      <4>2. s = sa[Responder]
        BY <1>3, <2>3, <4>1
      <4> QED
        BY <1>15, <1>16, <2>3, <4>1, <4>2
    <3> QED
      BY <3>1, <3>2 DEF SetupAgrees
  <2> QED
    BY <2>2, <2>3, PeersFacts
<1>34. CallInv'
  BY <1>27, <1>28, <1>29, <1>30, <1>31, <1>32, <1>33 DEF CallInv
<1> QED
  BY <1>21, <1>34 DEF ExchInv

-----------------------------------------------------------------------------
(* The invariant, and what follows from it *)

LEMMA InitExch == Init => ExchInv
<1> SUFFICES ASSUME Init PROVE ExchInv
  OBVIOUS
<1>1. PICK s : s = [Blank EXCEPT !.state = "CREATED"]
  OBVIOUS
<1>2. s \in Saves
  BY <1>1, BlankType DEF Saves, States
<1>3. /\ s.state = "CREATED" /\ s.spi = 0 /\ s.imid = 0 /\ s.itype = Undefined /\ s.ipkt = {}
      /\ s.rmid = 0 /\ s.rpkt = {} /\ s.queued = [k \in Tasks |-> 0] /\ s.active = {}
  BY <1>1 DEF Blank
<1>4. /\ Blank.state = "NONE" /\ Blank.spi = 0 /\ Blank.imid = 0 /\ Blank.itype = Undefined
      /\ Blank.ipkt = {} /\ Blank.rmid = 0 /\ Blank.rpkt = {}
      /\ Blank.queued = [k \in Tasks |-> 0] /\ Blank.active = {}
  BY DEF Blank
<1>5. /\ sa = [p \in Peers |-> IF p = Initiator THEN s ELSE Blank]
      /\ scene \in Scenarios /\ half = {} /\ spis = 0 /\ net = {} /\ left = scene.requests
      /\ calls = [p \in Peers |-> <<>>] /\ execs = [p \in Peers |-> <<>>]
      /\ answers = [p \in Peers |-> <<>>]
  BY <1>1 DEF Init
<1>6. Initiator \in Peers /\ Responder \in Peers /\ Initiator # Responder
  BY DEF Peers, Initiator, Responder
<1>7. sa \in [Peers -> Saves] /\ sa[Initiator] = s /\ sa[Responder] = Blank
  BY <1>2, <1>5, <1>6, BlankType
<1>8. LooseType
  <2>1. left \in [Peers -> Nat]
    BY <1>5, TaskManagerConstants DEF Scenario
  <2>2. spis \in 0..MaxSas
    BY <1>5, TaskManagerConstants
  <2> QED
    BY <1>5, <1>7, <2>1, <2>2 DEF LooseType
<1>9. \A p \in Peers : calls[p] = <<>> /\ execs[p] = <<>> /\ answers[p] = <<>>
                       /\ Len(calls[p]) = 0 /\ Len(execs[p]) = 0 /\ Len(answers[p]) = 0
  BY <1>5
<1>10. s.queued["INIT"] = 0 /\ s.queued["AUTH"] = 0 /\ Blank.queued["INIT"] = 0 /\ Blank.queued["AUTH"] = 0
  BY <1>3, <1>4, TasksFacts
<1>11. PeerOf(Initiator, sa[Initiator], calls[Initiator], Len(answers[Initiator]))
  BY <1>3, <1>6, <1>7, <1>9, <1>10 DEF PeerOf, Quiet
<1>12. PeerOf(Responder, sa[Responder], calls[Responder], Len(answers[Responder]))
  <2>1. PICK c : c = calls[Responder]
    OBVIOUS
  <2>2. PICK a : a = Len(answers[Responder])
    OBVIOUS
  <2>3. c = <<>> /\ Len(c) = 0 /\ a = 0 /\ Base(Responder) = 0
    BY <1>6, <1>9, <2>1, <2>2 DEF Base
  <2>4. Quiet(Responder, Blank, c, a)
    BY <1>4, <2>3 DEF Quiet
  <2> QED
    BY <1>7, <1>10, <2>1, <2>2, <2>4 DEF PeerOf
<1>13. \A p \in Peers : sa[p].ipkt = {} /\ sa[p].rpkt = {} /\ Other(p) \in Peers
  BY <1>3, <1>4, <1>6, <1>7 DEF Peers, Other
<1>14. \A p \in Peers : History(p)
  BY <1>9, <1>13 DEF History
<1>15. Receives(Initiator) /\ Receives(Responder)
  <2>1. ~Alive(Responder) /\ Other(Initiator) = Responder /\ Base(Responder) = 0
    BY <1>4, <1>6, <1>7 DEF Alive, Other, Base
  <2>2. /\ sa[Initiator].state = "CREATED" /\ sa[Initiator].rmid = 0
        /\ sa[Responder].state = "NONE"
    BY <1>3, <1>4, <1>7
  <2>3. Receives(Initiator)
    BY <1>6, <1>9, <1>13, <2>1, <2>2 DEF Receives
  <2>4. Receives(Responder)
    BY <1>6, <1>9, <1>13, <2>1, <2>2 DEF Receives
  <2> QED
    BY <2>3, <2>4
<1>16. SetupAgrees
  BY <1>3, <1>7 DEF SetupAgrees
<1>17. CallInv
  BY <1>5, <1>11, <1>12, <1>13, <1>14, <1>15, <1>16 DEF CallInv, Peers
<1> QED
  BY <1>8, <1>17 DEF ExchInv

LEMMA ExchStep == ExchInv /\ [Next]_vars => ExchInv'
<1> SUFFICES ASSUME ExchInv, [Next]_vars PROVE ExchInv'
  OBVIOUS
<1>1. \A p \in Peers : Paths(p) \subseteq AllPaths
  BY DEF Paths, AllPaths
<1>2. CASE UNCHANGED vars
  <2>1. LooseType'
    BY <1>2 DEF vars, ExchInv, LooseType
  <2>2. SetupAgrees' /\ \A m : Sent(m) = Sent(m)'
    BY <1>2 DEF vars, ExchInv, CallInv, SetupAgrees, Sent
  <2>3. \A p \in Peers : History(p)' /\ Receives(p)'
    BY <1>2 DEF vars, ExchInv, CallInv, History, Receives, Alive
  <2>4. \A p \in Peers : PeerOf(p, sa[p], calls[p], Len(answers[p]))'
    BY <1>2 DEF vars, ExchInv, CallInv
  <2>5. sa' = sa /\ net' = net
    BY <1>2 DEF vars
  <2>6. CallInv'
    BY <2>2, <2>3, <2>4, <2>5 DEF ExchInv, CallInv
  <2> QED
    BY <2>1, <2>6 DEF ExchInv
<1>3. CASE Connect
  BY <1>3, ConnectKeeps
<1>4. CASE \E n \in 1..MaxSas : HalfOpenTimeout(n)
  BY <1>4, TimeoutKeeps
<1>5. CASE Receive
  <2>1. PICK m \in net :
          \/ \E res \in Results : ReceiveInit(m, res)
          \/ \E p \in Peers, res \in Results : ReceiveRequest(p, m, res)
          \/ \E p \in Peers : RepeatResponse(p, m)
          \/ \E p \in Peers, accept, more \in BOOLEAN : \E path \in Paths(p) :
                ReceiveResponse(p, m, accept, more, path)
    BY <1>5 DEF Receive
  <2> QED
    BY <1>1, <2>1, ReceiveInitKeeps, RequestKeeps, RepeatKeeps, ResponseKeeps
<1>6. CASE \E p \in Peers, path \in AllPaths : Roam(p, path)
  BY <1>6, RoamKeeps
<1>7. CASE \E p \in Peers : \E path \in Paths(p) :
              \/ \E k \in Queueable : Queue(p, k, path)
              \/ Delete(p, path)
              \/ \E n \in Mids : RetransmitJob(p, n, path)
  BY <1>1, <1>7, QueueKeeps, DeleteKeeps, RetransmitKeeps
<1> QED
  BY <1>2, <1>3, <1>4, <1>5, <1>6, <1>7 DEF Next

\* What is in the air is the last call, and all earlier ones were answered.
LEMMA IdsFacts == ExchInv => IdsAgree /\ AnswerKept
<1> SUFFICES ASSUME ExchInv PROVE IdsAgree /\ AnswerKept
  OBVIOUS
<1>1. ASSUME NEW p \in Peers, NEW q, q = Other(p), Alive(p), Alive(q), sa[q].spi = sa[p].spi
      PROVE  /\ sa[p].spi # 0 => \/ sa[q].rmid = sa[p].imid
                                 \/ InAir(p) /\ sa[q].rmid = sa[p].imid + 1
             /\ InAir(p) /\ sa[q].rmid = sa[p].imid + 1 =>
                  \E m \in sa[q].rpkt : m.mid = sa[p].imid /\ m.type = sa[p].itype
  <2>1. q \in Peers /\ Other(q) = p /\ (p = Responder <=> q = Initiator)
    BY <1>1 DEF Peers, Other, Initiator, Responder
  <2>2. /\ sa[p] \in Saves /\ sa[q] \in Saves /\ sa[p].imid \in Nat /\ sa[q].rmid \in Nat
        /\ calls[p] \in Seq(Tasks) /\ execs[q] \in Seq(Tasks) /\ answers[p] \in Seq(Tasks)
    BY <2>1 DEF ExchInv, LooseType, Saves
  <2>3. PICK c : c = Len(calls[p])
    OBVIOUS
  <2>4. PICK e : e = Len(execs[q])
    OBVIOUS
  <2>5. PICK a : a = Len(answers[p])
    OBVIOUS
  <2>6. c \in Nat /\ e \in Nat /\ a \in Nat /\ Base(p) \in 0..1
    BY <2>2, <2>3, <2>4, <2>5 DEF Base
  <2>7. PeerOf(p, sa[p], calls[p], a) /\ History(p) /\ Receives(q)
    BY <2>1, <2>5 DEF ExchInv, CallInv
  <2>8. a <= e /\ e <= c /\ \A j \in 1..e : execs[q][j] = calls[p][j]
    BY <1>1, <2>3, <2>4, <2>5, <2>7 DEF History
  <2>9. sa[q].rmid = e + Base(p)
    BY <1>1, <2>1, <2>4, <2>7 DEF Receives, Alive
  <2>10. CASE Quiet(p, sa[p], calls[p], a)
    <3>1. sa[p].itype = Undefined
      BY <2>10 DEF Quiet
    <3>2. sa[p].spi # 0 => sa[p].imid = c + Base(p) /\ a = c
      BY <1>1, <2>3, <2>10 DEF Quiet, Alive
    <3> QED
      BY <2>6, <2>8, <2>9, <3>1, <3>2 DEF InAir
  <2>11. ASSUME NEW k \in Tasks, Calling(p, sa[p], calls[p], a, k)
         PROVE  /\ sa[p].spi # 0 => \/ sa[q].rmid = sa[p].imid
                                    \/ InAir(p) /\ sa[q].rmid = sa[p].imid + 1
                /\ InAir(p) /\ sa[q].rmid = sa[p].imid + 1 =>
                     \E m \in sa[q].rpkt : m.mid = sa[p].imid /\ m.type = sa[p].itype
    <3>1. sa[p].itype = ExchangeOf(k) /\ InAir(p)
      BY <2>11, ExchangeFacts DEF Calling, InAir
    <3>2. sa[p].imid + 1 = c + Base(p)
      BY <2>3, <2>11 DEF Calling
    <3>3. k # "INIT"
      <4>1. SUFFICES ASSUME k = "INIT" PROVE FALSE
        OBVIOUS
      <4>2. p = Initiator /\ sa[p].spi = 0
        BY <2>11, <4>1 DEF Calling
      <4>3. q = Responder
        BY <1>1, <4>2 DEF Other
      <4>4. sa[q].spi # 0
        BY <1>1, <2>7, <4>3 DEF Receives
      <4> QED
        BY <1>1, <4>2, <4>4
    <3>4. c = a + 1 /\ calls[p][c] = k
      BY <2>3, <2>11, <3>3 DEF Calling
    <3>5. sa[q].rmid = sa[p].imid \/ sa[q].rmid = sa[p].imid + 1
      BY <2>2, <2>6, <2>8, <2>9, <3>2, <3>4
    <3>6. ASSUME sa[q].rmid = sa[p].imid + 1
          PROVE  \E m \in sa[q].rpkt : m.mid = sa[p].imid /\ m.type = sa[p].itype
      <4>1. e = c
        BY <2>2, <2>6, <2>9, <3>2, <3>6
      <4>2. c > 0
        BY <2>6, <3>4
      <4>3. execs[q][e] = k
        BY <2>6, <2>8, <3>4, <4>1, <4>2
      <4>4. execs[q] # <<>>
        <5>1. Len(execs[q]) # 0
          BY <2>4, <2>6, <4>1, <4>2
        <5> QED
          BY <5>1
      <4>5. PICK m \in sa[q].rpkt : m.mid + 1 = sa[q].rmid /\ m.type = ExchangeOf(execs[q][e])
        BY <1>1, <2>4, <2>7, <4>4 DEF Receives
      <4>6. m.mid \in Nat
        BY <2>2 DEF Saves, Messages
      <4>7. m.mid = sa[p].imid
        BY <2>2, <3>6, <4>5, <4>6
      <4>8. m.type = sa[p].itype
        BY <3>1, <4>3, <4>5
      <4> QED
        BY <4>7, <4>8
    <3> QED
      BY <3>1, <3>5, <3>6
  <2> QED
    BY <2>7, <2>10, <2>11 DEF PeerOf
<1>2. ASSUME NEW p \in Peers, NEW q, q = Other(p), InAir(p) PROVE Alive(p)
  <2>1. PeerOf(p, sa[p], calls[p], Len(answers[p]))
    BY DEF ExchInv, CallInv
  <2>2. ~Quiet(p, sa[p], calls[p], Len(answers[p]))
    BY <1>2 DEF Quiet, InAir
  <2>3. PICK k \in Tasks : Calling(p, sa[p], calls[p], Len(answers[p]), k)
    BY <2>1, <2>2 DEF PeerOf
  <2> QED
    BY <2>3 DEF Calling, StateIn, Alive
<1>3. IdsAgree
  BY <1>1 DEF IdsAgree
<1>4. AnswerKept
  BY <1>1, <1>2 DEF AnswerKept
<1> QED
  BY <1>3, <1>4

\* The message ID a peer expects is the one the other peer uses next, or one
\* further while the exchange is in the air.
THEOREM IdsTheorem == Spec => []IdsAgree
BY InitExch, ExchStep, IdsFacts, PTL DEF Spec

\* The response to a request that may still be repeated is kept.
THEOREM AnswerTheorem == Spec => []AnswerKept
BY InitExch, ExchStep, IdsFacts, PTL DEF Spec

\* An IKE_SA the initiator takes for established is the one the responder
\* established, from the same IKE_SA_INIT request.
THEOREM SetupTheorem == Spec => []SetupAgrees
<1>1. ExchInv => SetupAgrees
  BY DEF ExchInv, CallInv
<1> QED
  BY <1>1, InitExch, ExchStep, PTL DEF Spec

-----------------------------------------------------------------------------
(* The bounds on message IDs and restarts *)

\* A peer that answers a request owes nothing more for it.
LEMMA AnswerSpends ==
    ASSUME ExchInv, TallyInv, NEW p \in Peers, NEW m \in net, m.req, m.from = Other(p),
           NEW s \in Addressed(p, m), m.mid = s.rmid, NEW res \in Results,
           NEW t, t = ProcessRequest(p, s, m, res).sa
    PROVE  t.imid = sa[p].imid /\ Due(t) <= Due(sa[p]) /\ AirOk(t) /\ RetryOk(t)
           /\ t.state # "NONE"
<1>1. /\ s \in Saves /\ s.state \notin {"NONE", "GONE", "CREATED"}
      /\ PeerOf(p, sa[p], calls[p], Len(answers[p]))
      /\ sa[p] \in Saves /\ AirOk(sa[p]) /\ RetryOk(sa[p])
  BY RequestFacts, PeerFacts, TallyFacts
<1>2. s.imid = sa[p].imid /\ Due(s) <= Due(sa[p]) /\ AirOk(s) /\ RetryOk(s)
  <2>1. CASE s = sa[p]
    <3>1. Due(s) \in Nat
      BY <1>1, DueFacts
    <3> QED
      BY <1>1, <2>1, <3>1
  <2>2. ASSUME NEW h \in half, s = Opened(h), sa[p].state = "NONE"
        PROVE  s.imid = sa[p].imid /\ Due(s) <= Due(sa[p]) /\ AirOk(s) /\ RetryOk(s)
    <3>1. /\ s.imid = 0 /\ s.itype = Undefined /\ s.active = {} /\ s.retry = 0
          /\ s.state = "CONNECTING" /\ s.queued = [k \in Tasks |-> 0]
      BY <2>2 DEF Opened, Blank
    <3>2. sa[p].imid = 0
      BY <1>1, <2>2, QuietFacts DEF Quiet
    <3>3a. Waiting(s.queued) = 0 /\ Stage(s) = 0
      BY <3>1, TasksFacts DEF Waiting, Stage
    <3>3b. Due(s) = 0
      BY <3>3a DEF Due
    <3>3. Due(s) = 0 /\ Due(sa[p]) \in Nat
      BY <1>1, <3>3b, DueFacts
    <3>4. AirOk(s) /\ RetryOk(s)
      BY <3>1, TaskManagerConstants DEF AirOk, RetryOk
    <3> QED
      BY <3>1, <3>2, <3>3, <3>4
  <2> QED
    BY <2>1, <2>2 DEF Addressed
<1>3. PICK y, d : /\ d = Answer(s, y)
                  /\ \/ t = Destroyed(d)
                     \/ t = [d EXCEPT !.state = "ESTABLISHED"] \/ t = d
  BY DEF ProcessRequest, Result
<1>3a. d = [s EXCEPT !.rpkt = {y}, !.rmid = s.rmid + 1]
  BY <1>3 DEF Answer
<1>3b. Due(sa[p]) \in Nat /\ Due(s) \in Nat
  BY <1>1, DueFacts
<1>4. /\ d.imid = s.imid /\ d.itype = s.itype /\ d.active = s.active /\ d.retry = s.retry
      /\ d.state = s.state /\ d.queued = s.queued /\ d.jobs = s.jobs /\ d.deferred = s.deferred
  BY <1>1, <1>3a DEF Saves
<1>5. CASE t = Destroyed(d)
  <2>1. /\ t.imid = s.imid /\ t.itype = Undefined /\ t.active = {} /\ t.retry = s.retry
        /\ t.state = "GONE" /\ t.queued = [k \in Tasks |-> 0]
    BY <1>4, <1>5 DEF Destroyed, Blank
  <2>2. Due(t) = 0
    BY <2>1, TasksFacts DEF Due, Waiting, Stage
  <2> QED
    BY <1>2, <1>3b, <2>1, <2>2 DEF AirOk, RetryOk
<1>6. CASE t = [d EXCEPT !.state = "ESTABLISHED"] \/ t = d
  <2>1. /\ t.imid = s.imid /\ t.itype = s.itype /\ t.active = s.active /\ t.retry = s.retry
        /\ t.state \notin {"NONE", "CREATED"} /\ t.queued = s.queued
        /\ t.jobs = s.jobs /\ t.deferred = s.deferred
    <3>1. CASE t = d
      BY <1>1, <1>4, <3>1
    <3>2. CASE t = [d EXCEPT !.state = "ESTABLISHED"]
      <4>1. t = [s EXCEPT !.rpkt = {y}, !.rmid = s.rmid + 1, !.state = "ESTABLISHED"]
        BY <1>3a, <3>2
      <4> QED
        BY <1>1, <4>1 DEF Saves
    <3> QED
      BY <1>6, <3>1, <3>2
  <2>2. Due(t) = Due(s)
    BY <1>1, <2>1 DEF Due, Stage
  <2> QED
    BY <1>2, <1>3b, <2>1, <2>2 DEF AirOk, RetryOk
<1> QED
  BY <1>3, <1>5, <1>6

LEMMA RequestTally ==
    ASSUME ExchInv, ExchInv', TallyInv, NEW p \in Peers, NEW m \in net, NEW res \in Results,
           ReceiveRequest(p, m, res)
    PROVE  TallyInv'
<1>0. PICK q : q = Other(p)
  OBVIOUS
<1>1. PICK s \in Addressed(p, m) :
        /\ m.req /\ m.from = Other(p) /\ Expected(s, m)
        /\ res = "MORE" => left[m.from] > 0
        /\ left' = [left EXCEPT ![m.from] = IF res = "MORE" THEN @ - 1 ELSE @]
        /\ Step(p, ProcessRequest(p, s, m, res))
        /\ UNCHANGED <<scene, spis, answers>>
  BY DEF ReceiveRequest
<1>2. q \in Peers /\ q # p /\ Other(q) = p /\ \A x \in Peers : x = p \/ x = q
  BY <1>0, PeersFacts
<1>3. /\ sa \in [Peers -> Saves] /\ calls \in [Peers -> Seq(Tasks)] /\ left \in [Peers -> Nat]
      /\ sa' \in [Peers -> Saves] /\ calls[p] \in Seq(Tasks) /\ m \in Messages
  BY NetFacts DEF ExchInv, LooseType
<1>4. PICK t : t = ProcessRequest(p, s, m, res).sa
  OBVIOUS
<1>5. t.imid = sa[p].imid /\ Due(t) <= Due(sa[p]) /\ AirOk(t) /\ RetryOk(t) /\ t.state # "NONE"
  BY <1>1, <1>4, AnswerSpends DEF Expected
<1>6. PICK y : y = Response(p, s, m, res)
  OBVIOUS
<1>7. ~y.req /\ y.from = p /\ y.body = res
  BY <1>3, <1>6 DEF Response, Messages
<1>8. sa' = [sa EXCEPT ![p] = t] /\ net' = net \cup {y} /\ calls' = [calls EXCEPT ![p] = @ \o <<>>]
  BY <1>1, <1>4, <1>6 DEF Step, ProcessRequest, Result
<1>9. sa'[p] = t /\ sa'[q] = sa[q] /\ calls' = calls
  BY <1>2, <1>3, <1>8
<1>10. /\ left'[p] = left[p] /\ left'[q] = IF res = "MORE" THEN left[q] - 1 ELSE left[q]
       /\ left'[q] \in Nat
  BY <1>0, <1>1, <1>2, <1>3
<1>11. \A x \in Peers : Limit(x)' = Limit(x)
  BY <1>1 DEF Limit
<1>12. \A x \in Peers :
         /\ sa[x].imid \in Nat /\ Due(sa[x]) \in Nat /\ left[x] \in Nat /\ Extra(x) \in {0, 1}
         /\ Limit(x) \in Nat /\ sa[x].imid + Due(sa[x]) + left[x] + Extra(x) <= Limit(x)
  BY TallyFacts
<1>13. Budget(p)'
  <2>1. MoreDue(p)' = MoreDue(p)
    BY <1>0, <1>2, <1>5, <1>7, <1>8, <1>9 DEF MoreDue
  <2>2. Extra(p)' = Extra(p)
    BY <2>1 DEF Extra
  <2>3. t \in Saves
    BY <1>3, <1>9
  <2>4. Due(t) \in Nat
    BY <2>3, DueFacts
  <2>5. sa[p].imid + Due(t) + left[p] + Extra(p) <= Limit(p)
    BY <1>5, <1>12, <2>4, Sums
  <2> QED
    BY <1>5, <1>9, <1>10, <1>11, <2>2, <2>5 DEF Budget
<1>14. Budget(q)'
  <2>1. CASE res = "MORE"
    <3>1. Extra(q)' \in {0, 1} /\ left'[q] + 1 = left[q]
      BY <1>2, <1>10, <1>12, <2>1 DEF Extra
    <3>2. sa[q].imid + Due(sa[q]) + left'[q] + Extra(q)' <= Limit(q)
      BY <1>2, <1>10, <1>12, <3>1
    <3> QED
      BY <1>2, <1>9, <1>11, <3>2 DEF Budget
  <2>2. CASE res # "MORE"
    <3>1. MoreDue(q)' = MoreDue(q)
      BY <1>7, <1>8, <1>9, <2>2 DEF MoreDue
    <3>2. Extra(q)' = Extra(q)
      BY <3>1 DEF Extra
    <3> QED
      BY <1>2, <1>9, <1>10, <1>11, <1>12, <2>2, <3>2 DEF Budget
  <2> QED
    BY <2>1, <2>2
<1>15. \A x \in Peers : /\ Len(calls'[x]) + Base(x) <= MaxMid
                        /\ AirOk(sa'[x]) /\ RetryOk(sa'[x])
                        /\ (sa'[x].state = "NONE" => sa'[x].rmid = 0)
  <2>1. \A x \in Peers : /\ Len(calls[x]) + Base(x) <= MaxMid /\ AirOk(sa[x]) /\ RetryOk(sa[x])
                         /\ (sa[x].state = "NONE" => sa[x].rmid = 0)
    BY DEF TallyInv
  <2> QED
    BY <1>2, <1>5, <1>9, <2>1
<1>16. \A x \in Peers : Budget(x)'
  BY <1>2, <1>13, <1>14
<1> QED
  BY <1>15, <1>16 DEF TallyInv, AirOk, RetryOk

LEMMA NetTally ==
    ASSUME TallyInv, UNCHANGED <<sa, scene, left, calls>>, net \subseteq net',
           \A m \in net' \ net : m.to = "INIT"
    PROVE  TallyInv'
<1>1. \A p \in Peers : MoreDue(p)' = MoreDue(p)
  BY DEF MoreDue
<1>2. \A p \in Peers : Extra(p)' = Extra(p) /\ Limit(p)' = Limit(p)
  BY <1>1 DEF Extra, Limit
<1>3. \A p \in Peers : Budget(p)'
  BY <1>2 DEF TallyInv, Budget
<1> QED
  BY <1>3 DEF TallyInv, AirOk, RetryOk

LEMMA InitTally == Init => TallyInv
<1> SUFFICES ASSUME Init PROVE TallyInv
  OBVIOUS
<1>1. ExchInv
  BY InitExch
<1> SUFFICES ASSUME NEW p \in Peers
             PROVE  /\ Budget(p) /\ Len(calls[p]) + Base(p) <= MaxMid
                    /\ AirOk(sa[p]) /\ RetryOk(sa[p])
                    /\ sa[p].state = "NONE" => sa[p].rmid = 0
  BY DEF TallyInv
<1>2. PICK s : s = sa[p]
  OBVIOUS
<1>3. /\ s.imid = 0 /\ s.itype = Undefined /\ s.active = {} /\ s.retry = 0 /\ s.rmid = 0
      /\ s.queued = [k \in Tasks |-> 0] /\ (s.state = "CREATED" => p = Initiator)
  BY <1>2 DEF Init, Blank
<1>4. /\ scene \in Scenarios /\ net = {} /\ left = scene.requests /\ calls[p] = <<>>
  BY DEF Init
<1>5. scene.requests[p] \in Nat /\ MaxMid \in Nat /\ scene.requests[p] + 3 <= MaxMid /\ MaxRetries \in Nat
  BY <1>4, TaskManagerConstants DEF Scenario
<1>6. Waiting(s.queued) = 0 /\ Stage(s) \in {0, 2} /\ (Stage(s) = 2 => p = Initiator)
  BY <1>3, TasksFacts DEF Waiting, Stage
<1>7. Extra(p) = 0
  BY <1>4 DEF Extra, MoreDue
<1>8. Budget(p)
  <2>1. Due(s) = Stage(s)
    BY <1>6 DEF Due
  <2>2. 0 + Stage(s) + left[p] + 0 <= Limit(p)
    BY <1>4, <1>5, <1>6 DEF Limit
  <2> QED
    BY <1>2, <1>3, <1>7, <2>1, <2>2 DEF Budget
<1>9. Len(calls[p]) = 0 /\ Base(p) \in {0, 1}
  BY <1>4, PeersFacts
<1>10. AirOk(s) /\ RetryOk(s)
  BY <1>3, <1>5 DEF AirOk, RetryOk
<1> QED
  BY <1>2, <1>3, <1>5, <1>8, <1>9, <1>10

LEMMA TallyNext == ExchInv /\ ExchInv' /\ TallyInv /\ [Next]_vars => TallyInv'
<1> SUFFICES ASSUME ExchInv, ExchInv', TallyInv, [Next]_vars PROVE TallyInv'
  OBVIOUS
<1>1. \A p \in Peers : Paths(p) \subseteq AllPaths
  BY DEF Paths, AllPaths
<1>2. CASE UNCHANGED vars
  BY <1>2, NetTally DEF vars
<1>3. CASE Connect
  BY <1>3, ConnectKeeps, TallyStep, PeersFacts
<1>4. CASE \E n \in 1..MaxSas : HalfOpenTimeout(n)
  <2>1. /\ UNCHANGED sa \/ Continues(Responder)
        /\ UNCHANGED <<scene, net, left, calls, execs, answers>>
    BY <1>4, TimeoutKeeps
  <2>2. CASE UNCHANGED sa
    BY <2>1, <2>2, NetTally
  <2>3. CASE Continues(Responder)
    BY <2>3, TallyStep, PeersFacts
  <2> QED
    BY <2>1, <2>2, <2>3
<1>5. CASE Receive
  <2>1. PICK m \in net :
          \/ \E res \in Results : ReceiveInit(m, res)
          \/ \E p \in Peers, res \in Results : ReceiveRequest(p, m, res)
          \/ \E p \in Peers : RepeatResponse(p, m)
          \/ \E p \in Peers, accept, more \in BOOLEAN : \E path \in Paths(p) :
                ReceiveResponse(p, m, accept, more, path)
    BY <1>5 DEF Receive
  <2>2. ASSUME NEW res \in Results, ReceiveInit(m, res) PROVE TallyInv'
    <3>1. net \subseteq net' /\ \A y \in net' \ net : y.to = "INIT"
      BY <2>2, ReceiveInitKeeps
    <3>2. UNCHANGED <<sa, scene, left, calls>>
      BY <2>2 DEF ReceiveInit
    <3> QED
      BY <3>1, <3>2, NetTally
  <2>3. CASE \E p \in Peers, res \in Results : ReceiveRequest(p, m, res)
    BY <2>3, RequestTally
  <2>4. ASSUME NEW p \in Peers, RepeatResponse(p, m) PROVE TallyInv'
    <3>1. net' = net
      BY <2>4, RepeatKeeps
    <3>2. UNCHANGED <<sa, scene, left, calls>>
      BY <2>4 DEF RepeatResponse
    <3> QED
      BY <3>1, <3>2, NetTally
  <2>5. CASE \E p \in Peers, accept, more \in BOOLEAN : \E path \in Paths(p) :
                ReceiveResponse(p, m, accept, more, path)
    BY <1>1, <2>5, ResponseKeeps, TallyStep
  <2> QED
    BY <2>1, <2>2, <2>3, <2>4, <2>5
<1>6. CASE \E p \in Peers, path \in AllPaths : Roam(p, path)
  BY <1>6, RoamKeeps, TallyStep
<1>7. CASE \E p \in Peers : \E path \in Paths(p) :
              \/ \E k \in Queueable : Queue(p, k, path)
              \/ Delete(p, path)
              \/ \E n \in Mids : RetransmitJob(p, n, path)
  BY <1>1, <1>7, QueueKeeps, DeleteKeeps, RetransmitKeeps, TallyStep
<1> QED
  BY <1>2, <1>3, <1>4, <1>5, <1>6, <1>7 DEF Next

\* The message ID of what was sent is within the bound.
LEMMA SentBound ==
    ASSUME ExchInv, TallyInv, NEW m \in Messages, Sent(m)
    PROVE  m \in Message
<1>1. \A p \in Peers :
        /\ Len(calls[p]) \in Nat /\ Len(execs[Other(p)]) \in Nat /\ Base(p) \in {0, 1}
        /\ Len(execs[Other(p)]) <= Len(calls[p]) /\ Len(calls[p]) + Base(p) <= MaxMid
        /\ Other(p) \in Peers /\ Other(Other(p)) = p
  BY PeerFacts, PeersFacts, TallyFacts
<1>2. m.mid \in Nat /\ m.from \in Peers /\ MaxMid \in Nat
  BY TaskManagerConstants DEF Messages
<1>3. m.mid <= MaxMid
  <2>1. CASE m.mid = 0
    BY <1>2, <2>1
  <2>2. CASE m.req /\ m.mid # 0
    <3>1. m.mid + 1 - Base(m.from) \in 1..Len(calls[m.from])
      BY <2>2 DEF Sent, ReqOf
    <3>2. PICK b, c : b = Base(m.from) /\ c = Len(calls[m.from])
      OBVIOUS
    <3>3. b \in {0, 1} /\ c \in Nat /\ c + b <= MaxMid /\ m.mid + 1 - b <= c
      BY <1>1, <1>2, <3>1, <3>2
    <3> QED
      BY <1>2, <3>3
  <2>3. CASE ~m.req /\ m.mid # 0
    <3>1. m.mid + 1 - Base(Other(m.from)) \in 1..Len(execs[m.from])
      BY <2>3 DEF Sent, RespOf
    <3>2. PICK q : q = Other(m.from)
      OBVIOUS
    <3>3. q \in Peers /\ Other(q) = m.from
      BY <1>1, <1>2, <3>2
    <3>4. PICK b, c, e : b = Base(q) /\ c = Len(calls[q]) /\ e = Len(execs[m.from])
      OBVIOUS
    <3>5. /\ b \in {0, 1} /\ c \in Nat /\ e \in Nat /\ e <= c /\ c + b <= MaxMid
          /\ m.mid + 1 - b <= e
      BY <1>1, <1>2, <3>1, <3>2, <3>3, <3>4
    <3> QED
      BY <1>2, <3>5
  <2> QED
    BY <1>2, <2>1, <2>2, <2>3
<1>4. m.mid \in Mids
  BY <1>2, <1>3 DEF Mids
<1> QED
  BY <1>4 DEF Messages, Message

LEMMA TypeFacts == ExchInv /\ TallyInv => TypeOK
<1> SUFFICES ASSUME ExchInv, TallyInv PROVE TypeOK
  OBVIOUS
<1> DEFINE Typed == [state : {"NONE", "CREATED", "CONNECTING", "ESTABLISHED",
                                  "DELETING", "GONE"},
                     init : Inits, spi : 0..MaxSas, imid : Mids,
                     itype : ExchangeTypes \cup {Undefined}, ipkt : SUBSET Message,
                     tries : Nat, deferred : BOOLEAN, probing : BOOLEAN,
                     roamed : BOOLEAN, retry : 0..MaxRetries,
                     jobs : [Mids -> Nat], rmid : Mids, rpkt : SUBSET Message,
                     queued : [Tasks -> Nat], active : SUBSET Tasks]
<1>1. LooseType /\ \A m \in net : Sent(m)
  BY DEF ExchInv, CallInv
<1>2. net \subseteq Message
  BY <1>1, SentBound DEF LooseType
<1>3. ASSUME NEW p \in Peers PROVE sa[p] \in Typed
  <2>1. sa[p] \in Saves /\ sa[p].imid \in Mids /\ RetryOk(sa[p]) /\ Receives(p)
    BY PeerFacts, TallyFacts
  <2>2. sa[p].ipkt \subseteq Message
    BY PeerFacts, SentBound
  <2>3. sa[p].rpkt \subseteq Message
    BY <1>2, <2>1 DEF Receives
  <2>4. sa[p].retry \in 0..MaxRetries
    BY <2>1, TaskManagerConstants DEF RetryOk, Saves
  <2>5. sa[p].rmid \in Mids
    <3>0. MaxMid \in Nat
      BY TaskManagerConstants
    <3>1. CASE sa[p].state = "NONE"
      <4>1. sa[p].rmid = 0
        BY <3>1 DEF TallyInv
      <4> QED
        BY <3>0, <4>1 DEF Mids
    <3>2. CASE sa[p].state # "NONE"
      <4>1. PICK q : q = Other(p)
        OBVIOUS
      <4>2. q \in Peers /\ Other(q) = p /\ sa[p].rmid = Len(execs[p]) + Base(q)
        BY <2>1, <3>2, <4>1, PeersFacts DEF Receives
      <4>3. /\ Len(execs[p]) <= Len(calls[q]) /\ Len(execs[p]) \in Nat /\ Len(calls[q]) \in Nat
            /\ Base(q) \in {0, 1} /\ Len(calls[q]) + Base(q) <= MaxMid
        BY <4>2, PeerFacts, TallyFacts
      <4>4. PICK n, b, c : n = Len(execs[p]) /\ b = Base(q) /\ c = Len(calls[q])
        OBVIOUS
      <4>5. n \in Nat /\ b \in {0, 1} /\ c \in Nat /\ n <= c /\ c + b <= MaxMid /\ sa[p].rmid = n + b
        BY <4>2, <4>3, <4>4
      <4> QED
        BY <3>0, <4>5 DEF Mids
    <3> QED
      BY <3>1, <3>2
  <2> QED
    BY <2>1, <2>2, <2>3, <2>4, <2>5 DEF Saves, States
<1>4. sa \in [Peers -> Typed]
  <2>1. sa \in [Peers -> Saves]
    BY <1>1 DEF LooseType
  <2> HIDE DEF Typed
  <2> QED
    BY <1>3, <2>1
<1> QED
  BY <1>1, <1>2, <1>4 DEF TypeOK, LooseType

LEMMA StuckFacts == ExchInv /\ TallyInv => NoStuckExchange
<1> SUFFICES ASSUME ExchInv, TallyInv, NEW p \in Peers, InAir(p)
             PROVE  /\ Cardinality(sa[p].ipkt) = 1
                    /\ sa[p].deferred \/ sa[p].jobs[sa[p].imid] > 0
  BY DEF NoStuckExchange
<1>1. PeerOf(p, sa[p], calls[p], Len(answers[p])) /\ AirOk(sa[p])
  BY PeerFacts, TallyFacts
<1>2. ~Quiet(p, sa[p], calls[p], Len(answers[p]))
  BY DEF Quiet, InAir
<1>3. PICK k \in Tasks : Calling(p, sa[p], calls[p], Len(answers[p]), k)
  BY <1>1, <1>2 DEF PeerOf
<1>4. PICK m : sa[p].ipkt = {m}
  BY <1>3 DEF Calling
<1>5. Cardinality(sa[p].ipkt) = 1
  BY <1>4, FS_Singleton
<1> QED
  BY <1>1, <1>5 DEF AirOk, InAir

\* Message IDs and restarts stay within their bounds, the response to a request that
\* may still be repeated is kept, and an exchange in the air has its own request to
\* repeat and a retransmit job that is due, or waits for a path.
THEOREM SoundTheorem == Spec => []ExchangeSound
<1>1. ExchInv /\ TallyInv => ExchangeSound
  BY IdsFacts, TypeFacts, StuckFacts DEF ExchangeSound
<1> QED
  BY <1>1, InitExch, ExchStep, InitTally, TallyNext, PTL DEF Spec

-----------------------------------------------------------------------------
(* The task managers implement at-most-once calls *)

Up == [x \in Peers |-> sa[x].state # "GONE"]

LEMMA PartnerFacts == \A p \in Peers : Calls!Partner(p) = Other(p)
BY PeersFacts DEF Calls!Partner

\* Which peers still keep the IKE_SA, when peer p becomes t.
LEMMA UpFacts ==
    ASSUME sa \in [Peers -> Saves], NEW p \in Peers, NEW t, sa' = [sa EXCEPT ![p] = t]
    PROVE  /\ sa[p].state # "GONE" => Up[p]
           /\ (t.state = "GONE") = (sa[p].state = "GONE") => Up' = Up
           /\ t.state = "GONE" => Up' = [Up EXCEPT ![p] = FALSE]
<1>1. sa'[p] = t /\ \A x \in Peers : x # p => sa'[x] = sa[x]
  OBVIOUS
<1>2. sa[p].state # "GONE" => Up[p]
  BY DEF Up
<1>3. ASSUME (t.state = "GONE") = (sa[p].state = "GONE") PROVE Up' = Up
  <2>1. \A x \in Peers : (sa'[x].state # "GONE") = (sa[x].state # "GONE")
    BY <1>1, <1>3
  <2> QED
    BY <2>1, Zenon DEF Up
<1>4. ASSUME t.state = "GONE" PROVE Up' = [Up EXCEPT ![p] = FALSE]
  <2>1. \A x \in Peers : (sa'[x].state # "GONE") = IF x = p THEN FALSE ELSE (sa[x].state # "GONE")
    BY <1>1, <1>4
  <2>2. [Up EXCEPT ![p] = FALSE] = [x \in Peers |-> IF x = p THEN FALSE ELSE (sa[x].state # "GONE")]
    BY DEF Up
  <2> QED
    BY <2>1, <2>2, Zenon DEF Up
<1> QED
  BY <1>2, <1>3, <1>4

\* A caller that goes on in order calls, returns, leaves or does nothing.
LEMMA CallerStep ==
    ASSUME ExchInv, NEW p \in Peers, Continues(p)
    PROVE  Calls!Next \/ UNCHANGED Calls!xvars
<1>0. PICK t, e : Proceeds(p, t, e)
  BY DEF Continues
<1>1. /\ sa \in [Peers -> Saves] /\ calls \in [Peers -> Seq(Tasks)] /\ calls[p] \in Seq(Tasks)
      /\ answers \in [Peers -> Seq(Tasks)] /\ answers[p] \in Seq(Tasks)
  BY DEF ExchInv, LooseType
<1>2. /\ sa' = [sa EXCEPT ![p] = t] /\ calls' = [calls EXCEPT ![p] = @ \o e] /\ execs' = execs
      /\ Counts(p, e) /\ Taken(p)
      /\ sa[p].state = "GONE" => t.state = "GONE" /\ e = <<>> /\ answers' = answers
  BY <1>0 DEF Proceeds
<1>3. /\ sa[p].state # "GONE" => Up[p]
      /\ (t.state = "GONE") = (sa[p].state = "GONE") => Up' = Up
      /\ t.state = "GONE" => Up' = [Up EXCEPT ![p] = FALSE]
  BY <1>1, <1>2, UpFacts
<1>4. e = <<>> => calls' = calls
  BY <1>1, <1>2
<1>5. CASE sa[p].state = "GONE"
  <2>1. Up' = Up /\ calls' = calls /\ answers' = answers /\ execs' = execs
    BY <1>2, <1>3, <1>4, <1>5
  <2> QED
    BY <2>1 DEF Calls!xvars, Up
<1>6. CASE sa[p].state # "GONE"
  <2>1. Up[p] /\ (Up' = Up \/ Up' = [Up EXCEPT ![p] = FALSE])
    BY <1>3, <1>6
  <2>2. Calls!MayGoDown(p)
    BY <2>1 DEF Calls!MayGoDown, Up
  <2>3. ASSUME NEW k \in Tasks, e = <<k>> PROVE calls' = [calls EXCEPT ![p] = Append(@, k)]
    <3>1. calls[p] \o <<k>> = Append(calls[p], k)
      BY <1>1
    <3> QED
      BY <1>1, <1>2, <2>3, <3>1
  <2>4. CASE answers' = answers
    <3>1. CASE e = <<>>
      <4>1. calls' = calls /\ execs' = execs
        BY <1>2, <1>4, <3>1
      <4>2. CASE Up' = Up
        BY <2>4, <4>1, <4>2 DEF Calls!xvars, Up
      <4>3. CASE Up' = [Up EXCEPT ![p] = FALSE]
        <5>1. Calls!Leave(p)
          BY <2>1, <2>4, <4>1, <4>3 DEF Calls!Leave, Up
        <5> QED
          BY <5>1 DEF Calls!Next
      <4> QED
        BY <2>1, <4>2, <4>3
    <3>2. CASE e # <<>>
      <4>1. PICK k \in Tasks : e = <<k>> /\ Len(calls[p]) = Len(answers[p])
        BY <1>2, <2>4, <3>2 DEF Counts
      <4>2. calls' = [calls EXCEPT ![p] = Append(@, k)]
        BY <2>3, <4>1
      <4>3. Calls!Called(p, Len(answers[p]))
        BY <4>1, <4>2 DEF Calls!Called
      <4>4. Calls!Call(p)
        BY <1>2, <2>1, <2>2, <2>4, <4>3 DEF Calls!Call, Up
      <4> QED
        BY <4>4 DEF Calls!Next
    <3> QED
      BY <3>1, <3>2
  <2>5. CASE /\ Len(answers[p]) < Len(execs[Other(p)])
             /\ answers' = [answers EXCEPT ![p] = Append(@, execs[Other(p)][Len(@) + 1])]
    <3>1. Calls!Answered(p)
      BY <2>5, PartnerFacts DEF Calls!Answered
    <3>2. Len(answers'[p]) = Len(answers[p]) + 1
      <4>1. answers'[p] = Append(answers[p], execs[Other(p)][Len(answers[p]) + 1])
        BY <1>1, <2>5
      <4> QED
        BY <1>1, <4>1
    <3>3. calls' = calls \/ Calls!Called(p, Len(answers[p]) + 1)
      <4>1. CASE e = <<>>
        BY <1>4, <4>1
      <4>2. CASE e # <<>>
        <5>1. PICK k \in Tasks : e = <<k>> /\ Len(calls[p]) = Len(answers'[p])
          BY <1>2, <4>2 DEF Counts
        <5>2. calls' = [calls EXCEPT ![p] = Append(@, k)]
          BY <2>3, <5>1
        <5> QED
          BY <3>2, <5>1, <5>2 DEF Calls!Called
      <4> QED
        BY <4>1, <4>2
    <3>4. Calls!Return(p)
      BY <1>2, <2>1, <2>2, <3>1, <3>3 DEF Calls!Return, Up
    <3> QED
      BY <3>4 DEF Calls!Next
  <2> QED
    BY <1>2, <2>4, <2>5 DEF Taken
<1> QED
  BY <1>5, <1>6

\* A request that is expected is the call to execute next.
LEMMA ExecuteStep ==
    ASSUME ExchInv, NEW p \in Peers, NEW m \in net, NEW res \in Results, ReceiveRequest(p, m, res)
    PROVE  Calls!Next
<1>1. PICK s \in Addressed(p, m) :
        /\ m.req /\ m.from = Other(p) /\ Expected(s, m)
        /\ Step(p, ProcessRequest(p, s, m, res))
        /\ execs' = [execs EXCEPT ![p] = Append(@, m.body)]
        /\ UNCHANGED <<scene, spis, answers>>
  BY DEF ReceiveRequest
<1>2. m.mid = s.rmid
  BY <1>1 DEF Expected
<1>3. /\ s.state \notin {"NONE", "GONE", "CREATED"}
      /\ Len(execs[p]) + 1 <= Len(calls[Other(p)]) /\ calls[Other(p)][Len(execs[p]) + 1] = m.body
      /\ s = sa[p] \/ sa[p].state = "NONE"
  BY <1>1, <1>2, RequestFacts
<1>4. /\ sa \in [Peers -> Saves] /\ calls \in [Peers -> Seq(Tasks)] /\ execs \in [Peers -> Seq(Tasks)]
      /\ calls[p] \in Seq(Tasks) /\ Len(execs[p]) \in Nat /\ Len(calls[Other(p)]) \in Nat
  BY PeersFacts DEF ExchInv, LooseType
<1>5. PICK r : r = ProcessRequest(p, s, m, res)
  OBVIOUS
<1>6. r.called = <<>>
  BY <1>5 DEF ProcessRequest, Result
<1>7. sa' = [sa EXCEPT ![p] = r.sa] /\ calls' = calls
  BY <1>1, <1>4, <1>5, <1>6 DEF Step
<1>8. sa[p].state # "GONE"
  BY <1>3
<1>9. PICK t : t = r.sa
  OBVIOUS
<1>10. sa' = [sa EXCEPT ![p] = t]
  BY <1>7, <1>9
<1>11. /\ Up[p]
       /\ (t.state = "GONE") = (sa[p].state = "GONE") => Up' = Up
       /\ t.state = "GONE" => Up' = [Up EXCEPT ![p] = FALSE]
  BY <1>4, <1>8, <1>10, UpFacts
<1>12. Up' = Up \/ Up' = [Up EXCEPT ![p] = FALSE]
  BY <1>8, <1>11
<1>13. Calls!MayGoDown(p)
  BY <1>12 DEF Calls!MayGoDown, Up
<1>14. Len(execs[p]) < Len(calls[Other(p)])
  BY <1>3, <1>4
<1>15. execs' = [execs EXCEPT ![p] = Append(@, calls[Other(p)][Len(execs[p]) + 1])]
  BY <1>1, <1>3
<1>16. Calls!Execute(p)
  BY <1>1, <1>7, <1>11, <1>13, <1>14, <1>15, PartnerFacts DEF Calls!Execute, Up
<1> QED
  BY <1>16 DEF Calls!Next

LEMMA CallsStep == ExchInv /\ [Next]_vars => [Calls!Next]_(Calls!xvars)
<1> SUFFICES ASSUME ExchInv, [Next]_vars PROVE Calls!Next \/ UNCHANGED Calls!xvars
  OBVIOUS
<1>1. \A p \in Peers : Paths(p) \subseteq AllPaths
  BY DEF Paths, AllPaths
<1>2. UNCHANGED <<sa, calls, execs, answers>> => UNCHANGED Calls!xvars
  BY DEF Calls!xvars
<1>3. CASE UNCHANGED vars
  BY <1>2, <1>3 DEF vars
<1>4. CASE Connect
  BY <1>4, ConnectKeeps, CallerStep, PeersFacts
<1>5. CASE \E n \in 1..MaxSas : HalfOpenTimeout(n)
  BY <1>2, <1>5, TimeoutKeeps, CallerStep, PeersFacts
<1>6. CASE Receive
  <2>1. PICK m \in net :
          \/ \E res \in Results : ReceiveInit(m, res)
          \/ \E p \in Peers, res \in Results : ReceiveRequest(p, m, res)
          \/ \E p \in Peers : RepeatResponse(p, m)
          \/ \E p \in Peers, accept, more \in BOOLEAN : \E path \in Paths(p) :
                ReceiveResponse(p, m, accept, more, path)
    BY <1>6 DEF Receive
  <2>2. CASE \E res \in Results : ReceiveInit(m, res)
    BY <1>2, <2>2 DEF ReceiveInit
  <2>3. CASE \E p \in Peers, res \in Results : ReceiveRequest(p, m, res)
    BY <2>3, ExecuteStep
  <2>4. CASE \E p \in Peers : RepeatResponse(p, m)
    BY <1>2, <2>4 DEF RepeatResponse
  <2>5. CASE \E p \in Peers, accept, more \in BOOLEAN : \E path \in Paths(p) :
                ReceiveResponse(p, m, accept, more, path)
    BY <1>1, <2>5, ResponseKeeps, CallerStep
  <2> QED
    BY <2>1, <2>2, <2>3, <2>4, <2>5
<1>7. CASE \E p \in Peers, path \in AllPaths : Roam(p, path)
  BY <1>7, RoamKeeps, CallerStep
<1>8. CASE \E p \in Peers : \E path \in Paths(p) :
              \/ \E k \in Queueable : Queue(p, k, path)
              \/ Delete(p, path)
              \/ \E n \in Mids : RetransmitJob(p, n, path)
  BY <1>1, <1>8, QueueKeeps, DeleteKeeps, RetransmitKeeps, CallerStep
<1> QED
  BY <1>3, <1>4, <1>5, <1>6, <1>7, <1>8 DEF Next

LEMMA InitCalls == Init => Calls!Init
<1> SUFFICES ASSUME Init PROVE Calls!Init
  OBVIOUS
<1>1. \A p \in Peers : sa[p].state # "GONE"
  BY DEF Init, Blank
<1>2. [p \in Peers |-> sa[p].state # "GONE"] = [p \in Peers |-> TRUE]
  BY <1>1
<1> QED
  BY <1>2 DEF Init, Calls!Init

\* The task managers of two peers implement at-most-once calls: every request
\* from IKE_AUTH on is executed at most once and in order, and a response is
\* taken only for a request that was executed, whatever the network does.
THEOREM CallsTheorem == Spec => AtMostOnce
BY InitCalls, InitExch, ExchStep, CallsStep, PTL DEF Spec, AtMostOnce, Calls!Spec
=============================================================================
