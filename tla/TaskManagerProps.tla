-------------------------- MODULE TaskManagerProps --------------------------
(* What the task managers of two peers guarantee. *)
EXTENDS TaskManager

\* Every state is well typed; in particular IKE_SA_INIT is not restarted more
\* than MAX_RETRIES times, whatever hurdles the responder puts up.
TypeOK ==
    /\ sa \in [Peers -> [state : {"NONE", "CREATED", "CONNECTING", "ESTABLISHED",
                                  "DELETING", "GONE"},
                         init : Inits, spi : 0..MaxSas, imid : Mids,
                         itype : ExchangeTypes \cup {Undefined}, ipkt : SUBSET Message,
                         tries : Nat, deferred : BOOLEAN, probing : BOOLEAN,
                         roamed : BOOLEAN, retry : 0..MaxRetries,
                         jobs : [Mids -> Nat], rmid : Mids, rpkt : SUBSET Message,
                         queued : [Tasks -> Nat], active : SUBSET Tasks]]
    /\ half \subseteq [spi : 1..MaxSas, init : Inits]
    /\ scene \in Scenarios
    /\ spis \in 0..MaxSas
    /\ net \subseteq Message
    /\ left \in [Peers -> Nat]

InAir(p) == sa[p].itype # Undefined

\* The message ID a peer expects is the one the other peer uses next, or one
\* further while the exchange is in the air ("responding.mid" against
\* "initiating.mid"): no retransmission, restart of IKE_SA_INIT or repeated
\* request ever makes the two counters drift apart.
IdsAgree == \A p \in Peers : LET q == Other(p) IN
    sa[p].spi # 0 /\ sa[p].spi = sa[q].spi /\ Alive(p) /\ Alive(q) =>
       \/ sa[q].rmid = sa[p].imid
       \/ InAir(p) /\ sa[q].rmid = sa[p].imid + 1

\* As long as a request may be repeated and its receiver still has the IKE_SA,
\* the receiver keeps the response that answers it ("responding.packets"): a
\* lost response can always be had again.
AnswerKept == \A p \in Peers : LET q == Other(p) IN
    InAir(p) /\ Alive(q) /\ sa[q].rmid = sa[p].imid + 1 /\ sa[q].spi = sa[p].spi =>
       \E m \in sa[q].rpkt : m.mid = sa[p].imid /\ m.type = sa[p].itype

\* An exchange in the air has exactly its own request to repeat and a retransmit
\* job that will repeat it or give up, or else is deferred until a path is found:
\* also after the jobs of earlier exchanges, and those that reset() left behind.
NoStuckExchange == \A p \in Peers :
    InAir(p) => /\ Cardinality(sa[p].ipkt) = 1
                /\ sa[p].deferred \/ sa[p].jobs[sa[p].imid] > 0

\* The state of an exchange is sound at both ends: restarts stay within their
\* limit, the initiator can repeat its request and the responder its response.
ExchangeSound == TypeOK /\ AnswerKept /\ NoStuckExchange

\* The task managers implement at-most-once calls: each request of IKE_AUTH or
\* later is executed at most once and in order, and a response is taken only for
\* a request that was executed, however messages are lost, repeated or reordered.
Calls == INSTANCE Exchange WITH Kinds <- Tasks, up <- [p \in Peers |-> sa[p].state # "GONE"]
AtMostOnce == Calls!Spec

\* An IKE_SA the initiator takes for established is the same one at the responder
\* (ike_auth.c): same SPI, same IKE_SA_INIT request, and established there before,
\* whichever of several half-open IKE_SAs and restarts the messages came from.
SetupAgrees == sa[Initiator].state \in {"ESTABLISHED", "DELETING"} =>
    /\ sa[Responder].state \in {"ESTABLISHED", "DELETING", "GONE"}
    /\ sa[Responder].spi = sa[Initiator].spi
    /\ sa[Responder].init = sa[Initiator].init

\* At rest: nothing is on the way, or the exchange waits for ike_sa_t.roam().
Settled(p) == \/ sa[p].deferred
              \/ ~InAir(p) /\ sa[p].state \in {"NONE", "CREATED", "ESTABLISHED", "GONE"}

\* A deferred exchange, for which no retransmit job is left, is taken up by the
\* first roam() that finds a path: it is sent and has a job for its ID again.
TakenUp == \A p \in Peers :
    InAir(p) /\ sa[p].deferred /\ (\E path \in AllPaths : Roam(p, path)) =>
       ~sa'[p].deferred /\ sa'[p].jobs[sa'[p].imid] > 0

\* Every exchange, and every IKE_SA being set up or deleted, comes to an end even
\* if the other peer is gone and the network delivers nothing: the retransmit and
\* half-open timeouts see to it.  A deferred exchange goes on with the next path.
ExchangesEnd == /\ \A p \in Peers : ~Settled(p) ~> Settled(p)
                /\ [][TakenUp]_vars
=============================================================================
