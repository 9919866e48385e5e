----------------------------- MODULE IpsecSaMgr -----------------------------
(***************************************************************************)
(* The SA database of libipsec (ipsec_sa_mgr.c): the threads that process  *)
(* packets (ipsec_processor.c), IKE threads that install, query, update,   *)
(* delete and flush IPsec SAs, and the expiry jobs of the scheduler.       *)
(*                                                                         *)
(* One mutex protects the list.  An SA is used with the mutex released,    *)
(* but its entry locked; whoever wants a locked entry sleeps on the        *)
(* condvar of the entry.  A step is what a thread does from getting the    *)
(* mutex to releasing it, in condvar->wait or for good; only a flush takes *)
(* several, one for each entry.                                            *)
(*                                                                         *)
(* Entries are known by their address: malloc may return the address of a  *)
(* freed entry while its expiry job is pending.  What it does not do is    *)
(* return it for an SA that also has the same (random) SPI.                *)
(***************************************************************************)
EXTENDS Naturals, FiniteSets, SequencesExt

CONSTANTS Threads, Addrs, Spis,
          MaxSas,       \* bound: SAs ever installed
          Scenarios,    \* what the threads are asked to do
          None

Kinds == [spi : Spis, inbound : BOOLEAN]
Lifetimes == {"none", "hard", "soft"}

\* threads and addrs: those that take part; kinds and lives: the SAs that may be
\* installed, and their lifetimes; sas: how many.
Scenario == [threads : SUBSET Threads, addrs : SUBSET Addrs, kinds : SUBSET Kinds,
             lives : SUBSET Lifetimes, sas : 0..MaxSas]

ASSUME IpsecConstants ==
    /\ MaxSas \in Nat
    /\ IsFiniteSet(Threads)
    /\ Scenarios \subseteq Scenario
    /\ None \notin Threads \cup Addrs \cup Spis

VARIABLES scene,        \* the scenario, chosen at the start
          sas,          \* the list of entries, latest first
          entry,        \* entry[a]: the entry at address a
          allocated,    \* SPIs given out by get_spi and not yet installed
          jobs,         \* expiry jobs of the scheduler
          thread,       \* thread[t]: what t does, with which entry
          mutex,        \* the thread that holds the mutex between two steps
          added         \* number of SAs installed so far: the name of the latest

vars == <<scene, sas, entry, allocated, jobs, thread, mutex, added>>

\* id tells apart the SAs an address is used for, one after the other.
Free == [id |-> 0, spi |-> None, inbound |-> FALSE, life |-> "none",
         locked |-> FALSE, awaits |-> FALSE, waiting |-> 0]
\* at: the entry used or waited for, or where an enumerator stands; id: the SA
\* that was there; goal: the latest SA when a flush began.
Idle == [pc |-> "idle", op |-> "none", at |-> None, id |-> 0, awake |-> FALSE, goal |-> 0]

Init == /\ scene \in Scenarios
        /\ sas = <<>>
        /\ entry = [a \in Addrs |-> Free]
        /\ allocated = {}
        /\ jobs = {}
        /\ thread = [t \in Threads |-> Idle]
        /\ mutex = None
        /\ added = 0

Installed == Range(sas)
IsIdle(t) == thread[t].pc = "idle" /\ mutex = None

(***************************************************************************)
(* The condvar of an entry.  Thr is the state of the threads after what    *)
(* the thread has done so far in its step.                                 *)
(***************************************************************************)
Asleep(Thr, a) == {t \in DOMAIN Thr : Thr[t].pc \in {"wait", "drain"}
                                      /\ Thr[t].at = a /\ ~Thr[t].awake}
Wake(Thr, S) == [t \in DOMAIN Thr |-> IF t \in S THEN [Thr[t] EXCEPT !.awake = TRUE]
                                      ELSE Thr[t]]
Signal(Thr, a) == IF Asleep(Thr, a) = {} THEN {Thr}
                  ELSE {Wake(Thr, {t}) : t \in Asleep(Thr, a)}
Broadcast(Thr, a) == Wake(Thr, Asleep(Thr, a))

With(t, st) == [thread EXCEPT ![t] = st]
State(t, pc, op, a) == [thread[t] EXCEPT !.pc = pc, !.op = op, !.at = a,
                                         !.id = entry[a].id, !.awake = FALSE]

(***************************************************************************)
(* Installing SAs.                                                         *)
(***************************************************************************)
SameSa(a, k) == entry[a].spi = k.spi /\ entry[a].inbound = k.inbound

GetSpi(t) ==
    /\ IsIdle(t)
    /\ \E s \in {k.spi : k \in {k \in scene.kinds : k.inbound}} \ allocated :
          /\ \A a \in Installed : ~SameSa(a, [spi |-> s, inbound |-> TRUE])
          /\ allocated' = allocated \cup {s}
    /\ UNCHANGED <<scene, sas, entry, jobs, thread, mutex, added>>

\* An SA with a soft lifetime gets a job that fires twice.
ScheduleExpiration(a, s, life) ==
    IF life = "none" THEN {}
    ELSE {[at |-> a, spi |-> s, id |-> added + 1, hard |-> life = "hard"]}

AddSa(t) ==
    /\ IsIdle(t)
    /\ added < scene.sas
    /\ \E k \in scene.kinds, life \in scene.lives, a \in scene.addrs :
          /\ k.inbound => k.spi \in allocated
          /\ \A b \in Installed : ~SameSa(b, k)
          /\ entry[a] = Free
          /\ \A j \in jobs : ~(j.at = a /\ j.spi = k.spi)
          /\ allocated' = IF k.inbound THEN allocated \ {k.spi} ELSE allocated
          /\ entry' = [entry EXCEPT ![a] =
                          [Free EXCEPT !.id = added + 1, !.spi = k.spi,
                                       !.inbound = k.inbound, !.life = life]]
          /\ jobs' = jobs \cup ScheduleExpiration(a, k.spi, life)
          /\ sas' = <<a>> \o sas
    /\ added' = added + 1
    /\ UNCHANGED <<scene, thread, mutex>>

(***************************************************************************)
(* Using SAs.  The loop of wait_for_entry and what follows while the mutex *)
(* is held: a thread is sent away, sleeps, or gets the entry.  checkout    *)
(* leaves with the entry locked; query_sa and update_sa read or change the *)
(* SA and check it in again.                                               *)
(***************************************************************************)
\* A slip: a thread that is sent away does not signal.
Refuse_Silent(t, e, a) ==
    /\ entry' = [entry EXCEPT ![a] = e]
    /\ thread' = With(t, Idle)

Refuse(t, e, a) ==
    /\ entry' = [entry EXCEPT ![a] = e]
    /\ thread' \in Signal(With(t, Idle), a)

Sleep(t, e, a, op) ==
    /\ entry' = [entry EXCEPT ![a] = [e EXCEPT !.waiting = @ + 1]]
    /\ thread' = With(t, State(t, "wait", op, a))

\* A slip: checkout does not lock the entry.
Take_Unlocked(t, e, a, op) ==
    \/ /\ op = "checkout"
       /\ entry' = [entry EXCEPT ![a] = e]
       /\ thread' = With(t, State(t, "use", op, a))
    \/ /\ op = "query"
       /\ entry' = [entry EXCEPT ![a] = e]
       /\ thread' \in Signal(With(t, Idle), a)

Take(t, e, a, op) ==
    \/ /\ op = "checkout"
       /\ entry' = [entry EXCEPT ![a] = [e EXCEPT !.locked = TRUE]]
       /\ thread' = With(t, State(t, "use", op, a))
    \/ /\ op = "query"
       /\ entry' = [entry EXCEPT ![a] = e]
       /\ thread' \in Signal(With(t, Idle), a)

WaitForEntry(t, e, a, op) ==
    CASE e.awaits               -> Refuse(t, e, a)
      [] ~e.awaits /\ e.locked  -> Sleep(t, e, a, op)
      [] ~e.awaits /\ ~e.locked -> Take(t, e, a, op)

Checkout(t, a) ==
    /\ IsIdle(t)
    /\ WaitForEntry(t, entry[a], a, "checkout")
    /\ UNCHANGED <<scene, sas, allocated, jobs, mutex, added>>

\* hard_expired: the job of the SA has come to the hard limit and is gone, while
\* the SA is still listed because a thread waits to remove it.
HardExpired(a) == entry[a].life # "none" /\ \A j \in jobs : j.id # entry[a].id

\* match_by_spi_dst() and match_by_reqid().
Matches(a, inbound) == entry[a].inbound = inbound /\ ~HardExpired(a)

\* An inbound packet finds its SA by SPI and destination, an outbound packet the
\* latest outbound SA with the reqid of its policy.
ProcessInbound(t) == \E a \in Installed : Matches(a, TRUE) /\ Checkout(t, a)

ProcessOutbound(t) == \E n \in DOMAIN sas :
    /\ Matches(sas[n], FALSE)
    /\ \A m \in 1..(n - 1) : ~Matches(sas[m], FALSE)
    /\ Checkout(t, sas[n])

QueryOrUpdate(t) ==
    /\ IsIdle(t)
    /\ \E a \in Installed : WaitForEntry(t, entry[a], a, "query")
    /\ UNCHANGED <<scene, sas, allocated, jobs, mutex, added>>

WaiterWakes(t) ==
    /\ thread[t].pc = "wait" /\ thread[t].awake /\ mutex = None
    /\ LET a == thread[t].at IN
          WaitForEntry(t, [entry[a] EXCEPT !.waiting = @ - 1], a, thread[t].op)
    /\ UNCHANGED <<scene, sas, allocated, jobs, mutex, added>>

\* The packet is processed; checkin() looks for the SA in the list.
Checkin(t) ==
    /\ thread[t].pc = "use" /\ mutex = None
    /\ LET a == thread[t].at IN
          IF a \in Installed /\ entry[a].locked
          THEN /\ entry' = [entry EXCEPT ![a].locked = FALSE]
               /\ thread' \in Signal(With(t, Idle), a)
          ELSE /\ entry' = entry
               /\ thread' = With(t, Idle)
    /\ UNCHANGED <<scene, sas, allocated, jobs, mutex, added>>

(***************************************************************************)
(* Removing SAs.                                                           *)
(***************************************************************************)
Position(a) == CHOOSE i \in DOMAIN sas : sas[i] = a
Without(a) == RemoveAt(sas, Position(a))

\* A slip: the enumerator is left at the next element, which is then passed over.
Before_Next(a) == IF Position(a) = Len(sas) THEN None ELSE sas[Position(a) + 1]

\* remove_at moves the enumerator back to the element before.
Before(a) == IF Position(a) = 1 THEN None ELSE sas[Position(a) - 1]

\* Where enumerate() moves an enumerator that stands at a, None at the end.
After(a) == LET i == IF a = None THEN 1 ELSE Position(a) + 1
            IN  IF i \in DOMAIN sas THEN sas[i] ELSE None

\* What is left of the removal, by operation, once the entry is out of the list:
\* del_sa frees it after it released the mutex, a flush goes on to the next.
Removed(t, op, a) ==
    /\ sas' = Without(a)
    /\ \/ /\ op = "del"
          /\ entry' = entry
          /\ thread' = With(t, State(t, "free", op, a))
          /\ mutex' = None
       \/ /\ op = "expire"
          /\ entry' = [entry EXCEPT ![a] = Free]
          /\ thread' = With(t, Idle)
          /\ mutex' = None
       \/ /\ op = "flush"
          /\ entry' = [entry EXCEPT ![a] = Free]
          /\ thread' = With(t, [thread[t] EXCEPT !.pc = "flush", !.at = Before(a),
                                                        !.id = 0, !.awake = FALSE])
          /\ mutex' = t

\* A slip: those who wait for the entry are forgotten.
MustDrain_Locked(e) == e.locked

MustDrain(e) == e.locked \/ e.waiting > 0

\* A slip: those who wait for the entry are not woken.
Drain_Silent(t, op, a) ==
    /\ entry' = [entry EXCEPT ![a].awaits = TRUE]
    /\ thread' = With(t, State(t, "drain", op, a))
    /\ mutex' = None
    /\ sas' = sas

\* The two loops of wait_remove_entry: first the user has to check in, then
\* those who wait are sent away.
Drain(t, op, a) ==
    LET Thr == IF entry[a].locked THEN thread ELSE Broadcast(thread, a) IN
    /\ entry' = [entry EXCEPT ![a].awaits = TRUE]
    /\ thread' = [Thr EXCEPT ![t] = State(t, "drain", op, a)]
    /\ mutex' = None
    /\ sas' = sas

WaitRemoveEntry(t, op, a) ==
    IF MustDrain(entry[a]) THEN Drain(t, op, a) ELSE Removed(t, op, a)

\* An entry somebody else removes is left alone: del_sa fails.
DelSa(t) ==
    /\ IsIdle(t)
    /\ \E a \in Installed : ~entry[a].awaits /\ WaitRemoveEntry(t, "del", a)
    /\ UNCHANGED <<scene, allocated, jobs, added>>

RemoverWakes(t) ==
    /\ thread[t].pc = "drain" /\ thread[t].awake /\ mutex = None
    /\ WaitRemoveEntry(t, thread[t].op, thread[t].at)
    /\ UNCHANGED <<scene, allocated, jobs, added>>

DestroyEntry(t) ==
    /\ thread[t].pc = "free"
    /\ entry' = [entry EXCEPT ![thread[t].at] = Free]
    /\ thread' = With(t, Idle)
    /\ UNCHANGED <<scene, sas, allocated, jobs, mutex, added>>

\* A slip: the SPI is not compared.
Hits_AnySpi(j) == j.at \in Installed

\* "only if we find the right SA at this pointer location"
Hits(j) == j.at \in Installed /\ entry[j.at].spi = j.spi

\* A job is rescheduled for the hard limit when it was the soft one.
Reschedule(j) == IF j.hard THEN {} ELSE {[j EXCEPT !.hard = TRUE]}

\* The job finds its SA gone, has the SA rekeyed and waits for the hard limit,
\* leaves the removal to whoever began it, or removes the SA.
SaExpired(t) ==
    /\ IsIdle(t)
    /\ \E j \in jobs :
          /\ jobs' = (jobs \ {j}) \cup (IF Hits(j) THEN Reschedule(j) ELSE {})
          /\ \/ /\ ~Hits(j) \/ ~j.hard \/ entry[j.at].awaits
                /\ UNCHANGED <<sas, entry, thread, mutex>>
             \/ /\ Hits(j) /\ j.hard /\ ~entry[j.at].awaits
                /\ WaitRemoveEntry(t, "expire", j.at)
    /\ UNCHANGED <<scene, allocated, added>>

FlushSas(t) ==
    /\ IsIdle(t)
    /\ sas # <<>>
    /\ thread' = With(t, [Idle EXCEPT !.pc = "flush", !.op = "flush", !.goal = added])
    /\ mutex' = t
    /\ UNCHANGED <<scene, sas, entry, allocated, jobs, added>>

FlushEntry(t) ==
    /\ thread[t].pc = "flush"
    /\ LET a == After(thread[t].at) IN
          \/ /\ a = None
             /\ thread' = With(t, Idle) /\ mutex' = None
             /\ UNCHANGED <<sas, entry>>
          \/ /\ a # None /\ entry[a].awaits
             /\ thread' = [thread EXCEPT ![t].at = a]
             /\ UNCHANGED <<sas, entry, mutex>>
          \/ /\ a # None /\ ~entry[a].awaits
             /\ WaitRemoveEntry(t, "flush", a)
    /\ UNCHANGED <<scene, allocated, jobs, added>>

Next == \E t \in scene.threads :
    \/ GetSpi(t) \/ AddSa(t)
    \/ ProcessInbound(t) \/ ProcessOutbound(t) \/ Checkin(t)
    \/ QueryOrUpdate(t) \/ WaiterWakes(t)
    \/ DelSa(t) \/ RemoverWakes(t) \/ DestroyEntry(t) \/ SaExpired(t)
    \/ FlushSas(t) \/ FlushEntry(t)

Spec == Init /\ [][Next]_vars

\* What a thread does once it is on its way: a packet is processed without waiting
\* for anything else, and a thread that left condvar->wait gets the mutex in the
\* end although others take it again and again.
Proceed(t) == Checkin(t) \/ WaiterWakes(t) \/ RemoverWakes(t) \/ DestroyEntry(t) \/ FlushEntry(t)
FairSpec == Spec /\ \A t \in Threads : SF_vars(Proceed(t))
=============================================================================
