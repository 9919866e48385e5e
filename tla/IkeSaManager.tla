---------------------------- MODULE IkeSaManager ----------------------------
(***************************************************************************)
(* The IKE_SA manager of charon (src/libcharon/sa/ike_sa_manager.c): the   *)
(* table through which the worker threads of the daemon check IKE_SAs out  *)
(* and in, one thread per IKE_SA at a time, and flush() at shutdown.       *)
(*                                                                         *)
(* A step is what a thread does between acquiring a segment mutex and      *)
(* releasing it (or going to sleep in condvar->wait, which releases it).   *)
(* Only threads that keep a mutex across steps (table enumerators, flush)  *)
(* appear in mutex.  The flags driveout_new_threads and                    *)
(* driveout_waiting_threads are always assigned together: they are the one *)
(* variable driveout.  An SA stands for the ike_sa_t, its entry_t and its  *)
(* id; SPIs are random and never used twice, so neither is an SA.          *)
(***************************************************************************)
EXTENDS Integers, FiniteSets, FiniteSetsExt

CONSTANTS
  Threads,      \* worker threads, and the main thread
  Flusher,      \* the main thread, which only runs the daemon's destroy()
  Sas,          \* the IKE_SAs that may come to life (a bound)
  NumSegments,  \* charon.ikesa_table_segments
  Inits,        \* initial messages (IKE_SA_INIT requests) peers send
  MsgIds,       \* message IDs of later messages, none of them 0
  Hosts,        \* the addresses peers have
  Limit,        \* charon.ikesa_limit, 0 for none
  Ops,          \* the operations threads of this instance start
  None

AllOps == {"checkout", "message", "new", "enum", "unique", "contact", "rekey",
           "destroy", "newspi", "flush"}

ASSUME SetsAssumption == /\ IsFiniteSet(Threads) /\ IsFiniteSet(Sas)
                         /\ Flusher \in Threads
                         /\ None \notin Threads \cup Sas \cup Inits \cup Hosts
ASSUME BoundsAssumption == /\ NumSegments \in Nat \ {0} /\ Limit \in Nat
                           /\ MsgIds \subseteq Nat \ {0} /\ Ops \subseteq AllOps

VARIABLES
  \* ike_sa_t and entry_t, by SA
  info,        \* what the SA and its entry record, see NoInfo
  out,         \* entry->checked_out; the creator of an SA without entry yet
  waiting,     \* entry->waiting_threads
  driveout,    \* entry->driveout_{new,waiting}_threads
  \* the tables of the manager
  table,       \* ike_sa_table: the SAs that have an entry in it
  halfOpen,    \* half_open_table: host -> [all, resp], counts
  connected,   \* connected_peers_table: the ids it lists
  initHashes,  \* init_hashes_table: init message -> SA of our_spi, or None
  hashMutex,   \* a thread that never unlocked the init_hashes mutex, or None
  rng,         \* this->rng is not NULL
  mutex,       \* [segment -> the thread that keeps it locked, or None]
  \* threads
  pc,          \* where the thread is
  main, dup,   \* the SA its job works on; a second one it holds meanwhile
  loc,         \* the variables of the operation it is in, see NoLoc
  asleep,      \* the threads inside condvar->wait
  jobs         \* the workers that still take up operations

entryVars  == <<out, waiting, driveout>>
cacheVars  == <<halfOpen, connected, initHashes, hashMutex, rng>>
threadVars == <<pc, main, dup, loc, asleep>>
mgrVars    == <<info, entryVars, table, cacheVars, mutex, threadVars>>
vars       == <<mgrVars, jobs>>

Segments  == 1..NumSegments
EnumOps   == {"byid", "byconfig", "list", "skip"}
UniqueOps == {"auth", "contact"}
SleepPcs  == {"wait", "drain", "respi", "flushwait"}

\* state of the SA ("none" or "dead": there is no such object), its role, the
\* segment the hash of our own SPI selects, entry->processing, the host of a
\* half-open entry, entry->init_hash, and whether entry->my_id is set.
NoInfo == [state |-> "none", role |-> "initiator", seg |-> 1, processing |-> -1,
           half |-> None, hash |-> None, ided |-> FALSE]

\* the operation, the entry it waits for, visits or removes, the message ID
\* it looks for, the SAs an enumeration looks for, the entries still to come
\* in a table row (or the ids in a list), and the rows still to come.
NoLoc  == [op |-> "none", sa |-> None, mid |-> -1, want |-> {}, todo |-> {},
           rows |-> {}]

Init ==
  /\ info       = [e \in Sas |-> NoInfo]
  /\ out        = [e \in Sas |-> None]
  /\ waiting    = [e \in Sas |-> 0]
  /\ driveout   = [e \in Sas |-> FALSE]
  /\ table      = {}
  /\ halfOpen   = [h \in Hosts |-> [all |-> 0, resp |-> 0]]
  /\ connected  = {}
  /\ initHashes = [m \in Inits |-> None]
  /\ hashMutex  = None
  /\ rng        = TRUE
  /\ mutex      = [s \in Segments |-> None]
  /\ pc         = [t \in Threads |-> "idle"]
  /\ main       = [t \in Threads |-> None]
  /\ dup        = [t \in Threads |-> None]
  /\ loc        = [t \in Threads |-> NoLoc]
  /\ asleep     = {}
  /\ jobs       = Threads \ {Flusher}

-----------------------------------------------------------------------------
Row(s)   == {e \in table : info[e].seg = s}
Fresh    == {e \in Sas : info[e].state = "none"}
\* t gets the mutex of the segment of e at once (the mutex is recursive).
Unlocked(t, e) == mutex[info[e].seg] \in {None, t}
Lock(e, t)     == mutex' = [mutex EXCEPT ![info[e].seg] = t]

\* condvar->signal wakes one sleeper, if any; condvar->broadcast wakes all.
Sleepers(e)  == {u \in asleep : pc[u] \in SleepPcs /\ loc[u].sa = e}
Signal(e)    == IF Sleepers(e) = {} THEN {asleep}
                ELSE {asleep \ {u} : u \in Sleepers(e)}
Broadcast(e) == asleep \ Sleepers(e)

\* Worker threads run until the processor has cancelled and joined them.
Idle(t, o) == /\ pc[t] = "idle" /\ o \in Ops
              /\ t \in jobs /\ pc[Flusher] # "destroyed"

Goto(t, p) == pc' = [pc EXCEPT ![t] = p]

\* An operation with variables l that has no SA (any more): check_uniqueness
\* goes on with the next id, any other job is done and its variables are gone.
Back(t, l) ==
  IF l.op \in UniqueOps
  THEN Goto(t, "unique") /\ loc' = [loc EXCEPT ![t] = [l EXCEPT !.sa = None]]
  ELSE Goto(t, "idle") /\ loc' = [loc EXCEPT ![t] = NoLoc]

-----------------------------------------------------------------------------
(***************************************************************************)
(* wait_for_entry, in an operation with variables l of thread t, at entry  *)
(* e; w is 0 on the first evaluation of the loop, and 1 back from          *)
(* condvar->wait.                                                          *)
(***************************************************************************)


\* The entry is being deleted: refused.  A thread that waited signals, as
\* others may wait too (and the thread that drives them out does).
Refused(t, e, w, l) ==
  /\ driveout[e]
  /\ waiting' = [waiting EXCEPT ![e] = @ - w]
  /\ asleep' \in IF w = 1 THEN Signal(e) ELSE {asleep}
  /\ IF l.op \in EnumOps
     THEN Lock(e, t) /\ Goto(t, "leave") /\ loc' = [loc EXCEPT ![t] = [l EXCEPT !.sa = e]]
     ELSE UNCHANGED mutex /\ Back(t, l)
  /\ UNCHANGED <<info, out, main, dup>>

\* A slip: the thread does not register as waiting.
Busy_Uncounted(t, e, w, l) ==
  /\ ~driveout[e] /\ out[e] # None
  /\ asleep' = asleep \cup {t}
  /\ Goto(t, "wait")
  /\ loc' = [loc EXCEPT ![t] = [l EXCEPT !.sa = e]]
  /\ Lock(e, None)
  /\ UNCHANGED <<info, out, main, dup, waiting>>

\* Checked out by a thread: sleep, which releases the mutex of the segment.
Busy(t, e, w, l) ==
  /\ ~driveout[e] /\ out[e] # None
  /\ waiting' = [waiting EXCEPT ![e] = @ + (1 - w)]
  /\ asleep' = asleep \cup {t}
  /\ Goto(t, "wait")
  /\ loc' = [loc EXCEPT ![t] = [l EXCEPT !.sa = e]]
  /\ Lock(e, None)
  /\ UNCHANGED <<info, out, main, dup>>

\* A slip: check_uniqueness does not mark the duplicate as checked out.
Take_Unmarked(t, e, l) ==
  IF l.op \in UniqueOps
  THEN /\ dup' = [dup EXCEPT ![t] = e]
       /\ Goto(t, "dispose")
       /\ loc' = [loc EXCEPT ![t] = [l EXCEPT !.sa = None]]
       /\ UNCHANGED <<main, out>>
  ELSE /\ out'  = [out EXCEPT ![e] = t]
       /\ main' = [main EXCEPT ![t] = e]
       /\ Goto(t, "work")
       /\ loc' = [loc EXCEPT ![t] = NoLoc]
       /\ UNCHANGED dup

\* entry->checked_out = thread_current(), and the caller has the SA.
Take(t, e, l) ==
  /\ out' = [out EXCEPT ![e] = t]
  /\ IF l.op \in UniqueOps
     THEN /\ dup' = [dup EXCEPT ![t] = e]
          /\ Goto(t, "dispose")
          /\ loc' = [loc EXCEPT ![t] = [l EXCEPT !.sa = None]]
          /\ UNCHANGED main
     ELSE /\ main' = [main EXCEPT ![t] = e]
          /\ Goto(t, "work")
          /\ loc' = [loc EXCEPT ![t] = NoLoc]
          /\ UNCHANGED dup

\* checkout, and checkout_by_message, where only fragments leave processing.
Got(t, e, w, l) ==
  /\ ~driveout[e] /\ out[e] = None /\ l.op \notin EnumOps
  /\ Take(t, e, l)
  /\ waiting' = [waiting EXCEPT ![e] = @ - w]
  /\ \/ UNCHANGED info
     \/ l.op = "message" /\ info' = [info EXCEPT ![e].processing = l.mid]
  /\ UNCHANGED <<asleep, mutex>>

\* checkout_by_id, checkout_by_name and checkout_by_config take an entry that
\* matches and destroy the enumerator, which signals once more.
Matches(e, l) == /\ l.op \in {"byid", "byconfig"} /\ e \in l.want
                 /\ l.op = "byconfig" => info[e].state # "deleting"

Found(t, e, w, l) ==
  /\ ~driveout[e] /\ out[e] = None /\ Matches(e, l)
  /\ Take(t, e, l)
  /\ waiting' = [waiting EXCEPT ![e] = @ - w]
  /\ asleep' \in Signal(e)
  /\ Lock(e, None)
  /\ UNCHANGED info

\* An entry that does not match is signalled and left alone; the filters of
\* create_enumerator hand its SA to the caller, under the segment's mutex.
Visit(t, e, w, l) ==
  /\ ~driveout[e] /\ out[e] = None /\ l.op \in EnumOps /\ ~Matches(e, l)
  /\ waiting' = [waiting EXCEPT ![e] = @ - w]
  /\ IF l.op \in {"list", "skip"}
     THEN Goto(t, "visit") /\ UNCHANGED asleep
     ELSE Goto(t, "leave") /\ asleep' \in Signal(e)
  /\ loc' = [loc EXCEPT ![t] = [l EXCEPT !.sa = e]]
  /\ Lock(e, t)
  /\ UNCHANGED <<info, out, main, dup>>

WaitForEntry(t, e, w, l) ==
  /\ Unlocked(t, e)
  /\ \/ Refused(t, e, w, l) \/ Busy(t, e, w, l) \/ Got(t, e, w, l)
     \/ Found(t, e, w, l) \/ Visit(t, e, w, l)
  /\ UNCHANGED <<driveout, table, cacheVars>>

\* Thread t is back from condvar->wait and evaluates the loop again.
Wakes(t) == /\ pc[t] = "wait" /\ t \notin asleep
            /\ WaitForEntry(t, loc[t].sa, 1, loc[t])

-----------------------------------------------------------------------------
\* checkout: by id.
Checkout(t, e) ==
  /\ Idle(t, "checkout") /\ e \in table
  /\ WaitForEntry(t, e, 0, [NoLoc EXCEPT !.op = "checkout"])

\* A new SA, as initiator, that only the calling thread knows.
Create(t, e, st) ==
  /\ \E s \in Segments :
       info' = [info EXCEPT ![e].state = st, ![e].seg = s]
  /\ out' = [out EXCEPT ![e] = t]

\* checkout_new; without an RNG there is no SPI and no SA.
CheckoutNew(t, e) ==
  /\ Idle(t, "new") /\ rng /\ e \in Fresh
  /\ Create(t, e, "created")
  /\ main' = [main EXCEPT ![t] = e]
  /\ Goto(t, "work")
  /\ UNCHANGED <<waiting, driveout, table, cacheVars, mutex, dup, loc, asleep>>

\* A lookup that finds no entry has no effect.
NotFound(t) == Idle(t, "checkout") /\ UNCHANGED mgrVars

(***************************************************************************)
(* checkout_by_message, for an initial message.                            *)
(***************************************************************************)

\* check_and_put_init_hash.  When no SPI can be allocated it returns with the
\* mutex of the table locked.
ReceiveInit(t, m) ==
  /\ Idle(t, "message") /\ hashMutex \in {None, t}
  /\ \/ /\ initHashes[m] # None
        /\ Goto(t, "lookup")
        /\ loc' = [loc EXCEPT ![t].sa = initHashes[m]]
        /\ UNCHANGED <<info, initHashes, hashMutex>>
     \/ /\ initHashes[m] = None /\ rng
        /\ \E e \in Fresh, s \in Segments :
             /\ initHashes' = [initHashes EXCEPT ![m] = e]
             /\ info' = [info EXCEPT ![e].state = "spi", ![e].hash = m,
                                     ![e].seg = s, ![e].role = "responder"]
             /\ loc' = [loc EXCEPT ![t].sa = e]
        /\ Goto(t, "limit")
        /\ UNCHANGED hashMutex
     \/ /\ initHashes[m] = None /\ ~rng
        /\ hashMutex' = t
        /\ UNCHANGED <<pc, loc, info, initHashes>>
  /\ UNCHANGED <<entryVars, table, halfOpen, connected, rng, mutex, main, dup,
                 asleep>>

\* get_count() < ikesa_limit, and the SA can be created.
LimitOk(t) ==
  /\ pc[t] = "limit"
  /\ Limit = 0 \/ Cardinality(table) < Limit
  /\ Goto(t, "put")
  /\ UNCHANGED <<info, entryVars, table, cacheVars, mutex, main, dup, loc, asleep>>

\* A slip: the hash stays in the table when the message is ignored.
ForgetInit_Leak(e) == initHashes' = initHashes

\* remove_init_hash, for a message that is ignored.
ForgetInit(e) == initHashes' = [initHashes EXCEPT ![info[e].hash] = None]

\* Limit reached, or ike_sa_create failed: the message is forgotten again.
LimitHit(t) ==
  /\ pc[t] = "limit" /\ hashMutex \in {None, t}
  /\ ForgetInit(loc[t].sa)
  /\ info' = [info EXCEPT ![loc[t].sa].state = "dead", ![loc[t].sa].hash = None]
  /\ Back(t, NoLoc)
  /\ UNCHANGED <<entryVars, table, halfOpen, connected, hashMutex, rng, mutex,
                 main, dup, asleep>>

\* put_entry of the new SA, checked out by its creator.
PutNew(t) ==
  /\ pc[t] = "put" /\ Unlocked(t, loc[t].sa)
  /\ LET e == loc[t].sa IN
     /\ info'  = [info EXCEPT ![e].state = "created", ![e].processing = 0]
     /\ table' = table \cup {e}
     /\ out'   = [out EXCEPT ![e] = t]
     /\ main'  = [main EXCEPT ![t] = e]
  /\ Goto(t, "work")
  /\ loc' = [loc EXCEPT ![t] = NoLoc]
  /\ UNCHANGED <<waiting, driveout, cacheVars, mutex, dup, asleep>>

\* The retransmit of a known initial message, or a later message with ID i:
\* ignored if there is no such SA, or while it processes such a message.
LookupMessage(t, e, i) ==
  IF e \notin table \/ info[e].processing = i
  THEN /\ Unlocked(t, e)
       /\ Back(t, NoLoc)
       /\ UNCHANGED <<info, entryVars, table, cacheVars, mutex, main, dup, asleep>>
  ELSE WaitForEntry(t, e, 0, [NoLoc EXCEPT !.op = "message", !.mid = i])

ReceiveRetransmit(t) == pc[t] = "lookup" /\ LookupMessage(t, loc[t].sa, 0)

ReceiveMessage(t, e, i) ==
  Idle(t, "message") /\ e \in table /\ LookupMessage(t, e, i)

-----------------------------------------------------------------------------
(***************************************************************************)
(* The table enumerator and its users: checkout_by_id, checkout_by_name,   *)
(* checkout_by_config and create_enumerator (which waits, or skips).  A    *)
(* row is visited in list order; entries are inserted at its head, so one  *)
(* that is put while a thread enumerates is not visited.                   *)
(***************************************************************************)
EnumStart(t, o, ws) ==
  /\ Idle(t, "enum")
  /\ loc' = [loc EXCEPT ![t] = [NoLoc EXCEPT !.op = o, !.want = ws, !.rows = Segments]]
  /\ Goto(t, "enum")
  /\ UNCHANGED <<info, entryVars, table, cacheVars, mutex, main, dup, asleep>>

\* The next row: locked, and kept locked if there is an entry in it.
EnumRow(t) ==
  /\ pc[t] = "enum" /\ loc[t].todo = {} /\ loc[t].rows # {}
  /\ LET s == Min(loc[t].rows) IN
     /\ mutex[s] \in {None, t}
     /\ loc'   = [loc EXCEPT ![t].rows = @ \ {s}, ![t].todo = Row(s)]
     /\ mutex' = [mutex EXCEPT ![s] = IF Row(s) = {} THEN @ ELSE t]
  /\ UNCHANGED <<info, entryVars, table, cacheVars, pc, main, dup, asleep>>

EnumEntry(t, e) ==
  /\ pc[t] = "enum" /\ e \in loc[t].todo
  /\ LET l == [loc[t] EXCEPT !.todo = @ \ {e}] IN
     IF l.op = "skip" /\ (driveout[e] \/ out[e] # None)
     THEN /\ Goto(t, "leave")
          /\ loc' = [loc EXCEPT ![t] = [l EXCEPT !.sa = e]]
          /\ UNCHANGED <<info, entryVars, table, cacheVars, mutex, main, dup, asleep>>
     ELSE WaitForEntry(t, e, 0, l)

\* What enumerate, called again, does for the entry it leaves.
LeaveSignal(e) == Signal(e)

\* enumerate signals the entry it leaves, and unlocks the segment if that was
\* the last entry of the row.
EnumLeave(t) ==
  /\ pc[t] \in {"leave", "visit"}
  /\ asleep' \in LeaveSignal(loc[t].sa)
  /\ Goto(t, "enum")
  /\ loc' = [loc EXCEPT ![t].sa = None]
  /\ IF loc[t].todo = {} THEN Lock(loc[t].sa, None) ELSE UNCHANGED mutex
  /\ UNCHANGED <<info, entryVars, table, cacheVars, main, dup>>

\* All rows seen: checkout_by_config hands out a new SA, the others nothing.
EnumEnd(t) ==
  /\ pc[t] = "enum" /\ loc[t].todo = {} /\ loc[t].rows = {}
  /\ IF loc[t].op = "byconfig" /\ rng /\ Fresh # {}
     THEN /\ \E e \in Fresh : /\ Create(t, e, "created")
                              /\ main' = [main EXCEPT ![t] = e]
          /\ Goto(t, "work")
     ELSE Goto(t, "idle") /\ UNCHANGED <<info, out, main>>
  /\ loc' = [loc EXCEPT ![t] = NoLoc]
  /\ UNCHANGED <<waiting, driveout, table, cacheVars, mutex, dup, asleep>>

-----------------------------------------------------------------------------
(***************************************************************************)
(* Giving an SA back.                                                      *)
(***************************************************************************)

\* The states an SA may have after a thread worked on it.
NextStates(st) ==
  CASE st = "created"     -> {"connecting"}
    [] st = "connecting"  -> {"connecting", "established"}
    [] st = "established" -> {"established", "deleting"}
    [] OTHER              -> {st}

\* A slip: an SA that gets established stays in the table of half-open SAs.
HalfOpenWith_Keep(e, new) ==
  [h \in Hosts |->
     LET n == IF new # None /\ info[e].half # None THEN 0
              ELSE IF h = new THEN 1 ELSE 0
     IN  [all  |-> halfOpen[h].all + n,
          resp |-> halfOpen[h].resp + IF info[e].role = "responder" THEN n ELSE 0]]

\* half_open_table when entry e, counted under its host or not at all, is
\* moved to host new (None if it is not half-open any more).
HalfOpenWith(e, new) ==
  [h \in Hosts |->
     LET n == (IF h = new THEN 1 ELSE 0) - (IF h = info[e].half THEN 1 ELSE 0)
     IN  [all  |-> halfOpen[h].all + n,
          resp |-> halfOpen[h].resp + IF info[e].role = "responder" THEN n ELSE 0]]

\* A slip: any SA is recorded among the connected peers.
FirstTime_AnyState(e, st) == ~info[e].ided

\* Time to record the SA among the connected peers, and to set the ids.
FirstTime(e, st) == st = "established" /\ ~info[e].ided

\* checkin, by thread t, of SA e that now has state st and peer address h: it
\* finds the entry or creates one, updates the table of half-open SAs, and
\* records an established SA among the connected peers, unless uniqueness is
\* to be checked before that (contact).
Checkin(t, e, st, h, contact) ==
  LET first == FirstTime(e, st) /\ ~contact
      new   == IF st = "connecting" THEN h ELSE None IN
  /\ Unlocked(t, e)
  /\ table' = table \cup {e}
  /\ info' = [info EXCEPT ![e].state = st, ![e].processing = -1, ![e].half = new,
                          ![e].ided = @ \/ first]
  /\ halfOpen' = HalfOpenWith(e, new)
  /\ out' = [out EXCEPT ![e] = IF contact THEN t ELSE None]
  /\ asleep' \in IF e \in table THEN Signal(e) ELSE {asleep}
  /\ connected' = IF first THEN connected \cup {e} ELSE connected
  /\ UNCHANGED <<waiting, driveout, initHashes, hashMutex, rng, mutex>>

\* The job is done with its SA.
CheckinMain(t, st, h) ==
  /\ pc[t] = "work"
  /\ st \in NextStates(info[main[t]].state)
  /\ Checkin(t, main[t], st, h, FALSE)
  /\ main' = [main EXCEPT ![t] = None]
  /\ Goto(t, "idle")
  /\ UNCHANGED <<dup, loc>>

\* IKEv1 saw INITIAL_CONTACT: the entry is left checked out, its segment
\* unlocked, and check_uniqueness(TRUE) looks for duplicates.
CheckinContact(t, h) ==
  /\ pc[t] = "work" /\ "contact" \in Ops
  /\ info[main[t]].state = "connecting"
  /\ Checkin(t, main[t], "established", h, TRUE)
  /\ Goto(t, "unique")
  /\ loc' = [loc EXCEPT ![t] = [NoLoc EXCEPT !.op = "contact", !.todo = connected]]
  /\ UNCHANGED <<main, dup>>

\* A slip: the waiting threads are not signalled a second time.
ContactSignal_Silent(e) == {asleep}

\* "We already signaled waiting threads above, we have to do that again".
ContactSignal(e) == Signal(e)

ContactDone(t) ==
  /\ pc[t] = "unique" /\ loc[t].op = "contact" /\ loc[t].todo = {}
  /\ LET e == main[t] IN
     /\ Unlocked(t, e)
     /\ out' = [out EXCEPT ![e] = None]
     /\ asleep' \in ContactSignal(e)
     /\ info' = [info EXCEPT ![e].ided = TRUE]
     /\ connected' = connected \cup {e}
  /\ main' = [main EXCEPT ![t] = None]
  /\ Goto(t, "idle")
  /\ loc' = [loc EXCEPT ![t] = NoLoc]
  /\ UNCHANGED <<waiting, driveout, table, halfOpen, initHashes, hashMutex, rng,
                 mutex, dup>>

(***************************************************************************)
(* check_uniqueness, called for an SA that authenticates a peer: each SA   *)
(* of the snapshot that create_id_enumerator takes of the connected peers  *)
(* is checked out, and kept, deleted or destroyed.                         *)
(***************************************************************************)
UniqueStart(t) ==
  /\ pc[t] = "work" /\ "unique" \in Ops
  /\ info[main[t]].state = "connecting"
  /\ Goto(t, "unique")
  /\ loc' = [loc EXCEPT ![t] = [NoLoc EXCEPT !.op = "auth", !.todo = connected]]
  /\ UNCHANGED <<info, entryVars, table, cacheVars, mutex, main, dup, asleep>>

UniqueNext(t, e) ==
  /\ pc[t] = "unique" /\ e \in loc[t].todo
  /\ LET l == [loc[t] EXCEPT !.todo = @ \ {e}] IN
     IF e \in table
     THEN WaitForEntry(t, e, 0, l)
     ELSE /\ Unlocked(t, e)
          /\ loc' = [loc EXCEPT ![t] = l]
          /\ UNCHANGED <<info, entryVars, table, cacheVars, mutex, pc, main, dup,
                         asleep>>

\* The duplicate is kept, or deletes itself with an exchange of its own.
UniqueCheckin(t, st, h) ==
  /\ pc[t] = "dispose" /\ loc[t].op = "auth"
  /\ st \in NextStates(info[dup[t]].state)
  /\ Checkin(t, dup[t], st, h, FALSE)
  /\ dup' = [dup EXCEPT ![t] = None]
  /\ Goto(t, "unique")
  /\ UNCHANGED <<main, loc>>

UniqueDone(t) ==
  /\ pc[t] = "unique" /\ loc[t].op = "auth" /\ loc[t].todo = {}
  /\ Goto(t, "work")
  /\ loc' = [loc EXCEPT ![t] = NoLoc]
  /\ UNCHANGED <<info, entryVars, table, cacheVars, mutex, main, dup, asleep>>

(***************************************************************************)
(* A job that replaces its SA (rekeying, reauthentication, mobility):      *)
(* checkout_new of the successor, and its checkin, while the old SA is     *)
(* still checked out.                                                      *)
(***************************************************************************)
Rekey(t, e) ==
  /\ pc[t] = "work" /\ "rekey" \in Ops /\ rng /\ e \in Fresh
  /\ info[main[t]].state = "established"
  /\ Create(t, e, "connecting")
  /\ dup' = [dup EXCEPT ![t] = e]
  /\ Goto(t, "rekey")
  /\ UNCHANGED <<waiting, driveout, table, cacheVars, mutex, main, loc, asleep>>

CheckinRekeyed(t, h) ==
  /\ pc[t] = "rekey"
  /\ Checkin(t, dup[t], "established", h, FALSE)
  /\ dup' = [dup EXCEPT ![t] = None]
  /\ Goto(t, "work")
  /\ UNCHANGED <<main, loc>>

-----------------------------------------------------------------------------
(***************************************************************************)
(* Removing an entry: checkin_and_destroy, and new_initiator_spi, which    *)
(* puts it back under another SPI.  Both drive out the waiting threads     *)
(* first.                                                                  *)
(***************************************************************************)

\* The entry leaves the table, and every row that is being enumerated.
Remove(t, e, q) ==
  /\ table'  = table \ {e}
  /\ loc'    = [u \in Threads |-> [loc[u] EXCEPT !.todo = @ \ {e},
                                                 !.sa = IF u = t THEN e ELSE @]]
  /\ Goto(t, q)
  /\ UNCHANGED asleep

\* A slip: the waiting threads are not waited for.
DriveOut_Hasty(t, e, p, q) == Remove(t, e, q)

\* while (entry->waiting_threads) { broadcast; wait }, then remove_entry.
DriveOut(t, e, p, q) ==
  \/ waiting[e] = 0 /\ Remove(t, e, q)
  \/ /\ waiting[e] > 0
     /\ asleep' = Broadcast(e) \cup {t}
     /\ Goto(t, p)
     /\ loc' = [loc EXCEPT ![t].sa = e]
     /\ UNCHANGED table

\* Thread t is done with SA e, its own or the second one it held.
Return(t, e) ==
  IF main[t] = e
  THEN /\ main' = [main EXCEPT ![t] = None]
       /\ Back(t, NoLoc)
       /\ UNCHANGED dup
  ELSE /\ dup' = [dup EXCEPT ![t] = None]
       /\ Goto(t, IF loc[t].op \in UniqueOps THEN "unique" ELSE "work")
       /\ loc' = [loc EXCEPT ![t].sa = None]
       /\ UNCHANGED main

\* The SA a thread may give back now: its own, or the second one it holds.
MayDestroy(t, e) == /\ "destroy" \in Ops
                    /\ \/ pc[t] = "work" /\ e = main[t]
                       \/ pc[t] \in {"dispose", "rekey"} /\ e = dup[t]
                    /\ Unlocked(t, e)

\* checkin_and_destroy of an SA that is in the table.
Destroy(t, e) ==
  /\ MayDestroy(t, e) /\ e \in table
  /\ IF driveout[e]
     THEN \* flush() has been called, and deletes it
          /\ out' = [out EXCEPT ![e] = None]
          /\ asleep' = Broadcast(e)
          /\ Return(t, e)
          /\ UNCHANGED <<driveout, table>>
     ELSE /\ driveout' = [driveout EXCEPT ![e] = TRUE]
          /\ DriveOut(t, e, "drain", "clean")
          /\ UNCHANGED <<out, main, dup>>
  /\ UNCHANGED <<info, waiting, cacheVars, mutex>>

\* checkin_and_destroy of an SA that was never checked in.
DestroyUnknown(t, e) ==
  /\ MayDestroy(t, e) /\ e \notin table
  /\ info' = [info EXCEPT ![e].state = "dead"]
  /\ out'  = [out EXCEPT ![e] = None]
  /\ Return(t, e)
  /\ UNCHANGED <<waiting, driveout, table, cacheVars, mutex, asleep>>

DestroyWakes(t) ==
  /\ pc[t] = "drain" /\ t \notin asleep /\ Unlocked(t, loc[t].sa)
  /\ DriveOut(t, loc[t].sa, "drain", "clean")
  /\ UNCHANGED <<info, entryVars, cacheVars, mutex, main, dup>>

\* A slip: the connected peers are forgotten.
Disconnect_Never(E) == connected' = connected

\* remove_connected_peers
Disconnect(E) == connected' = connected \ {e \in E : info[e].ided}

\* Entries E leave the other tables (remove_half_open, remove_connected_peers,
\* remove_init_hash) and are destroyed.
EntryDestroy(E) ==
  /\ halfOpen' = [h \in Hosts |->
       LET H == {e \in E : info[e].half = h} IN
       [all  |-> halfOpen[h].all - Cardinality(H),
        resp |-> halfOpen[h].resp - Cardinality({e \in H : info[e].role = "responder"})]]
  /\ Disconnect(E)
  /\ initHashes' = [m \in Inits |->
       IF \E e \in E : info[e].hash = m THEN None ELSE initHashes[m]]
  /\ info' = [e \in Sas |-> IF e \in E
                THEN [NoInfo EXCEPT !.state = "dead", !.seg = info[e].seg] ELSE info[e]]
  /\ out'  = [e \in Sas |-> IF e \in E THEN None ELSE out[e]]

\* checkin_and_destroy, after it has unlocked the segment.  The three tables are
\* left one after the other, each under its own lock; they are one step here,
\* as only this thread still knows the entry and none decides by two of them.
DestroyClean(t) ==
  /\ pc[t] = "clean" /\ (info[loc[t].sa].hash # None => hashMutex \in {None, t})
  /\ EntryDestroy({loc[t].sa})
  /\ Return(t, loc[t].sa)
  /\ UNCHANGED <<waiting, driveout, table, hashMutex, rng, mutex, asleep>>

\* new_initiator_spi; nothing happens if flush() drives out threads already.
NewInitiatorSpi(t) ==
  /\ pc[t] = "work" /\ "newspi" \in Ops /\ rng
  /\ LET e == main[t] IN
     /\ info[e].state = "connecting" /\ info[e].role = "initiator"
     /\ e \in table /\ Unlocked(t, e) /\ ~driveout[e]
     /\ driveout' = [driveout EXCEPT ![e] = TRUE]
     /\ DriveOut(t, e, "respi", "moved")
  /\ UNCHANGED <<info, out, waiting, cacheVars, mutex, main, dup>>

NewSpiWakes(t) ==
  /\ pc[t] = "respi" /\ t \notin asleep /\ Unlocked(t, loc[t].sa)
  /\ DriveOut(t, loc[t].sa, "respi", "moved")
  /\ UNCHANGED <<info, entryVars, cacheVars, mutex, main, dup>>

\* The entry gets the new SPI and goes back into the table, checked out still.
NewSpiPut(t, s) ==
  /\ pc[t] = "moved" /\ mutex[s] \in {None, t}
  /\ LET e == loc[t].sa IN
     /\ info' = [info EXCEPT ![e].seg = s]
     /\ driveout' = [driveout EXCEPT ![e] = FALSE]
     /\ table' = table \cup {e}
  /\ Goto(t, "work")
  /\ loc' = [loc EXCEPT ![t] = NoLoc]
  /\ UNCHANGED <<out, waiting, cacheVars, mutex, main, dup, asleep>>

-----------------------------------------------------------------------------
(***************************************************************************)
(* Shutdown: daemon.c destroy() has the workers end after the job they are *)
(* executing, runs flush() meanwhile, joins them and destroys the manager. *)
(***************************************************************************)

\* processor->set_threads(0): a worker that has an SA ends with it; one that
\* has just fetched a job from the queue begins the operation of that job.
FlushStart(t) ==
  /\ t = Flusher /\ pc[t] = "idle" /\ "flush" \in Ops
  /\ Goto(t, "lockall")
  /\ loc' = [loc EXCEPT ![t].rows = Segments]
  /\ jobs' = {u \in jobs : pc[u] = "idle"}
  /\ UNCHANGED <<info, entryVars, table, cacheVars, mutex, main, dup, asleep>>

\* lock_all_segments, one after the other; with the last, step 1: all entries
\* drive out the threads.
FlushLock(t) ==
  /\ pc[t] = "lockall"
  /\ LET s    == Min(loc[t].rows)
         last == loc[t].rows = {s} IN
     /\ mutex[s] = None
     /\ mutex' = [mutex EXCEPT ![s] = t]
     /\ loc' = [loc EXCEPT ![t].rows = @ \ {s}, ![t].todo = IF last THEN table ELSE {}]
     /\ driveout' = [e \in Sas |-> driveout[e] \/ (last /\ e \in table)]
     /\ Goto(t, IF last THEN "drainall" ELSE "lockall")
  /\ UNCHANGED <<info, out, waiting, table, cacheVars, main, dup, asleep>>

\* A slip: flush does not wait for the thread that has the SA.
FlushMustWait_Out(e) == waiting[e] > 0

FlushMustWait(e) == waiting[e] > 0 \/ out[e] # None

\* Step 2: wait, entry by entry, until all threads are gone.  condvar->wait
\* releases the segment of the entry; the other segments stay locked.
FlushEntry(t, e) ==
  /\ pc[t] = "drainall" /\ e \in loc[t].todo
  /\ \A f \in loc[t].todo : info[e].seg <= info[f].seg
  /\ IF FlushMustWait(e)
     THEN /\ asleep' = Broadcast(e) \cup {t}
          /\ Goto(t, "flushwait")
          /\ loc' = [loc EXCEPT ![t].sa = e]
          /\ Lock(e, None)
     ELSE /\ loc' = [loc EXCEPT ![t].todo = @ \ {e}]
          /\ asleep' \in Signal(e)
          /\ UNCHANGED <<pc, mutex>>
  /\ UNCHANGED <<info, entryVars, table, cacheVars, main, dup>>

FlushWakes(t) ==
  /\ pc[t] = "flushwait" /\ t \notin asleep /\ Unlocked(t, loc[t].sa)
  /\ Lock(loc[t].sa, t)
  /\ Goto(t, "drainall")
  /\ loc' = [loc EXCEPT ![t].sa = None]
  /\ UNCHANGED <<info, entryVars, table, cacheVars, main, dup, asleep>>

\* Steps 3 and 4: all entries are deleted and destroyed, the segments unlocked.
FlushDestroy(t) ==
  /\ pc[t] = "drainall" /\ loc[t].todo = {} /\ hashMutex \in {None, t}
  /\ EntryDestroy(table)
  /\ table' = {}
  /\ mutex' = [s \in Segments |-> None]
  /\ Goto(t, "norng")
  /\ UNCHANGED <<waiting, driveout, hashMutex, rng, main, dup, loc, asleep>>

FlushRng(t) ==
  /\ pc[t] = "norng"
  /\ rng' = FALSE
  /\ Goto(t, "flushed")
  /\ UNCHANGED <<info, entryVars, table, halfOpen, connected, initHashes,
                 hashMutex, mutex, main, dup, loc, asleep>>

\* processor->cancel has joined the threads: destroy() of the manager removes
\* the SAs that were checked in after flush().
ManagerDestroy(t) ==
  /\ pc[t] = "flushed" /\ \A u \in Threads \ {t} : pc[u] = "idle"
  /\ EntryDestroy(table)
  /\ table' = {}
  /\ Goto(t, "destroyed")
  /\ UNCHANGED <<waiting, driveout, hashMutex, rng, mutex, main, dup, loc, asleep>>

-----------------------------------------------------------------------------
\* A worker takes up a job, its last one when the daemon is shutting down.
Begin(t) ==
  /\ jobs' = IF pc[Flusher] = "idle" THEN jobs ELSE jobs \ {t}
  /\ \/ NotFound(t)
     \/ \E e \in Sas : Checkout(t, e) \/ CheckoutNew(t, e)
     \/ \E e \in Sas, i \in MsgIds : ReceiveMessage(t, e, i)
     \/ \E m \in Inits : ReceiveInit(t, m)
     \/ \E e \in Sas : EnumStart(t, "byid", {e})
     \/ EnumStart(t, "byconfig", Sas) \/ EnumStart(t, "list", {}) \/ EnumStart(t, "skip", {})

\* A job that has an SA needs the manager for something else.
Nested(t) ==
  /\ UniqueStart(t) \/ NewInitiatorSpi(t) \/ \E e \in Sas : Rekey(t, e)
  /\ UNCHANGED jobs

\* A job gives an SA back.
End(t) ==
  /\ \/ \E e \in Sas : Destroy(t, e) \/ DestroyUnknown(t, e)
     \/ \E h \in Hosts : CheckinContact(t, h) \/ CheckinRekeyed(t, h)
     \/ \E st \in {"connecting", "established", "deleting"}, h \in Hosts :
          CheckinMain(t, st, h) \/ UniqueCheckin(t, st, h)
  /\ UNCHANGED jobs

\* An operation of the manager goes on.
Inner(t) ==
  /\ \/ Wakes(t) \/ ReceiveRetransmit(t) \/ LimitOk(t) \/ LimitHit(t) \/ PutNew(t)
     \/ EnumRow(t) \/ EnumLeave(t) \/ EnumEnd(t)
     \/ UniqueDone(t) \/ ContactDone(t)
     \/ DestroyWakes(t) \/ DestroyClean(t) \/ NewSpiWakes(t)
     \/ \E e \in Sas : EnumEntry(t, e) \/ UniqueNext(t, e) \/ FlushEntry(t, e)
     \/ \E s \in Segments : NewSpiPut(t, s)
     \/ FlushLock(t) \/ FlushWakes(t) \/ FlushDestroy(t) \/ FlushRng(t)
     \/ ManagerDestroy(t)
  /\ UNCHANGED jobs

Next == \E t \in Threads : FlushStart(t) \/ Begin(t) \/ Nested(t) \/ Inner(t) \/ End(t)

(***************************************************************************)
(* A thread inside an operation of the manager goes on until it has to     *)
(* wait; a mutex that is released again and again is not withheld from a   *)
(* thread forever; and a job that has an SA ends with its checkin or       *)
(* destruction, whatever else it does before that.  The last two are why   *)
(* strong fairness is assumed.                                             *)
(***************************************************************************)
Fairness == \A t \in Threads : SF_vars(Inner(t)) /\ SF_vars(End(t))

Spec     == Init /\ [][Next]_vars
FairSpec == Spec /\ Fairness

=============================================================================
