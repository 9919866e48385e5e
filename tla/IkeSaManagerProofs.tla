------------------------- MODULE IkeSaManagerProofs -------------------------
(***************************************************************************)
(* The IKE_SA manager, for any number of threads, SAs, segments, hosts and *)
(* messages.  Shutdown included, the variables keep their types, and       *)
(* counting is exact: entry->waiting_threads, and the half-open SAs of a   *)
(* host.  That the counters are natural numbers follows from what they     *)
(* count.                                                                  *)
(*                                                                         *)
(* As long as the daemon runs, an IKE_SA is used by one thread at a time,  *)
(* no entry disappears under a thread, no wakeup is lost, nobody waits in  *)
(* a circle, the tables agree, and the manager implements the registry.    *)
(* Shutdown is left out of these on purpose: once flush() has begun        *)
(* exclusive use is violated.  Of the shutdown itself: it leaves nothing   *)
(* behind.                                                                 *)
(***************************************************************************)
EXTENDS IkeSaManagerProps, FiniteSetTheorems, TLAPS

\* TypeOK with the counters as integers.
LooseType ==
  /\ info       \in [Sas -> Infos]
  /\ out        \in [Sas -> Threads \cup {None}]
  /\ waiting    \in [Sas -> Int]
  /\ driveout   \in [Sas -> BOOLEAN]
  /\ table      \in SUBSET Sas
  /\ halfOpen   \in [Hosts -> [all : Int, resp : Int]]
  /\ connected  \in SUBSET Sas
  /\ initHashes \in [Inits -> Sas \cup {None}]
  /\ hashMutex  \in Threads \cup {None}
  /\ rng        \in BOOLEAN
  /\ mutex      \in [Segments -> Threads \cup {None}]
  /\ pc         \in [Threads -> Pcs]
  /\ main       \in [Threads -> Sas \cup {None}]
  /\ dup        \in [Threads -> Sas \cup {None}]
  /\ loc        \in [Threads -> Locs]
  /\ asleep     \in SUBSET Threads
  /\ jobs       \in SUBSET Threads

\* What an operation in progress refers to exists: the entry it is at, the SA
\* of the job it serves, and the second one.
SaPcs   == {"wait", "lookup", "limit", "put", "visit", "leave", "drain", "clean",
            "respi", "moved", "flushwait"}
MainPcs == {"work", "unique", "dispose", "rekey", "drain", "clean", "respi", "moved"}
Pointers ==
  \A t \in Threads :
    /\ pc[t] \in SaPcs => loc[t].sa \in Sas
    /\ pc[t] \in MainPcs => main[t] \in Sas
    /\ pc[t] = "wait" /\ loc[t].op \in UniqueOps => main[t] \in Sas
    /\ pc[t] \in {"dispose", "rekey"} => dup[t] \in Sas
    /\ pc[t] \in {"enum", "visit", "leave"} => loc[t].op \in EnumOps

LEMMA InitType == Init => LooseType
<1> SUFFICES ASSUME Init PROVE LooseType
  OBVIOUS
<1>1. NoInfo \in Infos
  BY BoundsAssumption DEF NoInfo, Infos, SaStates, Segments
<1>2. NoLoc \in Locs
  BY DEF NoLoc, Locs
<1> QED BY <1>1, <1>2, SetsAssumption DEF Init, LooseType, Pcs

\* Which threads sleep only ever changes within Threads.
LEMMA SignalType ==
  ASSUME NEW e, NEW s \in Signal(e), asleep \subseteq Threads
  PROVE  s \subseteq Threads
BY DEF Signal, Sleepers

\* Records stay records of their kind when a field is changed.
LEMMA InfoEdit ==
  ASSUME NEW r \in Infos
  PROVE  /\ \A x \in SaStates : [r EXCEPT !.state = x] \in Infos
         /\ \A x \in Segments : [r EXCEPT !.seg = x] \in Infos
         /\ \A x \in {-1, 0} \cup MsgIds : [r EXCEPT !.processing = x] \in Infos
         /\ \A x \in Hosts \cup {None} : [r EXCEPT !.half = x] \in Infos
         /\ \A x \in Inits \cup {None} : [r EXCEPT !.hash = x] \in Infos
         /\ \A x \in BOOLEAN : [r EXCEPT !.ided = x] \in Infos
         /\ [r EXCEPT !.role = "responder"] \in Infos
         /\ NoInfo \in Infos
<1>1. NoInfo \in Infos
  BY BoundsAssumption DEF NoInfo, Infos, SaStates, Segments
<1> QED BY <1>1 DEF Infos

LEMMA LocEdit ==
  ASSUME NEW l \in Locs
  PROVE  /\ \A x \in Sas \cup {None} : [l EXCEPT !.sa = x] \in Locs
         /\ \A x \in SUBSET Sas : [l EXCEPT !.todo = x] \in Locs
         /\ \A x \in SUBSET Segments : [l EXCEPT !.rows = x] \in Locs
         /\ NoLoc \in Locs
BY DEF Locs, NoLoc

\* An operation outside of check_uniqueness ends its job.
LEMMA BackIdle ==
  ASSUME NEW t, Back(t, NoLoc)
  PROVE  Goto(t, "idle") /\ loc' = [loc EXCEPT ![t] = NoLoc]
<1>1. NoLoc.op \notin UniqueOps
  BY DEF NoLoc, UniqueOps
<1> QED BY <1>1 DEF Back

LEMMA TakeType ==
  ASSUME LooseType, NEW t \in Threads, NEW e \in Sas, NEW l \in Locs, Take(t, e, l)
  PROVE  /\ out' \in [Sas -> Threads \cup {None}]
         /\ main' \in [Threads -> Sas \cup {None}]
         /\ dup' \in [Threads -> Sas \cup {None}]
         /\ pc' \in [Threads -> Pcs]
         /\ loc' \in [Threads -> Locs]
<1>1. NoLoc \in Locs /\ [l EXCEPT !.sa = None] \in Locs
  BY LocEdit
<1>2. CASE l.op \in UniqueOps
  BY <1>1, <1>2 DEF Take, Goto, LooseType, Pcs
<1>3. CASE l.op \notin UniqueOps
  BY <1>1, <1>3 DEF Take, Goto, LooseType, Pcs
<1> QED BY <1>2, <1>3

\* One step of wait_for_entry.
LEMMA WaitForEntryType ==
  ASSUME LooseType, NEW t \in Threads, NEW e \in Sas, NEW w \in {0, 1},
         NEW l \in Locs, WaitForEntry(t, e, w, l), jobs' \in SUBSET Threads
  PROVE  LooseType'
<1>0. NoLoc \in Locs /\ [l EXCEPT !.sa = e] \in Locs /\ [l EXCEPT !.sa = None] \in Locs
  BY LocEdit
<1>1. asleep' \subseteq Threads
  BY SignalType DEF WaitForEntry, Refused, Busy, Got, Found, Visit, LooseType
<1>2. CASE Refused(t, e, w, l)
  BY <1>0, <1>1, <1>2 DEF WaitForEntry, Refused, LooseType, Lock, Goto, Back, Pcs, cacheVars
<1>3. CASE Busy(t, e, w, l)
  <2>1. waiting' \in [Sas -> Int]
    BY <1>3 DEF Busy, LooseType
  <2> QED BY <1>0, <1>1, <1>3, <2>1 DEF WaitForEntry, Busy, LooseType, Lock, Goto, Pcs, cacheVars
<1>4. CASE Got(t, e, w, l)
  <2>1. info' \in [Sas -> Infos]
    <3>1. [info[e] EXCEPT !.processing = l.mid] \in Infos
      BY InfoEdit DEF LooseType, Locs
    <3> QED BY <1>4, <3>1 DEF Got, LooseType
  <2>2. Take(t, e, l)
    BY <1>4 DEF Got
  <2>5. waiting' \in [Sas -> Int]
    BY <1>4 DEF Got, LooseType
  <2>6. UNCHANGED <<mutex, driveout, table, cacheVars>>
    BY <1>4 DEF Got, WaitForEntry
  <2> QED BY <1>1, <2>1, <2>2, <2>5, <2>6, TakeType DEF LooseType, cacheVars
<1>5. CASE Found(t, e, w, l)
  <2>2. Take(t, e, l)
    BY <1>5 DEF Found
  <2>4. mutex' \in [Segments -> Threads \cup {None}]
    BY <1>5 DEF Found, LooseType, Lock
  <2>5. waiting' \in [Sas -> Int]
    BY <1>5 DEF Found, LooseType
  <2>6. UNCHANGED <<info, driveout, table, cacheVars>>
    BY <1>5 DEF Found, WaitForEntry
  <2> QED BY <1>1, <2>2, <2>4, <2>5, <2>6, TakeType DEF LooseType, cacheVars
<1>6. CASE Visit(t, e, w, l)
  <2>3. pc' \in [Threads -> Pcs] /\ loc' \in [Threads -> Locs]
    BY <1>0, <1>6 DEF Visit, Goto, LooseType, Pcs
  <2>4. mutex' \in [Segments -> Threads \cup {None}]
    BY <1>6 DEF Visit, LooseType, Lock
  <2>5. waiting' \in [Sas -> Int]
    BY <1>6 DEF Visit, LooseType
  <2>6. UNCHANGED <<info, out, main, dup, driveout, table, cacheVars>>
    BY <1>6 DEF Visit, WaitForEntry
  <2> QED BY <1>1, <2>3, <2>4, <2>5, <2>6 DEF LooseType, cacheVars
<1> QED BY <1>2, <1>3, <1>4, <1>5, <1>6 DEF WaitForEntry

\* checkin of e.
LEMMA CheckinType ==
  ASSUME LooseType, NEW t \in Threads, NEW e \in Sas, NEW st \in SaStates,
         NEW h \in Hosts, NEW contact \in BOOLEAN, Checkin(t, e, st, h, contact)
  PROVE  /\ info' \in [Sas -> Infos]
         /\ out' \in [Sas -> Threads \cup {None}]
         /\ table' \in SUBSET Sas
         /\ halfOpen' \in [Hosts -> [all : Int, resp : Int]]
         /\ connected' \in SUBSET Sas
         /\ asleep' \in SUBSET Threads
         /\ UNCHANGED <<waiting, driveout, initHashes, hashMutex, rng, mutex>>
<1> DEFINE first == FirstTime(e, st) /\ ~contact
           new   == IF st = "connecting" THEN h ELSE None
           edit  == [info[e] EXCEPT !.state = st, !.processing = -1, !.half = new,
                                    !.ided = @ \/ first]
<1>1. edit \in Infos
  <2>1. first \in BOOLEAN /\ new \in Hosts \cup {None} /\ info[e] \in Infos
    BY DEF LooseType, FirstTime
  <2> HIDE DEF first, new
  <2>2. (info[e].ided \/ first) \in BOOLEAN
    BY <2>1
  <2> QED BY <2>1, <2>2 DEF Infos
<1>2. info' = [info EXCEPT ![e] = edit]
  BY DEF Checkin
<1>3. info' \in [Sas -> Infos]
  <2> HIDE DEF edit
  <2> QED BY <1>1, <1>2 DEF LooseType
<1>4. halfOpen' \in [Hosts -> [all : Int, resp : Int]]
  BY DEF Checkin, HalfOpenWith, LooseType
<1>5. out' \in [Sas -> Threads \cup {None}]
  BY DEF Checkin, LooseType
<1>6. table' \in SUBSET Sas /\ connected' \in SUBSET Sas
  BY DEF Checkin, LooseType
<1>7. asleep' \in SUBSET Threads
  BY SignalType DEF Checkin, LooseType
<1>8. UNCHANGED <<waiting, driveout, initHashes, hashMutex, rng, mutex>>
  BY DEF Checkin
<1> QED BY <1>3, <1>4, <1>5, <1>6, <1>7, <1>8

\* Giving an SA up.
LEMMA ReturnType ==
  ASSUME LooseType, NEW t \in Threads, NEW e \in Sas, Return(t, e)
  PROVE  /\ main' \in [Threads -> Sas \cup {None}]
         /\ dup' \in [Threads -> Sas \cup {None}]
         /\ pc' \in [Threads -> Pcs]
         /\ loc' \in [Threads -> Locs]
<1>1. NoLoc \in Locs /\ [loc[t] EXCEPT !.sa = None] \in Locs
  BY LocEdit DEF LooseType
<1>2. CASE main[t] = e
  BY <1>1, <1>2 DEF Return, Back, Goto, LooseType, Pcs, NoLoc, UniqueOps
<1>3. CASE main[t] # e
  BY <1>1, <1>3 DEF Return, Goto, LooseType, Pcs
<1> QED BY <1>2, <1>3

\* Driving out the waiting threads, and removing the entry.
LEMMA DriveOutType ==
  ASSUME LooseType, NEW t \in Threads, NEW e \in Sas, NEW p \in Pcs, NEW q \in Pcs,
         DriveOut(t, e, p, q)
  PROVE  /\ pc' \in [Threads -> Pcs]
         /\ loc' \in [Threads -> Locs]
         /\ table' \in SUBSET Sas
         /\ asleep' \in SUBSET Threads
<1>1. CASE Remove(t, e, q)
  <2>1. ASSUME NEW u \in Threads
        PROVE  [loc[u] EXCEPT !.todo = @ \ {e}, !.sa = IF u = t THEN e ELSE @] \in Locs
    BY DEF LooseType, Locs
  <2>2. loc' \in [Threads -> Locs]
    BY <1>1, <2>1 DEF Remove
  <2> QED BY <1>1, <2>2 DEF Remove, Goto, LooseType
<1>2. CASE /\ asleep' = Broadcast(e) \cup {t}
           /\ Goto(t, p) /\ loc' = [loc EXCEPT ![t].sa = e] /\ UNCHANGED table
  <2>1. [loc[t] EXCEPT !.sa = e] \in Locs
    BY LocEdit DEF LooseType
  <2>2. loc' \in [Threads -> Locs]
    BY <1>2, <2>1 DEF LooseType
  <2> QED BY <1>2, <2>2 DEF Goto, LooseType, Broadcast
<1> QED BY <1>1, <1>2 DEF DriveOut

\* Destroying entries.
LEMMA EntryDestroyType ==
  ASSUME LooseType, NEW E \in SUBSET Sas, EntryDestroy(E)
  PROVE  /\ halfOpen' \in [Hosts -> [all : Int, resp : Int]]
         /\ connected' \in SUBSET Sas
         /\ initHashes' \in [Inits -> Sas \cup {None}]
         /\ info' \in [Sas -> Infos]
         /\ out' \in [Sas -> Threads \cup {None}]
<1>1. ASSUME NEW X \in SUBSET Sas PROVE Cardinality(X) \in Int
  BY FS_Subset, FS_CardinalityType, SetsAssumption
<1>2. halfOpen' \in [Hosts -> [all : Int, resp : Int]]
  <2> SUFFICES ASSUME NEW h \in Hosts
      PROVE LET H == {e \in E : info[e].half = h} IN
       [all  |-> halfOpen[h].all - Cardinality(H),
        resp |-> halfOpen[h].resp - Cardinality({e \in H : info[e].role = "responder"})]
         \in [all : Int, resp : Int]
    BY DEF EntryDestroy
  <2>1. Cardinality({e \in E : info[e].half = h}) \in Int
    BY <1>1
  <2>2. Cardinality({e \in {x \in E : info[x].half = h} : info[e].role = "responder"}) \in Int
    BY <1>1
  <2> QED BY <2>1, <2>2 DEF LooseType
<1>3. connected' \in SUBSET Sas
  BY DEF EntryDestroy, Disconnect, LooseType
<1>4. initHashes' \in [Inits -> Sas \cup {None}]
  BY DEF EntryDestroy, LooseType
<1>5. out' \in [Sas -> Threads \cup {None}]
  BY DEF EntryDestroy, LooseType
<1>6. info' \in [Sas -> Infos]
  <2>1. ASSUME NEW e \in Sas
        PROVE  [NoInfo EXCEPT !.state = "dead", !.seg = info[e].seg] \in Infos
    BY BoundsAssumption DEF LooseType, Infos, NoInfo, SaStates
  <2> QED BY <2>1 DEF EntryDestroy, LooseType
<1> QED BY <1>2, <1>3, <1>4, <1>5, <1>6

\* A new SA.
LEMMA CreateType ==
  ASSUME LooseType, NEW t, NEW e \in Sas, NEW st \in SaStates, Create(t, e, st)
  PROVE  info' \in [Sas -> Infos]
<1>1. PICK s \in Segments : info' = [info EXCEPT ![e].state = st, ![e].seg = s]
  BY DEF Create
<1>2. [info[e] EXCEPT !.state = st, !.seg = s] \in Infos
  <2>1. info[e] \in Infos
    BY DEF LooseType
  <2> QED BY <2>1 DEF Infos
<1> QED BY <1>1, <1>2 DEF LooseType

\* A message for an SA.
LEMMA LookupType ==
  ASSUME LooseType, NEW t \in Threads, NEW e \in Sas, NEW i \in {0} \cup MsgIds,
         LookupMessage(t, e, i), jobs' \in SUBSET Threads
  PROVE  LooseType'
<1>1. [NoLoc EXCEPT !.op = "message", !.mid = i] \in Locs /\ NoLoc \in Locs
  BY DEF Locs, NoLoc
<1>2. CASE e \notin table \/ info[e].processing = i
  BY <1>1, <1>2 DEF LookupMessage, Back, Goto, NoLoc, UniqueOps, Pcs, LooseType,
                    entryVars, cacheVars
<1>3. CASE ~(e \notin table \/ info[e].processing = i)
  BY <1>1, <1>3, WaitForEntryType DEF LookupMessage
<1> QED BY <1>2, <1>3

\* A worker takes up a job.
LEMMA BeginType ==
  ASSUME LooseType, Pointers, NEW t \in Threads, Begin(t)
  PROVE  LooseType'
<1>0. jobs' \in SUBSET Threads /\ NoLoc \in Locs
  BY DEF Begin, LooseType, Locs, NoLoc
<1>1. CASE NotFound(t)
  BY <1>0, <1>1 DEF NotFound, mgrVars, entryVars, cacheVars, threadVars, LooseType
<1>2. ASSUME NEW e \in Sas, Checkout(t, e) PROVE LooseType'
  <2>1. [NoLoc EXCEPT !.op = "checkout"] \in Locs
    BY DEF Locs, NoLoc
  <2>2. WaitForEntry(t, e, 0, [NoLoc EXCEPT !.op = "checkout"])
    BY <1>2 DEF Checkout
  <2> QED BY <1>0, <2>1, <2>2, WaitForEntryType
<1>3. ASSUME NEW e \in Sas, CheckoutNew(t, e) PROVE LooseType'
  <2>1. info' \in [Sas -> Infos]
    BY <1>3, CreateType DEF CheckoutNew, SaStates
  <2> QED BY <1>0, <1>3, <2>1 DEF CheckoutNew, Create, Goto, Pcs, LooseType, cacheVars
<1>4. ASSUME NEW e \in Sas, NEW i \in MsgIds, ReceiveMessage(t, e, i) PROVE LooseType'
  BY <1>0, <1>4, LookupType DEF ReceiveMessage
<1>5. ASSUME NEW m \in Inits, ReceiveInit(t, m) PROVE LooseType'
  <2>0. UNCHANGED <<entryVars, table, halfOpen, connected, rng, mutex, main, dup, asleep>>
    BY <1>5 DEF ReceiveInit
  <2>1. CASE /\ initHashes[m] # None
             /\ Goto(t, "lookup")
             /\ loc' = [loc EXCEPT ![t].sa = initHashes[m]]
             /\ UNCHANGED <<info, initHashes, hashMutex>>
    <3>1. [loc[t] EXCEPT !.sa = initHashes[m]] \in Locs
      BY LocEdit DEF LooseType
    <3>2. loc' \in [Threads -> Locs]
      BY <2>1, <3>1 DEF LooseType
    <3> QED BY <1>0, <2>0, <2>1, <3>2 DEF entryVars, Goto, Pcs, LooseType
  <2>2. CASE /\ rng
             /\ \E e \in Fresh, s \in Segments :
                  /\ initHashes' = [initHashes EXCEPT ![m] = e]
                  /\ info' = [info EXCEPT ![e].state = "spi", ![e].hash = m,
                                          ![e].seg = s, ![e].role = "responder"]
                  /\ loc' = [loc EXCEPT ![t].sa = e]
             /\ Goto(t, "limit")
             /\ UNCHANGED hashMutex
    <3>1. PICK e \in Sas, s \in Segments :
                  /\ initHashes' = [initHashes EXCEPT ![m] = e]
                  /\ info' = [info EXCEPT ![e].state = "spi", ![e].hash = m,
                                          ![e].seg = s, ![e].role = "responder"]
                  /\ loc' = [loc EXCEPT ![t].sa = e]
      BY <2>2 DEF Fresh
    <3>2. [info[e] EXCEPT !.state = "spi", !.hash = m, !.seg = s, !.role = "responder"] \in Infos
      <4>1. info[e] \in Infos
        BY DEF LooseType
      <4> QED BY <4>1 DEF Infos, SaStates
    <3>3. info' \in [Sas -> Infos]
      BY <3>1, <3>2 DEF LooseType
    <3>4. [loc[t] EXCEPT !.sa = e] \in Locs
      BY LocEdit DEF LooseType
    <3>5. loc' \in [Threads -> Locs] /\ initHashes' \in [Inits -> Sas \cup {None}]
      BY <3>1, <3>4 DEF LooseType
    <3> QED BY <1>0, <2>0, <2>2, <3>3, <3>5 DEF entryVars, Goto, Pcs, LooseType
  <2>3. CASE hashMutex' = t /\ UNCHANGED <<pc, loc, info, initHashes>>
    BY <1>0, <2>0, <2>3 DEF entryVars, LooseType
  <2> QED BY <1>5, <2>1, <2>2, <2>3 DEF ReceiveInit
<1>6. ASSUME NEW o \in EnumOps, NEW ws \in SUBSET Sas, EnumStart(t, o, ws) PROVE LooseType'
  <2>1. loc' \in [Threads -> Locs]
    BY <1>6 DEF EnumStart, LooseType, Locs, NoLoc
  <2> QED BY <1>0, <1>6, <2>1 DEF EnumStart, Goto, Pcs, LooseType, entryVars, cacheVars
<1>7. ASSUME \/ \E e \in Sas : EnumStart(t, "byid", {e})
             \/ EnumStart(t, "byconfig", Sas) \/ EnumStart(t, "list", {}) \/ EnumStart(t, "skip", {})
      PROVE  LooseType'
  <2>1. ASSUME NEW e \in Sas, EnumStart(t, "byid", {e}) PROVE LooseType'
    BY <1>6, <2>1 DEF EnumOps
  <2>2. ASSUME EnumStart(t, "byconfig", Sas) PROVE LooseType'
    BY <1>6, <2>2 DEF EnumOps
  <2>3. ASSUME EnumStart(t, "list", {}) \/ EnumStart(t, "skip", {}) PROVE LooseType'
    BY <1>6, <2>3 DEF EnumOps
  <2> QED BY <1>7, <2>1, <2>2, <2>3
<1> QED BY <1>1, <1>2, <1>3, <1>4, <1>5, <1>7 DEF Begin

\* A job that has an SA needs the manager for something else.
LEMMA NestedType ==
  ASSUME LooseType, Pointers, NEW t \in Threads, Nested(t)
  PROVE  LooseType'
<1>0. UNCHANGED jobs
  BY DEF Nested
<1>1. CASE UniqueStart(t)
  <2>1. loc' \in [Threads -> Locs]
    BY <1>1 DEF UniqueStart, LooseType, Locs, NoLoc, UniqueOps
  <2> QED BY <1>0, <1>1, <2>1 DEF UniqueStart, Goto, Pcs, LooseType, entryVars, cacheVars
<1>2. CASE NewInitiatorSpi(t)
  <2>1. main[t] \in Sas
    BY <1>2 DEF NewInitiatorSpi, Pointers, MainPcs
  <2>2. DriveOut(t, main[t], "respi", "moved") /\ driveout' \in [Sas -> BOOLEAN]
    BY <1>2 DEF NewInitiatorSpi, LooseType
  <2>3. "respi" \in Pcs /\ "moved" \in Pcs
    BY DEF Pcs
  <2> QED BY <1>0, <1>2, <2>1, <2>2, <2>3, DriveOutType DEF NewInitiatorSpi, LooseType, cacheVars
<1>3. ASSUME NEW e \in Sas, Rekey(t, e) PROVE LooseType'
  <2>1. info' \in [Sas -> Infos]
    BY <1>3, CreateType DEF Rekey, SaStates
  <2> QED BY <1>0, <1>3, <2>1 DEF Rekey, Create, Goto, Pcs, LooseType, cacheVars
<1> QED BY <1>1, <1>2, <1>3 DEF Nested

\* A job gives an SA back.
LEMMA EndType ==
  ASSUME LooseType, Pointers, NEW t \in Threads, End(t)
  PROVE  LooseType'
<1>0. UNCHANGED jobs
  BY DEF End
<1>1. ASSUME NEW e \in Sas, Destroy(t, e) PROVE LooseType'
  <2>1. CASE driveout[e]
    <3>1. Return(t, e) /\ out' \in [Sas -> Threads \cup {None}] /\ asleep' \in SUBSET Threads
      BY <1>1, <2>1 DEF Destroy, LooseType, Broadcast
    <3> QED BY <1>0, <1>1, <2>1, <3>1, ReturnType DEF Destroy, LooseType, cacheVars
  <2>2. CASE ~driveout[e]
    <3>1. DriveOut(t, e, "drain", "clean") /\ driveout' \in [Sas -> BOOLEAN]
      BY <1>1, <2>2 DEF Destroy, LooseType
    <3>2. "drain" \in Pcs /\ "clean" \in Pcs
      BY DEF Pcs
    <3> QED BY <1>0, <1>1, <2>2, <3>1, <3>2, DriveOutType DEF Destroy, LooseType, cacheVars
  <2> QED BY <2>1, <2>2
<1>2. ASSUME NEW e \in Sas, DestroyUnknown(t, e) PROVE LooseType'
  <2>1. [info[e] EXCEPT !.state = "dead"] \in Infos
    BY InfoEdit DEF LooseType, SaStates
  <2>2. info' \in [Sas -> Infos]
    BY <1>2, <2>1 DEF DestroyUnknown, LooseType
  <2>3. Return(t, e)
    BY <1>2 DEF DestroyUnknown
  <2> QED BY <1>0, <1>2, <2>2, <2>3, ReturnType DEF DestroyUnknown, LooseType, cacheVars
<1>3. ASSUME NEW h \in Hosts, CheckinContact(t, h) PROVE LooseType'
  <2>1. main[t] \in Sas /\ Checkin(t, main[t], "established", h, TRUE)
    BY <1>3 DEF CheckinContact, Pointers, MainPcs
  <2>2. loc' \in [Threads -> Locs]
    BY <1>3 DEF CheckinContact, LooseType, Locs, NoLoc, UniqueOps
  <2>3. "established" \in SaStates
    BY DEF SaStates
  <2>4. pc' \in [Threads -> Pcs] /\ UNCHANGED <<main, dup>>
    BY <1>3 DEF CheckinContact, Goto, Pcs, LooseType
  <2> QED BY <1>0, <2>1, <2>2, <2>3, <2>4, CheckinType DEF LooseType
<1>4. ASSUME NEW h \in Hosts, CheckinRekeyed(t, h) PROVE LooseType'
  <2>1. dup[t] \in Sas /\ Checkin(t, dup[t], "established", h, FALSE)
    BY <1>4 DEF CheckinRekeyed, Pointers
  <2>2. "established" \in SaStates
    BY DEF SaStates
  <2>3. /\ pc' \in [Threads -> Pcs] /\ UNCHANGED <<main, loc>>
        /\ dup' \in [Threads -> Sas \cup {None}]
    BY <1>4 DEF CheckinRekeyed, Goto, Pcs, LooseType
  <2> QED BY <1>0, <2>1, <2>2, <2>3, CheckinType DEF LooseType
<1>5. ASSUME NEW st \in {"connecting", "established", "deleting"}, NEW h \in Hosts,
             CheckinMain(t, st, h)
      PROVE  LooseType'
  <2>1. main[t] \in Sas /\ Checkin(t, main[t], st, h, FALSE)
    BY <1>5 DEF CheckinMain, Pointers, MainPcs
  <2>2. st \in SaStates
    BY DEF SaStates
  <2>3. /\ pc' \in [Threads -> Pcs] /\ UNCHANGED <<dup, loc>>
        /\ main' \in [Threads -> Sas \cup {None}]
    BY <1>5 DEF CheckinMain, Goto, Pcs, LooseType
  <2> QED BY <1>0, <2>1, <2>2, <2>3, CheckinType DEF LooseType
<1>6. ASSUME NEW st \in {"connecting", "established", "deleting"}, NEW h \in Hosts,
             UniqueCheckin(t, st, h)
      PROVE  LooseType'
  <2>1. dup[t] \in Sas /\ Checkin(t, dup[t], st, h, FALSE)
    BY <1>6 DEF UniqueCheckin, Pointers
  <2>2. st \in SaStates
    BY DEF SaStates
  <2>3. /\ pc' \in [Threads -> Pcs] /\ UNCHANGED <<main, loc>>
        /\ dup' \in [Threads -> Sas \cup {None}]
    BY <1>6 DEF UniqueCheckin, Goto, Pcs, LooseType
  <2> QED BY <1>0, <2>1, <2>2, <2>3, CheckinType DEF LooseType
<1> QED BY <1>1, <1>2, <1>3, <1>4, <1>5, <1>6 DEF End

\* An operation of the manager goes on.
LEMMA InnerType ==
  ASSUME LooseType, Pointers, NEW t \in Threads, Inner(t)
  PROVE  LooseType'
<1> USE DEF LooseType
<1>0. UNCHANGED jobs /\ jobs' \in SUBSET Threads /\ NoLoc \in Locs
  BY DEF Inner, Locs, NoLoc
<1>1. CASE Wakes(t)
  <2>1. loc[t].sa \in Sas /\ loc[t] \in Locs /\ WaitForEntry(t, loc[t].sa, 1, loc[t])
    BY <1>1 DEF Wakes, Pointers, SaPcs
  <2> QED BY <1>0, <2>1, WaitForEntryType
<1>2. CASE ReceiveRetransmit(t)
  BY <1>0, <1>2, LookupType DEF ReceiveRetransmit, Pointers, SaPcs
<1>3. CASE LimitOk(t)
  BY <1>0, <1>3 DEF LimitOk, Goto, Pcs, entryVars, cacheVars
<1>4. CASE LimitHit(t)
  <2>1. loc[t].sa \in Sas
    BY <1>4 DEF LimitHit, Pointers, SaPcs
  <2>2. [info[loc[t].sa] EXCEPT !.state = "dead", !.hash = None] \in Infos
    <3>1. info[loc[t].sa] \in Infos
      BY <2>1
    <3> QED BY <3>1 DEF Infos, SaStates
  <2>3. info' \in [Sas -> Infos]
    BY <1>4, <2>1, <2>2 DEF LimitHit
  <2>4. pc' \in [Threads -> Pcs] /\ loc' \in [Threads -> Locs]
    <3>1. Back(t, NoLoc)
      BY <1>4 DEF LimitHit
    <3>2. Goto(t, "idle") /\ loc' = [loc EXCEPT ![t] = NoLoc]
      BY <3>1, BackIdle
    <3> QED BY <1>0, <3>2 DEF Goto, Pcs
  <2> QED BY <1>0, <1>4, <2>3, <2>4 DEF LimitHit, ForgetInit, entryVars
<1>5. CASE PutNew(t)
  <2>1. loc[t].sa \in Sas
    BY <1>5 DEF PutNew, Pointers, SaPcs
  <2>2. [info[loc[t].sa] EXCEPT !.state = "created", !.processing = 0] \in Infos
    <3>1. info[loc[t].sa] \in Infos
      BY <2>1
    <3> QED BY <3>1 DEF Infos, SaStates
  <2>3. info' \in [Sas -> Infos]
    BY <1>5, <2>1, <2>2 DEF PutNew
  <2> QED BY <1>0, <1>5, <2>1, <2>3 DEF PutNew, Goto, Pcs, cacheVars
<1>6. CASE EnumRow(t)
  <2> DEFINE l == [loc[t] EXCEPT !.rows = @ \ {Min(loc[t].rows)}, !.todo = Row(Min(loc[t].rows))]
  <2>0. l \in Locs
    <3>1. loc[t] \in Locs /\ Row(Min(loc[t].rows)) \in SUBSET Sas
      BY DEF Row
    <3> QED BY <3>1 DEF Locs
  <2>1. loc' \in [Threads -> Locs]
    <3>1. loc' = [loc EXCEPT ![t] = l]
      BY <1>6 DEF EnumRow
    <3> HIDE DEF l
    <3> QED BY <2>0, <3>1
  <2>2. mutex' \in [Segments -> Threads \cup {None}]
    BY <1>6 DEF EnumRow
  <2> QED BY <1>0, <1>6, <2>1, <2>2 DEF EnumRow, entryVars, cacheVars
<1>7. CASE EnumLeave(t)
  <2>1. [loc[t] EXCEPT !.sa = None] \in Locs
    BY LocEdit
  <2>2. loc' \in [Threads -> Locs]
    BY <1>7, <2>1 DEF EnumLeave
  <2>3. asleep' \in SUBSET Threads /\ mutex' \in [Segments -> Threads \cup {None}]
    BY <1>7, SignalType DEF EnumLeave, LeaveSignal, Lock
  <2> QED BY <1>0, <1>7, <2>2, <2>3 DEF EnumLeave, Goto, Pcs, entryVars, cacheVars
<1>8. CASE EnumEnd(t)
  <2>1. loc' \in [Threads -> Locs]
    BY <1>0, <1>8 DEF EnumEnd
  <2>2. /\ info' \in [Sas -> Infos] /\ out' \in [Sas -> Threads \cup {None}]
        /\ main' \in [Threads -> Sas \cup {None}] /\ pc' \in [Threads -> Pcs]
    <3>1. ASSUME NEW e \in Sas, Create(t, e, "created"), main' = [main EXCEPT ![t] = e],
                 Goto(t, "work")
          PROVE  <2>2!:
      <4>1. info' \in [Sas -> Infos]
        BY <3>1, CreateType DEF SaStates
      <4> QED BY <3>1, <4>1 DEF Create, Goto, Pcs
    <3>2. CASE Goto(t, "idle") /\ UNCHANGED <<info, out, main>>
      BY <3>2 DEF Goto, Pcs
    <3> QED BY <1>8, <3>1, <3>2 DEF EnumEnd, Fresh
  <2> QED BY <1>0, <1>8, <2>1, <2>2 DEF EnumEnd, cacheVars
<1>9. CASE UniqueDone(t)
  BY <1>0, <1>9 DEF UniqueDone, Goto, Pcs, entryVars, cacheVars
<1>10. CASE ContactDone(t)
  <2>1. main[t] \in Sas
    BY <1>10 DEF ContactDone, Pointers, MainPcs
  <2>2. [info[main[t]] EXCEPT !.ided = TRUE] \in Infos
    BY <2>1, InfoEdit
  <2>3. info' \in [Sas -> Infos]
    BY <1>10, <2>1, <2>2 DEF ContactDone
  <2>4. asleep' \in SUBSET Threads
    BY <1>10, SignalType DEF ContactDone, ContactSignal
  <2> QED BY <1>0, <1>10, <2>1, <2>3, <2>4 DEF ContactDone, Goto, Pcs
<1>11. CASE DestroyWakes(t)
  <2>1. loc[t].sa \in Sas /\ "drain" \in Pcs /\ "clean" \in Pcs
    BY <1>11 DEF DestroyWakes, Pointers, SaPcs, Pcs
  <2>2. DriveOut(t, loc[t].sa, "drain", "clean")
    BY <1>11 DEF DestroyWakes
  <2> QED BY <1>0, <1>11, <2>1, <2>2, DriveOutType DEF DestroyWakes, entryVars, cacheVars
<1>12. CASE DestroyClean(t)
  <2>1. loc[t].sa \in Sas /\ {loc[t].sa} \in SUBSET Sas
    BY <1>12 DEF DestroyClean, Pointers, SaPcs
  <2>2. EntryDestroy({loc[t].sa}) /\ Return(t, loc[t].sa)
    BY <1>12 DEF DestroyClean
  <2> QED BY <1>0, <1>12, <2>1, <2>2, EntryDestroyType, ReturnType DEF DestroyClean
<1>13. CASE NewSpiWakes(t)
  <2>1. loc[t].sa \in Sas /\ "respi" \in Pcs /\ "moved" \in Pcs
    BY <1>13 DEF NewSpiWakes, Pointers, SaPcs, Pcs
  <2>2. DriveOut(t, loc[t].sa, "respi", "moved")
    BY <1>13 DEF NewSpiWakes
  <2> QED BY <1>0, <1>13, <2>1, <2>2, DriveOutType DEF NewSpiWakes, entryVars, cacheVars
<1>14. ASSUME NEW e \in Sas, EnumEntry(t, e) PROVE LooseType'
  <2> DEFINE l == [loc[t] EXCEPT !.todo = @ \ {e}]
  <2>1. l \in Locs
    BY DEF Locs
  <2>2. CASE WaitForEntry(t, e, 0, l)
    BY <1>0, <2>1, <2>2, WaitForEntryType
  <2>3. CASE /\ Goto(t, "leave")
             /\ loc' = [loc EXCEPT ![t] = [l EXCEPT !.sa = e]]
             /\ UNCHANGED <<info, entryVars, table, cacheVars, mutex, main, dup, asleep>>
    <3>1. [l EXCEPT !.sa = e] \in Locs
      BY <2>1, LocEdit
    <3>2. loc' \in [Threads -> Locs]
      BY <2>3, <3>1
    <3> QED BY <1>0, <2>3, <3>2 DEF Goto, Pcs, entryVars, cacheVars
  <2> QED BY <1>14, <2>2, <2>3 DEF EnumEntry
<1>15. ASSUME NEW e \in Sas, UniqueNext(t, e) PROVE LooseType'
  <2> DEFINE l == [loc[t] EXCEPT !.todo = @ \ {e}]
  <2>1. l \in Locs
    BY DEF Locs
  <2>2. CASE WaitForEntry(t, e, 0, l)
    BY <1>0, <2>1, <2>2, WaitForEntryType
  <2>3. CASE /\ loc' = [loc EXCEPT ![t] = l]
             /\ UNCHANGED <<info, entryVars, table, cacheVars, mutex, pc, main, dup, asleep>>
    <3>2. loc' \in [Threads -> Locs]
      BY <2>3, <2>1
    <3> QED BY <1>0, <2>3, <3>2 DEF entryVars, cacheVars
  <2> QED BY <1>15, <2>2, <2>3 DEF UniqueNext
<1>16. ASSUME NEW e \in Sas, FlushEntry(t, e) PROVE LooseType'
  <2>0. [loc[t] EXCEPT !.sa = e] \in Locs /\ [loc[t] EXCEPT !.todo = @ \ {e}] \in Locs
    <3>1. loc[t] \in Locs
      OBVIOUS
    <3> QED BY <3>1 DEF Locs
  <2>1. loc' \in [Threads -> Locs] /\ pc' \in [Threads -> Pcs]
    BY <1>16, <2>0 DEF FlushEntry, Goto, Pcs
  <2>2. asleep' \in SUBSET Threads
    BY <1>16, SignalType DEF FlushEntry, Broadcast
  <2>3. mutex' \in [Segments -> Threads \cup {None}]
    BY <1>16 DEF FlushEntry, Lock
  <2> QED BY <1>0, <1>16, <2>1, <2>2, <2>3 DEF FlushEntry, entryVars, cacheVars
<1>17. ASSUME NEW s \in Segments, NewSpiPut(t, s) PROVE LooseType'
  <2>1. loc[t].sa \in Sas
    BY <1>17 DEF NewSpiPut, Pointers, SaPcs
  <2>2. [info[loc[t].sa] EXCEPT !.seg = s] \in Infos
    BY <2>1, InfoEdit
  <2>3. info' \in [Sas -> Infos]
    BY <1>17, <2>1, <2>2 DEF NewSpiPut
  <2> QED BY <1>0, <1>17, <2>1, <2>3 DEF NewSpiPut, Goto, Pcs, cacheVars
<1>18. CASE FlushLock(t)
  <2> DEFINE s == Min(loc[t].rows)
             l == [loc[t] EXCEPT !.rows = @ \ {s}, !.todo = IF loc[t].rows = {s} THEN table ELSE {}]
  <2>0. l \in Locs
    <3>1. loc[t] \in Locs /\ table \in SUBSET Sas
      OBVIOUS
    <3> QED BY <3>1 DEF Locs
  <2>1. loc' \in [Threads -> Locs]
    <3>1. loc' = [loc EXCEPT ![t] = l]
      BY <1>18 DEF FlushLock
    <3> HIDE DEF l
    <3> QED BY <2>0, <3>1
  <2>2. mutex' \in [Segments -> Threads \cup {None}] /\ driveout' \in [Sas -> BOOLEAN]
    BY <1>18 DEF FlushLock
  <2> QED BY <1>0, <1>18, <2>1, <2>2 DEF FlushLock, Goto, Pcs, cacheVars
<1>19. CASE FlushWakes(t)
  <2>0. [loc[t] EXCEPT !.sa = None] \in Locs
    BY LocEdit
  <2>1. loc' \in [Threads -> Locs]
    BY <1>19, <2>0 DEF FlushWakes
  <2> QED BY <1>0, <1>19, <2>1 DEF FlushWakes, Goto, Pcs, Lock, entryVars, cacheVars
<1>20. CASE FlushDestroy(t)
  BY <1>0, <1>20, EntryDestroyType DEF FlushDestroy, Goto, Pcs
<1>21. CASE FlushRng(t)
  BY <1>0, <1>21 DEF FlushRng, Goto, Pcs, entryVars
<1>22. CASE ManagerDestroy(t)
  BY <1>0, <1>22, EntryDestroyType DEF ManagerDestroy, Goto, Pcs
<1> QED BY <1>1, <1>2, <1>3, <1>4, <1>5, <1>6, <1>7, <1>8, <1>9, <1>10, <1>11, <1>12,
           <1>13, <1>14, <1>15, <1>16, <1>17, <1>18, <1>19, <1>20, <1>21, <1>22 DEF Inner

\* A worker, or the main thread, takes a step.
LEMMA TypeStep ==
  ASSUME LooseType, Pointers, [Next]_vars
  PROVE  LooseType'
<1>1. ASSUME NEW t \in Threads, FlushStart(t) PROVE LooseType'
  <2>1. [loc[t] EXCEPT !.rows = Segments] \in Locs
    BY LocEdit DEF LooseType
  <2>2. loc' \in [Threads -> Locs]
    BY <1>1, <2>1 DEF FlushStart, LooseType
  <2> QED BY <1>1, <2>2 DEF FlushStart, Goto, Pcs, LooseType, entryVars, cacheVars
<1>2. CASE UNCHANGED vars
  BY <1>2 DEF vars, mgrVars, entryVars, cacheVars, threadVars, LooseType
<1> QED BY <1>1, <1>2, BeginType, NestedType, EndType, InnerType DEF Next

-----------------------------------------------------------------------------
(***************************************************************************)
(* A step of thread t leaves where the other threads are alone, keeps the  *)
(* pointers of t valid, and changes the count of an entry by one exactly   *)
(* when t begins or ends to wait for it.                                   *)
(***************************************************************************)
Frame(t) == \A u \in Threads : u # t =>
              /\ pc'[u] = pc[u] /\ main'[u] = main[u] /\ dup'[u] = dup[u]
              /\ loc'[u].sa = loc[u].sa /\ loc'[u].op = loc[u].op

PointersOf(t) ==
    /\ pc[t] \in SaPcs => loc[t].sa \in Sas
    /\ pc[t] \in MainPcs => main[t] \in Sas
    /\ pc[t] = "wait" /\ loc[t].op \in UniqueOps => main[t] \in Sas
    /\ pc[t] \in {"dispose", "rekey"} => dup[t] \in Sas
    /\ pc[t] \in {"enum", "visit", "leave"} => loc[t].op \in EnumOps

WaitsFor(t, e) == pc[t] = "wait" /\ loc[t].sa = e
One(b)         == IF b THEN 1 ELSE 0

Counted(t) ==
  \A e \in Sas : waiting'[e] = waiting[e] + One(WaitsFor(t, e)') - One(WaitsFor(t, e))

Good(t) == Frame(t) /\ PointersOf(t)' /\ Counted(t)

\* A step that neither begins nor ends a wait leaves the counts alone.
LEMMA NoWait ==
  ASSUME NEW t, LooseType, pc[t] # "wait", pc'[t] # "wait", UNCHANGED waiting
  PROVE  Counted(t)
BY DEF Counted, WaitsFor, One, LooseType

\* One evaluation of the loop of wait_for_entry.
LEMMA WaitForEntryGood ==
  ASSUME LooseType, LooseType', NEW t \in Threads, NEW e \in Sas, NEW w \in {0, 1},
         NEW l \in Locs, WaitForEntry(t, e, w, l),
         w = 1 => WaitsFor(t, e), w = 0 => pc[t] # "wait",
         l.op \in UniqueOps => main[t] \in Sas
  PROVE  Good(t)
<1>1. \A f \in Sas : One(WaitsFor(t, f)) = IF f = e THEN w ELSE 0
  BY DEF One, WaitsFor
<1>2. ASSUME pc'[t] # "wait", waiting' = [waiting EXCEPT ![e] = @ - w]
      PROVE  Counted(t)
  <2> SUFFICES ASSUME NEW f \in Sas
               PROVE  waiting'[f] = waiting[f] + One(WaitsFor(t, f)') - One(WaitsFor(t, f))
    BY DEF Counted
  <2>1. One(WaitsFor(t, f)') = 0
    BY <1>2 DEF One, WaitsFor
  <2> QED BY <1>1, <1>2, <2>1 DEF LooseType
<1>a. NoLoc \in Locs /\ [l EXCEPT !.sa = e] \in Locs /\ [l EXCEPT !.sa = None] \in Locs
  BY LocEdit
<1>b. [l EXCEPT !.sa = e].sa = e /\ [l EXCEPT !.sa = e].op = l.op
  BY DEF Locs
<1>3. CASE Refused(t, e, w, l)
  <2>1. /\ pc'[t] \in {"leave", "idle", "unique"}
        /\ pc'[t] = "leave" => l.op \in EnumOps /\ loc'[t] = [l EXCEPT !.sa = e]
        /\ pc'[t] = "unique" => l.op \in UniqueOps
        /\ \A u \in Threads : u # t => pc'[u] = pc[u] /\ loc'[u] = loc[u]
    BY <1>3 DEF Refused, Back, Goto, LooseType
  <2>2. UNCHANGED <<main, dup>> /\ waiting' = [waiting EXCEPT ![e] = @ - w]
    BY <1>3 DEF Refused
  <2>3. Counted(t)
    BY <1>2, <2>1, <2>2
  <2>4. Frame(t)
    BY <2>1, <2>2 DEF Frame
  <2>5. PointersOf(t)'
    BY <1>b, <2>1, <2>2 DEF PointersOf, SaPcs, MainPcs
  <2> QED BY <2>3, <2>4, <2>5 DEF Good
<1>4. CASE Busy(t, e, w, l)
  <2>1. /\ pc'[t] = "wait" /\ loc'[t] = [l EXCEPT !.sa = e]
        /\ \A u \in Threads : u # t => pc'[u] = pc[u] /\ loc'[u] = loc[u]
    BY <1>4 DEF Busy, Goto, LooseType
  <2>2. UNCHANGED <<main, dup>> /\ waiting' = [waiting EXCEPT ![e] = @ + (1 - w)]
    BY <1>4 DEF Busy
  <2>3. Counted(t)
    <3> SUFFICES ASSUME NEW f \in Sas
                 PROVE  waiting'[f] = waiting[f] + One(WaitsFor(t, f)') - One(WaitsFor(t, f))
      BY DEF Counted
    <3>1. One(WaitsFor(t, f)') = IF f = e THEN 1 ELSE 0
      BY <1>b, <2>1 DEF One, WaitsFor
    <3> QED BY <1>1, <2>2, <3>1 DEF LooseType
  <2>4. Frame(t)
    BY <2>1, <2>2 DEF Frame
  <2>5. PointersOf(t)'
    BY <1>b, <2>1, <2>2 DEF PointersOf, SaPcs, MainPcs
  <2> QED BY <2>3, <2>4, <2>5 DEF Good
<1>5. CASE Got(t, e, w, l) \/ Found(t, e, w, l)
  <2>0. Take(t, e, l) /\ waiting' = [waiting EXCEPT ![e] = @ - w]
    BY <1>5 DEF Got, Found
  <2>1. /\ pc'[t] \in {"dispose", "work"}
        /\ pc'[t] = "dispose" => l.op \in UniqueOps /\ dup'[t] = e /\ main'[t] = main[t]
        /\ pc'[t] = "work" => main'[t] = e
    BY <2>0 DEF Take, Goto, LooseType
  <2>2. \A u \in Threads : u # t => /\ pc'[u] = pc[u] /\ loc'[u] = loc[u]
                                    /\ main'[u] = main[u] /\ dup'[u] = dup[u]
    BY <2>0 DEF Take, Goto, LooseType
  <2>3. Counted(t)
    BY <1>2, <2>0, <2>1
  <2>4. Frame(t)
    BY <2>2 DEF Frame
  <2>5. PointersOf(t)'
    BY <2>1 DEF PointersOf, SaPcs, MainPcs
  <2> QED BY <2>3, <2>4, <2>5 DEF Good
<1>6. CASE Visit(t, e, w, l)
  <2>1. /\ pc'[t] \in {"visit", "leave"} /\ loc'[t] = [l EXCEPT !.sa = e] /\ l.op \in EnumOps
        /\ \A u \in Threads : u # t => pc'[u] = pc[u] /\ loc'[u] = loc[u]
    BY <1>6 DEF Visit, Goto, LooseType
  <2>2. UNCHANGED <<main, dup>> /\ waiting' = [waiting EXCEPT ![e] = @ - w]
    BY <1>6 DEF Visit
  <2>3. Counted(t)
    BY <1>2, <2>1, <2>2
  <2>4. Frame(t)
    BY <2>1, <2>2 DEF Frame
  <2>5. PointersOf(t)'
    BY <1>b, <2>1, <2>2 DEF PointersOf, SaPcs, MainPcs
  <2> QED BY <2>3, <2>4, <2>5 DEF Good
<1> QED BY <1>3, <1>4, <1>5, <1>6 DEF WaitForEntry

\* Giving an SA up: the thread goes on with its own SA, or is idle.
LEMMA ReturnGood ==
  ASSUME LooseType, NEW t \in Threads, NEW e \in Sas, Return(t, e), UNCHANGED waiting,
         pc[t] # "wait", main[t] \in Sas
  PROVE  Good(t)
<1>1. CASE main[t] = e
  <2>1. Goto(t, "idle") /\ loc' = [loc EXCEPT ![t] = NoLoc]
    BY <1>1, BackIdle DEF Return
  <2>2. Frame(t) /\ pc'[t] = "idle"
    BY <1>1, <2>1 DEF Return, Goto, Frame, LooseType
  <2> QED BY <2>2, NoWait DEF Good, PointersOf, SaPcs, MainPcs
<1>2. CASE main[t] # e
  <2>1. Frame(t)
    BY <1>2 DEF Return, Goto, Frame, LooseType
  <2>2. pc'[t] \in {"unique", "work"} /\ main'[t] = main[t]
    BY <1>2 DEF Return, Goto, LooseType
  <2> QED BY <2>1, <2>2, NoWait DEF Good, PointersOf, SaPcs, MainPcs
<1> QED BY <1>1, <1>2

\* Driving out the waiting threads of an SA the thread works on.
LEMMA DriveOutGood ==
  ASSUME LooseType, NEW t \in Threads, NEW e \in Sas,
         NEW p \in {"drain", "respi"}, NEW q \in {"clean", "moved"},
         DriveOut(t, e, p, q), UNCHANGED <<waiting, main, dup>>,
         pc[t] # "wait", main[t] \in Sas
  PROVE  Good(t)
<1>1. ASSUME Remove(t, e, q) PROVE Good(t)
  <2>1. \A u \in Threads : /\ loc'[u].sa = IF u = t THEN e ELSE loc[u].sa
                           /\ loc'[u].op = loc[u].op
    <3> SUFFICES ASSUME NEW u \in Threads
                 PROVE  /\ loc'[u].sa = IF u = t THEN e ELSE loc[u].sa
                        /\ loc'[u].op = loc[u].op
      OBVIOUS
    <3>1. loc'[u] = [loc[u] EXCEPT !.todo = @ \ {e}, !.sa = IF u = t THEN e ELSE @]
      BY <1>1 DEF Remove
    <3>2. loc[u] \in Locs
      BY DEF LooseType
    <3> QED BY <3>1, <3>2 DEF Locs
  <2>2. pc'[t] = q /\ \A u \in Threads : u # t => pc'[u] = pc[u]
    BY <1>1 DEF Remove, Goto, LooseType
  <2>3. Frame(t)
    BY <2>1, <2>2 DEF Frame
  <2>4. PointersOf(t)'
    BY <2>1, <2>2 DEF PointersOf, SaPcs, MainPcs
  <2> QED BY <2>2, <2>3, <2>4, NoWait DEF Good
<1>2. CASE Goto(t, p) /\ loc' = [loc EXCEPT ![t].sa = e]
  <2>1. pc'[t] = p /\ loc'[t].sa = e /\ Frame(t)
    BY <1>2 DEF Goto, Frame, LooseType, Locs
  <2>2. PointersOf(t)'
    BY <2>1 DEF PointersOf, SaPcs, MainPcs
  <2> QED BY <2>1, <2>2, NoWait DEF Good
<1> QED BY <1>1, <1>2 DEF DriveOut

\* A message for an SA.
LEMMA LookupGood ==
  ASSUME LooseType, LooseType', NEW t \in Threads, NEW e \in Sas, NEW i \in {0} \cup MsgIds,
         LookupMessage(t, e, i), pc[t] # "wait"
  PROVE  Good(t)
<1>1. CASE e \notin table \/ info[e].processing = i
  <2>1. Goto(t, "idle") /\ loc' = [loc EXCEPT ![t] = NoLoc] /\ UNCHANGED <<waiting, main, dup>>
    BY <1>1, BackIdle DEF LookupMessage, entryVars
  <2>2. Frame(t) /\ pc'[t] = "idle"
    BY <2>1 DEF Goto, Frame, LooseType
  <2> QED BY <2>1, <2>2, NoWait DEF Good, PointersOf, SaPcs, MainPcs
<1>2. CASE ~(e \notin table \/ info[e].processing = i)
  <2> DEFINE l == [NoLoc EXCEPT !.op = "message", !.mid = i]
  <2>1. l \in Locs /\ l.op \notin UniqueOps
    BY DEF Locs, NoLoc, UniqueOps
  <2>2. WaitForEntry(t, e, 0, l)
    BY <1>2 DEF LookupMessage
  <2> HIDE DEF l
  <2> QED BY <2>1, <2>2, WaitForEntryGood
<1> QED BY <1>1, <1>2

\* A worker takes up a job.
LEMMA BeginGood ==
  ASSUME LooseType, LooseType', NEW t \in Threads, Begin(t)
  PROVE  Good(t)
<1>1. CASE NotFound(t)
  <2>1. pc[t] = "idle" /\ UNCHANGED <<waiting, pc, main, dup, loc>>
    BY <1>1 DEF NotFound, Idle, mgrVars, entryVars, threadVars
  <2> QED BY <2>1, NoWait DEF Good, Frame, PointersOf, SaPcs, MainPcs
<1>2. ASSUME NEW e \in Sas, Checkout(t, e) PROVE Good(t)
  <2> DEFINE l == [NoLoc EXCEPT !.op = "checkout"]
  <2>1. l \in Locs /\ l.op \notin UniqueOps
    BY DEF Locs, NoLoc, UniqueOps
  <2>2. pc[t] = "idle" /\ WaitForEntry(t, e, 0, l)
    BY <1>2 DEF Checkout, Idle
  <2> HIDE DEF l
  <2> QED BY <2>1, <2>2, WaitForEntryGood
<1>3. ASSUME NEW e \in Sas, CheckoutNew(t, e) PROVE Good(t)
  <2>1. pc[t] = "idle" /\ pc'[t] = "work" /\ main'[t] = e /\ UNCHANGED waiting
    BY <1>3 DEF CheckoutNew, Idle, Goto, LooseType
  <2>2. Frame(t)
    BY <1>3 DEF CheckoutNew, Goto, Frame, LooseType
  <2> QED BY <2>1, <2>2, NoWait DEF Good, PointersOf, SaPcs, MainPcs
<1>4. ASSUME NEW e \in Sas, NEW i \in MsgIds, ReceiveMessage(t, e, i) PROVE Good(t)
  BY <1>4, LookupGood DEF ReceiveMessage, Idle
<1>5. ASSUME NEW m \in Inits, ReceiveInit(t, m) PROVE Good(t)
  <2>1. pc[t] = "idle" /\ UNCHANGED <<waiting, main, dup>>
    BY <1>5 DEF ReceiveInit, Idle, entryVars
  <2>2. CASE UNCHANGED <<pc, loc>>
    BY <2>1, <2>2, NoWait DEF Good, Frame, PointersOf, SaPcs, MainPcs
  <2>3. ASSUME NEW e \in Sas, loc' = [loc EXCEPT ![t].sa = e], Goto(t, "lookup") \/ Goto(t, "limit")
        PROVE  Good(t)
    <3>1. pc'[t] \in {"lookup", "limit"} /\ loc'[t].sa = e /\ Frame(t)
      BY <2>1, <2>3 DEF Goto, Frame, LooseType, Locs
    <3> QED BY <2>1, <3>1, NoWait DEF Good, PointersOf, SaPcs, MainPcs
  <2>4. initHashes[m] # None => initHashes[m] \in Sas
    BY DEF LooseType
  <2> QED BY <1>5, <2>2, <2>3, <2>4 DEF ReceiveInit, Fresh
<1>6. ASSUME NEW o \in EnumOps, NEW ws \in SUBSET Sas, EnumStart(t, o, ws) PROVE Good(t)
  <2>1. pc[t] = "idle" /\ pc'[t] = "enum" /\ UNCHANGED <<waiting, main, dup>>
    BY <1>6 DEF EnumStart, Idle, Goto, LooseType, entryVars
  <2>2. loc'[t].op = o
    BY <1>6 DEF EnumStart, LooseType, NoLoc
  <2>3. Frame(t)
    BY <1>6 DEF EnumStart, Goto, Frame, LooseType
  <2> QED BY <2>1, <2>2, <2>3, NoWait DEF Good, PointersOf, SaPcs, MainPcs
<1>7. ASSUME \/ \E e \in Sas : EnumStart(t, "byid", {e})
             \/ EnumStart(t, "byconfig", Sas) \/ EnumStart(t, "list", {}) \/ EnumStart(t, "skip", {})
      PROVE  Good(t)
  <2>1. ASSUME NEW e \in Sas, EnumStart(t, "byid", {e}) PROVE Good(t)
    BY <1>6, <2>1 DEF EnumOps
  <2>2. ASSUME EnumStart(t, "byconfig", Sas) PROVE Good(t)
    BY <1>6, <2>2 DEF EnumOps
  <2>3. ASSUME EnumStart(t, "list", {}) \/ EnumStart(t, "skip", {}) PROVE Good(t)
    BY <1>6, <2>3 DEF EnumOps
  <2> QED BY <1>7, <2>1, <2>2, <2>3
<1> QED BY <1>1, <1>2, <1>3, <1>4, <1>5, <1>7 DEF Begin

\* A job that has an SA needs the manager for something else.
LEMMA NestedGood ==
  ASSUME LooseType, Pointers, NEW t \in Threads, Nested(t)
  PROVE  Good(t)
<1>1. CASE UniqueStart(t)
  <2>1. pc[t] = "work" /\ pc'[t] = "unique" /\ UNCHANGED <<waiting, main, dup>> /\ main[t] \in Sas
    BY <1>1 DEF UniqueStart, Goto, LooseType, entryVars, Pointers, MainPcs
  <2>2. Frame(t)
    BY <1>1 DEF UniqueStart, Goto, Frame, LooseType
  <2> QED BY <2>1, <2>2, NoWait DEF Good, PointersOf, SaPcs, MainPcs
<1>2. CASE NewInitiatorSpi(t)
  <2>1. pc[t] = "work" /\ main[t] \in Sas
    BY <1>2 DEF NewInitiatorSpi, Pointers, MainPcs
  <2>2. DriveOut(t, main[t], "respi", "moved") /\ UNCHANGED <<waiting, main, dup>>
    BY <1>2 DEF NewInitiatorSpi
  <2> QED BY <2>1, <2>2, DriveOutGood
<1>3. ASSUME NEW e \in Sas, Rekey(t, e) PROVE Good(t)
  <2>1. /\ pc[t] = "work" /\ pc'[t] = "rekey" /\ UNCHANGED <<waiting, main, loc>>
        /\ main[t] \in Sas /\ dup'[t] = e
    BY <1>3 DEF Rekey, Goto, LooseType, Pointers, MainPcs
  <2>2. Frame(t)
    BY <1>3 DEF Rekey, Goto, Frame, LooseType
  <2> QED BY <2>1, <2>2, NoWait DEF Good, PointersOf, SaPcs, MainPcs
<1> QED BY <1>1, <1>2, <1>3 DEF Nested

\* A job gives an SA back.
LEMMA EndGood ==
  ASSUME LooseType, Pointers, NEW t \in Threads, End(t)
  PROVE  Good(t)
<1>1. ASSUME NEW e \in Sas, Destroy(t, e) PROVE Good(t)
  <2>1. pc[t] # "wait" /\ main[t] \in Sas /\ UNCHANGED waiting
    BY <1>1 DEF Destroy, MayDestroy, Pointers, MainPcs
  <2>2. CASE driveout[e]
    BY <1>1, <2>1, <2>2, ReturnGood DEF Destroy
  <2>3. CASE ~driveout[e]
    BY <1>1, <2>1, <2>3, DriveOutGood DEF Destroy
  <2> QED BY <2>2, <2>3
<1>2. ASSUME NEW e \in Sas, DestroyUnknown(t, e) PROVE Good(t)
  <2>1. pc[t] # "wait" /\ main[t] \in Sas /\ UNCHANGED waiting /\ Return(t, e)
    BY <1>2 DEF DestroyUnknown, MayDestroy, Pointers, MainPcs
  <2> QED BY <2>1, ReturnGood
<1>3. ASSUME NEW h \in Hosts, CheckinContact(t, h) PROVE Good(t)
  <2>1. pc[t] = "work" /\ pc'[t] = "unique" /\ UNCHANGED <<waiting, main, dup>> /\ main[t] \in Sas
    BY <1>3 DEF CheckinContact, Checkin, Goto, LooseType, Pointers, MainPcs
  <2>2. Frame(t)
    BY <1>3 DEF CheckinContact, Goto, Frame, LooseType
  <2> QED BY <2>1, <2>2, NoWait DEF Good, PointersOf, SaPcs, MainPcs
<1>4. ASSUME NEW h \in Hosts, CheckinRekeyed(t, h) PROVE Good(t)
  <2>1. pc[t] = "rekey" /\ pc'[t] = "work" /\ UNCHANGED <<waiting, main, loc>> /\ main[t] \in Sas
    BY <1>4 DEF CheckinRekeyed, Checkin, Goto, LooseType, Pointers, MainPcs
  <2>2. Frame(t)
    BY <1>4 DEF CheckinRekeyed, Goto, Frame, LooseType
  <2> QED BY <2>1, <2>2, NoWait DEF Good, PointersOf, SaPcs, MainPcs
<1>5. ASSUME NEW st, NEW h \in Hosts, CheckinMain(t, st, h) PROVE Good(t)
  <2>1. pc[t] = "work" /\ pc'[t] = "idle" /\ UNCHANGED <<waiting, dup, loc>>
    BY <1>5 DEF CheckinMain, Checkin, Goto, LooseType
  <2>2. Frame(t)
    BY <1>5 DEF CheckinMain, Goto, Frame, LooseType
  <2> QED BY <2>1, <2>2, NoWait DEF Good, PointersOf, SaPcs, MainPcs
<1>6. ASSUME NEW st, NEW h \in Hosts, UniqueCheckin(t, st, h) PROVE Good(t)
  <2>1. pc[t] = "dispose" /\ pc'[t] = "unique" /\ UNCHANGED <<waiting, main, loc>> /\ main[t] \in Sas
    BY <1>6 DEF UniqueCheckin, Checkin, Goto, LooseType, Pointers, MainPcs
  <2>2. Frame(t)
    BY <1>6 DEF UniqueCheckin, Goto, Frame, LooseType
  <2> QED BY <2>1, <2>2, NoWait DEF Good, PointersOf, SaPcs, MainPcs
<1> QED BY <1>1, <1>2, <1>3, <1>4, <1>5, <1>6 DEF End

\* An operation of the manager goes on.
LEMMA InnerGood ==
  ASSUME LooseType, LooseType', Pointers, NEW t \in Threads, Inner(t)
  PROVE  Good(t)
<1>0. loc[t] \in Locs
  BY DEF LooseType
<1>1. CASE Wakes(t)
  <2>1. /\ loc[t].sa \in Sas /\ WaitForEntry(t, loc[t].sa, 1, loc[t]) /\ WaitsFor(t, loc[t].sa)
        /\ loc[t].op \in UniqueOps => main[t] \in Sas
    BY <1>1 DEF Wakes, Pointers, SaPcs, WaitsFor
  <2> QED BY <1>0, <2>1, WaitForEntryGood
<1>2. CASE ReceiveRetransmit(t)
  BY <1>2, LookupGood DEF ReceiveRetransmit, Pointers, SaPcs
<1>3. CASE LimitOk(t)
  <2>1. pc[t] = "limit" /\ pc'[t] = "put" /\ UNCHANGED <<waiting, main, dup, loc>> /\ loc[t].sa \in Sas
    BY <1>3 DEF LimitOk, Goto, LooseType, entryVars, Pointers, SaPcs
  <2>2. Frame(t)
    BY <1>3 DEF LimitOk, Goto, Frame, LooseType
  <2> QED BY <2>1, <2>2, NoWait DEF Good, PointersOf, SaPcs, MainPcs
<1>4. CASE LimitHit(t)
  <2>1. pc[t] = "limit" /\ UNCHANGED <<waiting, main, dup>> /\ Back(t, NoLoc)
    BY <1>4 DEF LimitHit, entryVars
  <2>2. Frame(t) /\ pc'[t] = "idle"
    BY <2>1, BackIdle DEF Goto, Frame, LooseType
  <2> QED BY <2>1, <2>2, NoWait DEF Good, PointersOf, SaPcs, MainPcs
<1>5. CASE PutNew(t)
  <2>1. pc[t] = "put" /\ pc'[t] = "work" /\ UNCHANGED waiting /\ main'[t] \in Sas
    BY <1>5 DEF PutNew, Goto, LooseType, Pointers, SaPcs
  <2>2. Frame(t)
    BY <1>5 DEF PutNew, Goto, Frame, LooseType
  <2> QED BY <2>1, <2>2, NoWait DEF Good, PointersOf, SaPcs, MainPcs
<1>6. CASE EnumRow(t)
  <2>1. /\ pc[t] = "enum" /\ UNCHANGED <<waiting, main, dup, pc>>
        /\ \A u \in Threads : u # t => loc'[u] = loc[u]
    BY <1>6 DEF EnumRow, entryVars, LooseType
  <2>2. loc'[t].op = loc[t].op
    BY <1>0, <1>6 DEF EnumRow, LooseType, Locs
  <2>3. loc[t].op \in EnumOps
    BY <2>1 DEF Pointers
  <2>4. Frame(t)
    BY <2>1 DEF Frame
  <2> QED BY <2>1, <2>2, <2>3, <2>4, NoWait DEF Good, PointersOf, SaPcs, MainPcs
<1>7. CASE EnumLeave(t)
  <2>1. /\ pc[t] \in {"leave", "visit"} /\ pc'[t] = "enum" /\ UNCHANGED <<waiting, main, dup>>
        /\ loc'[t].op = loc[t].op
    BY <1>0, <1>7 DEF EnumLeave, Goto, LooseType, entryVars, Locs
  <2>2. loc[t].op \in EnumOps
    BY <2>1 DEF Pointers
  <2>3. Frame(t)
    BY <1>7 DEF EnumLeave, Goto, Frame, LooseType
  <2> QED BY <2>1, <2>2, <2>3, NoWait DEF Good, PointersOf, SaPcs, MainPcs
<1>8. CASE EnumEnd(t)
  <2>1. /\ pc[t] = "enum" /\ UNCHANGED <<waiting, dup>>
        /\ pc'[t] = "idle" \/ (pc'[t] = "work" /\ main'[t] \in Sas)
    BY <1>8 DEF EnumEnd, Goto, LooseType, Fresh
  <2>2. Frame(t)
    BY <1>8 DEF EnumEnd, Goto, Frame, LooseType
  <2> QED BY <2>1, <2>2, NoWait DEF Good, PointersOf, SaPcs, MainPcs
<1>9. CASE UniqueDone(t)
  <2>1. pc[t] = "unique" /\ pc'[t] = "work" /\ UNCHANGED <<waiting, main, dup>> /\ main[t] \in Sas
    BY <1>9 DEF UniqueDone, Goto, LooseType, entryVars, Pointers, MainPcs
  <2>2. Frame(t)
    BY <1>9 DEF UniqueDone, Goto, Frame, LooseType
  <2> QED BY <2>1, <2>2, NoWait DEF Good, PointersOf, SaPcs, MainPcs
<1>10. CASE ContactDone(t)
  <2>1. pc[t] = "unique" /\ pc'[t] = "idle" /\ UNCHANGED <<waiting, dup>>
    BY <1>10 DEF ContactDone, Goto, LooseType
  <2>2. Frame(t)
    BY <1>10 DEF ContactDone, Goto, Frame, LooseType
  <2> QED BY <2>1, <2>2, NoWait DEF Good, PointersOf, SaPcs, MainPcs
<1>11. CASE DestroyWakes(t)
  <2>1. pc[t] = "drain" /\ loc[t].sa \in Sas /\ main[t] \in Sas /\ UNCHANGED <<waiting, main, dup>>
    BY <1>11 DEF DestroyWakes, Pointers, SaPcs, MainPcs, entryVars
  <2>2. DriveOut(t, loc[t].sa, "drain", "clean")
    BY <1>11 DEF DestroyWakes
  <2> QED BY <2>1, <2>2, DriveOutGood
<1>12. CASE DestroyClean(t)
  <2>1. pc[t] = "clean" /\ loc[t].sa \in Sas /\ main[t] \in Sas /\ UNCHANGED waiting
    BY <1>12 DEF DestroyClean, Pointers, SaPcs, MainPcs
  <2>2. Return(t, loc[t].sa)
    BY <1>12 DEF DestroyClean
  <2> QED BY <2>1, <2>2, ReturnGood
<1>13. CASE NewSpiWakes(t)
  <2>1. pc[t] = "respi" /\ loc[t].sa \in Sas /\ main[t] \in Sas /\ UNCHANGED <<waiting, main, dup>>
    BY <1>13 DEF NewSpiWakes, Pointers, SaPcs, MainPcs, entryVars
  <2>2. DriveOut(t, loc[t].sa, "respi", "moved")
    BY <1>13 DEF NewSpiWakes
  <2> QED BY <2>1, <2>2, DriveOutGood
<1>14. ASSUME NEW e \in Sas, EnumEntry(t, e) PROVE Good(t)
  <2> DEFINE l == [loc[t] EXCEPT !.todo = @ \ {e}]
  <2>1. l \in Locs /\ pc[t] = "enum" /\ l.op \in EnumOps /\ l.op \notin UniqueOps
    BY <1>0, <1>14 DEF EnumEntry, Locs, Pointers, EnumOps, UniqueOps
  <2>2. CASE WaitForEntry(t, e, 0, l)
    <3> HIDE DEF l
    <3> QED BY <2>1, <2>2, WaitForEntryGood
  <2>3. CASE /\ Goto(t, "leave")
             /\ loc' = [loc EXCEPT ![t] = [l EXCEPT !.sa = e]]
             /\ UNCHANGED <<info, entryVars, table, cacheVars, mutex, main, dup, asleep>>
    <3> HIDE DEF l
    <3>1. /\ pc'[t] = "leave" /\ loc'[t] = [l EXCEPT !.sa = e] /\ UNCHANGED <<waiting, main, dup>>
          /\ Frame(t)
      BY <2>3 DEF Goto, Frame, LooseType, entryVars
    <3>2. loc'[t].sa = e /\ loc'[t].op = l.op
      BY <2>1, <3>1 DEF Locs
    <3> QED BY <2>1, <3>1, <3>2, NoWait DEF Good, PointersOf, SaPcs, MainPcs
  <2> QED BY <1>14, <2>2, <2>3 DEF EnumEntry
<1>15. ASSUME NEW e \in Sas, UniqueNext(t, e) PROVE Good(t)
  <2> DEFINE l == [loc[t] EXCEPT !.todo = @ \ {e}]
  <2>1. l \in Locs /\ pc[t] = "unique" /\ main[t] \in Sas
    BY <1>0, <1>15 DEF UniqueNext, Locs, Pointers, MainPcs
  <2>2. CASE WaitForEntry(t, e, 0, l)
    <3> HIDE DEF l
    <3> QED BY <2>1, <2>2, WaitForEntryGood
  <2>3. CASE /\ loc' = [loc EXCEPT ![t] = l]
             /\ UNCHANGED <<info, entryVars, table, cacheVars, mutex, pc, main, dup, asleep>>
    <3> HIDE DEF l
    <3>1. pc'[t] = "unique" /\ UNCHANGED <<waiting, main, dup>> /\ Frame(t)
      BY <2>1, <2>3 DEF Frame, LooseType, entryVars
    <3> QED BY <2>1, <3>1, NoWait DEF Good, PointersOf, SaPcs, MainPcs
  <2> QED BY <1>15, <2>2, <2>3 DEF UniqueNext
<1>16. ASSUME NEW e \in Sas, FlushEntry(t, e) PROVE Good(t)
  <2>1. /\ pc[t] = "drainall" /\ UNCHANGED <<waiting, main, dup>>
        /\ pc'[t] \in {"drainall", "flushwait"}
    BY <1>16 DEF FlushEntry, Goto, LooseType, entryVars
  <2>2. pc'[t] = "flushwait" => loc'[t].sa = e
    BY <1>0, <1>16 DEF FlushEntry, Goto, LooseType, Locs
  <2>3. Frame(t)
    BY <1>16 DEF FlushEntry, Goto, Frame, LooseType
  <2> QED BY <2>1, <2>2, <2>3, NoWait DEF Good, PointersOf, SaPcs, MainPcs
<1>17. ASSUME NEW s \in Segments, NewSpiPut(t, s) PROVE Good(t)
  <2>1. pc[t] = "moved" /\ pc'[t] = "work" /\ UNCHANGED <<waiting, main, dup>> /\ main[t] \in Sas
    BY <1>17 DEF NewSpiPut, Goto, LooseType, Pointers, MainPcs
  <2>2. Frame(t)
    BY <1>17 DEF NewSpiPut, Goto, Frame, LooseType
  <2> QED BY <2>1, <2>2, NoWait DEF Good, PointersOf, SaPcs, MainPcs
<1>18. CASE FlushLock(t)
  <2>1. /\ pc[t] = "lockall" /\ pc'[t] \in {"lockall", "drainall"}
        /\ UNCHANGED <<waiting, main, dup>>
    BY <1>18 DEF FlushLock, Goto, LooseType
  <2>2. Frame(t)
    BY <1>18 DEF FlushLock, Goto, Frame, LooseType
  <2> QED BY <2>1, <2>2, NoWait DEF Good, PointersOf, SaPcs, MainPcs
<1>19. CASE FlushWakes(t)
  <2>1. pc[t] = "flushwait" /\ pc'[t] = "drainall" /\ UNCHANGED <<waiting, main, dup>>
    BY <1>19 DEF FlushWakes, Goto, LooseType, entryVars
  <2>2. Frame(t)
    BY <1>19 DEF FlushWakes, Goto, Frame, LooseType
  <2> QED BY <2>1, <2>2, NoWait DEF Good, PointersOf, SaPcs, MainPcs
<1>20. CASE FlushDestroy(t) \/ FlushRng(t) \/ ManagerDestroy(t)
  <2>1. /\ pc[t] \in {"drainall", "norng", "flushed"} /\ pc'[t] \in {"norng", "flushed", "destroyed"}
        /\ UNCHANGED <<waiting, main, dup, loc>>
    BY <1>20 DEF FlushDestroy, FlushRng, ManagerDestroy, Goto, LooseType, entryVars
  <2>2. Frame(t)
    BY <1>20 DEF FlushDestroy, FlushRng, ManagerDestroy, Goto, Frame, LooseType
  <2> QED BY <2>1, <2>2, NoWait DEF Good, PointersOf, SaPcs, MainPcs
<1> QED BY <1>1, <1>2, <1>3, <1>4, <1>5, <1>6, <1>7, <1>8, <1>9, <1>10, <1>11, <1>12,
           <1>13, <1>14, <1>15, <1>16, <1>17, <1>18, <1>19, <1>20 DEF Inner

\* Every step is one of a thread, and a good one.
LEMMA StepGood ==
  ASSUME LooseType, Pointers, Next
  PROVE  \E t \in Threads : Good(t)
<1>0. LooseType'
  BY TypeStep
<1>1. ASSUME NEW t \in Threads, FlushStart(t) PROVE Good(t)
  <2>1. pc[t] = "idle" /\ pc'[t] = "lockall" /\ UNCHANGED <<waiting, main, dup>>
    BY <1>1 DEF FlushStart, Goto, LooseType, entryVars
  <2>2. Frame(t)
    BY <1>1 DEF FlushStart, Goto, Frame, LooseType
  <2> QED BY <2>1, <2>2, NoWait DEF Good, PointersOf, SaPcs, MainPcs
<1> QED BY <1>0, <1>1, BeginGood, NestedGood, EndGood, InnerGood DEF Next

-----------------------------------------------------------------------------
\* A finite set that differs from another in one element only.
LEMMA MoveOne ==
  ASSUME NEW S, NEW T, NEW x, IsFiniteSet(S), T \ {x} = S \ {x}
  PROVE  /\ IsFiniteSet(T) /\ Cardinality(S) \in Nat /\ Cardinality(T) \in Nat
         /\ Cardinality(T) = Cardinality(S) + One(x \in T) - One(x \in S)
<1> DEFINE R == S \ {x}
<1>1. /\ IsFiniteSet(R) /\ Cardinality(S) \in Nat
      /\ Cardinality(R) = Cardinality(S) - One(x \in S)
  BY FS_RemoveElement, FS_CardinalityType DEF One
<1>2. T = IF x \in T THEN R \cup {x} ELSE R
  OBVIOUS
<1>3. x \notin R
  OBVIOUS
<1> HIDE DEF R
<1>4. /\ IsFiniteSet(R \cup {x}) /\ Cardinality(R \cup {x}) = Cardinality(R) + 1
  BY <1>1, <1>3, FS_AddElement
<1>5. IsFiniteSet(T) /\ Cardinality(T) \in Nat
  BY <1>1, <1>2, <1>4, FS_CardinalityType
<1>6. CASE x \in T
  <2>1. T = R \cup {x}
    BY <1>2, <1>6
  <2>2. Cardinality(T) = Cardinality(R) + 1
    BY <1>4, <2>1
  <2> QED BY <1>1, <1>5, <1>6, <2>2 DEF One
<1>7. CASE x \notin T
  BY <1>1, <1>2, <1>5, <1>7 DEF One
<1> QED BY <1>1, <1>5, <1>6, <1>7

\* waiting_threads is exact, and the pointers of all threads are valid.
WaitInv == LooseType /\ Pointers /\ WaitingCounted

LEMMA InitWait == Init => WaitInv
<1> SUFFICES ASSUME Init PROVE WaitInv
  OBVIOUS
<1>1. Pointers
  <2>1. \A t \in Threads : pc[t] = "idle"
    BY DEF Init
  <2> QED BY <2>1 DEF Pointers, SaPcs, MainPcs
<1>2. ASSUME NEW e \in Sas PROVE waiting[e] = Cardinality(Waiters(e))
  <2>1. Waiters(e) = {}
    BY DEF Init, Waiters
  <2> QED BY <2>1, FS_EmptySet DEF Init
<1> QED BY <1>1, <1>2, InitType DEF WaitInv, WaitingCounted

LEMMA WaitStep == WaitInv /\ [Next]_vars => WaitInv'
<1> SUFFICES ASSUME WaitInv, [Next]_vars PROVE WaitInv'
  OBVIOUS
<1>1. LooseType /\ LooseType' /\ Pointers /\ WaitingCounted
  BY TypeStep DEF WaitInv
<1>2. CASE UNCHANGED vars
  <2>1. UNCHANGED <<pc, main, dup, loc, waiting>>
    BY <1>2 DEF vars, mgrVars, entryVars, threadVars
  <2>2. Pointers'
    BY <1>1, <2>1 DEF Pointers
  <2>3. WaitingCounted'
    BY <1>1, <2>1 DEF WaitingCounted, Waiters
  <2> QED BY <1>1, <2>2, <2>3 DEF WaitInv
<1>3. CASE Next
  <2>1. PICK t \in Threads : Good(t)
    BY <1>1, <1>3, StepGood
  <2>2. Pointers'
    <3> SUFFICES ASSUME NEW u \in Threads PROVE PointersOf(u)'
      BY DEF Pointers, PointersOf
    <3>1. CASE u = t
      BY <2>1, <3>1 DEF Good
    <3>2. CASE u # t
      BY <1>1, <2>1, <3>2 DEF Good, Frame, Pointers, PointersOf
    <3> QED BY <3>1, <3>2
  <2>3. ASSUME NEW e \in Sas PROVE waiting'[e] = Cardinality(Waiters(e)')
    <3>1. Waiters(e)' \ {t} = Waiters(e) \ {t}
      BY <2>1 DEF Good, Frame, Waiters
    <3>2. (t \in Waiters(e) <=> WaitsFor(t, e)) /\ (t \in Waiters(e)' <=> WaitsFor(t, e)')
      BY DEF Waiters, WaitsFor
    <3>3. IsFiniteSet(Waiters(e))
      BY FS_Subset, SetsAssumption DEF Waiters
    <3>4. Cardinality(Waiters(e)') = Cardinality(Waiters(e)) + One(t \in Waiters(e)')
                                                             - One(t \in Waiters(e))
      BY <3>1, <3>3, MoveOne
    <3>5. waiting'[e] = waiting[e] + One(WaitsFor(t, e)') - One(WaitsFor(t, e))
      BY <2>1 DEF Good, Counted
    <3>6. waiting[e] = Cardinality(Waiters(e))
      BY <1>1 DEF WaitingCounted
    <3> QED BY <3>2, <3>4, <3>5, <3>6 DEF One
  <2> QED BY <1>1, <2>2, <2>3 DEF WaitInv, WaitingCounted
<1> QED BY <1>2, <1>3

\* entry->waiting_threads counts exactly the threads in wait_for_entry, so
\* that checkin_and_destroy, new_initiator_spi and flush, which all go by it,
\* never free or move an entry a thread still waits for, however many threads
\* there are and whatever they do.
THEOREM WaitingTheorem == Spec => []WaitingCounted
<1>1. WaitInv => WaitingCounted
  BY DEF WaitInv
<1> QED BY <1>1, InitWait, WaitStep, PTL DEF Spec

-----------------------------------------------------------------------------
(***************************************************************************)
(* The half-open SAs.  An SA that does not exist yet is not half-open, so  *)
(* that its role may still be chosen.                                      *)
(***************************************************************************)
HalfOf(h) == {e \in Sas : info[e].half = h}
RespOf(h) == {e \in HalfOf(h) : info[e].role = "responder"}
HalfInv   == HalfOpenExact /\ \A e \in Sas : info[e].state = "none" => info[e].half = None

\* A step that does not change which SAs are half-open, nor their role.
Calm == /\ UNCHANGED halfOpen
        /\ \A e \in Sas : /\ info'[e].half = info[e].half
                          /\ info'[e].role = info[e].role \/ info[e].half = None
                          /\ info'[e].state = "none" => info[e].state = "none"

LEMMA CalmStep == HalfInv /\ Calm => HalfInv'
<1> SUFFICES ASSUME HalfInv, Calm PROVE HalfInv'
  OBVIOUS
<1>1. ASSUME NEW h \in Hosts PROVE HalfOf(h)' = HalfOf(h) /\ RespOf(h)' = RespOf(h)
  BY SetsAssumption DEF Calm, HalfOf, RespOf
<1>2. HalfOpenExact'
  BY <1>1 DEF HalfInv, HalfOpenExact, HalfOf, RespOf, Calm
<1> QED BY <1>2 DEF HalfInv, Calm

LEMMA SameCalm == UNCHANGED <<info, halfOpen>> => Calm
BY DEF Calm

\* checkin counts an SA under its current host, and only there.
LEMMA CheckinHalf ==
  ASSUME LooseType, HalfInv, NEW t, NEW e \in Sas, NEW st \in SaStates \ {"none"},
         NEW h \in Hosts, NEW contact \in BOOLEAN, Checkin(t, e, st, h, contact)
  PROVE  HalfInv'
<1> DEFINE new == IF st = "connecting" THEN h ELSE None
<1>1. /\ info'[e].half = new /\ info'[e].role = info[e].role /\ info'[e].state = st
      /\ \A f \in Sas : f # e => info'[f] = info[f]
  <2>1. info[e] \in Infos /\ info \in [Sas -> Infos]
    BY DEF LooseType
  <2>2. info'[e] = [info[e] EXCEPT !.state = st, !.processing = -1, !.half = new,
                                   !.ided = @ \/ (FirstTime(e, st) /\ ~contact)]
    BY <2>1 DEF Checkin
  <2>3. \A f \in Sas : f # e => info'[f] = info[f]
    BY <2>1 DEF Checkin
  <2> HIDE DEF new
  <2> QED BY <2>1, <2>2, <2>3 DEF Infos
<1>2. ASSUME NEW k \in Hosts
      PROVE  /\ halfOpen'[k].all = Cardinality(HalfOf(k)')
             /\ halfOpen'[k].resp = Cardinality(RespOf(k)')
  <2> DEFINE n == (IF k = new THEN 1 ELSE 0) - (IF k = info[e].half THEN 1 ELSE 0)
  <2>1. /\ halfOpen'[k].all = halfOpen[k].all + n
        /\ halfOpen'[k].resp = halfOpen[k].resp + IF info[e].role = "responder" THEN n ELSE 0
    BY DEF Checkin, HalfOpenWith
  <2>2. halfOpen[k].all = Cardinality(HalfOf(k)) /\ halfOpen[k].resp = Cardinality(RespOf(k))
    BY DEF HalfInv, HalfOpenExact, HalfOf, RespOf
  <2>3. HalfOf(k)' \ {e} = HalfOf(k) \ {e} /\ RespOf(k)' \ {e} = RespOf(k) \ {e}
    BY <1>1 DEF HalfOf, RespOf
  <2>4. IsFiniteSet(HalfOf(k)) /\ IsFiniteSet(RespOf(k))
    BY FS_Subset, SetsAssumption DEF HalfOf, RespOf
  <2>5. (e \in HalfOf(k)' <=> k = new) /\ (e \in HalfOf(k) <=> k = info[e].half)
    BY <1>1 DEF HalfOf
  <2>6. /\ e \in RespOf(k)' <=> k = new /\ info[e].role = "responder"
        /\ e \in RespOf(k) <=> k = info[e].half /\ info[e].role = "responder"
    BY <1>1 DEF HalfOf, RespOf
  <2> HIDE DEF new
  <2>7. halfOpen'[k].all = Cardinality(HalfOf(k)')
    <3>1. /\ Cardinality(HalfOf(k)) \in Nat
          /\ Cardinality(HalfOf(k)') = Cardinality(HalfOf(k)) + One(e \in HalfOf(k)')
                                                              - One(e \in HalfOf(k))
      BY <2>3, <2>4, MoveOne
    <3> QED BY <2>1, <2>2, <2>5, <3>1 DEF One
  <2>8. halfOpen'[k].resp = Cardinality(RespOf(k)')
    <3>1. /\ Cardinality(RespOf(k)) \in Nat
          /\ Cardinality(RespOf(k)') = Cardinality(RespOf(k)) + One(e \in RespOf(k)')
                                                              - One(e \in RespOf(k))
      BY <2>3, <2>4, MoveOne
    <3>2. CASE info[e].role = "responder"
      BY <2>1, <2>2, <2>6, <3>1, <3>2 DEF One
    <3>3. CASE info[e].role # "responder"
      BY <2>1, <2>2, <2>6, <3>1, <3>3 DEF One
    <3> QED BY <3>2, <3>3
  <2> QED BY <2>7, <2>8
<1>3. HalfOpenExact'
  BY <1>2 DEF HalfOpenExact, HalfOf, RespOf
<1> QED BY <1>1, <1>3 DEF HalfInv

\* Entries that are destroyed are not counted any more.
LEMMA EntryDestroyHalf ==
  ASSUME LooseType, HalfInv, NEW E \in SUBSET Sas, EntryDestroy(E)
  PROVE  HalfInv'
<1>1. \A e \in Sas : IF e \in E THEN info'[e].half = None /\ info'[e].state = "dead"
                                ELSE info'[e] = info[e]
  BY DEF EntryDestroy, NoInfo
<1>2. ASSUME NEW h \in Hosts
      PROVE  /\ halfOpen'[h].all = Cardinality(HalfOf(h)')
             /\ halfOpen'[h].resp = Cardinality(RespOf(h)')
  <2> DEFINE H == {e \in E : info[e].half = h}
             R == {e \in H : info[e].role = "responder"}
  <2>1. /\ halfOpen'[h].all = halfOpen[h].all - Cardinality(H)
        /\ halfOpen'[h].resp = halfOpen[h].resp - Cardinality(R)
    BY DEF EntryDestroy
  <2>2. halfOpen[h].all = Cardinality(HalfOf(h)) /\ halfOpen[h].resp = Cardinality(RespOf(h))
    BY DEF HalfInv, HalfOpenExact, HalfOf, RespOf
  <2>3. h # None
    BY SetsAssumption
  <2>4. HalfOf(h)' = HalfOf(h) \ E /\ HalfOf(h) \cap E = H
    BY <1>1, <2>3 DEF HalfOf
  <2>5. RespOf(h)' = RespOf(h) \ E /\ RespOf(h) \cap E = R
    BY <1>1, <2>3, <2>4 DEF HalfOf, RespOf
  <2>6. IsFiniteSet(HalfOf(h)) /\ IsFiniteSet(RespOf(h))
    BY FS_Subset, SetsAssumption DEF HalfOf, RespOf
  <2>7. Cardinality(HalfOf(h)') = Cardinality(HalfOf(h)) - Cardinality(H)
    BY <2>4, <2>6, FS_Difference
  <2>8. Cardinality(RespOf(h)') = Cardinality(RespOf(h)) - Cardinality(R)
    BY <2>5, <2>6, FS_Difference
  <2> QED BY <2>1, <2>2, <2>7, <2>8
<1>3. HalfOpenExact'
  BY <1>2 DEF HalfOpenExact, HalfOf, RespOf
<1> QED BY <1>1, <1>3 DEF HalfInv

LEMMA CreateCalm ==
  ASSUME LooseType, NEW t, NEW e \in Sas, NEW st \in SaStates \ {"none"}, Create(t, e, st),
         UNCHANGED halfOpen
  PROVE  Calm
<1>1. PICK s \in Segments : info' = [info EXCEPT ![e].state = st, ![e].seg = s]
  BY DEF Create
<1>2. info'[e] = [info[e] EXCEPT !.state = st, !.seg = s] /\ info[e] \in Infos
  BY <1>1 DEF LooseType
<1>3. \A f \in Sas : f # e => info'[f] = info[f]
  BY <1>1 DEF LooseType
<1>4. info'[e].half = info[e].half /\ info'[e].role = info[e].role /\ info'[e].state = st
  BY <1>2 DEF Infos
<1> QED BY <1>3, <1>4 DEF Calm

LEMMA WaitForEntryCalm ==
  ASSUME LooseType, NEW t, NEW e \in Sas, NEW w, NEW l, WaitForEntry(t, e, w, l)
  PROVE  Calm
<1>0. UNCHANGED halfOpen
  BY DEF WaitForEntry, cacheVars
<1>1. CASE UNCHANGED info
  BY <1>0, <1>1, SameCalm
<1>2. CASE info' = [info EXCEPT ![e].processing = l.mid]
  <2>1. info'[e] = [info[e] EXCEPT !.processing = l.mid] /\ info[e] \in Infos
    BY <1>2 DEF LooseType
  <2>2. \A f \in Sas : f # e => info'[f] = info[f]
    BY <1>2 DEF LooseType
  <2>3. /\ info'[e].half = info[e].half /\ info'[e].role = info[e].role
        /\ info'[e].state = info[e].state
    BY <2>1 DEF Infos
  <2> QED BY <1>0, <2>2, <2>3 DEF Calm
<1> QED BY <1>1, <1>2 DEF WaitForEntry, Refused, Busy, Got, Found, Visit

LEMMA LookupCalm ==
  ASSUME LooseType, NEW t, NEW e \in Sas, NEW i, LookupMessage(t, e, i)
  PROVE  Calm
BY WaitForEntryCalm, SameCalm DEF LookupMessage, cacheVars

LEMMA BeginCalm ==
  ASSUME LooseType, HalfInv, NEW t \in Threads, Begin(t)
  PROVE  Calm
<1>1. CASE NotFound(t)
  BY <1>1, SameCalm DEF NotFound, mgrVars, cacheVars
<1>2. ASSUME NEW e \in Sas, Checkout(t, e) PROVE Calm
  BY <1>2, WaitForEntryCalm DEF Checkout
<1>3. ASSUME NEW e \in Sas, CheckoutNew(t, e) PROVE Calm
  BY <1>3, CreateCalm DEF CheckoutNew, cacheVars, SaStates
<1>4. ASSUME NEW e \in Sas, NEW i \in MsgIds, ReceiveMessage(t, e, i) PROVE Calm
  BY <1>4, LookupCalm DEF ReceiveMessage
<1>5. ASSUME NEW m \in Inits, ReceiveInit(t, m) PROVE Calm
  <2>0. UNCHANGED halfOpen
    BY <1>5 DEF ReceiveInit
  <2>1. CASE UNCHANGED info
    BY <2>0, <2>1, SameCalm
  <2>2. ASSUME NEW e \in Fresh, NEW s \in Segments,
               info' = [info EXCEPT ![e].state = "spi", ![e].hash = m,
                                    ![e].seg = s, ![e].role = "responder"]
        PROVE  Calm
    <3>1. e \in Sas /\ info[e].half = None
      BY DEF Fresh, HalfInv
    <3>2. /\ info'[e] = [info[e] EXCEPT !.state = "spi", !.hash = m, !.seg = s, !.role = "responder"]
          /\ info[e] \in Infos
      BY <2>2, <3>1 DEF LooseType
    <3>3. \A f \in Sas : f # e => info'[f] = info[f]
      BY <2>2, <3>1 DEF LooseType
    <3>4. info'[e].half = info[e].half /\ info'[e].state = "spi"
      BY <3>2 DEF Infos
    <3> QED BY <2>0, <3>1, <3>3, <3>4 DEF Calm
  <2> QED BY <1>5, <2>1, <2>2 DEF ReceiveInit
<1>6. ASSUME NEW o, NEW ws, EnumStart(t, o, ws) PROVE Calm
  BY <1>6, SameCalm DEF EnumStart, cacheVars
<1> QED BY <1>1, <1>2, <1>3, <1>4, <1>5, <1>6 DEF Begin

LEMMA HalfStep ==
  ASSUME LooseType, Pointers, HalfInv, [Next]_vars
  PROVE  HalfInv'
<1>1. CASE UNCHANGED vars
  <2>1. UNCHANGED <<info, halfOpen>>
    BY <1>1 DEF vars, mgrVars, cacheVars
  <2> QED BY <2>1, SameCalm, CalmStep
<1>2. ASSUME NEW t \in Threads, FlushStart(t) PROVE HalfInv'
  BY <1>2, SameCalm, CalmStep DEF FlushStart, cacheVars
<1>3. ASSUME NEW t \in Threads, Begin(t) PROVE HalfInv'
  BY <1>3, BeginCalm, CalmStep
<1>4. ASSUME NEW t \in Threads, Nested(t) PROVE HalfInv'
  <2>1. CASE UniqueStart(t)
    BY <2>1, SameCalm, CalmStep DEF UniqueStart, cacheVars
  <2>2. CASE NewInitiatorSpi(t)
    BY <2>2, SameCalm, CalmStep DEF NewInitiatorSpi, cacheVars
  <2>3. ASSUME NEW e \in Sas, Rekey(t, e) PROVE HalfInv'
    BY <2>3, CreateCalm, CalmStep DEF Rekey, cacheVars, SaStates
  <2> QED BY <1>4, <2>1, <2>2, <2>3 DEF Nested
<1>5. ASSUME NEW t \in Threads, End(t) PROVE HalfInv'
  <2>0. {"connecting", "established", "deleting"} \subseteq SaStates \ {"none"}
    BY DEF SaStates
  <2>1. ASSUME NEW e \in Sas, Destroy(t, e) PROVE HalfInv'
    BY <2>1, SameCalm, CalmStep DEF Destroy, cacheVars
  <2>2. ASSUME NEW e \in Sas, DestroyUnknown(t, e) PROVE HalfInv'
    <3>1. info'[e] = [info[e] EXCEPT !.state = "dead"] /\ info[e] \in Infos
      BY <2>2 DEF DestroyUnknown, LooseType
    <3>2. UNCHANGED halfOpen /\ \A f \in Sas : f # e => info'[f] = info[f]
      BY <2>2 DEF DestroyUnknown, LooseType, cacheVars
    <3>3. info'[e].half = info[e].half /\ info'[e].role = info[e].role /\ info'[e].state = "dead"
      BY <3>1 DEF Infos
    <3> QED BY <3>2, <3>3, CalmStep DEF Calm
  <2>3. ASSUME NEW h \in Hosts, CheckinContact(t, h) PROVE HalfInv'
    <3>1. main[t] \in Sas /\ Checkin(t, main[t], "established", h, TRUE)
      BY <2>3 DEF CheckinContact, Pointers, MainPcs
    <3> QED BY <2>0, <3>1, CheckinHalf
  <2>4. ASSUME NEW h \in Hosts, CheckinRekeyed(t, h) PROVE HalfInv'
    <3>1. dup[t] \in Sas /\ Checkin(t, dup[t], "established", h, FALSE)
      BY <2>4 DEF CheckinRekeyed, Pointers
    <3> QED BY <2>0, <3>1, CheckinHalf
  <2>5. ASSUME NEW st \in {"connecting", "established", "deleting"}, NEW h \in Hosts,
               CheckinMain(t, st, h) \/ UniqueCheckin(t, st, h)
        PROVE  HalfInv'
    <3>1. \E e \in Sas : Checkin(t, e, st, h, FALSE)
      BY <2>5 DEF CheckinMain, UniqueCheckin, Pointers, MainPcs
    <3> QED BY <2>0, <3>1, CheckinHalf
  <2> QED BY <1>5, <2>1, <2>2, <2>3, <2>4, <2>5 DEF End
<1>6. ASSUME NEW t \in Threads, Inner(t) PROVE HalfInv'
  <2>1. CASE Wakes(t)
    <3>1. loc[t].sa \in Sas /\ WaitForEntry(t, loc[t].sa, 1, loc[t])
      BY <2>1 DEF Wakes, Pointers, SaPcs
    <3> QED BY <3>1, WaitForEntryCalm, CalmStep
  <2>2. CASE ReceiveRetransmit(t)
    BY <2>2, LookupCalm, CalmStep DEF ReceiveRetransmit, Pointers, SaPcs
  <2>3. CASE LimitHit(t) \/ PutNew(t)
    <3>1. loc[t].sa \in Sas
      BY <2>3 DEF LimitHit, PutNew, Pointers, SaPcs
    <3> DEFINE e == loc[t].sa
    <3>2. info[e] \in Infos /\ \A f \in Sas : f # e => info'[f] = info[f]
      BY <2>3, <3>1 DEF LimitHit, PutNew, LooseType
    <3>3. \/ info'[e] = [info[e] EXCEPT !.state = "dead", !.hash = None]
          \/ info'[e] = [info[e] EXCEPT !.state = "created", !.processing = 0]
      BY <2>3, <3>1 DEF LimitHit, PutNew, LooseType
    <3>4. info'[e].half = info[e].half /\ info'[e].role = info[e].role /\ info'[e].state # "none"
      BY <3>2, <3>3 DEF Infos
    <3>5. UNCHANGED halfOpen
      BY <2>3 DEF LimitHit, PutNew, cacheVars
    <3> QED BY <3>2, <3>4, <3>5, CalmStep DEF Calm
  <2>4. CASE LimitOk(t) \/ EnumRow(t) \/ EnumLeave(t) \/ UniqueDone(t) \/ DestroyWakes(t)
             \/ NewSpiWakes(t) \/ FlushLock(t) \/ FlushWakes(t) \/ FlushRng(t)
    <3>1. UNCHANGED <<info, halfOpen>>
      BY <2>4 DEF LimitOk, EnumRow, EnumLeave, UniqueDone, DestroyWakes, NewSpiWakes,
                  FlushLock, FlushWakes, FlushRng, cacheVars
    <3> QED BY <3>1, SameCalm, CalmStep
  <2>5. CASE EnumEnd(t)
    <3>1. UNCHANGED halfOpen
      BY <2>5 DEF EnumEnd, cacheVars
    <3>2. CASE UNCHANGED info
      BY <3>1, <3>2, SameCalm, CalmStep
    <3>3. ASSUME NEW e \in Sas, Create(t, e, "created") PROVE HalfInv'
      BY <3>1, <3>3, CreateCalm, CalmStep DEF SaStates
    <3> QED BY <2>5, <3>2, <3>3 DEF EnumEnd, Fresh
  <2>6. CASE ContactDone(t)
    <3>1. main[t] \in Sas
      BY <2>6 DEF ContactDone, Pointers, MainPcs
    <3> DEFINE e == main[t]
    <3>2. info[e] \in Infos /\ \A f \in Sas : f # e => info'[f] = info[f]
      BY <2>6, <3>1 DEF ContactDone, LooseType
    <3>3. info'[e] = [info[e] EXCEPT !.ided = TRUE]
      BY <2>6, <3>1 DEF ContactDone, LooseType
    <3>4. /\ info'[e].half = info[e].half /\ info'[e].role = info[e].role
          /\ info'[e].state = info[e].state
      BY <3>2, <3>3 DEF Infos
    <3>5. UNCHANGED halfOpen
      BY <2>6 DEF ContactDone
    <3> QED BY <3>2, <3>4, <3>5, CalmStep DEF Calm
  <2>7. CASE DestroyClean(t)
    <3>1. {loc[t].sa} \in SUBSET Sas /\ EntryDestroy({loc[t].sa})
      BY <2>7 DEF DestroyClean, Pointers, SaPcs
    <3> QED BY <3>1, EntryDestroyHalf
  <2>8. CASE FlushDestroy(t) \/ ManagerDestroy(t)
    <3>1. table \in SUBSET Sas /\ EntryDestroy(table)
      BY <2>8 DEF FlushDestroy, ManagerDestroy, LooseType
    <3> QED BY <3>1, EntryDestroyHalf
  <2>9. ASSUME NEW e \in Sas, EnumEntry(t, e) \/ UniqueNext(t, e) PROVE HalfInv'
    <3>1. UNCHANGED <<info, halfOpen>> \/ \E w, l : WaitForEntry(t, e, w, l)
      BY <2>9 DEF EnumEntry, UniqueNext, cacheVars
    <3> QED BY <3>1, SameCalm, WaitForEntryCalm, CalmStep
  <2>10. ASSUME NEW e \in Sas, FlushEntry(t, e) PROVE HalfInv'
    BY <2>10, SameCalm, CalmStep DEF FlushEntry, cacheVars
  <2>11. ASSUME NEW s \in Segments, NewSpiPut(t, s) PROVE HalfInv'
    <3>1. loc[t].sa \in Sas
      BY <2>11 DEF NewSpiPut, Pointers, SaPcs
    <3> DEFINE e == loc[t].sa
    <3>2. info[e] \in Infos /\ \A f \in Sas : f # e => info'[f] = info[f]
      BY <2>11, <3>1 DEF NewSpiPut, LooseType
    <3>3. info'[e] = [info[e] EXCEPT !.seg = s]
      BY <2>11, <3>1 DEF NewSpiPut, LooseType
    <3>4. /\ info'[e].half = info[e].half /\ info'[e].role = info[e].role
          /\ info'[e].state = info[e].state
      BY <3>2, <3>3 DEF Infos
    <3>5. UNCHANGED halfOpen
      BY <2>11 DEF NewSpiPut, cacheVars
    <3> QED BY <3>2, <3>4, <3>5, CalmStep DEF Calm
  <2> QED BY <1>6, <2>1, <2>2, <2>3, <2>4, <2>5, <2>6, <2>7, <2>8, <2>9, <2>10, <2>11 DEF Inner
<1> QED BY <1>1, <1>2, <1>3, <1>4, <1>5, <1>6 DEF Next

LEMMA InitHalf == Init => HalfInv
<1> SUFFICES ASSUME Init PROVE HalfInv
  OBVIOUS
<1>1. \A e \in Sas : info[e].half = None
  BY DEF Init, NoInfo
<1>2. ASSUME NEW h \in Hosts
      PROVE  /\ halfOpen[h].all = Cardinality(HalfOf(h))
             /\ halfOpen[h].resp = Cardinality(RespOf(h))
  <2>1. HalfOf(h) = {} /\ RespOf(h) = {}
    BY <1>1, SetsAssumption DEF HalfOf, RespOf
  <2> QED BY <2>1, FS_EmptySet DEF Init
<1> QED BY <1>1, <1>2 DEF HalfInv, HalfOpenExact, HalfOf, RespOf

ManagerInv == WaitInv /\ HalfInv

LEMMA ManagerStep == ManagerInv /\ [Next]_vars => ManagerInv'
BY WaitStep, HalfStep DEF ManagerInv, WaitInv

\* half_open_table counts, host by host, exactly the half-open SAs, all of
\* them and those of responders, whatever interleaving of checkins, address
\* changes, destructions and shutdown has led there: the receiver may go by
\* the numbers.
THEOREM HalfOpenTheorem == Spec => []HalfOpenExact
<1>1. Init => ManagerInv
  BY InitWait, InitHalf DEF ManagerInv
<1>2. ManagerInv => HalfOpenExact
  BY DEF ManagerInv, HalfInv
<1> QED BY <1>1, <1>2, ManagerStep, PTL DEF Spec

\* Type correctness.  In particular the counters, which are u_int in the
\* code, never drop below zero.
THEOREM TypeTheorem == Spec => []TypeOK
<1>1. Init => ManagerInv
  BY InitWait, InitHalf DEF ManagerInv
<1>2. ManagerInv => TypeOK
  <2> SUFFICES ASSUME ManagerInv PROVE TypeOK
    OBVIOUS
  <2>0. LooseType /\ WaitingCounted /\ HalfOpenExact
    BY DEF ManagerInv, WaitInv, HalfInv
  <2>1. waiting \in [Sas -> Nat]
    <3>1. ASSUME NEW e \in Sas PROVE waiting[e] \in Nat
      <4>1. IsFiniteSet(Waiters(e))
        BY FS_Subset, SetsAssumption DEF Waiters
      <4> QED BY <2>0, <4>1, FS_CardinalityType DEF WaitingCounted
    <3> QED BY <2>0, <3>1 DEF LooseType
  <2>2. halfOpen \in [Hosts -> [all : Nat, resp : Nat]]
    <3>1. ASSUME NEW h \in Hosts PROVE halfOpen[h].all \in Nat /\ halfOpen[h].resp \in Nat
      <4>1. IsFiniteSet(HalfOf(h)) /\ IsFiniteSet(RespOf(h))
        BY FS_Subset, SetsAssumption DEF HalfOf, RespOf
      <4>2. halfOpen[h].all = Cardinality(HalfOf(h)) /\ halfOpen[h].resp = Cardinality(RespOf(h))
        BY <2>0 DEF HalfOpenExact, HalfOf, RespOf
      <4> QED BY <4>1, <4>2, FS_CardinalityType
    <3> QED BY <2>0, <3>1 DEF LooseType
  <2> QED BY <2>0, <2>1, <2>2 DEF TypeOK, LooseType
<1> QED BY <1>1, <1>2, ManagerStep, PTL DEF Spec

-----------------------------------------------------------------------------
(* The use of SAs, as long as the daemon runs *)

FlushPcs == {"lockall", "drainall", "flushwait", "norng", "flushed", "destroyed"}
FreePcs  == {"idle", "lookup", "limit", "put", "enum", "visit", "leave"}
HoldPcs  == {"wait", "drain", "respi", "visit", "leave"}
Running  == pc[Flusher] = "idle"

Live(e)  == info[e].state \notin {"none", "spi", "dead"}
\* In a list of connected peers there are SAs with ids, or dead by now.
Known(e) == info[e].ided \/ info[e].state = "dead"
\* What check_uniqueness is called for in checkin is in the table still.
Settled(e) == e \in table /\ info[e].state \in {"established", "deleting"}

\* Which SAs a thread has, by the place where it is.
Places(u) ==
  /\ pc[u] \notin FlushPcs
  /\ pc[u] \in FreePcs => main[u] = None /\ dup[u] = None
  /\ pc[u] \in {"work", "unique", "wait", "respi", "moved"} => dup[u] = None
  /\ pc[u] = "wait" /\ loc[u].op \notin UniqueOps => main[u] = None
  /\ pc[u] \in {"idle", "work", "rekey", "respi", "moved", "limit", "put", "lookup"} =>
       loc[u].op = "none"
  /\ pc[u] \in {"unique", "dispose"} => loc[u].op \in UniqueOps
  /\ pc[u] \in {"drain", "clean"} =>
       /\ loc[u].op \in UniqueOps \cup {"none"}
       /\ \/ loc[u].sa = dup[u]
          \/ loc[u].sa = main[u] /\ dup[u] = None /\ loc[u].op = "none"
  /\ pc[u] \in {"respi", "moved"} => loc[u].sa = main[u]
  /\ main[u] # None => main[u] # dup[u]
  /\ u \in asleep => pc[u] \in SleepPcs

\* What it relies on.
Refers(u) ==
  /\ main[u] \in Sas => out[main[u]] = u
  /\ dup[u] \in Sas => out[dup[u]] = u
  /\ pc[u] \in HoldPcs => loc[u].sa \in table
  /\ pc[u] \in {"clean", "moved"} => loc[u].sa \notin table
  /\ pc[u] \in {"drain", "respi"} => driveout[loc[u].sa]
  /\ pc[u] \in {"respi", "moved"} => ~info[loc[u].sa].ided
  /\ pc[u] \in {"limit", "put"} => info[loc[u].sa].state = "spi"
  /\ loc[u].op = "contact" => Settled(main[u])
  /\ pc[u] = "visit" => out[loc[u].sa] = None

\* An enumerator keeps the segment of the row it is in, unless it waits.
Enumerates(u) ==
  /\ loc[u].op \in EnumOps =>
       /\ loc[u].todo \subseteq table
       /\ \A e, f \in loc[u].todo : info[e].seg = info[f].seg
       /\ pc[u] \in {"wait", "visit", "leave"} =>
            \A e \in loc[u].todo : info[e].seg = info[loc[u].sa].seg
  /\ pc[u] \in {"visit", "leave"} => mutex[info[loc[u].sa].seg] = u
  /\ pc[u] = "enum" => \A e \in loc[u].todo : mutex[info[e].seg] = u

\* check_uniqueness works for an SA that is not among the connected peers,
\* and goes by a list of SAs that are, or were.
Checks(u) ==
  loc[u].op \in UniqueOps =>
    /\ ~info[main[u]].ided
    /\ \A e \in loc[u].todo : Known(e)
    /\ pc[u] = "wait" => Known(loc[u].sa)

ThreadInv(u) == Places(u) /\ Refers(u) /\ Enumerates(u) /\ Checks(u)

\* The entry of an SA, its owner and the connected peers.
SaInv(e) ==
  /\ e \in table => Live(e)
  /\ out[e] # None => Live(e) /\ (main[out[e]] = e \/ dup[out[e]] = e)
  /\ info[e].ided <=> e \in connected
  /\ e \in connected => info[e].state \in {"established", "deleting"}
  /\ e \in connected => e \in table \/ \E t \in Threads : pc[t] = "clean" /\ loc[t].sa = e
  /\ info[e].state \in {"established", "deleting"} =>
       e \in connected \/ \E t \in Threads : main[t] = e /\ loc[t].op = "contact"

\* NoLostWakeup, for one entry.
WakeOf(e) ==
  e \in table =>
    /\ Sleepers(e) # {} /\ out[e] = None =>
         \E u \in Threads \ asleep :
           pc[u] \in SleepPcs \cup {"visit", "leave"} /\ loc[u].sa = e
    /\ (\E u \in Sleepers(e) : pc[u] \in {"drain", "respi"}) =>
         Waiters(e) \ asleep # {}

\* A reserved SPI is known to one thread.
PairInv ==
  \A t, u \in Threads :
    pc[t] \in {"limit", "put"} /\ pc[u] \in {"limit", "put"} /\ loc[t].sa = loc[u].sa
    => t = u

UseInv == /\ \A u \in Threads : ThreadInv(u)
          /\ \A e \in Sas : SaInv(e) /\ WakeOf(e)
          /\ PairInv
-----------------------------------------------------------------------------
(***************************************************************************)
(* A step of thread t that comes to or leaves no entry but x, and changes  *)
(* no SA but y, which is x or None.  Nobody else has y or keeps its        *)
(* segment locked, y leaves the table only when nobody waits for it and    *)
(* out of every row that is enumerated, and the other threads neither gain *)
(* a lock nor lose one.                                                    *)
(***************************************************************************)
Apart(y) ==
  \A e \in Sas : e # y =>
    /\ out'[e] = out[e] /\ info'[e] = info[e] /\ driveout'[e] = driveout[e]
    /\ e \in table' <=> e \in table
    /\ e \in connected' <=> e \in connected

Mine(t, x, y) ==
  /\ \A e \in Sas : e # y => (main'[t] = e <=> main[t] = e) /\ (dup'[t] = e <=> dup[t] = e)
  /\ pc[t] \in HoldPcs => loc[t].sa = x
  /\ pc[t] = "clean" => loc[t].sa = y
  /\ pc'[t] \in HoldPcs => loc'[t].sa = x
  /\ loc[t].op = "contact" /\ main[t] # y => loc'[t].op = "contact"
  /\ pc'[t] \in {"limit", "put"} =>
       \/ pc[t] \in {"limit", "put"} /\ loc'[t].sa = loc[t].sa
       \/ info[loc'[t].sa].state # "spi"

Meets(t, y) ==
  y \in Sas =>
    /\ out[y] \in {None, t}
    /\ y \in table => Unlocked(t, y)
    /\ info[y].state = "spi" => pc[t] \in {"limit", "put"} /\ loc[t].sa = y
    /\ y \in table \ table' => waiting[y] = 0 /\ \A u \in Threads : y \notin loc'[u].todo
    /\ y \in table \cap table' => info'[y].seg = info[y].seg
    /\ Known(y) => Known(y)'

Spares(t, x) ==
  /\ \A s \in Segments : mutex[s] \in {None, t} \/ mutex'[s] = mutex[s]
  /\ \A u \in Threads : u # t => loc'[u].todo \subseteq loc[u].todo
  /\ \A u \in Threads : u # t /\ u \in asleep' => u \in asleep
  /\ \A u \in Threads : u # t /\ u \notin Sleepers(x) /\ u \in asleep => u \in asleep'

Touch(t, x, y) == Apart(y) /\ Mine(t, x, y) /\ Meets(t, y) /\ Spares(t, x)

Context == LooseType /\ LooseType' /\ Pointers /\ Pointers' /\ WaitingCounted /\ UseInv

\* A thread at one of these places owns the entry it is at.
LEMMA Owner ==
  ASSUME LooseType, Pointers, NEW u \in Threads, ThreadInv(u),
         pc[u] \in {"drain", "respi", "clean", "moved"}
  PROVE  loc[u].sa \in Sas /\ out[loc[u].sa] = u
<1>1. loc[u].sa \in Sas
  BY DEF Pointers, SaPcs
<1>2. loc[u].sa = main[u] \/ loc[u].sa = dup[u]
  BY DEF ThreadInv, Places
<1> QED BY <1>1, <1>2 DEF ThreadInv, Refers

\* Nobody waits for an SA with a count of zero.
LEMMA NobodyWaits ==
  ASSUME WaitingCounted, NEW e \in Sas, waiting[e] = 0, NEW u \in Threads, pc[u] = "wait"
  PROVE  loc[u].sa # e
<1>1. IsFiniteSet(Waiters(e))
  BY FS_Subset, SetsAssumption DEF Waiters
<1>2. Waiters(e) = {}
  BY <1>1, FS_EmptySet DEF WaitingCounted
<1> QED BY <1>2 DEF Waiters

\* Somebody does, if it is not.
LEMMA SomebodyWaits ==
  ASSUME WaitingCounted, NEW e \in Sas, waiting[e] # 0
  PROVE  \E u \in Threads : pc[u] = "wait" /\ loc[u].sa = e
<1>1. Waiters(e) # {}
  BY FS_EmptySet DEF WaitingCounted
<1> QED BY <1>1 DEF Waiters

\* The other threads find everything as they left it.
LEMMA OthersKeep ==
  ASSUME Context, NEW t \in Threads, NEW x \in Sas \cup {None}, NEW y \in {x, None}, Frame(t),
         Touch(t, x, y),
         NEW u \in Threads, u # t
  PROVE  ThreadInv(u)'
<1>1. /\ pc'[u] = pc[u] /\ main'[u] = main[u] /\ dup'[u] = dup[u]
      /\ loc'[u].sa = loc[u].sa /\ loc'[u].op = loc[u].op /\ loc'[u].todo \subseteq loc[u].todo
      /\ u \in asleep' => u \in asleep
  BY DEF Frame, Touch, Spares
<1>2. Places(u) /\ Refers(u) /\ Enumerates(u) /\ Checks(u) /\ ThreadInv(u)
  BY DEF Context, UseInv, ThreadInv
<1>t. /\ main[u] \in Sas \cup {None} /\ dup[u] \in Sas \cup {None}
      /\ loc[u].sa \in Sas \cup {None} /\ loc[u].todo \subseteq Sas
      /\ \A e \in Sas : info[e].seg \in Segments /\ info'[e].seg \in Segments
      /\ None \notin Sas
  BY SetsAssumption DEF Context, LooseType, Locs, Infos
<1>p. PointersOf(u)
  BY DEF Context, Pointers, PointersOf
<1>3. main[u] # y \/ y = None
  BY <1>2, <1>t, SetsAssumption DEF Refers, Touch, Meets
<1>4. dup[u] # y \/ y = None
  BY <1>2, <1>t, SetsAssumption DEF Refers, Touch, Meets
<1>5. pc[u] \in {"drain", "respi", "clean", "moved"} => loc[u].sa # y
  <2> SUFFICES ASSUME pc[u] \in {"drain", "respi", "clean", "moved"} PROVE loc[u].sa # y
    OBVIOUS
  <2>1. loc[u].sa \in Sas /\ out[loc[u].sa] = u
    BY <1>2, Owner DEF Context
  <2> QED BY <2>1, SetsAssumption DEF Touch, Meets
<1>6. pc[u] \in {"limit", "put"} => loc[u].sa # y
  BY <1>2, <1>p DEF Refers, Touch, Meets, Context, UseInv, PairInv, PointersOf, SaPcs
<1>7. ASSUME NEW e \in Sas, e \in table, mutex[info[e].seg] = u PROVE e # y
  BY <1>7, SetsAssumption DEF Touch, Meets, Unlocked
<1>8. ASSUME NEW e \in Sas, mutex[info[e].seg] = u, e \in table
      PROVE  e \in table' /\ info'[e].seg = info[e].seg /\ mutex'[info'[e].seg] = u
  <2>1. e # y
    BY <1>7, <1>8
  <2>2. info'[e] = info[e] /\ e \in table'
    BY <1>8, <2>1 DEF Touch, Apart
  <2> QED BY <1>t, <1>8, <2>2, SetsAssumption DEF Touch, Spares
<1>9. ASSUME NEW e \in Sas, e \in table, e \in table' PROVE info'[e].seg = info[e].seg
  BY <1>9 DEF Touch, Apart, Meets
<1>10. ASSUME NEW e \in Sas, Known(e) PROVE Known(e)'
  BY <1>10 DEF Touch, Apart, Meets, Known
<1>11. pc[u] \in HoldPcs => loc[u].sa \in Sas /\ loc[u].sa \in table'
  <2>1. CASE pc[u] = "wait"
    <3>1. loc[u].sa \in Sas /\ loc[u].sa \in table
      BY <1>2, <1>p, <2>1 DEF Refers, HoldPcs, PointersOf, SaPcs
    <3>2. waiting[loc[u].sa] # 0
      BY <2>1, <3>1, NobodyWaits DEF Context
    <3> QED BY <3>1, <3>2 DEF Touch, Apart, Meets
  <2>2. CASE pc[u] \in {"drain", "respi"}
    BY <1>2, <1>5, <1>p, <2>2 DEF Refers, HoldPcs, PointersOf, SaPcs, Touch, Apart
  <2>3. CASE pc[u] \in {"visit", "leave"}
    BY <1>2, <1>8, <1>p, <2>3 DEF Refers, HoldPcs, PointersOf, SaPcs, Enumerates
  <2> QED BY <2>1, <2>2, <2>3 DEF HoldPcs
<1>12. Places(u)'
  BY <1>1, <1>2 DEF Places
<1>13. Refers(u)'
  <2>1. main'[u] \in Sas => out'[main'[u]] = u
    BY <1>1, <1>2, <1>3, <1>t DEF Refers, Touch, Apart
  <2>2. dup'[u] \in Sas => out'[dup'[u]] = u
    BY <1>1, <1>2, <1>4, <1>t DEF Refers, Touch, Apart
  <2>3. pc'[u] \in HoldPcs => loc'[u].sa \in table'
    BY <1>1, <1>11
  <2>4. pc'[u] \in {"clean", "moved"} => loc'[u].sa \notin table'
    BY <1>1, <1>2, <1>5, <1>p DEF Refers, Touch, Apart, PointersOf, SaPcs
  <2>5. pc'[u] \in {"drain", "respi"} => driveout'[loc'[u].sa]
    BY <1>1, <1>2, <1>5, <1>p DEF Refers, Touch, Apart, PointersOf, SaPcs
  <2>6. pc'[u] \in {"limit", "put"} => info'[loc'[u].sa].state = "spi"
    BY <1>1, <1>2, <1>6, <1>p DEF Refers, Touch, Apart, PointersOf, SaPcs
  <2>7. loc'[u].op = "contact" => Settled(main[u])'
    <3>1. ASSUME loc[u].op = "contact" PROVE Settled(main[u]) /\ main[u] \in Sas
      BY <1>2, <3>1 DEF Refers, Context, LooseType, Settled
    <3> QED BY <1>1, <1>3, <1>t, <3>1 DEF Touch, Apart, Settled
  <2>8. pc'[u] = "visit" => out'[loc'[u].sa] = None
    <3> SUFFICES ASSUME pc[u] = "visit" PROVE out'[loc[u].sa] = None
      BY <1>1
    <3>1. loc[u].sa \in Sas /\ loc[u].sa \in table /\ mutex[info[loc[u].sa].seg] = u /\ out[loc[u].sa] = None
      BY <1>2, <1>p DEF Refers, HoldPcs, PointersOf, SaPcs, Enumerates
    <3>2. loc[u].sa # y
      BY <1>7, <3>1
    <3> QED BY <3>1, <3>2 DEF Touch, Apart
  <2>9. pc'[u] \in {"respi", "moved"} => ~info'[loc'[u].sa].ided
    BY <1>1, <1>2, <1>5, <1>p DEF Refers, Touch, Apart, PointersOf, SaPcs
  <2> QED BY <2>1, <2>2, <2>3, <2>4, <2>5, <2>6, <2>7, <2>8, <2>9 DEF Refers
<1>14. Enumerates(u)'
  <2>1. ASSUME loc[u].op \in EnumOps
        PROVE  \A e \in loc'[u].todo : e \in Sas /\ e \in table /\ e \in table' /\ info'[e].seg = info[e].seg
    <3> SUFFICES ASSUME NEW e \in loc'[u].todo
                 PROVE  e \in Sas /\ e \in table /\ e \in table' /\ info'[e].seg = info[e].seg
      OBVIOUS
    <3>1. e \in Sas /\ e \in table
      BY <1>1, <1>2, <1>t, <2>1 DEF Enumerates
    <3>2. e \in table'
      BY <3>1 DEF Touch, Apart, Meets
    <3> QED BY <1>9, <3>1, <3>2
  <2>2. ASSUME loc[u].op \in EnumOps
        PROVE  /\ loc'[u].todo \subseteq table'
               /\ \A e, f \in loc'[u].todo : info'[e].seg = info'[f].seg
    BY <1>1, <1>2, <2>1, <2>2 DEF Enumerates
  <2>3. ASSUME loc[u].op \in EnumOps, pc[u] \in {"wait", "visit", "leave"}, NEW e \in loc'[u].todo
        PROVE  info'[e].seg = info'[loc'[u].sa].seg
    <3>1. loc[u].sa \in Sas /\ loc[u].sa \in table /\ loc[u].sa \in table'
      BY <1>2, <1>11, <2>3 DEF Refers, HoldPcs
    <3>2. info'[loc[u].sa].seg = info[loc[u].sa].seg
      BY <1>9, <3>1
    <3> QED BY <1>1, <1>2, <2>1, <2>3, <3>2 DEF Enumerates
  <2>4. ASSUME pc[u] \in {"visit", "leave"}
        PROVE  mutex'[info'[loc'[u].sa].seg] = u
    <3>1. loc[u].sa \in Sas /\ loc[u].sa \in table /\ mutex[info[loc[u].sa].seg] = u
      BY <1>2, <1>p, <2>4 DEF Refers, HoldPcs, PointersOf, SaPcs, Enumerates
    <3> QED BY <1>1, <1>8, <3>1
  <2>5. ASSUME pc[u] = "enum", NEW e \in loc'[u].todo
        PROVE  mutex'[info'[e].seg] = u
    <3>1. loc[u].op \in EnumOps /\ mutex[info[e].seg] = u
      BY <1>1, <1>2, <1>p, <2>5 DEF PointersOf, Enumerates
    <3> QED BY <1>8, <2>1, <3>1
  <2> QED BY <1>1, <2>2, <2>3, <2>4, <2>5 DEF Enumerates
<1>15. Checks(u)'
  <2> SUFFICES ASSUME loc[u].op \in UniqueOps
               PROVE  /\ ~info'[main'[u]].ided
                      /\ \A e \in loc'[u].todo : Known(e)'
                      /\ pc'[u] = "wait" => info'[loc[u].sa].ided \/ info'[loc[u].sa].state = "dead"
    BY <1>1 DEF Checks, Known
  <2>1. ~info[main[u]].ided /\ (\A e \in loc[u].todo : Known(e)) /\ (pc[u] = "wait" => Known(loc[u].sa))
    BY <1>2 DEF Checks
  <2>2. main[u] \in Sas
    <3>1. pc[u] \notin FreePcs \cup FlushPcs
      BY <1>2, <1>p DEF Places, FreePcs, PointersOf, EnumOps, UniqueOps
    <3>2. pc[u] \in Pcs
      BY DEF Context, LooseType
    <3> QED BY <1>p, <3>1, <3>2 DEF PointersOf, MainPcs, Pcs, FreePcs, FlushPcs
  <2>3. ~info'[main'[u]].ided
    BY <1>1, <1>3, <1>t, <2>1, <2>2 DEF Touch, Apart
  <2>4. \A e \in loc'[u].todo : Known(e)'
    BY <1>1, <1>10, <1>t, <2>1
  <2>5. pc'[u] = "wait" => info'[loc[u].sa].ided \/ info'[loc[u].sa].state = "dead"
    BY <1>1, <1>10, <1>p, <2>1 DEF PointersOf, SaPcs, Known
  <2> QED BY <2>3, <2>4, <2>5
<1> QED BY <1>12, <1>13, <1>14, <1>15 DEF ThreadInv

\* So do the other SAs.
LEMMA OtherSas ==
  ASSUME Context, NEW t \in Threads, NEW x \in Sas \cup {None}, NEW y \in {x, None}, Frame(t),
         Touch(t, x, y),
         NEW e \in Sas, e # y
  PROVE  SaInv(e)'
<1>1. /\ out'[e] = out[e] /\ info'[e] = info[e] /\ (e \in table' <=> e \in table)
      /\ e \in connected' <=> e \in connected
  BY DEF Touch, Apart
<1>2. SaInv(e)
  BY DEF Context, UseInv
<1>3. \A u \in Threads : (main'[u] = e <=> main[u] = e) /\ (dup'[u] = e <=> dup[u] = e)
  BY DEF Touch, Mine, Frame
<1>4. out[e] \in Threads \cup {None}
  BY DEF Context, LooseType
<1>5. ASSUME NEW u \in Threads, pc[u] = "clean", loc[u].sa = e
      PROVE  pc'[u] = "clean" /\ loc'[u].sa = e
  BY <1>5 DEF Touch, Mine, Frame
<1>6. ASSUME NEW u \in Threads, main[u] = e, loc[u].op = "contact"
      PROVE  main'[u] = e /\ loc'[u].op = "contact"
  BY <1>3, <1>6 DEF Touch, Mine, Frame
<1>7. out'[e] # None => Live(e)' /\ (main'[out'[e]] = e \/ dup'[out'[e]] = e)
  BY <1>1, <1>2, <1>3, <1>4 DEF SaInv, Live
<1>8. e \in connected' => e \in table' \/ \E u \in Threads : pc'[u] = "clean" /\ loc'[u].sa = e
  BY <1>1, <1>2, <1>5 DEF SaInv
<1>9. info'[e].state \in {"established", "deleting"} =>
        e \in connected' \/ \E u \in Threads : main'[u] = e /\ loc'[u].op = "contact"
  BY <1>1, <1>2, <1>6 DEF SaInv
<1> QED BY <1>1, <1>2, <1>7, <1>8, <1>9 DEF SaInv, Live

LEMMA OtherWakes ==
  ASSUME Context, NEW t \in Threads, NEW x \in Sas \cup {None}, NEW y \in {x, None}, Frame(t),
         Touch(t, x, y),
         NEW e \in Sas, e # x, pc'[t] \notin FlushPcs
  PROVE  WakeOf(e)'
<1>1. out'[e] = out[e] /\ (e \in table' <=> e \in table) /\ WakeOf(e)
  BY SetsAssumption DEF Touch, Apart, Context, UseInv
<1>f. \A u \in Threads : pc[u] \notin FlushPcs
  BY DEF Context, UseInv, ThreadInv, Places
<1>2. /\ pc[t] \in SleepPcs \cup {"visit", "leave"} => loc[t].sa # e
      /\ pc'[t] \in SleepPcs \cup {"visit", "leave"} => loc'[t].sa # e
  BY <1>f DEF Touch, Mine, HoldPcs, FlushPcs, SleepPcs
<1>3. \A u \in Threads : /\ pc'[u] \in SleepPcs \cup {"visit", "leave"} /\ loc'[u].sa = e <=>
                            pc[u] \in SleepPcs \cup {"visit", "leave"} /\ loc[u].sa = e
                         /\ u # t => pc'[u] = pc[u]
  BY <1>2 DEF Frame
<1>4. \A u \in Threads : u # t /\ loc[u].sa = e => (u \in asleep' <=> u \in asleep)
  BY DEF Touch, Spares, Sleepers
<1>5. asleep \subseteq Threads /\ asleep' \subseteq Threads
  BY DEF Context, LooseType
<1>6. Sleepers(e)' = Sleepers(e)
  BY <1>2, <1>3, <1>4, <1>5 DEF Sleepers, Frame
<1>7. \A u \in Sleepers(e) : pc'[u] = pc[u]
  BY <1>2, <1>3, <1>5 DEF Sleepers
<1>8. Waiters(e)' \ asleep' = Waiters(e) \ asleep
  BY <1>2, <1>3, <1>4 DEF Waiters, Frame, SleepPcs
<1>9. ASSUME NEW u \in Threads \ asleep, pc[u] \in SleepPcs \cup {"visit", "leave"}, loc[u].sa = e
      PROVE  u \in Threads \ asleep' /\ pc'[u] \in SleepPcs \cup {"visit", "leave"} /\ loc'[u].sa = e
  BY <1>2, <1>3, <1>4, <1>9
<1> QED BY <1>1, <1>6, <1>7, <1>8, <1>9 DEF WakeOf

LEMMA PairKeep ==
  ASSUME Context, NEW t \in Threads, NEW x \in Sas \cup {None}, NEW y \in {x, None}, Frame(t),
         Touch(t, x, y)
  PROVE  PairInv'
<1> SUFFICES ASSUME NEW u \in Threads, NEW v \in Threads,
                    pc'[u] \in {"limit", "put"}, pc'[v] \in {"limit", "put"},
                    loc'[u].sa = loc'[v].sa, u # v
             PROVE  FALSE
  BY DEF PairInv
<1>1. \A w \in Threads : w # t => pc'[w] = pc[w] /\ loc'[w].sa = loc[w].sa
  BY DEF Frame
<1>2. \A w \in Threads : pc[w] \in {"limit", "put"} => info[loc[w].sa].state = "spi"
  BY DEF Context, UseInv, ThreadInv, Refers
<1>3. pc'[t] \in {"limit", "put"} =>
       \/ pc[t] \in {"limit", "put"} /\ loc'[t].sa = loc[t].sa
       \/ info[loc'[t].sa].state # "spi"
  BY DEF Touch, Mine
<1> QED BY <1>1, <1>2, <1>3 DEF Context, UseInv, PairInv

\* The invariant holds after a step if it does for its thread and its SA.
LEMMA UseKeep ==
  ASSUME Context, NEW t \in Threads, NEW x \in Sas \cup {None}, NEW y \in {x, None}, Frame(t),
         Touch(t, x, y),
         ThreadInv(t)', y \in Sas => SaInv(y)', x \in Sas => WakeOf(x)'
  PROVE  UseInv'
<1>1. \A u \in Threads : ThreadInv(u)'
  BY OthersKeep
<1>2. pc'[t] \notin FlushPcs
  BY DEF ThreadInv, Places
<1>3. \A e \in Sas : SaInv(e)'
  BY OtherSas
<1>4. \A e \in Sas : WakeOf(e)'
  BY <1>2, OtherWakes
<1> QED BY <1>1, <1>3, <1>4, PairKeep DEF UseInv

-----------------------------------------------------------------------------
(***************************************************************************)
(* No wakeup is lost at the entry a step is about.                         *)
(***************************************************************************)

\* Nobody sleeps on an entry that comes into the table.
LEMMA WakeNew ==
  ASSUME Context, NEW t \in Threads, NEW x \in Sas, NEW y \in {x, None}, Frame(t),
         Touch(t, x, y),
         x \notin table, t \notin asleep'
  PROVE  WakeOf(x)'
<1>1. ASSUME NEW u \in Threads, u # t, pc[u] \in SleepPcs, loc[u].sa = x PROVE FALSE
  <2>1. pc[u] \in HoldPcs
    BY <1>1 DEF Context, UseInv, ThreadInv, Places, SleepPcs, HoldPcs, FlushPcs
  <2> QED BY <1>1, <2>1 DEF Context, UseInv, ThreadInv, Refers
<1>2. Sleepers(x)' = {}
  BY <1>1 DEF Sleepers, Frame, Context, LooseType
<1> QED BY <1>2 DEF WakeOf

\* The entry is in use, and nobody is driven out.
LEMMA WakeBusy ==
  ASSUME Context, NEW t \in Threads, NEW x \in Sas, NEW y \in {x, None}, Frame(t),
         Touch(t, x, y), ThreadInv(t)',
         out'[x] # None, ~driveout'[x]
  PROVE  WakeOf(x)'
<1>1. \A u \in Threads : ThreadInv(u)'
  BY OthersKeep
<1>2. \A u \in Threads : pc'[u] \in {"drain", "respi"} => loc'[u].sa # x
  BY <1>1 DEF ThreadInv, Refers
<1>3. \A u \in Sleepers(x)' : pc'[u] \notin {"drain", "respi"}
  BY <1>2 DEF Sleepers, Context, LooseType
<1> QED BY <1>3 DEF WakeOf

\* The thread stands on the entry itself, and nobody is driven out.
LEMMA WakeHere ==
  ASSUME Context, NEW t \in Threads, NEW x \in Sas, NEW y \in {x, None}, Frame(t),
         Touch(t, x, y), ThreadInv(t)',
         t \notin asleep', pc'[t] \in {"visit", "leave"}, loc'[t].sa = x, ~driveout'[x]
  PROVE  WakeOf(x)'
<1>1. \A u \in Threads : ThreadInv(u)'
  BY OthersKeep
<1>2. \A u \in Threads : pc'[u] \in {"drain", "respi"} => loc'[u].sa # x
  BY <1>1 DEF ThreadInv, Refers
<1>3. \A u \in Sleepers(x)' : pc'[u] \notin {"drain", "respi"}
  BY <1>2 DEF Sleepers, Context, LooseType
<1> QED BY <1>3 DEF WakeOf

\* The thread signals the entry it leaves.
LEMMA WakeSignal ==
  ASSUME Context, NEW t \in Threads, NEW x \in Sas, Frame(t), asleep' \in Signal(x),
         t \notin asleep, pc'[t] \notin SleepPcs
  PROVE  WakeOf(x)'
<1>1. \A u \in Threads : u # t => pc'[u] = pc[u] /\ loc'[u].sa = loc[u].sa
  BY DEF Frame
<1>a. asleep \subseteq Threads
  BY DEF Context, LooseType
<1>2. CASE Sleepers(x) = {}
  <2>1. asleep' = asleep
    BY <1>2 DEF Signal
  <2>2. Sleepers(x)' = {}
    BY <1>1, <1>2, <1>a, <2>1 DEF Sleepers
  <2> QED BY <2>2 DEF WakeOf
<1>3. ASSUME NEW v \in Sleepers(x), asleep' = asleep \ {v} PROVE WakeOf(x)'
  <2>1. v \in Threads /\ v # t /\ pc[v] \in SleepPcs /\ loc[v].sa = x
    BY <1>a DEF Sleepers
  <2>2. v \in Threads \ asleep' /\ pc'[v] = pc[v] /\ loc'[v].sa = x
    BY <1>1, <1>3, <2>1
  <2>3. ASSUME NEW u \in Sleepers(x)', pc'[u] \in {"drain", "respi"} PROVE v \in Waiters(x)'
    <3>1. u \in Threads /\ u # t /\ u # v /\ pc[u] \in {"drain", "respi"} /\ loc[u].sa = x
      BY <1>1, <1>3, <1>a, <2>3 DEF Sleepers
    <3>2. out[x] = u
      BY <3>1, Owner DEF Context, UseInv
    <3>3. pc[v] \in {"drain", "respi"} => out[x] = v
      BY <2>1, Owner DEF Context, UseInv
    <3>4. pc[v] \in {"wait", "drain", "respi"}
      BY <2>1 DEF Context, UseInv, ThreadInv, Places, SleepPcs, FlushPcs
    <3>5. pc[v] = "wait"
      BY <3>1, <3>2, <3>3, <3>4
    <3> QED BY <2>2, <3>5 DEF Waiters
  <2> QED BY <2>1, <2>2, <2>3 DEF WakeOf
<1> QED BY <1>2, <1>3 DEF Signal

\* Who sleeps does not change.
LEMMA WakeQuiet ==
  ASSUME Context, NEW t \in Threads, NEW x \in Sas, Frame(t), UNCHANGED asleep,
         t \notin asleep, pc[t] \notin HoldPcs, pc'[t] \notin SleepPcs,
         out'[x] = out[x], x \in table' => x \in table
  PROVE  WakeOf(x)'
<1>1. \A u \in Threads : u # t => pc'[u] = pc[u] /\ loc'[u].sa = loc[u].sa
  BY DEF Frame
<1>a. asleep \subseteq Threads
  BY DEF Context, LooseType
<1>f. pc[t] \notin SleepPcs \cup {"visit", "leave"}
  BY DEF Context, UseInv, ThreadInv, Places, SleepPcs, FlushPcs, HoldPcs
<1>2. Sleepers(x)' = Sleepers(x)
  BY <1>1, <1>a DEF Sleepers
<1>3. \A u \in Sleepers(x) : u # t /\ pc'[u] = pc[u]
  BY <1>1, <1>a DEF Sleepers
<1>4. Waiters(x) \subseteq Waiters(x)'
  BY <1>1, <1>f DEF Waiters, SleepPcs
<1>5. ASSUME NEW u \in Threads \ asleep, pc[u] \in SleepPcs \cup {"visit", "leave"}, loc[u].sa = x
      PROVE  pc'[u] \in SleepPcs \cup {"visit", "leave"} /\ loc'[u].sa = x
  BY <1>1, <1>5, <1>f
<1>6. WakeOf(x)
  BY DEF Context, UseInv
<1> QED BY <1>2, <1>3, <1>4, <1>5, <1>6 DEF WakeOf

\* The thread wakes all others and waits for them to leave.
LEMMA WakeDrain ==
  ASSUME Context, NEW t \in Threads, NEW x \in Sas, Frame(t), asleep' = Broadcast(x) \cup {t},
         waiting[x] # 0, out'[x] = t, pc[t] # "wait", pc'[t] \in {"drain", "respi"}
  PROVE  WakeOf(x)'
<1>1. PICK u \in Threads : pc[u] = "wait" /\ loc[u].sa = x
  BY SomebodyWaits DEF Context
<1>2. u # t /\ pc'[u] = "wait" /\ loc'[u].sa = x
  BY <1>1 DEF Frame
<1>3. u \in Waiters(x)' /\ u \notin asleep'
  BY <1>1, <1>2 DEF Waiters, Broadcast, Sleepers, SleepPcs
<1>4. out'[x] # None
  BY SetsAssumption
<1> QED BY <1>3, <1>4 DEF WakeOf

-----------------------------------------------------------------------------
(***************************************************************************)
(* The places where a thread comes to rest.                                *)
(***************************************************************************)
LEMMA AtIdle ==
  ASSUME NEW t \in Threads, pc'[t] = "idle", main'[t] = None, dup'[t] = None,
         loc'[t].op = "none", t \notin asleep'
  PROVE  ThreadInv(t)'
<1>1. None \notin Sas
  BY SetsAssumption
<1>2. Places(t)'
  BY DEF Places, FlushPcs
<1>3. Refers(t)'
  BY <1>1 DEF Refers, HoldPcs
<1>4. Enumerates(t)' /\ Checks(t)'
  BY DEF Enumerates, Checks, EnumOps, UniqueOps
<1> QED BY <1>2, <1>3, <1>4 DEF ThreadInv

LEMMA AtWork ==
  ASSUME NEW t \in Threads, pc'[t] = "work", main'[t] \in Sas, out'[main'[t]] = t,
         dup'[t] = None, loc'[t].op = "none", t \notin asleep'
  PROVE  ThreadInv(t)'
<1>1. None \notin Sas
  BY SetsAssumption
<1>2. Places(t)'
  BY <1>1 DEF Places, FlushPcs, FreePcs
<1>3. Refers(t)'
  BY <1>1 DEF Refers, HoldPcs
<1>4. Enumerates(t)' /\ Checks(t)'
  BY DEF Enumerates, Checks, EnumOps, UniqueOps
<1> QED BY <1>2, <1>3, <1>4 DEF ThreadInv

LEMMA AtUnique ==
  ASSUME NEW t \in Threads, pc'[t] = "unique", main'[t] \in Sas, out'[main'[t]] = t,
         dup'[t] = None, loc'[t].op \in UniqueOps, t \notin asleep',
         ~info'[main'[t]].ided, \A f \in loc'[t].todo : Known(f)',
         loc'[t].op = "contact" => Settled(main[t])'
  PROVE  ThreadInv(t)'
<1>1. None \notin Sas
  BY SetsAssumption
<1>2. Places(t)'
  BY <1>1 DEF Places, FlushPcs, FreePcs
<1>3. Refers(t)'
  BY <1>1 DEF Refers, HoldPcs
<1>4. Enumerates(t)' /\ Checks(t)'
  BY DEF Enumerates, Checks, EnumOps, UniqueOps, Known
<1> QED BY <1>2, <1>3, <1>4 DEF ThreadInv

LEMMA AtDispose ==
  ASSUME NEW t \in Threads, pc'[t] = "dispose", main'[t] \in Sas, out'[main'[t]] = t,
         dup'[t] \in Sas, out'[dup'[t]] = t, main'[t] # dup'[t],
         loc'[t].op \in UniqueOps, t \notin asleep',
         ~info'[main'[t]].ided, \A f \in loc'[t].todo : Known(f)',
         loc'[t].op = "contact" => Settled(main[t])'
  PROVE  ThreadInv(t)'
<1>2. Places(t)'
  BY DEF Places, FlushPcs, FreePcs
<1>3. Refers(t)'
  BY DEF Refers, HoldPcs
<1>4. Enumerates(t)' /\ Checks(t)'
  BY DEF Enumerates, Checks, EnumOps, UniqueOps, Known
<1> QED BY <1>2, <1>3, <1>4 DEF ThreadInv

\* An enumerator on an entry.
LEMMA AtEntry ==
  ASSUME LooseType', NEW t \in Threads, pc'[t] \in {"visit", "leave"}, main'[t] = None, dup'[t] = None,
         loc'[t].op \in EnumOps, t \notin asleep', loc'[t].sa \in table',
         mutex'[info'[loc'[t].sa].seg] = t,
         pc'[t] = "visit" => out'[loc'[t].sa] = None,
         loc'[t].todo \subseteq table',
         \A f \in loc'[t].todo : info'[f].seg = info'[loc'[t].sa].seg
  PROVE  ThreadInv(t)'
<1>1. None \notin Sas
  BY SetsAssumption
<1>2. Places(t)'
  BY <1>1 DEF Places, FlushPcs, FreePcs
<1>3. Refers(t)'
  BY <1>1 DEF Refers, HoldPcs, EnumOps
<1>4. Enumerates(t)' /\ Checks(t)'
  BY DEF Enumerates, Checks, EnumOps, UniqueOps
<1> QED BY <1>2, <1>3, <1>4 DEF ThreadInv

-----------------------------------------------------------------------------
(***************************************************************************)
(* wait_for_entry, by whoever may call it: it has no second SA, and a      *)
(* first one only in check_uniqueness.                                     *)
(***************************************************************************)
Ready(t, e, w, l) ==
  /\ e \in table /\ t \notin asleep /\ dup[t] = None
  /\ w = 1 => pc[t] = "wait" /\ loc[t].sa = e
  /\ w = 0 => pc[t] \in {"idle", "lookup", "enum", "unique"}
  /\ loc[t].op = "contact" => l.op = "contact"
  /\ l.op \notin UniqueOps => main[t] = None
  /\ l.op \in UniqueOps => /\ main[t] \in Sas /\ out[main[t]] = t /\ ~info[main[t]].ided
                           /\ Known(e) /\ \A f \in l.todo : Known(f)
  /\ l.op = "contact" => Settled(main[t])
  /\ l.op \in EnumOps => /\ l.todo \subseteq table
                         /\ \A f \in l.todo : info[f].seg = info[e].seg

\* The entry is looked at only.
LEMMA LookTouch ==
  ASSUME Context, NEW t \in Threads, NEW e \in Sas, NEW w \in {0, 1}, NEW l, Ready(t, e, w, l),
         Unlocked(t, e), UNCHANGED <<info, out, driveout, table, connected, main, dup>>,
         \A u \in Threads : u # t => loc'[u] = loc[u],
         pc'[t] \in HoldPcs => loc'[t].sa = e, pc'[t] \notin {"limit", "put"},
         loc[t].op = "contact" => loc'[t].op = "contact",
         UNCHANGED mutex \/ Lock(e, None) \/ Lock(e, t),
         \A u \in Threads : u # t /\ u \in asleep' => u \in asleep,
         \A u \in Threads : u # t /\ u \notin Sleepers(e) /\ u \in asleep => u \in asleep'
  PROVE  Touch(t, e, None)
<1>1. None \notin Sas
  BY SetsAssumption
<1>2. Apart(None)
  BY DEF Apart
<1>3. pc[t] \in HoldPcs => loc[t].sa = e
  BY DEF Ready, HoldPcs
<1>4. pc[t] # "clean"
  BY DEF Ready
<1>5. Mine(t, e, None)
  BY <1>3, <1>4 DEF Mine
<1>6. Meets(t, None)
  BY <1>1 DEF Meets
<1>7. \A s \in Segments : mutex[s] \in {None, t} \/ mutex'[s] = mutex[s]
  <2>1. mutex \in [Segments -> Threads \cup {None}] /\ info[e].seg \in Segments
    BY DEF Context, LooseType, Infos
  <2> QED BY <2>1 DEF Lock, Unlocked
<1>8. Spares(t, e)
  BY <1>7 DEF Spares
<1> QED BY <1>2, <1>5, <1>6, <1>8 DEF Touch

\* What condvar->signal does to the others.
LEMMA SignalSpares ==
  ASSUME NEW t, NEW e, asleep' \in Signal(e)
  PROVE  /\ \A u \in Threads : u \in asleep' => u \in asleep
         /\ \A u \in Threads : u \notin Sleepers(e) /\ u \in asleep => u \in asleep'
BY DEF Signal

LEMMA RefusedUse ==
  ASSUME Context, NEW t \in Threads, NEW e \in Sas, NEW w \in {0, 1}, NEW l \in Locs,
         Refused(t, e, w, l), Unlocked(t, e), UNCHANGED <<driveout, table, cacheVars>>,
         Ready(t, e, w, l), Frame(t)
  PROVE  UseInv'
<1>0. [l EXCEPT !.sa = e].sa = e /\ [l EXCEPT !.sa = e].op = l.op /\ [l EXCEPT !.sa = e].todo = l.todo
  BY DEF Locs
<1>1. /\ UNCHANGED <<info, out, main, dup, driveout, table, connected>>
      /\ asleep' \in IF w = 1 THEN Signal(e) ELSE {asleep}
  BY DEF Refused, cacheVars
<1>2. asleep' \in Signal(e) \/ asleep' = asleep
  BY <1>1
<1>3. /\ \A u \in Threads : u \in asleep' => u \in asleep
      /\ \A u \in Threads : u \notin Sleepers(e) /\ u \in asleep => u \in asleep'
  BY <1>2, SignalSpares
<1>4. t \notin asleep /\ t \notin asleep'
  BY <1>3 DEF Ready
<1>n. NoLoc.op = "none"
  BY DEF NoLoc
<1>5. CASE l.op \in EnumOps
  <2>1. /\ pc'[t] = "leave" /\ loc'[t] = [l EXCEPT !.sa = e] /\ Lock(e, t)
        /\ \A u \in Threads : u # t => loc'[u] = loc[u]
    BY <1>5 DEF Refused, Goto, Context, LooseType
  <2>2. loc'[t].sa = e /\ loc'[t].op = l.op /\ loc'[t].todo = l.todo
    BY <1>0, <2>1
  <2>3. mutex'[info'[e].seg] = t
    BY <1>1, <2>1 DEF Lock, Context, LooseType, Infos
  <2>4. l.op \notin UniqueOps /\ l.op # "contact"
    BY <1>5 DEF EnumOps, UniqueOps
  <2>5. ThreadInv(t)'
    <3>1. main'[t] = None /\ dup'[t] = None /\ e \in table'
      BY <1>1, <2>4 DEF Ready
    <3>2. loc'[t].todo \subseteq table' /\ \A f \in loc'[t].todo : info'[f].seg = info'[e].seg
      BY <1>1, <1>5, <2>2 DEF Ready
    <3>3. LooseType'
      BY DEF Context
    <3> QED BY <1>4, <1>5, <2>1, <2>2, <2>3, <3>1, <3>2, <3>3, AtEntry
  <2>6. loc[t].op # "contact"
    BY <2>4 DEF Ready
  <2>7. Touch(t, e, None)
    BY <1>1, <1>3, <2>1, <2>2, <2>6, LookTouch
  <2>8. WakeOf(e)'
    <3>1. CASE w = 1
      BY <1>1, <1>4, <2>1, <3>1, WakeSignal DEF SleepPcs
    <3>2. CASE w = 0
      <4>1. UNCHANGED asleep /\ pc[t] \notin HoldPcs
        BY <1>1, <3>2 DEF Ready, HoldPcs
      <4> QED BY <1>1, <1>4, <2>1, <4>1, WakeQuiet DEF SleepPcs
    <3> QED BY <3>1, <3>2
  <2> QED BY <2>5, <2>7, <2>8, UseKeep, SetsAssumption
<1>6. CASE l.op \notin EnumOps
  <2>0. Back(t, l) /\ UNCHANGED mutex
    BY <1>6 DEF Refused
  <2>1. /\ pc'[t] \in {"unique", "idle"} /\ \A u \in Threads : u # t => loc'[u] = loc[u]
        /\ pc'[t] = "unique" <=> l.op \in UniqueOps
        /\ pc'[t] = "unique" => loc'[t] = [l EXCEPT !.sa = None]
        /\ pc'[t] = "idle" => loc'[t] = NoLoc
    BY <2>0 DEF Back, Goto, Context, LooseType
  <2>2. pc'[t] = "unique" => loc'[t].op = l.op /\ loc'[t].todo = l.todo
    BY <2>1 DEF Locs
  <2>3. ThreadInv(t)'
    <3>1. CASE pc'[t] = "idle"
      <4>1. main'[t] = None /\ dup'[t] = None /\ loc'[t].op = "none"
        BY <1>1, <1>n, <2>1, <3>1 DEF Ready
      <4> QED BY <1>4, <3>1, <4>1, AtIdle
    <3>2. CASE pc'[t] = "unique"
      <4>1. /\ main'[t] \in Sas /\ out'[main'[t]] = t /\ dup'[t] = None /\ ~info'[main'[t]].ided
            /\ loc'[t].op \in UniqueOps /\ (loc'[t].op = "contact" => Settled(main[t])')
        BY <1>1, <2>1, <2>2, <3>2 DEF Ready, Settled
      <4>2. \A f \in loc'[t].todo : Known(f)'
        BY <1>1, <2>1, <2>2, <3>2 DEF Ready, Known
      <4> QED BY <1>4, <3>2, <4>1, <4>2, AtUnique
    <3> QED BY <2>1, <3>1, <3>2
  <2>4. loc[t].op = "contact" => loc'[t].op = "contact"
    BY <2>1, <2>2 DEF Ready, UniqueOps
  <2>5. Touch(t, e, None)
    BY <1>1, <1>3, <2>0, <2>1, <2>4, LookTouch DEF HoldPcs
  <2>6. WakeOf(e)'
    <3>1. CASE w = 1
      BY <1>1, <1>4, <2>1, <3>1, WakeSignal DEF SleepPcs
    <3>2. CASE w = 0
      <4>1. UNCHANGED asleep /\ pc[t] \notin HoldPcs
        BY <1>1, <3>2 DEF Ready, HoldPcs
      <4> QED BY <1>1, <1>4, <2>1, <4>1, WakeQuiet DEF SleepPcs
    <3> QED BY <3>1, <3>2
  <2> QED BY <2>3, <2>5, <2>6, UseKeep, SetsAssumption
<1> QED BY <1>5, <1>6

LEMMA BusyUse ==
  ASSUME Context, NEW t \in Threads, NEW e \in Sas, NEW w \in {0, 1}, NEW l \in Locs,
         Busy(t, e, w, l), Unlocked(t, e), UNCHANGED <<driveout, table, cacheVars>>,
         Ready(t, e, w, l), Frame(t)
  PROVE  UseInv'
<1>1. /\ UNCHANGED <<info, out, main, dup, driveout, table, connected>> /\ Lock(e, None)
      /\ asleep' = asleep \cup {t} /\ ~driveout[e] /\ out[e] # None
  BY DEF Busy, cacheVars
<1>2. /\ pc'[t] = "wait" /\ loc'[t] = [l EXCEPT !.sa = e]
      /\ \A u \in Threads : u # t => loc'[u] = loc[u]
  BY DEF Busy, Goto, Context, LooseType
<1>3. loc'[t].sa = e /\ loc'[t].op = l.op /\ loc'[t].todo = l.todo
  BY <1>2 DEF Locs
<1>4. Places(t)'
  <2>1. l.op \in UniqueOps => main'[t] # None /\ main'[t] # dup'[t]
    BY <1>1, SetsAssumption DEF Ready
  <2>2. dup'[t] = None /\ (l.op \notin UniqueOps => main'[t] = None)
    BY <1>1 DEF Ready
  <2> QED BY <1>2, <1>3, <2>1, <2>2 DEF Places, FlushPcs, FreePcs, SleepPcs
<1>5. Refers(t)'
  <2>1. main'[t] \in Sas => out'[main'[t]] = t
    BY <1>1, SetsAssumption DEF Ready
  <2>2. dup'[t] \notin Sas
    BY <1>1, SetsAssumption DEF Ready
  <2>3. e \in table' /\ (l.op = "contact" => Settled(main[t])')
    BY <1>1 DEF Ready, Settled
  <2> QED BY <1>2, <1>3, <2>1, <2>2, <2>3 DEF Refers
<1>6. Enumerates(t)'
  BY <1>1, <1>2, <1>3 DEF Enumerates, Ready
<1>7. Checks(t)'
  BY <1>1, <1>2, <1>3 DEF Checks, Ready, Known
<1>8. Touch(t, e, None)
  <2>1. loc[t].op = "contact" => loc'[t].op = "contact"
    BY <1>3 DEF Ready
  <2>2. /\ \A u \in Threads : u # t /\ u \in asleep' => u \in asleep
        /\ \A u \in Threads : u # t /\ u \notin Sleepers(e) /\ u \in asleep => u \in asleep'
    BY <1>1
  <2> QED BY <1>1, <1>2, <1>3, <2>1, <2>2, LookTouch
<1>9. ThreadInv(t)'
  BY <1>4, <1>5, <1>6, <1>7 DEF ThreadInv
<1>10. WakeOf(e)'
  BY <1>1, <1>8, <1>9, WakeBusy
<1> QED BY <1>8, <1>9, <1>10, UseKeep, SetsAssumption

LEMMA VisitUse ==
  ASSUME Context, NEW t \in Threads, NEW e \in Sas, NEW w \in {0, 1}, NEW l \in Locs,
         Visit(t, e, w, l), Unlocked(t, e), UNCHANGED <<driveout, table, cacheVars>>,
         Ready(t, e, w, l), Frame(t)
  PROVE  UseInv'
<1>1. /\ UNCHANGED <<info, out, main, dup, driveout, table, connected>> /\ Lock(e, t)
      /\ asleep' = asleep \/ asleep' \in Signal(e)
      /\ ~driveout[e] /\ out[e] = None /\ l.op \in EnumOps
  BY DEF Visit, cacheVars
<1>2. /\ pc'[t] \in {"visit", "leave"} /\ loc'[t] = [l EXCEPT !.sa = e]
      /\ \A u \in Threads : u # t => loc'[u] = loc[u]
  BY DEF Visit, Goto, Context, LooseType
<1>3. loc'[t].sa = e /\ loc'[t].op = l.op /\ loc'[t].todo = l.todo
  BY <1>2 DEF Locs
<1>4. l.op \notin UniqueOps /\ l.op # "contact"
  BY <1>1 DEF EnumOps, UniqueOps
<1>5. /\ \A u \in Threads : u \in asleep' => u \in asleep
      /\ \A u \in Threads : u \notin Sleepers(e) /\ u \in asleep => u \in asleep'
  BY <1>1, SignalSpares
<1>6. t \notin asleep'
  BY <1>5 DEF Ready
<1>7. ThreadInv(t)'
  <2>1. main'[t] = None /\ dup'[t] = None /\ e \in table' /\ out'[e] = None
    BY <1>1, <1>4 DEF Ready
  <2>2. loc'[t].todo \subseteq table' /\ \A f \in loc'[t].todo : info'[f].seg = info'[e].seg
    BY <1>1, <1>3 DEF Ready
  <2>3. mutex'[info'[e].seg] = t
    BY <1>1 DEF Lock, Context, LooseType, Infos
  <2>4. LooseType'
    BY DEF Context
  <2> QED BY <1>1, <1>2, <1>3, <1>6, <2>1, <2>2, <2>3, <2>4, AtEntry
<1>8. loc[t].op # "contact"
  BY <1>4 DEF Ready
<1>9. Touch(t, e, None)
  BY <1>1, <1>2, <1>3, <1>5, <1>8, LookTouch
<1>10. WakeOf(e)'
  BY <1>1, <1>2, <1>3, <1>6, <1>7, <1>9, WakeHere
<1> QED BY <1>7, <1>9, <1>10, UseKeep, SetsAssumption

LEMMA TakeUse ==
  ASSUME Context, NEW t \in Threads, NEW e \in Sas, NEW w \in {0, 1}, NEW l \in Locs,
         Got(t, e, w, l) \/ Found(t, e, w, l), Unlocked(t, e),
         UNCHANGED <<driveout, table, cacheVars>>, Ready(t, e, w, l), Frame(t)
  PROVE  UseInv'
<1>1. /\ UNCHANGED <<driveout, table, connected>> /\ ~driveout[e] /\ out[e] = None
      /\ Take(t, e, l) /\ (asleep' = asleep \/ asleep' \in Signal(e))
      /\ UNCHANGED mutex \/ Lock(e, None)
      /\ UNCHANGED info \/ info' = [info EXCEPT ![e].processing = l.mid]
  BY DEF Got, Found, cacheVars
<1>2. /\ info'[e].state = info[e].state /\ info'[e].seg = info[e].seg /\ info'[e].ided = info[e].ided
      /\ \A f \in Sas : f # e => info'[f] = info[f]
  <2>1. CASE UNCHANGED info
    BY <2>1
  <2>2. CASE info' = [info EXCEPT ![e].processing = l.mid]
    <3>1. info'[e] = [info[e] EXCEPT !.processing = l.mid] /\ info[e] \in Infos
      BY <2>2 DEF Context, LooseType
    <3>2. \A f \in Sas : f # e => info'[f] = info[f]
      BY <2>2 DEF Context, LooseType
    <3> QED BY <3>1, <3>2 DEF Infos
  <2> QED BY <1>1, <2>1, <2>2
<1>3. out' = [out EXCEPT ![e] = t] /\ out \in [Sas -> Threads \cup {None}]
  BY <1>1 DEF Take, Context, LooseType
<1>4. out'[e] = t /\ \A f \in Sas : f # e => out'[f] = out[f]
  BY <1>3
<1>5. \A u \in Threads : u # t => loc'[u] = loc[u]
  BY <1>1 DEF Take, Context, LooseType
<1>6. /\ \A u \in Threads : u \in asleep' => u \in asleep
      /\ \A u \in Threads : u \notin Sleepers(e) /\ u \in asleep => u \in asleep'
  BY <1>1, SignalSpares
<1>7. t \notin asleep'
  BY <1>6 DEF Ready
<1>8. None \notin Sas /\ None # t
  BY SetsAssumption
<1>9. SaInv(e) /\ e \in table /\ Live(e)
  BY DEF Context, UseInv, SaInv, Ready
<1>10. \A f \in Sas : Known(f) => Known(f)'
  BY <1>2 DEF Known
<1>11. /\ l.op \in UniqueOps =>
            /\ pc'[t] = "dispose" /\ main'[t] = main[t] /\ dup'[t] = e
            /\ loc'[t].op = l.op /\ loc'[t].todo = l.todo
       /\ l.op \notin UniqueOps =>
            /\ pc'[t] = "work" /\ main'[t] = e /\ dup'[t] = dup[t] /\ loc'[t].op = "none"
  <2>1. /\ l.op \in UniqueOps =>
             /\ pc'[t] = "dispose" /\ main'[t] = main[t] /\ dup'[t] = e
             /\ loc'[t] = [l EXCEPT !.sa = None]
        /\ l.op \notin UniqueOps =>
             /\ pc'[t] = "work" /\ main'[t] = e /\ dup'[t] = dup[t] /\ loc'[t] = NoLoc
    BY <1>1 DEF Take, Goto, Context, LooseType
  <2> QED BY <2>1 DEF Locs, NoLoc
<1>12. ThreadInv(t)'
  <2>1. CASE l.op \in UniqueOps
    <3>1. /\ main[t] \in Sas /\ out[main[t]] = t /\ ~info[main[t]].ided
          /\ \A f \in l.todo : Known(f)
          /\ l.op = "contact" => Settled(main[t])
      BY <2>1 DEF Ready
    <3>2. main[t] # e
      BY <1>1, <1>8, <3>1
    <3>3. l.todo \subseteq Sas
      BY DEF Locs
    <3>4. out'[main'[t]] = t /\ ~info'[main'[t]].ided /\ \A f \in loc'[t].todo : Known(f)'
      BY <1>2, <1>4, <1>10, <1>11, <2>1, <3>1, <3>2, <3>3
    <3>5. loc'[t].op = "contact" => Settled(main[t])'
      BY <1>1, <1>2, <1>11, <2>1, <3>1, <3>2 DEF Settled
    <3> QED BY <1>4, <1>7, <1>11, <2>1, <3>1, <3>2, <3>4, <3>5, AtDispose
  <2>2. CASE l.op \notin UniqueOps
    <3>1. dup'[t] = None
      BY <1>11, <2>2 DEF Ready
    <3> QED BY <1>4, <1>7, <1>11, <2>2, <3>1, AtWork
  <2> QED BY <2>1, <2>2
<1>13. SaInv(e)'
  <2>1. main'[t] = e \/ dup'[t] = e
    BY <1>11
  <2>2. info[e].state \in {"established", "deleting"} => e \in connected
    <3> SUFFICES ASSUME NEW v \in Threads, main[v] = e PROVE FALSE
      BY <1>9 DEF SaInv
    <3>1. out[e] = v
      BY DEF Context, UseInv, ThreadInv, Refers
    <3> QED BY <1>1, <3>1, SetsAssumption
  <2>3. Live(e)'
    BY <1>2, <1>9 DEF Live
  <2>4. e \in table'
    BY <1>1, <1>9
  <2> QED BY <1>1, <1>2, <1>4, <1>9, <2>1, <2>2, <2>3, <2>4 DEF SaInv
<1>14. Touch(t, e, e)
  <2>1. Apart(e)
    BY <1>1, <1>2, <1>4 DEF Apart
  <2>2. Mine(t, e, e)
    <3>1. \A f \in Sas : f # e => (main'[t] = f <=> main[t] = f) /\ (dup'[t] = f <=> dup[t] = f)
      BY <1>8, <1>11 DEF Ready
    <3>2. pc[t] \in HoldPcs => loc[t].sa = e
      BY DEF Ready, HoldPcs
    <3>3. pc[t] # "clean" /\ pc'[t] \notin HoldPcs \cup {"limit", "put"}
      BY <1>11 DEF Ready, HoldPcs
    <3>4. loc[t].op = "contact" => loc'[t].op = "contact"
      BY <1>11 DEF Ready, UniqueOps
    <3> QED BY <3>1, <3>2, <3>3, <3>4 DEF Mine
  <2>3. Meets(t, e)
    BY <1>1, <1>2, <1>9, <1>10 DEF Meets, Live
  <2>4. \A s \in Segments : mutex[s] \in {None, t} \/ mutex'[s] = mutex[s]
    <3>1. mutex \in [Segments -> Threads \cup {None}] /\ info[e].seg \in Segments
      BY DEF Context, LooseType, Infos
    <3> QED BY <1>1, <3>1 DEF Lock, Unlocked
  <2>5. Spares(t, e)
    BY <1>5, <1>6, <2>4 DEF Spares
  <2> QED BY <2>1, <2>2, <2>3, <2>5 DEF Touch
<1>15. WakeOf(e)'
  BY <1>1, <1>4, <1>8, <1>12, <1>14, WakeBusy
<1> QED BY <1>12, <1>13, <1>14, <1>15, UseKeep

LEMMA WaitForEntryUse ==
  ASSUME Context, NEW t \in Threads, NEW e \in Sas, NEW w \in {0, 1}, NEW l \in Locs,
         WaitForEntry(t, e, w, l), Ready(t, e, w, l), Frame(t)
  PROVE  UseInv'
<1>1. Unlocked(t, e) /\ UNCHANGED <<driveout, table, cacheVars>>
  BY DEF WaitForEntry
<1>2. CASE Refused(t, e, w, l)
  BY <1>1, <1>2, RefusedUse
<1>3. CASE Busy(t, e, w, l)
  BY <1>1, <1>3, BusyUse
<1>4. CASE Got(t, e, w, l) \/ Found(t, e, w, l)
  BY <1>1, <1>4, TakeUse
<1>5. CASE Visit(t, e, w, l)
  BY <1>1, <1>5, VisitUse
<1> QED BY <1>2, <1>3, <1>4, <1>5 DEF WaitForEntry

\* A step about no SA at all.
LEMMA PlainStep ==
  ASSUME Context, NEW t \in Threads, Frame(t), ThreadInv(t)',
         UNCHANGED <<info, out, driveout, table, connected, main, dup, asleep>>,
         \A u \in Threads : u # t => loc'[u] = loc[u],
         pc[t] \notin HoldPcs \cup {"clean"}, pc'[t] \notin HoldPcs,
         loc[t].op = "contact" => loc'[t].op = "contact",
         pc'[t] \in {"limit", "put"} => pc[t] \in {"limit", "put"} /\ loc'[t].sa = loc[t].sa,
         \A s \in Segments : mutex[s] \in {None, t} \/ mutex'[s] = mutex[s]
  PROVE  UseInv'
<1>1. None \notin Sas
  BY SetsAssumption
<1>2. Apart(None) /\ Meets(t, None) /\ Spares(t, None)
  BY <1>1 DEF Apart, Meets, Spares
<1>3. Mine(t, None, None)
  BY DEF Mine
<1>4. Touch(t, None, None)
  BY <1>2, <1>3 DEF Touch
<1> QED BY <1>1, <1>4, UseKeep

\* A message for an SA.
LEMMA LookupUse ==
  ASSUME Context, NEW t \in Threads, NEW e \in Sas, NEW i \in {0} \cup MsgIds,
         LookupMessage(t, e, i), pc[t] \in {"idle", "lookup"}, Frame(t)
  PROVE  UseInv'
<1>1. main[t] = None /\ dup[t] = None /\ loc[t].op = "none" /\ t \notin asleep
  BY DEF Context, UseInv, ThreadInv, Places, FreePcs, SleepPcs
<1>2. CASE e \notin table \/ info[e].processing = i
  <2>1. /\ Goto(t, "idle") /\ loc' = [loc EXCEPT ![t] = NoLoc]
        /\ UNCHANGED <<info, out, driveout, table, connected, main, dup, asleep, mutex>>
    BY <1>2, BackIdle DEF LookupMessage, entryVars, cacheVars
  <2>2. pc'[t] = "idle" /\ loc'[t] = NoLoc /\ \A u \in Threads : u # t => loc'[u] = loc[u]
    BY <2>1 DEF Goto, Context, LooseType
  <2>3. NoLoc.op = "none"
    BY DEF NoLoc
  <2>4. ThreadInv(t)'
    BY <1>1, <2>1, <2>2, <2>3, AtIdle
  <2> QED BY <1>1, <2>1, <2>2, <2>4, PlainStep DEF HoldPcs
<1>3. CASE ~(e \notin table \/ info[e].processing = i)
  <2> DEFINE l == [NoLoc EXCEPT !.op = "message", !.mid = i]
  <2>1. l \in Locs /\ l.op = "message"
    BY DEF Locs, NoLoc
  <2>2. WaitForEntry(t, e, 0, l)
    BY <1>3 DEF LookupMessage
  <2> HIDE DEF l
  <2>3. Ready(t, e, 0, l)
    BY <1>1, <1>3, <2>1 DEF Ready, EnumOps, UniqueOps
  <2> QED BY <2>1, <2>2, <2>3, WaitForEntryUse
<1> QED BY <1>2, <1>3

-----------------------------------------------------------------------------
(***************************************************************************)
(* New SAs.                                                                *)
(***************************************************************************)

\* An SA that does not exist yet is nowhere.
LEMMA FreshNowhere ==
  ASSUME Context, NEW e \in Fresh
  PROVE  /\ e \in Sas /\ info[e].state = "none" /\ e \notin table /\ out[e] = None
         /\ e \notin connected /\ ~info[e].ided /\ ~Known(e)
<1>1. e \in Sas /\ info[e].state = "none"
  BY DEF Fresh
<1>2. SaInv(e)
  BY <1>1 DEF Context, UseInv
<1> QED BY <1>1, <1>2 DEF SaInv, Live, Known

LEMMA CreateFacts ==
  ASSUME Context, NEW t \in Threads, NEW e \in Fresh, NEW st \in {"created", "connecting"},
         Create(t, e, st)
  PROVE  /\ out'[e] = t /\ \A f \in Sas : f # e => out'[f] = out[f]
         /\ info'[e].state = st /\ ~info'[e].ided
         /\ \A f \in Sas : f # e => info'[f] = info[f]
<1>1. e \in Sas /\ ~info[e].ided
  BY FreshNowhere
<1>2. PICK s \in Segments : info' = [info EXCEPT ![e].state = st, ![e].seg = s]
  BY DEF Create
<1>3. info'[e] = [info[e] EXCEPT !.state = st, !.seg = s] /\ info[e] \in Infos
  BY <1>1, <1>2 DEF Context, LooseType
<1>4. \A f \in Sas : f # e => info'[f] = info[f]
  BY <1>1, <1>2 DEF Context, LooseType
<1>5. info'[e].state = st /\ ~info'[e].ided
  BY <1>1, <1>3 DEF Infos
<1>6. out'[e] = t /\ \A f \in Sas : f # e => out'[f] = out[f]
  BY <1>1 DEF Create, Context, LooseType
<1> QED BY <1>4, <1>5, <1>6

LEMMA CreateUse ==
  ASSUME Context, NEW t \in Threads, NEW e \in Fresh, NEW st \in {"created", "connecting"},
         Create(t, e, st), Frame(t), ThreadInv(t)',
         UNCHANGED <<driveout, table, connected, mutex, asleep>>,
         \A u \in Threads : u # t => loc'[u] = loc[u],
         pc[t] \in {"idle", "enum", "work"}, pc'[t] \in {"work", "rekey"},
         loc[t].op # "contact", main'[t] = e \/ dup'[t] = e,
         \A f \in Sas : f # e => (main'[t] = f <=> main[t] = f) /\ (dup'[t] = f <=> dup[t] = f)
  PROVE  UseInv'
<1>1. /\ e \in Sas /\ info[e].state = "none" /\ e \notin table /\ out[e] = None
      /\ e \notin connected /\ ~info[e].ided /\ ~Known(e)
  BY FreshNowhere
<1>2. /\ out'[e] = t /\ \A f \in Sas : f # e => out'[f] = out[f]
      /\ info'[e].state = st /\ ~info'[e].ided
      /\ \A f \in Sas : f # e => info'[f] = info[f]
  BY CreateFacts
<1>3. Touch(t, e, e)
  <2>1. Apart(e)
    BY <1>2 DEF Apart
  <2>2. Mine(t, e, e)
    BY DEF Mine, HoldPcs
  <2>3. Meets(t, e)
    BY <1>1 DEF Meets
  <2>4. Spares(t, e)
    BY DEF Spares
  <2> QED BY <2>1, <2>2, <2>3, <2>4 DEF Touch
<1>4. SaInv(e)'
  BY <1>1, <1>2 DEF SaInv, Live
<1>5. t \notin asleep'
  BY DEF ThreadInv, Places, SleepPcs
<1>6. WakeOf(e)'
  BY <1>1, <1>3, <1>5, WakeNew
<1> QED BY <1>1, <1>3, <1>4, <1>6, UseKeep

\* An SPI is reserved for an initial message.
LEMMA ReserveUse ==
  ASSUME Context, NEW t \in Threads, NEW e \in Fresh, NEW m \in Inits, NEW s \in Segments,
         pc[t] = "idle", Goto(t, "limit"), loc' = [loc EXCEPT ![t].sa = e],
         info' = [info EXCEPT ![e].state = "spi", ![e].hash = m, ![e].seg = s, ![e].role = "responder"],
         UNCHANGED <<out, driveout, table, connected, mutex, main, dup, asleep>>, Frame(t)
  PROVE  UseInv'
<1>1. /\ e \in Sas /\ info[e].state = "none" /\ e \notin table /\ out[e] = None
      /\ e \notin connected /\ ~info[e].ided /\ ~Known(e)
  BY FreshNowhere
<1>2. info'[e].state = "spi" /\ ~info'[e].ided /\ \A f \in Sas : f # e => info'[f] = info[f]
  <2>1. /\ info'[e] = [info[e] EXCEPT !.state = "spi", !.hash = m, !.seg = s, !.role = "responder"]
        /\ info[e] \in Infos
    BY <1>1 DEF Context, LooseType
  <2>2. \A f \in Sas : f # e => info'[f] = info[f]
    BY <1>1 DEF Context, LooseType
  <2>3. info'[e].state = "spi"
    BY <2>1, ZenonT(30) DEF Infos
  <2>4. ~info'[e].ided
    BY <1>1, <2>1 DEF Infos
  <2> QED BY <2>2, <2>3, <2>4
<1>3. main[t] = None /\ dup[t] = None /\ loc[t].op = "none" /\ t \notin asleep
  BY DEF Context, UseInv, ThreadInv, Places, FreePcs, SleepPcs
<1>4. /\ pc'[t] = "limit" /\ loc'[t].sa = e /\ loc'[t].op = "none"
      /\ \A u \in Threads : u # t => loc'[u] = loc[u]
  BY <1>3 DEF Goto, Context, LooseType, Locs
<1>5. ThreadInv(t)'
  <2>1. Places(t)'
    BY <1>3, <1>4 DEF Places, FlushPcs
  <2>2. Refers(t)'
    BY <1>2, <1>3, <1>4, SetsAssumption DEF Refers, HoldPcs
  <2>3. Enumerates(t)' /\ Checks(t)'
    BY <1>4 DEF Enumerates, Checks, EnumOps, UniqueOps
  <2> QED BY <2>1, <2>2, <2>3 DEF ThreadInv
<1>6. Touch(t, e, e)
  <2>1. Apart(e)
    BY <1>2 DEF Apart
  <2>2. Mine(t, e, e)
    BY <1>1, <1>3, <1>4 DEF Mine, HoldPcs
  <2>3. Meets(t, e)
    BY <1>1 DEF Meets
  <2>4. Spares(t, e)
    BY <1>4 DEF Spares
  <2> QED BY <2>1, <2>2, <2>3, <2>4 DEF Touch
<1>7. SaInv(e)'
  BY <1>1, <1>2 DEF SaInv, Live
<1>8. WakeOf(e)'
  BY <1>1, <1>3, <1>6, WakeNew
<1> QED BY <1>1, <1>5, <1>6, <1>7, <1>8, UseKeep

\* A worker takes up a job.
LEMMA BeginUse ==
  ASSUME Context, NEW t \in Threads, Begin(t), Frame(t)
  PROVE  UseInv'
<1>0. pc[t] = "idle" => main[t] = None /\ dup[t] = None /\ loc[t].op = "none" /\ t \notin asleep
  BY DEF Context, UseInv, ThreadInv, Places, FreePcs, SleepPcs
<1>n. NoLoc.op = "none"
  BY DEF NoLoc
<1>1. CASE NotFound(t)
  <2>1. /\ pc[t] = "idle" /\ UNCHANGED <<info, out, driveout, table, connected, main, dup, asleep>>
        /\ UNCHANGED <<pc, loc, mutex>>
    BY <1>1 DEF NotFound, Idle, mgrVars, entryVars, cacheVars, threadVars
  <2>2. ThreadInv(t)'
    BY <1>0, <2>1, AtIdle
  <2> QED BY <2>1, <2>2, PlainStep DEF HoldPcs
<1>2. ASSUME NEW e \in Sas, Checkout(t, e) PROVE UseInv'
  <2> DEFINE l == [NoLoc EXCEPT !.op = "checkout"]
  <2>1. l \in Locs /\ l.op = "checkout"
    BY DEF Locs, NoLoc
  <2>2. pc[t] = "idle" /\ e \in table /\ WaitForEntry(t, e, 0, l)
    BY <1>2 DEF Checkout, Idle
  <2> HIDE DEF l
  <2>3. Ready(t, e, 0, l)
    BY <1>0, <2>1, <2>2 DEF Ready, EnumOps, UniqueOps
  <2> QED BY <2>1, <2>2, <2>3, WaitForEntryUse
<1>3. ASSUME NEW e \in Sas, CheckoutNew(t, e) PROVE UseInv'
  <2>1. /\ pc[t] = "idle" /\ pc'[t] = "work" /\ e \in Fresh /\ Create(t, e, "created")
        /\ main'[t] = e /\ UNCHANGED <<dup, loc, driveout, table, connected, mutex, asleep>>
    BY <1>3 DEF CheckoutNew, Idle, Goto, Context, LooseType, cacheVars
  <2>2. out'[e] = t
    BY <2>1, CreateFacts
  <2>3. ThreadInv(t)'
    BY <1>0, <2>1, <2>2, AtWork
  <2>4. \A f \in Sas : f # e => (main'[t] = f <=> main[t] = f) /\ (dup'[t] = f <=> dup[t] = f)
    BY <1>0, <2>1, SetsAssumption
  <2> QED BY <1>0, <2>1, <2>3, <2>4, CreateUse
<1>4. ASSUME NEW e \in Sas, NEW i \in MsgIds, ReceiveMessage(t, e, i) PROVE UseInv'
  BY <1>4, LookupUse DEF ReceiveMessage, Idle
<1>5. ASSUME NEW m \in Inits, ReceiveInit(t, m) PROVE UseInv'
  <2>1. /\ pc[t] = "idle"
        /\ UNCHANGED <<out, driveout, table, connected, mutex, main, dup, asleep>>
    BY <1>5 DEF ReceiveInit, Idle, entryVars
  <2>2. CASE UNCHANGED <<pc, loc, info>>
    <3>1. ThreadInv(t)'
      BY <1>0, <2>1, <2>2, AtIdle
    <3> QED BY <2>1, <2>2, <3>1, PlainStep DEF HoldPcs
  <2>3. ASSUME NEW e, loc' = [loc EXCEPT ![t].sa = e], Goto(t, "lookup"), UNCHANGED info
        PROVE  UseInv'
    <3>1. pc'[t] = "lookup" /\ loc'[t].op = "none" /\ \A u \in Threads : u # t => loc'[u] = loc[u]
      BY <1>0, <2>1, <2>3 DEF Goto, Context, LooseType, Locs
    <3>2. main'[t] = None /\ dup'[t] = None /\ t \notin asleep'
      BY <1>0, <2>1
    <3>3. Places(t)'
      BY <3>1, <3>2 DEF Places, FlushPcs
    <3>4. Refers(t)'
      BY <3>1, <3>2, SetsAssumption DEF Refers, HoldPcs
    <3>5. Enumerates(t)' /\ Checks(t)'
      BY <3>1 DEF Enumerates, Checks, EnumOps, UniqueOps
    <3>6. ThreadInv(t)'
      BY <3>3, <3>4, <3>5 DEF ThreadInv
    <3> QED BY <1>0, <2>1, <2>3, <3>1, <3>6, PlainStep DEF HoldPcs
  <2>4. ASSUME NEW e \in Fresh, NEW s \in Segments, Goto(t, "limit"),
               info' = [info EXCEPT ![e].state = "spi", ![e].hash = m,
                                    ![e].seg = s, ![e].role = "responder"],
               loc' = [loc EXCEPT ![t].sa = e]
        PROVE  UseInv'
    BY <2>1, <2>4, ReserveUse
  <2> QED BY <1>5, <2>2, <2>3, <2>4 DEF ReceiveInit
<1>6. ASSUME NEW o \in EnumOps, NEW ws \in SUBSET Sas, EnumStart(t, o, ws) PROVE UseInv'
  <2>1. /\ pc[t] = "idle" /\ pc'[t] = "enum"
        /\ UNCHANGED <<info, out, driveout, table, connected, mutex, main, dup, asleep>>
        /\ \A u \in Threads : u # t => loc'[u] = loc[u]
    BY <1>6 DEF EnumStart, Idle, Goto, Context, LooseType, entryVars, cacheVars
  <2>2. loc'[t].op = o /\ loc'[t].todo = {}
    BY <1>6 DEF EnumStart, Context, LooseType, NoLoc
  <2>3. ThreadInv(t)'
    <3>1. main'[t] = None /\ dup'[t] = None /\ t \notin asleep'
      BY <1>0, <2>1
    <3>2. Places(t)'
      BY <2>1, <3>1 DEF Places, FlushPcs
    <3>3. Refers(t)'
      BY <2>1, <2>2, <3>1, SetsAssumption DEF Refers, HoldPcs, EnumOps
    <3>4. Enumerates(t)' /\ Checks(t)'
      BY <2>1, <2>2 DEF Enumerates, Checks, EnumOps, UniqueOps
    <3> QED BY <3>2, <3>3, <3>4 DEF ThreadInv
  <2> QED BY <1>0, <2>1, <2>3, PlainStep DEF HoldPcs
<1>7. ASSUME \/ \E e \in Sas : EnumStart(t, "byid", {e})
             \/ EnumStart(t, "byconfig", Sas) \/ EnumStart(t, "list", {}) \/ EnumStart(t, "skip", {})
      PROVE  UseInv'
  <2>1. ASSUME NEW e \in Sas, EnumStart(t, "byid", {e}) PROVE UseInv'
    BY <1>6, <2>1 DEF EnumOps
  <2>2. ASSUME EnumStart(t, "byconfig", Sas) PROVE UseInv'
    BY <1>6, <2>2 DEF EnumOps
  <2>3. ASSUME EnumStart(t, "list", {}) \/ EnumStart(t, "skip", {}) PROVE UseInv'
    BY <1>6, <2>3 DEF EnumOps
  <2> QED BY <1>7, <2>1, <2>2, <2>3
<1> QED BY <1>1, <1>2, <1>3, <1>4, <1>5, <1>7 DEF Begin

-----------------------------------------------------------------------------
(***************************************************************************)
(* Removing an entry.                                                      *)
(***************************************************************************)
Doomed(t, e, p) ==
  /\ e \in table /\ out[e] = t /\ t \notin asleep /\ main[t] \in Sas
  /\ pc[t] \in {"work", "dispose", "rekey", "drain", "respi"}
  /\ pc[t] \in {"drain", "respi"} => loc[t].sa = e
  /\ loc[t].op \in UniqueOps \cup {"none"}
  /\ \/ p = "drain" /\ e = dup[t]
     \/ e = main[t] /\ dup[t] = None /\ loc[t].op = "none" /\ (p = "respi" => ~info[e].ided)

LEMMA DriveOutUse ==
  ASSUME Context, NEW t \in Threads, NEW e \in Sas, NEW p \in {"drain", "respi"},
         NEW q \in {"clean", "moved"}, q = "clean" <=> p = "drain",
         DriveOut(t, e, p, q), Doomed(t, e, p), Unlocked(t, e), Frame(t),
         UNCHANGED <<info, out, connected, mutex, main, dup>>,
         driveout'[e], \A f \in Sas : f # e => driveout'[f] = driveout[f]
  PROVE  UseInv'
<1>1. ThreadInv(t) /\ SaInv(e)
  BY DEF Context, UseInv
<1>2. /\ main[t] # dup[t] /\ out[main[t]] = t /\ (dup[t] \in Sas => out[dup[t]] = t)
      /\ loc[t].op = "contact" => Settled(main[t]) /\ main[t] # e
      /\ loc[t].op \in UniqueOps => ~info[main[t]].ided /\ \A f \in loc[t].todo : Known(f)
      /\ loc[t].op \notin EnumOps
  <2>1. None \notin Sas
    BY SetsAssumption
  <2>2. main[t] # dup[t] /\ out[main[t]] = t /\ (dup[t] \in Sas => out[dup[t]] = t)
    BY <1>1, <2>1 DEF ThreadInv, Places, Refers, Doomed
  <2>3. loc[t].op = "contact" => Settled(main[t]) /\ main[t] # e
    BY <1>1, <2>2 DEF ThreadInv, Refers, Doomed
  <2>4. loc[t].op \in UniqueOps => ~info[main[t]].ided /\ \A f \in loc[t].todo : Known(f)
    BY <1>1 DEF ThreadInv, Checks
  <2>5. loc[t].op \notin EnumOps
    BY DEF Doomed, EnumOps, UniqueOps
  <2> QED BY <2>2, <2>3, <2>4, <2>5
<1>3. \A f \in Sas : f # e => (main'[t] = f <=> main[t] = f) /\ (dup'[t] = f <=> dup[t] = f)
  OBVIOUS
<1>l. Live(e)
  BY <1>1 DEF SaInv, Doomed
<1>k. \A f \in Sas : Known(f) => Known(f)'
  BY DEF Known
<1>4. CASE waiting[e] = 0 /\ Remove(t, e, q)
  <2>1. \A u \in Threads : /\ loc'[u].sa = IF u = t THEN e ELSE loc[u].sa
                           /\ loc'[u].op = loc[u].op /\ loc'[u].todo = loc[u].todo \ {e}
    <3> SUFFICES ASSUME NEW u \in Threads
                 PROVE  /\ loc'[u].sa = IF u = t THEN e ELSE loc[u].sa
                        /\ loc'[u].op = loc[u].op /\ loc'[u].todo = loc[u].todo \ {e}
      OBVIOUS
    <3>1. loc'[u] = [loc[u] EXCEPT !.todo = @ \ {e}, !.sa = IF u = t THEN e ELSE @]
      BY <1>4 DEF Remove
    <3>2. loc[u] \in Locs
      BY DEF Context, LooseType
    <3> QED BY <3>1, <3>2 DEF Locs
  <2>2. pc'[t] = q /\ table' = table \ {e} /\ UNCHANGED asleep
    BY <1>4 DEF Remove, Goto, Context, LooseType
  <2>3. ThreadInv(t)'
    <3>1. Places(t)'
      BY <1>2, <2>1, <2>2 DEF Places, FlushPcs, FreePcs, Doomed
    <3>2. Refers(t)'
      BY <1>2, <2>1, <2>2 DEF Refers, HoldPcs, Doomed, Settled
    <3>3. Enumerates(t)'
      BY <1>2, <2>1, <2>2 DEF Enumerates
    <3>4. Checks(t)'
      BY <1>2, <2>1, <2>2 DEF Checks, Known
    <3> QED BY <3>1, <3>2, <3>3, <3>4 DEF ThreadInv
  <2>4. Touch(t, e, e)
    <3>1. Apart(e)
      BY <2>2 DEF Apart
    <3>2. Mine(t, e, e)
      <4>1. pc[t] \in HoldPcs => loc[t].sa = e
        BY DEF Doomed, HoldPcs
      <4>2. pc[t] # "clean" /\ pc'[t] \notin HoldPcs \cup {"limit", "put"}
        BY <2>2 DEF Doomed, HoldPcs
      <4> QED BY <1>3, <2>1, <4>1, <4>2 DEF Mine
    <3>3. Meets(t, e)
      <4>1. e \notin table' /\ \A u \in Threads : e \notin loc'[u].todo
        BY <2>1, <2>2
      <4>2. out[e] = t /\ info[e].state # "spi"
        BY <1>l DEF Doomed, Live
      <4> QED BY <1>4, <1>k, <4>1, <4>2 DEF Meets
    <3>4. Spares(t, e)
      BY <2>1, <2>2 DEF Spares
    <3> QED BY <3>1, <3>2, <3>3, <3>4 DEF Touch
  <2>5. SaInv(e)'
    <3>1. e \notin table' /\ Live(e)'
      BY <1>l, <2>2 DEF Live
    <3>2. out'[e] = t /\ (main'[t] = e \/ dup'[t] = e)
      BY DEF Doomed
    <3>3. e \in connected' => pc'[t] = "clean" /\ loc'[t].sa = e
      BY <1>1, <2>1, <2>2 DEF SaInv, Doomed
    <3>4. ASSUME NEW v \in Threads, main[v] = e, loc[v].op = "contact"
          PROVE  main'[v] = e /\ loc'[v].op = "contact"
      BY <2>1, <3>4
    <3>5. info'[e].state \in {"established", "deleting"} =>
            e \in connected' \/ \E v \in Threads : main'[v] = e /\ loc'[v].op = "contact"
      BY <1>1, <3>4 DEF SaInv
    <3> QED BY <1>1, <3>1, <3>2, <3>3, <3>5 DEF SaInv
  <2>6. WakeOf(e)'
    BY <2>2 DEF WakeOf
  <2> QED BY <2>3, <2>4, <2>5, <2>6, UseKeep
<1>5. CASE /\ waiting[e] > 0 /\ asleep' = Broadcast(e) \cup {t} /\ Goto(t, p)
           /\ loc' = [loc EXCEPT ![t].sa = e] /\ UNCHANGED table
  <2>1. /\ loc'[t].sa = e /\ loc'[t].op = loc[t].op /\ loc'[t].todo = loc[t].todo
        /\ \A u \in Threads : u # t => loc'[u] = loc[u]
    <3>1. loc'[t] = [loc[t] EXCEPT !.sa = e] /\ loc[t] \in Locs
      BY <1>5 DEF Context, LooseType
    <3>2. \A u \in Threads : u # t => loc'[u] = loc[u]
      BY <1>5 DEF Context, LooseType
    <3> QED BY <3>1, <3>2 DEF Locs
  <2>2. pc'[t] = p
    BY <1>5 DEF Goto, Context, LooseType
  <2>3. ThreadInv(t)'
    <3>1. Places(t)'
      BY <1>2, <2>1, <2>2 DEF Places, FlushPcs, FreePcs, SleepPcs, Doomed
    <3>2. Refers(t)'
      BY <1>2, <1>5, <2>1, <2>2 DEF Refers, HoldPcs, Doomed, Settled
    <3>3. Enumerates(t)'
      BY <1>2, <2>1, <2>2 DEF Enumerates
    <3>4. Checks(t)'
      BY <1>2, <2>1, <2>2 DEF Checks, Known
    <3> QED BY <3>1, <3>2, <3>3, <3>4 DEF ThreadInv
  <2>4. Touch(t, e, e)
    <3>1. Apart(e)
      BY <1>5 DEF Apart
    <3>2. Mine(t, e, e)
      <4>1. pc[t] \in HoldPcs => loc[t].sa = e
        BY DEF Doomed, HoldPcs
      <4>2. pc[t] # "clean" /\ pc'[t] \notin {"limit", "put"}
        BY <2>2 DEF Doomed
      <4> QED BY <1>3, <2>1, <4>1, <4>2 DEF Mine
    <3>3. Meets(t, e)
      <4>1. out[e] = t /\ info[e].state # "spi"
        BY <1>l DEF Doomed, Live
      <4> QED BY <1>5, <1>k, <4>1 DEF Meets
    <3>4. Spares(t, e)
      BY <1>5, <2>1 DEF Spares, Broadcast
    <3> QED BY <3>1, <3>2, <3>3, <3>4 DEF Touch
  <2>5. SaInv(e)'
    <3>1. e \in table' /\ e \in table /\ Live(e)'
      BY <1>l, <1>5 DEF Live, Doomed
    <3>2. out'[e] = t /\ (main'[t] = e \/ dup'[t] = e)
      BY DEF Doomed
    <3>3. ASSUME NEW v \in Threads, main[v] = e, loc[v].op = "contact"
          PROVE  main'[v] = e /\ loc'[v].op = "contact"
      BY <2>1, <3>3
    <3>4. info'[e].state \in {"established", "deleting"} =>
            e \in connected' \/ \E v \in Threads : main'[v] = e /\ loc'[v].op = "contact"
      BY <1>1, <3>1, <3>3 DEF SaInv
    <3> QED BY <1>1, <3>1, <3>2, <3>4 DEF SaInv
  <2>6. WakeOf(e)'
    <3>1. waiting[e] # 0 /\ out'[e] = t /\ pc[t] # "wait"
      BY <1>5 DEF Doomed
    <3> QED BY <1>5, <2>2, <3>1, WakeDrain
  <2> QED BY <2>3, <2>4, <2>5, <2>6, UseKeep
<1> QED BY <1>4, <1>5 DEF DriveOut

\* Thread t gives SA e up.
GivesUp(t, e) ==
  \/ pc[t] = "work" /\ e = main[t]
  \/ pc[t] \in {"dispose", "rekey"} /\ e = dup[t]
  \/ pc[t] = "clean" /\ e = loc[t].sa

LEMMA GivesUpFacts ==
  ASSUME Context, NEW t \in Threads, NEW e \in Sas, GivesUp(t, e)
  PROVE  /\ out[e] = t /\ t \notin asleep /\ main[t] \in Sas /\ main[t] # dup[t] /\ out[main[t]] = t
         /\ main[t] = e => dup[t] = None /\ loc[t].op = "none"
         /\ main[t] # e => dup[t] = e /\ loc[t].op \in UniqueOps \cup {"none"}
         /\ loc[t].op \in UniqueOps => ~info[main[t]].ided /\ \A f \in loc[t].todo : Known(f)
         /\ loc[t].op = "contact" => Settled(main[t])
         /\ Live(e) /\ loc[t].todo \subseteq Sas
<1>1. Places(t) /\ Refers(t) /\ Checks(t) /\ SaInv(e) /\ ThreadInv(t)
  BY DEF Context, UseInv, ThreadInv
<1>2. main[t] \in Sas /\ None \notin Sas /\ None # t
  BY SetsAssumption DEF Context, Pointers, MainPcs, GivesUp
<1>3. main[t] # dup[t] /\ out[main[t]] = t /\ t \notin asleep
  BY <1>1, <1>2 DEF Places, Refers, GivesUp, SleepPcs
<1>4. out[e] = t
  <2>1. CASE pc[t] = "clean"
    BY <1>1, <2>1, Owner DEF Context, GivesUp
  <2>2. CASE pc[t] # "clean"
    BY <1>1, <2>2 DEF Refers, GivesUp
  <2> QED BY <2>1, <2>2
<1>5. main[t] = e => dup[t] = None /\ loc[t].op = "none"
  BY <1>1, <1>3 DEF Places, GivesUp
<1>6. main[t] # e => dup[t] = e /\ loc[t].op \in UniqueOps \cup {"none"}
  BY <1>1 DEF Places, GivesUp
<1>7. Live(e)
  BY <1>1, <1>2, <1>4 DEF SaInv
<1>8. loc[t].todo \subseteq Sas
  BY DEF Context, LooseType, Locs
<1> QED BY <1>1, <1>2, <1>3, <1>4, <1>5, <1>6, <1>7, <1>8 DEF Checks, Refers

LEMMA ReturnUse ==
  ASSUME Context, NEW t \in Threads, NEW e \in Sas, GivesUp(t, e), Return(t, e), t \notin asleep',
         \A f \in Sas : f # e => out'[f] = out[f] /\ info'[f] = info[f] /\ (f \in table' <=> f \in table),
         Known(e) => Known(e)'
  PROVE  /\ ThreadInv(t)' /\ Mine(t, e, e) /\ pc'[t] \in {"idle", "work", "unique"}
         /\ \A u \in Threads : u # t => loc'[u] = loc[u]
<1>1. /\ out[e] = t /\ t \notin asleep /\ main[t] \in Sas /\ main[t] # dup[t] /\ out[main[t]] = t
      /\ main[t] = e => dup[t] = None /\ loc[t].op = "none"
      /\ main[t] # e => dup[t] = e /\ loc[t].op \in UniqueOps \cup {"none"}
      /\ loc[t].op \in UniqueOps => ~info[main[t]].ided /\ \A f \in loc[t].todo : Known(f)
      /\ loc[t].op = "contact" => Settled(main[t])
      /\ Live(e) /\ loc[t].todo \subseteq Sas
  BY GivesUpFacts
<1>2. \A f \in Sas : Known(f) => Known(f)'
  BY DEF Known
<1>3. pc[t] \notin HoldPcs /\ (pc[t] = "clean" => loc[t].sa = e) /\ None \notin Sas
  BY SetsAssumption DEF GivesUp, HoldPcs
<1>4. CASE main[t] = e
  <2>1. Goto(t, "idle") /\ loc' = [loc EXCEPT ![t] = NoLoc] /\ main' = [main EXCEPT ![t] = None] /\ UNCHANGED dup
    BY <1>4, BackIdle DEF Return
  <2>2. /\ pc'[t] = "idle" /\ loc'[t] = NoLoc /\ main'[t] = None /\ dup'[t] = None
        /\ \A u \in Threads : u # t => loc'[u] = loc[u]
    BY <1>1, <1>4, <2>1 DEF Goto, Context, LooseType
  <2>3. loc'[t].op = "none"
    BY <2>2 DEF NoLoc
  <2>4. ThreadInv(t)'
    BY <2>2, <2>3, AtIdle
  <2>5. Mine(t, e, e)
    BY <1>1, <1>3, <1>4, <2>2 DEF Mine, HoldPcs
  <2> QED BY <2>2, <2>4, <2>5
<1>5. CASE main[t] # e
  <2>1. /\ dup' = [dup EXCEPT ![t] = None] /\ UNCHANGED main
        /\ Goto(t, IF loc[t].op \in UniqueOps THEN "unique" ELSE "work")
        /\ loc' = [loc EXCEPT ![t].sa = None]
    BY <1>5 DEF Return
  <2>2. /\ dup'[t] = None /\ main'[t] = main[t]
        /\ pc'[t] = IF loc[t].op \in UniqueOps THEN "unique" ELSE "work"
        /\ \A u \in Threads : u # t => loc'[u] = loc[u]
    BY <2>1 DEF Goto, Context, LooseType
  <2>3. loc'[t].op = loc[t].op /\ loc'[t].todo = loc[t].todo
    <3>1. loc'[t] = [loc[t] EXCEPT !.sa = None] /\ loc[t] \in Locs
      BY <2>1 DEF Context, LooseType
    <3> QED BY <3>1 DEF Locs
  <2>4. out'[main'[t]] = t /\ info'[main[t]] = info[main[t]] /\ (main[t] \in table' <=> main[t] \in table)
    BY <1>1, <1>5, <2>2
  <2>5. CASE loc[t].op \in UniqueOps
    <3>1. ThreadInv(t)'
      <4>1. \A f \in loc'[t].todo : Known(f)'
        BY <1>1, <1>2, <2>3, <2>5
      <4>2. ~info'[main'[t]].ided /\ (loc'[t].op = "contact" => Settled(main[t])')
        BY <1>1, <2>2, <2>3, <2>4, <2>5 DEF Settled
      <4> QED BY <1>1, <2>2, <2>3, <2>4, <2>5, <4>1, <4>2, AtUnique
    <3>2. Mine(t, e, e)
      BY <1>1, <1>3, <1>5, <2>2, <2>3, <2>5 DEF Mine, HoldPcs
    <3> QED BY <2>2, <2>5, <3>1, <3>2
  <2>6. CASE loc[t].op \notin UniqueOps
    <3>0. loc[t].op = "none"
      BY <1>1, <1>5, <2>6
    <3>1. ThreadInv(t)'
      BY <1>1, <2>2, <2>3, <2>4, <2>6, <3>0, AtWork
    <3>2. Mine(t, e, e)
      BY <1>1, <1>3, <1>5, <2>2, <2>3, <2>6 DEF Mine, HoldPcs
    <3> QED BY <2>2, <2>6, <3>1, <3>2
  <2> QED BY <2>5, <2>6
<1> QED BY <1>4, <1>5

\* The SA is gone with its entry.
LEMMA DeadUse ==
  ASSUME Context, NEW t \in Threads, NEW e \in Sas, GivesUp(t, e), Return(t, e), Frame(t),
         UNCHANGED <<driveout, table, mutex, asleep>>, e \notin table,
         info'[e].state = "dead", ~info'[e].ided, out'[e] = None, e \notin connected',
         \A f \in Sas : f # e => out'[f] = out[f] /\ info'[f] = info[f]
                                 /\ (f \in connected' <=> f \in connected)
  PROVE  UseInv'
<1>1. out[e] = t /\ t \notin asleep /\ Live(e)
  BY GivesUpFacts
<1>2. /\ ThreadInv(t)' /\ Mine(t, e, e)
      /\ \A u \in Threads : u # t => loc'[u] = loc[u]
  BY <1>1, ReturnUse DEF Known
<1>3. Touch(t, e, e)
  <2>1. Apart(e)
    BY DEF Apart
  <2>2. Meets(t, e)
    BY <1>1 DEF Meets, Known, Live
  <2>3. Spares(t, e)
    BY <1>2 DEF Spares
  <2> QED BY <1>2, <2>1, <2>2, <2>3 DEF Touch
<1>4. SaInv(e)'
  BY DEF SaInv
<1>5. WakeOf(e)'
  BY <1>1, <1>3, WakeNew
<1> QED BY <1>2, <1>3, <1>4, <1>5, UseKeep

LEMMA DestroyUse ==
  ASSUME Context, NEW t \in Threads, NEW e \in Sas, Destroy(t, e), Frame(t)
  PROVE  UseInv'
<1>1. /\ MayDestroy(t, e) /\ e \in table /\ Unlocked(t, e) /\ GivesUp(t, e)
      /\ UNCHANGED <<info, connected, mutex>>
  BY DEF Destroy, MayDestroy, GivesUp, cacheVars
<1>2. /\ out[e] = t /\ t \notin asleep /\ main[t] \in Sas
      /\ main[t] = e => dup[t] = None /\ loc[t].op = "none"
      /\ main[t] # e => dup[t] = e /\ loc[t].op \in UniqueOps \cup {"none"}
      /\ Live(e)
  BY <1>1, GivesUpFacts
<1>3. CASE driveout[e]
  <2>1. /\ out' = [out EXCEPT ![e] = None] /\ asleep' = Broadcast(e) /\ Return(t, e)
        /\ UNCHANGED <<driveout, table>>
    BY <1>3 DEF Destroy
  <2>2. out'[e] = None /\ \A f \in Sas : f # e => out'[f] = out[f]
    BY <2>1 DEF Context, LooseType
  <2>3. t \notin asleep'
    BY <1>2, <2>1 DEF Broadcast
  <2>4. /\ ThreadInv(t)' /\ Mine(t, e, e) /\ pc'[t] \in {"idle", "work", "unique"}
        /\ \A u \in Threads : u # t => loc'[u] = loc[u]
    BY <1>1, <2>1, <2>2, <2>3, ReturnUse DEF Known
  <2>5. Touch(t, e, e)
    <3>1. Apart(e)
      BY <1>1, <2>1, <2>2 DEF Apart
    <3>2. Meets(t, e)
      BY <1>1, <1>2, <2>1 DEF Meets, Known, Live
    <3>3. Spares(t, e)
      BY <1>1, <2>1, <2>4 DEF Spares, Broadcast
    <3> QED BY <2>4, <3>1, <3>2, <3>3 DEF Touch
  <2>6. SaInv(e)'
    <3>1. ASSUME NEW v \in Threads, main[v] = e, loc[v].op = "contact" PROVE FALSE
      <4>1. out[e] = v
        BY <3>1 DEF Context, UseInv, ThreadInv, Refers
      <4> QED BY <1>2, <3>1, <4>1
    <3>2. SaInv(e)
      BY DEF Context, UseInv
    <3> QED BY <1>1, <1>2, <2>1, <2>2, <3>1, <3>2 DEF SaInv, Live
  <2>7. WakeOf(e)'
    <3>1. Sleepers(e)' = {}
      BY <2>1, <2>3 DEF Sleepers, Broadcast, Frame, Context, LooseType
    <3> QED BY <3>1 DEF WakeOf
  <2> QED BY <2>4, <2>5, <2>6, <2>7, UseKeep
<1>4. CASE ~driveout[e]
  <2>1. /\ driveout' = [driveout EXCEPT ![e] = TRUE] /\ DriveOut(t, e, "drain", "clean")
        /\ UNCHANGED <<out, main, dup>>
    BY <1>4 DEF Destroy
  <2>2. driveout'[e] /\ \A f \in Sas : f # e => driveout'[f] = driveout[f]
    BY <2>1 DEF Context, LooseType
  <2>3. Doomed(t, e, "drain")
    BY <1>1, <1>2 DEF Doomed, MayDestroy
  <2> QED BY <1>1, <2>1, <2>2, <2>3, DriveOutUse
<1> QED BY <1>3, <1>4

LEMMA DestroyUnknownUse ==
  ASSUME Context, NEW t \in Threads, NEW e \in Sas, DestroyUnknown(t, e), Frame(t)
  PROVE  UseInv'
<1>1. /\ GivesUp(t, e) /\ pc[t] # "clean" /\ e \notin table /\ Return(t, e)
      /\ UNCHANGED <<driveout, table, mutex, asleep, connected>>
  BY DEF DestroyUnknown, MayDestroy, GivesUp, cacheVars
<1>2. out[e] = t
  BY <1>1, GivesUpFacts
<1>3. e \notin connected /\ ~info[e].ided
  <2>1. ASSUME NEW v \in Threads, pc[v] = "clean", loc[v].sa = e PROVE FALSE
    <3>1. out[e] = v
      BY <2>1, Owner DEF Context, UseInv
    <3> QED BY <1>1, <1>2, <2>1, <3>1
  <2>2. SaInv(e)
    BY DEF Context, UseInv
  <2> QED BY <1>1, <2>1, <2>2 DEF SaInv
<1>4. /\ out'[e] = None /\ \A f \in Sas : f # e => out'[f] = out[f] /\ info'[f] = info[f]
      /\ info'[e] = [info[e] EXCEPT !.state = "dead"] /\ info[e] \in Infos
  BY DEF DestroyUnknown, Context, LooseType
<1>5. info'[e].state = "dead"
  BY <1>4 DEF Infos
<1>6. ~info'[e].ided
  BY <1>3, <1>4 DEF Infos
<1> QED BY <1>1, <1>3, <1>4, <1>5, <1>6, DeadUse

LEMMA DestroyCleanUse ==
  ASSUME Context, NEW t \in Threads, DestroyClean(t), Frame(t)
  PROVE  UseInv'
<1> DEFINE e == loc[t].sa
<1>1. /\ e \in Sas /\ GivesUp(t, e) /\ EntryDestroy({e}) /\ Return(t, e) /\ e \notin table
      /\ UNCHANGED <<driveout, table, mutex, asleep>>
  BY DEF DestroyClean, GivesUp, Context, Pointers, SaPcs, UseInv, ThreadInv, Refers
<1> HIDE DEF e
<1>2. out'[e] = None /\ \A f \in Sas : f # e => out'[f] = out[f] /\ info'[f] = info[f]
  BY <1>1 DEF EntryDestroy
<1>3. info'[e].state = "dead" /\ ~info'[e].ided
  BY <1>1 DEF EntryDestroy, NoInfo
<1>4. e \notin connected' /\ \A f \in Sas : f # e => (f \in connected' <=> f \in connected)
  <2>1. info[e].ided <=> e \in connected
    BY <1>1 DEF Context, UseInv, SaInv
  <2>2. connected' = connected \ {f \in {e} : info[f].ided}
    BY <1>1 DEF EntryDestroy, Disconnect
  <2> QED BY <2>1, <2>2
<1> QED BY <1>1, <1>2, <1>3, <1>4, DeadUse

-----------------------------------------------------------------------------
(***************************************************************************)
(* Giving an SA back.                                                      *)
(***************************************************************************)
\* What checkin has done: the SA is free and, once established, connected; or
\* it is kept for the check of its uniqueness.
CheckedIn(t, e, st) ==
  /\ Unlocked(t, e) /\ table' = table \cup {e} /\ UNCHANGED <<driveout, mutex>>
  /\ asleep' \in IF e \in table THEN Signal(e) ELSE {asleep}
  /\ info'[e].state = st /\ info'[e].seg = info[e].seg
  /\ \A f \in Sas : f # e => info'[f] = info[f] /\ out'[f] = out[f]
  /\ \A f \in Sas : f # e => (f \in connected' <=> f \in connected)
  /\ \/ /\ out'[e] = None
        /\ info'[e].ided <=> info[e].ided \/ st = "established"
        /\ e \in connected' <=> e \in connected \/ st = "established"
     \/ /\ out'[e] = t /\ main'[t] = e /\ loc'[t].op = "contact"
        /\ info'[e].ided <=> info[e].ided
        /\ e \in connected' <=> e \in connected

\* checkin.
LEMMA CheckinFree ==
  ASSUME Context, NEW t \in Threads, NEW e \in Sas, NEW st \in SaStates, NEW h \in Hosts,
         Checkin(t, e, st, h, FALSE)
  PROVE  CheckedIn(t, e, st) /\ out'[e] = None /\ (info'[e].ided <=> info[e].ided \/ st = "established")
<1> DEFINE first == FirstTime(e, st) /\ ~FALSE
           new   == IF st = "connecting" THEN h ELSE None
<1>1. /\ info'[e] = [info[e] EXCEPT !.state = st, !.processing = -1, !.half = new, !.ided = @ \/ first]
      /\ info[e] \in Infos /\ \A f \in Sas : f # e => info'[f] = info[f]
  BY DEF Checkin, Context, LooseType
<1>2. out'[e] = None /\ \A f \in Sas : f # e => out'[f] = out[f]
  BY DEF Checkin, Context, LooseType
<1>3. /\ Unlocked(t, e) /\ table' = table \cup {e} /\ UNCHANGED <<driveout, mutex>>
      /\ asleep' \in IF e \in table THEN Signal(e) ELSE {asleep}
  BY DEF Checkin
<1>4. connected' = IF first THEN connected \cup {e} ELSE connected
  BY DEF Checkin
<1>5. info[e].ided <=> e \in connected
  BY DEF Context, UseInv, SaInv
<1>6. first <=> st = "established" /\ ~info[e].ided
  BY DEF FirstTime
<1> HIDE DEF first, new
<1>7. info'[e].state = st /\ info'[e].seg = info[e].seg
  BY <1>1 DEF Infos
<1>8. info'[e].ided <=> info[e].ided \/ first
  <2>1. info'[e].ided = (info[e].ided \/ first)
    BY <1>1 DEF Infos
  <2> QED BY <2>1
<1>9. /\ info'[e].ided <=> info[e].ided \/ st = "established"
      /\ e \in connected' <=> e \in connected \/ st = "established"
      /\ \A f \in Sas : f # e => (f \in connected' <=> f \in connected)
  BY <1>4, <1>5, <1>6, <1>8
<1> QED BY <1>1, <1>2, <1>3, <1>7, <1>9 DEF CheckedIn

\* checkin that leaves the entry checked out.
LEMMA CheckinKept ==
  ASSUME Context, NEW t \in Threads, NEW e \in Sas, NEW st \in SaStates, NEW h \in Hosts,
         Checkin(t, e, st, h, TRUE), main'[t] = e, loc'[t].op = "contact"
  PROVE  CheckedIn(t, e, st) /\ out'[e] = t /\ (info'[e].ided <=> info[e].ided)
<1> DEFINE first == FirstTime(e, st) /\ ~TRUE
           new   == IF st = "connecting" THEN h ELSE None
<1>1. /\ info'[e] = [info[e] EXCEPT !.state = st, !.processing = -1, !.half = new, !.ided = @ \/ first]
      /\ info[e] \in Infos /\ \A f \in Sas : f # e => info'[f] = info[f]
  BY DEF Checkin, Context, LooseType
<1>2. out'[e] = t /\ \A f \in Sas : f # e => out'[f] = out[f]
  BY DEF Checkin, Context, LooseType
<1>3. /\ Unlocked(t, e) /\ table' = table \cup {e} /\ UNCHANGED <<driveout, mutex>>
      /\ asleep' \in IF e \in table THEN Signal(e) ELSE {asleep}
  BY DEF Checkin
<1>4. connected' = IF first THEN connected \cup {e} ELSE connected
  BY DEF Checkin
<1>5. info[e].ided <=> e \in connected
  BY DEF Context, UseInv, SaInv
<1>6. first <=> FALSE
  BY DEF FirstTime
<1> HIDE DEF first, new
<1>7. info'[e].state = st /\ info'[e].seg = info[e].seg
  BY <1>1 DEF Infos
<1>8. info'[e].ided <=> info[e].ided \/ first
  <2>1. info'[e].ided = (info[e].ided \/ first)
    BY <1>1 DEF Infos
  <2> QED BY <2>1
<1>9. /\ info'[e].ided <=> info[e].ided
      /\ e \in connected' <=> e \in connected
      /\ \A f \in Sas : f # e => (f \in connected' <=> f \in connected)
  BY <1>4, <1>5, <1>6, <1>8
<1> QED BY <1>1, <1>2, <1>3, <1>7, <1>9 DEF CheckedIn

LEMMA CheckinUse ==
  ASSUME Context, NEW t \in Threads, NEW e \in Sas,
         NEW st \in {"connecting", "established", "deleting"}, CheckedIn(t, e, st),
         Frame(t), ThreadInv(t)',
         out[e] = t, pc[t] \in {"work", "dispose", "rekey"}, pc'[t] \in {"idle", "work", "unique"},
         \A u \in Threads : u # t => loc'[u] = loc[u],
         \A f \in Sas : f # e => (main'[t] = f <=> main[t] = f) /\ (dup'[t] = f <=> dup[t] = f),
         loc[t].op = "contact" /\ main[t] # e => loc'[t].op = "contact",
         e \in connected => st # "connecting", st = "deleting" => e \in connected
  PROVE  UseInv'
<1>1. /\ info'[e].state = st /\ info'[e].seg = info[e].seg
      /\ info[e].ided => info'[e].ided
      /\ \A f \in Sas : f # e => info'[f] = info[f] /\ out'[f] = out[f]
      /\ \A f \in Sas : f # e => (f \in connected' <=> f \in connected)
  BY DEF CheckedIn
<1>2. /\ Unlocked(t, e) /\ table' = table \cup {e} /\ UNCHANGED <<driveout, mutex>>
      /\ asleep' \in IF e \in table THEN Signal(e) ELSE {asleep}
  BY DEF CheckedIn
<1>3. SaInv(e) /\ Live(e) /\ t \notin asleep
  BY SetsAssumption DEF Context, UseInv, SaInv, ThreadInv, Places, SleepPcs
<1>4. /\ \A u \in Threads : u \in asleep' => u \in asleep
      /\ \A u \in Threads : u \notin Sleepers(e) /\ u \in asleep => u \in asleep'
  BY <1>2, SignalSpares
<1>5. Touch(t, e, e)
  <2>1. Apart(e)
    BY <1>1, <1>2 DEF Apart
  <2>2. Mine(t, e, e)
    BY DEF Mine, HoldPcs
  <2>3. Meets(t, e)
    BY <1>1, <1>2, <1>3 DEF Meets, Known, Live
  <2>4. Spares(t, e)
    BY <1>2, <1>4 DEF Spares
  <2> QED BY <2>1, <2>2, <2>3, <2>4 DEF Touch
<1>6. SaInv(e)'
  <2>1. Live(e)' /\ e \in table'
    BY <1>1, <1>2 DEF Live
  <2>2. out'[e] # None => main'[out'[e]] = e \/ dup'[out'[e]] = e
    BY DEF CheckedIn
  <2>3. info[e].ided <=> e \in connected
    BY <1>3 DEF SaInv
  <2>4. info'[e].state \in {"established", "deleting"} =>
          e \in connected' \/ \E u \in Threads : main'[u] = e /\ loc'[u].op = "contact"
    BY <1>1 DEF CheckedIn
  <2>5. e \in connected' => info'[e].state \in {"established", "deleting"}
    BY <1>1 DEF CheckedIn
  <2>6. info'[e].ided <=> e \in connected'
    BY <2>3 DEF CheckedIn
  <2> QED BY <2>1, <2>2, <2>4, <2>5, <2>6 DEF SaInv
<1>7. WakeOf(e)'
  <2>1. CASE e \in table
    <3>1. asleep' \in Signal(e) /\ pc'[t] \notin SleepPcs
      BY <1>2, <2>1 DEF SleepPcs
    <3> QED BY <1>3, <3>1, WakeSignal
  <2>2. CASE e \notin table
    <3>1. t \notin asleep'
      BY <1>3, <1>4
    <3> QED BY <1>5, <2>2, <3>1, WakeNew
  <2> QED BY <2>1, <2>2
<1> QED BY <1>5, <1>6, <1>7, UseKeep

\* The states after a job are later ones.
LEMMA LaterState ==
  ASSUME Context, NEW e \in Sas, Live(e), NEW st \in NextStates(info[e].state),
         \A u \in Threads : main[u] = e => loc[u].op # "contact"
  PROVE  (e \in connected => st # "connecting") /\ (st = "deleting" => e \in connected)
<1>1. SaInv(e) /\ info[e].state \in {"created", "connecting", "established", "deleting"}
  BY DEF Context, UseInv, LooseType, Infos, SaStates, Live
<1>2. info[e].state \in {"established", "deleting"} <=> e \in connected
  BY <1>1 DEF SaInv
<1>3. CASE info[e].state = "created"
  BY <1>2, <1>3 DEF NextStates
<1>4. CASE info[e].state = "connecting"
  BY <1>2, <1>4 DEF NextStates
<1>5. CASE info[e].state = "established"
  BY <1>2, <1>5 DEF NextStates
<1>6. CASE info[e].state = "deleting"
  BY <1>2, <1>6 DEF NextStates
<1> QED BY <1>1, <1>3, <1>4, <1>5, <1>6

LEMMA CheckinMainUse ==
  ASSUME Context, NEW t \in Threads, NEW st \in {"connecting", "established", "deleting"},
         NEW h \in Hosts, CheckinMain(t, st, h), Frame(t)
  PROVE  UseInv'
<1> DEFINE e == main[t]
<1>1. pc[t] = "work" /\ st \in NextStates(info[e].state) /\ Checkin(t, e, st, h, FALSE) /\ UNCHANGED <<dup, loc>>
  BY DEF CheckinMain
<1>2. e \in Sas /\ out[e] = t /\ dup[t] = None /\ loc[t].op = "none" /\ Live(e) /\ t \notin asleep
  <2>1. e \in Sas
    BY <1>1 DEF Context, Pointers, MainPcs
  <2>2. out[e] = t /\ dup[t] = None /\ loc[t].op = "none" /\ t \notin asleep
    BY <1>1, <2>1 DEF Context, UseInv, ThreadInv, Places, Refers, SleepPcs
  <2>3. Live(e)
    BY <2>1, <2>2, SetsAssumption DEF Context, UseInv, SaInv
  <2> QED BY <2>1, <2>2, <2>3
<1>3. pc'[t] = "idle" /\ main'[t] = None
  BY DEF CheckinMain, Goto, Context, LooseType
<1>4. asleep' \in IF e \in table THEN Signal(e) ELSE {asleep}
  BY <1>1 DEF Checkin
<1> HIDE DEF e
<1>5. t \notin asleep'
  BY <1>2, <1>4, SignalSpares
<1>6. ThreadInv(t)'
  BY <1>1, <1>2, <1>3, <1>5, AtIdle
<1>7. \A u \in Threads : main[u] = e => loc[u].op # "contact"
  BY <1>2 DEF Context, UseInv, ThreadInv, Refers
<1>8. (e \in connected => st # "connecting") /\ (st = "deleting" => e \in connected)
  BY <1>1, <1>2, <1>7, LaterState
<1>9. \A f \in Sas : f # e => (main'[t] = f <=> main[t] = f) /\ (dup'[t] = f <=> dup[t] = f)
  BY <1>1, <1>3, SetsAssumption DEF e
<1>10. CheckedIn(t, e, st)
  BY <1>1, <1>2, CheckinFree DEF SaStates
<1> QED BY <1>1, <1>2, <1>3, <1>6, <1>8, <1>9, <1>10, CheckinUse

\* The second SA of a thread is given back.
LEMMA CheckinDupUse ==
  ASSUME Context, NEW t \in Threads, NEW st \in {"connecting", "established", "deleting"},
         NEW h \in Hosts, Checkin(t, dup[t], st, h, FALSE), Frame(t),
         \/ /\ pc[t] = "dispose" /\ loc[t].op = "auth" /\ Goto(t, "unique")
            /\ st \in NextStates(info[dup[t]].state)
         \/ pc[t] = "rekey" /\ st = "established" /\ Goto(t, "work"),
         dup' = [dup EXCEPT ![t] = None], UNCHANGED <<main, loc>>
  PROVE  UseInv'
<1> DEFINE e == dup[t]
<1>1. /\ pc[t] \in {"dispose", "rekey"} /\ loc[t].op # "contact"
      /\ pc'[t] \in {"unique", "work"} /\ dup'[t] = None
      /\ pc'[t] = "unique" => loc[t].op = "auth"
      /\ pc'[t] = "work" => loc[t].op = "none"
      /\ Checkin(t, e, st, h, FALSE)
  BY DEF Goto, Context, LooseType, UseInv, ThreadInv, Places
<1>2. e \in Sas /\ main[t] \in Sas /\ main[t] # e /\ out[e] = t /\ out[main[t]] = t /\ Live(e) /\ t \notin asleep
  <2>1. e \in Sas /\ main[t] \in Sas
    BY <1>1 DEF Context, Pointers, MainPcs
  <2>2. main[t] # e /\ out[e] = t /\ out[main[t]] = t /\ t \notin asleep
    BY <1>1, <2>1, SetsAssumption DEF Context, UseInv, ThreadInv, Places, Refers, SleepPcs
  <2>3. Live(e)
    BY <2>1, <2>2, SetsAssumption DEF Context, UseInv, SaInv
  <2> QED BY <2>1, <2>2, <2>3
<1>3. asleep' \in IF e \in table THEN Signal(e) ELSE {asleep}
  BY <1>1 DEF Checkin
<1>4. \/ st \in NextStates(info[e].state)
      \/ st = "established"
  OBVIOUS
<1>c. loc[t].op = "auth" => ~info[main[t]].ided /\ (\A f \in loc[t].todo : Known(f)) /\ loc[t].todo \subseteq Sas
  BY DEF Context, UseInv, ThreadInv, Checks, UniqueOps, LooseType, Locs
<1>e. \A f \in Sas : f # e => (main'[t] = f <=> main[t] = f) /\ (dup'[t] = f <=> dup[t] = f)
  BY <1>1, SetsAssumption
<1> HIDE DEF e
<1>5. t \notin asleep'
  BY <1>2, <1>3, SignalSpares
<1>s. CheckedIn(t, e, st) /\ out'[e] = None /\ (info'[e].ided <=> info[e].ided \/ st = "established")
  <2>1. st \in SaStates /\ Checkin(t, e, st, h, FALSE) /\ e \in Sas
    BY <1>1, <1>2 DEF SaStates
  <2> QED BY <2>1, CheckinFree, Zenon
<1>6. /\ out'[main[t]] = t /\ info'[main[t]] = info[main[t]]
      /\ \A f \in Sas : f # e => info'[f] = info[f]
  BY <1>2, <1>s DEF CheckedIn
<1>7. ThreadInv(t)'
  <2>1. CASE pc'[t] = "work"
    BY <1>1, <1>2, <1>5, <1>6, <2>1, AtWork
  <2>2. CASE pc'[t] = "unique"
    <3>1. loc'[t].op = "auth" /\ ~info'[main'[t]].ided
      BY <1>1, <1>6, <1>c, <2>2
    <3>2. info[e].state # "dead"
      BY <1>2 DEF Live
    <3>3. \A f \in loc'[t].todo : Known(f)'
      BY <1>1, <1>6, <1>c, <1>s, <2>2, <3>2 DEF Known
    <3> QED BY <1>1, <1>2, <1>5, <1>6, <2>2, <3>1, <3>3, AtUnique DEF UniqueOps
  <2> QED BY <1>1, <2>1, <2>2
<1>8. \A u \in Threads : main[u] = e => loc[u].op # "contact"
  BY <1>2 DEF Context, UseInv, ThreadInv, Refers
<1>9. (e \in connected => st # "connecting") /\ (st = "deleting" => e \in connected)
  <2>1. CASE st \in NextStates(info[e].state)
    BY <1>2, <1>8, <2>1, LaterState
  <2>2. CASE st = "established"
    BY <2>2
  <2> QED BY <1>4, <2>1, <2>2
<1> QED BY <1>1, <1>2, <1>7, <1>9, <1>e, <1>s, CheckinUse

LEMMA CheckinContactUse ==
  ASSUME Context, NEW t \in Threads, NEW h \in Hosts, CheckinContact(t, h), Frame(t)
  PROVE  UseInv'
<1> DEFINE e == main[t]
<1>1. /\ pc[t] = "work" /\ info[e].state = "connecting" /\ Checkin(t, e, "established", h, TRUE)
      /\ UNCHANGED <<main, dup>> /\ pc'[t] = "unique" /\ \A u \in Threads : u # t => loc'[u] = loc[u]
  BY DEF CheckinContact, Goto, Context, LooseType
<1>2. loc'[t].op = "contact" /\ loc'[t].todo = connected
  BY DEF CheckinContact, Context, LooseType, NoLoc
<1>3. e \in Sas /\ out[e] = t /\ dup[t] = None /\ t \notin asleep
  <2>1. e \in Sas
    BY <1>1 DEF Context, Pointers, MainPcs
  <2> QED BY <1>1, <2>1 DEF Context, UseInv, ThreadInv, Places, Refers, SleepPcs
<1>4. asleep' \in (IF e \in table THEN Signal(e) ELSE {asleep}) /\ table' = table \cup {e}
  BY <1>1 DEF Checkin
<1>5. e \notin connected /\ ~info[e].ided
  BY <1>1, <1>3 DEF Context, UseInv, SaInv
<1>m. main'[t] = e
  BY <1>1
<1>k. \A f \in connected : f \in Sas /\ info[f].ided
  BY DEF Context, UseInv, SaInv, LooseType
<1>g. \A f \in Sas : f # e => (main'[t] = f <=> main[t] = f) /\ (dup'[t] = f <=> dup[t] = f)
  BY <1>1
<1>o. main[t] = e
  OBVIOUS
<1> HIDE DEF e
<1>6. t \notin asleep'
  BY <1>3, <1>4, SignalSpares
<1>s. CheckedIn(t, e, "established") /\ out'[e] = t /\ (info'[e].ided <=> info[e].ided)
  BY <1>1, <1>2, <1>3, <1>m, CheckinKept DEF SaStates
<1>7. /\ out'[e] = t /\ (info'[e].ided <=> info[e].ided)
      /\ \A f \in Sas : f # e => info'[f] = info[f]
  BY <1>s DEF CheckedIn
<1>8. ThreadInv(t)'
  <2>1. \A f \in loc'[t].todo : Known(f)'
    BY <1>2, <1>5, <1>7, <1>k DEF Known
  <2>2. ~info'[main'[t]].ided /\ Settled(main[t])' /\ dup'[t] = None
    BY <1>1, <1>3, <1>4, <1>5, <1>7, <1>m, <1>s DEF Settled, CheckedIn
  <2> QED BY <1>1, <1>2, <1>3, <1>6, <1>7, <1>m, <2>1, <2>2, AtUnique DEF UniqueOps
<1> QED BY <1>1, <1>2, <1>3, <1>5, <1>8, <1>g, <1>m, <1>o, <1>s, CheckinUse

\* A job gives an SA back.
LEMMA EndUse ==
  ASSUME Context, NEW t \in Threads, End(t), Frame(t)
  PROVE  UseInv'
<1>1. ASSUME NEW e \in Sas, Destroy(t, e) \/ DestroyUnknown(t, e) PROVE UseInv'
  BY <1>1, DestroyUse, DestroyUnknownUse
<1>2. ASSUME NEW h \in Hosts, CheckinContact(t, h) PROVE UseInv'
  BY <1>2, CheckinContactUse
<1>3. ASSUME NEW h \in Hosts, CheckinRekeyed(t, h) PROVE UseInv'
  <2>1. /\ pc[t] = "rekey" /\ Checkin(t, dup[t], "established", h, FALSE) /\ Goto(t, "work")
        /\ dup' = [dup EXCEPT ![t] = None] /\ UNCHANGED <<main, loc>>
    BY <1>3 DEF CheckinRekeyed
  <2> QED BY <2>1, CheckinDupUse
<1>4. ASSUME NEW st \in {"connecting", "established", "deleting"}, NEW h \in Hosts, CheckinMain(t, st, h)
      PROVE  UseInv'
  BY <1>4, CheckinMainUse
<1>5. ASSUME NEW st \in {"connecting", "established", "deleting"}, NEW h \in Hosts, UniqueCheckin(t, st, h)
      PROVE  UseInv'
  <2>1. /\ pc[t] = "dispose" /\ loc[t].op = "auth" /\ Checkin(t, dup[t], st, h, FALSE) /\ Goto(t, "unique")
        /\ st \in NextStates(info[dup[t]].state)
        /\ dup' = [dup EXCEPT ![t] = None] /\ UNCHANGED <<main, loc>>
    BY <1>5 DEF UniqueCheckin
  <2> QED BY <2>1, CheckinDupUse
<1> QED BY <1>1, <1>2, <1>3, <1>4, <1>5 DEF End

-----------------------------------------------------------------------------
(***************************************************************************)
(* A job that has an SA needs the manager for something else.              *)
(***************************************************************************)
LEMMA WorkFacts ==
  ASSUME Context, NEW t \in Threads, pc[t] = "work"
  PROVE  /\ main[t] \in Sas /\ out[main[t]] = t /\ dup[t] = None /\ loc[t].op = "none"
         /\ t \notin asleep
         /\ info[main[t]].state = "connecting" => ~info[main[t]].ided
<1>1. main[t] \in Sas
  BY DEF Context, Pointers, MainPcs
<1>2. Places(t) /\ Refers(t)
  BY DEF Context, UseInv, ThreadInv
<1>3. SaInv(main[t])
  BY <1>1 DEF Context, UseInv
<1>4. info[main[t]].state = "connecting" => ~info[main[t]].ided
  BY <1>3 DEF SaInv
<1> QED BY <1>1, <1>2, <1>4 DEF Places, Refers, SleepPcs

LEMMA NestedUse ==
  ASSUME Context, NEW t \in Threads, Nested(t), Frame(t)
  PROVE  UseInv'
<1>0. pc[t] = "work"
  BY DEF Nested, UniqueStart, NewInitiatorSpi, Rekey
<1>w. /\ main[t] \in Sas /\ out[main[t]] = t /\ dup[t] = None /\ loc[t].op = "none"
      /\ t \notin asleep
      /\ info[main[t]].state = "connecting" => ~info[main[t]].ided
  BY <1>0, WorkFacts
<1>1. CASE UniqueStart(t)
  <2>1. /\ pc'[t] = "unique" /\ \A u \in Threads : u # t => loc'[u] = loc[u]
        /\ UNCHANGED <<info, out, driveout, table, connected, main, dup, asleep, mutex>>
        /\ info[main[t]].state = "connecting"
    BY <1>1 DEF UniqueStart, Goto, entryVars, cacheVars, Context, LooseType
  <2>2. loc'[t].op = "auth" /\ loc'[t].todo = connected
    BY <1>1 DEF UniqueStart, Context, LooseType, NoLoc
  <2>3. \A f \in connected : info[f].ided
    BY DEF Context, UseInv, SaInv, LooseType
  <2>4. \A f \in loc'[t].todo : Known(f)'
    BY <2>1, <2>2, <2>3 DEF Known
  <2>5. ThreadInv(t)'
    BY <1>w, <2>1, <2>2, <2>4, AtUnique DEF UniqueOps
  <2> QED BY <1>0, <1>w, <2>1, <2>5, PlainStep DEF HoldPcs
<1>2. CASE NewInitiatorSpi(t)
  <2> DEFINE e == main[t]
  <2>1. /\ info[e].state = "connecting" /\ e \in table /\ Unlocked(t, e)
        /\ driveout' = [driveout EXCEPT ![e] = TRUE] /\ DriveOut(t, e, "respi", "moved")
        /\ UNCHANGED <<info, out, connected, mutex, main, dup>>
    BY <1>2 DEF NewInitiatorSpi, cacheVars
  <2>2. Doomed(t, e, "respi")
    BY <1>0, <1>w, <2>1 DEF Doomed
  <2>3. e \in Sas
    BY <1>w
  <2> HIDE DEF e
  <2>4. driveout'[e] /\ \A f \in Sas : f # e => driveout'[f] = driveout[f]
    BY <2>1, <2>3 DEF Context, LooseType
  <2> QED BY <2>1, <2>2, <2>3, <2>4, DriveOutUse
<1>3. ASSUME NEW e \in Sas, Rekey(t, e) PROVE UseInv'
  <2>1. /\ pc'[t] = "rekey" /\ e \in Fresh /\ Create(t, e, "connecting")
        /\ dup'[t] = e /\ UNCHANGED <<main, loc, driveout, table, connected, mutex, asleep>>
    BY <1>3 DEF Rekey, Goto, Context, LooseType, cacheVars
  <2>2. out'[e] = t /\ (\A f \in Sas : f # e => out'[f] = out[f]) /\ out[e] = None
    BY <2>1, CreateFacts, FreshNowhere
  <2>3. main[t] # e /\ main[t] # None /\ e # None /\ None \notin Sas
    BY <1>w, <2>2, SetsAssumption
  <2>4. ThreadInv(t)'
    <3>1. Places(t)'
      BY <1>w, <2>1, <2>3 DEF Places, FlushPcs, FreePcs
    <3>2. Refers(t)'
      BY <1>w, <2>1, <2>2, <2>3 DEF Refers, HoldPcs
    <3>3. Enumerates(t)' /\ Checks(t)'
      BY <1>w, <2>1 DEF Enumerates, Checks, EnumOps, UniqueOps
    <3> QED BY <3>1, <3>2, <3>3 DEF ThreadInv
  <2>5. \A f \in Sas : f # e => (main'[t] = f <=> main[t] = f) /\ (dup'[t] = f <=> dup[t] = f)
    BY <1>w, <2>1, <2>3
  <2> QED BY <1>0, <1>w, <2>1, <2>4, <2>5, CreateUse
<1> QED BY <1>1, <1>2, <1>3 DEF Nested

-----------------------------------------------------------------------------
(***************************************************************************)
(* An operation of the manager goes on.                                    *)
(***************************************************************************)
LEMMA WakesUse ==
  ASSUME Context, NEW t \in Threads, Wakes(t), Frame(t)
  PROVE  UseInv'
<1>1. /\ pc[t] = "wait" /\ t \notin asleep /\ WaitForEntry(t, loc[t].sa, 1, loc[t])
  BY DEF Wakes
<1>2. /\ loc[t].sa \in Sas /\ loc[t] \in Locs
      /\ loc[t].op \in UniqueOps => main[t] \in Sas
  BY <1>1 DEF Context, Pointers, SaPcs, LooseType
<1>3. Places(t) /\ Refers(t) /\ Enumerates(t) /\ Checks(t)
  BY DEF Context, UseInv, ThreadInv
<1>4. dup[t] = None /\ loc[t].sa \in table /\ (loc[t].op \notin UniqueOps => main[t] = None)
  BY <1>1, <1>3 DEF Places, Refers, HoldPcs
<1>5. loc[t].op \in UniqueOps => /\ out[main[t]] = t /\ ~info[main[t]].ided
                                 /\ Known(loc[t].sa) /\ \A f \in loc[t].todo : Known(f)
  BY <1>1, <1>2, <1>3 DEF Refers, Checks
<1>6. loc[t].op \in EnumOps => /\ loc[t].todo \subseteq table
                               /\ \A f \in loc[t].todo : info[f].seg = info[loc[t].sa].seg
  BY <1>1, <1>3 DEF Enumerates
<1>7. loc[t].op = "contact" => Settled(main[t])
  BY <1>3 DEF Refers
<1>8. Ready(t, loc[t].sa, 1, loc[t])
  BY <1>1, <1>2, <1>4, <1>5, <1>6, <1>7 DEF Ready
<1> QED BY <1>1, <1>2, <1>8, WaitForEntryUse

LEMMA InitialUse ==
  ASSUME Context, NEW t \in Threads, LimitOk(t) \/ LimitHit(t) \/ PutNew(t), Frame(t)
  PROVE  UseInv'
<1>0. pc[t] \in {"limit", "put"} /\ loc[t].sa \in Sas
  BY DEF LimitOk, LimitHit, PutNew, Context, Pointers, SaPcs
<1> PICK e \in Sas : e = loc[t].sa
  BY <1>0
<1>1. pc[t] \in {"limit", "put"} /\ e \in Sas /\ loc[t].sa = e
  BY <1>0
<1>2. main[t] = None /\ dup[t] = None /\ loc[t].op = "none" /\ t \notin asleep /\ info[e].state = "spi"
  BY <1>1 DEF Context, UseInv, ThreadInv, Places, Refers, FreePcs, SleepPcs
<1>3. SaInv(e) /\ None \notin Sas /\ None # t
  BY <1>1, SetsAssumption DEF Context, UseInv
<1>4. e \notin table /\ out[e] = None /\ ~info[e].ided /\ e \notin connected /\ ~Known(e)
  BY <1>2, <1>3 DEF SaInv, Live, Known
<1>n. NoLoc.op = "none"
  BY DEF NoLoc
<1>5. CASE LimitOk(t)
  <2>1. /\ pc'[t] = "put" /\ UNCHANGED <<info, out, driveout, table, connected, main, dup, asleep, mutex, loc>>
    BY <1>5 DEF LimitOk, Goto, entryVars, cacheVars, Context, LooseType
  <2>2. ThreadInv(t)'
    <3>1. Places(t)'
      BY <1>2, <2>1 DEF Places, FlushPcs
    <3>2. Refers(t)'
      BY <1>2, <1>3, <2>1 DEF Refers, HoldPcs
    <3>3. Enumerates(t)' /\ Checks(t)'
      BY <1>2, <2>1 DEF Enumerates, Checks, EnumOps, UniqueOps
    <3> QED BY <3>1, <3>2, <3>3 DEF ThreadInv
  <2> QED BY <1>1, <2>1, <2>2, PlainStep DEF HoldPcs
<1>6. CASE LimitHit(t)
  <2>1. /\ UNCHANGED <<out, driveout, table, connected, main, dup, asleep, mutex>>
        /\ Back(t, NoLoc)
        /\ info' = [info EXCEPT ![e].state = "dead", ![e].hash = None]
    BY <1>6 DEF LimitHit, entryVars
  <2>2. pc'[t] = "idle" /\ loc'[t] = NoLoc /\ \A u \in Threads : u # t => loc'[u] = loc[u]
    BY <2>1, BackIdle DEF Goto, Context, LooseType
  <2>3. /\ info'[e] = [info[e] EXCEPT !.state = "dead", !.hash = None] /\ info[e] \in Infos
        /\ \A f \in Sas : f # e => info'[f] = info[f]
    BY <1>1, <2>1 DEF Context, LooseType
  <2>4. info'[e].state = "dead"
    BY <2>3 DEF Infos
  <2>5. ~info'[e].ided
    BY <1>4, <2>3 DEF Infos
  <2>6. ThreadInv(t)'
    BY <1>2, <1>n, <2>1, <2>2, AtIdle
  <2>7. Touch(t, e, e)
    <3>1. Apart(e)
      BY <2>1, <2>3 DEF Apart
    <3>2. Mine(t, e, e)
      BY <1>1, <1>2, <2>1, <2>2 DEF Mine, HoldPcs
    <3>3. Meets(t, e)
      BY <1>1, <1>4, <2>1 DEF Meets
    <3>4. Spares(t, e)
      BY <2>1, <2>2 DEF Spares
    <3> QED BY <3>1, <3>2, <3>3, <3>4 DEF Touch
  <2>8. SaInv(e)'
    BY <1>4, <2>1, <2>4, <2>5 DEF SaInv
  <2>9. WakeOf(e)'
    BY <1>4, <2>1 DEF WakeOf
  <2> QED BY <1>1, <2>6, <2>7, <2>8, <2>9, UseKeep
<1>7. CASE PutNew(t)
  <2>1. /\ UNCHANGED <<driveout, connected, dup, asleep, mutex>>
        /\ info' = [info EXCEPT ![e].state = "created", ![e].processing = 0]
        /\ table' = table \cup {e} /\ out' = [out EXCEPT ![e] = t] /\ main'[t] = e
        /\ pc'[t] = "work" /\ loc'[t] = NoLoc /\ \A u \in Threads : u # t => loc'[u] = loc[u]
    BY <1>7 DEF PutNew, Goto, cacheVars, Context, LooseType
  <2>a. pc[t] = "put"
    BY <1>7 DEF PutNew
  <2>2. out'[e] = t /\ \A f \in Sas : f # e => out'[f] = out[f]
    BY <1>1, <2>1 DEF Context, LooseType
  <2>3. /\ info'[e] = [info[e] EXCEPT !.state = "created", !.processing = 0] /\ info[e] \in Infos
        /\ \A f \in Sas : f # e => info'[f] = info[f]
    BY <1>1, <2>1 DEF Context, LooseType
  <2>4. info'[e].state = "created"
    BY <2>3 DEF Infos
  <2>5. ~info'[e].ided
    BY <1>4, <2>3 DEF Infos
  <2>6. ThreadInv(t)'
    BY <1>1, <1>2, <1>n, <2>1, <2>2, AtWork
  <2>7. Touch(t, e, e)
    <3>1. Apart(e)
      BY <2>1, <2>2, <2>3 DEF Apart
    <3>2. Mine(t, e, e)
      BY <1>2, <1>3, <2>1, <2>a DEF Mine, HoldPcs
    <3>3. Meets(t, e)
      BY <1>1, <1>4, <2>1, <2>a DEF Meets
    <3>4. Spares(t, e)
      BY <2>1 DEF Spares
    <3> QED BY <3>1, <3>2, <3>3, <3>4 DEF Touch
  <2>8. SaInv(e)'
    BY <1>4, <2>1, <2>2, <2>4, <2>5 DEF SaInv, Live
  <2>9. WakeOf(e)'
    BY <1>1, <1>2, <1>4, <2>1, <2>7, WakeNew
  <2> QED BY <1>1, <2>6, <2>7, <2>8, <2>9, UseKeep
<1> QED BY <1>5, <1>6, <1>7

\* An enumerator between two entries.
LEMMA AtEnum ==
  ASSUME NEW t \in Threads, pc'[t] = "enum", main'[t] = None, dup'[t] = None,
         loc'[t].op \in EnumOps, t \notin asleep', loc'[t].todo \subseteq table',
         \A e, f \in loc'[t].todo : info'[e].seg = info'[f].seg,
         \A e \in loc'[t].todo : mutex'[info'[e].seg] = t
  PROVE  ThreadInv(t)'
<1>1. None \notin Sas
  BY SetsAssumption
<1>2. Places(t)'
  BY <1>1 DEF Places, FlushPcs, FreePcs
<1>3. Refers(t)'
  BY <1>1 DEF Refers, HoldPcs, EnumOps
<1>4. Enumerates(t)' /\ Checks(t)'
  BY DEF Enumerates, Checks, EnumOps, UniqueOps
<1> QED BY <1>2, <1>3, <1>4 DEF ThreadInv

LEMMA EnumFacts ==
  ASSUME Context, NEW t \in Threads, pc[t] \in {"enum", "visit", "leave"}
  PROVE  /\ main[t] = None /\ dup[t] = None /\ loc[t].op \in EnumOps /\ t \notin asleep
         /\ loc[t].op \notin UniqueOps /\ loc[t].op # "contact"
         /\ loc[t] \in Locs /\ loc[t].todo \subseteq table
         /\ \A e, f \in loc[t].todo : info[e].seg = info[f].seg
<1>1. Places(t) /\ Enumerates(t) /\ loc[t].op \in EnumOps /\ loc[t] \in Locs
  BY DEF Context, UseInv, ThreadInv, Pointers, LooseType
<1>2. main[t] = None /\ dup[t] = None /\ t \notin asleep
  BY <1>1 DEF Places, FreePcs, SleepPcs
<1>3. loc[t].op \notin UniqueOps /\ loc[t].op # "contact"
  BY <1>1 DEF EnumOps, UniqueOps
<1> QED BY <1>1, <1>2, <1>3 DEF Enumerates

LEMMA EnumRowUse ==
  ASSUME Context, NEW t \in Threads, EnumRow(t), Frame(t)
  PROVE  UseInv'
<1>1. pc[t] = "enum"
  BY DEF EnumRow
<1>2. /\ main[t] = None /\ dup[t] = None /\ loc[t].op \in EnumOps /\ t \notin asleep
      /\ loc[t].op # "contact" /\ loc[t] \in Locs
  BY <1>1, EnumFacts
<1> DEFINE s == Min(loc[t].rows)
<1>3. /\ UNCHANGED <<info, out, driveout, table, connected, main, dup, asleep, pc>>
      /\ \A u \in Threads : u # t => loc'[u] = loc[u]
      /\ mutex[s] \in {None, t} /\ mutex' = [mutex EXCEPT ![s] = IF Row(s) = {} THEN @ ELSE t]
  BY DEF EnumRow, entryVars, cacheVars, Context, LooseType
<1>4. loc' = [loc EXCEPT ![t].rows = @ \ {s}, ![t].todo = Row(s)]
  BY DEF EnumRow
<1> HIDE DEF s
<1>5. loc'[t] = [loc[t] EXCEPT !.rows = @ \ {s}, !.todo = Row(s)]
  BY <1>4 DEF Context, LooseType
<1>6. loc'[t].op = loc[t].op /\ loc'[t].todo = Row(s)
  BY <1>2, <1>5 DEF Locs
<1>7. \A e \in Row(s) : e \in table /\ info[e].seg = s
  BY DEF Row
<1>8. \A e \in Row(s) : mutex'[s] = t
  <2> SUFFICES ASSUME NEW e \in Row(s) PROVE mutex'[s] = t
    OBVIOUS
  <2>1. s \in Segments /\ mutex \in [Segments -> Threads \cup {None}]
    BY <1>7 DEF Context, LooseType, Infos
  <2> QED BY <1>3, <2>1
<1>9. \A z \in Segments : mutex[z] \in {None, t} \/ mutex'[z] = mutex[z]
  BY <1>3 DEF Context, LooseType
<1>10. ThreadInv(t)'
  <2>1. pc'[t] = "enum" /\ main'[t] = None /\ dup'[t] = None /\ t \notin asleep' /\ loc'[t].op \in EnumOps
    BY <1>1, <1>2, <1>3, <1>6
  <2>2. loc'[t].todo \subseteq table' /\ (\A e, f \in loc'[t].todo : info'[e].seg = info'[f].seg)
        /\ (\A e \in loc'[t].todo : mutex'[info'[e].seg] = t)
    BY <1>3, <1>6, <1>7, <1>8
  <2> QED BY <2>1, <2>2, AtEnum
<1> QED BY <1>1, <1>2, <1>3, <1>9, <1>10, PlainStep DEF HoldPcs

LEMMA EnumLeaveUse ==
  ASSUME Context, NEW t \in Threads, EnumLeave(t), Frame(t)
  PROVE  UseInv'
<1>1. pc[t] \in {"visit", "leave"} /\ loc[t].sa \in Sas
  BY DEF EnumLeave, Context, Pointers, SaPcs
<1> PICK e \in Sas : e = loc[t].sa
  BY <1>1
<1>2. /\ main[t] = None /\ dup[t] = None /\ loc[t].op \in EnumOps /\ t \notin asleep
      /\ loc[t].op # "contact" /\ loc[t] \in Locs /\ loc[t].todo \subseteq table
      /\ \A g, f \in loc[t].todo : info[g].seg = info[f].seg
  BY <1>1, EnumFacts
<1>3. mutex[info[e].seg] = t /\ \A f \in loc[t].todo : info[f].seg = info[e].seg
  BY <1>1, <1>2 DEF Context, UseInv, ThreadInv, Enumerates
<1>4. /\ UNCHANGED <<info, out, driveout, table, connected, main, dup>>
      /\ \A u \in Threads : u # t => loc'[u] = loc[u]
      /\ pc'[t] = "enum" /\ asleep' \in Signal(e) /\ loc'[t] = [loc[t] EXCEPT !.sa = None]
      /\ IF loc[t].todo = {} THEN Lock(e, None) ELSE UNCHANGED mutex
  BY DEF EnumLeave, LeaveSignal, Goto, entryVars, cacheVars, Context, LooseType
<1>5. loc'[t].op = loc[t].op /\ loc'[t].todo = loc[t].todo
  BY <1>2, <1>4 DEF Locs
<1>6. /\ \A u \in Threads : u \in asleep' => u \in asleep
      /\ \A u \in Threads : u \notin Sleepers(e) /\ u \in asleep => u \in asleep'
  BY <1>4, SignalSpares
<1>7. \A z \in Segments : mutex[z] \in {None, t} \/ mutex'[z] = mutex[z]
  BY <1>3, <1>4 DEF Lock, Context, LooseType
<1>8. ThreadInv(t)'
  <2>1. main'[t] = None /\ dup'[t] = None /\ t \notin asleep' /\ loc'[t].op \in EnumOps
    BY <1>2, <1>4, <1>5, <1>6
  <2>2. loc'[t].todo \subseteq table' /\ (\A g, f \in loc'[t].todo : info'[g].seg = info'[f].seg)
        /\ (\A g \in loc'[t].todo : mutex'[info'[g].seg] = t)
    BY <1>2, <1>3, <1>4, <1>5
  <2> QED BY <1>4, <2>1, <2>2, AtEnum
<1>9. Touch(t, e, None)
  <2>1. Apart(None)
    BY <1>4 DEF Apart
  <2>2. Mine(t, e, None)
    BY <1>1, <1>2, <1>4 DEF Mine, HoldPcs
  <2>3. Meets(t, None)
    BY SetsAssumption DEF Meets
  <2>4. Spares(t, e)
    BY <1>4, <1>6, <1>7 DEF Spares
  <2> QED BY <2>1, <2>2, <2>3, <2>4 DEF Touch
<1>10. WakeOf(e)'
  BY <1>2, <1>4, WakeSignal DEF SleepPcs
<1> QED BY <1>8, <1>9, <1>10, UseKeep, SetsAssumption

LEMMA EnumEndUse ==
  ASSUME Context, NEW t \in Threads, EnumEnd(t), Frame(t)
  PROVE  UseInv'
<1>1. pc[t] = "enum"
  BY DEF EnumEnd
<1>2. /\ main[t] = None /\ dup[t] = None /\ t \notin asleep /\ loc[t].op # "contact"
  BY <1>1, EnumFacts
<1>3. /\ UNCHANGED <<driveout, table, connected, dup, mutex, asleep>>
      /\ loc'[t] = NoLoc /\ \A u \in Threads : u # t => loc'[u] = loc[u]
  BY DEF EnumEnd, cacheVars, Context, LooseType
<1>4. loc'[t].op = "none"
  BY <1>3 DEF NoLoc
<1>5. CASE Goto(t, "idle") /\ UNCHANGED <<info, out, main>>
  <2>1. pc'[t] = "idle"
    BY <1>5 DEF Goto, Context, LooseType
  <2>2. ThreadInv(t)'
    BY <1>2, <1>3, <1>4, <1>5, <2>1, AtIdle
  <2> QED BY <1>1, <1>2, <1>3, <1>5, <2>1, <2>2, PlainStep DEF HoldPcs
<1>6. ASSUME NEW e \in Fresh, Create(t, e, "created"), main' = [main EXCEPT ![t] = e], Goto(t, "work")
      PROVE  UseInv'
  <2>1. pc'[t] = "work" /\ main'[t] = e /\ e \in Sas
    BY <1>6 DEF Goto, Context, LooseType, Fresh
  <2>2. out'[e] = t
    BY <1>6, CreateFacts
  <2>3. ThreadInv(t)'
    BY <1>2, <1>3, <1>4, <2>1, <2>2, AtWork
  <2>4. \A f \in Sas : f # e => (main'[t] = f <=> main[t] = f) /\ (dup'[t] = f <=> dup[t] = f)
    BY <1>2, <1>3, <2>1, SetsAssumption
  <2> QED BY <1>1, <1>2, <1>3, <1>6, <2>1, <2>3, <2>4, CreateUse
<1> QED BY <1>5, <1>6 DEF EnumEnd

LEMMA EnumEntryUse ==
  ASSUME Context, NEW t \in Threads, NEW e \in Sas, EnumEntry(t, e), Frame(t)
  PROVE  UseInv'
<1>1. pc[t] = "enum" /\ e \in loc[t].todo
  BY DEF EnumEntry
<1>2. /\ main[t] = None /\ dup[t] = None /\ loc[t].op \in EnumOps /\ t \notin asleep
      /\ loc[t].op \notin UniqueOps /\ loc[t].op # "contact"
      /\ loc[t] \in Locs /\ loc[t].todo \subseteq table
      /\ \A g, f \in loc[t].todo : info[g].seg = info[f].seg
  BY <1>1, EnumFacts
<1>m. mutex[info[e].seg] = t
  BY <1>1 DEF Context, UseInv, ThreadInv, Enumerates
<1> PICK l : l = [loc[t] EXCEPT !.todo = @ \ {e}]
  OBVIOUS
<1>3. l \in Locs /\ l.op = loc[t].op /\ l.todo = loc[t].todo \ {e}
  BY <1>2 DEF Locs
<1>4. Ready(t, e, 0, l)
  <2>1. e \in table /\ l.todo \subseteq table /\ \A f \in l.todo : info[f].seg = info[e].seg
    BY <1>1, <1>2, <1>3
  <2> QED BY <1>1, <1>2, <1>3, <2>1 DEF Ready
<1>5. CASE WaitForEntry(t, e, 0, l)
  BY <1>3, <1>4, <1>5, WaitForEntryUse
<1>6. CASE /\ Goto(t, "leave")
           /\ loc' = [loc EXCEPT ![t] = [l EXCEPT !.sa = e]]
           /\ UNCHANGED <<info, entryVars, table, cacheVars, mutex, main, dup, asleep>>
  <2>1. /\ UNCHANGED <<info, out, driveout, table, connected, mutex, main, dup, asleep>>
        /\ pc'[t] = "leave" /\ loc'[t] = [l EXCEPT !.sa = e]
        /\ \A u \in Threads : u # t => loc'[u] = loc[u]
    BY <1>6 DEF Goto, entryVars, cacheVars, Context, LooseType
  <2>2. loc'[t].sa = e /\ loc'[t].op = l.op /\ loc'[t].todo = l.todo
    BY <1>3, <2>1 DEF Locs
  <2>3. ThreadInv(t)'
    <3>1. /\ main'[t] = None /\ dup'[t] = None /\ t \notin asleep' /\ loc'[t].op \in EnumOps
          /\ mutex'[info'[e].seg] = t
      BY <1>2, <1>3, <1>m, <2>1, <2>2
    <3>2. e \in table' /\ loc'[t].todo \subseteq table' /\ \A f \in loc'[t].todo : info'[f].seg = info'[e].seg
      BY <1>1, <1>2, <1>3, <2>1, <2>2
    <3>3. LooseType'
      BY DEF Context
    <3> QED BY <2>1, <2>2, <3>1, <3>2, <3>3, AtEntry
  <2>4. Unlocked(t, e)
    BY <1>m DEF Unlocked
  <2>5. Touch(t, e, None)
    BY <1>2, <1>4, <2>1, <2>2, <2>4, LookTouch
  <2>6. WakeOf(e)'
    BY <1>1, <1>2, <2>1, WakeQuiet DEF HoldPcs, SleepPcs
  <2> QED BY <2>3, <2>5, <2>6, UseKeep, SetsAssumption
<1> QED BY <1>5, <1>6 DEF EnumEntry

LEMMA UniqueFacts ==
  ASSUME Context, NEW t \in Threads, pc[t] = "unique"
  PROVE  /\ main[t] \in Sas /\ out[main[t]] = t /\ dup[t] = None /\ t \notin asleep
         /\ loc[t] \in Locs /\ loc[t].op \in UniqueOps /\ loc[t].op \notin EnumOps
         /\ ~info[main[t]].ided /\ \A f \in loc[t].todo : Known(f)
         /\ loc[t].op = "contact" => Settled(main[t])
<1>1. main[t] \in Sas /\ loc[t] \in Locs
  BY DEF Context, Pointers, MainPcs, LooseType
<1>2. Places(t) /\ Refers(t) /\ Checks(t)
  BY DEF Context, UseInv, ThreadInv
<1>3. loc[t].op \in UniqueOps /\ dup[t] = None /\ t \notin asleep
  BY <1>2 DEF Places, SleepPcs
<1>4. loc[t].op \notin EnumOps
  BY <1>3 DEF UniqueOps, EnumOps
<1> QED BY <1>1, <1>2, <1>3, <1>4 DEF Refers, Checks

LEMMA UniqueNextUse ==
  ASSUME Context, NEW t \in Threads, NEW e \in Sas, UniqueNext(t, e), Frame(t)
  PROVE  UseInv'
<1>1. pc[t] = "unique" /\ e \in loc[t].todo
  BY DEF UniqueNext
<1>2. /\ main[t] \in Sas /\ out[main[t]] = t /\ dup[t] = None /\ t \notin asleep
      /\ loc[t] \in Locs /\ loc[t].op \in UniqueOps /\ loc[t].op \notin EnumOps
      /\ ~info[main[t]].ided /\ \A f \in loc[t].todo : Known(f)
      /\ loc[t].op = "contact" => Settled(main[t])
  BY <1>1, UniqueFacts
<1> PICK l : l = [loc[t] EXCEPT !.todo = @ \ {e}]
  OBVIOUS
<1>3. l \in Locs /\ l.op = loc[t].op /\ l.todo = loc[t].todo \ {e}
  BY <1>2 DEF Locs
<1>4. CASE e \in table /\ WaitForEntry(t, e, 0, l)
  <2>1. Known(e) /\ \A f \in l.todo : Known(f)
    BY <1>1, <1>2, <1>3
  <2>2. Ready(t, e, 0, l)
    BY <1>1, <1>2, <1>3, <1>4, <2>1 DEF Ready
  <2> QED BY <1>3, <1>4, <2>2, WaitForEntryUse
<1>5. CASE /\ loc' = [loc EXCEPT ![t] = l]
           /\ UNCHANGED <<info, entryVars, table, cacheVars, mutex, pc, main, dup, asleep>>
  <2>1. /\ UNCHANGED <<info, out, driveout, table, connected, mutex, pc, main, dup, asleep>>
        /\ loc'[t] = l /\ \A u \in Threads : u # t => loc'[u] = loc[u]
    BY <1>5 DEF entryVars, cacheVars, Context, LooseType
  <2>2. \A f \in loc'[t].todo : Known(f)'
    BY <1>2, <1>3, <2>1 DEF Known
  <2>3. loc'[t].op = "contact" => Settled(main[t])'
    BY <1>2, <1>3, <2>1 DEF Settled
  <2>4. ThreadInv(t)'
    BY <1>1, <1>2, <1>3, <2>1, <2>2, <2>3, AtUnique
  <2> QED BY <1>1, <1>2, <1>3, <2>1, <2>4, PlainStep DEF HoldPcs
<1> QED BY <1>4, <1>5 DEF UniqueNext

LEMMA UniqueDoneUse ==
  ASSUME Context, NEW t \in Threads, UniqueDone(t), Frame(t)
  PROVE  UseInv'
<1>1. pc[t] = "unique" /\ loc[t].op = "auth"
  BY DEF UniqueDone
<1>2. main[t] \in Sas /\ out[main[t]] = t /\ dup[t] = None /\ t \notin asleep
  BY <1>1, UniqueFacts
<1>3. /\ UNCHANGED <<info, out, driveout, table, connected, mutex, main, dup, asleep>>
      /\ pc'[t] = "work" /\ loc'[t] = NoLoc /\ \A u \in Threads : u # t => loc'[u] = loc[u]
  BY DEF UniqueDone, Goto, entryVars, cacheVars, Context, LooseType
<1>4. loc'[t].op = "none"
  BY <1>3 DEF NoLoc
<1>5. ThreadInv(t)'
  BY <1>2, <1>3, <1>4, AtWork
<1> QED BY <1>1, <1>2, <1>3, <1>5, PlainStep DEF HoldPcs

LEMMA ContactDoneUse ==
  ASSUME Context, NEW t \in Threads, ContactDone(t), Frame(t)
  PROVE  UseInv'
<1>1. pc[t] = "unique" /\ loc[t].op = "contact"
  BY DEF ContactDone
<1>2. /\ main[t] \in Sas /\ out[main[t]] = t /\ dup[t] = None /\ t \notin asleep
      /\ ~info[main[t]].ided /\ Settled(main[t])
  BY <1>1, UniqueFacts
<1> PICK e \in Sas : e = main[t]
  BY <1>2
<1>3. /\ UNCHANGED <<driveout, table, mutex, dup>> /\ Unlocked(t, e)
      /\ asleep' \in Signal(e) /\ connected' = connected \cup {e}
      /\ info' = [info EXCEPT ![e].ided = TRUE] /\ out' = [out EXCEPT ![e] = None]
      /\ main'[t] = None /\ pc'[t] = "idle" /\ loc'[t] = NoLoc
      /\ \A u \in Threads : u # t => loc'[u] = loc[u]
  BY DEF ContactDone, ContactSignal, Goto, Context, LooseType
<1>4. out'[e] = None /\ \A f \in Sas : f # e => out'[f] = out[f]
  BY <1>3 DEF Context, LooseType
<1>5. /\ info'[e] = [info[e] EXCEPT !.ided = TRUE] /\ info[e] \in Infos
      /\ \A f \in Sas : f # e => info'[f] = info[f]
  BY <1>3 DEF Context, LooseType
<1>6. info'[e].state = info[e].state /\ info'[e].seg = info[e].seg
  BY <1>5 DEF Infos
<1>7. info'[e].ided
  BY <1>5 DEF Infos
<1>8. /\ \A u \in Threads : u \in asleep' => u \in asleep
      /\ \A u \in Threads : u \notin Sleepers(e) /\ u \in asleep => u \in asleep'
  BY <1>3, SignalSpares
<1>9. loc'[t].op = "none"
  BY <1>3 DEF NoLoc
<1>10. ThreadInv(t)'
  BY <1>2, <1>3, <1>8, <1>9, AtIdle
<1>11. Touch(t, e, e)
  <2>1. Apart(e)
    BY <1>3, <1>4, <1>5 DEF Apart
  <2>2. Mine(t, e, e)
    BY <1>1, <1>2, <1>3, SetsAssumption DEF Mine, HoldPcs
  <2>3. Meets(t, e)
    BY <1>2, <1>3, <1>6, <1>7 DEF Meets, Settled, Known
  <2>4. Spares(t, e)
    BY <1>3, <1>8 DEF Spares
  <2> QED BY <2>1, <2>2, <2>3, <2>4 DEF Touch
<1>12. SaInv(e)'
  BY <1>2, <1>3, <1>4, <1>6, <1>7 DEF SaInv, Settled, Live
<1>13. WakeOf(e)'
  BY <1>2, <1>3, WakeSignal DEF SleepPcs
<1> QED BY <1>10, <1>11, <1>12, <1>13, UseKeep

LEMMA DrivesOutUse ==
  ASSUME Context, NEW t \in Threads, DestroyWakes(t) \/ NewSpiWakes(t), Frame(t)
  PROVE  UseInv'
<1>1. /\ pc[t] \in {"drain", "respi"} /\ t \notin asleep /\ Unlocked(t, loc[t].sa)
      /\ UNCHANGED <<info, out, driveout, connected, mutex, main, dup>>
  BY DEF DestroyWakes, NewSpiWakes, entryVars, cacheVars
<1>2. Places(t) /\ Refers(t) /\ ThreadInv(t)
  BY DEF Context, UseInv, ThreadInv
<1>3. loc[t].sa \in Sas /\ main[t] \in Sas /\ out[loc[t].sa] = t
  BY <1>1, <1>2, Owner DEF Context, Pointers, MainPcs
<1> PICK e \in Sas : e = loc[t].sa
  BY <1>3
<1>4. e \in table /\ driveout[e]
  BY <1>1, <1>2 DEF Refers, HoldPcs
<1>5. driveout'[e] /\ \A f \in Sas : f # e => driveout'[f] = driveout[f]
  BY <1>1, <1>4
<1>6. CASE DestroyWakes(t)
  <2>1. pc[t] = "drain" /\ DriveOut(t, e, "drain", "clean")
    BY <1>6 DEF DestroyWakes
  <2>2. /\ loc[t].op \in UniqueOps \cup {"none"}
        /\ e = dup[t] \/ (e = main[t] /\ dup[t] = None /\ loc[t].op = "none")
    BY <1>2, <2>1 DEF Places
  <2>3. Doomed(t, e, "drain")
    BY <1>1, <1>3, <1>4, <2>1, <2>2 DEF Doomed
  <2> QED BY <1>1, <1>5, <2>1, <2>3, DriveOutUse
<1>7. CASE NewSpiWakes(t)
  <2>1. pc[t] = "respi" /\ DriveOut(t, e, "respi", "moved")
    BY <1>7 DEF NewSpiWakes
  <2>2. loc[t].op = "none" /\ e = main[t] /\ dup[t] = None
    BY <1>2, <2>1 DEF Places
  <2>3. ~info[e].ided
    BY <1>2, <2>1 DEF Refers
  <2>4. Doomed(t, e, "respi")
    BY <1>1, <1>3, <1>4, <2>1, <2>2, <2>3 DEF Doomed
  <2> QED BY <1>1, <1>5, <2>1, <2>4, DriveOutUse
<1> QED BY <1>6, <1>7

LEMMA NewSpiPutUse ==
  ASSUME Context, NEW t \in Threads, NEW s \in Segments, NewSpiPut(t, s), Frame(t)
  PROVE  UseInv'
<1>1. pc[t] = "moved"
  BY DEF NewSpiPut
<1>2. Places(t) /\ Refers(t) /\ ThreadInv(t)
  BY DEF Context, UseInv, ThreadInv
<1>3. loc[t].sa \in Sas /\ main[t] = loc[t].sa /\ out[loc[t].sa] = t
  BY <1>1, <1>2, Owner DEF Context, Places
<1> PICK e \in Sas : e = loc[t].sa
  BY <1>3
<1>4. /\ dup[t] = None /\ loc[t].op = "none" /\ t \notin asleep /\ e \notin table /\ ~info[e].ided
      /\ main[t] = e /\ out[e] = t
  BY <1>1, <1>2, <1>3 DEF Places, Refers, SleepPcs
<1>5. SaInv(e)
  BY DEF Context, UseInv
<1>6. Live(e) /\ e \notin connected /\ info[e].state \notin {"established", "deleting"}
  <2>1. Live(e) /\ e \notin connected
    BY <1>4, <1>5, SetsAssumption DEF SaInv
  <2>2. ASSUME NEW u \in Threads, main[u] = e, loc[u].op = "contact" PROVE FALSE
    <3>1. out[e] = u
      BY <2>2 DEF Context, UseInv, ThreadInv, Refers
    <3> QED BY <1>4, <2>2, <3>1
  <2> QED BY <1>5, <2>1, <2>2 DEF SaInv
<1>7. /\ UNCHANGED <<out, connected, mutex, main, dup, asleep>>
      /\ info' = [info EXCEPT ![e].seg = s] /\ driveout' = [driveout EXCEPT ![e] = FALSE]
      /\ table' = table \cup {e} /\ pc'[t] = "work" /\ loc'[t] = NoLoc
      /\ \A u \in Threads : u # t => loc'[u] = loc[u]
  BY DEF NewSpiPut, Goto, cacheVars, Context, LooseType
<1>8. /\ info'[e] = [info[e] EXCEPT !.seg = s] /\ info[e] \in Infos
      /\ \A f \in Sas : f # e => info'[f] = info[f]
  BY <1>7 DEF Context, LooseType
<1>9. info'[e].state = info[e].state
  BY <1>8 DEF Infos
<1>10. ~info'[e].ided
  BY <1>4, <1>8 DEF Infos
<1>11. \A f \in Sas : f # e => driveout'[f] = driveout[f]
  BY <1>7 DEF Context, LooseType
<1>12. loc'[t].op = "none"
  BY <1>7 DEF NoLoc
<1>13. ThreadInv(t)'
  BY <1>4, <1>7, <1>12, AtWork
<1>14. Touch(t, e, e)
  <2>1. Apart(e)
    BY <1>7, <1>8, <1>11 DEF Apart
  <2>2. Mine(t, e, e)
    BY <1>1, <1>4, <1>7 DEF Mine, HoldPcs
  <2>3. Meets(t, e)
    BY <1>4, <1>6, <1>9 DEF Meets, Live, Known
  <2>4. Spares(t, e)
    BY <1>7 DEF Spares
  <2> QED BY <2>1, <2>2, <2>3, <2>4 DEF Touch
<1>15. SaInv(e)'
  <2>1. Live(e)'
    BY <1>6, <1>9 DEF Live
  <2> QED BY <1>4, <1>6, <1>7, <1>9, <1>10, <2>1 DEF SaInv
<1>16. WakeOf(e)'
  BY <1>4, <1>7, <1>14, WakeNew
<1> QED BY <1>13, <1>14, <1>15, <1>16, UseKeep

LEMMA InnerUse ==
  ASSUME Context, NEW t \in Threads, Inner(t), Frame(t)
  PROVE  UseInv'
<1>1. pc[t] \notin FlushPcs
  BY DEF Context, UseInv, ThreadInv, Places
<1>2. CASE ReceiveRetransmit(t)
  <2>1. pc[t] = "lookup" /\ loc[t].sa \in Sas /\ LookupMessage(t, loc[t].sa, 0)
    BY <1>2 DEF ReceiveRetransmit, Context, Pointers, SaPcs
  <2> QED BY <2>1, LookupUse
<1>3. /\ ~FlushLock(t) /\ ~FlushWakes(t) /\ ~FlushDestroy(t) /\ ~FlushRng(t) /\ ~ManagerDestroy(t)
      /\ \A e \in Sas : ~FlushEntry(t, e)
  <2>1. pc[t] \notin {"lockall", "drainall"}
    BY <1>1 DEF FlushPcs
  <2>2. pc[t] \notin {"flushwait", "norng", "flushed"}
    BY <1>1 DEF FlushPcs
  <2> QED BY <2>1, <2>2 DEF FlushLock, FlushWakes, FlushDestroy, FlushRng, ManagerDestroy, FlushEntry
<1>4. CASE Wakes(t) \/ LimitOk(t) \/ LimitHit(t) \/ PutNew(t)
  BY <1>4, WakesUse, InitialUse
<1>5. CASE EnumRow(t) \/ EnumLeave(t) \/ EnumEnd(t)
  BY <1>5, EnumRowUse, EnumLeaveUse, EnumEndUse
<1>6. CASE UniqueDone(t) \/ ContactDone(t)
  BY <1>6, UniqueDoneUse, ContactDoneUse
<1>7. CASE DestroyWakes(t) \/ DestroyClean(t) \/ NewSpiWakes(t)
  BY <1>7, DrivesOutUse, DestroyCleanUse
<1>8. ASSUME NEW e \in Sas, EnumEntry(t, e) \/ UniqueNext(t, e) PROVE UseInv'
  BY <1>8, EnumEntryUse, UniqueNextUse
<1>9. ASSUME NEW s \in Segments, NewSpiPut(t, s) PROVE UseInv'
  BY <1>9, NewSpiPutUse
<1> QED BY <1>2, <1>3, <1>4, <1>5, <1>6, <1>7, <1>8, <1>9 DEF Inner

-----------------------------------------------------------------------------
(***************************************************************************)
(* The main thread, once it has begun to shut the daemon down, does        *)
(* nothing else: there is no way back to a running daemon.                 *)
(***************************************************************************)
FlushStays == Flusher \notin jobs /\ pc[Flusher] \in {"idle"} \cup FlushPcs

LEMMA InnerFlush ==
  ASSUME LooseType, NEW t \in Threads, Inner(t), pc[t] \in {"idle"} \cup FlushPcs
  PROVE  pc'[t] \in FlushPcs
<1>0. pc[t] \in {"idle", "lockall", "drainall", "flushwait", "norng", "flushed", "destroyed"}
  BY DEF FlushPcs
<1>1. ASSUME \/ Wakes(t) \/ ReceiveRetransmit(t) \/ LimitOk(t) \/ LimitHit(t) \/ PutNew(t)
             \/ EnumRow(t) \/ EnumLeave(t) \/ EnumEnd(t)
      PROVE  FALSE
  BY <1>0, <1>1 DEF Wakes, ReceiveRetransmit, LimitOk, LimitHit, PutNew, EnumRow, EnumLeave, EnumEnd
<1>2. ASSUME \/ UniqueDone(t) \/ ContactDone(t) \/ DestroyWakes(t) \/ DestroyClean(t) \/ NewSpiWakes(t)
      PROVE  FALSE
  BY <1>0, <1>2 DEF UniqueDone, ContactDone, DestroyWakes, DestroyClean, NewSpiWakes
<1>3. ASSUME NEW e \in Sas, EnumEntry(t, e) \/ UniqueNext(t, e) PROVE FALSE
  BY <1>0, <1>3 DEF EnumEntry, UniqueNext
<1>4. ASSUME NEW s \in Segments, NewSpiPut(t, s) PROVE FALSE
  BY <1>0, <1>4 DEF NewSpiPut
<1>5. ASSUME NEW e \in Sas, FlushEntry(t, e) PROVE pc'[t] \in FlushPcs
  BY <1>5 DEF FlushEntry, Goto, FlushPcs, LooseType
<1>6. CASE FlushLock(t)
  BY <1>6 DEF FlushLock, Goto, FlushPcs, LooseType
<1>7. CASE FlushWakes(t) \/ FlushDestroy(t) \/ FlushRng(t) \/ ManagerDestroy(t)
  BY <1>7 DEF FlushWakes, FlushDestroy, FlushRng, ManagerDestroy, Goto, FlushPcs, LooseType
<1> QED BY <1>1, <1>2, <1>3, <1>4, <1>5, <1>6, <1>7 DEF Inner

LEMMA BeginJobs ==
  ASSUME NEW t \in Threads, Begin(t)
  PROVE  t \in jobs /\ pc[t] = "idle" /\ jobs' \subseteq jobs
BY DEF Begin, NotFound, Checkout, CheckoutNew, ReceiveMessage, ReceiveInit, EnumStart, Idle

\* What a job that has an SA does, it does not do while idle or flushing.
LEMMA BusyJobs ==
  ASSUME NEW t \in Threads, Nested(t) \/ End(t)
  PROVE  pc[t] \notin {"idle"} \cup FlushPcs /\ jobs' = jobs
<1>1. CASE Nested(t)
  BY <1>1 DEF Nested, UniqueStart, NewInitiatorSpi, Rekey, FlushPcs
<1>2. CASE End(t)
  <2>1. pc[t] \in {"work", "dispose", "rekey"} /\ jobs' = jobs
    BY <1>2 DEF End, Destroy, DestroyUnknown, MayDestroy, CheckinContact, CheckinRekeyed,
                CheckinMain, UniqueCheckin
  <2> QED BY <2>1 DEF FlushPcs
<1> QED BY <1>1, <1>2

RunInv == ManagerInv /\ FlushStays /\ (Running => UseInv)

LEMMA InitRun == Init => RunInv
<1> SUFFICES ASSUME Init PROVE RunInv
  OBVIOUS
<1>1. ManagerInv
  BY InitWait, InitHalf DEF ManagerInv
<1>2. FlushStays
  BY SetsAssumption DEF FlushStays, Init
<1>n. NoLoc.op = "none" /\ NoInfo.state = "none" /\ ~NoInfo.ided
  BY DEF NoLoc, NoInfo
<1>3. ASSUME NEW u \in Threads PROVE ThreadInv(u)
  <2>1. pc[u] = "idle" /\ main[u] = None /\ dup[u] = None /\ loc[u].op = "none" /\ u \notin asleep
    BY <1>n DEF Init
  <2>2. Places(u)
    BY <2>1 DEF Places, FlushPcs
  <2>3. Refers(u)
    BY <2>1, SetsAssumption DEF Refers, HoldPcs
  <2>4. Enumerates(u) /\ Checks(u)
    BY <2>1 DEF Enumerates, Checks, EnumOps, UniqueOps
  <2> QED BY <2>2, <2>3, <2>4 DEF ThreadInv
<1>4. ASSUME NEW e \in Sas PROVE SaInv(e) /\ WakeOf(e)
  BY <1>n DEF Init, SaInv, WakeOf
<1>5. PairInv
  BY DEF Init, PairInv
<1> QED BY <1>1, <1>2, <1>3, <1>4, <1>5 DEF RunInv, UseInv

LEMMA RunStep == RunInv /\ [Next]_vars => RunInv'
<1> SUFFICES ASSUME RunInv, [Next]_vars PROVE RunInv'
  OBVIOUS
<1>1. ManagerInv /\ ManagerInv'
  BY ManagerStep DEF RunInv
<1>2. LooseType /\ LooseType' /\ Pointers /\ Pointers' /\ WaitingCounted
  BY <1>1 DEF ManagerInv, WaitInv
<1>3. ASSUME UNCHANGED vars PROVE RunInv'
  <2>1. UNCHANGED <<info, out, waiting, driveout, table, connected, mutex, pc, main, dup, loc, asleep, jobs>>
    BY <1>3 DEF vars, mgrVars, entryVars, cacheVars, threadVars
  <2>2. FlushStays' /\ (Running' => Running)
    BY <2>1 DEF RunInv, FlushStays, Running
  <2>3. \A u \in Threads : ThreadInv(u) => ThreadInv(u)'
    BY <2>1 DEF ThreadInv, Places, Refers, Enumerates, Checks, Known, Settled
  <2>4. \A e \in Sas : SaInv(e) => SaInv(e)'
    BY <2>1 DEF SaInv, Live
  <2>5. \A e \in Sas : WakeOf(e) => WakeOf(e)'
    BY <2>1 DEF WakeOf, Sleepers, Waiters
  <2>6. UseInv => UseInv'
    BY <2>1, <2>3, <2>4, <2>5 DEF UseInv, PairInv
  <2> QED BY <1>1, <2>2, <2>6 DEF RunInv
<1>4. ASSUME NEW t \in Threads, FlushStart(t) PROVE FlushStays' /\ ~Running'
  <2>1. t = Flusher /\ pc'[Flusher] = "lockall" /\ jobs' \subseteq jobs
    BY <1>2, <1>4 DEF FlushStart, Goto, LooseType
  <2> QED BY <2>1 DEF RunInv, FlushStays, Running, FlushPcs
<1>5. ASSUME NEW t \in Threads, Begin(t) \/ Nested(t) \/ Inner(t) \/ End(t)
      PROVE  FlushStays' /\ (Running' => UseInv')
  <2>1. Frame(t)
    BY <1>2, <1>5, BeginGood, NestedGood, InnerGood, EndGood DEF Good
  <2>2. jobs' \subseteq jobs
    BY <1>5, BeginJobs, BusyJobs DEF Inner
  <2>3. ASSUME t # Flusher PROVE pc'[Flusher] = pc[Flusher]
    BY <2>1, <2>3, SetsAssumption DEF Frame
  <2>4. ASSUME t = Flusher PROVE pc'[Flusher] \in FlushPcs
    <3>1. Inner(t)
      BY <1>5, <2>4, BeginJobs, BusyJobs DEF RunInv, FlushStays
    <3> QED BY <1>2, <2>4, <3>1, InnerFlush DEF RunInv, FlushStays
  <2>5. FlushStays' /\ (Running' => Running)
    BY <2>2, <2>3, <2>4 DEF Running, RunInv, FlushStays, FlushPcs
  <2>6. ASSUME Running PROVE UseInv'
    <3>1. Context
      BY <1>2, <2>6 DEF Context, RunInv
    <3> QED BY <1>5, <2>1, <3>1, BeginUse, NestedUse, InnerUse, EndUse
  <2> QED BY <2>5, <2>6
<1> QED BY <1>1, <1>3, <1>4, <1>5 DEF Next, RunInv

-----------------------------------------------------------------------------
(***************************************************************************)
(* init_hashes_table, with or without a shutdown.                          *)
(***************************************************************************)
HashInv == InitHashExact /\ \A e \in Sas : info[e].state = "none" => info[e].hash = None

\* A step that remembers or forgets no initial message.
HashKept == /\ UNCHANGED initHashes
            /\ \A e \in Sas : /\ info'[e].hash = info[e].hash
                              /\ info'[e].state = "none" => info[e].state = "none"

LEMMA HashKeptInv == HashInv /\ HashKept => HashInv'
BY DEF HashInv, HashKept, InitHashExact

LEMMA SameHash == UNCHANGED <<info, initHashes>> => HashKept
BY DEF HashKept

\* One SA changes, but for its hash.
LEMMA EditHash ==
  ASSUME NEW e \in Sas, UNCHANGED initHashes, \A f \in Sas : f # e => info'[f] = info[f],
         info'[e].hash = info[e].hash, info'[e].state # "none" \/ info'[e].state = info[e].state
  PROVE  HashKept
BY DEF HashKept

LEMMA CreateHash ==
  ASSUME LooseType, NEW t, NEW e \in Sas, NEW st \in {"created", "connecting"}, Create(t, e, st),
         UNCHANGED initHashes
  PROVE  HashKept
<1>1. PICK s \in Segments : info' = [info EXCEPT ![e].state = st, ![e].seg = s]
  BY DEF Create
<1>2. info'[e] = [info[e] EXCEPT !.state = st, !.seg = s] /\ info[e] \in Infos
  BY <1>1 DEF LooseType
<1>3. \A f \in Sas : f # e => info'[f] = info[f]
  BY <1>1 DEF LooseType
<1>4. info'[e].hash = info[e].hash /\ info'[e].state = st
  BY <1>2 DEF Infos
<1> QED BY <1>3, <1>4, EditHash

LEMMA WaitForEntryHash ==
  ASSUME LooseType, NEW t, NEW e \in Sas, NEW w, NEW l, WaitForEntry(t, e, w, l)
  PROVE  HashKept
<1>0. UNCHANGED initHashes
  BY DEF WaitForEntry, cacheVars
<1>1. CASE UNCHANGED info
  BY <1>0, <1>1, SameHash
<1>2. CASE info' = [info EXCEPT ![e].processing = l.mid]
  <2>1. info'[e] = [info[e] EXCEPT !.processing = l.mid] /\ info[e] \in Infos
    BY <1>2 DEF LooseType
  <2>2. \A f \in Sas : f # e => info'[f] = info[f]
    BY <1>2 DEF LooseType
  <2>3. info'[e].hash = info[e].hash /\ info'[e].state = info[e].state
    BY <2>1 DEF Infos
  <2> QED BY <1>0, <2>2, <2>3, EditHash
<1> QED BY <1>1, <1>2 DEF WaitForEntry, Refused, Busy, Got, Found, Visit

LEMMA LookupHash ==
  ASSUME LooseType, NEW t, NEW e \in Sas, NEW i, LookupMessage(t, e, i)
  PROVE  HashKept
BY WaitForEntryHash, SameHash DEF LookupMessage, cacheVars

LEMMA CheckinHash ==
  ASSUME LooseType, NEW t, NEW e \in Sas, NEW st \in {"connecting", "established", "deleting"},
         NEW h \in Hosts, NEW contact, Checkin(t, e, st, h, contact)
  PROVE  HashKept
<1> DEFINE first == FirstTime(e, st) /\ ~contact
           new   == IF st = "connecting" THEN h ELSE None
<1>1. /\ info'[e] = [info[e] EXCEPT !.state = st, !.processing = -1, !.half = new, !.ided = @ \/ first]
      /\ info[e] \in Infos /\ (\A f \in Sas : f # e => info'[f] = info[f]) /\ UNCHANGED initHashes
  BY DEF Checkin, LooseType
<1> HIDE DEF first, new
<1>2. info'[e].hash = info[e].hash /\ info'[e].state = st
  BY <1>1 DEF Infos
<1> QED BY <1>1, <1>2, EditHash

\* remove_init_hash of everything that is destroyed.
LEMMA EntryDestroyHash ==
  ASSUME LooseType, HashInv, NEW E \in SUBSET Sas, EntryDestroy(E)
  PROVE  HashInv'
<1>1. \A e \in Sas : IF e \in E THEN info'[e].hash = None /\ info'[e].state = "dead"
                                ELSE info'[e] = info[e]
  BY DEF EntryDestroy, NoInfo
<1>2. ASSUME NEW m \in Inits, NEW e \in Sas PROVE initHashes'[m] = e <=> info'[e].hash = m
  <2>1. initHashes'[m] = IF \E f \in E : info[f].hash = m THEN None ELSE initHashes[m]
    BY DEF EntryDestroy
  <2>2. None # m /\ None # e
    BY SetsAssumption
  <2>3. \A f \in Sas : initHashes[m] = f <=> info[f].hash = m
    BY DEF HashInv, InitHashExact
  <2> QED BY <1>1, <2>1, <2>2, <2>3
<1> QED BY <1>1, <1>2 DEF HashInv, InitHashExact

LEMMA BeginHash ==
  ASSUME LooseType, HashInv, NEW t \in Threads, Begin(t)
  PROVE  HashInv'
<1>1. CASE NotFound(t)
  BY <1>1, SameHash, HashKeptInv DEF NotFound, mgrVars, cacheVars
<1>2. ASSUME NEW e \in Sas, Checkout(t, e) PROVE HashInv'
  BY <1>2, WaitForEntryHash, HashKeptInv DEF Checkout
<1>3. ASSUME NEW e \in Sas, CheckoutNew(t, e) PROVE HashInv'
  BY <1>3, CreateHash, HashKeptInv DEF CheckoutNew, cacheVars
<1>4. ASSUME NEW e \in Sas, NEW i \in MsgIds, ReceiveMessage(t, e, i) PROVE HashInv'
  BY <1>4, LookupHash, HashKeptInv DEF ReceiveMessage
<1>5. ASSUME NEW m \in Inits, ReceiveInit(t, m) PROVE HashInv'
  <2>1. CASE UNCHANGED <<info, initHashes>>
    BY <2>1, SameHash, HashKeptInv
  <2>2. ASSUME NEW e \in Fresh, NEW s \in Segments, initHashes[m] = None,
               initHashes' = [initHashes EXCEPT ![m] = e],
               info' = [info EXCEPT ![e].state = "spi", ![e].hash = m,
                                    ![e].seg = s, ![e].role = "responder"]
        PROVE  HashInv'
    <3>1. e \in Sas /\ info[e].hash = None
      BY DEF Fresh, HashInv
    <3>2. /\ info'[e] = [info[e] EXCEPT !.state = "spi", !.hash = m, !.seg = s, !.role = "responder"]
          /\ info[e] \in Infos
      BY <2>2, <3>1 DEF LooseType
    <3>3. \A f \in Sas : f # e => info'[f] = info[f]
      BY <2>2, <3>1 DEF LooseType
    <3>4. info'[e].hash = m /\ info'[e].state = "spi"
      BY <3>2 DEF Infos
    <3>5. initHashes'[m] = e /\ \A k \in Inits : k # m => initHashes'[k] = initHashes[k]
      BY <2>2 DEF LooseType
    <3>6. None \notin Inits \cup Sas
      BY SetsAssumption
    <3>7. ASSUME NEW k \in Inits, NEW f \in Sas PROVE initHashes'[k] = f <=> info'[f].hash = k
      <4>1. \A j \in Inits : initHashes[j] = f <=> info[f].hash = j
        BY DEF HashInv, InitHashExact
      <4>2. CASE f = e
        BY <3>1, <3>4, <3>5, <3>6, <4>1, <4>2
      <4>3. CASE f # e
        BY <2>2, <3>3, <3>5, <3>6, <4>1, <4>3
      <4> QED BY <4>2, <4>3
    <3> QED BY <3>3, <3>4, <3>7 DEF HashInv, InitHashExact
  <2> QED BY <1>5, <2>1, <2>2 DEF ReceiveInit
<1>6. ASSUME NEW o, NEW ws, EnumStart(t, o, ws) PROVE HashInv'
  BY <1>6, SameHash, HashKeptInv DEF EnumStart, cacheVars
<1> QED BY <1>1, <1>2, <1>3, <1>4, <1>5, <1>6 DEF Begin

LEMMA EndHash ==
  ASSUME LooseType, Pointers, HashInv, NEW t \in Threads, End(t)
  PROVE  HashInv'
<1>1. ASSUME NEW e \in Sas, Destroy(t, e) PROVE HashInv'
  BY <1>1, SameHash, HashKeptInv DEF Destroy, cacheVars
<1>2. ASSUME NEW e \in Sas, DestroyUnknown(t, e) PROVE HashInv'
  <2>1. /\ info'[e] = [info[e] EXCEPT !.state = "dead"] /\ info[e] \in Infos
        /\ UNCHANGED initHashes /\ \A f \in Sas : f # e => info'[f] = info[f]
    BY <1>2 DEF DestroyUnknown, LooseType, cacheVars
  <2>2. info'[e].hash = info[e].hash /\ info'[e].state = "dead"
    BY <2>1 DEF Infos
  <2> QED BY <2>1, <2>2, EditHash, HashKeptInv
<1>3. ASSUME NEW h \in Hosts, CheckinContact(t, h) PROVE HashInv'
  <2>1. main[t] \in Sas /\ Checkin(t, main[t], "established", h, TRUE)
    BY <1>3 DEF CheckinContact, Pointers, MainPcs
  <2> QED BY <2>1, CheckinHash, HashKeptInv
<1>4. ASSUME NEW h \in Hosts, CheckinRekeyed(t, h) PROVE HashInv'
  <2>1. dup[t] \in Sas /\ Checkin(t, dup[t], "established", h, FALSE)
    BY <1>4 DEF CheckinRekeyed, Pointers
  <2> QED BY <2>1, CheckinHash, HashKeptInv
<1>5. ASSUME NEW st \in {"connecting", "established", "deleting"}, NEW h \in Hosts,
             CheckinMain(t, st, h) \/ UniqueCheckin(t, st, h)
      PROVE  HashInv'
  <2>1. \E e \in Sas : Checkin(t, e, st, h, FALSE)
    BY <1>5 DEF CheckinMain, UniqueCheckin, Pointers, MainPcs
  <2> QED BY <2>1, CheckinHash, HashKeptInv
<1> QED BY <1>1, <1>2, <1>3, <1>4, <1>5 DEF End

\* The message of an SA that never comes to life is forgotten.
LEMMA LimitHitHash ==
  ASSUME LooseType, Pointers, HashInv, NEW t \in Threads, LimitHit(t)
  PROVE  HashInv'
<1>1. loc[t].sa \in Sas
  BY DEF LimitHit, Pointers, SaPcs
<1> PICK e \in Sas : e = loc[t].sa
  BY <1>1
<1>2. /\ initHashes' = [initHashes EXCEPT ![info[e].hash] = None]
      /\ info'[e] = [info[e] EXCEPT !.state = "dead", !.hash = None] /\ info[e] \in Infos
      /\ \A f \in Sas : f # e => info'[f] = info[f]
  BY DEF LimitHit, ForgetInit, LooseType
<1>3. info'[e].hash = None /\ info'[e].state = "dead"
  BY <1>2 DEF Infos
<1>4. ASSUME NEW m \in Inits, NEW f \in Sas PROVE initHashes'[m] = f <=> info'[f].hash = m
  <2>1. initHashes'[m] = IF m = info[e].hash THEN None ELSE initHashes[m]
    BY <1>2 DEF LooseType
  <2>2. None # m /\ None # f
    BY SetsAssumption
  <2>3. \A g \in Sas : initHashes[m] = g <=> info[g].hash = m
    BY DEF HashInv, InitHashExact
  <2>4. CASE f = e
    BY <1>3, <2>1, <2>2, <2>3, <2>4
  <2>5. CASE f # e
    BY <1>2, <2>1, <2>2, <2>3, <2>5
  <2> QED BY <2>4, <2>5
<1>5. ASSUME NEW f \in Sas, info'[f].state = "none" PROVE info'[f].hash = None
  <2>1. f # e
    BY <1>3, <1>5
  <2>2. info'[f] = info[f]
    BY <1>2, <2>1
  <2> QED BY <1>5, <2>2 DEF HashInv
<1>6. InitHashExact'
  BY <1>4 DEF InitHashExact
<1> QED BY <1>5, <1>6 DEF HashInv

LEMMA InnerHash ==
  ASSUME LooseType, Pointers, HashInv, NEW t \in Threads, Inner(t)
  PROVE  HashInv'
<1>1. CASE Wakes(t)
  <2>1. loc[t].sa \in Sas /\ WaitForEntry(t, loc[t].sa, 1, loc[t])
    BY <1>1 DEF Wakes, Pointers, SaPcs
  <2> QED BY <2>1, WaitForEntryHash, HashKeptInv
<1>2. CASE ReceiveRetransmit(t)
  BY <1>2, LookupHash, HashKeptInv DEF ReceiveRetransmit, Pointers, SaPcs
<1>3. CASE PutNew(t)
  <2>1. loc[t].sa \in Sas
    BY <1>3 DEF PutNew, Pointers, SaPcs
  <2> PICK e \in Sas : e = loc[t].sa
    BY <2>1
  <2>2. /\ info'[e] = [info[e] EXCEPT !.state = "created", !.processing = 0] /\ info[e] \in Infos
        /\ UNCHANGED initHashes /\ \A f \in Sas : f # e => info'[f] = info[f]
    BY <1>3 DEF PutNew, LooseType, cacheVars
  <2>3. info'[e].hash = info[e].hash /\ info'[e].state = "created"
    BY <2>2 DEF Infos
  <2> QED BY <2>2, <2>3, EditHash, HashKeptInv
<1>4. CASE LimitOk(t) \/ EnumRow(t) \/ EnumLeave(t) \/ UniqueDone(t) \/ DestroyWakes(t)
           \/ NewSpiWakes(t) \/ FlushLock(t) \/ FlushWakes(t) \/ FlushRng(t)
  <2>1. UNCHANGED <<info, initHashes>>
    BY <1>4 DEF LimitOk, EnumRow, EnumLeave, UniqueDone, DestroyWakes, NewSpiWakes,
                FlushLock, FlushWakes, FlushRng, cacheVars
  <2> QED BY <2>1, SameHash, HashKeptInv
<1>5. CASE EnumEnd(t)
  <2>1. UNCHANGED initHashes
    BY <1>5 DEF EnumEnd, cacheVars
  <2>2. CASE UNCHANGED info
    BY <2>1, <2>2, SameHash, HashKeptInv
  <2>3. ASSUME NEW e \in Sas, Create(t, e, "created") PROVE HashInv'
    BY <2>1, <2>3, CreateHash, HashKeptInv
  <2> QED BY <1>5, <2>2, <2>3 DEF EnumEnd, Fresh
<1>6. CASE ContactDone(t)
  <2>1. main[t] \in Sas
    BY <1>6 DEF ContactDone, Pointers, MainPcs
  <2> PICK e \in Sas : e = main[t]
    BY <2>1
  <2>2. /\ info'[e] = [info[e] EXCEPT !.ided = TRUE] /\ info[e] \in Infos
        /\ UNCHANGED initHashes /\ \A f \in Sas : f # e => info'[f] = info[f]
    BY <1>6 DEF ContactDone, LooseType
  <2>3. info'[e].hash = info[e].hash /\ info'[e].state = info[e].state
    BY <2>2 DEF Infos
  <2> QED BY <2>2, <2>3, EditHash, HashKeptInv
<1>7. CASE DestroyClean(t)
  <2>1. {loc[t].sa} \in SUBSET Sas /\ EntryDestroy({loc[t].sa})
    BY <1>7 DEF DestroyClean, Pointers, SaPcs
  <2> QED BY <2>1, EntryDestroyHash
<1>8. CASE FlushDestroy(t) \/ ManagerDestroy(t)
  <2>1. table \in SUBSET Sas /\ EntryDestroy(table)
    BY <1>8 DEF FlushDestroy, ManagerDestroy, LooseType
  <2> QED BY <2>1, EntryDestroyHash
<1>9. ASSUME NEW e \in Sas, EnumEntry(t, e) \/ UniqueNext(t, e) PROVE HashInv'
  <2>1. UNCHANGED <<info, initHashes>> \/ \E w, l : WaitForEntry(t, e, w, l)
    BY <1>9 DEF EnumEntry, UniqueNext, cacheVars
  <2> QED BY <2>1, SameHash, WaitForEntryHash, HashKeptInv
<1>10. ASSUME NEW e \in Sas, FlushEntry(t, e) PROVE HashInv'
  BY <1>10, SameHash, HashKeptInv DEF FlushEntry, cacheVars
<1>11. ASSUME NEW s \in Segments, NewSpiPut(t, s) PROVE HashInv'
  <2>1. loc[t].sa \in Sas
    BY <1>11 DEF NewSpiPut, Pointers, SaPcs
  <2> PICK e \in Sas : e = loc[t].sa
    BY <2>1
  <2>2. /\ info'[e] = [info[e] EXCEPT !.seg = s] /\ info[e] \in Infos
        /\ UNCHANGED initHashes /\ \A f \in Sas : f # e => info'[f] = info[f]
    BY <1>11 DEF NewSpiPut, LooseType, cacheVars
  <2>3. info'[e].hash = info[e].hash /\ info'[e].state = info[e].state
    BY <2>2 DEF Infos
  <2> QED BY <2>2, <2>3, EditHash, HashKeptInv
<1> QED BY <1>1, <1>2, <1>3, <1>4, <1>5, <1>6, <1>7, <1>8, <1>9, <1>10, <1>11, LimitHitHash DEF Inner

LEMMA HashStep ==
  ASSUME LooseType, Pointers, HashInv, [Next]_vars
  PROVE  HashInv'
<1>1. CASE UNCHANGED vars
  <2>1. UNCHANGED <<info, initHashes>>
    BY <1>1 DEF vars, mgrVars, cacheVars
  <2> QED BY <2>1, SameHash, HashKeptInv
<1>2. ASSUME NEW t \in Threads, FlushStart(t) PROVE HashInv'
  BY <1>2, SameHash, HashKeptInv DEF FlushStart, cacheVars
<1>3. ASSUME NEW t \in Threads, Nested(t) PROVE HashInv'
  <2>1. CASE UniqueStart(t) \/ NewInitiatorSpi(t)
    BY <2>1, SameHash, HashKeptInv DEF UniqueStart, NewInitiatorSpi, cacheVars
  <2>2. ASSUME NEW e \in Sas, Rekey(t, e) PROVE HashInv'
    BY <2>2, CreateHash, HashKeptInv DEF Rekey, cacheVars
  <2> QED BY <1>3, <2>1, <2>2 DEF Nested
<1> QED BY <1>1, <1>2, <1>3, BeginHash, EndHash, InnerHash DEF Next

LEMMA InitHash == Init => HashInv
<1> SUFFICES ASSUME Init PROVE HashInv
  OBVIOUS
<1>1. \A e \in Sas : info[e].hash = None
  BY DEF Init, NoInfo
<1>2. \A m \in Inits : initHashes[m] = None
  BY DEF Init
<1> QED BY <1>1, <1>2, SetsAssumption DEF HashInv, InitHashExact

FullInv == RunInv /\ HashInv

LEMMA InitFull == Init => FullInv
BY InitRun, InitHash DEF FullInv

LEMMA FullStep == FullInv /\ [Next]_vars => FullInv'
BY RunStep, HashStep DEF FullInv, RunInv, ManagerInv, WaitInv

-----------------------------------------------------------------------------
(***************************************************************************)
(* What the manager promises while the daemon runs.                        *)
(***************************************************************************)

\* No entry is freed or moved while a thread sleeps on its condvar, stands on
\* it in an enumeration, or keeps it through check_uniqueness.
THEOREM EntriesTheorem == Spec => [](Running => EntriesStay)
<1>1. FullInv => (Running => EntriesStay)
  <2> SUFFICES ASSUME FullInv, Running PROVE EntriesStay
    OBVIOUS
  <2> SUFFICES ASSUME NEW t \in Threads
               PROVE  /\ pc[t] \in SleepPcs \cup {"visit", "leave"} => loc[t].sa \in table
                      /\ loc[t].op = "contact" => main[t] \in table
    BY DEF EntriesStay
  <2>1. Places(t) /\ Refers(t)
    BY DEF FullInv, RunInv, UseInv, ThreadInv
  <2> QED BY <2>1 DEF Places, Refers, FlushPcs, SleepPcs, HoldPcs, Settled
<1> QED BY <1>1, InitFull, FullStep, PTL DEF Spec

\* Checkout is exclusive: no two threads ever use one ike_sa_t, whether they
\* checked it out, hold it besides another one, or look at it in an
\* enumeration.
THEOREM ExclusiveTheorem == Spec => [](Running => ExclusiveUse)
<1>1. FullInv => (Running => ExclusiveUse)
  <2> SUFFICES ASSUME FullInv, Running,
                      NEW e \in Sas, NEW t \in Threads, NEW u \in Threads,
                      UsesSa(t, e), UsesSa(u, e)
               PROVE  t = u
    BY DEF ExclusiveUse
  <2>1. \A v \in Threads : Places(v) /\ Refers(v) /\ Enumerates(v)
    BY DEF FullInv, RunInv, UseInv, ThreadInv
  <2>2. \A v \in Threads : UsesSa(v, e) =>
           out[e] = v \/ (out[e] = None /\ mutex[info[e].seg] = v)
    BY <2>1 DEF UsesSa, Places, Refers, Enumerates, FlushPcs
  <2> QED BY <2>2, SetsAssumption
<1> QED BY <1>1, InitFull, FullStep, PTL DEF Spec

\* No wakeup is lost, although one signal() wakes any one of the threads that
\* wait for an entry, to get it, to look at it or to remove it.
THEOREM WakeupTheorem == Spec => [](Running => NoLostWakeup)
<1>1. FullInv => (Running => NoLostWakeup)
  <2> SUFFICES ASSUME FullInv, Running PROVE NoLostWakeup
    OBVIOUS
  <2>1. table \subseteq Sas /\ \A e \in Sas : WakeOf(e)
    BY DEF FullInv, RunInv, UseInv, ManagerInv, WaitInv, LooseType
  <2> QED BY <2>1 DEF NoLostWakeup, WakeOf
<1> QED BY <1>1, InitFull, FullStep, PTL DEF Spec

\* No threads wait for one another in a circle: who has an SA and waits for
\* another one has an SA that is not among the connected peers, and waits for
\* one that is.
THEOREM CircleTheorem == Spec => [](Running => NoCircularWait)
<1>1. FullInv => (Running => NoCircularWait)
  <2> SUFFICES ASSUME FullInv, Running, NEW S \in SUBSET Threads, S # {},
                      \A t \in S : pc[t] = "wait" /\ out[loc[t].sa] \in S
               PROVE  FALSE
    BY DEF NoCircularWait
  <2>1. /\ \A v \in Threads : Places(v) /\ Refers(v) /\ Checks(v)
        /\ \A e \in Sas : SaInv(e)
    BY DEF FullInv, RunInv, UseInv, ThreadInv
  <2>2. Pointers /\ None \notin Threads \cup Sas
    BY SetsAssumption DEF FullInv, RunInv, ManagerInv, WaitInv
  <2>3. ASSUME NEW t \in S
        PROVE  /\ loc[t].sa \in Sas /\ Live(loc[t].sa) /\ out[loc[t].sa] \in S
               /\ ~info[loc[t].sa].ided
               /\ Known(loc[out[loc[t].sa]].sa)
    <3> PICK a \in Sas : a = loc[t].sa
      BY <2>2 DEF Pointers, SaPcs
    <3> PICK u \in S : u = out[a]
      OBVIOUS
    <3>1. u \in Threads /\ pc[u] = "wait" /\ u # None
      BY <2>2
    <3>2. Live(a) /\ (main[u] = a \/ dup[u] = a)
      BY <2>1, <3>1 DEF SaInv
    <3>3. main[u] = a /\ loc[u].op \in UniqueOps
      BY <2>1, <2>2, <3>1, <3>2 DEF Places
    <3>4. ~info[a].ided /\ Known(loc[u].sa)
      BY <2>1, <3>1, <3>3 DEF Checks
    <3> QED BY <3>2, <3>4
  <2>4. PICK t \in S : TRUE
    OBVIOUS
  <2>5. PICK u \in S : u = out[loc[t].sa]
    BY <2>3
  <2>6. Known(loc[u].sa)
    BY <2>3, <2>5
  <2>7. ~info[loc[u].sa].ided /\ Live(loc[u].sa)
    BY <2>3
  <2> QED BY <2>6, <2>7 DEF Known, Live
<1> QED BY <1>1, InitFull, FullStep, PTL DEF Spec

\* The tables of initial messages and of connected peers agree with the SAs,
\* although they are updated under locks of their own, after the segment.
THEOREM TablesTheorem == Spec => [](Running => TablesAgree)
<1>1. FullInv => (Running => TablesAgree)
  <2> SUFFICES ASSUME FullInv, Running PROVE TablesAgree
    OBVIOUS
  <2>1. table \subseteq Sas /\ connected \subseteq Sas /\ \A e \in Sas : SaInv(e)
    BY DEF FullInv, RunInv, UseInv, ManagerInv, WaitInv, LooseType
  <2>2. ConnectedExact
    BY <2>1 DEF ConnectedExact, SaInv
  <2> QED BY <2>2 DEF TablesAgree, FullInv, HashInv
<1> QED BY <1>1, InitFull, FullStep, PTL DEF Spec

\* A retransmit never creates a second SA, and no initial message is
\* remembered without its SA, not even at shutdown.
THEOREM InitHashTheorem == Spec => []InitHashExact
<1>1. FullInv => InitHashExact
  BY DEF FullInv, HashInv
<1> QED BY <1>1, InitFull, FullStep, PTL DEF Spec

-----------------------------------------------------------------------------
(***************************************************************************)
(* The manager as a registry of SAs.  A step of t begins or ends its use   *)
(* of at most one SA, and only that SA changes its state.                  *)
(***************************************************************************)
Unborn(e) == info[e].state \in {"none", "spi"}
Later(t, x) == \/ info'[x].state = info[x].state \/ (Live(x) /\ Live(x)')
               \/ Unborn(x) /\ (Unborn(x)' \/ info'[x].state = "dead")
               \/ Unborn(x) /\ Live(x)' /\ UsesSa(t, x)'
               \/ Live(x) /\ info'[x].state = "dead"
Stays(t, f) == info'[f].state = info[f].state /\ (UsesSa(t, f)' <=> UsesSa(t, f))
Moved(t)    == \E x : (\A f \in Sas : f # x => Stays(t, f)) /\ (x \in Sas => Later(t, x))

\* t does not flush.
Worker(t) == pc[t] # "drainall" /\ pc'[t] # "drainall"

LEMMA MovedAt ==
  ASSUME NEW t, NEW x, Worker(t), x \in Sas => Later(t, x),
         \A f \in Sas : f # x => /\ info'[f].state = info[f].state
                                 /\ main'[t] = f <=> main[t] = f
                                 /\ dup'[t] = f <=> dup[t] = f
                                 /\ pc[t] = "visit" => loc[t].sa # f
                                 /\ pc'[t] = "visit" => loc'[t].sa # f
  PROVE  Moved(t)
<1>1. ASSUME NEW f \in Sas, f # x PROVE Stays(t, f)
  BY <1>1 DEF Stays, UsesSa, Worker
<1> QED BY <1>1 DEF Moved

\* A step between other places that neither takes nor gives.
LEMMA MovedSame ==
  ASSUME NEW t, Worker(t), pc[t] # "visit", pc'[t] # "visit", UNCHANGED <<info, main, dup>>
  PROVE  Moved(t)
<1>1. None \notin Sas
  BY SetsAssumption
<1> QED BY <1>1, MovedAt

LEMMA WaitForEntryMoved ==
  ASSUME LooseType, NEW t \in Threads, NEW e \in Sas, NEW w, NEW l \in Locs, WaitForEntry(t, e, w, l),
         Worker(t), pc[t] # "visit",
         l.op \in UniqueOps => dup[t] = None, l.op \notin UniqueOps => main[t] = None
  PROVE  Moved(t)
<1>0. None \notin Sas /\ DOMAIN pc = Threads /\ DOMAIN main = Threads /\ DOMAIN dup = Threads
      /\ DOMAIN loc = Threads
  BY SetsAssumption DEF LooseType
<1>1. CASE Refused(t, e, w, l) \/ Busy(t, e, w, l)
  <2>1. pc'[t] # "visit" /\ UNCHANGED <<info, main, dup>>
    BY <1>0, <1>1 DEF Refused, Busy, Back, Goto
  <2> QED BY <2>1, MovedSame
<1>2. CASE Got(t, e, w, l) \/ Found(t, e, w, l)
  <2>1. \A f \in Sas : info'[f].state = info[f].state
    <3>1. CASE UNCHANGED info
      BY <3>1
    <3>2. CASE info' = [info EXCEPT ![e].processing = l.mid]
      <4>1. info'[e] = [info[e] EXCEPT !.processing = l.mid] /\ info[e] \in Infos
        BY <3>2 DEF LooseType
      <4>2. \A f \in Sas : f # e => info'[f] = info[f]
        BY <3>2 DEF LooseType
      <4>3. info'[e].state = info[e].state
        BY <4>1 DEF Infos
      <4> QED BY <4>2, <4>3
    <3> QED BY <1>2, <3>1, <3>2 DEF Got, Found
  <2>2. /\ pc'[t] \in {"dispose", "work"}
        /\ \/ dup'[t] = e /\ dup[t] = None /\ main'[t] = main[t]
           \/ main'[t] = e /\ main[t] = None /\ dup'[t] = dup[t]
    BY <1>0, <1>2 DEF Got, Found, Take, Goto
  <2> QED BY <1>0, <2>1, <2>2, MovedAt DEF Later
<1>3. CASE Visit(t, e, w, l)
  <2>1. loc'[t].sa = e /\ UNCHANGED <<info, main, dup>>
    BY <1>0, <1>3 DEF Visit, Locs
  <2> QED BY <2>1, MovedAt DEF Later
<1> QED BY <1>1, <1>2, <1>3 DEF WaitForEntry

LEMMA LookupMoved ==
  ASSUME LooseType, NEW t \in Threads, NEW e \in Sas, NEW i \in {0} \cup MsgIds, LookupMessage(t, e, i),
         Worker(t), pc[t] # "visit", main[t] = None
  PROVE  Moved(t)
<1>1. CASE e \notin table \/ info[e].processing = i
  <2>1. pc'[t] = "idle" /\ UNCHANGED <<info, main, dup>>
    BY <1>1 DEF LookupMessage, Back, NoLoc, UniqueOps, Goto, LooseType
  <2> QED BY <2>1, MovedSame
<1>2. CASE ~(e \notin table \/ info[e].processing = i)
  <2> DEFINE l == [NoLoc EXCEPT !.op = "message", !.mid = i]
  <2>1. l \in Locs /\ l.op \notin UniqueOps
    BY DEF Locs, NoLoc, UniqueOps
  <2>2. WaitForEntry(t, e, 0, l)
    BY <1>2 DEF LookupMessage
  <2> HIDE DEF l
  <2> QED BY <2>1, <2>2, WaitForEntryMoved
<1> QED BY <1>1, <1>2

\* A new SA is its creator's.
LEMMA CreateMoved ==
  ASSUME LooseType, NEW t \in Threads, NEW e \in Fresh, NEW st \in {"created", "connecting"},
         Create(t, e, st), Worker(t), pc[t] # "visit", pc'[t] # "visit",
         \/ main[t] = None /\ main'[t] = e /\ dup'[t] = dup[t]
         \/ dup[t] = None /\ dup'[t] = e /\ main'[t] = main[t]
  PROVE  Moved(t)
<1>0. None \notin Sas /\ e \in Sas /\ info[e].state = "none"
  BY SetsAssumption DEF Fresh
<1>1. PICK s \in Segments : info' = [info EXCEPT ![e].state = st, ![e].seg = s]
  BY DEF Create
<1>2. info'[e] = [info[e] EXCEPT !.state = st, !.seg = s] /\ info[e] \in Infos
  BY <1>0, <1>1 DEF LooseType
<1>3. \A f \in Sas : f # e => info'[f] = info[f]
  BY <1>0, <1>1 DEF LooseType
<1>4. info'[e].state = st
  BY <1>2 DEF Infos
<1>5. Later(t, e)
  BY <1>0, <1>4 DEF Later, Unborn, Live, UsesSa
<1> QED BY <1>0, <1>3, <1>5, MovedAt

\* An SA in use gets a state of its life, and perhaps is given back.
LEMMA CheckinMoved ==
  ASSUME LooseType, NEW t \in Threads, NEW e \in Sas, NEW st \in {"connecting", "established", "deleting"},
         NEW h \in Hosts, NEW contact, Checkin(t, e, st, h, contact), Live(e),
         Worker(t), pc[t] # "visit", pc'[t] # "visit",
         \A f \in Sas : f # e => (main'[t] = f <=> main[t] = f) /\ (dup'[t] = f <=> dup[t] = f)
  PROVE  Moved(t)
<1> DEFINE first == FirstTime(e, st) /\ ~contact
           new   == IF st = "connecting" THEN h ELSE None
<1>1. /\ info'[e] = [info[e] EXCEPT !.state = st, !.processing = -1, !.half = new, !.ided = @ \/ first]
      /\ info[e] \in Infos /\ (\A f \in Sas : f # e => info'[f] = info[f])
  BY DEF Checkin, LooseType
<1> HIDE DEF first, new
<1>2. info'[e].state = st
  BY <1>1 DEF Infos
<1>3. Later(t, e)
  BY <1>2 DEF Later, Live
<1> QED BY <1>1, <1>3, MovedAt

\* The use of an SA ends.
LEMMA ReturnMoved ==
  ASSUME LooseType, NEW t \in Threads, NEW e \in Sas, Return(t, e), Worker(t), pc[t] # "visit",
         main[t] = e \/ dup[t] = e, Later(t, e), \A f \in Sas : f # e => info'[f].state = info[f].state
  PROVE  Moved(t)
<1>1. None \notin Sas
  BY SetsAssumption
<1>2. /\ pc'[t] # "visit"
      /\ \/ main[t] = e /\ main'[t] = None /\ dup'[t] = dup[t]
         \/ dup[t] = e /\ dup'[t] = None /\ main'[t] = main[t]
  <2>1. CASE main[t] = e
    BY <2>1 DEF Return, Back, Goto, LooseType, NoLoc, UniqueOps
  <2>2. CASE main[t] # e
    BY <2>2 DEF Return, Goto, LooseType
  <2> QED BY <2>1, <2>2
<1> QED BY <1>1, <1>2, MovedAt

LEMMA BeginMoved ==
  ASSUME Context, NEW t \in Threads, Begin(t), Worker(t)
  PROVE  Moved(t)
<1>0. LooseType /\ pc[t] = "idle" /\ main[t] = None /\ dup[t] = None
  BY BeginJobs DEF Context, UseInv, ThreadInv, Places, FreePcs
<1>1. CASE NotFound(t)
  BY <1>0, <1>1, MovedSame DEF NotFound, mgrVars, threadVars
<1>2. ASSUME NEW e \in Sas, Checkout(t, e) PROVE Moved(t)
  <2> DEFINE l == [NoLoc EXCEPT !.op = "checkout"]
  <2>1. l \in Locs /\ l.op \notin UniqueOps
    BY DEF Locs, NoLoc, UniqueOps
  <2>2. WaitForEntry(t, e, 0, l)
    BY <1>2 DEF Checkout
  <2> HIDE DEF l
  <2> QED BY <1>0, <2>1, <2>2, WaitForEntryMoved
<1>3. ASSUME NEW e \in Sas, CheckoutNew(t, e) PROVE Moved(t)
  <2>1. /\ e \in Fresh /\ Create(t, e, "created") /\ main'[t] = e /\ pc'[t] = "work"
        /\ dup'[t] = dup[t]
    BY <1>0, <1>3 DEF CheckoutNew, Goto, LooseType
  <2> QED BY <1>0, <2>1, CreateMoved
<1>4. ASSUME NEW e \in Sas, NEW i \in MsgIds, ReceiveMessage(t, e, i) PROVE Moved(t)
  BY <1>0, <1>4, LookupMoved DEF ReceiveMessage
<1>5. ASSUME NEW m \in Inits, ReceiveInit(t, m) PROVE Moved(t)
  <2>1. pc'[t] # "visit" /\ UNCHANGED <<main, dup>>
    BY <1>0, <1>5 DEF ReceiveInit, Goto, LooseType
  <2>2. CASE UNCHANGED info
    BY <1>0, <2>1, <2>2, MovedSame
  <2>3. ASSUME NEW e \in Fresh, NEW s \in Segments,
               info' = [info EXCEPT ![e].state = "spi", ![e].hash = m,
                                    ![e].seg = s, ![e].role = "responder"]
        PROVE  Moved(t)
    <3>1. e \in Sas /\ info[e].state = "none"
      BY DEF Fresh
    <3>2. /\ info'[e] = [info[e] EXCEPT !.state = "spi", !.hash = m, !.seg = s, !.role = "responder"]
          /\ info[e] \in Infos
      BY <1>0, <2>3, <3>1 DEF LooseType
    <3>3. \A f \in Sas : f # e => info'[f] = info[f]
      BY <1>0, <2>3, <3>1 DEF LooseType
    <3>4. info'[e].state = "spi"
      BY <3>2 DEF Infos
    <3>5. Later(t, e)
      BY <3>1, <3>4 DEF Later, Unborn
    <3> QED BY <1>0, <2>1, <3>3, <3>5, MovedAt
  <2> QED BY <1>5, <2>2, <2>3 DEF ReceiveInit
<1>6. ASSUME NEW o, NEW ws, EnumStart(t, o, ws) PROVE Moved(t)
  <2>1. pc'[t] = "enum" /\ UNCHANGED <<info, main, dup>>
    BY <1>0, <1>6 DEF EnumStart, Goto, LooseType
  <2> QED BY <1>0, <2>1, MovedSame
<1> QED BY <1>1, <1>2, <1>3, <1>4, <1>5, <1>6 DEF Begin

\* Driving others out of an SA is no use of another one.
LEMMA DriveOutMoved ==
  ASSUME LooseType, NEW t \in Threads, NEW e, NEW p \in {"drain", "respi"}, NEW q \in {"clean", "moved"},
         DriveOut(t, e, p, q), Worker(t), pc[t] # "visit", UNCHANGED <<info, main, dup>>
  PROVE  Moved(t)
<1>1. pc'[t] # "visit"
  BY DEF DriveOut, Remove, Goto, LooseType
<1> QED BY <1>1, MovedSame

LEMMA NestedMoved ==
  ASSUME Context, NEW t \in Threads, Nested(t), Worker(t)
  PROVE  Moved(t)
<1>0. LooseType /\ pc[t] = "work" /\ dup[t] = None
  BY DEF Nested, UniqueStart, NewInitiatorSpi, Rekey, Context, UseInv, ThreadInv, Places
<1>1. CASE UniqueStart(t)
  <2>1. pc'[t] = "unique" /\ UNCHANGED <<info, main, dup>>
    BY <1>0, <1>1 DEF UniqueStart, Goto, LooseType
  <2> QED BY <1>0, <2>1, MovedSame
<1>2. CASE NewInitiatorSpi(t)
  BY <1>0, <1>2, DriveOutMoved DEF NewInitiatorSpi
<1>3. ASSUME NEW e \in Sas, Rekey(t, e) PROVE Moved(t)
  <2>1. /\ e \in Fresh /\ Create(t, e, "connecting") /\ dup'[t] = e /\ pc'[t] = "rekey"
        /\ main'[t] = main[t]
    BY <1>0, <1>3 DEF Rekey, Goto, LooseType
  <2> QED BY <1>0, <2>1, CreateMoved
<1> QED BY <1>1, <1>2, <1>3 DEF Nested

\* Whoever has an SA has a live one.
LEMMA UsedLive ==
  ASSUME UseInv, Pointers, NEW u \in Threads, NEW e \in Sas, UsesSa(u, e)
  PROVE  Live(e) /\ (out[e] = u \/ (out[e] = None /\ mutex[info[e].seg] = u))
<1>1. Places(u) /\ Refers(u) /\ Enumerates(u) /\ SaInv(e)
  BY DEF UseInv, ThreadInv
<1>2. u # None
  BY SetsAssumption
<1>3. out[e] = u \/ (e \in table /\ out[e] = None /\ mutex[info[e].seg] = u)
  BY <1>1 DEF UsesSa, Places, Refers, Enumerates, FlushPcs, HoldPcs
<1> QED BY <1>1, <1>2, <1>3 DEF SaInv

LEMMA EndMoved ==
  ASSUME Context, NEW t \in Threads, End(t), Worker(t)
  PROVE  Moved(t)
<1>0. LooseType /\ UseInv /\ Pointers /\ None \notin Sas /\ pc[t] # "visit"
  BY BusyJobs, SetsAssumption DEF Context, End, Destroy, DestroyUnknown, MayDestroy, CheckinContact,
                                  CheckinRekeyed, CheckinMain, UniqueCheckin
<1>1. ASSUME NEW e \in Sas, MayDestroy(t, e)
      PROVE  (main[t] = e \/ dup[t] = e) /\ Live(e)
  <2>1. main[t] = e \/ dup[t] = e
    BY <1>1 DEF MayDestroy
  <2> QED BY <1>0, <2>1, UsedLive DEF UsesSa
<1>2. ASSUME NEW e \in Sas, Destroy(t, e) PROVE Moved(t)
  <2>1. MayDestroy(t, e) /\ UNCHANGED info
    BY <1>2 DEF Destroy
  <2>2. CASE driveout[e]
    BY <1>0, <1>1, <1>2, <2>1, <2>2, ReturnMoved DEF Destroy, Later
  <2>3. CASE ~driveout[e]
    BY <1>0, <1>2, <2>1, <2>3, DriveOutMoved DEF Destroy
  <2> QED BY <2>2, <2>3
<1>3. ASSUME NEW e \in Sas, DestroyUnknown(t, e) PROVE Moved(t)
  <2>1. /\ info'[e] = [info[e] EXCEPT !.state = "dead"] /\ info[e] \in Infos
        /\ \A f \in Sas : f # e => info'[f] = info[f]
    BY <1>0, <1>3 DEF DestroyUnknown, LooseType
  <2>2. info'[e].state = "dead"
    BY <2>1 DEF Infos
  <2>3. Later(t, e) /\ Return(t, e) /\ (main[t] = e \/ dup[t] = e)
    BY <1>1, <1>3, <2>2 DEF DestroyUnknown, Later
  <2> QED BY <1>0, <2>1, <2>3, ReturnMoved
<1>4. ASSUME NEW h \in Hosts, CheckinContact(t, h) PROVE Moved(t)
  <2>1. /\ main[t] \in Sas /\ Checkin(t, main[t], "established", h, TRUE)
        /\ pc'[t] = "unique" /\ UNCHANGED <<main, dup>>
    BY <1>0, <1>4 DEF CheckinContact, Pointers, MainPcs, Goto, LooseType
  <2>2. Live(main[t])
    BY <1>0, <2>1, UsedLive DEF UsesSa
  <2> QED BY <1>0, <2>1, <2>2, CheckinMoved
<1>5. ASSUME NEW h \in Hosts, CheckinRekeyed(t, h) PROVE Moved(t)
  <2>1. /\ dup[t] \in Sas /\ Checkin(t, dup[t], "established", h, FALSE)
        /\ pc'[t] = "work" /\ main'[t] = main[t] /\ dup'[t] = None
    BY <1>0, <1>5 DEF CheckinRekeyed, Pointers, Goto, LooseType
  <2>2. Live(dup[t])
    BY <1>0, <2>1, UsedLive DEF UsesSa
  <2> QED BY <1>0, <2>1, <2>2, CheckinMoved
<1>6. ASSUME NEW st \in {"connecting", "established", "deleting"}, NEW h \in Hosts, CheckinMain(t, st, h)
      PROVE  Moved(t)
  <2>1. /\ main[t] \in Sas /\ Checkin(t, main[t], st, h, FALSE)
        /\ pc'[t] = "idle" /\ main'[t] = None /\ dup'[t] = dup[t]
    BY <1>0, <1>6 DEF CheckinMain, Pointers, MainPcs, Goto, LooseType
  <2>2. Live(main[t])
    BY <1>0, <2>1, UsedLive DEF UsesSa
  <2> QED BY <1>0, <2>1, <2>2, CheckinMoved
<1>7. ASSUME NEW st \in {"connecting", "established", "deleting"}, NEW h \in Hosts, UniqueCheckin(t, st, h)
      PROVE  Moved(t)
  <2>1. /\ dup[t] \in Sas /\ Checkin(t, dup[t], st, h, FALSE)
        /\ pc'[t] = "unique" /\ main'[t] = main[t] /\ dup'[t] = None
    BY <1>0, <1>7 DEF UniqueCheckin, Pointers, Goto, LooseType
  <2>2. Live(dup[t])
    BY <1>0, <2>1, UsedLive DEF UsesSa
  <2> QED BY <1>0, <2>1, <2>2, CheckinMoved
<1> QED BY <1>2, <1>3, <1>4, <1>5, <1>6, <1>7 DEF End

LEMMA InnerMoved ==
  ASSUME Context, NEW t \in Threads, Inner(t), Worker(t), pc[t] \notin FlushPcs
  PROVE  Moved(t)
<1>0. /\ LooseType /\ UseInv /\ Pointers /\ None \notin Sas /\ Places(t) /\ loc[t] \in Locs
      /\ DOMAIN pc = Threads /\ DOMAIN main = Threads /\ DOMAIN loc = Threads
  BY SetsAssumption DEF Context, UseInv, ThreadInv, LooseType
<1>1. CASE Wakes(t)
  <2>1. loc[t].sa \in Sas /\ WaitForEntry(t, loc[t].sa, 1, loc[t]) /\ pc[t] = "wait"
    BY <1>0, <1>1 DEF Wakes, Pointers, SaPcs
  <2>2. dup[t] = None /\ (loc[t].op \notin UniqueOps => main[t] = None)
    BY <1>0, <2>1 DEF Places
  <2> QED BY <1>0, <2>1, <2>2, WaitForEntryMoved
<1>2. CASE ReceiveRetransmit(t)
  <2>1. loc[t].sa \in Sas /\ LookupMessage(t, loc[t].sa, 0) /\ pc[t] = "lookup" /\ main[t] = None
    BY <1>0, <1>2 DEF ReceiveRetransmit, Pointers, SaPcs, Places, FreePcs
  <2> QED BY <1>0, <2>1, LookupMoved
<1>3. CASE LimitHit(t)
  <2>1. loc[t].sa \in Sas /\ pc[t] = "limit" /\ Refers(t)
    BY <1>0, <1>3 DEF LimitHit, Pointers, SaPcs, UseInv, ThreadInv
  <2> PICK e \in Sas : e = loc[t].sa
    BY <2>1
  <2>2. /\ info'[e] = [info[e] EXCEPT !.state = "dead", !.hash = None] /\ info[e] \in Infos
        /\ \A f \in Sas : f # e => info'[f] = info[f]
    BY <1>0, <1>3 DEF LimitHit, LooseType
  <2>3. info'[e].state = "dead"
    BY <2>2 DEF Infos
  <2>4. Later(t, e)
    BY <2>1, <2>3 DEF Later, Refers, Unborn
  <2>5. pc'[t] = "idle" /\ UNCHANGED <<main, dup>>
    BY <1>0, <1>3 DEF LimitHit, Back, Goto, NoLoc, UniqueOps
  <2> QED BY <2>1, <2>2, <2>4, <2>5, MovedAt
<1>4. CASE PutNew(t)
  <2>1. loc[t].sa \in Sas /\ pc[t] = "put" /\ Refers(t) /\ main[t] = None
    BY <1>0, <1>4 DEF PutNew, Pointers, SaPcs, UseInv, ThreadInv, Places, FreePcs
  <2> PICK e \in Sas : e = loc[t].sa
    BY <2>1
  <2>2. /\ info'[e] = [info[e] EXCEPT !.state = "created", !.processing = 0] /\ info[e] \in Infos
        /\ \A f \in Sas : f # e => info'[f] = info[f]
    BY <1>0, <1>4 DEF PutNew, LooseType
  <2>3. info'[e].state = "created"
    BY <2>2 DEF Infos
  <2>4. pc'[t] = "work" /\ main'[t] = e /\ UNCHANGED dup
    BY <1>0, <1>4 DEF PutNew, Goto
  <2>5. Later(t, e)
    BY <2>1, <2>3, <2>4 DEF Later, Refers, Unborn, Live, UsesSa
  <2> QED BY <1>0, <2>1, <2>2, <2>4, <2>5, MovedAt
<1>5. CASE LimitOk(t) \/ EnumRow(t) \/ UniqueDone(t)
  <2>1. pc[t] # "visit" /\ pc'[t] # "visit" /\ UNCHANGED <<info, main, dup>>
    BY <1>0, <1>5 DEF LimitOk, EnumRow, UniqueDone, Goto
  <2> QED BY <2>1, MovedSame
<1>6. CASE EnumLeave(t)
  <2>1. pc'[t] = "enum" /\ UNCHANGED <<info, main, dup>>
    BY <1>0, <1>6 DEF EnumLeave, Goto
  <2>2. Later(t, loc[t].sa)
    BY <2>1 DEF Later
  <2> QED BY <2>1, <2>2, MovedAt
<1>7. CASE EnumEnd(t)
  <2>0. pc[t] = "enum" /\ main[t] = None /\ UNCHANGED dup
    BY <1>0, <1>7 DEF EnumEnd, Places, FreePcs
  <2>1. CASE UNCHANGED <<info, main>> /\ Goto(t, "idle")
    BY <1>0, <2>0, <2>1, MovedSame DEF Goto
  <2>2. ASSUME NEW e \in Fresh, Create(t, e, "created"), main' = [main EXCEPT ![t] = e], Goto(t, "work")
        PROVE  Moved(t)
    <3>1. main'[t] = e /\ pc'[t] = "work"
      BY <1>0, <2>2 DEF Goto
    <3> QED BY <1>0, <2>0, <2>2, <3>1, CreateMoved
  <2> QED BY <1>7, <2>1, <2>2 DEF EnumEnd
<1>8. CASE ContactDone(t)
  <2>1. main[t] \in Sas
    BY <1>0, <1>8 DEF ContactDone, Pointers, MainPcs
  <2> PICK e \in Sas : e = main[t]
    BY <2>1
  <2>2. /\ info'[e] = [info[e] EXCEPT !.ided = TRUE] /\ info[e] \in Infos
        /\ \A f \in Sas : f # e => info'[f] = info[f]
    BY <1>0, <1>8 DEF ContactDone, LooseType
  <2>3. info'[e].state = info[e].state
    BY <2>2 DEF Infos
  <2>4. pc[t] = "unique" /\ pc'[t] = "idle" /\ main'[t] = None /\ UNCHANGED dup
    BY <1>0, <1>8 DEF ContactDone, Goto
  <2> QED BY <1>0, <2>2, <2>3, <2>4, MovedAt DEF Later
<1>9. CASE DestroyWakes(t) \/ NewSpiWakes(t)
  BY <1>0, <1>9, DriveOutMoved DEF DestroyWakes, NewSpiWakes
<1>10. CASE DestroyClean(t)
  <2>1. loc[t].sa \in Sas /\ pc[t] = "clean" /\ (loc[t].sa = main[t] \/ loc[t].sa = dup[t])
    BY <1>0, <1>10 DEF DestroyClean, Pointers, SaPcs, Places
  <2> PICK e \in Sas : e = loc[t].sa
    BY <2>1
  <2>2. info'[e].state = "dead" /\ \A f \in Sas : f # e => info'[f] = info[f]
    BY <1>10 DEF DestroyClean, EntryDestroy, NoInfo
  <2>3. Live(e)
    BY <1>0, <2>1, UsedLive DEF UsesSa
  <2>4. Later(t, e) /\ Return(t, e)
    BY <1>10, <2>2, <2>3 DEF Later, DestroyClean
  <2> QED BY <1>0, <2>1, <2>2, <2>4, ReturnMoved
<1>11. ASSUME NEW e \in Sas, EnumEntry(t, e) PROVE Moved(t)
  <2>0. pc[t] = "enum" /\ main[t] = None /\ loc[t].op \in EnumOps
    BY <1>0, <1>11 DEF EnumEntry, Pointers, Places, FreePcs
  <2> DEFINE l == [loc[t] EXCEPT !.todo = @ \ {e}]
  <2>1. l \in Locs /\ l.op = loc[t].op
    BY <1>0 DEF Locs
  <2>2. CASE pc'[t] = "leave" /\ UNCHANGED <<info, main, dup>>
    BY <2>0, <2>2, MovedSame
  <2>3. CASE WaitForEntry(t, e, 0, l)
    <3> HIDE DEF l
    <3>1. l.op \notin UniqueOps
      BY <2>0, <2>1 DEF EnumOps, UniqueOps
    <3> QED BY <1>0, <2>0, <2>1, <2>3, <3>1, WaitForEntryMoved
  <2> QED BY <1>0, <1>11, <2>2, <2>3 DEF EnumEntry, Goto
<1>12. ASSUME NEW e \in Sas, UniqueNext(t, e) PROVE Moved(t)
  <2>0. pc[t] = "unique" /\ dup[t] = None /\ loc[t].op \in UniqueOps
    BY <1>0, <1>12 DEF UniqueNext, Places
  <2> DEFINE l == [loc[t] EXCEPT !.todo = @ \ {e}]
  <2>1. l \in Locs /\ l.op = loc[t].op
    BY <1>0 DEF Locs
  <2>2. CASE UNCHANGED <<info, pc, main, dup>>
    BY <2>0, <2>2, MovedSame
  <2>3. CASE WaitForEntry(t, e, 0, l)
    <3> HIDE DEF l
    <3> QED BY <1>0, <2>0, <2>1, <2>3, WaitForEntryMoved
  <2> QED BY <1>12, <2>2, <2>3 DEF UniqueNext
<1>13. ASSUME NEW s \in Segments, NewSpiPut(t, s) PROVE Moved(t)
  <2>1. loc[t].sa \in Sas
    BY <1>0, <1>13 DEF NewSpiPut, Pointers, SaPcs
  <2> PICK e \in Sas : e = loc[t].sa
    BY <2>1
  <2>2. /\ info'[e] = [info[e] EXCEPT !.seg = s] /\ info[e] \in Infos
        /\ \A f \in Sas : f # e => info'[f] = info[f]
    BY <1>0, <1>13 DEF NewSpiPut, LooseType
  <2>3. info'[e].state = info[e].state
    BY <2>2 DEF Infos
  <2>4. pc[t] = "moved" /\ pc'[t] = "work" /\ UNCHANGED <<main, dup>>
    BY <1>0, <1>13 DEF NewSpiPut, Goto
  <2> QED BY <2>2, <2>3, <2>4, MovedAt DEF Later
<1>14. ASSUME \/ FlushLock(t) \/ FlushWakes(t) \/ FlushDestroy(t) \/ FlushRng(t) \/ ManagerDestroy(t)
              \/ \E e \in Sas : FlushEntry(t, e)
       PROVE  FALSE
  BY <1>14 DEF FlushLock, FlushWakes, FlushDestroy, FlushRng, ManagerDestroy, FlushEntry, FlushPcs
<1> QED BY <1>1, <1>2, <1>3, <1>4, <1>5, <1>6, <1>7, <1>8, <1>9, <1>10, <1>11, <1>12, <1>13, <1>14 DEF Inner

\* The uses of the other threads stay as they are.
LEMMA OthersStay ==
  ASSUME UseInv, UseInv', NEW t \in Threads, Frame(t), NEW u \in Threads, u # t, NEW f
  PROVE  UsesSa(u, f)' <=> UsesSa(u, f)
<1>1. pc[u] # "drainall" /\ pc'[u] # "drainall"
  BY DEF UseInv, ThreadInv, Places, FlushPcs
<1> QED BY <1>1 DEF Frame, UsesSa

Users(e) == {u \in Threads : UsesSa(u, e)}

\* An SA is fresh, live or gone; only a live one is in use, by one thread.
StatusOf(e) == /\ Unborn(e) => Status(e) = "fresh"
               /\ info[e].state = "dead" => Status(e) = "gone"
               /\ Live(e) => Status(e) = "live"
               /\ ~Live(e) => Users(e) = {}
               /\ \A u \in Users(e) : Users(e) = {u}

LEMMA StatusFacts == UseInv /\ Pointers => \A e \in Sas : StatusOf(e)
<1> SUFFICES ASSUME UseInv, Pointers, NEW e \in Sas PROVE StatusOf(e)
  OBVIOUS
<1>1. /\ Unborn(e) => Status(e) = "fresh"
      /\ info[e].state = "dead" => Status(e) = "gone"
      /\ Live(e) => Status(e) = "live"
  BY DEF Unborn, Live, Status
<1>2. \A u \in Users(e) : u \in Threads /\ Live(e) /\ (out[e] = u \/ (out[e] = None /\ mutex[info[e].seg] = u))
  BY UsedLive DEF Users
<1>3. None \notin Threads
  BY SetsAssumption
<1> QED BY <1>1, <1>2, <1>3 DEF StatusOf

LEMMA StatusNext == (UseInv /\ Pointers => \A e \in Sas : StatusOf(e))'
BY StatusFacts, PTL

\* Each step of a worker is one of the registry.
LEMMA RegistryMoves ==
  ASSUME UseInv, Pointers, UseInv', Pointers', NEW t \in Threads, Frame(t), Moved(t)
  PROVE  Registry!Next \/ UNCHANGED Registry!vars
<1>1. PICK x : (\A f \in Sas : f # x => Stays(t, f)) /\ (x \in Sas => Later(t, x))
  BY DEF Moved
<1>2. ASSUME NEW f \in Sas, f # x PROVE Status(f)' = Status(f) /\ Users(f)' = Users(f)
  <2>1. Stays(t, f)
    BY <1>1, <1>2
  <2>2. Status(f)' = Status(f)
    BY <2>1 DEF Stays, Status
  <2>3. \A u \in Threads : UsesSa(u, f)' <=> UsesSa(u, f)
    BY <2>1, OthersStay DEF Stays
  <2> QED BY <2>2, <2>3 DEF Users
<1> DEFINE st == [e \in Sas |-> Status(e)]
           us == [e \in Sas |-> Users(e)]
<1>3. CASE x \notin Sas
  <2>1. \A f \in Sas : Status(f)' = Status(f) /\ Users(f)' = Users(f)
    BY <1>2, <1>3
  <2>2. st' = st /\ us' = us
    BY <2>1
  <2> QED BY <2>2 DEF Registry!vars, Users
<1>4. CASE x \in Sas
  <2>1. Later(t, x)
    BY <1>1, <1>4
  <2>2. Users(x)' \ {t} = Users(x) \ {t}
    <3>1. \A u \in Threads : u # t => (UsesSa(u, x)' <=> UsesSa(u, x))
      BY OthersStay
    <3> QED BY <3>1 DEF Users
  <2>3. /\ Unborn(x) => Status(x) = "fresh"
        /\ Live(x) => Status(x) = "live"
        /\ ~Live(x) => Users(x) = {}
        /\ \A u \in Users(x) : Users(x) = {u}
    BY <1>4, StatusFacts DEF StatusOf
  <2>4. /\ Unborn(x)' => Status(x)' = "fresh"
        /\ info'[x].state = "dead" => Status(x)' = "gone"
        /\ Live(x)' => Status(x)' = "live"
        /\ ~Live(x)' => Users(x)' = {}
        /\ \A u \in Users(x)' : Users(x)' = {u}
    BY <1>4, StatusNext DEF StatusOf
  <2>5. /\ info'[x].state = info[x].state => Status(x)' = Status(x) /\ (Live(x)' <=> Live(x))
        /\ info'[x].state = "dead" => ~Live(x)'
        /\ Unborn(x) => ~Live(x)
        /\ Unborn(x)' => ~Live(x)'
    BY DEF Status, Live, Unborn
  <2>6. \/ Status(x)' = Status(x) /\ Users(x)' = Users(x)
        \/ Status(x)' = Status(x) /\ Status(x) = "live" /\ Users(x) = {} /\ Users(x)' = {t}
        \/ Status(x)' = Status(x) /\ Users(x) = {t} /\ Users(x)' = {}
        \/ Status(x) = "fresh" /\ Status(x)' = "gone" /\ Users(x)' = Users(x)
        \/ Status(x) = "fresh" /\ Status(x)' = "live" /\ Users(x)' = {t}
        \/ Status(x) = "live" /\ Status(x)' = "gone" /\ Users(x) \subseteq {t} /\ Users(x)' = {}
    <3>0. PICK U, V : U = Users(x) /\ V = Users(x)'
      OBVIOUS
    <3>1. CASE Status(x)' = Status(x) /\ (Live(x)' <=> Live(x))
      <4>1. /\ U \ {t} = V \ {t} /\ (\A u \in U : U = {u}) /\ (\A u \in V : V = {u})
            /\ Status(x) = "live" \/ (U = {} /\ V = {})
        BY <2>2, <2>3, <2>4, <3>0, <3>1
      <4>2. \/ U = V \/ (U = {t} /\ V = {}) \/ (Status(x) = "live" /\ U = {} /\ V = {t})
        <5>1. CASE t \in U /\ t \in V
          BY <4>1, <5>1
        <5>2. CASE t \in U /\ t \notin V
          BY <4>1, <5>2
        <5>3. CASE t \notin U /\ t \in V
          BY <4>1, <5>3
        <5>4. CASE t \notin U /\ t \notin V
          BY <4>1, <5>4
        <5> QED BY <5>1, <5>2, <5>3, <5>4
      <4> QED BY <3>0, <3>1, <4>2
    <3>2. CASE Unborn(x) /\ Unborn(x)'
      BY <2>3, <2>4, <2>5, <3>2
    <3>3. CASE Unborn(x) /\ info'[x].state = "dead"
      BY <2>3, <2>4, <2>5, <3>3
    <3>4. CASE Unborn(x) /\ Live(x)' /\ UsesSa(t, x)'
      <4>1. t \in Users(x)'
        BY <3>4 DEF Users
      <4> QED BY <2>3, <2>4, <3>4, <4>1
    <3>5. CASE Live(x) /\ info'[x].state = "dead"
      BY <2>2, <2>3, <2>4, <2>5, <3>5
    <3> QED BY <2>1, <2>3, <2>4, <2>5, <3>1, <3>2, <3>3, <3>4, <3>5 DEF Later
  <2>7. /\ st[x] = Status(x) /\ us[x] = Users(x)
        /\ st' = [st EXCEPT ![x] = Status(x)'] /\ us' = [us EXCEPT ![x] = Users(x)']
        /\ st' = [e \in Sas |-> IF e \in {x} THEN Status(x)' ELSE st[e]]
        /\ us' = [e \in Sas |-> IF e \in {x} THEN Users(x)' ELSE us[e]]
    BY <1>2, <1>4
  <2>8. Status(x)' = Status(x) => st' = st
    BY <1>2, <1>4
  <2>9. Users(x)' = Users(x) => us' = us
    BY <1>2, <1>4
  <2>10. CASE Status(x)' = Status(x) /\ Users(x)' = Users(x)
    BY <2>8, <2>9, <2>10 DEF Registry!vars, Users
  <2>11. CASE Status(x)' = Status(x) /\ Status(x) = "live" /\ Users(x) = {} /\ Users(x)' = {t}
    <3>1. Registry!Acquire(t, {x})
      BY <2>7, <2>8, <2>11 DEF Registry!Acquire, Users
    <3> QED BY <1>4, <3>1 DEF Registry!Next
  <2>12. CASE Status(x)' = Status(x) /\ Users(x) = {t} /\ Users(x)' = {}
    <3>1. Registry!Release(t, x)
      BY <2>7, <2>8, <2>12 DEF Registry!Release, Users
    <3> QED BY <1>4, <3>1 DEF Registry!Next
  <2>13. CASE Status(x) = "fresh" /\ Status(x)' = "gone" /\ Users(x)' = Users(x)
    <3>1. Registry!Forget(x)
      BY <2>7, <2>9, <2>13 DEF Registry!Forget, Users
    <3> QED BY <1>4, <3>1 DEF Registry!Next
  <2>14. CASE Status(x) = "fresh" /\ Status(x)' = "live" /\ Users(x)' = {t}
    <3>1. Registry!Create(t, x)
      BY <2>7, <2>14 DEF Registry!Create, Users
    <3> QED BY <1>4, <3>1 DEF Registry!Next
  <2>15. CASE Status(x) = "live" /\ Status(x)' = "gone" /\ Users(x) \subseteq {t} /\ Users(x)' = {}
    <3>1. Registry!Destroy(t, {x})
      BY <2>7, <2>15 DEF Registry!Destroy, Users
    <3> QED BY <1>4, <3>1 DEF Registry!Next
  <2> QED BY <2>6, <2>10, <2>11, <2>12, <2>13, <2>14, <2>15
<1> QED BY <1>3, <1>4

LEMMA InitRegistry == Init => Registry!Init
<1> SUFFICES ASSUME Init PROVE Registry!Init
  OBVIOUS
<1>1. None \notin Sas /\ NoInfo.state = "none"
  BY SetsAssumption DEF NoInfo
<1>2. \A e \in Sas : Status(e) = "fresh"
  BY <1>1 DEF Init, Status
<1>3. \A e \in Sas, u \in Threads : ~UsesSa(u, e)
  BY <1>1 DEF Init, UsesSa
<1> QED BY <1>2, <1>3 DEF Registry!Init

LEMMA RegistryStep ==
  FullInv /\ FullInv' /\ Running /\ Running' /\ [Next]_vars => [Registry!Next]_(Registry!vars)
<1> SUFFICES ASSUME FullInv, FullInv', Running, Running', [Next]_vars
             PROVE  Registry!Next \/ UNCHANGED Registry!vars
  OBVIOUS
<1>1. /\ LooseType /\ LooseType' /\ Pointers /\ Pointers' /\ WaitingCounted /\ UseInv /\ UseInv'
  BY DEF FullInv, RunInv, ManagerInv, WaitInv
<1>2. CASE UNCHANGED vars
  <2>1. UNCHANGED <<info, table, pc, main, dup, loc>>
    BY <1>2 DEF vars, mgrVars, threadVars
  <2> QED BY <2>1 DEF Registry!vars, Status, UsesSa
<1>3. ASSUME NEW t \in Threads, FlushStart(t) PROVE FALSE
  <2>1. pc'[Flusher] = "lockall"
    BY <1>1, <1>3 DEF FlushStart, Goto, LooseType
  <2> QED BY <2>1 DEF Running
<1>4. ASSUME NEW t \in Threads, Begin(t) \/ Nested(t) \/ Inner(t) \/ End(t)
      PROVE  Registry!Next \/ UNCHANGED Registry!vars
  <2>1. Frame(t)
    BY <1>1, <1>4, BeginGood, NestedGood, InnerGood, EndGood DEF Good
  <2>2. Worker(t) /\ pc[t] \notin FlushPcs
    BY <1>1 DEF UseInv, ThreadInv, Places, FlushPcs, Worker
  <2>3. Moved(t)
    BY <1>1, <1>4, <2>2, BeginMoved, NestedMoved, InnerMoved, EndMoved DEF Context
  <2> QED BY <1>1, <2>1, <2>3, RegistryMoves
<1> QED BY <1>2, <1>3, <1>4 DEF Next

\* The manager implements the registry as long as it is not shut down: an SA
\* is created once, used by one thread at a time, destroyed once by the
\* thread that uses it, and never used again.
THEOREM RegistryTheorem == Spec /\ []Running => ImplementsRegistry
<1>1. Init => Registry!Init
  BY InitRegistry
<1> QED BY <1>1, InitFull, FullStep, RegistryStep, PTL DEF Spec, ImplementsRegistry, Registry!Spec

-----------------------------------------------------------------------------
(***************************************************************************)
(* Shutdown: what the lists of the manager mention is in the table, or in  *)
(* the hands of a thread that has just taken it out of it (Moves) or is    *)
(* about to put it there (Brings).  destroy() runs when there is no such   *)
(* thread any more, and empties the table.  A checkin that checks          *)
(* uniqueness records its SA among the connected peers after it gave the   *)
(* segment back, when flush() may have destroyed the SA: this is why       *)
(* "contact" is excluded.                                                  *)
(***************************************************************************)
Moves(t, e)  == pc[t] \in {"clean", "moved"} /\ loc[t].sa = e
Brings(t, e) == pc[t] \in {"limit", "put"} /\ loc[t].sa = e
Filed(e)     == e \in connected \/ info[e].half # None

Listed(e) ==
  /\ Filed(e) => e \in table \/ \E t \in Threads : Moves(t, e)
  /\ info[e].hash # None => e \in table \/ \E t \in Threads : Moves(t, e) \/ Brings(t, e)
  /\ e \in connected => info[e].ided

AllListed  == \A e \in Sas : Listed(e)
NoContact  == \A t \in Threads : loc[t].op # "contact"
Over       == pc[Flusher] = "destroyed" =>
                table = {} /\ \A t \in Threads \ {Flusher} : pc[t] = "idle"
LeftInv    == AllListed /\ NoContact /\ Over

LEMMA ListedKeep ==
  ASSUME NEW t \in Threads, Frame(t), NEW e \in Sas, Listed(e),
         Filed(e)' => Filed(e),
         e \in connected' => info'[e].ided,
         e \in table => e \in table' \/ Moves(t, e)',
         Moves(t, e) => e \in table' \/ Moves(t, e)',
         info'[e].hash # None =>
           \/ Brings(t, e)'
           \/ /\ info[e].hash # None
              /\ Brings(t, e) => e \in table' \/ Moves(t, e)' \/ Brings(t, e)'
  PROVE  Listed(e)'
<1>1. \A u \in Threads : u # t => /\ Moves(u, e) <=> Moves(u, e)'
                                  /\ Brings(u, e) <=> Brings(u, e)'
  BY DEF Frame, Moves, Brings
<1>2. Filed(e)' => e \in table' \/ \E u \in Threads : Moves(u, e)'
  BY <1>1 DEF Listed
<1>3. info'[e].hash # None => e \in table' \/ \E u \in Threads : Moves(u, e)' \/ Brings(u, e)'
  BY <1>1 DEF Listed
<1> QED BY <1>2, <1>3 DEF Listed

\* What a step leaves alone in the lists and does not take out of the table.
Alike(e) == /\ e \in table => e \in table'
            /\ e \in connected' <=> e \in connected
            /\ info'[e].half = info[e].half /\ info'[e].hash = info[e].hash
            /\ info'[e].ided = info[e].ided

LEMMA ListedAlike ==
  ASSUME NEW t \in Threads, Frame(t), NEW e \in Sas, Listed(e), Alike(e),
         Moves(t, e) => Moves(t, e)' \/ e \in table', Brings(t, e) => Brings(t, e)' \/ e \in table'
  PROVE  Listed(e)'
<1>1. (Filed(e)' => Filed(e)) /\ (e \in connected' => info'[e].ided)
  BY DEF Alike, Filed, Listed
<1> QED BY <1>1, ListedKeep DEF Alike

LEMMA ListedIn ==
  ASSUME NEW e \in Sas, e \in table', e \in connected' => info'[e].ided
  PROVE  Listed(e)'
BY DEF Listed

LEMMA ListedNone ==
  ASSUME NEW e \in Sas, ~Filed(e)', info'[e].hash = None
  PROVE  Listed(e)'
BY DEF Listed, Filed

\* A thread that has nothing in its hands and changes no list.
LEMMA AllAlike ==
  ASSUME NEW t \in Threads, Frame(t), AllListed, pc[t] \notin {"clean", "moved", "limit", "put"},
         \A e \in Sas : Alike(e)
  PROVE  AllListed'
<1>1. \A e \in Sas : ~Moves(t, e) /\ ~Brings(t, e)
  BY DEF Moves, Brings
<1> QED BY <1>1, ListedAlike DEF AllListed

LEMMA SameAlike == UNCHANGED <<info, table, connected>> => \A e \in Sas : Alike(e)
BY DEF Alike

\* One SA changes, but for what the lists are about.
LEMMA EditAlike ==
  ASSUME NEW x \in Sas, UNCHANGED connected, table \subseteq table',
         \A f \in Sas : f # x => info'[f] = info[f], info'[x].half = info[x].half,
         info'[x].hash = info[x].hash, info'[x].ided = info[x].ided
  PROVE  \A e \in Sas : Alike(e)
BY DEF Alike

LEMMA CreateAlike ==
  ASSUME LooseType, NEW t, NEW e \in Sas, NEW st, Create(t, e, st), UNCHANGED <<table, connected>>
  PROVE  \A f \in Sas : Alike(f)
<1>1. PICK s \in Segments : info' = [info EXCEPT ![e].state = st, ![e].seg = s]
  BY DEF Create
<1>2. info'[e] = [info[e] EXCEPT !.state = st, !.seg = s] /\ info[e] \in Infos
  BY <1>1 DEF LooseType
<1>3. \A f \in Sas : f # e => info'[f] = info[f]
  BY <1>1 DEF LooseType
<1>4. info'[e].hash = info[e].hash /\ info'[e].half = info[e].half /\ info'[e].ided = info[e].ided
  BY <1>2 DEF Infos
<1> QED BY <1>3, <1>4, EditAlike

LEMMA WaitForEntryAlike ==
  ASSUME LooseType, NEW t \in Threads, NEW e \in Sas, NEW w, NEW l \in Locs, WaitForEntry(t, e, w, l)
  PROVE  (\A f \in Sas : Alike(f)) /\ loc'[t].op \in {l.op, "none"}
<1>0. UNCHANGED <<table, connected>>
  BY DEF WaitForEntry, cacheVars
<1>1. ASSUME UNCHANGED info PROVE \A f \in Sas : Alike(f)
  BY <1>0, <1>1, SameAlike
<1>2. ASSUME info' = [info EXCEPT ![e].processing = l.mid] PROVE \A f \in Sas : Alike(f)
  <2>1. info'[e] = [info[e] EXCEPT !.processing = l.mid] /\ info[e] \in Infos
    BY <1>2 DEF LooseType
  <2>2. \A f \in Sas : f # e => info'[f] = info[f]
    BY <1>2 DEF LooseType
  <2>3. info'[e].hash = info[e].hash /\ info'[e].half = info[e].half /\ info'[e].ided = info[e].ided
    BY <2>1 DEF Infos
  <2> QED BY <1>0, <2>2, <2>3, EditAlike
<1>3. \A f \in Sas : Alike(f)
  BY <1>1, <1>2 DEF WaitForEntry, Refused, Busy, Got, Found, Visit
<1>4. NoLoc.op = "none" /\ [l EXCEPT !.sa = e].op = l.op /\ [l EXCEPT !.sa = None].op = l.op
  BY DEF NoLoc, Locs
<1>5. loc'[t] \in {NoLoc, [l EXCEPT !.sa = e], [l EXCEPT !.sa = None]}
  <2>1. DOMAIN loc = Threads
    BY DEF LooseType
  <2>2. ASSUME Refused(t, e, w, l) PROVE loc'[t] \in {NoLoc, [l EXCEPT !.sa = e], [l EXCEPT !.sa = None]}
    BY <2>1, <2>2 DEF Refused, Back
  <2>3. ASSUME Busy(t, e, w, l) \/ Visit(t, e, w, l) PROVE loc'[t] = [l EXCEPT !.sa = e]
    BY <2>1, <2>3 DEF Busy, Visit
  <2>4. ASSUME Take(t, e, l) PROVE loc'[t] \in {NoLoc, [l EXCEPT !.sa = None]}
    BY <2>1, <2>4 DEF Take
  <2> QED BY <2>2, <2>3, <2>4 DEF WaitForEntry, Got, Found
<1> QED BY <1>3, <1>4, <1>5

LEMMA LookupAlike ==
  ASSUME LooseType, NEW t \in Threads, NEW e \in Sas, NEW i \in {0} \cup MsgIds, LookupMessage(t, e, i)
  PROVE  (\A f \in Sas : Alike(f)) /\ loc'[t].op # "contact"
<1>0. DOMAIN loc = Threads /\ NoLoc.op = "none" /\ NoLoc \in Locs
  BY LocEdit DEF LooseType, NoLoc
<1>1. CASE e \notin table \/ info[e].processing = i
  <2>1. Back(t, NoLoc) /\ UNCHANGED <<info, table, connected>>
    BY <1>1 DEF LookupMessage, cacheVars
  <2>2. loc'[t] = NoLoc
    BY <1>0, <2>1, BackIdle
  <2> QED BY <1>0, <2>1, <2>2, SameAlike
<1>2. CASE ~(e \notin table \/ info[e].processing = i)
  <2> DEFINE l == [NoLoc EXCEPT !.op = "message", !.mid = i]
  <2>1. WaitForEntry(t, e, 0, l)
    BY <1>2 DEF LookupMessage
  <2>2. l \in Locs /\ l.op = "message"
    BY <1>0, BoundsAssumption DEF Locs, NoLoc
  <2> HIDE DEF l
  <2> QED BY <2>1, <2>2, WaitForEntryAlike
<1> QED BY <1>1, <1>2

\* A step of thread t keeps the lists in order, and is no step of a checkin
\* that checks uniqueness.
Tidy(t) == AllListed' /\ loc'[t].op # "contact"

LEMMA BeginTidy ==
  ASSUME LooseType, AllListed, NoContact, NEW t \in Threads, Begin(t), Frame(t)
  PROVE  Tidy(t)
<1>0. /\ DOMAIN loc = Threads /\ DOMAIN pc = Threads /\ NoLoc.op = "none" /\ NoLoc \in Locs
      /\ pc[t] = "idle" /\ loc[t] \in Locs /\ loc[t].op # "contact"
  BY BeginJobs, LocEdit DEF LooseType, NoLoc, NoContact
<1>h. pc[t] \notin {"clean", "moved", "limit", "put"}
  BY <1>0
<1>1. ASSUME \A e \in Sas : Alike(e), loc'[t].op # "contact" PROVE Tidy(t)
  BY <1>h, <1>1, AllAlike DEF Tidy
<1>2. CASE NotFound(t)
  <2>1. UNCHANGED <<info, table, connected, loc>>
    BY <1>2 DEF NotFound, mgrVars, cacheVars, threadVars
  <2> QED BY <1>0, <1>1, <2>1, SameAlike
<1>3. ASSUME NEW e \in Sas, Checkout(t, e) PROVE Tidy(t)
  <2> DEFINE l == [NoLoc EXCEPT !.op = "checkout"]
  <2>1. l \in Locs /\ l.op = "checkout"
    BY DEF Locs, NoLoc
  <2>2. WaitForEntry(t, e, 0, l)
    BY <1>3 DEF Checkout
  <2> HIDE DEF l
  <2> QED BY <1>1, <2>1, <2>2, WaitForEntryAlike
<1>4. ASSUME NEW e \in Sas, CheckoutNew(t, e) PROVE Tidy(t)
  <2>1. Create(t, e, "created") /\ UNCHANGED <<table, connected, loc>>
    BY <1>4 DEF CheckoutNew, cacheVars
  <2> QED BY <1>0, <1>1, <2>1, CreateAlike
<1>5. ASSUME NEW e \in Sas, NEW i \in MsgIds, ReceiveMessage(t, e, i) PROVE Tidy(t)
  BY <1>1, <1>5, LookupAlike DEF ReceiveMessage
<1>6. ASSUME NEW m \in Inits, ReceiveInit(t, m) PROVE Tidy(t)
  <2>0. UNCHANGED <<table, connected>>
    BY <1>6 DEF ReceiveInit
  <2>1. CASE UNCHANGED <<pc, loc, info>>
    BY <1>0, <1>1, <2>0, <2>1, SameAlike
  <2>2. CASE Goto(t, "lookup") /\ loc' = [loc EXCEPT ![t].sa = initHashes[m]] /\ UNCHANGED info
    <3>1. loc'[t] = [loc[t] EXCEPT !.sa = initHashes[m]]
      BY <1>0, <2>2
    <3>2. loc'[t].op = loc[t].op
      BY <1>0, <3>1 DEF Locs
    <3> QED BY <1>0, <1>1, <2>0, <2>2, <3>2, SameAlike
  <2>3. ASSUME NEW e \in Fresh, NEW s \in Segments,
               info' = [info EXCEPT ![e].state = "spi", ![e].hash = m,
                                    ![e].seg = s, ![e].role = "responder"],
               loc' = [loc EXCEPT ![t].sa = e], Goto(t, "limit")
        PROVE  Tidy(t)
    <3>1. e \in Sas /\ pc'[t] = "limit"
      BY <1>0, <2>3 DEF Fresh, Goto
    <3>2. /\ info'[e] = [info[e] EXCEPT !.state = "spi", !.hash = m, !.seg = s, !.role = "responder"]
          /\ info[e] \in Infos
      BY <2>3, <3>1 DEF LooseType
    <3>3. \A f \in Sas : f # e => info'[f] = info[f]
      BY <2>3, <3>1 DEF LooseType
    <3>4. info'[e].half = info[e].half /\ info'[e].ided = info[e].ided
      BY <3>2 DEF Infos
    <3>5. loc'[t] = [loc[t] EXCEPT !.sa = e]
      BY <1>0, <2>3
    <3>6. loc'[t].op = loc[t].op /\ loc'[t].sa = e
      BY <1>0, <3>5 DEF Locs
    <3>7. \A f \in Sas : ~Moves(t, f) /\ ~Brings(t, f)
      BY <1>h DEF Moves, Brings
    <3>8. Brings(t, e)'
      BY <3>1, <3>6 DEF Brings
    <3>9. Listed(e)'
      <4>1. Listed(e) /\ (Filed(e)' => Filed(e))
        BY <2>0, <3>1, <3>4 DEF AllListed, Filed
      <4>2. e \in connected' => info'[e].ided
        BY <2>0, <3>4, <4>1 DEF Listed
      <4> QED BY <2>0, <3>1, <3>7, <3>8, <4>1, <4>2, ListedKeep
    <3>10. ASSUME NEW f \in Sas, f # e PROVE Listed(f)'
      <4>1. Alike(f) /\ Listed(f)
        BY <2>0, <3>3, <3>10 DEF Alike, AllListed
      <4> QED BY <3>7, <4>1, ListedAlike
    <3> QED BY <1>0, <3>6, <3>9, <3>10 DEF Tidy, AllListed
  <2> QED BY <1>6, <2>1, <2>2, <2>3 DEF ReceiveInit
<1>7. ASSUME NEW o \in EnumOps, NEW ws, EnumStart(t, o, ws) PROVE Tidy(t)
  <2>1. /\ loc'[t] = [NoLoc EXCEPT !.op = o, !.want = ws, !.rows = Segments]
        /\ UNCHANGED <<info, table, connected>>
    BY <1>0, <1>7 DEF EnumStart, cacheVars
  <2>2. loc'[t].op = o
    BY <2>1 DEF NoLoc
  <2> QED BY <1>1, <2>1, <2>2, SameAlike DEF EnumOps
<1>8. {"byid", "byconfig", "list", "skip"} = EnumOps
  BY DEF EnumOps
<1> QED BY <1>2, <1>3, <1>4, <1>5, <1>6, <1>7, <1>8 DEF Begin

\* An SA that is checked in is in the table.
LEMMA CheckinTidy ==
  ASSUME LooseType, AllListed, NEW t \in Threads, Frame(t), NEW e \in Sas, NEW st, NEW h,
         Checkin(t, e, st, h, FALSE), pc[t] \notin {"clean", "moved", "limit", "put"}
  PROVE  AllListed'
<1> DEFINE first == FirstTime(e, st) /\ ~FALSE
           new   == IF st = "connecting" THEN h ELSE None
<1>1. /\ info'[e] = [info[e] EXCEPT !.state = st, !.processing = -1, !.half = new, !.ided = @ \/ first]
      /\ info[e] \in Infos
  BY DEF Checkin, LooseType
<1>2. /\ \A f \in Sas : f # e => info'[f] = info[f]
      /\ table' = table \cup {e} /\ connected' = IF first THEN connected \cup {e} ELSE connected
  BY DEF Checkin, LooseType
<1> HIDE DEF first, new
<1>3. info'[e].ided = (info[e].ided \/ first)
  BY <1>1 DEF Infos
<1>4. e \in connected' => info'[e].ided
  BY <1>2, <1>3 DEF AllListed, Listed
<1>5. Listed(e)'
  BY <1>2, <1>4, ListedIn
<1>6. ASSUME NEW f \in Sas, f # e PROVE Listed(f)'
  <2>1. Alike(f) /\ Listed(f)
    BY <1>2, <1>6 DEF Alike, AllListed
  <2>2. ~Moves(t, f) /\ ~Brings(t, f)
    BY DEF Moves, Brings
  <2> QED BY <2>1, <2>2, ListedAlike
<1> QED BY <1>5, <1>6 DEF AllListed

\* An SA that is taken out of the table is in the hands of the thread.
LEMMA DriveOutTidy ==
  ASSUME LooseType, AllListed, NEW t \in Threads, Frame(t), NEW e \in Sas,
         NEW p \in {"drain", "respi"}, NEW q \in {"clean", "moved"}, DriveOut(t, e, p, q),
         UNCHANGED <<info, connected>>, pc[t] \notin {"clean", "moved", "limit", "put"},
         loc[t].op # "contact"
  PROVE  Tidy(t)
<1>0. DOMAIN loc = Threads /\ DOMAIN pc = Threads /\ loc[t] \in Locs
  BY DEF LooseType
<1>1. ASSUME Remove(t, e, q) PROVE Tidy(t)
  <2>1. loc'[t] = [loc[t] EXCEPT !.todo = @ \ {e}, !.sa = e] /\ table' = table \ {e} /\ pc'[t] = q
    BY <1>0, <1>1 DEF Remove, Goto
  <2>2. loc'[t].sa = e /\ loc'[t].op = loc[t].op
    BY <1>0, <2>1 DEF Locs
  <2>3. Moves(t, e)'
    BY <2>1, <2>2 DEF Moves
  <2>4. ASSUME NEW f \in Sas PROVE Listed(f)'
    <3>1. ~Moves(t, f) /\ ~Brings(t, f) /\ Listed(f)
      BY DEF Moves, Brings, AllListed
    <3>2. (Filed(f)' => Filed(f)) /\ (f \in connected' => info'[f].ided)
      BY <3>1 DEF Filed, Listed
    <3>3. f \in table => f \in table' \/ Moves(t, f)'
      BY <2>1, <2>3
    <3> QED BY <3>1, <3>2, <3>3, ListedKeep
  <2> QED BY <2>2, <2>4 DEF Tidy, AllListed
<1>2. CASE loc' = [loc EXCEPT ![t].sa = e] /\ UNCHANGED table
  <2>1. loc'[t] = [loc[t] EXCEPT !.sa = e]
    BY <1>0, <1>2
  <2>2. loc'[t].op = loc[t].op
    BY <1>0, <2>1 DEF Locs
  <2>3. AllListed'
    BY <1>2, SameAlike, AllAlike
  <2> QED BY <2>2, <2>3 DEF Tidy
<1> QED BY <1>1, <1>2 DEF DriveOut

\* An SA that is destroyed is in no list.
LEMMA EntryDestroyTidy ==
  ASSUME LooseType, AllListed, NEW E \in SUBSET Sas, EntryDestroy(E)
  PROVE  /\ \A e \in E : Listed(e)'
         /\ \A e \in Sas \ E : info'[e] = info[e] /\ (e \in connected' <=> e \in connected)
<1>1. \A e \in Sas : IF e \in E THEN info'[e].hash = None /\ info'[e].half = None
                                ELSE info'[e] = info[e]
  BY DEF EntryDestroy, NoInfo
<1>2. connected' = connected \ {e \in E : info[e].ided}
  BY DEF EntryDestroy, Disconnect
<1>3. \A e \in E : e \notin connected'
  BY <1>2 DEF AllListed, Listed
<1>4. \A e \in E : Listed(e)'
  BY <1>1, <1>3, ListedNone DEF Filed
<1> QED BY <1>1, <1>2, <1>4

LEMMA ReturnOp ==
  ASSUME LooseType, NEW t \in Threads, NEW e, Return(t, e), loc[t].op # "contact"
  PROVE  loc'[t].op # "contact"
<1>0. DOMAIN loc = Threads /\ loc[t] \in Locs /\ NoLoc.op = "none"
  BY DEF LooseType, NoLoc
<1>1. CASE main[t] = e
  BY <1>0, <1>1, BackIdle DEF Return
<1>2. CASE main[t] # e
  <2>1. loc'[t] = [loc[t] EXCEPT !.sa = None]
    BY <1>0, <1>2 DEF Return
  <2> QED BY <1>0, <2>1 DEF Locs
<1> QED BY <1>1, <1>2

LEMMA EndTidy ==
  ASSUME LooseType, Pointers, AllListed, NoContact, "contact" \notin Ops,
         NEW t \in Threads, End(t), Frame(t)
  PROVE  Tidy(t)
<1>0. pc[t] \in {"work", "dispose", "rekey"}
  BY DEF End, Destroy, DestroyUnknown, MayDestroy, CheckinContact, CheckinRekeyed,
         CheckinMain, UniqueCheckin
<1>1. pc[t] \notin {"clean", "moved", "limit", "put"} /\ loc[t].op # "contact"
  BY <1>0 DEF NoContact
<1>2. ASSUME NEW e \in Sas, Destroy(t, e) PROVE Tidy(t)
  <2>0. UNCHANGED <<info, connected>>
    BY <1>2 DEF Destroy, cacheVars
  <2>1. CASE driveout[e]
    <3>1. Return(t, e) /\ UNCHANGED table
      BY <1>2, <2>1 DEF Destroy
    <3> QED BY <1>1, <2>0, <3>1, ReturnOp, SameAlike, AllAlike DEF Tidy
  <2>2. CASE ~driveout[e]
    <3>1. DriveOut(t, e, "drain", "clean")
      BY <1>2, <2>2 DEF Destroy
    <3> QED BY <1>1, <2>0, <3>1, DriveOutTidy
  <2> QED BY <2>1, <2>2
<1>3. ASSUME NEW e \in Sas, DestroyUnknown(t, e) PROVE Tidy(t)
  <2>1. /\ info'[e] = [info[e] EXCEPT !.state = "dead"] /\ info[e] \in Infos
        /\ UNCHANGED <<table, connected>> /\ \A f \in Sas : f # e => info'[f] = info[f]
    BY <1>3 DEF DestroyUnknown, LooseType, cacheVars
  <2>2. info'[e].hash = info[e].hash /\ info'[e].half = info[e].half /\ info'[e].ided = info[e].ided
    BY <2>1 DEF Infos
  <2>3. \A f \in Sas : Alike(f)
    BY <2>1, <2>2, EditAlike
  <2>4. Return(t, e)
    BY <1>3 DEF DestroyUnknown
  <2> QED BY <1>1, <2>3, <2>4, ReturnOp, AllAlike DEF Tidy
<1>4. ASSUME NEW h \in Hosts PROVE ~CheckinContact(t, h)
  BY DEF CheckinContact
<1>5. ASSUME NEW h \in Hosts, CheckinRekeyed(t, h) PROVE Tidy(t)
  <2>1. dup[t] \in Sas /\ Checkin(t, dup[t], "established", h, FALSE) /\ UNCHANGED loc
    BY <1>5 DEF CheckinRekeyed, Pointers
  <2> QED BY <1>1, <2>1, CheckinTidy DEF Tidy
<1>6. ASSUME NEW st \in {"connecting", "established", "deleting"}, NEW h \in Hosts,
             CheckinMain(t, st, h) \/ UniqueCheckin(t, st, h)
      PROVE  Tidy(t)
  <2>1. (\E e \in Sas : Checkin(t, e, st, h, FALSE)) /\ UNCHANGED loc
    BY <1>6 DEF CheckinMain, UniqueCheckin, Pointers, MainPcs
  <2> QED BY <1>1, <2>1, CheckinTidy DEF Tidy
<1> QED BY <1>2, <1>3, <1>4, <1>5, <1>6 DEF End

LEMMA NestedTidy ==
  ASSUME LooseType, Pointers, AllListed, NoContact, NEW t \in Threads, Nested(t), Frame(t)
  PROVE  Tidy(t)
<1>1. pc[t] = "work" /\ loc[t].op # "contact" /\ main[t] \in Sas
  BY DEF Nested, UniqueStart, NewInitiatorSpi, Rekey, NoContact, Pointers, MainPcs
<1>2. CASE UniqueStart(t)
  <2>1. /\ loc'[t] = [NoLoc EXCEPT !.op = "auth", !.todo = connected]
        /\ UNCHANGED <<info, table, connected>>
    BY <1>2 DEF UniqueStart, LooseType, cacheVars
  <2>2. loc'[t].op = "auth"
    BY <2>1 DEF NoLoc
  <2> QED BY <1>1, <2>1, <2>2, SameAlike, AllAlike DEF Tidy
<1>3. CASE NewInitiatorSpi(t)
  <2>1. DriveOut(t, main[t], "respi", "moved") /\ UNCHANGED <<info, connected>>
    BY <1>3 DEF NewInitiatorSpi, cacheVars
  <2> QED BY <1>1, <2>1, DriveOutTidy
<1>4. ASSUME NEW e \in Sas, Rekey(t, e) PROVE Tidy(t)
  <2>1. Create(t, e, "connecting") /\ UNCHANGED <<table, connected, loc>>
    BY <1>4 DEF Rekey, cacheVars
  <2> QED BY <1>1, <2>1, CreateAlike, AllAlike DEF Tidy
<1> QED BY <1>2, <1>3, <1>4 DEF Nested

\* An initial message on its way to an SA in the table.
LEMMA InitialTidy ==
  ASSUME LooseType, Pointers, AllListed, NoContact, NEW t \in Threads, Frame(t),
         LimitOk(t) \/ LimitHit(t) \/ PutNew(t)
  PROVE  Tidy(t)
<1>0. /\ DOMAIN loc = Threads /\ DOMAIN pc = Threads /\ NoLoc.op = "none"
      /\ pc[t] \in {"limit", "put"} /\ loc[t].sa \in Sas /\ loc[t].op # "contact" /\ UNCHANGED connected
  BY DEF LooseType, NoLoc, LimitOk, LimitHit, PutNew, Pointers, SaPcs, NoContact, cacheVars
<1> PICK e \in Sas : e = loc[t].sa
  BY <1>0
<1>1. \A f \in Sas : ~Moves(t, f) /\ Listed(f) /\ (f # e => ~Brings(t, f))
  BY <1>0 DEF Moves, Brings, AllListed
<1>2. CASE LimitOk(t)
  <2>1. UNCHANGED <<info, table, connected, loc>> /\ pc'[t] = "put"
    BY <1>0, <1>2 DEF LimitOk, Goto, cacheVars
  <2>2. ASSUME NEW f \in Sas PROVE Listed(f)'
    <3>1. Brings(t, f) => Brings(t, f)'
      BY <2>1 DEF Brings
    <3> QED BY <1>1, <2>1, <3>1, SameAlike, ListedAlike
  <2> QED BY <1>0, <2>1, <2>2 DEF Tidy, AllListed
<1>3. CASE LimitHit(t)
  <2>1. /\ info'[e] = [info[e] EXCEPT !.state = "dead", !.hash = None] /\ info[e] \in Infos
        /\ UNCHANGED table /\ \A f \in Sas : f # e => info'[f] = info[f]
    BY <1>3 DEF LimitHit, LooseType
  <2>2. info'[e].hash = None /\ info'[e].half = info[e].half /\ info'[e].ided = info[e].ided
    BY <2>1 DEF Infos
  <2>3. loc'[t] = NoLoc
    BY <1>0, <1>3, BackIdle DEF LimitHit
  <2>4. Listed(e)'
    <3>1. (Filed(e)' => Filed(e)) /\ (e \in connected' => info'[e].ided)
      BY <1>0, <1>1, <2>2 DEF Filed, Listed
    <3> QED BY <1>1, <2>1, <2>2, <3>1, ListedKeep
  <2>5. ASSUME NEW f \in Sas, f # e PROVE Listed(f)'
    <3>1. Alike(f)
      BY <1>0, <2>1, <2>5 DEF Alike
    <3> QED BY <1>1, <2>5, <3>1, ListedAlike
  <2> QED BY <1>0, <2>3, <2>4, <2>5 DEF Tidy, AllListed
<1>4. CASE PutNew(t)
  <2>1. /\ info'[e] = [info[e] EXCEPT !.state = "created", !.processing = 0] /\ info[e] \in Infos
        /\ table' = table \cup {e} /\ \A f \in Sas : f # e => info'[f] = info[f]
    BY <1>4 DEF PutNew, LooseType
  <2>2. info'[e].hash = info[e].hash /\ info'[e].half = info[e].half /\ info'[e].ided = info[e].ided
    BY <2>1 DEF Infos
  <2>3. loc'[t] = NoLoc
    BY <1>0, <1>4 DEF PutNew
  <2>4. \A f \in Sas : Alike(f)
    BY <1>0, <2>1, <2>2, EditAlike
  <2>5. \A f \in Sas : Listed(f)'
    BY <1>1, <2>1, <2>4, ListedAlike
  <2> QED BY <1>0, <2>3, <2>5 DEF Tidy, AllListed
<1> QED BY <1>2, <1>3, <1>4

\* A thread that has taken an SA out of the table destroys it or puts it back.
LEMMA MovedTidy ==
  ASSUME LooseType, Pointers, AllListed, NoContact, NEW t \in Threads, Frame(t),
         DestroyClean(t) \/ \E s \in Segments : NewSpiPut(t, s)
  PROVE  Tidy(t)
<1>0. /\ DOMAIN loc = Threads /\ NoLoc.op = "none"
      /\ pc[t] \in {"clean", "moved"} /\ loc[t].sa \in Sas /\ loc[t].op # "contact"
  BY DEF LooseType, NoLoc, DestroyClean, NewSpiPut, Pointers, SaPcs, NoContact
<1> PICK e \in Sas : e = loc[t].sa
  BY <1>0
<1>1. \A f \in Sas : ~Brings(t, f) /\ Listed(f) /\ (f # e => ~Moves(t, f))
  BY <1>0 DEF Moves, Brings, AllListed
<1>2. CASE DestroyClean(t)
  <2>1. EntryDestroy({e}) /\ Return(t, e) /\ UNCHANGED table
    BY <1>2 DEF DestroyClean
  <2>2. /\ Listed(e)'
        /\ \A f \in Sas \ {e} : info'[f] = info[f] /\ (f \in connected' <=> f \in connected)
    BY <2>1, EntryDestroyTidy
  <2>3. ASSUME NEW f \in Sas, f # e PROVE Listed(f)'
    <3>1. Alike(f)
      BY <2>1, <2>2, <2>3 DEF Alike
    <3> QED BY <1>1, <2>3, <3>1, ListedAlike
  <2> QED BY <1>0, <2>1, <2>2, <2>3, ReturnOp DEF Tidy, AllListed
<1>3. ASSUME NEW s \in Segments, NewSpiPut(t, s) PROVE Tidy(t)
  <2>1. /\ info'[e] = [info[e] EXCEPT !.seg = s] /\ info[e] \in Infos /\ loc'[t] = NoLoc
        /\ table' = table \cup {e} /\ UNCHANGED connected /\ \A f \in Sas : f # e => info'[f] = info[f]
    BY <1>0, <1>3 DEF NewSpiPut, LooseType, cacheVars
  <2>2. info'[e].hash = info[e].hash /\ info'[e].half = info[e].half /\ info'[e].ided = info[e].ided
    BY <2>1 DEF Infos
  <2>3. \A f \in Sas : Alike(f)
    BY <2>1, <2>2, EditAlike
  <2>4. \A f \in Sas : Listed(f)'
    BY <1>1, <2>1, <2>3, ListedAlike
  <2> QED BY <1>0, <2>1, <2>4 DEF Tidy, AllListed
<1> QED BY <1>2, <1>3

LEMMA InnerTidy ==
  ASSUME LooseType, Pointers, AllListed, NoContact, NEW t \in Threads, Inner(t), Frame(t)
  PROVE  Tidy(t)
<1>0. /\ DOMAIN loc = Threads /\ NoLoc.op = "none" /\ loc[t] \in Locs /\ loc[t].op # "contact"
      /\ table \in SUBSET Sas
  BY DEF LooseType, NoLoc, NoContact
<1>1. ASSUME \A e \in Sas : Alike(e), loc'[t].op # "contact",
             pc[t] \notin {"clean", "moved", "limit", "put"}
      PROVE  Tidy(t)
  BY <1>1, AllAlike DEF Tidy
<1>2. CASE Wakes(t)
  <2>1. loc[t].sa \in Sas /\ WaitForEntry(t, loc[t].sa, 1, loc[t]) /\ pc[t] = "wait"
    BY <1>2 DEF Wakes, Pointers, SaPcs
  <2> QED BY <1>0, <1>1, <2>1, WaitForEntryAlike
<1>3. CASE ReceiveRetransmit(t)
  <2>1. loc[t].sa \in Sas /\ LookupMessage(t, loc[t].sa, 0) /\ pc[t] = "lookup"
    BY <1>3 DEF ReceiveRetransmit, Pointers, SaPcs
  <2> QED BY <1>1, <2>1, LookupAlike
<1>4. CASE LimitOk(t) \/ LimitHit(t) \/ PutNew(t)
  BY <1>4, InitialTidy
<1>5. CASE EnumRow(t) \/ EnumLeave(t) \/ UniqueDone(t)
  <2>1. UNCHANGED <<info, table, connected>> /\ pc[t] \in {"enum", "leave", "visit", "unique"}
    BY <1>5 DEF EnumRow, EnumLeave, UniqueDone, cacheVars
  <2>2. ASSUME EnumRow(t) PROVE loc'[t].op = loc[t].op
    <3>1. PICK s : loc' = [loc EXCEPT ![t].rows = @ \ {s}, ![t].todo = Row(s)]
      BY <2>2 DEF EnumRow
    <3>2. loc'[t] = [loc[t] EXCEPT !.rows = @ \ {s}, !.todo = Row(s)]
      BY <1>0, <3>1
    <3> QED BY <1>0, <3>2 DEF Locs
  <2>3. ASSUME EnumLeave(t) PROVE loc'[t].op = loc[t].op
    <3>1. loc'[t] = [loc[t] EXCEPT !.sa = None]
      BY <1>0, <2>3 DEF EnumLeave
    <3> QED BY <1>0, <3>1 DEF Locs
  <2>4. ASSUME UniqueDone(t) PROVE loc'[t].op = "none"
    BY <1>0, <2>4 DEF UniqueDone
  <2> QED BY <1>0, <1>1, <1>5, <2>1, <2>2, <2>3, <2>4, SameAlike
<1>6. CASE EnumEnd(t)
  <2>1. pc[t] = "enum" /\ UNCHANGED <<table, connected>> /\ loc'[t] = NoLoc
    BY <1>0, <1>6 DEF EnumEnd, cacheVars
  <2>2. \A f \in Sas : Alike(f)
    <3>1. ASSUME UNCHANGED info PROVE \A f \in Sas : Alike(f)
      BY <2>1, <3>1, SameAlike
    <3>2. ASSUME NEW e \in Fresh, Create(t, e, "created") PROVE \A f \in Sas : Alike(f)
      BY <2>1, <3>2, CreateAlike DEF Fresh
    <3> QED BY <1>6, <3>1, <3>2 DEF EnumEnd
  <2> QED BY <1>0, <1>1, <2>1, <2>2
<1>7. ~ContactDone(t)
  BY <1>0 DEF ContactDone
<1>8. CASE DestroyWakes(t) \/ NewSpiWakes(t)
  <2>1. /\ pc[t] \in {"drain", "respi"} /\ loc[t].sa \in Sas /\ UNCHANGED <<info, connected>>
        /\ \E p \in {"drain", "respi"}, q \in {"clean", "moved"} : DriveOut(t, loc[t].sa, p, q)
    BY <1>8 DEF DestroyWakes, NewSpiWakes, Pointers, SaPcs, cacheVars
  <2> QED BY <1>0, <2>1, DriveOutTidy
<1>9. ASSUME NEW e \in Sas, EnumEntry(t, e) \/ UniqueNext(t, e) PROVE Tidy(t)
  <2> DEFINE l == [loc[t] EXCEPT !.todo = @ \ {e}]
  <2>1. l \in Locs /\ l.op = loc[t].op /\ [l EXCEPT !.sa = e].op = loc[t].op
    BY <1>0 DEF Locs
  <2>2. pc[t] \in {"enum", "unique"}
    BY <1>9 DEF EnumEntry, UniqueNext
  <2>3. \/ WaitForEntry(t, e, 0, l)
        \/ loc'[t] \in {l, [l EXCEPT !.sa = e]} /\ UNCHANGED <<info, table, connected>>
    <3>1. CASE EnumEntry(t, e)
      BY <1>0, <3>1 DEF EnumEntry, cacheVars
    <3>2. CASE UniqueNext(t, e)
      BY <1>0, <3>2 DEF UniqueNext, cacheVars
    <3> QED BY <1>9, <3>1, <3>2
  <2> HIDE DEF l
  <2> QED BY <1>0, <1>1, <2>1, <2>2, <2>3, WaitForEntryAlike, SameAlike
<1>10. ASSUME \/ FlushLock(t) \/ FlushWakes(t) \/ FlushRng(t) \/ \E e \in Sas : FlushEntry(t, e)
       PROVE  Tidy(t)
  <2>1. UNCHANGED <<info, table, connected>> /\ pc[t] \in {"lockall", "flushwait", "norng", "drainall"}
    BY <1>10 DEF FlushLock, FlushWakes, FlushRng, FlushEntry, cacheVars
  <2>2. ASSUME FlushLock(t) PROVE loc'[t].op = loc[t].op
    <3>1. PICK s, d : loc' = [loc EXCEPT ![t].rows = @ \ {s}, ![t].todo = d]
      BY <2>2 DEF FlushLock
    <3>2. loc'[t] = [loc[t] EXCEPT !.rows = @ \ {s}, !.todo = d]
      BY <1>0, <3>1
    <3> QED BY <1>0, <3>2 DEF Locs
  <2>3. ASSUME FlushWakes(t) PROVE loc'[t].op = loc[t].op
    <3>1. loc'[t] = [loc[t] EXCEPT !.sa = None]
      BY <1>0, <2>3 DEF FlushWakes
    <3> QED BY <1>0, <3>1 DEF Locs
  <2>4. ASSUME NEW e \in Sas, FlushEntry(t, e) PROVE loc'[t].op = loc[t].op
    <3>1. loc'[t] = [loc[t] EXCEPT !.sa = e] \/ loc'[t] = [loc[t] EXCEPT !.todo = @ \ {e}]
      BY <1>0, <2>4 DEF FlushEntry
    <3> QED BY <1>0, <3>1 DEF Locs
  <2>5. FlushRng(t) => loc' = loc
    BY DEF FlushRng
  <2> QED BY <1>0, <1>1, <1>10, <2>1, <2>2, <2>3, <2>4, <2>5, SameAlike
<1>11. CASE FlushDestroy(t) \/ ManagerDestroy(t)
  <2>1. EntryDestroy(table) /\ table' = {} /\ UNCHANGED loc /\ pc[t] \in {"drainall", "flushed"}
    BY <1>11 DEF FlushDestroy, ManagerDestroy
  <2>2. /\ \A e \in table : Listed(e)'
        /\ \A e \in Sas \ table : info'[e] = info[e] /\ (e \in connected' <=> e \in connected)
    BY <1>0, <2>1, EntryDestroyTidy
  <2>3. ASSUME NEW e \in Sas \ table PROVE Listed(e)'
    <3>1. Alike(e) /\ Listed(e)
      BY <2>2, <2>3 DEF Alike, AllListed
    <3>2. ~Moves(t, e) /\ ~Brings(t, e)
      BY <2>1 DEF Moves, Brings
    <3> QED BY <3>1, <3>2, ListedAlike
  <2> QED BY <1>0, <2>1, <2>2, <2>3 DEF Tidy, AllListed
<1> QED BY <1>2, <1>3, <1>4, <1>5, <1>6, <1>7, <1>8, <1>9, <1>10, <1>11, MovedTidy DEF Inner

\* A step of the manager is one of a thread that is at work.
LEMMA InnerBusy ==
  ASSUME NEW t \in Threads, Inner(t)
  PROVE  pc[t] \notin {"idle", "destroyed"}
<1>1. ASSUME \/ Wakes(t) \/ ReceiveRetransmit(t) \/ LimitOk(t) \/ LimitHit(t) \/ PutNew(t)
             \/ EnumRow(t) \/ EnumLeave(t) \/ EnumEnd(t)
      PROVE  pc[t] \notin {"idle", "destroyed"}
  BY <1>1 DEF Wakes, ReceiveRetransmit, LimitOk, LimitHit, PutNew, EnumRow, EnumLeave, EnumEnd
<1>2. ASSUME \/ UniqueDone(t) \/ ContactDone(t) \/ DestroyWakes(t) \/ DestroyClean(t) \/ NewSpiWakes(t)
      PROVE  pc[t] \notin {"idle", "destroyed"}
  BY <1>2 DEF UniqueDone, ContactDone, DestroyWakes, DestroyClean, NewSpiWakes
<1>3. ASSUME NEW e \in Sas, EnumEntry(t, e) \/ UniqueNext(t, e) \/ FlushEntry(t, e)
      PROVE  pc[t] \notin {"idle", "destroyed"}
  BY <1>3 DEF EnumEntry, UniqueNext, FlushEntry
<1>4. ASSUME NEW s \in Segments, NewSpiPut(t, s) PROVE pc[t] \notin {"idle", "destroyed"}
  BY <1>4 DEF NewSpiPut
<1>5. ASSUME FlushLock(t) \/ FlushWakes(t) \/ FlushDestroy(t) \/ FlushRng(t) \/ ManagerDestroy(t)
      PROVE  pc[t] \notin {"idle", "destroyed"}
  BY <1>5 DEF FlushLock, FlushWakes, FlushDestroy, FlushRng, ManagerDestroy
<1> QED BY <1>1, <1>2, <1>3, <1>4, <1>5 DEF Inner

\* The main thread gets to the end with destroy() of the manager only.
LEMMA InnerOver ==
  ASSUME LooseType, NEW t \in Threads, t = Flusher, pc[t] \in {"idle"} \cup FlushPcs,
         Inner(t), Frame(t), pc'[t] = "destroyed"
  PROVE  table' = {} /\ \A u \in Threads \ {Flusher} : pc'[u] = "idle"
<1>0. /\ DOMAIN pc = Threads
      /\ pc[t] \in {"idle", "lockall", "drainall", "flushwait", "norng", "flushed", "destroyed"}
  BY DEF LooseType, FlushPcs
<1>1. /\ ~Wakes(t) /\ ~ReceiveRetransmit(t) /\ ~LimitOk(t) /\ ~LimitHit(t) /\ ~PutNew(t)
      /\ ~EnumRow(t) /\ ~EnumLeave(t) /\ ~EnumEnd(t)
  BY <1>0 DEF Wakes, ReceiveRetransmit, LimitOk, LimitHit, PutNew, EnumRow, EnumLeave, EnumEnd
<1>2. ~UniqueDone(t) /\ ~ContactDone(t) /\ ~DestroyWakes(t) /\ ~DestroyClean(t) /\ ~NewSpiWakes(t)
  BY <1>0 DEF UniqueDone, ContactDone, DestroyWakes, DestroyClean, NewSpiWakes
<1>3. ASSUME NEW e \in Sas PROVE ~EnumEntry(t, e) /\ ~UniqueNext(t, e) /\ ~FlushEntry(t, e)
  <2>1. ~EnumEntry(t, e) /\ ~UniqueNext(t, e)
    BY <1>0 DEF EnumEntry, UniqueNext
  <2>2. ~FlushEntry(t, e)
    BY <1>0 DEF FlushEntry, Goto
  <2> QED BY <2>1, <2>2
<1>4. \A s \in Segments : ~NewSpiPut(t, s)
  BY <1>0 DEF NewSpiPut
<1>5. ~FlushLock(t) /\ ~FlushWakes(t) /\ ~FlushDestroy(t) /\ ~FlushRng(t)
  BY <1>0 DEF FlushLock, FlushWakes, FlushDestroy, FlushRng, Goto
<1>6. ManagerDestroy(t)
  BY <1>1, <1>2, <1>3, <1>4, <1>5 DEF Inner
<1> QED BY <1>6 DEF ManagerDestroy, Frame

LEMMA InitLeft == Init => LeftInv
<1> SUFFICES ASSUME Init PROVE LeftInv
  OBVIOUS
<1>1. \A e \in Sas : info[e].hash = None /\ info[e].half = None
  BY DEF Init, NoInfo
<1>2. AllListed
  BY <1>1 DEF Init, AllListed, Listed, Filed
<1>3. NoContact
  BY DEF Init, NoContact, NoLoc
<1>4. pc[Flusher] # "destroyed"
  BY SetsAssumption DEF Init
<1> QED BY <1>2, <1>3, <1>4 DEF LeftInv, Over

LEMMA LeftStep ==
  ASSUME "contact" \notin Ops, FullInv, FullInv', LeftInv, [Next]_vars
  PROVE  LeftInv'
<1>1. LooseType /\ LooseType' /\ Pointers /\ FlushStays
  BY DEF FullInv, RunInv, ManagerInv, WaitInv
<1>2. CASE UNCHANGED vars
  <2>1. UNCHANGED <<info, table, connected, pc, loc>>
    BY <1>2 DEF vars, mgrVars, cacheVars, threadVars
  <2>2. \A e \in Sas : Listed(e) => Listed(e)'
    BY <2>1 DEF Listed, Filed, Moves, Brings
  <2> QED BY <2>1, <2>2 DEF LeftInv, AllListed, NoContact, Over
<1>3. ASSUME NEW t \in Threads, FlushStart(t) PROVE LeftInv'
  <2>0. DOMAIN pc = Threads /\ DOMAIN loc = Threads /\ loc[t] \in Locs /\ loc[t].op # "contact"
    BY <1>1 DEF LooseType, LeftInv, NoContact
  <2>1. /\ t = Flusher /\ pc[t] = "idle" /\ pc'[t] = "lockall" /\ UNCHANGED <<info, table, connected, main, dup>>
        /\ loc'[t] = [loc[t] EXCEPT !.rows = Segments]
    BY <1>3, <2>0 DEF FlushStart, Goto, cacheVars
  <2>2. loc'[t].op = loc[t].op
    BY <2>0, <2>1 DEF Locs
  <2>3. Frame(t)
    BY <1>3, <2>0 DEF FlushStart, Goto, Frame
  <2>4. AllListed'
    BY <2>1, <2>3, SameAlike, AllAlike DEF LeftInv
  <2>5. NoContact'
    BY <2>0, <2>2, <2>3 DEF LeftInv, NoContact, Frame
  <2> QED BY <2>1, <2>4, <2>5 DEF LeftInv, Over
<1>4. ASSUME NEW t \in Threads, Begin(t) \/ Nested(t) \/ Inner(t) \/ End(t) PROVE LeftInv'
  <2>1. Frame(t)
    BY <1>1, <1>4, BeginGood, NestedGood, InnerGood, EndGood DEF Good
  <2>2. Tidy(t)
    BY <1>1, <1>4, <2>1, BeginTidy, NestedTidy, InnerTidy, EndTidy DEF LeftInv
  <2>3. NoContact'
    BY <2>1, <2>2 DEF LeftInv, NoContact, Frame, Tidy
  <2>4. pc[Flusher] # "destroyed"
    <3>1. CASE Begin(t)
      BY <3>1 DEF Begin, NotFound, Checkout, CheckoutNew, ReceiveMessage, ReceiveInit, EnumStart, Idle
    <3>2. CASE Nested(t) \/ End(t) \/ Inner(t)
      <4>1. pc[t] \notin {"idle", "destroyed"}
        BY <3>2, InnerBusy, BusyJobs DEF FlushPcs
      <4> QED BY <4>1 DEF LeftInv, Over
    <3> QED BY <1>4, <3>1, <3>2
  <2>5. Over'
    <3>1. ASSUME pc'[Flusher] = "destroyed"
          PROVE  table' = {} /\ \A u \in Threads \ {Flusher} : pc'[u] = "idle"
      <4>1. t = Flusher
        BY <2>1, <2>4, <3>1, SetsAssumption DEF Frame
      <4>2. pc[t] \in {"idle"} \cup FlushPcs /\ Inner(t)
        BY <1>1, <1>4, <4>1, BeginJobs, BusyJobs DEF FlushStays
      <4> QED BY <1>1, <2>1, <3>1, <4>1, <4>2, InnerOver
    <3> QED BY <3>1 DEF Over
  <2> QED BY <2>2, <2>3, <2>5 DEF LeftInv, Tidy
<1> QED BY <1>2, <1>3, <1>4 DEF Next

\* When the manager has been destroyed, no SA is left in any of its tables,
\* whatever the worker threads were doing when flush() began: destroy()
\* removes what was checked in too late, and every SA that a list mentions is
\* in the table or with a thread that has been joined by then.
THEOREM NothingLeftTheorem == "contact" \notin Ops => (Spec => []NothingLeft)
<1> SUFFICES ASSUME "contact" \notin Ops PROVE Spec => []NothingLeft
  OBVIOUS
<1>1. FullInv /\ LeftInv => NothingLeft
  <2> SUFFICES ASSUME FullInv, LeftInv, pc[Flusher] = "destroyed"
               PROVE  /\ table = {} /\ connected = {} /\ \A h \in Hosts : halfOpen[h].all = 0
                      /\ \A m \in Inits : initHashes[m] = None
    BY DEF NothingLeft
  <2>1. table = {} /\ \A t \in Threads : pc[t] \in {"idle", "destroyed"}
    BY DEF LeftInv, Over
  <2>2. \A e \in Sas : ~Filed(e) /\ info[e].hash = None
    BY <2>1 DEF LeftInv, AllListed, Listed, Moves, Brings
  <2>3. /\ connected \in SUBSET Sas /\ initHashes \in [Inits -> Sas \cup {None}]
        /\ HalfOpenExact /\ InitHashExact
    BY DEF FullInv, RunInv, ManagerInv, WaitInv, HalfInv, HashInv, LooseType
  <2>4. connected = {}
    BY <2>2, <2>3 DEF Filed
  <2>5. ASSUME NEW h \in Hosts PROVE halfOpen[h].all = 0
    <3>1. {e \in Sas : info[e].half = h} = {}
      BY <2>2, SetsAssumption DEF Filed
    <3>2. halfOpen[h].all = Cardinality({e \in Sas : info[e].half = h})
      BY <2>3 DEF HalfOpenExact
    <3> QED BY <3>1, <3>2, FS_EmptySet
  <2>6. ASSUME NEW m \in Inits PROVE initHashes[m] = None
    BY <2>2, <2>3, SetsAssumption DEF InitHashExact
  <2> QED BY <2>1, <2>4, <2>5, <2>6
<1>2. Init => FullInv /\ LeftInv
  BY InitFull, InitLeft
<1>3. FullInv /\ LeftInv /\ [Next]_vars => FullInv' /\ LeftInv'
  BY FullStep, LeftStep
<1> QED BY <1>1, <1>2, <1>3, PTL DEF Spec
=============================================================================
