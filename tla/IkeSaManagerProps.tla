-------------------------- MODULE IkeSaManagerProps --------------------------
(***************************************************************************)
(* What the IKE_SA manager promises its callers.                           *)
(***************************************************************************)
EXTENDS IkeSaManager

Pcs == {"idle", "work", "wait", "lookup", "limit", "put", "enum", "visit",
        "leave", "unique", "dispose", "rekey", "drain", "clean", "respi",
        "moved", "lockall", "drainall", "flushwait", "norng", "flushed",
        "destroyed"}

SaStates == {"none", "spi", "created", "connecting", "established", "deleting",
             "dead"}

Infos == [state : SaStates, role : {"initiator", "responder"}, seg : Segments,
          processing : {-1, 0} \cup MsgIds, half : Hosts \cup {None},
          hash : Inits \cup {None}, ided : BOOLEAN]

Locs == [op : {"none", "checkout", "message"} \cup EnumOps \cup UniqueOps,
         sa : Sas \cup {None}, mid : {-1, 0} \cup MsgIds, want : SUBSET Sas,
         todo : SUBSET Sas, rows : SUBSET Segments]

TypeOK ==
  /\ info       \in [Sas -> Infos]
  /\ out        \in [Sas -> Threads \cup {None}]
  /\ waiting    \in [Sas -> Nat]
  /\ driveout   \in [Sas -> BOOLEAN]
  /\ table      \in SUBSET Sas
  /\ halfOpen   \in [Hosts -> [all : Nat, resp : Nat]]
  /\ connected  \in SUBSET Sas
  /\ initHashes \in [Inits -> Sas \cup {None}]
  /\ hashMutex  \in Threads \cup {None}
  /\ rng        \in BOOLEAN
  /\ mutex      \in [Segments -> Threads \cup {None}]
  /\ pc         \in [Threads -> Pcs]
  /\ main       \in [Threads -> Sas \cup {None}]
  /\ dup        \in [Threads -> Sas \cup {None}]
  /\ loc        \in [Threads -> Locs]
  /\ asleep     \in SUBSET Threads
  /\ jobs       \in SUBSET Threads

\* The SAs whose ike_sa_t a thread is using: those it has checked out, the
\* one a create_enumerator() hands it, and all when flush() deletes them.
UsesSa(t, e) == \/ main[t] = e \/ dup[t] = e
                \/ pc[t] = "visit" /\ loc[t].sa = e
                \/ pc[t] = "drainall" /\ loc[t].todo = {} /\ e \in table

\* "Checkout" is exclusive: whatever mix of lookups, enumerations, nested
\* uniqueness checks, SPI changes and shutdown the threads run, no two of
\* them ever use one ike_sa_t at the same time.
ExclusiveUse ==
  \A e \in Sas, t, u \in Threads : UsesSa(t, e) /\ UsesSa(u, e) => t = u

\* The manager seen as a registry of SAs that are used by one thread.
Status(e) == CASE info[e].state \in {"none", "spi"} -> "fresh"
               [] info[e].state = "dead"            -> "gone"
               [] OTHER                             -> "live"
Registry == INSTANCE SaRegistry WITH
  status <- [e \in Sas |-> Status(e)],
  users  <- [e \in Sas |-> {t \in Threads : UsesSa(t, e)}]

\* The manager implements the registry: every one of its steps hands an SA
\* that nobody uses to one thread, ends that use, or leaves both alone; an SA
\* is destroyed at the end of its use, once, and never used again.
ImplementsRegistry == Registry!Spec

\* The threads that registered as waiting for e.
Waiters(e) == {t \in Threads : pc[t] = "wait" /\ loc[t].sa = e}

\* "deletion is a bit complex, we must ensure that no thread is waiting for
\* this SA": an entry is in the table, hence not freed or moved, as long as a
\* thread sleeps on its condvar, stands on it in an enumeration, or relies on
\* it to "still exist" while checkin checks the uniqueness.
EntriesStay ==
  \A t \in Threads :
    /\ pc[t] \in SleepPcs \cup {"visit", "leave"} => loc[t].sa \in table
    /\ loc[t].op = "contact" /\ pc[t] \in {"unique", "wait", "dispose", "drain"}
         => main[t] \in table

\* waiting_threads, by which checkin_and_destroy and flush decide that nobody
\* waits any more, counts exactly the threads in wait_for_entry.
WaitingCounted == \A e \in Sas : waiting[e] = Cardinality(Waiters(e))

\* No wakeup is lost, although signal() wakes any one of the threads that
\* wait for different reasons: when an entry is free and threads sleep on it,
\* one is on its way or an enumerator will signal; and a thread that drives
\* others out sleeps only as long as one of them is about to leave.
NoLostWakeup ==
  \A e \in table :
    /\ Sleepers(e) # {} /\ out[e] = None =>
         \E u \in Threads \ asleep :
           pc[u] \in SleepPcs \cup {"visit", "leave"} /\ loc[u].sa = e
    /\ (\E u \in Sleepers(e) : pc[u] \in {"drain", "respi"}) =>
         Waiters(e) \ asleep # {}

\* No threads wait for one another in a circle, although some wait for an SA
\* while they have another one: check_uniqueness goes by the connected peers,
\* and an SA that is about to check them is not one of these.
NoCircularWait ==
  \A S \in (SUBSET Threads) \ {{}} :
    \E t \in S : ~(pc[t] = "wait" /\ t \in asleep /\ out[loc[t].sa] \in S)

\* init_hashes_table lists the SA an initial message has led to, from before
\* it is in the table until after it has left it: a retransmit never creates
\* a second SA, and no message is remembered without its SA.
InitHashExact ==
  \A m \in Inits, e \in Sas : initHashes[m] = e <=> info[e].hash = m

\* half_open_table counts, per host, exactly the half-open SAs: the numbers
\* the receiver's denial of service protection decides by do not drift.
HalfOpenExact ==
  \A h \in Hosts :
    LET H == {e \in Sas : info[e].half = h} IN
    /\ halfOpen[h].all  = Cardinality(H)
    /\ halfOpen[h].resp = Cardinality({e \in H : info[e].role = "responder"})

\* connected_peers_table lists an SA from its first checkin as established
\* until its destruction, and never one that is gone: duplicates are found.
ConnectedExact ==
  /\ \A e \in table : info[e].state \in {"established", "deleting"} =>
       e \in connected \/ \E t \in Threads : main[t] = e /\ loc[t].op = "contact"
  /\ \A e \in connected : e \in table \/ \E t \in Threads : pc[t] = "clean" /\ loc[t].sa = e

\* The tables of initial messages and of connected peers, updated under locks
\* of their own after the segment is unlocked, agree with the SAs.
TablesAgree == InitHashExact /\ ConnectedExact

\* An SA flush() does not wait for: it came into the table after the driveout
\* flags were set (the run flush_late_sa), so it has none, or only that of a
\* thread which is itself driving others out to destroy or move it.
Overlooked(e) ==
  \/ ~driveout[e]
  \/ \E t \in Threads : pc[t] \in {"drain", "respi"} /\ loc[t].sa = e

\* "Threads will be driven out, so all SAs can be deleted cleanly": while
\* flush() sleeps on one entry after another, workers still never share an
\* ike_sa_t; and when it begins to delete the SAs, no thread has or waits for
\* one, except those that flush() overlooks.
DrivenOut ==
  LET Workers == Threads \ {Flusher} IN
  /\ pc[Flusher] \in {"lockall", "drainall", "flushwait"} =>
       \A e \in Sas, t, u \in Workers : UsesSa(t, e) /\ UsesSa(u, e) => t = u
  /\ pc[Flusher] = "drainall" /\ loc[Flusher].todo = {} =>
       \A e \in table, t \in Workers :
         ~Overlooked(e) => ~UsesSa(t, e) /\ t \notin Waiters(e)

\* Nothing is left when the manager has been destroyed, whatever the workers
\* it has driven out or overtaken did to the SAs in the meantime.
NothingLeft ==
  pc[Flusher] = "destroyed" =>
    /\ table = {} /\ connected = {} /\ \A h \in Hosts : halfOpen[h].all = 0
    /\ \A m \in Inits : initHashes[m] = None


\* flush() sleeps on an entry that is gone: a thread that was already driving
\* others out of it has removed it, and nobody signals its condvar any more.
Overtaken == pc[Flusher] = "flushwait" /\ loc[Flusher].sa \notin table

\* The SAs a thread goes to before it checks its own SA in.
Needs(t) == IF pc[t] = "unique" THEN loc[t].todo ELSE {dup[t]} \ {None}

\* flush() sleeps on an SA whose user needs a segment that flush() has locked.
Barred ==
  /\ pc[Flusher] = "flushwait"
  /\ \E t \in Threads : /\ out[loc[Flusher].sa] = t
                        /\ \E f \in Needs(t) : mutex[info[f].seg] = Flusher


\* "failed to allocate an SPI": the message is ignored, and the thread does
\* not keep the mutex of the table of initial messages.
HashMutexReleased == hashMutex = None

=============================================================================
