------------------------------- MODULE RWLock -------------------------------
(***************************************************************************)
(* The read-write lock libstrongswan builds from a mutex and two condition *)
(* variables when pthread_rwlock_* is missing or not usable                *)
(* (src/libstrongswan/threading/rwlock.c, the !HAVE_PTHREAD_RWLOCK_INIT    *)
(* half).  Writers are preferred; a thread that holds ANY read lock passes *)
(* waiting writers, which is what keeps recursive read locking safe.       *)
(*                                                                         *)
(* Everything between mutex->lock and mutex->unlock (or cond->wait) is one *)
(* step: no other thread can see an intermediate state of that lock.       *)
(***************************************************************************)
EXTENDS Integers, FiniteSets

CONSTANTS Threads,     \* the threads that share the locks
          NumLocks,    \* locks are 1..NumLocks; callers nest them in this order
          MaxDepth,    \* bound on how often a thread nests one read lock
          NoThread     \* "no thread", not a member of Threads

ASSUME ThreadsAssumption == IsFiniteSet(Threads) /\ NoThread \notin Threads
ASSUME BoundsAssumption  == NumLocks \in Nat \ {0} /\ MaxDepth \in Nat \ {0}

VARIABLES
  writer,          \* [lock -> BOOLEAN]  this->writer
  readerCount,     \* [lock -> Nat]      this->reader_count
  waitingWriters,  \* [lock -> Nat]      this->waiting_writers
  reading,         \* [thread -> Nat]    the thread-specific value is_reader
  pc,              \* [thread -> what it does: run, or blocked in an operation]
  on,              \* [thread -> the lock that operation is about]
  asleep,          \* the threads inside condvar->wait, not yet woken
  held,            \* [thread -> [lock -> read locks its caller holds]]
  owner            \* [lock -> the thread whose caller holds it exclusively]

vars == <<writer, readerCount, waitingWriters, reading, pc, on, asleep, held,
          owner>>

Locks == 1..NumLocks

Init ==
  /\ writer         = [l \in Locks |-> FALSE]
  /\ readerCount    = [l \in Locks |-> 0]
  /\ waitingWriters = [l \in Locks |-> 0]
  /\ reading        = [t \in Threads |-> 0]
  /\ pc             = [t \in Threads |-> "run"]
  /\ on             = [t \in Threads |-> 1]
  /\ asleep         = {}
  /\ held           = [t \in Threads |-> [l \in Locks |-> 0]]
  /\ owner          = [l \in Locks |-> NoThread]

(***************************************************************************)
(* The callers' contract, from the comment above the implementation: the   *)
(* write lock is not recursive, and a reader does not write-lock (or the   *)
(* reverse).  Different locks are nested in one global order; a read lock  *)
(* already held may be taken again at any time.                            *)
(***************************************************************************)
Holds(t, l) == held[t][l] > 0 \/ owner[l] = t

InOrder(t, l) == \A k \in Locks : Holds(t, k) => k < l

MayRead(t, l)  == /\ pc[t] = "run"
                  /\ held[t][l] < MaxDepth
                  /\ held[t][l] > 0 \/ InOrder(t, l)

MayWrite(t, l) == pc[t] = "run" /\ InOrder(t, l)

\* The threads blocked in condvar->wait of the writers (readers) of lock l.
Sleeping(kind, l) == {t \in asleep : pc[t] = kind /\ on[t] = l}

\* Leaving read_lock: reader_count++ and the thread-specific count.
GetRead(t, l) ==
  /\ readerCount' = [readerCount EXCEPT ![l] = @ + 1]
  /\ reading'     = [reading EXCEPT ![t] = @ + 1]
  /\ held'        = [held EXCEPT ![t][l] = @ + 1]

\* Leaving write_lock or try_write_lock with the lock.
GetWrite(t, l) ==
  /\ writer' = [writer EXCEPT ![l] = TRUE]
  /\ owner'  = [owner EXCEPT ![l] = t]

-----------------------------------------------------------------------------
\* A slip: readers do not care for waiting writers.
ReadMustWait_WritersIgnored(t, l) == writer[l]

\* read_lock: a thread that already reads anything only waits for a writer
\* that has the lock, anybody else also for the writers that wait for it.
ReadMustWait(t, l) ==
  /\ writer[l] \/ reading[t] = 0
  /\ writer[l] \/ waitingWriters[l] > 0

ReadLock(t, l) ==
  /\ MayRead(t, l)
  /\ ~ReadMustWait(t, l)
  /\ GetRead(t, l)
  /\ UNCHANGED <<writer, waitingWriters, pc, on, asleep, owner>>

ReadLockBlocks(t, l) ==
  /\ MayRead(t, l)
  /\ ReadMustWait(t, l)
  /\ pc' = [pc EXCEPT ![t] = "read"]
  /\ on' = [on EXCEPT ![t] = l]
  /\ asleep' = asleep \cup {t}
  /\ UNCHANGED <<writer, readerCount, waitingWriters, reading, held, owner>>

\* Back from readers->wait: the loop condition is evaluated again.  Once a
\* thread is in the loop, the short cut for recursive readers is behind it.
ReadWakes(t, l) ==
  /\ pc[t] = "read" /\ on[t] = l /\ t \notin asleep
  /\ IF writer[l] \/ waitingWriters[l] > 0
     THEN /\ asleep' = asleep \cup {t}
          /\ UNCHANGED <<pc, readerCount, reading, held>>
     ELSE /\ GetRead(t, l)
          /\ pc' = [pc EXCEPT ![t] = "run"]
          /\ UNCHANGED asleep
  /\ UNCHANGED <<writer, waitingWriters, on, owner>>

\* A slip: the readers are forgotten in the loop condition of write_lock.
WriteMustWait_ReadersIgnored(l) == writer[l]

WriteMustWait(l) == writer[l] \/ readerCount[l] > 0

WriteLock(t, l) ==
  /\ MayWrite(t, l)
  /\ IF WriteMustWait(l)
     THEN /\ waitingWriters' = [waitingWriters EXCEPT ![l] = @ + 1]
          /\ pc' = [pc EXCEPT ![t] = "write"]
          /\ on' = [on EXCEPT ![t] = l]
          /\ asleep' = asleep \cup {t}
          /\ UNCHANGED <<writer, owner>>
     ELSE /\ GetWrite(t, l)
          /\ UNCHANGED <<waitingWriters, pc, on, asleep>>
  /\ UNCHANGED <<readerCount, reading, held>>

WriteWakes(t, l) ==
  /\ pc[t] = "write" /\ on[t] = l /\ t \notin asleep
  /\ IF WriteMustWait(l)
     THEN /\ asleep' = asleep \cup {t}
          /\ UNCHANGED <<writer, owner, waitingWriters, pc>>
     ELSE /\ GetWrite(t, l)
          /\ waitingWriters' = [waitingWriters EXCEPT ![l] = @ - 1]
          /\ pc' = [pc EXCEPT ![t] = "run"]
          /\ UNCHANGED asleep
  /\ UNCHANGED <<readerCount, reading, on, held>>

\* try_write_lock, when it returns TRUE (when it returns FALSE nothing changes).
TryWriteLock(t, l) ==
  /\ MayWrite(t, l)
  /\ ~writer[l] /\ readerCount[l] = 0
  /\ GetWrite(t, l)
  /\ UNCHANGED <<readerCount, waitingWriters, reading, pc, on, asleep, held>>

\* A slip: readers are left asleep when no writer waits.
WakeUp_WritersOnly(l, count) ==
  IF count = 0 /\ Sleeping("write", l) # {}
  THEN \E t \in Sleeping("write", l) : asleep' = asleep \ {t}
  ELSE asleep' = asleep

\* unlock: the lock itself decides, by this->writer, what is being released;
\* the last one out signals one writer, or else wakes all readers.
WakeUp(l, count) ==
  IF count > 0 THEN asleep' = asleep
  ELSE IF waitingWriters[l] > 0
       THEN \/ \E t \in Sleeping("write", l) : asleep' = asleep \ {t}
            \/ Sleeping("write", l) = {} /\ asleep' = asleep
       ELSE asleep' = asleep \ Sleeping("read", l)

Unlock(t, l) ==
  /\ pc[t] = "run" /\ Holds(t, l)
  /\ IF writer[l]
     THEN /\ writer' = [writer EXCEPT ![l] = FALSE]
          /\ owner'  = [owner EXCEPT ![l] = NoThread]
          /\ WakeUp(l, readerCount[l])
          /\ UNCHANGED <<readerCount, reading, held>>
     ELSE /\ readerCount' = [readerCount EXCEPT ![l] = @ - 1]
          /\ reading'     = [reading EXCEPT ![t] = @ - 1]
          /\ held'        = [held EXCEPT ![t][l] = @ - 1]
          /\ WakeUp(l, readerCount[l] - 1)
          /\ UNCHANGED <<writer, owner>>
  /\ UNCHANGED <<waitingWriters, pc, on>>

-----------------------------------------------------------------------------
Step(t, l) == \/ ReadLock(t, l) \/ ReadLockBlocks(t, l) \/ ReadWakes(t, l)
              \/ WriteLock(t, l) \/ WriteWakes(t, l) \/ TryWriteLock(t, l)
              \/ Unlock(t, l)

Next == \E t \in Threads, l \in Locks : Step(t, l)

(***************************************************************************)
(* A thread that was woken runs again, and a thread that holds a lock      *)
(* gives it back: the critical sections of the code base are finite, so    *)
(* the outermost unlock comes however often inner locks are nested in it   *)
(* (hence strong fairness).  No thread has to ask for another lock.        *)
(***************************************************************************)
Fairness ==
  \A t \in Threads, l \in Locks :
    /\ WF_vars(ReadWakes(t, l))
    /\ WF_vars(WriteWakes(t, l))
    /\ SF_vars(Unlock(t, l))
    /\ SF_vars(held[t][l] <= 1 /\ Unlock(t, l))

Spec     == Init /\ [][Next]_vars
FairSpec == Spec /\ Fairness

=============================================================================
