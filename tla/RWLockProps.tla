----------------------------- MODULE RWLockProps -----------------------------
(***************************************************************************)
(* What the emulated read-write lock of RWLock promises its callers, and   *)
(* the plausible slips in rwlock.c that would break each promise.          *)
(***************************************************************************)
EXTENDS RWLock

TypeOK ==
  /\ writer         \in [Locks -> BOOLEAN]
  /\ readerCount    \in [Locks -> Nat]
  /\ waitingWriters \in [Locks -> Nat]
  /\ reading        \in [Threads -> Nat]
  /\ pc             \in [Threads -> {"run", "read", "write"}]
  /\ on             \in [Threads -> Locks]
  /\ asleep         \in SUBSET Threads
  /\ held           \in [Threads -> [Locks -> 0..MaxDepth]]
  /\ owner          \in [Locks -> Threads \cup {NoThread}]

\* The read locks of l (of t) that callers hold, one element per nesting level.
Grants(l)  == {g \in Threads \X (1..MaxDepth) : g[2] <= held[g[1]][l]}
Writers(l) == {t \in Threads : pc[t] = "write" /\ on[t] = l}

\* "Multiple readers can hold the lock at the same time. Only a single writer
\* [...]": whoever is in a critical section of l under the write lock is there
\* alone, and the counters the lock decides by agree with what callers hold.
Exclusion ==
  \A l \in Locks :
    /\ writer[l] <=> owner[l] # NoThread
    /\ readerCount[l] = Cardinality(Grants(l))
    /\ waitingWriters[l] = Cardinality(Writers(l))
    /\ writer[l] => readerCount[l] = 0

\* No wakeup is lost between signal, broadcast and the threads that get in
\* first: while threads sleep in a condvar of l, somebody holds l (and will
\* unlock it) or somebody woken is on the way to evaluate the loop again.
NoLostWakeup ==
  \A l \in Locks :
    (\E t \in asleep : on[t] = l) =>
      \/ writer[l] \/ readerCount[l] > 0
      \/ \E t \in Threads \ asleep : pc[t] # "run" /\ on[t] = l

\* A writer that waits is not starved by a stream of readers: some writer
\* gets the lock (which one is not promised).
WritersProgress ==
  \A l \in Locks : waitingWriters[l] > 0 ~> writer[l]

=============================================================================
