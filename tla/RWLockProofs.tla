---------------------------- MODULE RWLockProofs ----------------------------
(***************************************************************************)
(* RWLock keeps its promise of exclusion for any finite set of threads and *)
(* any number of locks and nesting levels.                                 *)
(***************************************************************************)
EXTENDS RWLockProps, FiniteSetTheorems, TLAPS

\* TypeOK with the counters as integers; their signs follow from Exclusion.
LooseType ==
  /\ writer         \in [Locks -> BOOLEAN]
  /\ readerCount    \in [Locks -> Int]
  /\ waitingWriters \in [Locks -> Int]
  /\ reading        \in [Threads -> Int]
  /\ pc             \in [Threads -> {"run", "read", "write"}]
  /\ on             \in [Threads -> Locks]
  /\ asleep         \in SUBSET Threads
  /\ held           \in [Threads -> [Locks -> 0..MaxDepth]]
  /\ owner          \in [Locks -> Threads \cup {NoThread}]

\* A caller that waits for the write lock of l holds no read lock of l, and a
\* caller blocked in read_lock can still nest l once more.
Waiting ==
  \A t \in Threads : pc[t] = "read" => held[t][on[t]] < MaxDepth

\* The read locks a thread holds, over all locks, one element per level.
ThreadGrants(t) == {g \in Locks \X (1..MaxDepth) : g[2] <= held[t][g[1]]}

\* The thread-specific is_reader counts exactly those.
Reading == \A t \in Threads : reading[t] = Cardinality(ThreadGrants(t))

IInv == LooseType /\ Waiting /\ Reading /\ Exclusion

\* Facts about the finite sets that are counted.
LEMMA GrantsFinite ==
  /\ \A l : IsFiniteSet(Grants(l)) /\ Cardinality(Grants(l)) \in Nat
  /\ \A t : IsFiniteSet(ThreadGrants(t)) /\ Cardinality(ThreadGrants(t)) \in Nat
  /\ \A l : IsFiniteSet(Writers(l)) /\ Cardinality(Writers(l)) \in Nat
<1>1. IsFiniteSet(1..MaxDepth) /\ IsFiniteSet(Locks)
  BY FS_Interval, BoundsAssumption DEF Locks
<1>2. IsFiniteSet(Threads \X (1..MaxDepth)) /\ IsFiniteSet(Locks \X (1..MaxDepth))
  BY <1>1, FS_Product, ThreadsAssumption
<1>3. ASSUME NEW l PROVE IsFiniteSet(Grants(l)) /\ Cardinality(Grants(l)) \in Nat
  <2>1. Grants(l) \subseteq Threads \X (1..MaxDepth)
    BY DEF Grants
  <2> QED BY <2>1, <1>2, FS_Subset, FS_CardinalityType
<1>4. ASSUME NEW t PROVE IsFiniteSet(ThreadGrants(t)) /\ Cardinality(ThreadGrants(t)) \in Nat
  <2>1. ThreadGrants(t) \subseteq Locks \X (1..MaxDepth)
    BY DEF ThreadGrants
  <2> QED BY <2>1, <1>2, FS_Subset, FS_CardinalityType
<1>5. ASSUME NEW l PROVE IsFiniteSet(Writers(l)) /\ Cardinality(Writers(l)) \in Nat
  <2>1. Writers(l) \subseteq Threads
    BY DEF Writers
  <2> QED BY <2>1, ThreadsAssumption, FS_Subset, FS_CardinalityType
<1> QED BY <1>3, <1>4, <1>5

\* One more read lock is one more element of the sets that are counted.
LEMMA IncGrants ==
  ASSUME LooseType, NEW t \in Threads, NEW l \in Locks, held[t][l] < MaxDepth,
         held' = [held EXCEPT ![t][l] = @ + 1]
  PROVE  /\ Cardinality(Grants(l)') = Cardinality(Grants(l)) + 1
         /\ \A k \in Locks \ {l} : Grants(k)' = Grants(k)
         /\ Cardinality(ThreadGrants(t)') = Cardinality(ThreadGrants(t)) + 1
         /\ \A u \in Threads \ {t} : ThreadGrants(u)' = ThreadGrants(u)
<1> DEFINE n == held[t][l] + 1
<1>0. /\ n \in 1..MaxDepth
      /\ \A u \in Threads, k \in Locks :
           held[u][k] \in Int /\ held'[u][k] = IF u = t /\ k = l THEN n ELSE held[u][k]
  BY BoundsAssumption DEF LooseType
<1>1. Grants(l)' = Grants(l) \cup {<<t, n>>} /\ <<t, n>> \notin Grants(l)
  <2>1. ASSUME NEW g \in Threads \X (1..MaxDepth)
        PROVE  g[2] <= held'[g[1]][l] <=> (g[2] <= held[g[1]][l] \/ g = <<t, n>>)
    <3>1. g[1] \in Threads /\ g[2] \in 1..MaxDepth /\ g = <<g[1], g[2]>>
      OBVIOUS
    <3> QED BY <3>1, <1>0
  <2>2. <<t, n>> \in Threads \X (1..MaxDepth) BY <1>0
  <2> QED BY <2>1, <2>2, <1>0 DEF Grants
<1>2. ThreadGrants(t)' = ThreadGrants(t) \cup {<<l, n>>} /\ <<l, n>> \notin ThreadGrants(t)
  <2>1. ASSUME NEW g \in Locks \X (1..MaxDepth)
        PROVE  g[2] <= held'[t][g[1]] <=> (g[2] <= held[t][g[1]] \/ g = <<l, n>>)
    <3>1. g[1] \in Locks /\ g[2] \in 1..MaxDepth /\ g = <<g[1], g[2]>>
      OBVIOUS
    <3> QED BY <3>1, <1>0
  <2>2. <<l, n>> \in Locks \X (1..MaxDepth) BY <1>0
  <2> QED BY <2>1, <2>2, <1>0 DEF ThreadGrants
<1>3. \A k \in Locks \ {l} : Grants(k)' = Grants(k)
  BY <1>0 DEF Grants
<1>4. \A u \in Threads \ {t} : ThreadGrants(u)' = ThreadGrants(u)
  BY <1>0 DEF ThreadGrants
<1>5. IsFiniteSet(Grants(l)) /\ IsFiniteSet(ThreadGrants(t))
  BY GrantsFinite
<1>6. Cardinality(Grants(l)') = Cardinality(Grants(l)) + 1
  BY <1>1, <1>5, FS_AddElement
<1>7. Cardinality(ThreadGrants(t)') = Cardinality(ThreadGrants(t)) + 1
  BY <1>2, <1>5, FS_AddElement
<1> QED BY <1>3, <1>4, <1>6, <1>7

\* And one read lock less is one element less.
LEMMA DecGrants ==
  ASSUME LooseType, NEW t \in Threads, NEW l \in Locks, held[t][l] > 0,
         held' = [held EXCEPT ![t][l] = @ - 1]
  PROVE  /\ Cardinality(Grants(l)') = Cardinality(Grants(l)) - 1
         /\ \A k \in Locks \ {l} : Grants(k)' = Grants(k)
         /\ Cardinality(ThreadGrants(t)') = Cardinality(ThreadGrants(t)) - 1
         /\ \A u \in Threads \ {t} : ThreadGrants(u)' = ThreadGrants(u)
<1> DEFINE n == held[t][l]
<1>0. /\ n \in 1..MaxDepth
      /\ \A u \in Threads, k \in Locks :
           held[u][k] \in Int /\ held'[u][k] = IF u = t /\ k = l THEN n - 1 ELSE held[u][k]
  BY BoundsAssumption DEF LooseType
<1>1. Grants(l)' = Grants(l) \ {<<t, n>>} /\ <<t, n>> \in Grants(l)
  <2>1. ASSUME NEW g \in Threads \X (1..MaxDepth)
        PROVE  g[2] <= held'[g[1]][l] <=> (g[2] <= held[g[1]][l] /\ g # <<t, n>>)
    <3>1. g[1] \in Threads /\ g[2] \in 1..MaxDepth /\ g = <<g[1], g[2]>>
      OBVIOUS
    <3> QED BY <3>1, <1>0
  <2>2. <<t, n>> \in Threads \X (1..MaxDepth) BY <1>0
  <2> QED BY <2>1, <2>2, <1>0 DEF Grants
<1>2. ThreadGrants(t)' = ThreadGrants(t) \ {<<l, n>>} /\ <<l, n>> \in ThreadGrants(t)
  <2>1. ASSUME NEW g \in Locks \X (1..MaxDepth)
        PROVE  g[2] <= held'[t][g[1]] <=> (g[2] <= held[t][g[1]] /\ g # <<l, n>>)
    <3>1. g[1] \in Locks /\ g[2] \in 1..MaxDepth /\ g = <<g[1], g[2]>>
      OBVIOUS
    <3> QED BY <3>1, <1>0
  <2>2. <<l, n>> \in Locks \X (1..MaxDepth) BY <1>0
  <2> QED BY <2>1, <2>2, <1>0 DEF ThreadGrants
<1>3. \A k \in Locks \ {l} : Grants(k)' = Grants(k)
  BY <1>0 DEF Grants
<1>4. \A u \in Threads \ {t} : ThreadGrants(u)' = ThreadGrants(u)
  BY <1>0 DEF ThreadGrants
<1>5. IsFiniteSet(Grants(l)) /\ IsFiniteSet(ThreadGrants(t))
  BY GrantsFinite
<1>6. Cardinality(Grants(l)') = Cardinality(Grants(l)) - 1
  <2>1. Cardinality(Grants(l) \ {<<t, n>>}) = Cardinality(Grants(l)) - 1
    BY <1>1, <1>5, FS_RemoveElement, Zenon
  <2> QED BY <2>1, <1>1
<1>7. Cardinality(ThreadGrants(t)') = Cardinality(ThreadGrants(t)) - 1
  <2>1. Cardinality(ThreadGrants(t) \ {<<l, n>>}) = Cardinality(ThreadGrants(t)) - 1
    BY <1>2, <1>5, FS_RemoveElement, Zenon
  <2> QED BY <2>1, <1>2
<1> QED BY <1>3, <1>4, <1>6, <1>7

\* Where nothing that is counted changes, nothing else of IInv changes either.
LEMMA SameGrants ==
  held' = held => /\ \A l : Grants(l)' = Grants(l)
                  /\ \A t : ThreadGrants(t)' = ThreadGrants(t)
BY DEF Grants, ThreadGrants

\* A thread that starts (stops) to wait is counted in (out of) waiting_writers.
LEMMA IncWriters ==
  ASSUME LooseType, NEW t \in Threads, NEW l \in Locks, pc[t] # "write",
         pc' = [pc EXCEPT ![t] = "write"], on' = [on EXCEPT ![t] = l]
  PROVE  /\ Cardinality(Writers(l)') = Cardinality(Writers(l)) + 1
         /\ \A k \in Locks \ {l} : Writers(k)' = Writers(k)
<1>1. Writers(l)' = Writers(l) \cup {t} /\ t \notin Writers(l)
  BY DEF Writers, LooseType
<1>2. \A k \in Locks \ {l} : Writers(k)' = Writers(k)
  BY DEF Writers, LooseType
<1>3. IsFiniteSet(Writers(l)) BY GrantsFinite
<1> QED BY <1>1, <1>2, <1>3, FS_AddElement

LEMMA DecWriters ==
  ASSUME LooseType, NEW t \in Threads, NEW l \in Locks,
         pc[t] = "write", on[t] = l, pc' = [pc EXCEPT ![t] = "run"], on' = on
  PROVE  /\ Cardinality(Writers(l)') = Cardinality(Writers(l)) - 1
         /\ \A k \in Locks \ {l} : Writers(k)' = Writers(k)
<1>1. Writers(l)' = Writers(l) \ {t} /\ t \in Writers(l)
  BY DEF Writers, LooseType
<1>2. \A k \in Locks \ {l} : Writers(k)' = Writers(k)
  BY DEF Writers, LooseType
<1>3. IsFiniteSet(Writers(l)) BY GrantsFinite
<1>4. Cardinality(Writers(l) \ {t}) = Cardinality(Writers(l)) - 1
  BY <1>1, <1>3, FS_RemoveElement, Zenon
<1> QED BY <1>1, <1>2, <1>4

LEMMA InitIInv == Init => IInv
<1> SUFFICES ASSUME Init PROVE IInv OBVIOUS
<1>1. LooseType /\ Waiting
  BY BoundsAssumption DEF Init, LooseType, Waiting, Locks
<1>2. \A l \in Locks : Grants(l) = {} /\ Writers(l) = {}
  BY BoundsAssumption DEF Init, Grants, Writers
<1>3. \A t \in Threads : ThreadGrants(t) = {}
  BY BoundsAssumption DEF Init, ThreadGrants
<1>4. Cardinality({}) = 0
  BY FS_EmptySet
<1> QED
  BY <1>1, <1>2, <1>3, <1>4 DEF Init, IInv, Reading, Exclusion

\* Every step of every thread keeps the invariant.
LEMMA NextIInv == IInv /\ [Next]_vars => IInv'
<1> SUFFICES ASSUME IInv, [Next]_vars PROVE IInv' OBVIOUS
<1> USE ThreadsAssumption, BoundsAssumption DEF IInv
<1>0. LooseType /\ Waiting /\ Reading /\ Exclusion OBVIOUS
<1>1. ASSUME NEW t \in Threads, NEW l \in Locks, GetRead(t, l),
             held[t][l] < MaxDepth, ~writer[l], UNCHANGED <<writer, owner, waitingWriters, on>>,
             \A k \in Locks : Writers(k)' = Writers(k),
             asleep' = asleep, pc' = pc \/ pc' = [pc EXCEPT ![t] = "run"],
             pc'[t] = "run"
      PROVE  IInv'
  <2>1. LooseType'
    BY <1>1 DEF LooseType, GetRead
  <2>2. Waiting'
    BY <1>1 DEF Waiting, GetRead, LooseType
  <2>3. /\ Cardinality(Grants(l)') = Cardinality(Grants(l)) + 1
        /\ \A k \in Locks \ {l} : Grants(k)' = Grants(k)
        /\ Cardinality(ThreadGrants(t)') = Cardinality(ThreadGrants(t)) + 1
        /\ \A u \in Threads \ {t} : ThreadGrants(u)' = ThreadGrants(u)
    BY <1>1, IncGrants DEF GetRead
  <2>4. Reading'
    BY <1>1, <2>3 DEF Reading, GetRead, LooseType
  <2>5. Exclusion'
    BY <1>1, <2>3 DEF Exclusion, GetRead, LooseType
  <2> QED BY <2>1, <2>2, <2>4, <2>5
<1>2. ASSUME NEW t \in Threads, NEW l \in Locks, ReadLock(t, l) PROVE IInv'
  <2>1. \A k \in Locks : Writers(k)' = Writers(k)
    BY <1>2 DEF ReadLock, Writers
  <2> QED
    BY <1>2, <1>1, <2>1 DEF ReadLock, MayRead, ReadMustWait, LooseType
<1>3. ASSUME NEW t \in Threads, NEW l \in Locks, ReadLockBlocks(t, l) PROVE IInv'
  <2>1. \A k \in Locks : Writers(k)' = Writers(k)
    BY <1>3 DEF ReadLockBlocks, MayRead, Writers, LooseType
  <2>2. LooseType' /\ Waiting'
    BY <1>3 DEF ReadLockBlocks, MayRead, LooseType, Waiting
  <2>3. Reading' /\ Exclusion'
    BY <1>3, <2>1, SameGrants DEF ReadLockBlocks, Reading, Exclusion
  <2> QED BY <2>2, <2>3
<1>4. ASSUME NEW t \in Threads, NEW l \in Locks, ReadWakes(t, l) PROVE IInv'
  <2>1. \A k \in Locks : Writers(k)' = Writers(k)
    BY <1>4 DEF ReadWakes, Writers, LooseType
  <2>2. CASE writer[l] \/ waitingWriters[l] > 0
    <3>1. LooseType' /\ Waiting'
      BY <1>4, <2>2 DEF ReadWakes, LooseType, Waiting
    <3>2. Reading' /\ Exclusion'
      BY <1>4, <2>1, <2>2, SameGrants DEF ReadWakes, Reading, Exclusion
    <3> QED BY <3>1, <3>2
  <2>3. CASE ~(writer[l] \/ waitingWriters[l] > 0)
    BY <1>1, <1>4, <2>1, <2>3 DEF ReadWakes, LooseType, Waiting
  <2> QED BY <2>2, <2>3
<1>5. ASSUME NEW t \in Threads, NEW l \in Locks, GetWrite(t, l), ~WriteMustWait(l),
             UNCHANGED <<readerCount, reading, on, held, asleep>>,
             pc' = pc \/ pc' = [pc EXCEPT ![t] = "run"],
             waitingWriters' \in [Locks -> Int],
             \A k \in Locks : waitingWriters'[k] = Cardinality(Writers(k)')
      PROVE  IInv'
  <2>1. LooseType' /\ Waiting'
    BY <1>5 DEF LooseType, Waiting, GetWrite
  <2>2. Reading' /\ Exclusion'
    BY <1>5, SameGrants, GrantsFinite
       DEF Reading, Exclusion, GetWrite, WriteMustWait, LooseType
  <2> QED BY <2>1, <2>2
<1>6. ASSUME NEW t \in Threads, NEW l \in Locks, WriteLock(t, l) PROVE IInv'
  <2>1. CASE WriteMustWait(l)
    <3>a. /\ waitingWriters' = [waitingWriters EXCEPT ![l] = @ + 1]
          /\ pc' = [pc EXCEPT ![t] = "write"]
          /\ on' = [on EXCEPT ![t] = l]
          /\ asleep' = asleep \cup {t}
          /\ UNCHANGED <<writer, owner, readerCount, reading, held>>
      BY <1>6, <2>1 DEF WriteLock
    <3>0. LooseType'
      BY <3>a DEF LooseType
    <3>1. Waiting'
      <4>1. \A u \in Threads : pc'[u] = "read" => u # t /\ pc[u] = "read" /\ on'[u] = on[u]
        BY <1>6, <2>1 DEF WriteLock, LooseType
      <4>2. held' = held BY <1>6 DEF WriteLock
      <4> QED BY <4>1, <4>2 DEF Waiting
    <3>2. /\ Cardinality(Writers(l)') = Cardinality(Writers(l)) + 1
          /\ \A k \in Locks \ {l} : Writers(k)' = Writers(k)
      BY <1>6, <2>1, IncWriters DEF WriteLock, MayWrite
    <3>3. Reading' /\ Exclusion'
      BY <1>6, <2>1, <3>2, SameGrants DEF WriteLock, Reading, Exclusion, LooseType
    <3> QED BY <3>0, <3>1, <3>3
  <2>2. CASE ~WriteMustWait(l)
    <3>1. \A k \in Locks : Writers(k)' = Writers(k)
      BY <1>6, <2>2 DEF WriteLock, Writers
    <3> QED BY <1>5, <1>6, <2>2, <3>1 DEF WriteLock, Exclusion, LooseType
  <2> QED BY <2>1, <2>2
<1>7. ASSUME NEW t \in Threads, NEW l \in Locks, WriteWakes(t, l) PROVE IInv'
  <2>1. CASE WriteMustWait(l)
    <3>1. LooseType' /\ Waiting'
      BY <1>7, <2>1 DEF WriteWakes, LooseType, Waiting
    <3>2. \A k \in Locks : Writers(k)' = Writers(k)
      BY <1>7, <2>1 DEF WriteWakes, Writers
    <3>3. Reading' /\ Exclusion'
      BY <1>7, <2>1, <3>2, SameGrants DEF WriteWakes, Reading, Exclusion
    <3> QED BY <3>1, <3>3
  <2>2. CASE ~WriteMustWait(l)
    <3>1. /\ Cardinality(Writers(l)') = Cardinality(Writers(l)) - 1
          /\ \A k \in Locks \ {l} : Writers(k)' = Writers(k)
      BY <1>7, <2>2, DecWriters DEF WriteWakes
    <3>2. \A k \in Locks : waitingWriters'[k] = Cardinality(Writers(k)')
      BY <1>7, <2>2, <3>1 DEF WriteWakes, Exclusion, LooseType
    <3>3. waitingWriters' \in [Locks -> Int]
      BY <1>7, <2>2 DEF WriteWakes, LooseType
    <3> QED BY <1>5, <1>7, <2>2, <3>2, <3>3 DEF WriteWakes
  <2> QED BY <2>1, <2>2
<1>8. ASSUME NEW t \in Threads, NEW l \in Locks, TryWriteLock(t, l) PROVE IInv'
  <2>1. \A k \in Locks : Writers(k)' = Writers(k)
    BY <1>8 DEF TryWriteLock, Writers
  <2> QED BY <1>5, <1>8, <2>1 DEF TryWriteLock, WriteMustWait, Exclusion, LooseType
<1>9. ASSUME NEW t \in Threads, NEW l \in Locks, Unlock(t, l) PROVE IInv'
  <2>1. asleep' \in SUBSET Threads
    <3>1. \E c : WakeUp(l, c) BY <1>9 DEF Unlock
    <3> QED BY <3>1 DEF WakeUp, LooseType
  <2>2. \A k \in Locks : Writers(k)' = Writers(k)
    BY <1>9 DEF Unlock, Writers
  <2>3. CASE writer[l]
    <3>1. LooseType' /\ Waiting'
      BY <1>9, <2>1, <2>3 DEF Unlock, LooseType, Waiting
    <3>2. Reading' /\ Exclusion'
      BY <1>9, <2>2, <2>3, SameGrants DEF Unlock, Reading, Exclusion, LooseType
    <3> QED BY <3>1, <3>2
  <2>4. CASE ~writer[l]
    <3>0. held[t][l] > 0
      BY <1>9, <2>4 DEF Unlock, Holds, Exclusion, LooseType
    <3>1. /\ readerCount' = [readerCount EXCEPT ![l] = @ - 1]
          /\ reading'     = [reading EXCEPT ![t] = @ - 1]
          /\ held'        = [held EXCEPT ![t][l] = @ - 1]
          /\ UNCHANGED <<writer, owner, waitingWriters, pc, on>>
      BY <1>9, <2>4 DEF Unlock
    <3>2. \A u \in Threads, k \in Locks : held'[u][k] \in 0..MaxDepth /\ held'[u][k] <= held[u][k]
      BY <3>0, <3>1 DEF LooseType
    <3>3. held' \in [Threads -> [Locks -> 0..MaxDepth]]
      BY <3>0, <3>1 DEF LooseType
    <3>4. LooseType'
      BY <2>1, <3>1, <3>3 DEF LooseType
    <3>5. Waiting'
      BY <3>1, <3>2, <3>3 DEF LooseType, Waiting
    <3>6. /\ Cardinality(Grants(l)') = Cardinality(Grants(l)) - 1
          /\ \A k \in Locks \ {l} : Grants(k)' = Grants(k)
          /\ Cardinality(ThreadGrants(t)') = Cardinality(ThreadGrants(t)) - 1
          /\ \A u \in Threads \ {t} : ThreadGrants(u)' = ThreadGrants(u)
      BY <3>0, <3>1, DecGrants
    <3>7. Reading'
      BY <3>1, <3>6 DEF Reading, LooseType
    <3>8. Exclusion'
      BY <2>2, <2>4, <3>1, <3>6 DEF Exclusion, LooseType
    <3> QED BY <3>4, <3>5, <3>7, <3>8
  <2> QED BY <2>3, <2>4
<1>10. CASE UNCHANGED vars
  <2>1. \A k \in Locks : Writers(k)' = Writers(k)
    BY <1>10 DEF vars, Writers
  <2> QED
    BY <1>10, <2>1, SameGrants DEF vars, LooseType, Waiting, Reading, Exclusion
<1> QED
  BY <1>2, <1>3, <1>4, <1>6, <1>7, <1>8, <1>9, <1>10 DEF Next, Step

\* The counters never go negative, and the lock is exclusive for a writer.
THEOREM ExclusionTheorem == Spec => []Exclusion
<1>1. IInv => Exclusion BY DEF IInv
<1> QED BY <1>1, InitIInv, NextIInv, PTL DEF Spec

\* Type correctness, with the counters as natural numbers.
THEOREM TypeTheorem == Spec => []TypeOK
<1>1. IInv => TypeOK
  <2> SUFFICES ASSUME IInv PROVE TypeOK OBVIOUS
  <2>1. /\ readerCount \in [Locks -> Nat] /\ waitingWriters \in [Locks -> Nat]
        /\ reading \in [Threads -> Nat]
    BY GrantsFinite DEF IInv, LooseType, Exclusion, Reading
  <2> QED BY <2>1 DEF IInv, LooseType, TypeOK
<1> QED BY <1>1, InitIInv, NextIInv, PTL DEF Spec

-----------------------------------------------------------------------------
\* Why no wakeup is lost.  Whoever sleeps is in read_lock or write_lock; while nobody
\* has the lock, one of the writers that wait for it is awake, and readers sleep only
\* behind such a writer.
Awake(l) == \E t \in Threads \ asleep : pc[t] = "write" /\ on[t] = l
Unheld(l) == ~writer[l] /\ readerCount[l] = 0
WakeInv ==
  /\ \A t \in asleep : pc[t] # "run"
  /\ \A l \in Locks :
       /\ Unheld(l) /\ waitingWriters[l] > 0 => Awake(l)
       /\ Unheld(l) /\ waitingWriters[l] = 0 => Sleeping("read", l) = {}

\* The counters are natural numbers, and waiting_writers tells whether a writer waits.
LEMMA Counters ==
  ASSUME IInv, NEW l \in Locks
  PROVE  /\ readerCount[l] \in Nat /\ waitingWriters[l] \in Nat
         /\ waitingWriters[l] = 0 <=> Writers(l) = {}
<1>1. IsFiniteSet(Writers(l)) /\ Cardinality(Writers(l)) \in Nat /\ Cardinality(Grants(l)) \in Nat
  BY GrantsFinite
<1>2. Cardinality(Writers(l)) = 0 <=> Writers(l) = {}
  BY <1>1, FS_EmptySet
<1> QED BY <1>1, <1>2 DEF IInv, Exclusion

\* What is said about a lock that a step does not touch, and about its sleepers.
LEMMA OtherLock ==
  ASSUME IInv, IInv', WakeInv, NEW t \in Threads, NEW l \in Locks, Step(t, l),
         NEW k \in Locks, k # l
  PROVE  /\ Unheld(k)' /\ waitingWriters'[k] > 0 => Awake(k)'
         /\ Unheld(k)' /\ waitingWriters'[k] = 0 => Sleeping("read", k)' = {}
<1>1. /\ writer'[k] = writer[k] /\ readerCount'[k] = readerCount[k]
      /\ waitingWriters'[k] = waitingWriters[k]
  BY DEF IInv, LooseType, Step, ReadLock, ReadLockBlocks, ReadWakes, WriteLock, WriteWakes,
         TryWriteLock, Unlock, GetRead, GetWrite
<1>2. /\ \A u \in Threads \ {t} : pc'[u] = pc[u] /\ on'[u] = on[u]
      /\ pc'[t] # "run" => on'[t] = l
      /\ pc[t] # "run" => on[t] = l
  BY DEF IInv, LooseType, Step, ReadLock, ReadLockBlocks, ReadWakes, WriteLock, WriteWakes,
         TryWriteLock, Unlock, MayRead, MayWrite
<1>3. \A u \in Threads \ {t} : pc[u] # "run" /\ on[u] = k => (u \in asleep' <=> u \in asleep)
  <2>1. CASE Unlock(t, l)
    <3>1. PICK c : WakeUp(l, c)
      BY <2>1 DEF Unlock
    <3> QED BY <3>1 DEF WakeUp, Sleeping
  <2>2. CASE ~Unlock(t, l)
    BY <2>2 DEF IInv, LooseType, Step, ReadLock, ReadLockBlocks, ReadWakes, WriteLock, WriteWakes,
         TryWriteLock
  <2> QED BY <2>1, <2>2
<1>4. Awake(k) => Awake(k)'
  BY <1>2, <1>3 DEF Awake, IInv, LooseType
<1>5. Sleeping("read", k)' \subseteq Sleeping("read", k)
  BY <1>2, <1>3 DEF Sleeping, IInv, LooseType
<1>6. Unheld(k)' <=> Unheld(k)
  BY <1>1 DEF Unheld
<1> QED BY <1>1, <1>4, <1>5, <1>6 DEF WakeInv

\* Every step of every thread keeps WakeInv.
LEMMA NextWakeInv == IInv /\ WakeInv /\ [Next]_vars => WakeInv'
<1> SUFFICES ASSUME IInv, WakeInv, [Next]_vars PROVE WakeInv'
  OBVIOUS
<1>0. IInv'
  BY NextIInv
<1>1. CASE UNCHANGED vars
  BY <1>1 DEF vars, WakeInv, Unheld, Awake, Sleeping
<1>2. ASSUME NEW t \in Threads, NEW l \in Locks, Step(t, l)
      PROVE  /\ \A u \in asleep' : pc'[u] # "run"
             /\ Unheld(l)' /\ waitingWriters'[l] > 0 => Awake(l)'
             /\ Unheld(l)' /\ waitingWriters'[l] = 0 => Sleeping("read", l)' = {}
  <2>0. /\ LooseType /\ readerCount[l] \in Nat /\ waitingWriters[l] \in Nat
        /\ (waitingWriters[l] = 0 <=> Writers(l) = {})
    BY Counters DEF IInv
  <2>1. CASE ReadLock(t, l)
    BY <2>0, <2>1 DEF ReadLock, GetRead, Unheld, WakeInv, LooseType
  <2>2. CASE ReadLockBlocks(t, l)
    BY <2>0, <2>2 DEF ReadLockBlocks, ReadMustWait, MayRead, Unheld, WakeInv, Awake, LooseType
  <2>3. CASE ReadWakes(t, l)
    BY <2>0, <2>3 DEF ReadWakes, GetRead, Unheld, WakeInv, Awake, LooseType
  <2>4. CASE WriteLock(t, l)
    BY <2>0, <2>4 DEF WriteLock, WriteMustWait, MayWrite, GetWrite, Unheld, WakeInv, LooseType
  <2>5. CASE WriteWakes(t, l)
    BY <2>0, <2>5 DEF WriteWakes, WriteMustWait, GetWrite, Unheld, WakeInv, LooseType
  <2>6. CASE TryWriteLock(t, l)
    BY <2>0, <2>6 DEF TryWriteLock, GetWrite, Unheld, WakeInv, LooseType
  <2>7. CASE Unlock(t, l)
    <3>1. PICK c \in Int : /\ WakeUp(l, c) /\ c = readerCount'[l]
                           /\ UNCHANGED <<waitingWriters, pc, on>>
      BY <2>0, <2>7 DEF Unlock, LooseType
    <3>2. asleep' \subseteq asleep
      BY <3>1 DEF WakeUp
    <3>3. ASSUME c = 0, waitingWriters[l] > 0 PROVE Awake(l)'
      <4>1. CASE Sleeping("write", l) = {}
        <5>1. PICK w \in Threads : pc[w] = "write" /\ on[w] = l
          BY <2>0, <3>3 DEF Writers
        <5> QED BY <3>1, <3>2, <4>1, <5>1 DEF Sleeping, Awake
      <4>2. CASE Sleeping("write", l) # {}
        <5>1. PICK w \in Sleeping("write", l) : asleep' = asleep \ {w}
          BY <3>1, <3>3, <4>2 DEF WakeUp
        <5> QED BY <2>0, <3>1, <5>1 DEF Sleeping, Awake, LooseType
      <4> QED BY <4>1, <4>2
    <3>4. ASSUME c = 0, waitingWriters[l] = 0 PROVE Sleeping("read", l)' = {}
      BY <2>0, <3>1, <3>4 DEF WakeUp, Sleeping
    <3> QED BY <3>1, <3>2, <3>3, <3>4 DEF Unheld, WakeInv
  <2> QED BY <1>2, <2>1, <2>2, <2>3, <2>4, <2>5, <2>6, <2>7 DEF Step
<1>3. CASE Next
  <2>1. PICK t \in Threads, l \in Locks : Step(t, l)
    BY <1>3 DEF Next
  <2> QED BY <1>0, <1>2, <2>1, OtherLock DEF WakeInv
<1> QED BY <1>1, <1>3

\* No wakeup is lost between signal, broadcast and the threads that get in first.
THEOREM NoWakeupLost == Spec => []NoLostWakeup
<1>1. Init => IInv /\ WakeInv
  <2>1. Init => WakeInv
    BY DEF Init, WakeInv, Unheld, Sleeping
  <2> QED BY <2>1, InitIInv
<1>2. IInv /\ WakeInv /\ [Next]_vars => IInv' /\ WakeInv'
  BY NextIInv, NextWakeInv
<1>3. IInv /\ WakeInv => NoLostWakeup
  <2> SUFFICES ASSUME IInv, WakeInv, NEW l \in Locks, NEW t \in asleep, on[t] = l,
                      ~writer[l], ~(readerCount[l] > 0)
               PROVE  \E u \in Threads \ asleep : pc[u] # "run" /\ on[u] = l
    BY DEF NoLostWakeup
  <2>1. LooseType /\ Unheld(l) /\ waitingWriters[l] \in Nat
    BY Counters DEF Unheld, IInv
  <2>2. waitingWriters[l] # 0
    <3>1. pc[t] = "read" \/ t \in Writers(l)
      BY <2>1 DEF WakeInv, LooseType, Writers
    <3> QED BY <2>1, <3>1, Counters DEF WakeInv, Sleeping
  <2> QED BY <2>1, <2>2 DEF WakeInv, Awake
<1> QED BY <1>1, <1>2, <1>3, PTL DEF Spec
=============================================================================
