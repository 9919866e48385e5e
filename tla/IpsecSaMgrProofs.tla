-------------------------- MODULE IpsecSaMgrProofs --------------------------
(***************************************************************************)
(* The SA database of libipsec for any number of threads, addresses, SPIs  *)
(* and SAs: its entries are sound, an SA has one user, no wakeup is lost,  *)
(* expiry is exact and a flush is complete.                                *)
(***************************************************************************)
EXTENDS IpsecSaMgrProps, FiniteSetTheorems, SequenceTheorems, TLAPS

-----------------------------------------------------------------------------
(* The inductive invariant *)

Pcs == {"idle", "use", "wait", "drain", "free", "flush"}
ThreadStates == [pc : Pcs, op : {"none", "checkout", "query", "del", "expire", "flush"},
                 at : Addrs \cup {None}, id : 0..MaxSas, awake : BOOLEAN, goal : 0..MaxSas]
Entries == [id : 0..MaxSas, spi : Spis \cup {None}, inbound : BOOLEAN, life : Lifetimes,
            locked : BOOLEAN, awaits : BOOLEAN, waiting : Nat]

Waiters(a) == {t \in Threads : thread[t].pc = "wait" /\ thread[t].at = a}

\* The types, without the bound on waiting, which is a matter of counting.
LooseType ==
    /\ scene \in Scenarios
    /\ sas \in Seq(Addrs) /\ IsInjective(sas)
    /\ entry \in [Addrs -> Entries]
    /\ allocated \subseteq Spis
    /\ jobs \subseteq [at : Addrs, spi : Spis, id : 1..MaxSas, hard : BOOLEAN]
    /\ thread \in [Threads -> ThreadStates]
    /\ mutex \in Threads \cup {None}
    /\ added \in 0..MaxSas

\* An entry is freed or has the name of an SA that was installed; the list has
\* those that are not freed, except the ones del_sa is about to free.
Listed ==
    /\ \A a \in Addrs : entry[a] # Free => entry[a].id \in 1..added
    /\ \A a \in Addrs : entry[a] # Free <=>
          a \in Installed \/ \E t \in Threads : thread[t].pc = "free" /\ thread[t].at = a

\* What a thread at a given place stands on, and who has the mutex.
Places ==
    /\ \A t \in Threads :
          /\ thread[t].pc \in {"use", "wait", "drain"} => thread[t].at \in Installed
          /\ thread[t].pc = "free" => thread[t].at \in Addrs \ Installed
          /\ thread[t].pc = "wait" => thread[t].op \in {"checkout", "query"}
          /\ thread[t].pc = "drain" => thread[t].op \in {"del", "expire", "flush"}
          /\ thread[t].pc = "flush" => /\ thread[t].op = "flush" /\ mutex = t
                                       /\ thread[t].at \in Installed \cup {None}
    /\ mutex # None => thread[mutex].pc = "flush"

\* An entry is locked exactly while a thread uses its SA, and only one does.
Locked ==
    /\ \A t \in Threads : thread[t].pc = "use" => entry[thread[t].at].locked
    /\ \A a \in Addrs : entry[a].locked =>
          \E t \in Threads : thread[t].pc = "use" /\ thread[t].at = a
    /\ \A t, u \in Threads :
          thread[t].pc = "use" /\ thread[u].pc = "use" /\ thread[t].at = thread[u].at => t = u

\* One thread removes an entry, which awaits its deletion meanwhile.
Removal ==
    /\ \A t \in Threads : thread[t].pc = "drain" => entry[thread[t].at].awaits
    /\ \A t, u \in Threads :
          /\ thread[t].pc \in {"drain", "free"} /\ thread[u].pc \in {"drain", "free"}
          /\ thread[t].at = thread[u].at
          => t = u

\* The entry counts the threads in wait_for_entry.
Counted == \A a \in Addrs : entry[a].waiting = Cardinality(Waiters(a))

DatabaseInv == /\ LooseType /\ Listed /\ Places /\ Locked /\ Removal /\ Counted
               /\ EntriesStay /\ NoLostWakeup

\* The jobs are those of the SAs, found by address and SPI.
ExpiryInv ==
    /\ OwnExpiry
    /\ \A a \in Installed : entry[a].life # "none" /\ ~entry[a].awaits =>
          \E j \in jobs : j.at = a /\ j.id = entry[a].id /\ Hits(j)

-----------------------------------------------------------------------------
(* The list *)

\* An entry taken out of a list without repetition.
LEMMA RemoveAtList ==
    ASSUME NEW S, NEW s \in Seq(S), NEW i \in 1..Len(s), IsInjective(s)
    PROVE  /\ RemoveAt(s, i) \in Seq(S) /\ IsInjective(RemoveAt(s, i))
           /\ Len(RemoveAt(s, i)) = Len(s) - 1
           /\ \A k \in 1..(Len(s) - 1) : RemoveAt(s, i)[k] = IF k < i THEN s[k] ELSE s[k + 1]
           /\ Range(RemoveAt(s, i)) = Range(s) \ {s[i]}
  <1> DEFINE x == SubSeq(s, 1, i - 1)
             y == SubSeq(s, i + 1, Len(s))
             r == RemoveAt(s, i)
  <1>1. x \in Seq(S) /\ Len(x) = i - 1 /\ \A k \in 1..(i - 1) : x[k] = s[k]
    <2>1. \A k \in 1..(i - 1) : s[k] \in S
      OBVIOUS
    <2> QED BY <2>1, SubSeqProperties
  <1>2. y \in Seq(S) /\ Len(y) = Len(s) - i /\ \A k \in 1..(Len(s) - i) : y[k] = s[i + k]
    <2>1. \A k \in (i + 1)..Len(s) : s[k] \in S
      OBVIOUS
    <2> QED BY <2>1, SubSeqProperties
  <1>3. /\ r \in Seq(S) /\ Len(r) = Len(s) - 1
        /\ \A k \in 1..(Len(s) - 1) : r[k] = IF k < i THEN s[k] ELSE s[k + 1]
    <2>1. r = x \o y
      BY DEF RemoveAt
    <2> HIDE DEF x, y, r
    <2>2. r \in Seq(S) /\ Len(r) = Len(s) - 1
      BY <1>1, <1>2, <2>1
    <2>3. ASSUME NEW k \in 1..(Len(s) - 1)
          PROVE  r[k] = IF k < i THEN s[k] ELSE s[k + 1]
      <3>1. CASE k < i
        BY <1>1, <1>2, <2>1, <3>1
      <3>2. CASE k >= i
        <4>1. r[k] = y[k - (i - 1)] /\ k - (i - 1) \in 1..(Len(s) - i) /\ i + (k - (i - 1)) = k + 1
          BY <1>1, <1>2, <2>1, <3>2
        <4> QED BY <1>2, <3>2, <4>1
      <3> QED BY <3>1, <3>2
    <2> QED BY <2>2, <2>3
  <1> HIDE DEF r
  <1>4. IsInjective(r)
    BY <1>3, SMTT(30) DEF IsInjective
  <1>5. ASSUME NEW e PROVE e \in Range(r) <=> e \in Range(s) \ {s[i]}
    <2>1. e \in Range(r) => e \in Range(s) \ {s[i]}
      BY <1>3 DEF IsInjective, Range
    <2>2. ASSUME NEW k \in 1..Len(s), k # i PROVE s[k] \in Range(r)
      <3>1. CASE k < i
        BY <1>3, <3>1 DEF Range
      <3>2. CASE k > i
        <4>1. k - 1 \in 1..Len(r) /\ r[k - 1] = s[k]
          BY <1>3, <3>2
        <4> QED BY <1>3, <4>1 DEF Range
      <3> QED BY <3>1, <3>2, <2>2
    <2> QED BY <2>1, <2>2 DEF Range
  <1> QED BY <1>3, <1>4, <1>5 DEF r

\* The position of a listed entry is one where it stands.
LEMMA PositionListed ==
    ASSUME sas \in Seq(Addrs), NEW a \in Installed
    PROVE  Position(a) \in 1..Len(sas) /\ sas[Position(a)] = a
  <1>1. \E i \in DOMAIN sas : sas[i] = a
    BY DEF Installed, Range
  <1> QED BY <1>1 DEF Position

\* remove_at: the entry is off the list, the others stay.
LEMMA WithoutList ==
    ASSUME sas \in Seq(Addrs), IsInjective(sas), NEW a \in Installed
    PROVE  /\ Without(a) \in Seq(Addrs) /\ IsInjective(Without(a))
           /\ Range(Without(a)) = Installed \ {a}
  <1>1. Position(a) \in 1..Len(sas) /\ sas[Position(a)] = a
    BY PositionListed
  <1>2. PICK i \in 1..Len(sas) : i = Position(a) /\ sas[i] = a
    BY <1>1
  <1>3. /\ RemoveAt(sas, i) \in Seq(Addrs) /\ IsInjective(RemoveAt(sas, i))
        /\ Range(RemoveAt(sas, i)) = Range(sas) \ {sas[i]}
    BY RemoveAtList
  <1> QED BY <1>2, <1>3 DEF Without, Installed

\* insert_first: the new entry is on the list, once.
LEMMA FrontList ==
    ASSUME sas \in Seq(Addrs), IsInjective(sas), NEW a \in Addrs, a \notin Installed
    PROVE  /\ <<a>> \o sas \in Seq(Addrs) /\ IsInjective(<<a>> \o sas)
           /\ Range(<<a>> \o sas) = Installed \cup {a}
  <1> DEFINE r == <<a>> \o sas
  <1>1. /\ r \in Seq(Addrs) /\ Len(r) = Len(sas) + 1 /\ r[1] = a
        /\ \A k \in 1..Len(sas) : r[k + 1] = sas[k]
    OBVIOUS
  <1>2. \A k \in 2..Len(r) : k - 1 \in 1..Len(sas) /\ r[k] = sas[k - 1]
    <2> TAKE k \in 2..Len(r)
    <2>1. k - 1 \in 1..Len(sas) /\ (k - 1) + 1 = k
      BY <1>1
    <2> QED BY <1>1, <2>1
  <1> HIDE DEF r
  <1>3. IsInjective(r)
    <2>1. \A k \in 2..Len(r) : r[k] # a
      BY <1>2 DEF Installed, Range
    <2>2. \A j, k \in 2..Len(r) : r[j] = r[k] => j = k
      <3> SUFFICES ASSUME NEW j \in 2..Len(r), NEW k \in 2..Len(r), r[j] = r[k] PROVE j = k
        OBVIOUS
      <3>1. j - 1 = k - 1
        BY <1>2 DEF IsInjective
      <3> QED BY <1>1, <3>1
    <2> QED BY <1>1, <2>1, <2>2 DEF IsInjective
  <1>4. \A k \in 1..Len(sas) : k + 1 \in 1..Len(r)
    BY <1>1
  <1>5. Range(r) = Installed \cup {a}
    <2>1. ASSUME NEW e \in Range(r) PROVE e \in Installed \cup {a}
      BY <1>1, <1>2, <2>1, SMTT(30) DEF Installed, Range
    <2>2. ASSUME NEW e \in Installed PROVE e \in Range(r)
      BY <1>1, <1>4 DEF Installed, Range
    <2>3. a \in Range(r)
      BY <1>1 DEF Range
    <2> QED BY <2>1, <2>2, <2>3
  <1> QED BY <1>1, <1>3, <1>5 DEF r

-----------------------------------------------------------------------------
(* Condvars *)

\* N is T with some more threads woken.
Woken(N, T) ==
    /\ N \in [Threads -> ThreadStates]
    /\ \A u \in Threads :
          /\ N[u].pc = T[u].pc /\ N[u].op = T[u].op /\ N[u].at = T[u].at
          /\ N[u].id = T[u].id /\ N[u].goal = T[u].goal
          /\ T[u].awake => N[u].awake

\* What waking threads does.
LEMMA WakeEffect ==
    ASSUME NEW T \in [Threads -> ThreadStates], NEW S
    PROVE  Woken(Wake(T, S), T) /\ \A u \in Threads : u \in S => Wake(T, S)[u].awake
  BY DEF Wake, Woken, ThreadStates

\* Somebody who sleeps on the entry or removes it is awake.
SomeAwake(T, a) == \E u \in Threads : T[u].pc \in {"wait", "drain"} /\ T[u].at = a /\ T[u].awake

\* signal() wakes one of those that sleep on the condvar, if there are any.
LEMMA SignalEffect ==
    ASSUME NEW T \in [Threads -> ThreadStates], NEW a, NEW N \in Signal(T, a)
    PROVE  Woken(N, T) /\ (Asleep(T, a) # {} => SomeAwake(N, a))
  <1>1. CASE Asleep(T, a) = {}
    BY <1>1 DEF Signal, Woken
  <1>2. CASE Asleep(T, a) # {}
    <2>1. PICK u \in Asleep(T, a) : N = Wake(T, {u})
      BY <1>2 DEF Signal
    <2>2. u \in Threads /\ T[u].pc \in {"wait", "drain"} /\ T[u].at = a
      BY DEF Asleep
    <2>3. Woken(N, T) /\ N[u].awake
      BY <2>1, <2>2, WakeEffect
    <2> QED BY <2>2, <2>3 DEF Woken, SomeAwake
  <1> QED BY <1>1, <1>2

-----------------------------------------------------------------------------
(* Steps of one thread *)

\* The thread t gets to the place p with operation o at entry a, known as i; the
\* others stay where they are, some may be woken.
Moved(t, p, o, a, i) ==
    /\ thread' \in [Threads -> ThreadStates]
    /\ thread'[t].pc = p /\ thread'[t].op = o /\ thread'[t].at = a /\ thread'[t].id = i
    /\ \A u \in Threads \ {t} :
          /\ thread'[u].pc = thread[u].pc /\ thread'[u].op = thread[u].op
          /\ thread'[u].at = thread[u].at /\ thread'[u].id = thread[u].id
          /\ thread'[u].goal = thread[u].goal
          /\ thread[u].awake => thread'[u].awake

\* The entry at a has at most its flags and its count changed.
Marked(a) ==
    /\ entry' \in [Addrs -> Entries]
    /\ \A b \in Addrs \ {a} : entry'[b] = entry[b]
    /\ entry'[a].id = entry[a].id /\ entry'[a].spi = entry[a].spi
    /\ entry'[a].inbound = entry[a].inbound /\ entry'[a].life = entry[a].life

\* The threads that wait for an entry are finitely many.
LEMMA WaitersFinite ==
    ASSUME NEW a
    PROVE  /\ IsFiniteSet(Waiters(a)) /\ Cardinality(Waiters(a)) \in Nat
           /\ Cardinality(Waiters(a)) <= Cardinality(Threads)
           /\ Waiters(a) = {} <=> Cardinality(Waiters(a)) = 0
  <1>1. Waiters(a) \subseteq Threads /\ IsFiniteSet(Threads)
    BY IpsecConstants DEF Waiters
  <1>2. IsFiniteSet(Waiters(a)) /\ Cardinality(Waiters(a)) <= Cardinality(Threads)
    BY <1>1, FS_Subset
  <1> QED BY <1>2, FS_CardinalityType, FS_EmptySet

\* How a step of one thread changes the threads that wait for an entry.
LEMMA WaitersMoved ==
    ASSUME NEW t \in Threads, NEW p, NEW o, NEW a, NEW i, Moved(t, p, o, a, i), NEW b
    PROVE  Waiters(b)' = IF p = "wait" /\ a = b THEN Waiters(b) \cup {t} ELSE Waiters(b) \ {t}
  BY DEF Moved, Waiters

\* The count that goes with it.
LEMMA WaitersCounted ==
    ASSUME NEW t \in Threads, NEW p, NEW o, NEW a, NEW i, Moved(t, p, o, a, i), NEW b
    PROVE  Cardinality(Waiters(b)') = Cardinality(Waiters(b))
             + (IF p = "wait" /\ a = b THEN 1 ELSE 0) - (IF t \in Waiters(b) THEN 1 ELSE 0)
  <1>1. Waiters(b)' = IF p = "wait" /\ a = b THEN Waiters(b) \cup {t} ELSE Waiters(b) \ {t}
    BY WaitersMoved
  <1>2. IsFiniteSet(Waiters(b)) /\ Cardinality(Waiters(b)) \in Nat
    BY WaitersFinite
  <1>3. Cardinality(Waiters(b) \cup {t})
          = Cardinality(Waiters(b)) + IF t \in Waiters(b) THEN 0 ELSE 1
    <2>1. CASE t \in Waiters(b)
      <3>1. Waiters(b) \cup {t} = Waiters(b)
        BY <2>1
      <3>2. Cardinality(Waiters(b) \cup {t}) = Cardinality(Waiters(b))
        BY <3>1, Zenon
      <3> QED BY <1>2, <2>1, <3>2
    <2>2. CASE t \notin Waiters(b)
      BY <1>2, <2>2, FS_AddElement
    <2> QED BY <2>1, <2>2
  <1>4. Cardinality(Waiters(b) \ {t})
          = Cardinality(Waiters(b)) - IF t \in Waiters(b) THEN 1 ELSE 0
    <2>1. CASE t \in Waiters(b)
      BY <1>2, <2>1, FS_RemoveElement
    <2>2. CASE t \notin Waiters(b)
      <3>1. Waiters(b) \ {t} = Waiters(b)
        BY <2>2
      <3>2. Cardinality(Waiters(b) \ {t}) = Cardinality(Waiters(b))
        BY <3>1, Zenon
      <3> QED BY <1>2, <2>2, <3>2
    <2> QED BY <2>1, <2>2
  <1> QED BY <1>1, <1>2, <1>3, <1>4

\* wait_for_entry and checkin: a thread comes to wait for an entry or to use it, or
\* is done with it, and the flags and the count of the entry change accordingly.
LEMMA UseStep ==
    ASSUME DatabaseInv, NEW t \in Threads, NEW a \in Installed,
           thread[t].pc = "idle" \/ (thread[t].pc \in {"wait", "use"} /\ thread[t].at = a),
           NEW p \in {"idle", "wait", "use"}, NEW o, NEW b, NEW i, Moved(t, p, o, b, i),
           p # "idle" => b = a /\ i = entry[a].id,
           p = "wait" => o \in {"checkout", "query"},
           p = "use" => ~entry[a].locked,
           Marked(a), entry'[a].awaits = entry[a].awaits,
           entry'[a].locked <=> p = "use" \/ (entry[a].locked /\ thread[t].pc # "use"),
           entry'[a].waiting = entry[a].waiting + (IF p = "wait" THEN 1 ELSE 0)
                                                - (IF thread[t].pc = "wait" THEN 1 ELSE 0),
           ~entry'[a].locked /\ Asleep(thread', a) # {} => SomeAwake(thread', a),
           UNCHANGED <<scene, sas, allocated, jobs, mutex, added>>
    PROVE  DatabaseInv'
  <1> USE DEF DatabaseInv
  <1>0. /\ thread \in [Threads -> ThreadStates] /\ entry \in [Addrs -> Entries]
        /\ a \in Addrs /\ Installed \subseteq Addrs /\ Installed' = Installed
        /\ mutex \in Threads \cup {None} /\ mutex' = mutex
        /\ None \notin Addrs
    BY IpsecConstants DEF LooseType, Installed, Range
  <1>1. LooseType'
    BY DEF LooseType, Moved, Marked
  <1>2. entry[a].id # 0 /\ entry[a] # Free /\ entry'[a] # Free
    BY <1>0 DEF Listed, Marked, Free, LooseType
  <1>3. Listed'
    BY <1>0, <1>2 DEF Listed, Moved, Marked
  <1>4. Places'
    BY <1>0 DEF Places, Moved
  <1>5. Locked'
    BY <1>0 DEF Locked, Moved, Marked, Places
  <1>6. Removal'
    BY <1>0 DEF Removal, Moved, Marked, Places
  <1>7. Counted'
    <2> SUFFICES ASSUME NEW c \in Addrs PROVE entry'[c].waiting = Cardinality(Waiters(c)')
      BY DEF Counted
    <2>1. Cardinality(Waiters(c)') = Cardinality(Waiters(c))
             + (IF p = "wait" /\ b = c THEN 1 ELSE 0) - (IF t \in Waiters(c) THEN 1 ELSE 0)
      BY WaitersCounted
    <2>2. t \in Waiters(c) <=> thread[t].pc = "wait" /\ c = a
      BY DEF Waiters
    <2>3. entry[c].waiting = Cardinality(Waiters(c)) /\ Cardinality(Waiters(c)) \in Nat
      BY WaitersFinite DEF Counted
    <2>4. CASE c = a
      BY <2>1, <2>2, <2>3, <2>4 DEF Marked
    <2>5. CASE c # a
      BY <2>1, <2>2, <2>3, <2>5 DEF Marked
    <2> QED BY <2>4, <2>5
  <1>8. EntriesStay'
    BY <1>0, <1>2 DEF EntriesStay, Moved, Marked, Places
  <1>9. NoLostWakeup'
    BY <1>0 DEF NoLostWakeup, Moved, Marked, Asleep, SomeAwake
  <1> QED BY <1>1, <1>3, <1>4, <1>5, <1>6, <1>7, <1>8, <1>9

\* The states threads are put into.
LEMMA IdleType == Idle \in ThreadStates
  BY IpsecConstants DEF Idle, ThreadStates, Pcs

\* The state of a thread that works on an entry.
LEMMA StateType ==
    ASSUME LooseType, NEW t \in Threads, NEW p \in Pcs, NEW a \in Addrs,
           NEW o \in {"none", "checkout", "query", "del", "expire", "flush"}
    PROVE  /\ State(t, p, o, a) \in ThreadStates
           /\ State(t, p, o, a).pc = p /\ State(t, p, o, a).op = o
           /\ State(t, p, o, a).at = a /\ State(t, p, o, a).id = entry[a].id
           /\ State(t, p, o, a).goal = thread[t].goal
  <1>1. PICK x \in ThreadStates, n \in 0..MaxSas : x = thread[t] /\ n = entry[a].id
    BY DEF LooseType, Entries
  <1>2. PICK y : y = [x EXCEPT !.pc = p, !.op = o, !.at = a, !.id = n, !.awake = FALSE]
    OBVIOUS
  <1>3. /\ y \in ThreadStates /\ y.pc = p /\ y.op = o /\ y.at = a /\ y.id = n
        /\ y.goal = x.goal
    BY <1>2 DEF ThreadStates
  <1>4. y = State(t, p, o, a)
    BY <1>1, <1>2 DEF State
  <1> QED BY <1>1, <1>3, <1>4

\* A thread changes its state and nobody is signalled.
LEMMA MovedWith ==
    ASSUME LooseType, NEW t \in Threads, NEW st \in ThreadStates, thread' = With(t, st)
    PROVE  Moved(t, st.pc, st.op, st.at, st.id)
  BY DEF LooseType, With, Moved

\* A thread changes its state and signals.
LEMMA MovedSignal ==
    ASSUME LooseType, NEW t \in Threads, NEW st \in ThreadStates, NEW a,
           thread' \in Signal(With(t, st), a)
    PROVE  /\ Moved(t, st.pc, st.op, st.at, st.id)
           /\ Asleep(thread', a) # {} => SomeAwake(thread', a)
  <1> DEFINE T == With(t, st)
  <1>1. /\ T \in [Threads -> ThreadStates] /\ T[t] = st
        /\ \A u \in Threads \ {t} : T[u] = thread[u]
    BY DEF LooseType, With
  <1> HIDE DEF T
  <1>2. Woken(thread', T) /\ (Asleep(T, a) # {} => SomeAwake(thread', a))
    BY <1>1, SignalEffect DEF T
  <1>3. Asleep(thread', a) # {} => Asleep(T, a) # {}
    BY <1>1, <1>2 DEF Woken, Asleep
  <1>4. Moved(t, st.pc, st.op, st.at, st.id)
    BY <1>1, <1>2 DEF Woken, Moved
  <1> QED BY <1>2, <1>3, <1>4

\* wait_for_entry, at the call and after each wakeup.
LEMMA WaitStep ==
    ASSUME DatabaseInv, NEW t \in Threads, NEW a \in Installed, NEW o \in {"checkout", "query"},
           NEW e, WaitForEntry(t, e, a, o),
           \/ thread[t].pc = "idle" /\ e = entry[a]
           \/ thread[t].pc = "wait" /\ thread[t].at = a
              /\ e = [entry[a] EXCEPT !.waiting = @ - 1],
           UNCHANGED <<scene, sas, allocated, jobs, mutex, added>>
    PROVE  DatabaseInv'
  <1> DEFINE n == entry[a].waiting - IF thread[t].pc = "wait" THEN 1 ELSE 0
             Changed(l, m) == /\ Marked(a) /\ (entry'[a].locked <=> l) /\ entry'[a].waiting = m
                              /\ entry'[a].awaits = entry[a].awaits
  <1>1. LooseType /\ a \in Addrs /\ entry \in [Addrs -> Entries] /\ entry[a] \in Entries
    BY DEF DatabaseInv, LooseType, Installed, Range
  <1>2. n \in Nat
    <2>1. entry[a].waiting = Cardinality(Waiters(a)) /\ entry[a].waiting \in Nat
      BY <1>1 DEF DatabaseInv, Counted, Entries
    <2>2. thread[t].pc = "wait" /\ thread[t].at = a => Waiters(a) # {}
      BY DEF Waiters
    <2> QED BY <2>1, <2>2, WaitersFinite
  <1> HIDE DEF n
  <1>3. /\ e \in Entries /\ e.id = entry[a].id /\ e.spi = entry[a].spi
        /\ e.inbound = entry[a].inbound /\ e.life = entry[a].life
        /\ e.locked = entry[a].locked /\ e.awaits = entry[a].awaits /\ e.waiting = n
    BY <1>1, <1>2 DEF Entries, n
  <1>4. /\ Idle \in ThreadStates /\ Idle.pc = "idle"
        /\ entry[a].locked \in BOOLEAN /\ entry[a].awaits \in BOOLEAN
        /\ entry[a].waiting \in Nat
    BY <1>1, IdleType DEF Idle, Entries
  <1>5. CASE e.awaits
    <2>1. Refuse(t, e, a)
      BY <1>3, <1>5 DEF WaitForEntry
    <2>2. Changed(entry[a].locked, n)
      BY <1>1, <1>3, <2>1 DEF Refuse, Marked
    <2>3. /\ Moved(t, "idle", Idle.op, Idle.at, Idle.id)
          /\ Asleep(thread', a) # {} => SomeAwake(thread', a)
      BY <1>1, <1>4, <2>1, MovedSignal DEF Refuse
    <2> QED BY <1>2, <1>4, <2>2, <2>3, UseStep DEF n
  <1>6. CASE ~e.awaits /\ e.locked
    <2>1. Sleep(t, e, a, o)
      BY <1>3, <1>6 DEF WaitForEntry
    <2>2. Changed(TRUE, n + 1)
      BY <1>1, <1>2, <1>3, <1>6, <2>1 DEF Sleep, Marked, Entries
    <2>3. Moved(t, "wait", o, a, entry[a].id)
      <3>1. PICK st \in ThreadStates :
               /\ st = State(t, "wait", o, a)
               /\ st.pc = "wait" /\ st.op = o /\ st.at = a /\ st.id = entry[a].id
        BY <1>1, StateType DEF Pcs
      <3>2. thread' = With(t, st)
        BY <2>1, <3>1 DEF Sleep
      <3> QED BY <1>1, <3>1, <3>2, MovedWith
    <2>4. /\ entry'[a].locked /\ entry[a].locked /\ thread[t].pc # "use"
          /\ entry'[a].waiting = entry[a].waiting + 1 - (IF thread[t].pc = "wait" THEN 1 ELSE 0)
      BY <1>2, <1>3, <1>4, <1>6, <2>2 DEF n
    <2> QED BY <1>6, <2>2, <2>3, <2>4, UseStep
  <1>7. CASE ~e.awaits /\ ~e.locked /\ o = "checkout"
    <2>1. Take(t, e, a, o)
      BY <1>3, <1>7 DEF WaitForEntry
    <2>2. Changed(TRUE, n)
      <3>1. PICK f \in Entries : f = [e EXCEPT !.locked = TRUE]
        BY <1>3 DEF Entries
      <3>2. /\ f.id = e.id /\ f.spi = e.spi /\ f.inbound = e.inbound /\ f.life = e.life
            /\ f.locked /\ f.awaits = e.awaits /\ f.waiting = e.waiting
        BY <1>3, <3>1 DEF Entries
      <3>3. entry' = [entry EXCEPT ![a] = f]
        BY <1>7, <2>1, <3>1 DEF Take
      <3> QED BY <1>1, <1>3, <3>2, <3>3 DEF Marked
    <2>3. Moved(t, "use", o, a, entry[a].id)
      <3>1. PICK st \in ThreadStates :
               /\ st = State(t, "use", o, a)
               /\ st.pc = "use" /\ st.op = o /\ st.at = a /\ st.id = entry[a].id
        BY <1>1, StateType DEF Pcs
      <3>2. thread' = With(t, st)
        BY <1>7, <2>1, <3>1 DEF Take
      <3> QED BY <1>1, <3>1, <3>2, MovedWith
    <2>4. /\ entry'[a].locked /\ ~entry[a].locked
          /\ entry'[a].waiting = entry[a].waiting + 0 - (IF thread[t].pc = "wait" THEN 1 ELSE 0)
      BY <1>2, <1>3, <1>4, <1>7, <2>2 DEF n
    <2> QED BY <1>7, <2>2, <2>3, <2>4, UseStep
  <1>8. CASE ~e.awaits /\ ~e.locked /\ o = "query"
    <2>1. Take(t, e, a, o)
      BY <1>3, <1>8 DEF WaitForEntry
    <2>2. Changed(entry[a].locked, n)
      BY <1>1, <1>3, <1>8, <2>1 DEF Take, Marked
    <2>3. /\ Moved(t, "idle", Idle.op, Idle.at, Idle.id)
          /\ Asleep(thread', a) # {} => SomeAwake(thread', a)
      BY <1>1, <1>4, <1>8, <2>1, MovedSignal DEF Take
    <2> QED BY <1>2, <1>4, <2>2, <2>3, UseStep DEF n
  <1>9. e.awaits \in BOOLEAN /\ e.locked \in BOOLEAN
    BY <1>3 DEF Entries
  <1> QED BY <1>5, <1>6, <1>7, <1>8, <1>9

\* checkin
LEMMA CheckinStep ==
    ASSUME DatabaseInv, NEW t \in Threads, Checkin(t)
    PROVE  DatabaseInv'
  <1>1. PICK a \in Installed : thread[t].at = a /\ entry[a].locked /\ thread[t].pc = "use"
    BY DEF DatabaseInv, Places, Locked, Checkin
  <1>2. /\ LooseType /\ a \in Addrs /\ entry \in [Addrs -> Entries] /\ entry[a] \in Entries
        /\ entry[a].waiting \in Nat
    BY SMTT(30) DEF DatabaseInv, LooseType, Installed, Range, Entries
  <1>3. /\ entry' = [entry EXCEPT ![a].locked = FALSE]
        /\ thread' \in Signal(With(t, Idle), a)
        /\ UNCHANGED <<scene, sas, allocated, jobs, mutex, added>>
    BY <1>1 DEF Checkin
  <1>4. Marked(a) /\ entry'[a].awaits = entry[a].awaits /\ ~entry'[a].locked
        /\ entry'[a].waiting = entry[a].waiting
    BY <1>2, <1>3 DEF Marked, Entries
  <1>5. /\ Moved(t, "idle", Idle.op, Idle.at, Idle.id)
        /\ Asleep(thread', a) # {} => SomeAwake(thread', a)
    <2>1. Idle \in ThreadStates /\ Idle.pc = "idle"
      BY IdleType DEF Idle
    <2> QED BY <1>2, <1>3, <2>1, MovedSignal
  <1> QED BY <1>1, <1>2, <1>3, <1>4, <1>5, UseStep

-----------------------------------------------------------------------------
(* Removal *)

JobType == [at : Addrs, spi : Spis, id : 1..MaxSas, hard : BOOLEAN]

\* A thread about to remove an entry, or that has come back to do so.
Removes(t, op, a) ==
    /\ op \in {"del", "expire", "flush"}
    /\ op = "flush" => thread[t].op = "flush"
    /\ \/ thread[t].pc = "idle" /\ mutex = None /\ ~entry[a].awaits
       \/ thread[t].pc = "flush" /\ mutex = t /\ ~entry[a].awaits
       \/ thread[t].pc = "drain" /\ mutex = None /\ thread[t].at = a

\* wait_remove_entry, when the entry is in use or waited for.
LEMMA DrainStep ==
    ASSUME DatabaseInv, NEW t \in Threads, NEW a \in Installed, NEW op, Removes(t, op, a),
           MustDrain(entry[a]), Drain(t, op, a),
           jobs' \subseteq JobType, UNCHANGED <<scene, allocated, added>>
    PROVE  DatabaseInv'
  <1> USE DEF DatabaseInv
  <1>0. /\ thread \in [Threads -> ThreadStates] /\ entry \in [Addrs -> Entries]
        /\ a \in Addrs /\ Installed \subseteq Addrs /\ Installed' = Installed
        /\ mutex \in Threads \cup {None} /\ mutex' = None /\ None \notin Threads
        /\ None \notin Addrs /\ sas' = sas /\ LooseType /\ entry[a] \in Entries
    BY IpsecConstants DEF LooseType, Installed, Range, Drain
  <1>1. /\ Marked(a) /\ entry'[a].locked = entry[a].locked /\ entry'[a].awaits
        /\ entry'[a].waiting = entry[a].waiting
    BY <1>0 DEF Drain, Marked, Entries
  <1>2. PICK st \in ThreadStates :
           /\ st = State(t, "drain", op, a)
           /\ st.pc = "drain" /\ st.op = op /\ st.at = a /\ st.id = entry[a].id
    BY <1>0, StateType DEF Pcs, Removes
  <1>3. PICK T \in [Threads -> ThreadStates] :
           /\ Woken(T, thread) /\ thread' = [T EXCEPT ![t] = st]
           /\ ~entry[a].locked => \A u \in Asleep(thread, a) : T[u].awake
    <2>1. CASE entry[a].locked
      BY <1>0, <1>2, <2>1 DEF Drain, Woken
    <2>2. CASE ~entry[a].locked
      <3>1. thread' = [Broadcast(thread, a) EXCEPT ![t] = st]
        BY <1>2, <2>2 DEF Drain
      <3>2. /\ Woken(Broadcast(thread, a), thread)
            /\ \A u \in Threads : u \in Asleep(thread, a) => Broadcast(thread, a)[u].awake
        BY <1>0, WakeEffect DEF Broadcast
      <3>3. Asleep(thread, a) \subseteq Threads
        BY <1>0 DEF Asleep
      <3> QED BY <3>1, <3>2, <3>3 DEF Woken
    <2> QED BY <2>1, <2>2
  <1>4. Moved(t, "drain", op, a, entry[a].id)
    BY <1>0, <1>2, <1>3 DEF Woken, Moved
  <1>5. LooseType'
    BY <1>0, <1>1, <1>4 DEF LooseType, Moved, Marked, Drain, JobType
  <1>6. entry[a].id # 0 /\ entry[a] # Free /\ entry'[a] # Free
    BY <1>0, <1>1 DEF Listed, Marked, Free, LooseType
  <1>7. Listed'
    BY <1>0, <1>1, <1>4, <1>6 DEF Listed, Moved, Marked, Removes
  <1>8. Places'
    BY <1>0, <1>4 DEF Places, Moved, Removes
  <1>9. Locked'
    BY <1>0, <1>1, <1>4 DEF Locked, Moved, Marked, Places, Removes
  <1>10. Removal'
    BY <1>0, <1>1, <1>4 DEF Removal, Moved, Marked, Places, Removes
  <1>11. Counted'
    <2> SUFFICES ASSUME NEW c \in Addrs PROVE entry'[c].waiting = Cardinality(Waiters(c)')
      BY DEF Counted
    <2>1. Cardinality(Waiters(c)') = Cardinality(Waiters(c))
             + (IF "drain" = "wait" /\ a = c THEN 1 ELSE 0) - (IF t \in Waiters(c) THEN 1 ELSE 0)
      BY <1>4, WaitersCounted
    <2>2. t \notin Waiters(c)
      BY DEF Waiters, Removes
    <2>3. entry[c].waiting = Cardinality(Waiters(c)) /\ Cardinality(Waiters(c)) \in Nat
      BY WaitersFinite DEF Counted
    <2>4. entry'[c].waiting = entry[c].waiting
      BY <1>1 DEF Marked
    <2> QED BY <2>1, <2>2, <2>3, <2>4
  <1>12. EntriesStay'
    BY <1>0, <1>1, <1>4, <1>6 DEF EntriesStay, Moved, Marked, Places
  <1>13. ~entry[a].locked => SomeAwake(thread', a)
    <2> SUFFICES ASSUME ~entry[a].locked PROVE SomeAwake(thread', a)
      OBVIOUS
    <2>1. PICK w \in Waiters(a) : TRUE
      <3>1. entry[a].waiting # 0
        BY <1>0 DEF MustDrain, Entries
      <3> QED BY <1>0, <3>1, WaitersFinite DEF Counted
    <2>2. w \in Threads /\ w # t /\ thread[w].pc = "wait" /\ thread[w].at = a
      BY DEF Waiters, Removes
    <2>3. T[w].awake
      BY <1>0, <1>3, <2>2 DEF Asleep, Woken, ThreadStates
    <2>4. thread'[w] = T[w]
      BY <1>3, <2>2
    <2> QED BY <1>4, <2>2, <2>3, <2>4 DEF SomeAwake, Moved
  <1>14. NoLostWakeup'
    BY <1>0, <1>1, <1>4, <1>13 DEF NoLostWakeup, Moved, Marked, Asleep, SomeAwake, Removes
  <1> QED BY <1>5, <1>7, <1>8, <1>9, <1>10, <1>11, <1>12, <1>14

\* Where remove_at leaves the enumerator, and where it goes next.
LEMMA EnumeratorPlaces ==
    ASSUME LooseType
    PROVE  /\ \A a \in Installed : Before(a) \in (Installed \ {a}) \cup {None}
           /\ \A a \in Installed \cup {None} : After(a) \in Installed \cup {None}
  <1>1. ASSUME NEW a \in Installed PROVE Before(a) \in (Installed \ {a}) \cup {None}
    <2>1. PICK i \in 1..Len(sas) : i = Position(a) /\ sas[i] = a
      BY <1>1, PositionListed DEF LooseType
    <2>2. CASE i = 1
      BY <2>1, <2>2 DEF Before
    <2>3. CASE i # 1
      <3>1. i - 1 \in 1..Len(sas) /\ i - 1 # i
        BY <2>3 DEF LooseType
      <3>2. sas[i - 1] \in Installed /\ sas[i - 1] # a
        BY <2>1, <3>1 DEF LooseType, Installed, Range, IsInjective
      <3> QED BY <2>1, <2>3, <3>2 DEF Before
    <2> QED BY <2>2, <2>3
  <1>2. ASSUME NEW a \in Installed \cup {None} PROVE After(a) \in Installed \cup {None}
    BY DEF After, Installed, Range
  <1> QED BY <1>1, <1>2

\* Nobody else stands on an entry that its remover finds neither in use nor waited for.
LEMMA NobodyLeft ==
    ASSUME DatabaseInv, NEW t \in Threads, NEW a \in Installed, NEW op, Removes(t, op, a),
           ~MustDrain(entry[a]), NEW u \in Threads \ {t}
    PROVE  /\ thread[u].pc \in {"use", "wait", "drain", "free"} => thread[u].at # a
           /\ thread[u].pc # "flush"
  <1>0. /\ a \in Addrs /\ ~entry[a].locked /\ entry[a].waiting = 0
        /\ mutex \in {t, None} /\ None \notin Threads
    BY IpsecConstants DEF DatabaseInv, LooseType, Entries, Installed, Range, MustDrain, Removes
  <1>1. thread[u].pc = "use" => thread[u].at # a
    BY <1>0 DEF DatabaseInv, Locked
  <1>2. thread[u].pc = "wait" => thread[u].at # a
    <2>1. Waiters(a) = {}
      BY <1>0, WaitersFinite DEF DatabaseInv, Counted
    <2> QED BY <2>1 DEF Waiters
  <1>3. thread[u].pc = "drain" => thread[u].at # a
    BY <1>0 DEF DatabaseInv, Removal, Removes
  <1>4. thread[u].pc = "free" => thread[u].at # a
    BY DEF DatabaseInv, Places
  <1>5. thread[u].pc # "flush"
    BY <1>0 DEF DatabaseInv, Places
  <1> QED BY <1>1, <1>2, <1>3, <1>4, <1>5

\* An entry leaves the list; del_sa is going to free it, the others have.
LEMMA GoneStep ==
    ASSUME DatabaseInv, NEW t \in Threads, NEW a \in Installed, NEW op, Removes(t, op, a),
           ~MustDrain(entry[a]), sas' = Without(a), entry' \in [Addrs -> Entries],
           \A b \in Addrs \ {a} : entry'[b] = entry[b],
           NEW p \in {"free", "idle", "flush"}, NEW b, NEW i, NEW o, Moved(t, p, o, b, i),
           p = "free" => b = a /\ i = entry[a].id /\ entry'[a] = entry[a],
           p # "free" => entry'[a] = Free,
           p = "flush" => b \in (Installed \ {a}) \cup {None} /\ o = "flush" /\ mutex' = t,
           p # "flush" => mutex' = None,
           jobs' \subseteq JobType, UNCHANGED <<scene, allocated, added>>
    PROVE  DatabaseInv'
  <1> USE DEF DatabaseInv
  <1>0. /\ thread \in [Threads -> ThreadStates] /\ entry \in [Addrs -> Entries]
        /\ a \in Addrs /\ Installed \subseteq Addrs /\ Installed' = Installed \ {a}
        /\ sas' \in Seq(Addrs) /\ IsInjective(sas')
        /\ mutex \in Threads \cup {None} /\ mutex' \in Threads \cup {None}
        /\ None \notin Threads /\ None \notin Addrs
        /\ ~entry[a].locked /\ entry[a].waiting = 0
    <2>1. sas' \in Seq(Addrs) /\ IsInjective(sas') /\ Range(sas') = Installed \ {a}
      BY WithoutList DEF LooseType
    <2>2. Installed' = Installed \ {a}
      BY <2>1 DEF Installed
    <2>3. a \in Addrs /\ Installed \subseteq Addrs
      BY DEF LooseType, Installed, Range
    <2>4. ~entry[a].locked /\ entry[a].waiting = 0
      BY <2>3 DEF MustDrain, Entries, LooseType
    <2> QED BY <2>1, <2>2, <2>3, <2>4, IpsecConstants DEF LooseType
  <1>1. \A u \in Threads \ {t} :
           /\ thread[u].pc \in {"use", "wait", "drain", "free"} => thread[u].at # a
           /\ thread[u].pc # "flush"
    BY NobodyLeft
  <1>2. LooseType'
    BY <1>0 DEF LooseType, Moved, JobType
  <1>3. entry[a].id # 0 /\ entry[a] # Free
    BY <1>0 DEF Listed, LooseType
  <1>4. Listed'
    <2>1. \A c \in Addrs : entry'[c] # Free => entry'[c].id \in 1..added'
      BY <1>0 DEF Listed
    <2>2. ASSUME NEW c \in Addrs \ {a}
          PROVE  entry'[c] # Free <=>
                    c \in Installed' \/ \E u \in Threads : thread'[u].pc = "free" /\ thread'[u].at = c
      <3>1. (\E u \in Threads : thread'[u].pc = "free" /\ thread'[u].at = c)
               <=> \E u \in Threads : thread[u].pc = "free" /\ thread[u].at = c
        BY <1>0 DEF Moved, Removes
      <3> QED BY <1>0, <3>1 DEF Listed
    <2>3. entry'[a] # Free <=>
             a \in Installed' \/ \E u \in Threads : thread'[u].pc = "free" /\ thread'[u].at = a
      BY <1>0, <1>1, <1>3 DEF Moved
    <2> QED BY <2>1, <2>2, <2>3 DEF Listed
  <1>5. Places'
    BY <1>0, <1>1 DEF Places, Moved
  <1>6. Locked'
    <2>1. \A u \in Threads : thread[u].pc = "use" <=> thread'[u].pc = "use"
      BY DEF Moved, Removes
    <2>2. \A u \in Threads : thread'[u].pc = "use" =>
             u # t /\ thread'[u].at = thread[u].at /\ thread[u].at \in Addrs \ {a}
      BY <1>0, <1>1, <2>1 DEF Moved, Places
    <2>3. \A c \in Addrs : entry'[c].locked <=> entry[c].locked
      <3>1. entry'[a].locked <=> entry[a].locked
        BY <1>0 DEF Free
      <3> QED BY <3>1
    <2> QED BY <2>1, <2>2, <2>3 DEF Locked
  <1>7. Removal'
    BY <1>0, <1>1 DEF Removal, Moved, Places, Removes
  <1>8. Counted'
    <2> SUFFICES ASSUME NEW c \in Addrs PROVE entry'[c].waiting = Cardinality(Waiters(c)')
      BY DEF Counted
    <2>1. Cardinality(Waiters(c)') = Cardinality(Waiters(c))
             + (IF p = "wait" /\ b = c THEN 1 ELSE 0) - (IF t \in Waiters(c) THEN 1 ELSE 0)
      BY WaitersCounted
    <2>2. t \notin Waiters(c)
      BY DEF Waiters, Removes
    <2>3. entry[c].waiting = Cardinality(Waiters(c)) /\ Cardinality(Waiters(c)) \in Nat
      BY WaitersFinite DEF Counted
    <2>4. entry'[c].waiting = entry[c].waiting
      BY <1>0 DEF Free
    <2> QED BY <2>1, <2>2, <2>3, <2>4
  <1>9. EntriesStay'
    BY <1>0, <1>1, <1>3 DEF EntriesStay, Moved, Places
  <1>10. NoLostWakeup'
    BY <1>0, <1>1 DEF NoLostWakeup, Moved, Asleep, Removes, Places
  <1> QED BY <1>2, <1>4, <1>5, <1>6, <1>7, <1>8, <1>9, <1>10

\* wait_remove_entry, when the entry can be removed at once.
LEMMA RemovedStep ==
    ASSUME DatabaseInv, NEW t \in Threads, NEW a \in Installed, NEW op, Removes(t, op, a),
           ~MustDrain(entry[a]), Removed(t, op, a),
           jobs' \subseteq JobType, UNCHANGED <<scene, allocated, added>>
    PROVE  DatabaseInv'
  <1>0. /\ LooseType /\ a \in Addrs /\ entry \in [Addrs -> Entries] /\ sas' = Without(a)
        /\ thread[t] \in ThreadStates
    BY DEF DatabaseInv, LooseType, Installed, Range, Removed
  <1>1. Free \in Entries
    BY IpsecConstants DEF Free, Entries, Lifetimes
  <1>2. CASE op = "del"
    <2>1. entry' = entry /\ mutex' = None /\ thread' = With(t, State(t, "free", op, a))
      BY <1>2 DEF Removed
    <2>2. PICK st \in ThreadStates :
           /\ st = State(t, "free", op, a)
           /\ st.pc = "free" /\ st.op = op /\ st.at = a /\ st.id = entry[a].id
      BY <1>0, <1>2, StateType DEF Pcs
    <2>3. Moved(t, "free", op, a, entry[a].id)
      BY <1>0, <2>1, <2>2, MovedWith
    <2> QED BY <1>0, <2>1, <2>3, GoneStep
  <1>3. CASE op = "expire"
    <2>1. entry' = [entry EXCEPT ![a] = Free] /\ mutex' = None /\ thread' = With(t, Idle)
      BY <1>3 DEF Removed
    <2>2. Moved(t, "idle", Idle.op, Idle.at, Idle.id)
      BY <1>0, <2>1, MovedWith, IdleType DEF Idle
    <2>3. entry' \in [Addrs -> Entries] /\ entry'[a] = Free /\ \A b \in Addrs \ {a} : entry'[b] = entry[b]
      BY <1>0, <1>1, <2>1
    <2> QED BY <1>0, <2>1, <2>2, <2>3, GoneStep
  <1>4. CASE op = "flush"
    <2>1. /\ entry' = [entry EXCEPT ![a] = Free] /\ mutex' = t
          /\ thread' = With(t, [thread[t] EXCEPT !.pc = "flush", !.at = Before(a),
                                                 !.id = 0, !.awake = FALSE])
      BY <1>4 DEF Removed
    <2>2. Before(a) \in (Installed \ {a}) \cup {None} /\ Before(a) \in Addrs \cup {None}
      BY <1>0, EnumeratorPlaces DEF LooseType, Installed, Range
    <2>3. PICK x \in ThreadStates, b \in Addrs \cup {None}, n \in 0..MaxSas :
            x = thread[t] /\ b = Before(a) /\ n = 0
      BY <1>0, <2>2, IpsecConstants
    <2>8. PICK st : st = [x EXCEPT !.pc = "flush", !.at = b, !.id = n, !.awake = FALSE]
      OBVIOUS
    <2>7. /\ st \in ThreadStates /\ st.pc = "flush" /\ st.op = x.op
          /\ st.at = b /\ st.id = n
      BY <2>8 DEF ThreadStates, Pcs
    <2>4. Moved(t, "flush", thread[t].op, Before(a), 0)
      BY <1>0, <2>1, <2>3, <2>7, <2>8, MovedWith
    <2>5. entry' \in [Addrs -> Entries] /\ entry'[a] = Free /\ \A c \in Addrs \ {a} : entry'[c] = entry[c]
      BY <1>0, <1>1, <2>1
    <2>6. thread[t].op = "flush"
      BY <1>4 DEF Removes, DatabaseInv, Places
    <2> QED BY <1>0, <2>1, <2>2, <2>4, <2>5, <2>6, GoneStep
  <1> QED BY <1>2, <1>3, <1>4 DEF Removes

\* wait_remove_entry.
LEMMA RemoveStep ==
    ASSUME DatabaseInv, NEW t \in Threads, NEW a \in Installed, NEW op, Removes(t, op, a),
           WaitRemoveEntry(t, op, a),
           jobs' \subseteq JobType, UNCHANGED <<scene, allocated, added>>
    PROVE  DatabaseInv'
  <1>1. CASE MustDrain(entry[a])
    BY <1>1, DrainStep DEF WaitRemoveEntry
  <1>2. CASE ~MustDrain(entry[a])
    BY <1>2, RemovedStep DEF WaitRemoveEntry
  <1> QED BY <1>1, <1>2

\* entry_destroy in del_sa.
LEMMA DestroyStep ==
    ASSUME DatabaseInv, NEW t \in Threads, DestroyEntry(t)
    PROVE  DatabaseInv'
  <1> USE DEF DatabaseInv
  <1>0. PICK a \in Addrs \ Installed : thread[t].at = a /\ thread[t].pc = "free"
    BY DEF Places, DestroyEntry
  <1>1. /\ thread \in [Threads -> ThreadStates] /\ entry \in [Addrs -> Entries]
        /\ Installed \subseteq Addrs /\ Installed' = Installed /\ LooseType
        /\ mutex \in Threads \cup {None} /\ mutex' = mutex /\ None \notin Threads
    BY IpsecConstants DEF LooseType, Installed, Range, DestroyEntry
  <1>2. Moved(t, "idle", Idle.op, Idle.at, Idle.id)
    BY <1>1, MovedWith, IdleType DEF Idle, DestroyEntry
  <1>3. Free \in Entries /\ ~Free.locked /\ Free.waiting = 0
    BY IpsecConstants DEF Free, Entries, Lifetimes
  <1>4. /\ entry' \in [Addrs -> Entries] /\ entry'[a] = Free
        /\ \A b \in Addrs \ {a} : entry'[b] = entry[b]
    BY <1>0, <1>1, <1>3 DEF DestroyEntry
  <1>5. \A u \in Threads \ {t} : thread[u].pc \in {"use", "wait", "drain", "free"} => thread[u].at # a
    BY <1>0 DEF Places, Removal
  <1>6. Waiters(a) = {} /\ ~entry[a].locked
    BY <1>0, <1>5 DEF Waiters, Locked
  <1>7. LooseType'
    BY <1>2, <1>4 DEF LooseType, Moved, DestroyEntry
  <1>8. Listed'
    <2>1. \A c \in Addrs : entry'[c] # Free => entry'[c].id \in 1..added'
      BY <1>4 DEF Listed, DestroyEntry
    <2>2. ASSUME NEW c \in Addrs \ {a}
          PROVE  entry'[c] # Free <=>
                    c \in Installed' \/ \E u \in Threads : thread'[u].pc = "free" /\ thread'[u].at = c
      <3>1. (\E u \in Threads : thread'[u].pc = "free" /\ thread'[u].at = c)
               <=> \E u \in Threads : thread[u].pc = "free" /\ thread[u].at = c
        BY <1>0, <1>2 DEF Moved
      <3> QED BY <1>1, <1>4, <3>1 DEF Listed
    <2>3. entry'[a] # Free <=>
             a \in Installed' \/ \E u \in Threads : thread'[u].pc = "free" /\ thread'[u].at = a
      BY <1>0, <1>1, <1>2, <1>4, <1>5 DEF Moved
    <2> QED BY <2>1, <2>2, <2>3 DEF Listed
  <1>9. Places'
    BY <1>0, <1>1, <1>2 DEF Places, Moved
  <1>10. Locked'
    BY <1>0, <1>1, <1>2, <1>3, <1>4, <1>5 DEF Locked, Moved, Places
  <1>11. Removal'
    BY <1>0, <1>1, <1>2, <1>4, <1>5 DEF Removal, Moved, Places
  <1>12. Counted'
    <2> SUFFICES ASSUME NEW c \in Addrs PROVE entry'[c].waiting = Cardinality(Waiters(c)')
      BY DEF Counted
    <2>1. Cardinality(Waiters(c)') = Cardinality(Waiters(c))
             + (IF "idle" = "wait" /\ Idle.at = c THEN 1 ELSE 0) - (IF t \in Waiters(c) THEN 1 ELSE 0)
      BY <1>2, WaitersCounted
    <2>2. t \notin Waiters(c)
      BY <1>0 DEF Waiters
    <2>3. entry[c].waiting = Cardinality(Waiters(c)) /\ Cardinality(Waiters(c)) \in Nat
      BY WaitersFinite DEF Counted
    <2>4. entry'[c].waiting = entry[c].waiting
      BY <1>3, <1>4, <1>6, WaitersFinite DEF Counted
    <2> QED BY <2>1, <2>2, <2>3, <2>4
  <1>13. EntriesStay'
    BY <1>0, <1>1, <1>2, <1>4, <1>5 DEF EntriesStay, Moved, Places
  <1>14. NoLostWakeup'
    BY <1>0, <1>1, <1>2, <1>4, <1>5 DEF NoLostWakeup, Moved, Asleep, Places
  <1> QED BY <1>7, <1>8, <1>9, <1>10, <1>11, <1>12, <1>13, <1>14

\* A flush begins, passes an entry somebody else removes, or ends.
LEMMA FlushMoves ==
    ASSUME DatabaseInv, NEW t \in Threads,
           \/ thread[t].pc = "idle" /\ mutex = None
           \/ thread[t].pc = "flush" /\ mutex = t,
           NEW p \in {"idle", "flush"}, NEW a, NEW i, NEW o, Moved(t, p, o, a, i),
           p = "flush" => a \in Installed \cup {None} /\ o = "flush" /\ mutex' = t,
           p = "idle" => mutex' = None,
           UNCHANGED <<scene, sas, entry, allocated, jobs, added>>
    PROVE  DatabaseInv'
  <1> USE DEF DatabaseInv
  <1>1. /\ thread \in [Threads -> ThreadStates] /\ entry \in [Addrs -> Entries]
        /\ Installed \subseteq Addrs /\ Installed' = Installed /\ LooseType /\ entry' = entry
        /\ mutex \in Threads \cup {None} /\ mutex' \in Threads \cup {None}
        /\ None \notin Threads
    BY IpsecConstants DEF LooseType, Installed, Range
  <1>2. LooseType'
    BY <1>1 DEF LooseType, Moved
  <1>3. Listed'
    BY <1>1 DEF Listed, Moved
  <1>4. Places'
    BY <1>1 DEF Places, Moved
  <1>5. Locked'
    BY <1>1 DEF Locked, Moved, Places
  <1>6. Removal'
    BY <1>1 DEF Removal, Moved, Places
  <1>7. Counted'
    <2> SUFFICES ASSUME NEW c \in Addrs PROVE entry'[c].waiting = Cardinality(Waiters(c)')
      BY DEF Counted
    <2>1. Cardinality(Waiters(c)') = Cardinality(Waiters(c))
             + (IF p = "wait" /\ a = c THEN 1 ELSE 0) - (IF t \in Waiters(c) THEN 1 ELSE 0)
      BY WaitersCounted
    <2>2. t \notin Waiters(c)
      BY DEF Waiters
    <2>3. entry[c].waiting = Cardinality(Waiters(c)) /\ Cardinality(Waiters(c)) \in Nat
      BY WaitersFinite DEF Counted
    <2> QED BY <1>1, <2>1, <2>2, <2>3
  <1>8. EntriesStay'
    BY <1>1 DEF EntriesStay, Moved
  <1>9. NoLostWakeup'
    BY <1>1 DEF NoLostWakeup, Moved, Asleep
  <1> QED BY <1>2, <1>3, <1>4, <1>5, <1>6, <1>7, <1>8, <1>9

\* flush_sas: the lock is taken and the enumerator created.
LEMMA FlushSasStep ==
    ASSUME DatabaseInv, NEW t \in Threads, FlushSas(t)
    PROVE  DatabaseInv'
  <1>1. LooseType /\ added \in 0..MaxSas
    BY DEF DatabaseInv, LooseType
  <1>2. PICK st : st = [Idle EXCEPT !.pc = "flush", !.op = "flush", !.goal = added]
    OBVIOUS
  <1>3. st \in ThreadStates /\ st.pc = "flush" /\ st.op = "flush" /\ st.at = None
    BY <1>1, <1>2, IdleType DEF Idle, ThreadStates, Pcs
  <1>4. Moved(t, "flush", "flush", None, st.id)
    BY <1>1, <1>2, <1>3, MovedWith DEF FlushSas
  <1> QED BY <1>4, FlushMoves DEF FlushSas, IsIdle

\* One round of the loop of flush_sas.
LEMMA FlushEntryStep ==
    ASSUME DatabaseInv, NEW t \in Threads, FlushEntry(t)
    PROVE  DatabaseInv'
  <1>1. /\ LooseType /\ thread[t].pc = "flush" /\ thread[t].op = "flush" /\ mutex = t
        /\ thread[t].at \in Installed \cup {None} /\ thread[t] \in ThreadStates
        /\ Installed \subseteq Addrs
    BY DEF DatabaseInv, LooseType, Places, FlushEntry, Installed, Range
  <1>2. PICK a \in Installed \cup {None} : a = After(thread[t].at)
    BY <1>1, EnumeratorPlaces
  <1>3. CASE a = None
    <2>1. /\ thread' = With(t, Idle) /\ mutex' = None
          /\ UNCHANGED <<scene, sas, entry, allocated, jobs, added>>
      BY <1>2, <1>3 DEF FlushEntry
    <2>2. Moved(t, "idle", Idle.op, Idle.at, Idle.id)
      BY <1>1, <2>1, MovedWith, IdleType DEF Idle
    <2> QED BY <1>1, <2>1, <2>2, FlushMoves
  <1>4. CASE a # None /\ entry[a].awaits
    <2>1. /\ thread' = [thread EXCEPT ![t].at = a] /\ mutex' = mutex
          /\ UNCHANGED <<scene, sas, entry, allocated, jobs, added>>
      BY <1>2, <1>4 DEF FlushEntry
    <2>2. Moved(t, "flush", "flush", a, thread[t].id)
      BY <1>1, <2>1 DEF Moved, ThreadStates, LooseType
    <2> QED BY <1>1, <2>1, <2>2, FlushMoves
  <1>5. CASE a # None /\ ~entry[a].awaits
    <2>1. WaitRemoveEntry(t, "flush", a) /\ UNCHANGED <<scene, allocated, jobs, added>>
      BY <1>2, <1>5 DEF FlushEntry
    <2>2. Removes(t, "flush", a) /\ a \in Installed /\ jobs' \subseteq JobType
      BY <1>1, <1>5, <2>1 DEF Removes, LooseType, JobType
    <2> QED BY <2>1, <2>2, RemoveStep
  <1> QED BY <1>3, <1>4, <1>5

-----------------------------------------------------------------------------
(* Every step *)

\* What may be installed.
LEMMA SceneTypes ==
    ASSUME LooseType
    PROVE  /\ scene.kinds \subseteq Kinds /\ scene.lives \subseteq Lifetimes
           /\ scene.addrs \subseteq Addrs /\ scene.threads \subseteq Threads
           /\ scene.sas \in 0..MaxSas
  BY IpsecConstants DEF LooseType, Scenario

\* add_sa
LEMMA AddStep ==
    ASSUME DatabaseInv, NEW t \in Threads, AddSa(t)
    PROVE  DatabaseInv'
  <1> USE DEF DatabaseInv
  <1>0. PICK k \in Kinds, life \in Lifetimes, a \in Addrs :
          /\ entry[a] = Free
          /\ allocated' = IF k.inbound THEN allocated \ {k.spi} ELSE allocated
          /\ entry' = [entry EXCEPT ![a] =
                          [Free EXCEPT !.id = added + 1, !.spi = k.spi,
                                       !.inbound = k.inbound, !.life = life]]
          /\ jobs' = jobs \cup ScheduleExpiration(a, k.spi, life)
          /\ sas' = <<a>> \o sas
    BY SceneTypes DEF AddSa
  <1>1. /\ thread \in [Threads -> ThreadStates] /\ entry \in [Addrs -> Entries]
        /\ Installed \subseteq Addrs /\ LooseType /\ None \notin Threads /\ None \notin Addrs
        /\ added \in Nat /\ added + 1 \in 1..MaxSas /\ added' = added + 1
        /\ thread' = thread /\ mutex' = mutex /\ scene' = scene /\ mutex = None
    BY IpsecConstants, SceneTypes DEF LooseType, Installed, Range, AddSa, IsIdle
  <1>2. a \notin Installed /\ \A u \in Threads : thread[u].pc = "free" => thread[u].at # a
    BY <1>0 DEF Listed
  <1>3. \A u \in Threads : thread[u].pc \in {"use", "wait", "drain", "free"} => thread[u].at # a
    BY <1>2 DEF Places
  <1>4. sas' \in Seq(Addrs) /\ IsInjective(sas') /\ Installed' = Installed \cup {a}
    <2>1. /\ <<a>> \o sas \in Seq(Addrs) /\ IsInjective(<<a>> \o sas)
          /\ Range(<<a>> \o sas) = Installed \cup {a}
      BY <1>2, FrontList DEF LooseType
    <2> QED BY <1>0, <2>1 DEF Installed
  <1>5. PICK n \in 1..MaxSas, s \in Spis, i \in BOOLEAN :
            n = added + 1 /\ s = k.spi /\ i = k.inbound
    BY <1>1 DEF Kinds
  <1>6. PICK f \in Entries :
            f = Free /\ f.id = 0 /\ ~f.locked /\ ~f.awaits /\ f.waiting = 0
    <2>1. Free \in Entries
      BY IpsecConstants DEF Free, Entries, Lifetimes
    <2>2. Free.id = 0 /\ ~Free.locked /\ ~Free.awaits /\ Free.waiting = 0
      BY DEF Free
    <2> QED BY <2>1, <2>2
  <1>7. PICK e : e = [f EXCEPT !.id = n, !.spi = s, !.inbound = i, !.life = life]
    OBVIOUS
  <1>8. /\ e \in Entries /\ e.id = added + 1 /\ ~e.locked /\ ~e.awaits /\ e.waiting = 0
        /\ e # Free
    <2>1. n \in 0..MaxSas /\ n # 0
      BY IpsecConstants
    <2>2. /\ e \in Entries /\ e.id = n /\ ~e.locked /\ ~e.awaits /\ e.waiting = 0
      BY <1>7, <1>6, <2>1 DEF Entries
    <2> QED BY <1>5, <1>6, <2>1, <2>2
  <1>9. /\ entry' \in [Addrs -> Entries] /\ entry'[a] = e
        /\ \A b \in Addrs \ {a} : entry'[b] = entry[b]
    <2>1. e = [Free EXCEPT !.id = added + 1, !.spi = k.spi, !.inbound = k.inbound, !.life = life]
      BY <1>7, <1>5, <1>6
    <2> QED BY <1>0, <1>1, <1>8, <2>1
  <1>10. LooseType'
    <2>1. ScheduleExpiration(a, k.spi, life) \subseteq JobType
      <3>1. PICK h \in BOOLEAN : h = (life = "hard")
        OBVIOUS
      <3>2. [at |-> a, spi |-> s, id |-> n, hard |-> h] \in JobType
        BY DEF JobType
      <3> QED BY <1>5, <3>1, <3>2 DEF ScheduleExpiration
    <2>2. jobs' \subseteq JobType
      BY <1>0, <2>1 DEF LooseType, JobType
    <2>3. allocated' \subseteq Spis
      BY <1>0 DEF LooseType
    <2>4. added' \in 0..MaxSas
      BY <1>1
    <2> QED BY <1>1, <1>4, <1>9, <2>2, <2>3, <2>4 DEF LooseType, JobType
  <1>11. Listed'
    BY <1>0, <1>1, <1>2, <1>4, <1>8, <1>9 DEF Listed
  <1>12. Places'
    BY <1>1, <1>2, <1>4 DEF Places
  <1>13. Locked'
    BY <1>1, <1>3, <1>8, <1>9 DEF Locked, LooseType, Places
  <1>14. Removal'
    BY <1>1, <1>3, <1>9 DEF Removal, Places
  <1>15. Counted'
    <2> SUFFICES ASSUME NEW c \in Addrs PROVE entry'[c].waiting = Cardinality(Waiters(c)')
      BY DEF Counted
    <2>1. Waiters(c)' = Waiters(c)
      BY <1>1 DEF Waiters
    <2>2. Cardinality(Waiters(c)') = Cardinality(Waiters(c))
      BY <2>1, Zenon
    <2>3. entry[a].waiting = 0
      BY <1>0 DEF Free
    <2> QED BY <1>8, <1>9, <2>2, <2>3 DEF Counted
  <1>16. EntriesStay'
    BY <1>1, <1>3, <1>9 DEF EntriesStay, Places
  <1>17. NoLostWakeup'
    BY <1>1, <1>3, <1>9 DEF NoLostWakeup, Asleep, Places
  <1> QED BY <1>10, <1>11, <1>12, <1>13, <1>14, <1>15, <1>16, <1>17

\* Steps that leave the list, its entries and the threads alone.
LEMMA QuietStep ==
    ASSUME DatabaseInv, allocated' \subseteq Spis, jobs' \subseteq JobType,
           UNCHANGED <<scene, sas, entry, thread, mutex, added>>
    PROVE  DatabaseInv'
  <1> USE DEF DatabaseInv
  <1>1. LooseType' /\ Listed' /\ Places' /\ Locked' /\ Removal' /\ EntriesStay' /\ NoLostWakeup'
    BY DEF LooseType, Listed, Places, Locked, Removal, EntriesStay, NoLostWakeup, Asleep, Installed,
           JobType
  <1>2. Counted'
    BY DEF Counted, Waiters
  <1> QED BY <1>1, <1>2

\* sa_expired
LEMMA ExpiredStep ==
    ASSUME DatabaseInv, NEW t \in Threads, SaExpired(t)
    PROVE  DatabaseInv'
  <1>1. PICK j \in jobs :
          /\ jobs' = (jobs \ {j}) \cup (IF Hits(j) THEN Reschedule(j) ELSE {})
          /\ \/ UNCHANGED <<sas, entry, thread, mutex>>
             \/ /\ Hits(j) /\ ~entry[j.at].awaits
                /\ WaitRemoveEntry(t, "expire", j.at)
    BY DEF SaExpired
  <1>2. jobs' \subseteq JobType
    BY <1>1 DEF DatabaseInv, LooseType, JobType, Reschedule
  <1>3. UNCHANGED <<scene, allocated, added>> /\ thread[t].pc = "idle" /\ mutex = None
    BY DEF SaExpired, IsIdle
  <1>4. CASE UNCHANGED <<sas, entry, thread, mutex>>
    BY <1>2, <1>3, <1>4, QuietStep DEF DatabaseInv, LooseType
  <1>5. CASE Hits(j) /\ ~entry[j.at].awaits /\ WaitRemoveEntry(t, "expire", j.at)
    <2>1. j.at \in Installed /\ Removes(t, "expire", j.at)
      BY <1>3, <1>5 DEF Hits, Removes
    <2> QED BY <1>2, <1>3, <1>5, <2>1, RemoveStep
  <1> QED BY <1>1, <1>4, <1>5

\* What holds of the database at the start.
LEMMA DatabaseInit == Init => DatabaseInv
  <1> SUFFICES ASSUME Init PROVE DatabaseInv
    OBVIOUS
  <1>1. Free \in Entries /\ Idle \in ThreadStates
    BY IpsecConstants, IdleType DEF Free, Entries, Lifetimes
  <1>2. LooseType
    BY <1>1, IpsecConstants DEF Init, LooseType, IsInjective
  <1>3. Installed = {}
    BY DEF Init, Installed, Range
  <1>4. \A t \in Threads : thread[t].pc = "idle"
    BY DEF Init, Idle
  <1>5. Listed /\ Places /\ Locked /\ Removal /\ EntriesStay /\ NoLostWakeup
    BY <1>3, <1>4 DEF Init, Listed, Places, Locked, Removal, EntriesStay, NoLostWakeup, Asleep, Free
  <1>6. Counted
    <2> SUFFICES ASSUME NEW a \in Addrs PROVE entry[a].waiting = Cardinality(Waiters(a))
      BY DEF Counted
    <2>1. Waiters(a) = {}
      BY <1>4 DEF Waiters
    <2> QED BY <2>1, WaitersFinite DEF Init, Free
  <1> QED BY <1>2, <1>5, <1>6 DEF DatabaseInv

\* Every step keeps the invariant of the database.
LEMMA DatabaseStep == DatabaseInv /\ [Next]_vars => DatabaseInv'
  <1> SUFFICES ASSUME DatabaseInv, [Next]_vars PROVE DatabaseInv'
    OBVIOUS
  <1>0. LooseType /\ jobs \subseteq JobType /\ allocated \subseteq Spis
    BY DEF DatabaseInv, LooseType, JobType
  <1>1. CASE UNCHANGED vars
    BY <1>0, <1>1, QuietStep DEF vars
  <1>2. ASSUME NEW t \in Threads, GetSpi(t) PROVE DatabaseInv'
    <2>1. allocated' \subseteq Spis
      BY <1>0, <1>2, SceneTypes DEF GetSpi, Kinds
    <2> QED BY <1>0, <1>2, <2>1, QuietStep DEF GetSpi
  <1>3. ASSUME NEW t \in Threads, NEW a \in Installed, Checkout(t, a) PROVE DatabaseInv'
    BY <1>3, WaitStep DEF Checkout, IsIdle
  <1>4. ASSUME NEW t \in Threads, ProcessInbound(t) \/ ProcessOutbound(t) PROVE DatabaseInv'
    <2>1. PICK a \in Installed : Checkout(t, a)
      BY <1>4 DEF ProcessInbound, ProcessOutbound, Installed, Range
    <2> QED BY <1>3, <2>1
  <1>5. ASSUME NEW t \in Threads, QueryOrUpdate(t) PROVE DatabaseInv'
    BY <1>5, WaitStep DEF QueryOrUpdate, IsIdle
  <1>6. ASSUME NEW t \in Threads, WaiterWakes(t) PROVE DatabaseInv'
    <2>1. thread[t].at \in Installed /\ thread[t].op \in {"checkout", "query"} /\ thread[t].pc = "wait"
      BY <1>6 DEF DatabaseInv, Places, WaiterWakes
    <2> QED BY <1>6, <2>1, WaitStep DEF WaiterWakes
  <1>7. ASSUME NEW t \in Threads, DelSa(t) PROVE DatabaseInv'
    <2>1. PICK a \in Installed : Removes(t, "del", a) /\ WaitRemoveEntry(t, "del", a)
      BY <1>7 DEF DelSa, Removes, IsIdle
    <2> QED BY <1>0, <1>7, <2>1, RemoveStep DEF DelSa
  <1>8. ASSUME NEW t \in Threads, RemoverWakes(t) PROVE DatabaseInv'
    <2>1. thread[t].at \in Installed /\ Removes(t, thread[t].op, thread[t].at)
      BY <1>8 DEF DatabaseInv, Places, RemoverWakes, Removes
    <2> QED BY <1>0, <1>8, <2>1, RemoveStep DEF RemoverWakes
  <1>9. ASSUME NEW t \in Threads,
               \/ AddSa(t) \/ Checkin(t) \/ DestroyEntry(t) \/ SaExpired(t)
               \/ FlushSas(t) \/ FlushEntry(t)
        PROVE  DatabaseInv'
    BY <1>9, AddStep, CheckinStep, DestroyStep, ExpiredStep, FlushSasStep, FlushEntryStep
  <1> QED BY <1>0, <1>1, <1>2, <1>4, <1>5, <1>6, <1>7, <1>8, <1>9, SceneTypes DEF Next

-----------------------------------------------------------------------------
(* What follows from the invariant of the database *)

\* The entries a list, a count and the threads agree about are sound.
LEMMA SoundEntries == DatabaseInv => EntriesSound
  <1> SUFFICES ASSUME DatabaseInv PROVE EntriesSound
    OBVIOUS
  <1>1. ASSUME NEW a \in Addrs PROVE entry[a].waiting \in 0..Cardinality(Threads)
    <2>1. /\ Cardinality(Waiters(a)) \in Nat /\ Cardinality(Waiters(a)) <= Cardinality(Threads)
          /\ Cardinality(Threads) \in Nat
      BY WaitersFinite, IpsecConstants, FS_CardinalityType
    <2> QED BY <2>1 DEF DatabaseInv, Counted
  <1>2. entry \in [Addrs -> [id : 0..MaxSas, spi : Spis \cup {None}, inbound : BOOLEAN,
                             life : Lifetimes, locked : BOOLEAN,
                             awaits : BOOLEAN, waiting : 0..Cardinality(Threads)]]
    BY <1>1 DEF DatabaseInv, LooseType, Entries
  <1>3. ASSUME NEW a
        PROVE  a \in {b \in Addrs : entry[b] # Free}
                 <=> a \in Installed \cup {thread[t].at : t \in {u \in Threads : thread[u].pc = "free"}}
    <2>1. Installed \subseteq Addrs
      BY DEF DatabaseInv, LooseType, Installed, Range
    <2>2. \A t \in Threads : thread[t].pc = "free" => thread[t].at \in Addrs
      BY DEF DatabaseInv, Places
    <2> QED BY <2>1, <2>2 DEF DatabaseInv, Listed
  <1>4. {a \in Addrs : entry[a] # Free}
          = Installed \cup {thread[t].at : t \in {u \in Threads : thread[u].pc = "free"}}
    BY <1>3
  <1>5. TypeOK
    BY <1>2, <1>4 DEF TypeOK, DatabaseInv, LooseType, ThreadStates, Pcs
  <1> QED BY <1>5 DEF EntriesSound, DatabaseInv

\* A locked entry has one user, and an entry that is not locked has none.
LEMMA SoleUser == DatabaseInv => ExclusiveUse
  <1> SUFFICES ASSUME DatabaseInv, NEW a \in Addrs
               PROVE  Cardinality(Users(a)) = IF entry[a].locked THEN 1 ELSE 0
    BY DEF ExclusiveUse
  <1>1. CASE entry[a].locked
    <2>1. PICK t \in Threads : thread[t].pc = "use" /\ thread[t].at = a
      BY <1>1 DEF DatabaseInv, Locked
    <2>2. Users(a) = {t}
      BY <2>1 DEF DatabaseInv, Locked, Users
    <2>3. Cardinality(Users(a)) = Cardinality({t})
      BY <2>2, Zenon
    <2>4. Cardinality({t}) = 1
      BY FS_Singleton
    <2> QED BY <1>1, <2>3, <2>4
  <1>2. CASE ~entry[a].locked
    <2>1. Users(a) = {}
      BY <1>2 DEF DatabaseInv, Locked, Users
    <2>2. Cardinality(Users(a)) = Cardinality({})
      BY <2>1, Zenon
    <2>3. Cardinality({}) = 0
      BY FS_EmptySet
    <2> QED BY <1>2, <2>2, <2>3
  <1> QED BY <1>1, <1>2

\* The list and its entries are sound at any time: each entry is listed once until it
\* is freed, the count of the threads that wait for it is right, and it is freed once,
\* after the last thread has left it, however many threads install, use, query, delete,
\* expire and flush SAs.
THEOREM EntriesAlwaysSound == Spec => []EntriesSound
  <1>1. Spec => []DatabaseInv
    BY DatabaseInit, DatabaseStep, PTL DEF Spec
  <1> QED BY <1>1, SoundEntries, PTL

\* An SA is used by one thread at a time, and locked exactly as long.
THEOREM ExclusiveUseHolds == Spec => []ExclusiveUse
  <1>1. Spec => []DatabaseInv
    BY DatabaseInit, DatabaseStep, PTL DEF Spec
  <1> QED BY <1>1, SoleUser, PTL

\* Whoever sleeps on an entry nobody has locked is not the last one to know: the signal
\* of checkin() is passed on until nobody sleeps.
THEOREM NoWakeupLost == Spec => []NoLostWakeup
  <1>1. Spec => []DatabaseInv
    BY DatabaseInit, DatabaseStep, PTL DEF Spec
  <1>2. DatabaseInv => NoLostWakeup
    BY DEF DatabaseInv
  <1> QED BY <1>1, <1>2, PTL

-----------------------------------------------------------------------------
(* What a step leaves alone *)

\* Entries that stay keep what they are, and an entry awaiting its deletion does so
\* until it is gone.
Kept == \A a \in Installed' :
    /\ a \in Installed
    /\ entry'[a].id = entry[a].id /\ entry'[a].spi = entry[a].spi /\ entry'[a].life = entry[a].life
    /\ entry[a].awaits => entry'[a].awaits

\* The other threads stay where they are.
Others(t) == \A u \in Threads \ {t} :
    /\ thread'[u].pc = thread[u].pc /\ thread'[u].op = thread[u].op
    /\ thread'[u].at = thread[u].at /\ thread'[u].goal = thread[u].goal

\* The list is as it was, or has lost one entry.
Shorter == sas' = sas \/ \E a \in Installed : sas' = Without(a)

\* wait_for_entry changes the flags and the count of one entry.
LEMMA WaitKeeps ==
    ASSUME DatabaseInv, NEW t \in Threads, NEW a \in Installed, NEW o \in {"checkout", "query"},
           NEW e, WaitForEntry(t, e, a, o),
           e = entry[a] \/ e = [entry[a] EXCEPT !.waiting = @ - 1], sas' = sas
    PROVE  /\ Kept /\ Others(t)
           /\ thread'[t].pc \in {"idle", "wait", "use"}
  <1>1. /\ LooseType /\ a \in Addrs /\ entry \in [Addrs -> Entries] /\ entry[a] \in Entries
        /\ Installed' = Installed /\ Installed \subseteq Addrs
        /\ thread \in [Threads -> ThreadStates]
    BY DEF DatabaseInv, LooseType, Installed, Range
  <1>2. /\ e.id = entry[a].id /\ e.spi = entry[a].spi /\ e.life = entry[a].life
        /\ e.awaits = entry[a].awaits /\ e.locked = entry[a].locked
        /\ e.locked \in BOOLEAN /\ e.awaits \in BOOLEAN
        /\ DOMAIN e = DOMAIN entry[a]
        /\ DOMAIN e = {"id", "spi", "inbound", "life", "locked", "awaits", "waiting"}
    BY <1>1 DEF Entries
  <1>3. Idle \in ThreadStates /\ Idle.pc = "idle"
    BY IdleType DEF Idle
  <1>4. ASSUME NEW f, entry' = [entry EXCEPT ![a] = f],
               f.id = e.id, f.spi = e.spi, f.life = e.life, f.awaits = e.awaits
        PROVE  Kept
    BY <1>1, <1>2, <1>4 DEF Kept
  <1>5. ASSUME thread' \in Signal(With(t, Idle), a)
        PROVE  Others(t) /\ thread'[t].pc = "idle"
    BY <1>1, <1>3, <1>5, MovedSignal DEF Others, Moved
  <1>6. ASSUME NEW p \in Pcs, thread' = With(t, State(t, p, o, a))
        PROVE  Others(t) /\ thread'[t].pc = p
    <2>1. PICK st \in ThreadStates : st = State(t, p, o, a) /\ st.pc = p
      BY <1>1, StateType
    <2>2. Moved(t, st.pc, st.op, st.at, st.id)
      BY <1>1, <1>6, <2>1, MovedWith
    <2> QED BY <2>1, <2>2 DEF Others, Moved
  <1>7. CASE Refuse(t, e, a)
    BY <1>4, <1>5, <1>7 DEF Refuse
  <1>8. CASE Sleep(t, e, a, o)
    <2>1. PICK f : f = [e EXCEPT !.waiting = @ + 1]
      OBVIOUS
    <2>2. f.id = e.id /\ f.spi = e.spi /\ f.life = e.life /\ f.awaits = e.awaits
      BY <1>2, <2>1
    <2> QED BY <1>4, <1>6, <1>8, <2>1, <2>2 DEF Sleep, Pcs
  <1>9. CASE Take(t, e, a, o)
    <2>1. PICK f : f = [e EXCEPT !.locked = TRUE]
      OBVIOUS
    <2>2. f.id = e.id /\ f.spi = e.spi /\ f.life = e.life /\ f.awaits = e.awaits
      BY <1>2, <2>1
    <2>3. CASE o = "checkout"
      BY <1>4, <1>6, <1>9, <2>1, <2>2, <2>3 DEF Take, Pcs
    <2>4. CASE o = "query"
      BY <1>4, <1>5, <1>9, <2>4 DEF Take
    <2> QED BY <2>3, <2>4
  <1>10. Refuse(t, e, a) \/ Sleep(t, e, a, o) \/ Take(t, e, a, o)
    BY <1>2 DEF WaitForEntry
  <1> QED BY <1>7, <1>8, <1>9, <1>10

\* wait_remove_entry marks the entry and sleeps, or takes it off the list.
LEMMA RemoveKeeps ==
    ASSUME DatabaseInv, NEW t \in Threads, NEW a \in Installed, NEW op, Removes(t, op, a),
           WaitRemoveEntry(t, op, a)
    PROVE  /\ Kept /\ Others(t)
           /\ \/ /\ sas' = sas /\ entry'[a].awaits
                 /\ thread'[t].pc = "drain" /\ thread'[t].op = op /\ thread'[t].at = a
                 /\ thread'[t].goal = thread[t].goal
              \/ /\ sas' = Without(a) /\ Installed' = Installed \ {a}
                 /\ thread'[t].pc \in {"free", "idle", "flush"}
                 /\ thread'[t].pc = "flush" => /\ op = "flush" /\ thread'[t].at = Before(a)
                                               /\ thread'[t].goal = thread[t].goal
                 /\ op = "flush" => thread'[t].pc = "flush"
  <1>0. /\ LooseType /\ a \in Addrs /\ entry \in [Addrs -> Entries] /\ entry[a] \in Entries
        /\ Installed \subseteq Addrs /\ thread \in [Threads -> ThreadStates]
        /\ op \in {"del", "expire", "flush"}
    BY DEF DatabaseInv, LooseType, Installed, Range, Removes
  <1>1. CASE Drain(t, op, a)
    <2>1. /\ sas' = sas /\ Installed' = Installed
          /\ entry' = [entry EXCEPT ![a].awaits = TRUE]
      BY <1>1 DEF Drain, Installed
    <2>2. Kept /\ entry'[a].awaits
      BY <1>0, <2>1 DEF Kept, Entries
    <2>3. PICK st \in ThreadStates :
             /\ st = State(t, "drain", op, a) /\ st.pc = "drain" /\ st.op = op /\ st.at = a
             /\ st.goal = thread[t].goal
      BY <1>0, StateType DEF Pcs
    <2>4. PICK T \in [Threads -> ThreadStates] : Woken(T, thread) /\ thread' = [T EXCEPT ![t] = st]
      <3>1. Woken(thread, thread) /\ Woken(Broadcast(thread, a), thread)
        BY <1>0, WakeEffect DEF Broadcast, Woken
      <3> QED BY <1>1, <2>3, <3>1 DEF Drain, Woken
    <2>5. Others(t)
      BY <1>0, <2>4 DEF Others, Woken
    <2> QED BY <2>1, <2>2, <2>3, <2>4, <2>5
  <1>2. CASE Removed(t, op, a)
    <2>1. sas' = Without(a) /\ Installed' = Installed \ {a}
      <3>1. sas' = Without(a) /\ Range(Without(a)) = Installed \ {a}
        BY <1>0, <1>2, WithoutList DEF Removed, LooseType
      <3> QED BY <3>1 DEF Installed
    <2>2. Kept
      BY <1>0, <1>2, <2>1 DEF Removed, Kept
    <2>3. CASE op = "del"
      <3>1. PICK st \in ThreadStates : st = State(t, "free", op, a) /\ st.pc = "free"
        BY <1>0, StateType DEF Pcs
      <3>2. thread' = [thread EXCEPT ![t] = st]
        BY <1>2, <2>3, <3>1 DEF Removed, With
      <3> QED BY <1>0, <2>1, <2>2, <2>3, <3>1, <3>2 DEF Others
    <2>4. CASE op = "expire"
      <3>1. thread' = [thread EXCEPT ![t] = Idle] /\ Idle.pc = "idle"
        BY <1>2, <2>4 DEF Removed, With, Idle
      <3> QED BY <1>0, <2>1, <2>2, <2>4, <3>1 DEF Others
    <2>5. CASE op = "flush"
      <3>1. PICK x, b : x \in ThreadStates /\ x = thread[t] /\ b = Before(a)
        BY <1>0
      <3>2. PICK st : st = [x EXCEPT !.pc = "flush", !.at = b, !.id = 0, !.awake = FALSE]
        OBVIOUS
      <3>3. st.pc = "flush" /\ st.at = b /\ st.goal = x.goal
        BY <3>2 DEF ThreadStates
      <3>4. thread' = [thread EXCEPT ![t] = st]
        BY <1>2, <2>5, <3>1, <3>2 DEF Removed, With
      <3> QED BY <1>0, <2>1, <2>2, <2>5, <3>1, <3>3, <3>4 DEF Others
    <2> QED BY <1>0, <2>3, <2>4, <2>5
  <1> QED BY <1>1, <1>2 DEF WaitRemoveEntry

\* A job that fires is kept for the hard limit, or removes its SA, unless that is gone
\* or being removed.
LEMMA ExpiredKeeps ==
    ASSUME DatabaseInv, NEW t \in Threads, SaExpired(t)
    PROVE  /\ Kept /\ Others(t)
           /\ \E j \in jobs :
                 /\ jobs' = (jobs \ {j}) \cup (IF Hits(j) THEN Reschedule(j) ELSE {})
                 /\ Hits(j) /\ j.hard /\ j.at \in Installed' => entry'[j.at].awaits
           /\ Shorter /\ added' = added
           /\ thread'[t].pc # "flush" /\ (thread'[t].pc = "drain" => thread'[t].op = "expire")
  <1>1. PICK j \in jobs :
          /\ jobs' = (jobs \ {j}) \cup (IF Hits(j) THEN Reschedule(j) ELSE {})
          /\ \/ /\ ~Hits(j) \/ ~j.hard \/ entry[j.at].awaits
                /\ UNCHANGED <<sas, entry, thread, mutex>>
             \/ /\ Hits(j) /\ j.hard /\ ~entry[j.at].awaits
                /\ WaitRemoveEntry(t, "expire", j.at)
    BY DEF SaExpired
  <1>2. thread[t].pc = "idle" /\ mutex = None
    BY DEF SaExpired, IsIdle
  <1>3. CASE UNCHANGED <<sas, entry, thread, mutex>> /\ (~Hits(j) \/ ~j.hard \/ entry[j.at].awaits)
    BY <1>1, <1>2, <1>3 DEF Kept, Others, Installed, Shorter, SaExpired
  <1>4. CASE Hits(j) /\ ~entry[j.at].awaits /\ WaitRemoveEntry(t, "expire", j.at)
    <2>1. PICK a \in Installed : a = j.at /\ Removes(t, "expire", a) /\ WaitRemoveEntry(t, "expire", a)
      BY <1>2, <1>4 DEF Hits, Removes
    <2>2. /\ Kept /\ Others(t)
          /\ \/ /\ sas' = sas /\ entry'[a].awaits
                /\ thread'[t].pc = "drain" /\ thread'[t].op = "expire"
             \/ /\ sas' = Without(a) /\ Installed' = Installed \ {a}
                /\ thread'[t].pc \in {"free", "idle"}
      BY <2>1, RemoveKeeps
    <2> QED BY <1>1, <2>1, <2>2 DEF Shorter, SaExpired
  <1> QED BY <1>1, <1>3, <1>4

\* The other steps, except add_sa.
LEMMA StepKeeps ==
    ASSUME DatabaseInv, NEW t \in Threads,
           \/ GetSpi(t) \/ ProcessInbound(t) \/ ProcessOutbound(t) \/ Checkin(t)
           \/ QueryOrUpdate(t) \/ WaiterWakes(t)
           \/ DelSa(t) \/ RemoverWakes(t) \/ DestroyEntry(t)
           \/ FlushSas(t) \/ FlushEntry(t)
    PROVE  Kept /\ Others(t) /\ Shorter /\ jobs' = jobs /\ added' = added
  <1>0. /\ LooseType /\ entry \in [Addrs -> Entries]
        /\ Installed \subseteq Addrs /\ thread \in [Threads -> ThreadStates]
    BY DEF DatabaseInv, LooseType, Installed, Range
  <1>1. CASE GetSpi(t)
    BY <1>1 DEF GetSpi, Shorter, Kept, Others, Installed
  <1>2. ASSUME NEW a \in Installed, Checkout(t, a)
        PROVE  Kept /\ Others(t) /\ Shorter /\ jobs' = jobs /\ added' = added
    BY <1>2, WaitKeeps DEF Checkout, Shorter
  <1>3. CASE ProcessInbound(t) \/ ProcessOutbound(t)
    <2>1. PICK a \in Installed : Checkout(t, a)
      BY <1>3 DEF ProcessInbound, ProcessOutbound, Installed, Range
    <2> QED BY <1>2, <2>1
  <1>4. CASE Checkin(t)
    <2>1. PICK a \in Installed : /\ entry' = [entry EXCEPT ![a].locked = FALSE]
                                 /\ thread' \in Signal(With(t, Idle), a)
      BY <1>4 DEF DatabaseInv, Places, Locked, Checkin
    <2>2. Others(t)
      BY <1>0, <2>1, IdleType, MovedSignal DEF Others, Moved
    <2>3. Kept
      BY <1>0, <1>4, <2>1 DEF Kept, Checkin, Installed, Entries
    <2> QED BY <1>4, <2>2, <2>3 DEF Checkin, Shorter
  <1>5. CASE QueryOrUpdate(t)
    BY <1>5, WaitKeeps DEF QueryOrUpdate, Shorter
  <1>6. CASE WaiterWakes(t)
    <2>1. thread[t].at \in Installed /\ thread[t].op \in {"checkout", "query"}
      BY <1>6 DEF DatabaseInv, Places, WaiterWakes
    <2> QED BY <1>6, <2>1, WaitKeeps DEF WaiterWakes, Shorter
  <1>7. CASE DelSa(t)
    <2>1. PICK a \in Installed : Removes(t, "del", a) /\ WaitRemoveEntry(t, "del", a)
      BY <1>7 DEF DelSa, Removes, IsIdle
    <2> QED BY <1>7, <2>1, RemoveKeeps DEF DelSa, Shorter
  <1>8. CASE RemoverWakes(t)
    <2>1. thread[t].at \in Installed /\ Removes(t, thread[t].op, thread[t].at)
      BY <1>8 DEF DatabaseInv, Places, RemoverWakes, Removes
    <2> QED BY <1>8, <2>1, RemoveKeeps DEF RemoverWakes, Shorter
  <1>9. CASE DestroyEntry(t)
    <2>1. thread[t].at \notin Installed
      BY <1>9 DEF DatabaseInv, Places, DestroyEntry
    <2> QED BY <1>0, <1>9, <2>1 DEF DestroyEntry, Shorter, Kept, Others, Installed, With
  <1>10. CASE FlushSas(t)
    BY <1>0, <1>10 DEF FlushSas, Shorter, Kept, Others, Installed, With
  <1>11. CASE FlushEntry(t)
    <2>1. /\ thread[t].pc = "flush" /\ thread[t].op = "flush" /\ mutex = t
          /\ thread[t].at \in Installed \cup {None} /\ thread[t] \in ThreadStates
      BY <1>0, <1>11 DEF DatabaseInv, Places, FlushEntry
    <2>2. PICK a \in Installed \cup {None} : a = After(thread[t].at)
      BY <1>0, <2>1, EnumeratorPlaces
    <2>3. CASE UNCHANGED <<sas, entry>> /\ Others(t)
      BY <1>11, <2>3 DEF FlushEntry, Shorter, Kept, Installed
    <2>4. CASE a # None /\ ~entry[a].awaits /\ WaitRemoveEntry(t, "flush", a)
      BY <1>11, <2>1, <2>4, RemoveKeeps DEF FlushEntry, Removes, Shorter
    <2>5. \/ UNCHANGED <<sas, entry>> /\ Others(t)
          \/ a # None /\ ~entry[a].awaits /\ WaitRemoveEntry(t, "flush", a)
      BY <1>0, <1>11, <2>2 DEF FlushEntry, Others, With
    <2> QED BY <2>3, <2>4, <2>5
  <1> QED BY <1>1, <1>3, <1>4, <1>5, <1>6, <1>7, <1>8, <1>9, <1>10, <1>11

-----------------------------------------------------------------------------
(* Expiry *)

\* Steps that keep the jobs keep expiry exact.
LEMMA ExpiryKept ==
    ASSUME ExpiryInv, Kept, jobs' = jobs
    PROVE  ExpiryInv'
  <1>1. OwnExpiry'
    BY DEF ExpiryInv, OwnExpiry, Hits, Kept
  <1>2. \A a \in Installed' : entry'[a].life # "none" /\ ~entry'[a].awaits =>
           \E j \in jobs' : j.at = a /\ j.id = entry'[a].id /\ Hits(j)'
    BY DEF ExpiryInv, Hits, Kept
  <1> QED BY <1>1, <1>2 DEF ExpiryInv

\* A job that fires is rescheduled, or its SA is gone or being removed.
LEMMA ExpiryFires ==
    ASSUME DatabaseInv, ExpiryInv, NEW t \in Threads, SaExpired(t)
    PROVE  ExpiryInv'
  <1>1. Kept
    BY ExpiredKeeps
  <1>2. PICK j \in jobs :
           /\ jobs' = (jobs \ {j}) \cup (IF Hits(j) THEN Reschedule(j) ELSE {})
           /\ Hits(j) /\ j.hard /\ j.at \in Installed' => entry'[j.at].awaits
    BY ExpiredKeeps
  <1>3. jobs \subseteq JobType
    BY DEF DatabaseInv, LooseType, JobType
  <1>4. PICK r : r = [j EXCEPT !.hard = TRUE]
    OBVIOUS
  <1>5. r.at = j.at /\ r.spi = j.spi /\ r.id = j.id
    BY <1>3, <1>4 DEF JobType
  <1>6. \A i \in jobs' : i \in jobs \/ (i = r /\ Hits(j))
    BY <1>2, <1>4 DEF Reschedule
  <1>7. OwnExpiry'
    BY <1>1, <1>5, <1>6 DEF ExpiryInv, OwnExpiry, Hits, Kept
  <1>8. ASSUME NEW a \in Installed', entry'[a].life # "none", ~entry'[a].awaits
        PROVE  \E i \in jobs' : i.at = a /\ i.id = entry'[a].id /\ Hits(i)'
    <2>1. /\ a \in Installed /\ entry[a].life # "none" /\ ~entry[a].awaits
          /\ entry'[a].id = entry[a].id /\ entry'[a].spi = entry[a].spi
      BY <1>1, <1>8 DEF Kept
    <2>2. PICK i \in jobs : i.at = a /\ i.id = entry[a].id /\ Hits(i)
      BY <2>1 DEF ExpiryInv
    <2>3. CASE i # j
      BY <1>2, <1>8, <2>1, <2>2, <2>3 DEF Hits
    <2>4. CASE i = j
      <3>1. ~j.hard
        BY <1>2, <1>8, <2>2, <2>4
      <3>2. r \in jobs'
        BY <1>2, <1>4, <2>2, <2>4, <3>1 DEF Reschedule
      <3> QED BY <1>5, <1>8, <2>1, <2>2, <2>4, <3>2 DEF Hits
    <2> QED BY <2>3, <2>4
  <1> QED BY <1>7, <1>8 DEF ExpiryInv

\* A new SA gets a job of its own, and those left from the address are not its.
LEMMA ExpiryAdds ==
    ASSUME DatabaseInv, ExpiryInv, NEW t \in Threads, AddSa(t)
    PROVE  ExpiryInv'
  <1>0. PICK k \in Kinds, life \in Lifetimes, a \in Addrs :
          /\ entry[a] = Free
          /\ \A j \in jobs : ~(j.at = a /\ j.spi = k.spi)
          /\ entry' = [entry EXCEPT ![a] =
                          [Free EXCEPT !.id = added + 1, !.spi = k.spi,
                                       !.inbound = k.inbound, !.life = life]]
          /\ jobs' = jobs \cup ScheduleExpiration(a, k.spi, life)
          /\ sas' = <<a>> \o sas
    BY SceneTypes DEF AddSa, DatabaseInv
  <1>1. /\ LooseType /\ a \notin Installed /\ Installed \subseteq Addrs
        /\ entry \in [Addrs -> Entries]
    BY <1>0 DEF DatabaseInv, LooseType, Listed, Installed, Range
  <1>2. Installed' = Installed \cup {a}
    <2>1. Range(<<a>> \o sas) = Installed \cup {a}
      BY <1>1, FrontList DEF LooseType
    <2> QED BY <1>0, <2>1 DEF Installed
  <1>3. /\ entry'[a].id = added + 1 /\ entry'[a].spi = k.spi /\ entry'[a].life = life
        /\ \A b \in Addrs \ {a} : entry'[b] = entry[b]
    <2>1. PICK n, s, i : n = added + 1 /\ s = k.spi /\ i = k.inbound
      OBVIOUS
    <2>2. PICK e : e = [Free EXCEPT !.id = n, !.spi = s, !.inbound = i, !.life = life]
      OBVIOUS
    <2>3. e.id = n /\ e.spi = s /\ e.life = life
      BY <2>2 DEF Free
    <2>4. entry' = [entry EXCEPT ![a] = e]
      BY <1>0, <2>1, <2>2
    <2> QED BY <1>1, <2>1, <2>3, <2>4
  <1>4. \A j \in jobs' \ jobs : j.at = a /\ j.spi = k.spi /\ j.id = added + 1
    BY <1>0 DEF ScheduleExpiration
  <1>5. life # "none" => \E j \in jobs' : j.at = a /\ j.spi = k.spi /\ j.id = added + 1
    <2>1. PICK h : h = (life = "hard")
      OBVIOUS
    <2>2. PICK j : j = [at |-> a, spi |-> k.spi, id |-> added + 1, hard |-> h]
      OBVIOUS
    <2>3. j.at = a /\ j.spi = k.spi /\ j.id = added + 1
      BY <2>2
    <2>4. life # "none" => j \in jobs'
      BY <1>0, <2>1, <2>2 DEF ScheduleExpiration
    <2> QED BY <2>3, <2>4
  <1>6. jobs \subseteq jobs'
    BY <1>0
  <1>7. OwnExpiry'
    <2> SUFFICES ASSUME NEW j \in jobs', j.at \in Installed', entry'[j.at].spi = j.spi
                 PROVE  entry'[j.at].id = j.id
      BY DEF OwnExpiry, Hits
    <2>1. CASE j \in jobs
      BY <1>0, <1>1, <1>2, <1>3, <2>1 DEF ExpiryInv, OwnExpiry, Hits
    <2>2. CASE j \notin jobs
      BY <1>3, <1>4, <2>2
    <2> QED BY <2>1, <2>2
  <1>8. ASSUME NEW b \in Installed', entry'[b].life # "none", ~entry'[b].awaits
        PROVE  \E j \in jobs' : j.at = b /\ j.id = entry'[b].id /\ Hits(j)'
    <2>1. CASE b = a
      BY <1>2, <1>3, <1>5, <1>8, <2>1 DEF Hits
    <2>2. CASE b # a
      <3>1. b \in Installed /\ entry'[b] = entry[b]
        BY <1>1, <1>2, <1>3, <2>2
      <3>2. PICK j \in jobs : j.at = b /\ j.id = entry[b].id /\ Hits(j)
        BY <1>8, <3>1 DEF ExpiryInv
      <3> QED BY <1>2, <1>6, <3>1, <3>2 DEF Hits
    <2> QED BY <2>1, <2>2
  <1> QED BY <1>7, <1>8 DEF ExpiryInv

\* Every step keeps expiry exact.
LEMMA ExpiryStep == DatabaseInv /\ ExpiryInv /\ [Next]_vars => ExpiryInv'
  <1> SUFFICES ASSUME DatabaseInv, ExpiryInv, [Next]_vars PROVE ExpiryInv'
    OBVIOUS
  <1>1. CASE UNCHANGED vars
    BY <1>1, ExpiryKept DEF vars, Kept, Installed
  <1>2. CASE Next
    <2>1. PICK t \in Threads :
             \/ GetSpi(t) \/ AddSa(t)
             \/ ProcessInbound(t) \/ ProcessOutbound(t) \/ Checkin(t)
             \/ QueryOrUpdate(t) \/ WaiterWakes(t)
             \/ DelSa(t) \/ RemoverWakes(t) \/ DestroyEntry(t) \/ SaExpired(t)
             \/ FlushSas(t) \/ FlushEntry(t)
      BY <1>2, SceneTypes DEF Next, DatabaseInv
    <2> QED BY <2>1, ExpiryAdds, ExpiryFires, ExpiryKept, StepKeeps
  <1> QED BY <1>1, <1>2

\* Every SA with a lifetime is expired by its own job, and no SA by another's, although
\* addresses are used again while jobs of SAs that are gone are still scheduled.
THEOREM ExpiryIsExact == Spec => []ExpiryExact
  <1>1. Init => DatabaseInv /\ ExpiryInv
    <2>1. Init => ExpiryInv
      BY DEF Init, ExpiryInv, OwnExpiry, Installed, Range
    <2> QED BY <2>1, DatabaseInit
  <1>2. DatabaseInv /\ ExpiryInv /\ [Next]_vars => DatabaseInv' /\ ExpiryInv'
    BY DatabaseStep, ExpiryStep
  <1>3. DatabaseInv /\ ExpiryInv => ExpiryExact
    BY DEF ExpiryInv, ExpiryExact, ExpiryArmed
  <1> QED BY <1>1, <1>2, <1>3, PTL DEF Spec

-----------------------------------------------------------------------------
(* Flush *)

\* The entries from the front of the list up to x.
Upto(s, x) == {s[m] : m \in {n \in DOMAIN s : \E l \in DOMAIN s : n <= l /\ s[l] = x}}

\* A flush has dealt with every SA its enumerator has passed, and that was there when
\* it began.
FlushInv == \A t \in Threads :
    thread[t].pc = "flush" \/ (thread[t].pc = "drain" /\ thread[t].op = "flush") =>
       /\ thread[t].goal <= added
       /\ \A a \in Upto(sas, thread[t].at) : entry[a].id <= thread[t].goal => entry[a].awaits

\* The enumerator passes the entries one after the other, and none is left at the end.
LEMMA UptoAfter ==
    ASSUME LooseType, NEW x \in Installed \cup {None}
    PROVE  /\ After(x) = None => Installed \subseteq Upto(sas, x)
           /\ After(x) # None => Upto(sas, After(x)) \subseteq Upto(sas, x) \cup {After(x)}
  <1>0. sas \in Seq(Addrs) /\ IsInjective(sas) /\ None \notin Addrs /\ Len(sas) \in Nat
    BY IpsecConstants DEF LooseType
  <1>1. CASE x = None
    <2>1. After(x) = IF 1 \in DOMAIN sas THEN sas[1] ELSE None
      BY <1>1 DEF After
    <2>2. CASE 1 \in DOMAIN sas
      <3>1. After(x) = sas[1] /\ After(x) # None
        BY <1>0, <2>1, <2>2
      <3>2. \A l \in DOMAIN sas : sas[l] = sas[1] => l = 1
        BY <1>0, <2>2 DEF IsInjective
      <3>3. \A n \in DOMAIN sas : n <= 1 => n = 1
        BY <1>0
      <3> QED BY <3>1, <3>2, <3>3 DEF Upto
    <2>3. CASE 1 \notin DOMAIN sas
      <3>1. DOMAIN sas = {}
        BY <1>0, <2>3
      <3> QED BY <2>1, <2>3, <3>1 DEF Installed, Range
    <2> QED BY <2>2, <2>3
  <1>2. CASE x \in Installed
    <2>1. PICK i \in 1..Len(sas) : i = Position(x) /\ sas[i] = x
      BY <1>0, <1>2, PositionListed
    <2>2. After(x) = IF i + 1 \in DOMAIN sas THEN sas[i + 1] ELSE None
      <3>1. x # None
        BY <1>0, <2>1
      <3> QED BY <2>1, <3>1 DEF After
    <2>3. CASE i + 1 \in DOMAIN sas
      <3>1. After(x) = sas[i + 1] /\ After(x) # None
        BY <1>0, <2>2, <2>3
      <3>2. \A l \in DOMAIN sas : sas[l] = sas[i + 1] => l = i + 1
        BY <1>0, <2>3 DEF IsInjective
      <3>3. \A n \in DOMAIN sas : n <= i + 1 => n <= i \/ n = i + 1
        BY <1>0
      <3>4. i \in DOMAIN sas
        BY <1>0
      <3> QED BY <2>1, <3>1, <3>2, <3>3, <3>4 DEF Upto
    <2>4. CASE i + 1 \notin DOMAIN sas
      <3>1. \A n \in DOMAIN sas : n <= i
        BY <1>0, <2>4
      <3>2. i \in DOMAIN sas
        BY <1>0
      <3>3. Installed \subseteq Upto(sas, x)
        BY <2>1, <3>1, <3>2 DEF Upto, Installed, Range
      <3>4. After(x) = None
        BY <2>2, <2>4
      <3> QED BY <3>3, <3>4
    <2> QED BY <2>3, <2>4
  <1> QED BY <1>1, <1>2

\* The entries up to one that stays, when another one is taken off the list.
LEMMA UptoWithout ==
    ASSUME LooseType, NEW a \in Installed
    PROVE  /\ \A x : Upto(Without(a), x) \subseteq Upto(sas, x) \ {a}
           /\ Upto(Without(a), Before(a)) \subseteq Upto(sas, a) \ {a}
  <1>0. sas \in Seq(Addrs) /\ IsInjective(sas) /\ None \notin Addrs /\ Len(sas) \in Nat
    BY IpsecConstants DEF LooseType
  <1>1. PICK i \in 1..Len(sas) : i = Position(a) /\ sas[i] = a
    BY <1>0, PositionListed
  <1>2. PICK r : r = Without(a)
    OBVIOUS
  <1>3. /\ r \in Seq(Addrs) /\ Len(r) = Len(sas) - 1
        /\ \A k \in 1..(Len(sas) - 1) : r[k] = IF k < i THEN sas[k] ELSE sas[k + 1]
    <2>1. /\ RemoveAt(sas, i) \in Seq(Addrs) /\ Len(RemoveAt(sas, i)) = Len(sas) - 1
          /\ \A k \in 1..(Len(sas) - 1) : RemoveAt(sas, i)[k] = IF k < i THEN sas[k] ELSE sas[k + 1]
      BY <1>0, RemoveAtList
    <2>2. r = RemoveAt(sas, i)
      BY <1>1, <1>2 DEF Without
    <2> QED BY <2>1, <2>2
  <1>4. DOMAIN r = 1..(Len(sas) - 1) /\ DOMAIN sas = 1..Len(sas)
    BY <1>0, <1>3
  <1> DEFINE f(k) == IF k < i THEN k ELSE k + 1
  <1>5. \A k \in DOMAIN r : f(k) \in DOMAIN sas /\ r[k] = sas[f(k)] /\ f(k) # i
    BY <1>0, <1>3, <1>4
  <1>6. \A k, l \in DOMAIN r : k <= l => f(k) <= f(l)
    BY <1>0, <1>4
  <1>7. \A k \in DOMAIN r : r[k] # a
    BY <1>0, <1>1, <1>4, <1>5 DEF IsInjective
  <1>8. ASSUME NEW x, NEW b \in Upto(r, x) PROVE b \in Upto(sas, x) \ {a}
    <2>1. PICK m \in DOMAIN r, l \in DOMAIN r : m <= l /\ r[l] = x /\ r[m] = b
      BY <1>8 DEF Upto
    <2>2. PICK n \in DOMAIN sas, o \in DOMAIN sas : n = f(m) /\ o = f(l)
      BY <1>5
    <2>3. n <= o /\ sas[o] = x /\ sas[n] = b
      BY <1>5, <1>6, <2>1, <2>2
    <2>4. b \in Upto(sas, x)
      BY <2>3 DEF Upto
    <2> QED BY <1>7, <2>1, <2>4
  <1>9. ASSUME NEW b \in Upto(r, Before(a)) PROVE b \in Upto(sas, a) \ {a}
    <2>1. PICK m \in DOMAIN sas, l \in DOMAIN sas : m <= l /\ sas[l] = Before(a) /\ sas[m] = b
      BY <1>8, <1>9 DEF Upto
    <2>2. l <= i
      <3>1. CASE i = 1
        BY <1>0, <1>1, <2>1, <3>1 DEF Before
      <3>2. CASE i # 1
        <4>1. Before(a) = sas[i - 1] /\ i - 1 \in DOMAIN sas
          BY <1>1, <1>4, <3>2 DEF Before
        <4>2. l = i - 1
          BY <1>0, <2>1, <4>1 DEF IsInjective
        <4> QED BY <4>2
      <3> QED BY <3>1, <3>2
    <2>3. m <= i /\ i \in DOMAIN sas
      BY <1>4, <2>1, <2>2
    <2>4. b \in Upto(sas, a)
      BY <1>1, <2>1, <2>3 DEF Upto
    <2> QED BY <1>8, <1>9, <2>4
  <1> QED BY <1>2, <1>8, <1>9

\* The entries up to one on the list, when another one is added at the front.
LEMMA UptoFront ==
    ASSUME sas \in Seq(Addrs), NEW a \in Addrs, NEW x, x # a
    PROVE  Upto(<<a>> \o sas, x) \subseteq Upto(sas, x) \cup {a}
  <1>1. PICK r : r = <<a>> \o sas
    OBVIOUS
  <1>2. /\ r \in Seq(Addrs) /\ Len(r) = Len(sas) + 1 /\ r[1] = a
        /\ \A k \in 1..Len(sas) : r[k + 1] = sas[k]
    BY <1>1
  <1>3. DOMAIN r = 1..(Len(sas) + 1) /\ DOMAIN sas = 1..Len(sas) /\ Len(sas) \in Nat
    BY <1>2
  <1>4. \A k \in DOMAIN r : k # 1 => k - 1 \in DOMAIN sas /\ r[k] = sas[k - 1]
    <2> SUFFICES ASSUME NEW k \in DOMAIN r, k # 1 PROVE k - 1 \in DOMAIN sas /\ r[k] = sas[k - 1]
      OBVIOUS
    <2>1. k - 1 \in 1..Len(sas) /\ (k - 1) + 1 = k
      BY <1>3
    <2> QED BY <1>2, <1>3, <2>1
  <1>5. ASSUME NEW b \in Upto(r, x) PROVE b \in Upto(sas, x) \cup {a}
    <2>1. PICK m \in DOMAIN r, l \in DOMAIN r : m <= l /\ r[l] = x /\ r[m] = b
      BY <1>5 DEF Upto
    <2>2. CASE m = 1
      BY <1>2, <2>1, <2>2
    <2>3. CASE m # 1
      <3>1. /\ m - 1 \in DOMAIN sas /\ l - 1 \in DOMAIN sas /\ m - 1 <= l - 1
            /\ sas[l - 1] = x /\ sas[m - 1] = b
        BY <1>2, <1>3, <1>4, <2>1, <2>3
      <3>2. b \in Upto(sas, x)
        BY <3>1 DEF Upto
      <3> QED BY <3>2
    <2> QED BY <2>2, <2>3
  <1> QED BY <1>1, <1>5

\* t flushes: it is in the loop of flush_sas, or waits there to remove an entry.
Flushes(t) == thread[t].pc = "flush" \/ (thread[t].pc = "drain" /\ thread[t].op = "flush")
\* What FlushInv says of one thread.
Passed(t) == /\ thread[t].goal <= added
             /\ \A a \in Upto(sas, thread[t].at) :
                   entry[a].id <= thread[t].goal => entry[a].awaits

\* A thread whose enumerator is not moved has dealt with what it passed.
LEMMA PassedKept ==
    ASSUME DatabaseInv, Kept, Shorter, added' = added, NEW u \in Threads, Passed(u),
           thread'[u].goal = thread[u].goal, thread'[u].at = thread[u].at
    PROVE  Passed(u)'
  <1>1. LooseType
    BY DEF DatabaseInv
  <1>2. Upto(sas', thread[u].at) \subseteq Upto(sas, thread[u].at)
    BY <1>1, UptoWithout DEF Shorter
  <1>3. Upto(sas', thread[u].at) \subseteq Installed'
    BY DEF Upto, Installed, Range
  <1>4. ASSUME NEW a \in Upto(sas', thread[u].at), entry'[a].id <= thread[u].goal
        PROVE  entry'[a].awaits
    BY <1>2, <1>3, <1>4 DEF Kept, Passed
  <1> QED BY <1>4 DEF Passed

\* The thread that moves.
LEMMA FlushMovesOn ==
    ASSUME DatabaseInv, FlushInv, NEW t \in Threads,
           FlushSas(t) \/ FlushEntry(t) \/ RemoverWakes(t), Flushes(t)'
    PROVE  Passed(t)'
  <1>0. /\ LooseType /\ Installed \subseteq Addrs /\ thread \in [Threads -> ThreadStates]
        /\ None \notin Addrs /\ added \in Nat /\ sas \in Seq(Addrs)
    BY IpsecConstants DEF DatabaseInv, LooseType, Installed, Range
  <1>1. CASE FlushSas(t)
    <2>1. thread'[t].at = None /\ thread'[t].goal = added /\ sas' = sas /\ added' = added
      BY <1>0, <1>1 DEF FlushSas, With, Idle
    <2>2. Upto(sas, None) = {}
      BY <1>0 DEF Upto
    <2> QED BY <1>0, <2>1, <2>2 DEF Passed
  <1>2. ASSUME NEW a \in Installed, Removes(t, "flush", a), WaitRemoveEntry(t, "flush", a),
               added' = added, thread[t].goal <= added,
               \A b \in Upto(sas, a) \ {a} : entry[b].id <= thread[t].goal => entry[b].awaits
        PROVE  Passed(t)'
    <2>1. /\ Kept
          /\ \/ /\ sas' = sas /\ entry'[a].awaits
                /\ thread'[t].at = a /\ thread'[t].goal = thread[t].goal
             \/ /\ sas' = Without(a)
                /\ thread'[t].at = Before(a) /\ thread'[t].goal = thread[t].goal
      BY <1>2, RemoveKeeps DEF Flushes
    <2>2. Upto(sas', thread'[t].at) \subseteq Installed'
      BY DEF Upto, Installed, Range
    <2>3. CASE sas' = sas /\ entry'[a].awaits /\ thread'[t].at = a /\ thread'[t].goal = thread[t].goal
      BY <1>2, <2>1, <2>2, <2>3 DEF Kept, Passed
    <2>4. CASE /\ sas' = Without(a)
               /\ thread'[t].at = Before(a) /\ thread'[t].goal = thread[t].goal
      <3>1. Upto(sas', Before(a)) \subseteq Upto(sas, a) \ {a}
        BY <1>0, <2>4, UptoWithout
      <3> QED BY <1>2, <2>1, <2>2, <2>4, <3>1 DEF Kept, Passed
    <2> QED BY <2>1, <2>3, <2>4
  <1>3. CASE FlushEntry(t)
    <2>1. /\ thread[t].pc = "flush" /\ thread[t].op = "flush" /\ mutex = t
          /\ thread[t].at \in Installed \cup {None} /\ thread[t] \in ThreadStates
      BY <1>0, <1>3 DEF DatabaseInv, Places, FlushEntry
    <2>2. PICK a \in Installed \cup {None} : a = After(thread[t].at)
      BY <1>0, <2>1, EnumeratorPlaces
    <2>3. thread[t].goal <= added /\ added' = added
      BY <1>3, <2>1 DEF FlushInv, FlushEntry
    <2>4. a # None => \A b \in Upto(sas, a) \ {a} : entry[b].id <= thread[t].goal => entry[b].awaits
      BY <1>0, <2>1, <2>2, UptoAfter DEF FlushInv
    <2>5. CASE a # None /\ ~entry[a].awaits
      <3>1. a \in Installed /\ Removes(t, "flush", a) /\ WaitRemoveEntry(t, "flush", a)
        BY <1>3, <2>1, <2>2, <2>5 DEF FlushEntry, Removes
      <3> QED BY <1>2, <2>3, <2>4, <2>5, <3>1
    <2>6. CASE a # None /\ entry[a].awaits
      <3>1. /\ thread'[t].at = a /\ thread'[t].goal = thread[t].goal
            /\ UNCHANGED <<sas, entry>>
        BY <1>0, <1>3, <2>1, <2>2, <2>6 DEF FlushEntry, ThreadStates
      <3> QED BY <2>3, <2>4, <2>6, <3>1 DEF Passed
    <2>7. CASE a = None
      <3>1. thread'[t].pc = "idle"
        BY <1>0, <1>3, <2>2, <2>7 DEF FlushEntry, With, Idle
      <3> QED BY <3>1 DEF Flushes
    <2> QED BY <2>5, <2>6, <2>7
  <1>4. CASE RemoverWakes(t)
    <2>1. PICK a \in Installed : a = thread[t].at /\ Removes(t, thread[t].op, a)
                                 /\ WaitRemoveEntry(t, thread[t].op, a)
      BY <1>4 DEF DatabaseInv, Places, RemoverWakes, Removes
    <2>2. thread[t].op = "flush"
      BY <2>1, RemoveKeeps DEF Flushes
    <2>3. Passed(t)
      BY <1>4, <2>2 DEF FlushInv, Passed, RemoverWakes
    <2> QED BY <1>2, <1>4, <2>1, <2>2, <2>3 DEF Passed, RemoverWakes
  <1> QED BY <1>1, <1>3, <1>4

\* A thread that does something else does not come to flush.
LEMMA OtherwiseNoFlush ==
    ASSUME DatabaseInv, NEW t \in Threads,
           \/ GetSpi(t) \/ ProcessInbound(t) \/ ProcessOutbound(t) \/ Checkin(t)
           \/ QueryOrUpdate(t) \/ WaiterWakes(t) \/ DelSa(t) \/ DestroyEntry(t) \/ SaExpired(t)
    PROVE  ~Flushes(t)'
  <1>0. LooseType /\ thread \in [Threads -> ThreadStates] /\ Idle \in ThreadStates /\ Idle.pc = "idle"
    BY IdleType DEF DatabaseInv, LooseType, Idle
  <1>1. CASE GetSpi(t)
    BY <1>1 DEF GetSpi, Flushes, IsIdle
  <1>2. ASSUME NEW a \in Installed, Checkout(t, a) PROVE ~Flushes(t)'
    BY <1>2, WaitKeeps DEF Checkout, Flushes
  <1>3. CASE ProcessInbound(t) \/ ProcessOutbound(t)
    <2>1. PICK a \in Installed : Checkout(t, a)
      BY <1>3 DEF ProcessInbound, ProcessOutbound, Installed, Range
    <2> QED BY <1>2, <2>1
  <1>4. CASE Checkin(t)
    <2>1. PICK a : thread' \in Signal(With(t, Idle), a)
      BY <1>4 DEF DatabaseInv, Places, Locked, Checkin
    <2>2. Moved(t, "idle", Idle.op, Idle.at, Idle.id)
      BY <1>0, <2>1, MovedSignal
    <2> QED BY <2>2 DEF Moved, Flushes
  <1>5. CASE QueryOrUpdate(t)
    BY <1>5, WaitKeeps DEF QueryOrUpdate, Flushes
  <1>6. CASE WaiterWakes(t)
    <2>1. thread[t].at \in Installed /\ thread[t].op \in {"checkout", "query"}
      BY <1>6 DEF DatabaseInv, Places, WaiterWakes
    <2> QED BY <1>6, <2>1, WaitKeeps DEF WaiterWakes, Flushes
  <1>7. CASE DelSa(t)
    <2>1. PICK a \in Installed : Removes(t, "del", a) /\ WaitRemoveEntry(t, "del", a)
      BY <1>7 DEF DelSa, Removes, IsIdle
    <2> QED BY <2>1, RemoveKeeps DEF Flushes
  <1>8. CASE DestroyEntry(t)
    BY <1>0, <1>8 DEF DestroyEntry, With, Flushes
  <1>9. CASE SaExpired(t)
    BY <1>9, ExpiredKeeps DEF Flushes
  <1> QED BY <1>1, <1>3, <1>4, <1>5, <1>6, <1>7, <1>8, <1>9

\* An SA installed meanwhile goes to the front of the list, past the enumerator.
LEMMA FlushAdds ==
    ASSUME DatabaseInv, FlushInv, NEW t \in Threads, AddSa(t), NEW u \in Threads, Flushes(u)'
    PROVE  Passed(u)'
  <1>0. PICK a, e :
          /\ a \in Addrs /\ entry[a] = Free /\ entry' = [entry EXCEPT ![a] = e] /\ e.id = added + 1
          /\ sas' = <<a>> \o sas
    <2>1. PICK k \in Kinds, life \in Lifetimes, a \in Addrs :
            /\ entry[a] = Free
            /\ entry' = [entry EXCEPT ![a] =
                            [Free EXCEPT !.id = added + 1, !.spi = k.spi,
                                         !.inbound = k.inbound, !.life = life]]
            /\ sas' = <<a>> \o sas
      BY SceneTypes DEF AddSa, DatabaseInv
    <2>2. PICK n, s, i : n = added + 1 /\ s = k.spi /\ i = k.inbound
      OBVIOUS
    <2>3. PICK e : e = [Free EXCEPT !.id = n, !.spi = s, !.inbound = i, !.life = life]
      OBVIOUS
    <2>4. e.id = n
      BY <2>3 DEF Free
    <2> QED BY <2>1, <2>2, <2>3, <2>4
  <1>1. /\ LooseType /\ sas \in Seq(Addrs) /\ Installed \subseteq Addrs
        /\ entry \in [Addrs -> Entries] /\ added \in Nat /\ a \notin Installed
        /\ added' = added + 1 /\ thread' = thread /\ mutex = None
    BY <1>0, IpsecConstants DEF DatabaseInv, LooseType, Listed, Installed, Range, AddSa, IsIdle
  <1>2. /\ Passed(u) /\ thread[u].at \in Installed /\ thread[u].goal \in Nat
    BY <1>1, IpsecConstants DEF Flushes, FlushInv, Passed, DatabaseInv, Places, LooseType,
                                ThreadStates
  <1>3. Upto(sas', thread[u].at) \subseteq Upto(sas, thread[u].at) \cup {a}
    BY <1>0, <1>1, <1>2, UptoFront
  <1>4. Upto(sas, thread[u].at) \subseteq Installed
    BY DEF Upto, Installed, Range
  <1>5. ASSUME NEW b \in Upto(sas', thread[u].at), entry'[b].id <= thread[u].goal
        PROVE  entry'[b].awaits
    <2>1. CASE b = a
      <3>1. entry'[b].id = added + 1 /\ thread[u].goal <= added
        BY <1>0, <1>1, <1>2, <2>1 DEF Passed
      <3> QED BY <1>1, <1>2, <1>5, <3>1
    <2>2. CASE b # a
      <3>1. b \in Upto(sas, thread[u].at) /\ entry'[b] = entry[b]
        BY <1>0, <1>1, <1>3, <1>4, <2>2
      <3> QED BY <1>2, <1>5, <3>1 DEF Passed
    <2> QED BY <2>1, <2>2
  <1> QED BY <1>1, <1>2, <1>5 DEF Passed

\* Every step keeps the invariant of the flush.
LEMMA FlushStep == DatabaseInv /\ FlushInv /\ [Next]_vars => FlushInv'
  <1> SUFFICES ASSUME DatabaseInv, FlushInv, [Next]_vars, NEW u \in Threads, Flushes(u)'
               PROVE  Passed(u)'
    BY DEF FlushInv, Flushes, Passed
  <1>1. CASE UNCHANGED vars
    BY <1>1 DEF vars, FlushInv, Flushes, Passed
  <1>2. CASE Next
    <2>1. PICK t \in Threads :
             \/ GetSpi(t) \/ AddSa(t)
             \/ ProcessInbound(t) \/ ProcessOutbound(t) \/ Checkin(t)
             \/ QueryOrUpdate(t) \/ WaiterWakes(t)
             \/ DelSa(t) \/ RemoverWakes(t) \/ DestroyEntry(t) \/ SaExpired(t)
             \/ FlushSas(t) \/ FlushEntry(t)
      BY <1>2, SceneTypes DEF Next, DatabaseInv
    <2>2. CASE AddSa(t)
      BY <2>2, FlushAdds
    <2>3. CASE ~AddSa(t) /\ u = t
      BY <2>1, <2>3, FlushMovesOn, OtherwiseNoFlush
    <2>4. CASE ~AddSa(t) /\ u # t
      <3>1. Kept /\ Others(t) /\ Shorter /\ added' = added
        BY <2>1, <2>4, StepKeeps, ExpiredKeeps
      <3>2. /\ Flushes(u) /\ thread'[u].goal = thread[u].goal /\ thread'[u].at = thread[u].at
        BY <2>4, <3>1 DEF Others, Flushes
      <3>3. Passed(u)
        BY <3>2 DEF FlushInv, Flushes, Passed
      <3> QED BY <3>1, <3>2, <3>3, PassedKept
    <2> QED BY <2>2, <2>3, <2>4
  <1> QED BY <1>1, <1>2

\* A flush ends when its enumerator is at the end, and has passed every entry.
LEMMA FlushEnds ==
    ASSUME DatabaseInv, FlushInv, Next, NEW u \in Threads,
           thread[u].pc = "flush", thread'[u].pc = "idle", NEW a \in Installed,
           entry[a].id <= thread[u].goal
    PROVE  entry[a].awaits
  <1>1. PICK t \in Threads :
             \/ GetSpi(t) \/ AddSa(t)
             \/ ProcessInbound(t) \/ ProcessOutbound(t) \/ Checkin(t)
             \/ QueryOrUpdate(t) \/ WaiterWakes(t)
             \/ DelSa(t) \/ RemoverWakes(t) \/ DestroyEntry(t) \/ SaExpired(t)
             \/ FlushSas(t) \/ FlushEntry(t)
    BY SceneTypes DEF Next, DatabaseInv
  <1>2. u = t
    <2>1. ~AddSa(t)
      BY DEF AddSa
    <2>2. Others(t)
      BY <1>1, <2>1, StepKeeps, ExpiredKeeps
    <2> QED BY <2>2 DEF Others
  <1>3. FlushEntry(t)
    <2>1. mutex = t /\ None \notin Threads
      BY <1>2, IpsecConstants DEF DatabaseInv, Places
    <2> QED BY <1>1, <1>2, <2>1 DEF IsIdle, GetSpi, AddSa, ProcessInbound, ProcessOutbound, Checkout,
               Checkin, QueryOrUpdate, WaiterWakes, DelSa, RemoverWakes, DestroyEntry, SaExpired,
               FlushSas
  <1>4. /\ LooseType /\ thread[t].at \in Installed \cup {None} /\ thread[t].op = "flush" /\ mutex = t
        /\ thread \in [Threads -> ThreadStates]
    BY <1>2 DEF DatabaseInv, Places, LooseType
  <1>5. After(thread[t].at) = None
    <2>1. PICK b \in Installed \cup {None} : b = After(thread[t].at)
      BY <1>4, EnumeratorPlaces
    <2>2. CASE b # None /\ entry[b].awaits
      BY <1>2, <1>3, <1>4, <2>1, <2>2 DEF FlushEntry, ThreadStates
    <2>3. CASE b # None /\ ~entry[b].awaits
      <3>1. b \in Installed /\ Removes(t, "flush", b) /\ WaitRemoveEntry(t, "flush", b)
        BY <1>3, <1>4, <2>1, <2>3 DEF FlushEntry, Removes
      <3>2. thread'[t].pc # "idle"
        BY <3>1, RemoveKeeps
      <3> QED BY <1>2, <3>2
    <2> QED BY <2>1, <2>2, <2>3
  <1>6. a \in Upto(sas, thread[t].at)
    BY <1>4, <1>5, UptoAfter
  <1> QED BY <1>2, <1>6 DEF FlushInv

\* When flush_sas returns, every SA that was installed when it was called is gone or is
\* being removed by another thread, whatever is installed and removed while it sleeps
\* with its enumerator open.
THEOREM FlushIsComplete == Spec => FlushComplete
  <1>1. Init => DatabaseInv /\ FlushInv
    <2>1. Init => FlushInv
      BY DEF Init, FlushInv, Idle
    <2> QED BY <2>1, DatabaseInit
  <1>2. DatabaseInv /\ FlushInv /\ [Next]_vars => DatabaseInv' /\ FlushInv'
    BY DatabaseStep, FlushStep
  <1>3. DatabaseInv /\ FlushInv /\ [Next]_vars =>
          [\A t \in Threads : thread[t].pc = "flush" /\ thread'[t].pc = "idle" =>
              \A a \in Installed : entry[a].id <= thread[t].goal => entry[a].awaits]_vars
    BY FlushEnds
  <1> QED BY <1>1, <1>2, <1>3, PTL DEF Spec, FlushComplete
=============================================================================
