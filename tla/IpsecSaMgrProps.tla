-------------------------- MODULE IpsecSaMgrProps --------------------------
(* What the SA database of libipsec guarantees to the packet processor. *)
EXTENDS IpsecSaMgr

\* Every state is well typed; the list names each entry once, and exactly those
\* that are not freed and not about to be.
TypeOK ==
    /\ scene \in Scenarios
    /\ sas \in Seq(Addrs) /\ IsInjective(sas)
    /\ entry \in [Addrs -> [id : 0..MaxSas, spi : Spis \cup {None}, inbound : BOOLEAN,
                            life : Lifetimes, locked : BOOLEAN,
                            awaits : BOOLEAN, waiting : 0..Cardinality(Threads)]]
    /\ allocated \subseteq Spis
    /\ jobs \subseteq [at : Addrs, spi : Spis, id : 1..MaxSas, hard : BOOLEAN]
    /\ thread \in [Threads -> [pc : {"idle", "use", "wait", "drain", "free", "flush"},
                               op : {"none", "checkout", "query", "del", "expire", "flush"},
                               at : Addrs \cup {None}, id : 0..MaxSas,
                               awake : BOOLEAN, goal : 0..MaxSas]]
    /\ mutex \in Threads \cup {None}
    /\ added \in 0..MaxSas
    /\ {a \in Addrs : entry[a] # Free}
         = Installed \cup {thread[t].at : t \in {u \in Threads : thread[u].pc = "free"}}

Users(a) == {t \in Threads : thread[t].pc = "use" /\ thread[t].at = a}

\* An SA is used by one thread at a time, and its entry is locked exactly as long
\* ("The matching SA is locked until it is checked in using checkin()"): the ESP
\* context has no lock of its own.
ExclusiveUse == \A a \in Addrs :
    Cardinality(Users(a)) = IF entry[a].locked THEN 1 ELSE 0

\* An entry is not freed, nor its address given to another SA, while a thread uses
\* it, sleeps on its condvar or was woken and has not come back yet, whoever
\* removes it: del_sa, a flush that waits for it or an expiry job.
EntriesStay == \A t \in Threads :
    thread[t].pc \in {"use", "wait", "drain", "free"} =>
       entry[thread[t].at].id = thread[t].id /\ thread[t].id # 0

\* The list and its entries are sound: each entry is listed once until it is freed,
\* and is freed once, after the last thread has left it.
EntriesSound == TypeOK /\ EntriesStay

\* checkin() signals one thread, which may be one that waits for the entry or the
\* one that removes it: if anybody sleeps on an entry nobody has locked, somebody
\* is awake who will pass the signal on.
NoLostWakeup == \A a \in Addrs :
    ~entry[a].locked /\ Asleep(thread, a) # {} =>
       \E t \in Threads : thread[t].pc \in {"wait", "drain"} /\ thread[t].at = a
                          /\ thread[t].awake

\* An expiry job never takes another SA for its own (sa_expired): neither one at
\* the address of a freed entry, nor one with a lifetime of its own.
OwnExpiry == \A j \in jobs : Hits(j) => entry[j.at].id = j.id

\* An SA with a lifetime never outlives it unnoticed: until somebody removes it a
\* job is scheduled that will find it, also between soft and hard limit.
ExpiryArmed == \A a \in Installed :
    entry[a].life # "none" /\ ~entry[a].awaits =>
       \E j \in jobs : j.id = entry[a].id /\ Hits(j)

\* Every SA with a lifetime is expired by its own job, and no SA by another's.
ExpiryExact == OwnExpiry /\ ExpiryArmed

\* "Flush all SAs": when flush_sas returns, every SA that was installed when it
\* was called is gone or is being removed by another thread, although entries
\* are installed and removed while the flush sleeps with its enumerator open.
FlushComplete ==
    [][\A t \in Threads : thread[t].pc = "flush" /\ thread'[t].pc = "idle" =>
          \A a \in Installed : entry[a].id <= thread[t].goal => entry[a].awaits]_vars

\* A thread that removes an entry is not left waiting for those who use it or
\* wait for it, although others ask for the entry again and again.
RemovalEnds == \A t \in Threads : thread[t].pc = "drain" ~> thread[t].pc # "drain"
=============================================================================
