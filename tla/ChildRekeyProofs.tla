-------------------------- MODULE ChildRekeyProofs --------------------------
(***************************************************************************)
(* Rekeying and deleting CHILD_SAs, for any number of rekeyings,           *)
(* deletions, refusals and failures and whatever the network does: no task *)
(* uses a CHILD_SA that is gone, and no peer is asked to rekey one that it *)
(* does not know.                                                          *)
(***************************************************************************)
EXTENDS ChildRekeyProps, SequenceTheorems, WellFoundedInduction, TLAPS

-----------------------------------------------------------------------------
(* The inductive invariant *)

SaRec == [state : {"NONE", "INSTALLED", "REKEYING", "REKEYED", "DELETING"},
          out : {"NONE", "REGISTERED", "INSTALLED"}, rekey : SaNumbers]
SaMaps == [Sas -> SaRec]
TaskRec == [kind : Kinds \cup {"NONE", "EMPTY"}, sent : BOOLEAN,
            child : SaNumbers, new : SaNumbers, failed : BOOLEAN,
            coll : {"NONE", "REKEY", "DELETE"}, other : SaNumbers,
            gone : BOOLEAN, del : SaNumbers, rekeyed : BOOLEAN]
Entries == Kinds \X SaNumbers \X SaNumbers
JobSet == {"DELETE", "REKEY"} \X Sas
Messages == [req : BOOLEAN, type : Kinds \cup {"EMPTY"} \cup Answers,
             child : SaNumbers, new : SaNumbers]
Bounds == [rekeys : Nat, deletes : Nat, rejects : Nat, failures : Nat]

LooseType ==
    /\ sa \in [Peers -> SaMaps]
    /\ task \in [Peers -> TaskRec]
    /\ queue \in [Peers -> Seq(Entries)]
    /\ jobs \in [Peers -> SUBSET JobSet]
    /\ air \in [Peers -> Seq(Messages)]
    /\ down \in [Peers -> SUBSET Sas]
    /\ nonce \in Injection(Sas, Sas)
    /\ scene \in Scenarios
    /\ left \in Bounds

\* What a task asks for, and what may be answered.
RequestOf(t) ==
    IF t.kind = "EMPTY" THEN Request("EMPTY", None, None)
    ELSE IF t.del # None THEN Request("DELETE", t.del, None)
    ELSE IF t.failed THEN Request("DELETE", t.new, None)
    ELSE IF t.kind = "CREATE" THEN Request("CREATE", None, t.new)
    ELSE Request("REKEY", t.child, t.new)
AnswersTo(type) ==
    IF type \in {"DELETE", "EMPTY"} THEN {"DONE"}
    ELSE {"OK", "NO_PROPOSAL", "INVALID_KE"}
         \cup (IF type = "REKEY" THEN {"TEMPORARY_FAILURE", "NOT_FOUND"} ELSE {})

\* m is the request of t, or a response to it.
Matches(m, t) ==
    /\ t.sent
    /\ m.child = RequestOf(t).child /\ m.new = RequestOf(t).new
    /\ IF m.req THEN m.type = RequestOf(t).type ELSE m.type \in AnswersTo(RequestOf(t).type)

Asked(a) == {i \in DOMAIN a : a[i].req}
Replies(a) == {i \in DOMAIN a : ~a[i].req}

\* A peer with task t, whose messages are a, has at most one request or its
\* response, among the messages b of the other peer, on the way.
Exchanging(t, a, b) ==
    /\ \A i \in Asked(a) : Matches(a[i], t)
    /\ \A i \in Replies(b) : Matches(b[i], t)
    /\ \A i, j \in Asked(a) : i = j
    /\ \A i, j \in Replies(b) : i = j
    /\ Asked(a) = {} \/ Replies(b) = {}

TaskOk(t) ==
    /\ t.kind = "NONE" => t = Idle
    /\ t.kind = "EMPTY" => t.sent /\ ~t.failed /\ t.child = None /\ t.new = None /\ t.del = None
    /\ t.kind = "DELETE" => t.sent /\ t.child \in Sas /\ t.del = t.child /\ t.new = None
    /\ t.kind = "CREATE" => t.child = None /\ t.new \in Sas /\ t.del = None
    /\ t.kind = "REKEY" => t.child \in Sas /\ t.new \in Sas \ {t.child} /\ t.del \in {None, t.child, t.new}
    /\ t.coll # "NONE" => t.kind = "REKEY"
    /\ t.coll = "REKEY" => t.other \in Sas \ {t.child, t.new}
    /\ t.failed => t.del = None

EntryOk(e) ==
    /\ e[1] = "DELETE" => e[2] \in Sas /\ e[3] = None
    /\ e[1] = "CREATE" => e[2] = None /\ e[3] \in Sas
    /\ e[1] = "REKEY" => e[2] \in Sas /\ e[3] \in Sas \ {e[2]}

Working(s, c) == s[c].state \notin {"NONE", "DELETING"}

Deleting(t, c) == t.sent /\ t.del = c

\* What a task knows of its CHILD_SAs is so.
Informed(s, t) ==
    /\ t.kind = "REKEY" /\ t.sent /\ t.del = None /\ t.coll # "DELETE" =>
         s[t.child].state \in {"REKEYING", "REKEYED"}
    /\ t.coll = "DELETE" => ~Working(s, t.child)
    /\ t.coll = "REKEY" /\ ~t.gone => Working(s, t.other)
    /\ t.sent /\ t.del # None => s[t.del].state = "DELETING" /\ s[t.del].out # "NONE"
    /\ \A c \in Sas : s[c].state # "NONE" /\ s[c].out = "NONE" => s[c].state = "DELETING"

\* The numbers of CHILD_SAs that are to be made.
NextSa == 2 + scene.rekeys - left.rekeys
Queued(u, n) == \E i \in DOMAIN u : u[i][3] = n
Holds(p, n) == task[p].new = n \/ Queued(queue[p], n)
OkIn(b) == \E i \in Replies(b) : b[i].type = "OK"
Unmade(t, b, n) == t.new = n /\ t.del = None /\ ~t.failed /\ ~OkIn(b)
Reserved(p, n) == Queued(queue[p], n) \/ Unmade(task[p], air[Other(p)], n)

Unmentioned(t, u, w, n) ==
    /\ t.child # n /\ t.del # n
    /\ \A i \in DOMAIN u : u[i][2] # n
    /\ \A j \in w : j[2] # n
Unused(p, n) == sa[p][n].state = "NONE" /\ Unmentioned(task[p], queue[p], jobs[p], n)

Apart(t, u) == \A i, j \in DOMAIN u :
    u[i][3] # None => u[i][3] # t.new /\ (u[i][3] = u[j][3] => i = j)

\* A number is held in one place, and unused until the CHILD_SA is made.
Numbers ==
    /\ left.rekeys <= scene.rekeys
    /\ \A p \in Peers, n \in Sas : Holds(p, n) => n < NextSa /\ ~Holds(Other(p), n)
    /\ \A p \in Peers : Apart(task[p], queue[p])
    /\ \A n \in Sas : n >= NextSa \/ (\E p \in Peers : Reserved(p, n)) =>
          \A p \in Peers : Unused(p, n)

LocalOk(p) ==
    /\ Exchanging(task[p], air[p], air[Other(p)])
    /\ TaskOk(task[p])
    /\ Informed(sa[p], task[p])
    /\ \A i \in DOMAIN queue[p] : EntryOk(queue[p][i])

RekeyInv == LooseType /\ Numbers /\ \A p \in Peers : LocalOk(p)

-----------------------------------------------------------------------------
(* Numbers, peers and sequences *)

LEMMA PeersFacts ==
    ASSUME NEW p \in Peers
    PROVE  /\ Other(p) \in Peers /\ Other(p) # p /\ Other(Other(p)) = p
           /\ \A x \in Peers : x = p \/ x = Other(p)
<1>1. PICK a, b \in Peers : a # b /\ Peers = {a, b}
  BY ChildRekeyConstants
<1>2. \E r \in Peers : r # p
  BY <1>1
<1>3. Other(p) \in Peers /\ Other(p) # p
  BY <1>2 DEF Other
<1>4. \E r \in Peers : r # Other(p)
  BY <1>3
<1>5. Other(Other(p)) \in Peers /\ Other(Other(p)) # Other(p)
  BY <1>3, <1>4 DEF Other
<1>6. \A x \in Peers : x = p \/ x = Other(p)
  BY <1>1, <1>3
<1> QED
  BY <1>3, <1>5, <1>6

LEMMA SasFacts ==
    /\ MaxRekeys \in Nat /\ Sas = 1..(1 + MaxRekeys) /\ None = 0
    /\ Sas \subseteq Nat /\ None \notin Sas /\ 1 \in Sas
    /\ SaNumbers = Sas \cup {None}
BY ChildRekeyConstants DEF Sas, None, SaNumbers

RemovedSeq(r, S, s, i) ==
    /\ r \in Seq(S) /\ DOMAIN r = 1..(Len(s) - 1)
    /\ \A k \in DOMAIN r : r[k] = IF k < i THEN s[k] ELSE s[k + 1]

LEMMA RemoveFacts ==
    ASSUME NEW S, NEW s \in Seq(S), NEW i \in 1..Len(s)
    PROVE  RemovedSeq(RemoveAt(s, i), S, s, i)
<1>0. PICK r : r = RemoveAt(s, i)
  OBVIOUS
<1> DEFINE x == SubSeq(s, 1, i - 1)
           y == SubSeq(s, i + 1, Len(s))
<1>1. x \in Seq(S) /\ Len(x) = i - 1 /\ \A k \in 1..(i - 1) : x[k] = s[k]
  <2>1. \A k \in 1..(i - 1) : s[k] \in S
    OBVIOUS
  <2> QED
    BY <2>1, SubSeqProperties
<1>2. y \in Seq(S) /\ Len(y) = Len(s) - i /\ \A k \in 1..(Len(s) - i) : y[k] = s[i + k]
  <2>1. \A k \in (i + 1)..Len(s) : s[k] \in S
    OBVIOUS
  <2> QED
    BY <2>1, SubSeqProperties
<1>3. r = x \o y
  BY <1>0 DEF RemoveAt
<1> HIDE DEF x, y
<1>4. r \in Seq(S) /\ Len(r) = Len(s) - 1
  BY <1>1, <1>2, <1>3
<1>5. ASSUME NEW k \in 1..(Len(s) - 1)
      PROVE  r[k] = IF k < i THEN s[k] ELSE s[k + 1]
  <2>1. CASE k < i
    BY <1>1, <1>2, <1>3, <2>1
  <2>2. CASE k >= i
    <3>1. r[k] = y[k - (i - 1)] /\ k - (i - 1) \in 1..(Len(s) - i) /\ i + (k - (i - 1)) = k + 1
      BY <1>1, <1>2, <1>3, <2>2
    <3> QED
      BY <1>2, <2>2, <3>1
  <2> QED
    BY <2>1, <2>2
<1> QED
  BY <1>0, <1>4, <1>5 DEF RemovedSeq

\* The places that are left, as places of the sequence before.
Back(i, k) == IF k < i THEN k ELSE k + 1

Lacks(r, s, i) ==
    /\ \A k \in DOMAIN r : Back(i, k) \in DOMAIN s /\ Back(i, k) # i /\ r[k] = s[Back(i, k)]
    /\ \A k, l \in DOMAIN r : /\ Back(i, k) = Back(i, l) => k = l
                              /\ Back(i, k) < Back(i, l) <=> k < l

LEMMA RemovedFrom ==
    ASSUME NEW S, NEW s \in Seq(S), NEW i \in DOMAIN s
    PROVE  RemoveAt(s, i) \in Seq(S) /\ Lacks(RemoveAt(s, i), s, i)
<1>0. PICK r : r = RemoveAt(s, i)
  OBVIOUS
<1>1. DOMAIN s = 1..Len(s) /\ Len(s) \in Nat
  OBVIOUS
<1>2. /\ DOMAIN r = 1..(Len(s) - 1) /\ r \in Seq(S)
      /\ \A k \in DOMAIN r : r[k] = IF k < i THEN s[k] ELSE s[k + 1]
  <2>1. i \in 1..Len(s)
    BY <1>1
  <2> QED
    BY <1>0, <2>1, RemoveFacts DEF RemovedSeq
<1>3. \A k \in DOMAIN r : Back(i, k) \in DOMAIN s /\ Back(i, k) # i /\ r[k] = s[Back(i, k)]
  BY <1>1, <1>2 DEF Back
<1>4. \A k, l \in DOMAIN r : /\ Back(i, k) = Back(i, l) => k = l
                             /\ Back(i, k) < Back(i, l) <=> k < l
  BY <1>1, <1>2 DEF Back
<1> QED
  BY <1>0, <1>2, <1>3, <1>4 DEF Lacks

\* What is not taken out remains.
LEMMA RemainsFacts ==
    ASSUME NEW S, NEW s \in Seq(S), NEW i \in DOMAIN s, NEW l \in DOMAIN s, l # i
    PROVE  \E k \in DOMAIN RemoveAt(s, i) : RemoveAt(s, i)[k] = s[l] /\ Back(i, k) = l
<1>0. PICK r : r = RemoveAt(s, i)
  OBVIOUS
<1>1. DOMAIN s = 1..Len(s) /\ Len(s) \in Nat /\ i \in 1..Len(s) /\ l \in 1..Len(s)
  OBVIOUS
<1>2. /\ DOMAIN r = 1..(Len(s) - 1)
      /\ \A k \in DOMAIN r : r[k] = IF k < i THEN s[k] ELSE s[k + 1]
  BY <1>0, <1>1, RemoveFacts DEF RemovedSeq
<1>3. CASE l < i
  BY <1>0, <1>1, <1>2, <1>3 DEF Back
<1>4. CASE l > i
  <2>1. PICK k \in DOMAIN r : k = l - 1
    BY <1>1, <1>2, <1>4
  <2>2. r[k] = s[l] /\ Back(i, k) = l
    BY <1>1, <1>2, <1>4, <2>1 DEF Back
  <2> QED
    BY <1>0, <2>2
<1> QED
  BY <1>1, <1>3, <1>4

LEMMA AppendFacts ==
    ASSUME NEW S, NEW s \in Seq(S), NEW e \in S, NEW r, r = Append(s, e)
    PROVE  /\ r \in Seq(S) /\ DOMAIN r = DOMAIN s \cup {Len(s) + 1}
           /\ r[Len(s) + 1] = e /\ \A k \in DOMAIN s : r[k] = s[k] /\ k < Len(s) + 1
           /\ Len(s) + 1 \notin DOMAIN s
OBVIOUS

\* b is a with the message m added at the end.
Longer(b, a, m) ==
    /\ m.req => Asked(b) = Asked(a) \cup {Len(a) + 1} /\ Replies(b) = Replies(a)
    /\ ~m.req => Asked(b) = Asked(a) /\ Replies(b) = Replies(a) \cup {Len(a) + 1}
    /\ b[Len(a) + 1] = m /\ \A k \in DOMAIN a : b[k] = a[k] /\ k < Len(a) + 1

LEMMA AppendAir ==
    ASSUME NEW a \in Seq(Messages), NEW m \in Messages
    PROVE  Append(a, m) \in Seq(Messages) /\ Longer(Append(a, m), a, m)
<1>0. PICK b : b = Append(a, m)
  OBVIOUS
<1>1. /\ b \in Seq(Messages) /\ DOMAIN b = DOMAIN a \cup {Len(a) + 1}
      /\ b[Len(a) + 1] = m /\ \A k \in DOMAIN a : b[k] = a[k] /\ k < Len(a) + 1
      /\ Len(a) + 1 \notin DOMAIN a
  BY <1>0, AppendFacts
<1>2. m.req => Asked(b) = Asked(a) \cup {Len(a) + 1} /\ Replies(b) = Replies(a)
  BY <1>1, Zenon DEF Asked, Replies
<1>3. ~m.req => Asked(b) = Asked(a) /\ Replies(b) = Replies(a) \cup {Len(a) + 1}
  BY <1>1, Zenon DEF Asked, Replies
<1> QED
  BY <1>0, <1>1, <1>2, <1>3 DEF Longer

\* b is a without its i-th message.
Shorter(b, a, i) ==
    /\ \A k \in Asked(b) : Back(i, k) \in Asked(a) \ {i} /\ b[k] = a[Back(i, k)]
    /\ \A k \in Replies(b) : Back(i, k) \in Replies(a) \ {i} /\ b[k] = a[Back(i, k)]
    /\ \A k, l \in DOMAIN b : /\ Back(i, k) = Back(i, l) => k = l
                              /\ Back(i, k) < Back(i, l) <=> k < l

LEMMA RemoveAir ==
    ASSUME NEW a \in Seq(Messages), NEW i \in DOMAIN a
    PROVE  RemoveAt(a, i) \in Seq(Messages) /\ Shorter(RemoveAt(a, i), a, i)
<1>0. PICK b : b = RemoveAt(a, i)
  OBVIOUS
<1>1. b \in Seq(Messages) /\ Lacks(b, a, i)
  BY <1>0, RemovedFrom
<1>2. /\ b \in Seq(Messages)
      /\ \A k \in DOMAIN b : Back(i, k) \in DOMAIN a /\ Back(i, k) # i /\ b[k] = a[Back(i, k)]
      /\ \A k, l \in DOMAIN b : /\ Back(i, k) = Back(i, l) => k = l
                                /\ Back(i, k) < Back(i, l) <=> k < l
  BY <1>1 DEF Lacks
<1>3. \A k \in Asked(b) : Back(i, k) \in Asked(a) \ {i} /\ b[k] = a[Back(i, k)]
  BY <1>2, Zenon DEF Asked
<1>4. \A k \in Replies(b) : Back(i, k) \in Replies(a) \ {i} /\ b[k] = a[Back(i, k)]
  BY <1>2, Zenon DEF Replies
<1> QED
  BY <1>0, <1>2, <1>3, <1>4 DEF Shorter

-----------------------------------------------------------------------------
(* The exchanges of a peer with task t and messages a; b are those of the   *)
(* other peer.                                                             *)

\* Nothing is on the way.
LEMMA NothingSent ==
    ASSUME NEW t, NEW a, NEW b, Exchanging(t, a, b), ~t.sent
    PROVE  Asked(a) = {} /\ Replies(b) = {}
BY DEF Exchanging, Matches

LEMMA Asks ==
    ASSUME NEW t, NEW v, NEW a \in Seq(Messages), NEW b, Exchanging(t, a, b), ~t.sent, v.sent,
           NEW m \in Messages, m = RequestOf(v), NEW x, x = Append(a, m)
    PROVE  Exchanging(v, x, b)
<1>1. Asked(a) = {} /\ Replies(b) = {}
  BY NothingSent
<1>2. m.req
  BY DEF RequestOf, Request
<1>3. Asked(x) = Asked(a) \cup {Len(a) + 1} /\ x[Len(a) + 1] = m
  BY <1>2, AppendAir DEF Longer
<1>4. Asked(x) = {Len(a) + 1} /\ x[Len(a) + 1] = m
  BY <1>1, <1>3
<1>5. Matches(m, v)
  BY <1>2 DEF Matches
<1> QED
  BY <1>1, <1>4, <1>5 DEF Exchanging

\* The other peer asks.
LEMMA AskedBeside ==
    ASSUME NEW t, NEW a, NEW b \in Seq(Messages), Exchanging(t, a, b),
           NEW m \in Messages, m.req, NEW x, x = Append(b, m)
    PROVE  Exchanging(t, a, x)
<1>1. Replies(x) = Replies(b) /\ \A k \in DOMAIN b : x[k] = b[k]
  BY AppendAir DEF Longer
<1>2. Replies(b) \subseteq DOMAIN b
  BY DEF Replies
<1> QED
  BY <1>1, <1>2 DEF Exchanging

\* The other peer answers.
LEMMA IsAnswered ==
    ASSUME NEW t, NEW a \in Seq(Messages), NEW b \in Seq(Messages), Exchanging(t, a, b),
           NEW i \in Asked(a), NEW m \in Messages, ~m.req,
           m.child = a[i].child, m.new = a[i].new, m.type \in AnswersTo(a[i].type),
           NEW x, x = RemoveAt(a, i), NEW y, y = Append(b, m)
    PROVE  Exchanging(t, x, y)
<1>1. Replies(b) = {} /\ Matches(a[i], t) /\ a[i].req /\ i \in DOMAIN a
  BY DEF Exchanging, Asked
<1>2. Replies(y) = Replies(b) \cup {Len(b) + 1} /\ y[Len(b) + 1] = m
  BY AppendAir DEF Longer
<1>3. Replies(y) = {Len(b) + 1} /\ y[Len(b) + 1] = m
  BY <1>1, <1>2
<1>4. Asked(x) = {}
  BY <1>1, RemoveAir DEF Exchanging, Shorter
<1>5. Matches(m, t)
  BY <1>1 DEF Matches
<1> QED
  BY <1>3, <1>4, <1>5 DEF Exchanging

\* The peer answers a request of the other.
LEMMA AnswersBeside ==
    ASSUME NEW t, NEW v, NEW a \in Seq(Messages), NEW b \in Seq(Messages), Exchanging(t, a, b),
           v.sent = t.sent, RequestOf(v) = RequestOf(t),
           NEW i \in DOMAIN b, NEW m \in Messages, ~m.req,
           NEW x, x = Append(a, m), NEW y, y = RemoveAt(b, i)
    PROVE  Exchanging(v, x, y)
<1>1. Asked(x) = Asked(a) /\ \A k \in DOMAIN a : x[k] = a[k]
  BY AppendAir DEF Longer
<1>2. Asked(a) \subseteq DOMAIN a /\ Replies(y) \subseteq DOMAIN y
  BY DEF Asked, Replies
<1>3. /\ \A k \in Replies(y) : Back(i, k) \in Replies(b) /\ y[k] = b[Back(i, k)]
      /\ \A k, l \in DOMAIN y : Back(i, k) = Back(i, l) => k = l
  BY RemoveAir DEF Shorter
<1>4. \A k : Matches(k, t) => Matches(k, v)
  BY DEF Matches
<1>5. \A k \in Asked(x) : Matches(x[k], v)
  BY <1>1, <1>2, <1>4 DEF Exchanging
<1>6. \A k \in Replies(y) : Matches(y[k], v)
  BY <1>3, <1>4 DEF Exchanging
<1>7. \A k, l \in Replies(y) : k = l
  BY <1>2, <1>3 DEF Exchanging
<1>8. Asked(x) = {} \/ Replies(y) = {}
  BY <1>1, <1>3 DEF Exchanging
<1>9. \A k, l \in Asked(x) : k = l
  BY <1>1 DEF Exchanging
<1> QED
  BY <1>5, <1>6, <1>7, <1>8, <1>9 DEF Exchanging

\* The peer takes the response.
LEMMA Takes ==
    ASSUME NEW t, NEW v, NEW a, NEW b \in Seq(Messages), Exchanging(t, a, b),
           NEW i \in Replies(b), NEW y, y = RemoveAt(b, i)
    PROVE  Exchanging(v, a, y) /\ Asked(a) = {} /\ Replies(y) = {}
<1>1. Asked(a) = {} /\ i \in DOMAIN b
  BY DEF Exchanging, Replies
<1>2. \A k \in Replies(y) : Back(i, k) \in Replies(b) \ {i}
  BY <1>1, RemoveAir DEF Shorter
<1>3. Replies(y) = {}
  BY <1>2 DEF Exchanging
<1> QED
  BY <1>1, <1>3 DEF Exchanging

\* The other peer takes a response.
LEMMA TakesBeside ==
    ASSUME NEW t, NEW a \in Seq(Messages), NEW b, Exchanging(t, a, b),
           NEW i \in DOMAIN a, NEW x, x = RemoveAt(a, i)
    PROVE  Exchanging(t, x, b)
<1>1. /\ \A k \in Asked(x) : Back(i, k) \in Asked(a) /\ x[k] = a[Back(i, k)]
      /\ \A k, l \in DOMAIN x : Back(i, k) = Back(i, l) => k = l
  BY RemoveAir DEF Shorter
<1>2. Asked(x) \subseteq DOMAIN x
  BY DEF Asked
<1>3. \A k, l \in Asked(x) : k = l
  BY <1>1, <1>2 DEF Exchanging
<1>4. \A k \in Asked(x) : Matches(x[k], t)
  BY <1>1 DEF Exchanging
<1>5. Asked(x) = {} \/ Replies(b) = {}
  BY <1>1 DEF Exchanging
<1> QED
  BY <1>3, <1>4, <1>5 DEF Exchanging

-----------------------------------------------------------------------------
(* The objects of a peer *)

\* u is s with c in state st.
Puts(u, s, c, st) ==
    /\ u \in SaMaps /\ \A d \in Sas : d # c => u[d] = s[d]
    /\ u[c].state = st /\ u[c].out = s[c].out /\ u[c].rekey = s[c].rekey

LEMMA SetStateFacts ==
    ASSUME NEW s \in SaMaps, NEW c \in Sas,
           NEW st \in {"NONE", "INSTALLED", "REKEYING", "REKEYED", "DELETING"}
    PROVE  Puts(SetState(s, c, st), s, c, st)
<1>1. s[c] \in SaRec
  BY DEF SaMaps
<1>2. PICK r : r = [s[c] EXCEPT !.state = st]
  OBVIOUS
<1>3. r \in SaRec /\ r.state = st /\ r.out = s[c].out /\ r.rekey = s[c].rekey
  BY <1>1, <1>2 DEF SaRec
<1>4. SetState(s, c, st) = [s EXCEPT ![c] = r]
  BY <1>2 DEF SetState, SaMaps
<1> QED
  BY <1>3, <1>4 DEF Puts, SaMaps

\* u is s with c set to r.
Writes(u, s, c, r) == u \in SaMaps /\ u[c] = r /\ \A d \in Sas : d # c => u[d] = s[d]

LEMMA WriteFacts ==
    ASSUME NEW s \in SaMaps, NEW c \in Sas, NEW r \in SaRec
    PROVE  Writes([s EXCEPT ![c] = r], s, c, r)
BY DEF Writes, SaMaps

LEMMA SaRecs == NoSa \in SaRec /\ NewSa \in SaRec /\ InUse \in SaRec
BY SasFacts DEF NoSa, NewSa, InUse, SaRec

LEMMA SaFields ==
    /\ NoSa.state = "NONE" /\ NoSa.out = "NONE"
    /\ NewSa.state = "INSTALLED" /\ NewSa.out = "REGISTERED"
    /\ InUse.state = "INSTALLED" /\ InUse.out = "INSTALLED"
BY DEF NoSa, NewSa, InUse

LEMMA DestroyFacts ==
    ASSUME NEW s \in SaMaps, NEW c \in Sas
    PROVE  Writes(Destroy(s, c), s, c, NoSa)
BY WriteFacts, SaRecs DEF Destroy

\* u has the states of s, and no outbound SA is removed but that of c.
SameStates(u, s, c) ==
    /\ u \in SaMaps
    /\ \A d \in Sas : /\ u[d].state = s[d].state /\ u[d].rekey = s[d].rekey
                      /\ d # c => u[d].out = s[d].out \/ u[d].out = "INSTALLED"

LEMMA OutboundFacts ==
    ASSUME NEW s \in SaMaps, NEW c, NEW r \in Sas
    PROVE  SameStates(InstallOutbound(s, r), s, c)
<1>1. s[r] \in SaRec
  BY DEF SaMaps
<1>2. PICK v : v = [s[r] EXCEPT !.out = "INSTALLED"]
  OBVIOUS
<1>3. v \in SaRec /\ v.state = s[r].state /\ v.rekey = s[r].rekey /\ v.out = "INSTALLED"
  BY <1>1, <1>2 DEF SaRec
<1>4. InstallOutbound(s, r) = [s EXCEPT ![r] = v]
  BY <1>2 DEF InstallOutbound, SaMaps
<1> QED
  BY <1>3, <1>4 DEF SameStates, SaMaps

LEMMA RemoveOutFacts ==
    ASSUME NEW s \in SaMaps, NEW c \in Sas
    PROVE  SameStates(RemoveOutbound(s, c), s, c) /\ RemoveOutbound(s, c)[c].out = "NONE"
<1>1. s[c] \in SaRec
  BY DEF SaMaps
<1>2. PICK v : v = [s[c] EXCEPT !.out = "NONE"]
  OBVIOUS
<1>3. v \in SaRec /\ v.state = s[c].state /\ v.rekey = s[c].rekey /\ v.out = "NONE"
  BY <1>1, <1>2 DEF SaRec
<1>4. RemoveOutbound(s, c) = [s EXCEPT ![c] = v]
  BY <1>2 DEF RemoveOutbound, SaMaps
<1> QED
  BY <1>3, <1>4 DEF SameStates, SaMaps

LEMMA SwitchFacts ==
    ASSUME NEW s \in SaMaps, NEW t, NEW c \in Sas, NEW i
    PROVE  SameStates(SwitchOver(s, t, c, i), s, c) /\ SwitchOver(s, t, c, i)[c].out = "NONE"
<1>1. s[c].rekey \in SaNumbers
  BY DEF SaMaps, SaRec
<1>2. PICK x : /\ SwitchOver(s, t, c, i) = RemoveOutbound(x, c)
               /\ x = s \/ (x = InstallOutbound(s, s[c].rekey) /\ s[c].rekey # None)
  BY DEF SwitchOver, Exists
<1>3. SameStates(x, s, c) /\ x \in SaMaps
  <2>1. CASE x = s
    BY <2>1 DEF SameStates
  <2>2. CASE x = InstallOutbound(s, s[c].rekey) /\ s[c].rekey # None
    <3>1. PICK r \in Sas : r = s[c].rekey
      BY <1>1, <2>2, SasFacts
    <3>2. SameStates(InstallOutbound(s, r), s, c)
      BY OutboundFacts
    <3> QED
      BY <2>2, <3>1, <3>2 DEF SameStates
  <2> QED
    BY <1>2, <2>1, <2>2
<1>4. SameStates(RemoveOutbound(x, c), x, c) /\ RemoveOutbound(x, c)[c].out = "NONE"
  BY <1>3, RemoveOutFacts
<1> QED
  BY <1>2, <1>3, <1>4 DEF SameStates

\* u is s after the deletion of c.
Ends(u, s, c) ==
    /\ u \in SaMaps
    /\ \A d \in Sas : d # c => /\ u[d].state = s[d].state /\ u[d].rekey = s[d].rekey
                               /\ u[d].out = s[d].out \/ u[d].out = "INSTALLED"
    /\ u[c].state = "NONE" \/ (u[c].state = s[c].state /\ u[c].out = "NONE")

\* What the end of a deletion does to a peer.
Finishes(p, s, c) ==
    /\ sa' = [sa EXCEPT ![p] = sa'[p]] /\ Ends(sa'[p], s, c)
    /\ jobs' = [jobs EXCEPT ![p] = jobs'[p]]
    /\ jobs'[p] = jobs[p] \/ jobs'[p] = jobs[p] \cup {<<"DELETE", c>>}
    /\ down' \in [Peers -> SUBSET Sas]

LEMMA EndFacts ==
    ASSUME LooseType, NEW p \in Peers, NEW s \in SaMaps, NEW t, NEW c \in Sas, NEW r, NEW i,
           DestroyAndReestablish(p, s, t, c, r, i)
    PROVE  Finishes(p, s, c)
<1>1. PICK x : x = IF r THEN SwitchOver(s, t, c, i) ELSE s
  OBVIOUS
<1>2. SameStates(x, s, c) /\ x \in SaMaps /\ (r => x[c].out = "NONE")
  <2>1. CASE r
    <3>1. x = SwitchOver(s, t, c, i)
      BY <1>1, <2>1
    <3> QED
      BY <3>1, SwitchFacts DEF SameStates
  <2>2. CASE ~r
    <3>1. x = s
      BY <1>1, <2>2
    <3> QED
      BY <2>2, <3>1 DEF SameStates
  <2> QED
    BY <2>1, <2>2
<1>3. PICK u : /\ sa' = [sa EXCEPT ![p] = u]
               /\ u = IF r /\ scene.keeps THEN x ELSE Destroy(x, c)
  BY <1>1 DEF DestroyAndReestablish
<1>4. sa \in [Peers -> SaMaps] /\ jobs \in [Peers -> SUBSET JobSet] /\ down \in [Peers -> SUBSET Sas]
  BY DEF LooseType
<1>5. Writes(Destroy(x, c), x, c, NoSa)
  BY <1>2, DestroyFacts
<1>6. Ends(u, s, c)
  <2>1. CASE r /\ scene.keeps
    BY <1>2, <1>3, <2>1 DEF Ends, SameStates
  <2>2. CASE ~(r /\ scene.keeps)
    BY <1>2, <1>3, <1>5, <2>2, SaFields DEF Ends, SameStates, Writes
  <2> QED
    BY <2>1, <2>2
<1>7. sa'[p] = u /\ sa' = [sa EXCEPT ![p] = sa'[p]]
  BY <1>3, <1>4
<1>8. \/ jobs' = [jobs EXCEPT ![p] = jobs[p] \cup {<<"DELETE", c>>}] \/ jobs' = jobs
  BY DEF DestroyAndReestablish
<1>9. /\ jobs' = [jobs EXCEPT ![p] = jobs'[p]]
      /\ jobs'[p] = jobs[p] \/ jobs'[p] = jobs[p] \cup {<<"DELETE", c>>}
  BY <1>4, <1>8
<1>10. down' = down \/ down' = [down EXCEPT ![p] = down[p] \cup {c}]
  BY DEF DestroyAndReestablish
<1>11. down' \in [Peers -> SUBSET Sas]
  BY <1>4, <1>10
<1> QED
  BY <1>6, <1>7, <1>9, <1>11 DEF Finishes

-----------------------------------------------------------------------------
(* The steps of a peer *)

\* Only p moves.
Moves(p) ==
    /\ LooseType' /\ scene' = scene
    /\ \A x \in Peers : x # p => /\ sa'[x] = sa[x] /\ task'[x] = task[x]
                                 /\ queue'[x] = queue[x] /\ jobs'[x] = jobs[x]

Silent(p) == air' = air /\ (task'[p] = task[p] \/ (~task[p].sent /\ ~task'[p].sent))
Asking(p) ==
    /\ ~task[p].sent /\ task'[p].sent
    /\ RequestOf(task'[p]) \in Messages
    /\ air'[p] = Append(air[p], RequestOf(task'[p]))
    /\ air'[Other(p)] = air[Other(p)]
Replying(p, i, m) == LET q == Other(p) IN
    /\ ~m.req /\ m.child = air[q][i].child /\ m.new = air[q][i].new
    /\ m.type \in AnswersTo(air[q][i].type)
    /\ air'[q] = RemoveAt(air[q], i) /\ air'[p] = Append(air[p], m)
    /\ task'[p].sent = task[p].sent /\ RequestOf(task'[p]) = RequestOf(task[p])
Taking(p, i) == LET q == Other(p) IN
    air'[q] = RemoveAt(air[q], i) /\ air'[p] = air[p]
AirMove(p) ==
    \/ Silent(p)
    \/ Asking(p)
    \/ \E i \in Asked(air[Other(p)]), m \in Messages : Replying(p, i, m)
    \/ \E i \in Replies(air[Other(p)]) : Taking(p, i)

LEMMA ExchangingNext ==
    ASSUME RekeyInv, NEW p \in Peers, Moves(p), AirMove(p)
    PROVE  /\ \A x \in Peers : Exchanging(task'[x], air'[x], air'[Other(x)])
           /\ OkIn(air[p]) => OkIn(air'[p])
<1>0. PICK q : q = Other(p)
  OBVIOUS
<1>1. q \in Peers /\ q # p /\ Other(q) = p /\ \A x \in Peers : x = p \/ x = q
  BY <1>0, PeersFacts
<1>2. PICK a, b, x, y, t, v, w : /\ a = air[p] /\ b = air[q] /\ x = air'[p] /\ y = air'[q]
                                 /\ t = task[p] /\ v = task'[p] /\ w = task[q]
  OBVIOUS
<1>3. /\ a \in Seq(Messages) /\ b \in Seq(Messages)
      /\ Exchanging(t, a, b) /\ Exchanging(w, b, a) /\ task'[q] = w
  BY <1>0, <1>1, <1>2 DEF RekeyInv, LocalOk, LooseType, Moves
<1>4. SUFFICES Exchanging(v, x, y) /\ Exchanging(w, y, x) /\ (OkIn(a) => OkIn(x))
  BY <1>0, <1>1, <1>2, <1>3
<1>5. CASE Silent(p)
  <2>1. x = a /\ y = b /\ (v = t \/ (~t.sent /\ ~v.sent))
    BY <1>2, <1>5 DEF Silent
  <2>2. CASE v = t
    BY <1>3, <2>1, <2>2
  <2>3. CASE ~t.sent /\ ~v.sent
    <3>1. Asked(a) = {} /\ Replies(b) = {}
      BY <1>3, <2>3, NothingSent
    <3> QED
      BY <1>3, <2>1, <3>1 DEF Exchanging
  <2> QED
    BY <2>1, <2>2, <2>3
<1>6. CASE Asking(p)
  <2>1. PICK m \in Messages : m = RequestOf(v) /\ x = Append(a, m)
    BY <1>2, <1>6 DEF Asking
  <2>2. ~t.sent /\ v.sent /\ y = b
    BY <1>0, <1>2, <1>6 DEF Asking
  <2>3. Exchanging(v, x, b)
    BY <1>3, <2>1, <2>2, Asks
  <2>4. m.req
    BY <2>1 DEF RequestOf, Request
  <2>5. Exchanging(w, b, x)
    BY <1>3, <2>1, <2>4, AskedBeside
  <2>6. Replies(x) = Replies(a) /\ \A k \in DOMAIN a : x[k] = a[k]
    BY <1>3, <2>1, <2>4, AppendAir DEF Longer
  <2>7. OkIn(a) => OkIn(x)
    BY <2>6 DEF OkIn, Replies
  <2> QED
    BY <2>2, <2>3, <2>5, <2>7
<1>7. ASSUME NEW i \in Asked(air[Other(p)]), NEW m \in Messages, Replying(p, i, m)
      PROVE  Exchanging(v, x, y) /\ Exchanging(w, y, x) /\ (OkIn(a) => OkIn(x))
  <2>1. /\ ~m.req /\ m.child = b[i].child /\ m.new = b[i].new /\ m.type \in AnswersTo(b[i].type)
        /\ y = RemoveAt(b, i) /\ x = Append(a, m)
        /\ v.sent = t.sent /\ RequestOf(v) = RequestOf(t)
    BY <1>0, <1>2, <1>7 DEF Replying
  <2>2. i \in Asked(b) /\ i \in DOMAIN b
    BY <1>0, <1>2 DEF Asked
  <2>3. Exchanging(v, x, y)
    BY <1>3, <2>1, <2>2, AnswersBeside
  <2>4. Exchanging(w, y, x)
    BY <1>3, <2>1, <2>2, IsAnswered
  <2>5. Replies(x) = Replies(a) \cup {Len(a) + 1} /\ \A k \in DOMAIN a : x[k] = a[k]
    BY <1>3, <2>1, AppendAir DEF Longer
  <2>6. OkIn(a) => OkIn(x)
    BY <2>5 DEF OkIn, Replies
  <2> QED
    BY <2>3, <2>4, <2>6
<1>8. ASSUME NEW i \in Replies(air[Other(p)]), Taking(p, i)
      PROVE  Exchanging(v, x, y) /\ Exchanging(w, y, x) /\ (OkIn(a) => OkIn(x))
  <2>1. y = RemoveAt(b, i) /\ x = a /\ i \in Replies(b) /\ i \in DOMAIN b
    BY <1>0, <1>2, <1>8 DEF Taking, Replies
  <2>2. Exchanging(v, a, y)
    BY <1>3, <2>1, Takes
  <2>3. Exchanging(w, y, a)
    BY <1>3, <2>1, TakesBeside
  <2> QED
    BY <2>1, <2>2, <2>3
<1> QED
  BY <1>5, <1>6, <1>7, <1>8 DEF AirMove

\* p keeps to the numbers: made is the one of a CHILD_SA that p makes, if it does.
Frugal(p, made) ==
    /\ left'.rekeys = left.rekeys \/ (left.rekeys > 0 /\ left'.rekeys = left.rekeys - 1)
    /\ \A n \in Sas : Holds(p, n)' =>
          Holds(p, n) \/ (n = NextSa /\ left'.rekeys = left.rekeys - 1)
    /\ Apart(task[p], queue[p])'
    /\ \A n \in Sas : Reserved(p, n)' => Reserved(p, n) \/ n >= NextSa
    /\ \A n \in Sas : Unused(p, n) /\ n # made => Unused(p, n)'
    /\ made \in Sas => \E x \in Peers : Holds(x, made)
    /\ made \in Sas => \A x \in Peers : ~Reserved(x, made)'

LEMMA NumbersNext ==
    ASSUME RekeyInv, NEW p \in Peers, Moves(p), AirMove(p), NEW made, Frugal(p, made)
    PROVE  Numbers'
<1>0. PICK q : q = Other(p)
  OBVIOUS
<1>1. q \in Peers /\ q # p /\ Other(q) = p /\ \A x \in Peers : x = p \/ x = q
  BY <1>0, PeersFacts
<1>2. /\ left \in Bounds /\ left' \in Bounds /\ scene \in Scenarios /\ scene' = scene /\ Numbers
      /\ sa'[q] = sa[q] /\ task'[q] = task[q] /\ queue'[q] = queue[q] /\ jobs'[q] = jobs[q]
  BY <1>1 DEF RekeyInv, LooseType, Moves
<1>3. left.rekeys \in Nat /\ left'.rekeys \in Nat /\ scene.rekeys \in Nat
  BY <1>2, ChildRekeyConstants DEF Bounds, Scenario
<1>4. /\ NextSa \in Int /\ NextSa' \in Int
      /\ NextSa' = NextSa \/ (NextSa' = NextSa + 1 /\ left'.rekeys = left.rekeys - 1)
      /\ left'.rekeys = left.rekeys - 1 => NextSa' = NextSa + 1
      /\ left'.rekeys <= scene.rekeys
  BY <1>2, <1>3 DEF Numbers, NextSa, Frugal
<1>5. \A n \in Sas : Holds(q, n)' <=> Holds(q, n)
  BY <1>2 DEF Holds
<1>6. ASSUME NEW n \in Sas, Reserved(q, n)' PROVE Reserved(q, n)
  BY <1>1, <1>2, <1>6, ExchangingNext DEF Reserved, Unmade
<1>7. \A n \in Sas : Unused(q, n)' <=> Unused(q, n)
  BY <1>2 DEF Unused
<1>8. ASSUME NEW n \in Sas, Holds(p, n)' PROVE n < NextSa' /\ ~Holds(q, n)'
  <2>1. CASE Holds(p, n)
    <3>1. n < NextSa /\ ~Holds(q, n)
      BY <1>0, <1>2, <2>1 DEF Numbers
    <3> QED
      BY <1>4, <1>5, <3>1, SasFacts
  <2>2. CASE n = NextSa /\ left'.rekeys = left.rekeys - 1
    <3>1. ~Holds(q, n)
      BY <1>1, <1>2, <1>4, <2>2 DEF Numbers
    <3> QED
      BY <1>4, <1>5, <2>2, <3>1
  <2> QED
    BY <1>8, <2>1, <2>2 DEF Frugal
<1>9. ASSUME NEW n \in Sas, Holds(q, n)' PROVE n < NextSa' /\ ~Holds(p, n)'
  <2>1. n < NextSa
    BY <1>1, <1>2, <1>5, <1>9 DEF Numbers
  <2> QED
    BY <1>4, <1>8, <1>9, <2>1, SasFacts
<1>10. \A x \in Peers, n \in Sas : Holds(x, n)' => n < NextSa' /\ ~Holds(Other(x), n)'
  BY <1>0, <1>1, <1>8, <1>9
<1>11. \A x \in Peers : Apart(task[x], queue[x])'
  BY <1>1, <1>2 DEF Frugal, Numbers
<1>12. ASSUME NEW n \in Sas, n >= NextSa' \/ (\E x \in Peers : Reserved(x, n)'),
              NEW x \in Peers
       PROVE  Unused(x, n)'
  <2>1. n >= NextSa \/ (\E z \in Peers : Reserved(z, n))
    <3>1. CASE n >= NextSa'
      BY <1>4, <3>1, SasFacts
    <3>2. CASE Reserved(p, n)'
      BY <3>2 DEF Frugal
    <3>3. CASE Reserved(q, n)'
      BY <1>1, <1>6, <3>3
    <3> QED
      BY <1>1, <1>12, <3>1, <3>2, <3>3
  <2>2. Unused(p, n) /\ Unused(q, n)
    BY <1>1, <1>2, <2>1 DEF Numbers
  <2>3. n # made
    <3>1. SUFFICES ASSUME n = made PROVE FALSE
      OBVIOUS
    <3>2. PICK z \in Peers : Holds(z, n)
      BY <3>1 DEF Frugal
    <3>3. n < NextSa
      BY <1>2, <3>2 DEF Numbers
    <3>4. ~(n >= NextSa')
      BY <1>4, <3>3, SasFacts
    <3> QED
      BY <1>12, <3>1, <3>4 DEF Frugal
  <2> QED
    BY <1>1, <1>7, <2>2, <2>3 DEF Frugal
<1> QED
  BY <1>2, <1>4, <1>10, <1>11, <1>12 DEF Numbers

Sound(p) ==
    /\ TaskOk(task[p]) /\ Informed(sa[p], task[p])
    /\ \A i \in DOMAIN queue[p] : EntryOk(queue[p][i])

GoodStep(p) == /\ Moves(p) /\ AirMove(p) /\ Sound(p)'
               /\ \E made \in SaNumbers : Frugal(p, made)

LEMMA StepKeeps ==
    ASSUME RekeyInv, NEW p \in Peers, GoodStep(p)
    PROVE  RekeyInv'
<1>1. Numbers'
  BY NumbersNext DEF GoodStep
<1>2. \A x \in Peers : Exchanging(task'[x], air'[x], air'[Other(x)])
  BY ExchangingNext DEF GoodStep
<1>3. \A x \in Peers : x # p => Sound(x)'
  BY DEF RekeyInv, LocalOk, GoodStep, Moves, Sound
<1>4. \A x \in Peers : LocalOk(x)'
  BY <1>2, <1>3 DEF LocalOk, Sound, GoodStep
<1> QED
  BY <1>1, <1>4 DEF RekeyInv, GoodStep, Moves

-----------------------------------------------------------------------------
(* What asks for exchanges *)

\* p may queue a task for c: the other peer knows c, or need not.
MayAsk(p, c) == InTheMaking(p, c) => scene.early \/ \E j \in jobs[p] : j[2] = c

\* A task is queued for a CHILD_SA that exists.
Queues(p, e) ==
    /\ queue' = [queue EXCEPT ![p] = Append(@, e)]
    /\ e \in Entries /\ EntryOk(e) /\ e[2] \in Sas /\ sa[p][e[2]].state # "NONE"
    /\ MayAsk(p, e[2])
    /\ left' \in Bounds /\ left'.failures = left.failures
    /\ \/ e[3] = None /\ left'.rekeys = left.rekeys
       \/ e[3] = NextSa /\ left.rekeys > 0 /\ left'.rekeys = left.rekeys - 1

\* p drops the jobs that are not in w, and nothing else happens to it.
Drops(p, w) ==
    /\ w \subseteq jobs[p] /\ jobs' = [jobs EXCEPT ![p] = w]
    /\ UNCHANGED <<sa, task, air, down, nonce, scene>>

LEMMA QueuesStep ==
    ASSUME RekeyInv, NEW p \in Peers, NEW e, Queues(p, e), NEW w, Drops(p, w)
    PROVE  GoodStep(p)
<1>0. /\ w \subseteq jobs[p] /\ jobs' = [jobs EXCEPT ![p] = w]
      /\ UNCHANGED <<sa, task, air, down, nonce, scene>>
  BY DEF Drops
<1>1. /\ sa \in [Peers -> SaMaps] /\ task \in [Peers -> TaskRec] /\ queue \in [Peers -> Seq(Entries)]
      /\ jobs \in [Peers -> SUBSET JobSet] /\ e \in Entries
  BY DEF RekeyInv, LooseType, Queues
<1>2. PICK u, r : u = queue[p] /\ r = Append(u, e)
  OBVIOUS
<1>3. /\ r \in Seq(Entries) /\ DOMAIN r = DOMAIN u \cup {Len(u) + 1}
      /\ r[Len(u) + 1] = e /\ \A k \in DOMAIN u : r[k] = u[k] /\ k < Len(u) + 1
      /\ Len(u) + 1 \notin DOMAIN u
  BY <1>1, <1>2, AppendFacts
<1>4. /\ queue' = [queue EXCEPT ![p] = r] /\ queue'[p] = r /\ queue' \in [Peers -> Seq(Entries)]
      /\ jobs'[p] = w /\ jobs' \in [Peers -> SUBSET JobSet]
  BY <1>0, <1>1, <1>2, <1>3 DEF Queues
<1>5. LooseType'
  BY <1>0, <1>4 DEF RekeyInv, LooseType, Queues
<1>6. Moves(p)
  BY <1>0, <1>1, <1>4, <1>5 DEF Moves
<1>7. AirMove(p)
  BY <1>0 DEF AirMove, Silent
<1>8. Sound(p)'
  <2>1. \A i \in DOMAIN u : EntryOk(u[i])
    BY <1>2 DEF RekeyInv, LocalOk
  <2>2. \A i \in DOMAIN r : EntryOk(r[i])
    BY <1>3, <2>1 DEF Queues
  <2> QED
    BY <1>0, <1>4, <2>2 DEF Sound, RekeyInv, LocalOk
<1>9. \A n : Queued(r, n) <=> Queued(u, n) \/ n = e[3]
  BY <1>3 DEF Queued
<1>10. Frugal(p, None)
  <2>1. left'.rekeys = left.rekeys \/ (left.rekeys > 0 /\ left'.rekeys = left.rekeys - 1)
    BY DEF Queues
  <2>2. e[3] \in Sas => e[3] = NextSa /\ left'.rekeys = left.rekeys - 1
    BY SasFacts DEF Queues
  <2>3. \A n \in Sas : Holds(p, n)' => Holds(p, n) \/ (n = NextSa /\ left'.rekeys = left.rekeys - 1)
    BY <1>0, <1>2, <1>4, <1>9, <2>2 DEF Holds
  <2>4. Apart(task'[p], r)
    <3>1. Apart(task[p], u)
      BY <1>2 DEF RekeyInv, Numbers
    <3>2. e[3] # None => task[p].new # e[3] /\ ~Queued(u, e[3])
      <4>1. SUFFICES ASSUME e[3] # None PROVE ~Holds(p, e[3])
        BY <1>2 DEF Holds
      <4>2. e[3] \in Sas /\ e[3] = NextSa
        BY <4>1 DEF Queues, EntryOk, Entries, Kinds
      <4>3. Holds(p, e[3]) => e[3] < NextSa
        BY <4>2 DEF RekeyInv, Numbers
      <4> QED
        BY <4>2, <4>3, SasFacts
    <3>3. \A i \in DOMAIN u : u[i][3] = e[3] => e[3] = None
      BY <3>2 DEF Queued
    <3>4. ASSUME NEW i \in DOMAIN r, NEW j \in DOMAIN r, r[i][3] # None
          PROVE  r[i][3] # task[p].new /\ (r[i][3] = r[j][3] => i = j)
      <4>1. CASE i \in DOMAIN u /\ j \in DOMAIN u
        BY <1>3, <3>1, <3>4, <4>1 DEF Apart
      <4>2. CASE i \in DOMAIN u /\ j = Len(u) + 1
        BY <1>3, <3>1, <3>3, <3>4, <4>2 DEF Apart
      <4>3. CASE i = Len(u) + 1 /\ j \in DOMAIN u
        BY <1>3, <3>2, <3>3, <3>4, <4>3
      <4>4. CASE i = Len(u) + 1 /\ j = Len(u) + 1
        BY <1>3, <3>2, <3>4, <4>4
      <4> QED
        BY <1>3, <4>1, <4>2, <4>3, <4>4
    <3> QED
      BY <1>0, <3>4 DEF Apart
  <2>5. \A n \in Sas : Reserved(p, n)' => Reserved(p, n) \/ n >= NextSa
    <3>1. ASSUME NEW n \in Sas, Reserved(p, n)', ~Reserved(p, n) PROVE n >= NextSa
      <4>1. n = e[3]
        BY <1>0, <1>2, <1>4, <1>9, <3>1 DEF Reserved
      <4> QED
        BY <2>2, <4>1, SasFacts
    <3> QED
      BY <3>1
  <2>6. \A n \in Sas : Unused(p, n) => Unused(p, n)'
    BY <1>0, <1>2, <1>3, <1>4 DEF Unused, Unmentioned, Queues
  <2> QED
    BY <1>4, <2>1, <2>3, <2>4, <2>5, <2>6, SasFacts DEF Frugal
<1> QED
  BY <1>6, <1>7, <1>8, <1>10, SasFacts DEF GoodStep

\* Nothing is queued.
LEMMA JobOnlyStep ==
    ASSUME RekeyInv, NEW p \in Peers, NEW w, Drops(p, w), UNCHANGED <<queue, left>>
    PROVE  GoodStep(p)
<1>0. /\ w \subseteq jobs[p] /\ jobs' = [jobs EXCEPT ![p] = w]
      /\ UNCHANGED <<sa, task, air, down, nonce, scene>>
  BY DEF Drops
<1>1. jobs \in [Peers -> SUBSET JobSet] /\ jobs'[p] = w /\ jobs' \in [Peers -> SUBSET JobSet]
  BY <1>0 DEF RekeyInv, LooseType
<1>2. LooseType'
  BY <1>0, <1>1 DEF RekeyInv, LooseType
<1>3. Moves(p)
  BY <1>0, <1>1, <1>2 DEF Moves
<1>4. AirMove(p) /\ Sound(p)'
  BY <1>0 DEF AirMove, Silent, Sound, RekeyInv, LocalOk
<1>5. \A n \in Sas : (Holds(p, n)' <=> Holds(p, n)) /\ (Reserved(p, n)' <=> Reserved(p, n))
  BY <1>0 DEF Holds, Reserved
<1>6. Apart(task[p], queue[p])'
  BY <1>0 DEF RekeyInv, Numbers
<1>7. \A n \in Sas : Unused(p, n) => Unused(p, n)'
  BY <1>0, <1>1 DEF Unused, Unmentioned
<1>8. Frugal(p, None)
  BY <1>5, <1>6, <1>7, SasFacts DEF Frugal
<1> QED
  BY <1>3, <1>4, <1>8, SasFacts DEF GoodStep

LEMMA RekeyQueued ==
    ASSUME RekeyInv, NEW p \in Peers, NEW c \in Sas, Exists(sa[p], c), QueueRekey(p, c), MayAsk(p, c)
    PROVE  \E e : Queues(p, e)
<1>1. /\ left \in Bounds /\ left.rekeys > 0 /\ left' = [left EXCEPT !.rekeys = left.rekeys - 1]
      /\ left.rekeys \in Nat /\ scene.rekeys \in 0..MaxRekeys /\ left.rekeys <= scene.rekeys
  BY ChildRekeyConstants DEF RekeyInv, LooseType, Numbers, QueueRekey, Bounds, Scenario
<1>2. left' \in Bounds /\ left'.rekeys = left.rekeys - 1 /\ left'.failures = left.failures
  BY <1>1 DEF Bounds
<1>3. NextSa \in Sas
  BY <1>1, SasFacts DEF NextSa
<1>4. PICK e : e = <<"REKEY", c, NextSa>>
  OBVIOUS
<1>5. e \in Entries /\ e[1] = "REKEY" /\ e[2] = c /\ e[3] = NextSa
  BY <1>3, <1>4, SasFacts DEF Entries, Kinds
<1>6. queue' = [queue EXCEPT ![p] = Append(@, e)]
  BY <1>4 DEF QueueRekey, NextSa
<1>7. sa[p][c].state # "NONE"
  BY DEF Exists
<1>8. NextSa \in Sas /\ NextSa >= NextSa
  BY <1>3, SasFacts
<1>9. Unused(p, NextSa)
  BY <1>8 DEF RekeyInv, Numbers
<1>8c. NextSa # c
  BY <1>7, <1>9 DEF Unused
<1>10. EntryOk(e)
  BY <1>3, <1>5, <1>8c DEF EntryOk
<1>11. Queues(p, e)
  BY <1>1, <1>2, <1>5, <1>6, <1>10, <1>7 DEF Queues
<1> QED
  BY <1>11

LEMMA DeleteQueued ==
    ASSUME RekeyInv, NEW p \in Peers, NEW c \in Sas, Exists(sa[p], c), QueueDelete(p, c), MayAsk(p, c),
           left' \in Bounds, left'.rekeys = left.rekeys, left'.failures = left.failures
    PROVE  \E e : Queues(p, e)
<1>1. PICK e : e = <<"DELETE", c, None>>
  OBVIOUS
<1>2. e \in Entries /\ e[1] = "DELETE" /\ e[2] = c /\ e[3] = None
  BY <1>1, SasFacts DEF Entries, Kinds
<1>3. EntryOk(e) /\ sa[p][c].state # "NONE"
  BY <1>2 DEF EntryOk, Exists
<1>4. queue' = [queue EXCEPT ![p] = Append(@, e)]
  BY <1>1 DEF QueueDelete
<1>5. Queues(p, e)
  BY <1>2, <1>3, <1>4 DEF Queues
<1> QED
  BY <1>5

\* p queues a task, or finds that there is nothing left to do.
Queueing(p) == \E w : Drops(p, w) /\ (UNCHANGED <<queue, left>> \/ \E e : Queues(p, e))

LEMMA SoftExpireStep ==
    ASSUME RekeyInv, NEW p \in Peers, NEW c \in Sas, SoftExpire(p, c)
    PROVE  Queueing(p)
<1>1. /\ Exists(sa[p], c) /\ QueueRekey(p, c) /\ UNCHANGED <<sa, task, jobs, air, down, nonce, scene>>
      /\ MayAsk(p, c)
  BY DEF SoftExpire, MayAsk
<1>2. PICK e : Queues(p, e)
  BY <1>1, RekeyQueued
<1>3. jobs' = [jobs EXCEPT ![p] = jobs[p]]
  BY <1>1 DEF RekeyInv, LooseType
<1>4. Drops(p, jobs[p])
  BY <1>1, <1>3 DEF Drops
<1> QED
  BY <1>2, <1>4 DEF Queueing

LEMMA DeleteChildStep ==
    ASSUME RekeyInv, NEW p \in Peers, NEW c \in Sas, DeleteChild(p, c)
    PROVE  Queueing(p)
<1>1. /\ Exists(sa[p], c) /\ QueueDelete(p, c) /\ UNCHANGED <<sa, task, jobs, air, down, nonce, scene>>
      /\ left.deletes > 0 /\ left' = [left EXCEPT !.deletes = left.deletes - 1]
      /\ MayAsk(p, c)
  BY DEF DeleteChild, MayAsk
<1>2. left \in Bounds
  BY DEF RekeyInv, LooseType
<1>3. left' \in Bounds /\ left'.rekeys = left.rekeys /\ left'.failures = left.failures
  BY <1>1, <1>2 DEF Bounds
<1>4. PICK e : Queues(p, e)
  BY <1>1, <1>3, DeleteQueued
<1>5. jobs' = [jobs EXCEPT ![p] = jobs[p]]
  BY <1>1 DEF RekeyInv, LooseType
<1>6. Drops(p, jobs[p])
  BY <1>1, <1>5 DEF Drops
<1> QED
  BY <1>4, <1>6 DEF Queueing

LEMMA RunJobStep ==
    ASSUME RekeyInv, NEW p \in Peers, NEW j \in JobSet, RunJob(p, j)
    PROVE  Queueing(p)
<1>1. /\ jobs' = [jobs EXCEPT ![p] = jobs[p] \ {j}] /\ j \in jobs[p]
      /\ UNCHANGED <<sa, task, air, down, nonce, scene>> /\ j[2] \in Sas
      /\ \/ UNCHANGED <<queue, left>>
         \/ Exists(sa[p], j[2]) /\ QueueRekey(p, j[2])
         \/ Exists(sa[p], j[2]) /\ QueueDelete(p, j[2]) /\ UNCHANGED left
  BY DEF RunJob, JobSet
<1>2. PICK w, c : w = jobs[p] \ {j} /\ c = j[2] /\ w \subseteq jobs[p]
  OBVIOUS
<1>3. Drops(p, w)
  BY <1>1, <1>2 DEF Drops
<1>4. MayAsk(p, c)
  BY <1>1, <1>2 DEF MayAsk
<1>5. CASE UNCHANGED <<queue, left>>
  BY <1>3, <1>5 DEF Queueing
<1>6. CASE Exists(sa[p], c) /\ QueueRekey(p, c)
  <2>1. PICK e : Queues(p, e)
    BY <1>1, <1>2, <1>4, <1>6, RekeyQueued
  <2> QED
    BY <1>3, <2>1 DEF Queueing
<1>7. CASE Exists(sa[p], c) /\ QueueDelete(p, c) /\ UNCHANGED left
  <2>1. left' \in Bounds /\ left'.rekeys = left.rekeys /\ left'.failures = left.failures
    BY <1>7 DEF RekeyInv, LooseType
  <2>2. PICK e : Queues(p, e)
    BY <1>1, <1>2, <1>4, <1>7, <2>1, DeleteQueued
  <2> QED
    BY <1>3, <2>2 DEF Queueing
<1> QED
  BY <1>1, <1>2, <1>5, <1>6, <1>7

LEMMA QueueingStep ==
    ASSUME RekeyInv, NEW p \in Peers, Queueing(p)
    PROVE  GoodStep(p)
BY QueuesStep, JobOnlyStep DEF Queueing

-----------------------------------------------------------------------------
(* Starting exchanges *)

LEMMA IdleFacts ==
    /\ Idle \in TaskRec /\ TaskOk(Idle) /\ ~Idle.sent /\ Idle.kind = "NONE"
    /\ Idle.child = None /\ Idle.new = None /\ Idle.del = None /\ ~Idle.failed
    /\ Idle.coll = "NONE" /\ Idle.other = None /\ ~Idle.gone
BY SasFacts DEF Idle, TaskRec, TaskOk, Kinds

LEMMA RequestFacts ==
    ASSUME NEW t \in TaskRec
    PROVE  RequestOf(t) \in Messages /\ RequestOf(t).req
BY SasFacts DEF TaskRec, RequestOf, Request, Messages, Kinds

\* The task t of p becomes v with the objects s, and asks for something or not.
Becomes(p, t, v, s) ==
    /\ s \in SaMaps /\ v \in TaskRec /\ TaskOk(v) /\ Informed(s, v)
    /\ sa' = [sa EXCEPT ![p] = s] /\ task' = [task EXCEPT ![p] = v]
    /\ \A n \in Sas : sa[p][n].state = "NONE" => s[n].state = "NONE"
    /\ v.child \in {None, t.child} /\ v.new \in {None, t.new} /\ v.del \in {None, t.del, t.child}
    /\ v.new # None => v.failed = t.failed /\ v.del = t.del
    /\ v.failed => t.failed
    /\ \A c \in Sas : Working(s, c) => Working(sa[p], c)
    /\ \A c \in Sas : Working(sa[p], c) => Working(s, c) \/ Deleting(v, c)
    /\ IF v.sent THEN air' = [air EXCEPT ![p] = Append(@, RequestOf(v))] ELSE air' = air

\* t is the unsent task of p, whose queue is to be r.
Starts(p, t, r) ==
    \/ t = task[p] /\ ~t.sent /\ r = queue[p]
    \/ /\ task[p] = Idle
       /\ \E i \in DOMAIN queue[p] :
            /\ r = RemoveAt(queue[p], i)
            /\ t = [Idle EXCEPT !.kind = queue[p][i][1], !.child = queue[p][i][2],
                                !.new = queue[p][i][3]]

\* What is taken off the queue is not in it any more.
LEMMA Dequeued ==
    ASSUME NEW u \in Seq(Entries), NEW t, Apart(t, u), NEW i \in DOMAIN u, NEW r, r = RemoveAt(u, i)
    PROVE  /\ r \in Seq(Entries)
           /\ \A k \in DOMAIN r : \E l \in DOMAIN u : r[k] = u[l]
           /\ \A k, l \in DOMAIN r :
                 r[k][3] # None => /\ r[k][3] # u[i][3] /\ r[k][3] # t.new
                                   /\ r[k][3] = r[l][3] => k = l
<1>1. r \in Seq(Entries) /\ Lacks(r, u, i)
  BY RemovedFrom
<1>2. /\ \A k \in DOMAIN r : Back(i, k) \in DOMAIN u /\ Back(i, k) # i /\ r[k] = u[Back(i, k)]
      /\ \A k, l \in DOMAIN r : Back(i, k) = Back(i, l) => k = l
  BY <1>1 DEF Lacks
<1>3. \A k \in DOMAIN r : \E l \in DOMAIN u : r[k] = u[l]
  BY <1>2
<1>4. ASSUME NEW k \in DOMAIN r, NEW l \in DOMAIN r, r[k][3] # None
      PROVE  r[k][3] # u[i][3] /\ r[k][3] # t.new /\ (r[k][3] = r[l][3] => k = l)
  <2>1. PICK x, y \in DOMAIN u : x = Back(i, k) /\ y = Back(i, l)
    BY <1>2
  <2>2. r[k] = u[x] /\ r[l] = u[y] /\ x # i /\ (x = y => k = l)
    BY <1>2, <2>1
  <2> QED
    BY <1>4, <2>1, <2>2 DEF Apart
<1> QED
  BY <1>1, <1>3, <1>4

\* p starts an exchange, or drops a task that has become pointless.
Starting(p) == \E t, v, s, r :
    /\ Starts(p, t, r) /\ Becomes(p, t, v, s) /\ queue' = [queue EXCEPT ![p] = r]
    /\ UNCHANGED <<jobs, down, nonce, scene, left>>

LEMMA StartingStep ==
    ASSUME RekeyInv, NEW p \in Peers, Starting(p)
    PROVE  GoodStep(p)
<1> PICK t, v, s, r : /\ Starts(p, t, r) /\ Becomes(p, t, v, s)
                      /\ queue' = [queue EXCEPT ![p] = r]
                      /\ UNCHANGED <<jobs, down, nonce, scene, left>>
  BY DEF Starting
<1>0. PICK q : q = Other(p)
  OBVIOUS
<1>1. q \in Peers /\ q # p
  BY <1>0, PeersFacts
<1>2. /\ sa \in [Peers -> SaMaps] /\ task \in [Peers -> TaskRec] /\ queue \in [Peers -> Seq(Entries)]
      /\ air \in [Peers -> Seq(Messages)] /\ queue[p] \in Seq(Entries) /\ air[p] \in Seq(Messages)
      /\ Apart(task[p], queue[p]) /\ \A i \in DOMAIN queue[p] : EntryOk(queue[p][i])
      /\ TaskOk(task[p])
  BY DEF RekeyInv, LooseType, LocalOk, Numbers
<1>3. /\ s \in SaMaps /\ v \in TaskRec /\ TaskOk(v) /\ Informed(s, v)
      /\ sa' = [sa EXCEPT ![p] = s] /\ task' = [task EXCEPT ![p] = v]
      /\ \A n \in Sas : sa[p][n].state = "NONE" => s[n].state = "NONE"
      /\ v.child \in {None, t.child} /\ v.new \in {None, t.new} /\ v.del \in {None, t.del, t.child}
      /\ v.new # None => v.failed = t.failed /\ v.del = t.del
      /\ IF v.sent THEN air' = [air EXCEPT ![p] = Append(@, RequestOf(v))] ELSE air' = air
  BY DEF Becomes
<1>4. ~task[p].sent
  BY IdleFacts DEF Starts
<1>5. /\ r \in Seq(Entries)
      /\ \A k \in DOMAIN r : \E l \in DOMAIN queue[p] : r[k] = queue[p][l]
      /\ Apart(v, r)
      /\ \A n \in Sas : t.new = n => task[p].new = n \/ Queued(queue[p], n)
      /\ \A n \in Sas : Unmentioned(task[p], queue[p], jobs[p], n) => t.child # n /\ t.del # n
      /\ t = task[p] \/ \E i \in DOMAIN queue[p] : t.new = queue[p][i][3]
  <2>1. CASE t = task[p] /\ r = queue[p]
    <3>1. Apart(v, r)
      BY <1>2, <1>3, <2>1 DEF Apart
    <3> QED
      BY <1>2, <2>1, <3>1 DEF Unmentioned
  <2>2. ASSUME task[p] = Idle, NEW i \in DOMAIN queue[p], r = RemoveAt(queue[p], i),
               t = [Idle EXCEPT !.kind = queue[p][i][1], !.child = queue[p][i][2],
                                !.new = queue[p][i][3]]
        PROVE  <1>5!1 /\ <1>5!2 /\ <1>5!3 /\ <1>5!4 /\ <1>5!5 /\ <1>5!6
    <3>1. t.child = queue[p][i][2] /\ t.new = queue[p][i][3] /\ t.del = None
      BY <2>2, IdleFacts DEF Idle
    <3>2. PICK u : u = queue[p]
      OBVIOUS
    <3>3. /\ r \in Seq(Entries)
          /\ \A k \in DOMAIN r : \E l \in DOMAIN u : r[k] = u[l]
          /\ \A k, l \in DOMAIN r :
                 r[k][3] # None => /\ r[k][3] # u[i][3] /\ r[k][3] # task[p].new
                                   /\ r[k][3] = r[l][3] => k = l
      BY <1>2, <2>2, <3>2, Dequeued
    <3>4. Apart(v, r)
      BY <1>3, <3>1, <3>2, <3>3 DEF Apart
    <3>5. \A n \in Sas : t.new = n => Queued(queue[p], n)
      BY <3>1 DEF Queued
    <3>6. \A n \in Sas : Unmentioned(task[p], queue[p], jobs[p], n) => t.child # n /\ t.del # n
      BY <3>1, SasFacts DEF Unmentioned
    <3> QED
      BY <3>1, <3>2, <3>3, <3>4, <3>5, <3>6
  <2> QED
    BY <2>1, <2>2 DEF Starts
<1>6. sa'[p] = s /\ task'[p] = v /\ queue'[p] = r /\ jobs'[p] = jobs[p]
  BY <1>2, <1>3
<1>7. /\ sa' \in [Peers -> SaMaps] /\ task' \in [Peers -> TaskRec] /\ queue' \in [Peers -> Seq(Entries)]
  BY <1>2, <1>3, <1>5
<1>8. air' \in [Peers -> Seq(Messages)]
  <2>1. CASE v.sent
    <3>1. PICK m \in Messages : m = RequestOf(v)
      BY <1>3, RequestFacts
    <3>2. Append(air[p], m) \in Seq(Messages)
      BY <1>2, AppendAir
    <3> QED
      BY <1>2, <1>3, <2>1, <3>1, <3>2
  <2> QED
    BY <1>2, <1>3, <2>1
<1>9. LooseType'
  BY <1>7, <1>8 DEF RekeyInv, LooseType
<1>10. Moves(p)
  BY <1>2, <1>3, <1>9 DEF Moves
<1>11. AirMove(p)
  <2>1. CASE v.sent
    <3>1. air'[p] = Append(air[p], RequestOf(v)) /\ air'[q] = air[q]
      BY <1>1, <1>2, <1>3, <2>1
    <3>2. RequestOf(v) \in Messages
      BY <1>3, RequestFacts
    <3> QED
      BY <1>0, <1>4, <1>6, <2>1, <3>1, <3>2 DEF AirMove, Asking
  <2>2. CASE ~v.sent
    BY <1>3, <1>4, <1>6, <2>2 DEF AirMove, Silent
  <2> QED
    BY <2>1, <2>2
<1>12. Sound(p)'
  <2>1. \A i \in DOMAIN r : EntryOk(r[i])
    BY <1>2, <1>5
  <2> QED
    BY <1>3, <1>6, <2>1 DEF Sound
<1>13. \A n : Queued(r, n) => Queued(queue[p], n)
  BY <1>5 DEF Queued
<1>14. ASSUME NEW n \in Sas, Holds(p, n)' PROVE Holds(p, n)
  BY <1>3, <1>5, <1>6, <1>13, <1>14, SasFacts DEF Holds
<1>15. air'[q] = air[q]
  BY <1>1, <1>2, <1>3
<1>16. ASSUME NEW n \in Sas, Reserved(p, n)' PROVE Reserved(p, n)
  <2>1. CASE Queued(r, n)
    BY <1>13, <2>1 DEF Reserved
  <2>2. CASE Unmade(v, air[q], n)
    <3>1. v.new = n /\ t.new = n /\ t.del = None /\ ~t.failed /\ ~OkIn(air[q])
      BY <1>3, <2>2, SasFacts DEF Unmade
    <3>2. CASE t = task[p]
      BY <1>0, <3>1, <3>2 DEF Reserved, Unmade
    <3>3. CASE \E i \in DOMAIN queue[p] : t.new = queue[p][i][3]
      BY <3>1, <3>3 DEF Reserved, Queued
    <3> QED
      BY <1>5, <3>2, <3>3
  <2> QED
    BY <1>0, <1>6, <1>15, <1>16, <2>1, <2>2 DEF Reserved
<1>17. ASSUME NEW n \in Sas, Unused(p, n) PROVE Unused(p, n)'
  <2>1. s[n].state = "NONE"
    BY <1>3, <1>17 DEF Unused
  <2>2. v.child # n /\ v.del # n
    BY <1>3, <1>5, <1>17, SasFacts DEF Unused
  <2>3. \A i \in DOMAIN r : r[i][2] # n
    BY <1>5, <1>17 DEF Unused, Unmentioned
  <2> QED
    BY <1>6, <1>17, <2>1, <2>2, <2>3 DEF Unused, Unmentioned
<1>18. Frugal(p, None)
  BY <1>5, <1>6, <1>14, <1>16, <1>17, SasFacts DEF Frugal
<1> QED
  BY <1>10, <1>11, <1>12, <1>18, SasFacts DEF GoodStep

\* What is known of the objects of p, and of a task with t's knowledge.
LEMMA LocalFacts ==
    ASSUME RekeyInv, NEW p \in Peers
    PROVE  /\ sa \in [Peers -> SaMaps] /\ sa[p] \in SaMaps
           /\ task \in [Peers -> TaskRec] /\ task[p] \in TaskRec
           /\ queue \in [Peers -> Seq(Entries)] /\ queue[p] \in Seq(Entries)
           /\ air \in [Peers -> Seq(Messages)] /\ air[p] \in Seq(Messages)
           /\ TaskOk(task[p]) /\ Informed(sa[p], task[p])
           /\ \A i \in DOMAIN queue[p] : EntryOk(queue[p][i])
           /\ \A c \in Sas : sa[p][c] \in SaRec
BY DEF RekeyInv, LooseType, LocalOk, SaMaps

LEMMA SameObjects ==
    ASSUME RekeyInv, NEW p \in Peers
    PROVE  sa = [sa EXCEPT ![p] = sa[p]]
BY LocalFacts

ToDelete(p, t, c) ==
    \/ /\ t.kind = "DELETE" /\ t.child = c /\ t.new = None /\ t.coll = "NONE" /\ ~t.failed
       /\ ~t.sent
    \/ t = task[p] /\ t.kind = "REKEY" /\ t.del = c

LEMMA BuildDeleteFacts ==
    ASSUME RekeyInv, NEW p \in Peers, NEW t \in TaskRec, NEW c \in Sas, ToDelete(p, t, c),
           BuildDelete(p, t, c)
    PROVE  \E v, s : Becomes(p, t, v, s)
<1>1. /\ sa[p] \in SaMaps /\ sa[p][c] \in SaRec /\ Informed(sa[p], task[p]) /\ TaskOk(task[p])
      /\ sa \in [Peers -> SaMaps]
  BY LocalFacts
<1>2. PICK o : o = sa[p]
  OBVIOUS
<1>3. CASE o[c].state = "NONE"
  <2>1. PICK v : v = [Idle EXCEPT !.kind = "EMPTY", !.sent = TRUE]
    OBVIOUS
  <2>2. /\ v \in TaskRec /\ v.kind = "EMPTY" /\ v.sent /\ v.child = None /\ v.new = None
        /\ v.del = None /\ ~v.failed /\ v.coll = "NONE"
    BY <2>1, IdleFacts DEF TaskRec, Idle
  <2>3. TaskOk(v) /\ Informed(o, v)
    BY <1>1, <1>2, <2>2 DEF TaskOk, Informed
  <2>4. RequestOf(v) = Request("EMPTY", None, None)
    BY <2>2 DEF RequestOf
  <2>5. /\ sa' = sa /\ task' = [task EXCEPT ![p] = v]
        /\ air' = [air EXCEPT ![p] = Append(@, RequestOf(v))]
    BY <1>2, <1>3, <2>1, <2>4 DEF BuildDelete, Send
  <2>6. Becomes(p, t, v, o)
    BY <1>1, <1>2, <2>2, <2>3, <2>5, SameObjects, Zenon DEF Becomes
  <2> QED
    BY <2>6
<1>4. CASE o[c].state = "DELETING"
  <2>1. PICK s : s = Destroy(o, c)
    OBVIOUS
  <2>2. s \in SaMaps /\ s[c] = NoSa /\ \A d \in Sas : d # c => s[d] = o[d]
    BY <1>1, <1>2, <2>1, DestroyFacts DEF Writes
  <2>3. Informed(s, Idle)
    BY <1>1, <1>2, <2>2, IdleFacts, SaFields DEF Informed
  <2>4. sa' = [sa EXCEPT ![p] = s] /\ task' = [task EXCEPT ![p] = Idle] /\ air' = air
    BY <1>1, <1>2, <1>4, <2>1 DEF BuildDelete
  <2>5. \A n \in Sas : sa[p][n].state = "NONE" => s[n].state = "NONE"
    BY <1>2, <2>2, SaFields
  <2>6. \A d \in Sas : Working(s, d) <=> Working(sa[p], d)
    BY <1>2, <1>4, <2>2, SaFields DEF Working
  <2>7. Becomes(p, t, Idle, s)
    BY <2>2, <2>3, <2>4, <2>5, <2>6, IdleFacts DEF Becomes
  <2> QED
    BY <2>7
<1>5. CASE Working(o, c)
  <2>0. PICK b \in BOOLEAN : b = (o[c].state = "REKEYED")
    OBVIOUS
  <2>1. PICK s, v : /\ s = SetState(o, c, "DELETING")
                    /\ v = [t EXCEPT !.sent = TRUE, !.del = c, !.rekeyed = b]
    OBVIOUS
  <2>2. Puts(s, o, c, "DELETING")
    BY <1>1, <1>2, <2>1, SetStateFacts
  <2>3. /\ s \in SaMaps /\ s[c].state = "DELETING" /\ s[c].out = o[c].out
        /\ \A d \in Sas : d # c => s[d] = o[d]
    BY <2>2 DEF Puts
  <2>4. /\ v \in TaskRec /\ v.sent /\ v.del = c /\ v.kind = t.kind /\ v.child = t.child
        /\ v.new = t.new /\ v.failed = t.failed /\ v.coll = t.coll /\ v.other = t.other
        /\ v.gone = t.gone
    BY <2>1, SasFacts DEF TaskRec
  <2>5. o[c].out # "NONE"
    BY <1>1, <1>2, <1>5 DEF Informed, Working
  <2>6. TaskOk(v)
    BY <1>1, <2>4, SasFacts DEF TaskOk, ToDelete
  <2>7. t.coll = "DELETE" => ~Working(s, t.child)
    BY <1>1, <1>2, <2>3 DEF ToDelete, Informed, Working, TaskOk
  <2>8. ASSUME t.coll = "REKEY", ~t.gone PROVE Working(s, t.other)
    <3>1. t = task[p] /\ t.kind = "REKEY" /\ t.del = c
      BY <2>8 DEF ToDelete
    <3>2. t.other \in Sas /\ t.other # c
      BY <1>1, <2>8, <3>1, SasFacts DEF TaskOk
    <3>3. Working(o, t.other)
      BY <1>1, <1>2, <2>8, <3>1 DEF Informed
    <3> QED
      BY <2>3, <3>2, <3>3 DEF Working
  <2>9. Informed(s, v)
    BY <1>1, <1>2, <2>3, <2>4, <2>5, <2>7, <2>8, SasFacts DEF Informed
  <2>10. RequestOf(v) = Request("DELETE", c, None)
    BY <2>4, SasFacts DEF RequestOf, ToDelete
  <2>11. /\ sa' = [sa EXCEPT ![p] = s] /\ task' = [task EXCEPT ![p] = v]
         /\ air' = [air EXCEPT ![p] = Append(@, RequestOf(v))]
    BY <1>1, <1>2, <1>5, <2>0, <2>1, <2>10 DEF BuildDelete, Send, Working
  <2>12. \A n \in Sas : sa[p][n].state = "NONE" => s[n].state = "NONE"
    BY <1>2, <1>5, <2>3 DEF Working
  <2>13. v.del \in {t.del, t.child} /\ (v.new # None => v.del = t.del)
    BY <2>4 DEF ToDelete
  <2>14. /\ \A d \in Sas : Working(s, d) => Working(sa[p], d)
         /\ \A d \in Sas : Working(sa[p], d) => Working(s, d) \/ Deleting(v, d)
    BY <1>2, <2>3, <2>4 DEF Working, Deleting
  <2>15. Becomes(p, t, v, s)
    BY <2>3, <2>4, <2>6, <2>9, <2>11, <2>12, <2>13, <2>14 DEF Becomes
  <2> QED
    BY <2>15
<1> QED
  BY <1>2, <1>3, <1>4, <1>5 DEF Working

ToRekey(p, t) ==
    /\ t.kind = "REKEY" /\ t.child \in Sas /\ t.new \in Sas \ {t.child} /\ t.del = None /\ ~t.sent
    /\ t.coll = "NONE" \/ t = task[p]

LEMMA BuildRekeyFacts ==
    ASSUME RekeyInv, NEW p \in Peers, NEW t \in TaskRec, NEW f, ToRekey(p, t), BuildRekey(p, t, f)
    PROVE  \E v, s : Becomes(p, t, v, s)
<1>1. /\ sa[p] \in SaMaps /\ Informed(sa[p], task[p]) /\ TaskOk(task[p]) /\ sa \in [Peers -> SaMaps]
  BY LocalFacts
<1>2. PICK o, c : o = sa[p] /\ c = t.child
  OBVIOUS
<1>3. c \in Sas
  BY <1>2 DEF ToRekey
<1>4. CASE UNCHANGED <<sa, air>> /\ task' = [task EXCEPT ![p] = Idle]
  <2>1. Informed(o, Idle)
    BY <1>1, <1>2, IdleFacts DEF Informed
  <2>2. Becomes(p, t, Idle, o)
    BY <1>1, <1>2, <1>4, <2>1, SameObjects, IdleFacts DEF Becomes
  <2> QED
    BY <2>2
<1>5. CASE /\ Working(o, c)
           /\ Send(p, IF t.failed THEN Request("DELETE", t.new, None) ELSE Request("REKEY", c, t.new))
           /\ sa' = [sa EXCEPT ![p] = SetState(@, c, "REKEYING")]
           /\ task' = [task EXCEPT ![p] = [t EXCEPT !.sent = TRUE]]
  <2>1. PICK s, v : s = SetState(o, c, "REKEYING") /\ v = [t EXCEPT !.sent = TRUE]
    OBVIOUS
  <2>2. Puts(s, o, c, "REKEYING")
    BY <1>1, <1>2, <1>3, <2>1, SetStateFacts
  <2>3. /\ s \in SaMaps /\ s[c].state = "REKEYING" /\ s[c].out = o[c].out
        /\ \A d \in Sas : d # c => s[d] = o[d]
    BY <2>2 DEF Puts
  <2>4. /\ v \in TaskRec /\ v.sent /\ v.del = None /\ v.kind = "REKEY" /\ v.child = c
        /\ v.new = t.new /\ v.failed = t.failed /\ v.coll = t.coll /\ v.other = t.other
        /\ v.gone = t.gone
    BY <1>2, <2>1 DEF TaskRec, ToRekey
  <2>5. TaskOk(v)
    BY <1>1, <1>2, <1>3, <2>4, SasFacts DEF TaskOk, ToRekey
  <2>6. t.coll # "DELETE"
    BY <1>1, <1>2, <1>5 DEF Informed, ToRekey
  <2>7. t.coll = "REKEY" /\ ~t.gone => Working(s, t.other)
    BY <1>1, <1>2, <2>3 DEF ToRekey, Informed, Working, TaskOk
  <2>8. o[c].out # "NONE"
    BY <1>1, <1>2, <1>3, <1>5 DEF Informed, Working
  <2>9. Informed(s, v)
    BY <1>1, <1>2, <2>3, <2>4, <2>6, <2>7, <2>8 DEF Informed
  <2>10. RequestOf(v) = IF t.failed THEN Request("DELETE", t.new, None) ELSE Request("REKEY", c, t.new)
    BY <2>4 DEF RequestOf
  <2>11. /\ sa' = [sa EXCEPT ![p] = s] /\ task' = [task EXCEPT ![p] = v]
         /\ air' = [air EXCEPT ![p] = Append(@, RequestOf(v))]
    BY <1>1, <1>2, <1>5, <2>1, <2>10 DEF Send
  <2>12. \A n \in Sas : sa[p][n].state = "NONE" => s[n].state = "NONE"
    BY <1>2, <1>5, <2>3 DEF Working
  <2>13. \A d \in Sas : Working(s, d) <=> Working(sa[p], d)
    BY <1>2, <1>5, <2>3 DEF Working
  <2>14. Becomes(p, t, v, s)
    BY <1>2, <2>3, <2>4, <2>5, <2>9, <2>11, <2>12, <2>13 DEF Becomes, ToRekey
  <2> QED
    BY <2>14
<1> QED
  BY <1>2, <1>4, <1>5 DEF BuildRekey, Working

LEMMA BuildCreateFacts ==
    ASSUME RekeyInv, NEW p \in Peers, NEW t \in TaskRec,
           t.kind = "CREATE", t.child = None, t.new \in Sas, t.del = None, t.coll = "NONE",
           BuildCreate(p, t)
    PROVE  \E v, s : Becomes(p, t, v, s)
<1>1. /\ sa[p] \in SaMaps /\ Informed(sa[p], task[p]) /\ sa \in [Peers -> SaMaps]
  BY LocalFacts
<1>2. PICK o, v : o = sa[p] /\ v = [t EXCEPT !.sent = TRUE]
  OBVIOUS
<1>3. /\ v \in TaskRec /\ v.sent /\ v.del = None /\ v.kind = "CREATE" /\ v.child = None
      /\ v.new = t.new /\ v.failed = t.failed /\ v.coll = "NONE"
  BY <1>2 DEF TaskRec
<1>4. TaskOk(v) /\ Informed(o, v)
  BY <1>1, <1>2, <1>3 DEF TaskOk, Informed
<1>5. RequestOf(v) = IF t.failed THEN Request("DELETE", t.new, None) ELSE Request("CREATE", None, t.new)
  BY <1>3 DEF RequestOf
<1>6. /\ sa' = sa /\ task' = [task EXCEPT ![p] = v]
      /\ air' = [air EXCEPT ![p] = Append(@, RequestOf(v))]
  BY <1>2, <1>5 DEF BuildCreate, Send
<1>7. Becomes(p, t, v, o)
  BY <1>1, <1>2, <1>3, <1>4, <1>6, SameObjects DEF Becomes
<1> QED
  BY <1>7

LEMMA MinFacts ==
    ASSUME NEW S, S \subseteq Nat, S # {}
    PROVE  Min(S) \in S
<1>1. PICK R : R = {ss \in Nat \X Nat : ss[1] < ss[2]}
  OBVIOUS
<1>2. IsWellFoundedOn(R, Nat)
  BY <1>1, NatLessThanWellFounded DEF OpToRel
<1>3. PICK x \in S : \A y \in S : <<y, x>> \notin R
  BY <1>2, WFMin
<1>4. \A y \in Nat, z \in Nat : y < z => <<y, z>> \in R
  BY <1>1
<1>5. ASSUME NEW y \in S PROVE x <= y
  <2>1. x \in Nat /\ y \in Nat /\ <<y, x>> \notin R
    BY <1>3
  <2>2. ~(y < x)
    BY <1>4, <2>1, Zenon
  <2> QED
    BY <2>1, <2>2
<1> QED
  BY <1>5 DEF Min

LEMMA ActivatedFacts ==
    ASSUME NEW u \in Seq(Entries), u # <<>>
    PROVE  Activated(u) \in DOMAIN u
<1>1. DOMAIN u \subseteq Nat /\ 1 \in DOMAIN u
  OBVIOUS
<1>2. PICK d, c : /\ d = {i \in DOMAIN u : u[i][1] = "DELETE"}
                  /\ c = {i \in DOMAIN u : u[i][1] = "CREATE"}
  OBVIOUS
<1>3. d # {} => Min(d) \in d
  BY <1>1, <1>2, MinFacts
<1>4. c # {} => Min(c) \in c
  BY <1>1, <1>2, MinFacts
<1>5. Activated(u) = CASE d # {} -> Min(d) [] d = {} /\ c # {} -> Min(c) [] OTHER -> 1
  BY <1>2 DEF Activated
<1> QED
  BY <1>1, <1>2, <1>3, <1>4, <1>5

LEMMA InitiateStep ==
    ASSUME RekeyInv, NEW p \in Peers, Initiate(p)
    PROVE  Starting(p)
<1>1. /\ sa[p] \in SaMaps /\ task[p] \in TaskRec /\ queue[p] \in Seq(Entries) /\ TaskOk(task[p])
      /\ queue \in [Peers -> Seq(Entries)] /\ \A i \in DOMAIN queue[p] : EntryOk(queue[p][i])
  BY LocalFacts
<1>2. Pending(p) /\ UNCHANGED <<jobs, down, nonce, scene, left>>
  BY DEF Initiate
<1>3. CASE InitiateQueued(p)
  <2>1. task[p] = Idle /\ queue[p] # <<>>
    BY <1>1, <1>2, <1>3 DEF InitiateQueued, Pending, TaskOk
  <2>2. PICK i, e, t : /\ i = Activated(queue[p]) /\ e = queue[p][i]
                       /\ t = [Idle EXCEPT !.kind = e[1], !.child = e[2], !.new = e[3]]
    OBVIOUS
  <2>3. i \in DOMAIN queue[p] /\ e \in Entries /\ EntryOk(e)
    BY <1>1, <2>1, <2>2, ActivatedFacts
  <2>4. e[1] \in Kinds /\ e[2] \in SaNumbers /\ e[3] \in SaNumbers
    BY <2>3 DEF Entries
  <2>5. /\ t \in TaskRec /\ t.kind = e[1] /\ t.child = e[2] /\ t.new = e[3] /\ ~t.sent
        /\ t.del = None /\ t.coll = "NONE" /\ ~t.failed
    BY <2>2, <2>4, SasFacts DEF Idle, TaskRec
  <2>6. PICK r : r = RemoveAt(queue[p], i)
    OBVIOUS
  <2>7. Starts(p, t, r)
    BY <2>1, <2>2, <2>3, <2>6 DEF Starts
  <2>8. queue' = [queue EXCEPT ![p] = r]
    BY <1>3, <2>2, <2>6 DEF InitiateQueued
  <2>9. \E v, s : Becomes(p, t, v, s)
    <3>1. CASE e[1] = "DELETE" /\ BuildDelete(p, t, e[2])
      <4>1. e[2] \in Sas /\ e[3] = None
        BY <2>3, <3>1 DEF EntryOk
      <4>2. ToDelete(p, t, e[2])
        BY <2>5, <3>1, <4>1 DEF ToDelete
      <4> QED
        BY <2>5, <3>1, <4>1, <4>2, BuildDeleteFacts
    <3>2. CASE e[1] = "CREATE" /\ BuildCreate(p, t)
      BY <2>3, <2>5, <3>2, BuildCreateFacts DEF EntryOk
    <3>3. CASE e[1] = "REKEY" /\ BuildRekey(p, t, TRUE)
      <4>1. ToRekey(p, t)
        BY <2>3, <2>5, <3>3 DEF ToRekey, EntryOk
      <4> QED
        BY <2>5, <3>3, <4>1, BuildRekeyFacts
    <3> QED
      BY <1>3, <2>2, <3>1, <3>2, <3>3 DEF InitiateQueued
  <2> QED
    BY <1>2, <2>7, <2>8, <2>9 DEF Starting
<1>4. CASE task[p].kind \in {"CREATE", "REKEY"} /\ UNCHANGED queue /\ \E v, s : Becomes(p, task[p], v, s)
  <2>1. PICK t, r : t = task[p] /\ r = queue[p]
    OBVIOUS
  <2>2. ~t.sent
    BY <1>2, <2>1 DEF Pending
  <2>3. Starts(p, t, r)
    BY <2>1, <2>2 DEF Starts
  <2>4. queue' = [queue EXCEPT ![p] = r]
    BY <1>1, <1>4, <2>1
  <2> QED
    BY <1>2, <1>4, <2>1, <2>3, <2>4 DEF Starting
<1>5. ASSUME NEW t, t = task[p], t.kind = "CREATE", BuildCreate(p, t)
      PROVE  \E v, s : Becomes(p, t, v, s)
  BY <1>1, <1>5, BuildCreateFacts DEF TaskOk
<1>6. ASSUME NEW t, t = task[p], t.kind = "REKEY", t.del # None, BuildDelete(p, t, t.del)
      PROVE  \E v, s : Becomes(p, t, v, s)
  <2>1. PICK c \in Sas : c = t.del
    BY <1>1, <1>6 DEF TaskOk
  <2>2. ToDelete(p, t, c)
    BY <1>6, <2>1 DEF ToDelete
  <2> QED
    BY <1>1, <1>6, <2>1, <2>2, BuildDeleteFacts
<1>7. ASSUME NEW t, t = task[p], t.kind = "REKEY", t.del = None, BuildRekey(p, t, FALSE)
      PROVE  \E v, s : Becomes(p, t, v, s)
  <2>1. ToRekey(p, t)
    BY <1>1, <1>2, <1>7 DEF ToRekey, TaskOk, Pending
  <2> QED
    BY <1>1, <1>7, <2>1, BuildRekeyFacts
<1> QED
  BY <1>3, <1>4, <1>5, <1>6, <1>7 DEF Initiate

-----------------------------------------------------------------------------
(* Requests *)

\* p answers the i-th message of the other peer with a.  Its task t becomes v, its
\* objects s and its jobs w; made is the CHILD_SA it makes.
Handles(p, i, a, s, v, w, made) == LET q == Other(p)  t == task[p] IN
    /\ i \in Asked(air[q]) /\ a \in AnswersTo(air[q][i].type)
    /\ air' = [air EXCEPT ![q] = RemoveAt(@, i), ![p] = Append(@, Response(a, air[q][i]))]
    /\ s \in SaMaps /\ v \in TaskRec /\ w \in SUBSET JobSet
    /\ sa' = [sa EXCEPT ![p] = s] /\ task' = [task EXCEPT ![p] = v]
    /\ jobs' = [jobs EXCEPT ![p] = w] /\ down' \in [Peers -> SUBSET Sas]
    /\ left' \in Bounds /\ left'.rekeys = left.rekeys
    /\ UNCHANGED <<queue, nonce, scene>>
    /\ v.kind = t.kind /\ v.sent = t.sent /\ v.child = t.child /\ v.new = t.new
    /\ v.failed = t.failed /\ v.del = t.del
    /\ TaskOk(v) /\ Informed(s, v)
    /\ \A n \in Sas : sa[p][n].state = "NONE" /\ n # made => s[n].state = "NONE"
    /\ \A j \in w : j \in jobs[p] \/ sa[p][j[2]].state # "NONE"
    /\ made \in Sas => a = "OK" /\ made = air[q][i].new

\* What the other peer may rely on when p handles the i-th message of it.
Affects(p, i, a, s, v, made) == LET m == air[Other(p)][i]  t == task[p] IN
    /\ scene.ordered => i = 1
    /\ left'.failures = left.failures
    /\ t.coll = "DELETE" => v.coll = "DELETE"
    /\ \A d \in Sas : Working(s, d) => Working(sa[p], d) \/ d = made
    /\ \A d \in Sas : Working(sa[p], d) => Working(s, d) \/ (m.type = "DELETE" /\ d = m.child)
    /\ m.type = "DELETE" => ~Working(s, m.child)
    /\ a = "OK" => made = m.new /\ Working(s, made)
    /\ a = "NOT_FOUND" => ~Working(sa[p], m.child) /\ ~Deleting(t, m.child)

Responding(p) == \E i, a, s, v, w : \E made \in SaNumbers :
    Handles(p, i, a, s, v, w, made) /\ Affects(p, i, a, s, v, made)

LEMMA ResponseFacts ==
    ASSUME NEW m \in Messages, NEW a \in AnswersTo(m.type)
    PROVE  /\ Response(a, m) \in Messages /\ ~Response(a, m).req /\ Response(a, m).type = a
           /\ Response(a, m).child = m.child /\ Response(a, m).new = m.new
<1>1. a \in Answers
  BY DEF AnswersTo, Answers
<1> QED
  BY <1>1 DEF Messages, Response

\* The request of the other peer is that of its task, and nothing answers it yet.
LEMMA AskedFacts ==
    ASSUME RekeyInv, NEW p \in Peers, NEW q, q = Other(p), NEW i \in Asked(air[q])
    PROVE  /\ air[q][i] \in Messages /\ i \in DOMAIN air[q] /\ air[q][i].req
           /\ Replies(air[p]) = {} /\ Matches(air[q][i], task[q])
           /\ air[q][i].type = RequestOf(task[q]).type /\ air[q][i].child = RequestOf(task[q]).child
           /\ air[q][i].new = RequestOf(task[q]).new
<1>1. q \in Peers /\ Other(q) = p
  BY PeersFacts
<1>2. air[q] \in Seq(Messages) /\ Exchanging(task[q], air[q], air[p])
  BY <1>1 DEF RekeyInv, LooseType, LocalOk
<1>3. i \in DOMAIN air[q] /\ air[q][i].req /\ air[q][i] \in Messages
  BY <1>2 DEF Asked
<1>4. Replies(air[p]) = {} /\ Matches(air[q][i], task[q])
  BY <1>2 DEF Exchanging
<1> QED
  BY <1>3, <1>4 DEF Matches

LEMMA RequestKinds ==
    ASSUME NEW t \in TaskRec, TaskOk(t), t.sent
    PROVE  /\ RequestOf(t).type \in {"REKEY", "CREATE"} =>
                t.del = None /\ ~t.failed /\ RequestOf(t).new = t.new /\ t.new \in Sas
                /\ RequestOf(t).child = t.child /\ t.kind = RequestOf(t).type
           /\ RequestOf(t).type = "REKEY" => t.child \in Sas
           /\ RequestOf(t).type = "DELETE" =>
                RequestOf(t).child \in Sas
                /\ (t.del = RequestOf(t).child \/ (t.failed /\ t.new = RequestOf(t).child))
           /\ RequestOf(t).type = "EMPTY" => RequestOf(t).child = None
           /\ RequestOf(t).type \in {"REKEY", "CREATE", "DELETE", "EMPTY"}
<1>1. t.kind \in {"NONE", "EMPTY", "DELETE", "CREATE", "REKEY"} /\ t.kind # "NONE"
  BY IdleFacts DEF TaskRec, Kinds, TaskOk
<1>2. \A type, c, n : /\ Request(type, c, n).type = type /\ Request(type, c, n).child = c
                      /\ Request(type, c, n).new = n
  BY DEF Request
<1>3. CASE t.kind = "EMPTY"
  BY <1>2, <1>3 DEF RequestOf
<1>4. CASE t.kind # "EMPTY" /\ t.del # None
  BY <1>1, <1>2, <1>4, SasFacts DEF RequestOf, TaskRec
<1>5. CASE t.kind # "EMPTY" /\ t.del = None /\ t.failed
  <2>1. t.new \in Sas
    BY <1>1, <1>5, SasFacts DEF TaskOk
  <2> QED
    BY <1>2, <1>5, <2>1 DEF RequestOf
<1>6. CASE t.kind # "EMPTY" /\ t.del = None /\ ~t.failed
  <2>1. t.kind \in {"CREATE", "REKEY"} /\ t.new \in Sas
    BY <1>1, <1>6, SasFacts DEF TaskOk
  <2> QED
    BY <1>2, <1>6, <2>1 DEF RequestOf, TaskOk
<1> QED
  BY <1>3, <1>4, <1>5, <1>6

\* A CHILD_SA the other peer asks for is unused.
LEMMA AskedUnused ==
    ASSUME RekeyInv, NEW p \in Peers, NEW q, q = Other(p), NEW i \in Asked(air[q]),
           air[q][i].type \in {"REKEY", "CREATE"}, NEW n, n = air[q][i].new
    PROVE  /\ n \in Sas /\ n = task[q].new /\ Unused(p, n) /\ ~Holds(p, n) /\ Holds(q, n)
           /\ ~Queued(queue[q], n)
<1>1. q \in Peers /\ Other(q) = p
  BY PeersFacts
<1>2. task[q] \in TaskRec /\ TaskOk(task[q]) /\ task[q].sent
  BY <1>1, LocalFacts, AskedFacts DEF Matches
<1>3. task[q].del = None /\ ~task[q].failed /\ n = task[q].new /\ n \in Sas
  BY <1>2, AskedFacts, RequestKinds
<1>4. ~OkIn(air[p])
  BY AskedFacts DEF OkIn
<1>5. Reserved(q, n) /\ Holds(q, n)
  BY <1>1, <1>3, <1>4 DEF Reserved, Unmade, Holds
<1>6. Unused(p, n) /\ ~Holds(p, n) /\ Apart(task[q], queue[q])
  BY <1>1, <1>3, <1>5 DEF RekeyInv, Numbers
<1>7. ~Queued(queue[q], n)
  BY <1>3, <1>6, SasFacts DEF Apart, Queued
<1> QED
  BY <1>3, <1>5, <1>6, <1>7

LEMMA RespondingStep ==
    ASSUME RekeyInv, NEW p \in Peers, Responding(p)
    PROVE  GoodStep(p)
<1> PICK i, a, s, v, w : \E made \in SaNumbers : Handles(p, i, a, s, v, w, made)
  BY DEF Responding
<1> PICK made \in SaNumbers : Handles(p, i, a, s, v, w, made)
  OBVIOUS
<1>0. PICK q : q = Other(p)
  OBVIOUS
<1>1. q \in Peers /\ q # p /\ Other(q) = p /\ \A x \in Peers : x = p \/ x = q
  BY <1>0, PeersFacts
<1>2. PICK t, m, r : t = task[p] /\ m = air[q][i] /\ r = Response(a, m)
  OBVIOUS
<1>3. /\ i \in Asked(air[q]) /\ a \in AnswersTo(m.type)
      /\ air' = [air EXCEPT ![q] = RemoveAt(air[q], i), ![p] = Append(air[p], r)]
      /\ s \in SaMaps /\ v \in TaskRec /\ w \in SUBSET JobSet
      /\ sa' = [sa EXCEPT ![p] = s] /\ task' = [task EXCEPT ![p] = v]
      /\ jobs' = [jobs EXCEPT ![p] = w] /\ down' \in [Peers -> SUBSET Sas]
      /\ left' \in Bounds /\ left'.rekeys = left.rekeys
      /\ UNCHANGED <<queue, nonce, scene>>
  BY <1>0, <1>1, <1>2 DEF Handles
<1>4. /\ v.kind = t.kind /\ v.sent = t.sent /\ v.child = t.child /\ v.new = t.new
      /\ v.failed = t.failed /\ v.del = t.del
      /\ TaskOk(v) /\ Informed(s, v)
      /\ \A n \in Sas : sa[p][n].state = "NONE" /\ n # made => s[n].state = "NONE"
      /\ \A j \in w : j \in jobs[p] \/ sa[p][j[2]].state # "NONE"
      /\ made \in Sas => a = "OK" /\ made = m.new
  BY <1>0, <1>2 DEF Handles
<1>5. /\ sa \in [Peers -> SaMaps] /\ task \in [Peers -> TaskRec] /\ jobs \in [Peers -> SUBSET JobSet]
      /\ air \in [Peers -> Seq(Messages)] /\ air[p] \in Seq(Messages) /\ air[q] \in Seq(Messages)
  BY <1>1 DEF RekeyInv, LooseType
<1>6. m \in Messages /\ i \in DOMAIN air[q]
  BY <1>0, <1>2, <1>3, AskedFacts
<1>7. r \in Messages /\ ~r.req /\ r.type = a /\ r.child = m.child /\ r.new = m.new
  BY <1>2, <1>3, <1>6, ResponseFacts
<1>8. RemoveAt(air[q], i) \in Seq(Messages) /\ Append(air[p], r) \in Seq(Messages)
  BY <1>5, <1>6, <1>7, RemoveAir, AppendAir
<1>9. /\ air' \in [Peers -> Seq(Messages)]
      /\ air'[q] = RemoveAt(air[q], i) /\ air'[p] = Append(air[p], r)
  BY <1>1, <1>3, <1>5, <1>8
<1>10. /\ sa' \in [Peers -> SaMaps] /\ task' \in [Peers -> TaskRec] /\ jobs' \in [Peers -> SUBSET JobSet]
       /\ sa'[p] = s /\ task'[p] = v /\ jobs'[p] = w /\ task'[q] = task[q]
  BY <1>1, <1>3, <1>5
<1>11. LooseType'
  BY <1>3, <1>9, <1>10 DEF RekeyInv, LooseType
<1>12. Moves(p)
  BY <1>3, <1>5, <1>11 DEF Moves
<1>13. RequestOf(v) = RequestOf(t)
  BY <1>4 DEF RequestOf
<1>14. Replying(p, i, r)
  BY <1>0, <1>2, <1>3, <1>4, <1>7, <1>9, <1>10, <1>13 DEF Replying
<1>15. AirMove(p)
  BY <1>0, <1>3, <1>7, <1>14 DEF AirMove
<1>16. Sound(p)'
  <2>1. \A k \in DOMAIN queue[p] : EntryOk(queue[p][k])
    BY LocalFacts
  <2> QED
    BY <1>3, <1>4, <1>10, <2>1 DEF Sound
<1>17. \A n \in Sas : Holds(p, n)' <=> Holds(p, n)
  BY <1>2, <1>3, <1>4, <1>10 DEF Holds
<1>18. Apart(task[p], queue[p])'
  <2>1. Apart(t, queue[p])
    BY <1>2 DEF RekeyInv, Numbers
  <2> QED
    BY <1>3, <1>4, <1>10, <2>1 DEF Apart
<1>20. OkIn(air[q]) => OkIn(air'[q])
  <2>1. SUFFICES ASSUME NEW l \in Replies(air[q]), air[q][l].type = "OK" PROVE OkIn(air'[q])
    BY DEF OkIn
  <2>2. l \in DOMAIN air[q] /\ l # i
    BY <1>3, <2>1 DEF Asked, Replies
  <2>3. PICK k \in DOMAIN air'[q] : air'[q][k] = air[q][l]
    BY <1>5, <1>6, <1>9, <2>2, RemainsFacts
  <2> QED
    BY <2>1, <2>3 DEF OkIn, Replies
<1>21. ASSUME NEW n \in Sas, Reserved(p, n)' PROVE Reserved(p, n)
  BY <1>0, <1>2, <1>3, <1>4, <1>10, <1>20, <1>21 DEF Reserved, Unmade
<1>22. ASSUME NEW n \in Sas, Unused(p, n), n # made PROVE Unused(p, n)'
  BY <1>2, <1>3, <1>4, <1>10, <1>22 DEF Unused, Unmentioned
<1>23. ASSUME made \in Sas
       PROVE  (\E x \in Peers : Holds(x, made)) /\ \A x \in Peers : ~Reserved(x, made)'
  <2>1. a = "OK" /\ made = m.new
    BY <1>4, <1>23
  <2>2. m.type \in {"REKEY", "CREATE"}
    <3>1. m.type \in {"REKEY", "CREATE", "DELETE", "EMPTY"}
      <4>1. task[q] \in TaskRec /\ TaskOk(task[q]) /\ task[q].sent
        BY <1>0, <1>1, <1>3, LocalFacts, AskedFacts DEF Matches
      <4> QED
        BY <1>0, <1>2, <1>3, <4>1, AskedFacts, RequestKinds
    <3> QED
      BY <1>3, <2>1, <3>1 DEF AnswersTo
  <2>3. /\ made = task[q].new /\ ~Holds(p, made) /\ Holds(q, made) /\ ~Queued(queue[q], made)
    BY <1>0, <1>2, <1>3, <2>1, <2>2, AskedUnused
  <2>4. OkIn(air'[p])
    <3>1. Longer(Append(air[p], r), air[p], r)
      BY <1>5, <1>7, AppendAir
    <3>2. Len(air[p]) + 1 \in Replies(air'[p]) /\ air'[p][Len(air[p]) + 1] = r
      BY <1>7, <1>9, <3>1 DEF Longer
    <3> QED
      BY <1>7, <2>1, <3>2 DEF OkIn
  <2>5. ~Reserved(q, made)'
    BY <1>1, <1>3, <2>3, <2>4 DEF Reserved, Unmade
  <2>6. ~Reserved(p, made)'
    BY <1>17, <1>23, <2>3 DEF Reserved, Unmade, Holds
  <2> QED
    BY <1>1, <2>3, <2>5, <2>6
<1>24. Frugal(p, made)
  BY <1>3, <1>17, <1>18, <1>21, <1>22, <1>23 DEF Frugal
<1> QED
  BY <1>12, <1>15, <1>16, <1>24 DEF GoodStep

\* Objects of p after it has agreed to replace c by n.
Replaced(s, o, c, n) ==
    /\ s \in SaMaps /\ s[n] = NewSa /\ s[c].state = "REKEYED" /\ s[c].out = o[c].out
    /\ s[c].rekey = n /\ \A d \in Sas : d \notin {c, n} => s[d] = o[d]

LEMMA ReplacedFacts ==
    ASSUME NEW o \in SaMaps, NEW c \in Sas, NEW n \in Sas, n # c,
           NEW s, s = [o EXCEPT ![n] = NewSa, ![c].state = "REKEYED", ![c].rekey = n]
    PROVE  Replaced(s, o, c, n)
<1>1. o[c] \in SaRec
  BY DEF SaMaps
<1>2. PICK r : r = [o[c] EXCEPT !.state = "REKEYED", !.rekey = n]
  OBVIOUS
<1>3. r \in SaRec /\ r.state = "REKEYED" /\ r.out = o[c].out /\ r.rekey = n
  BY <1>1, <1>2, SasFacts DEF SaRec
<1>4. PICK x, y : x = NewSa /\ y = [o EXCEPT ![n] = x]
  OBVIOUS
<1>5. Writes(y, o, n, x)
  BY <1>4, WriteFacts, SaRecs
<1>6. y \in SaMaps /\ y[n] = x /\ \A d \in Sas : d # n => y[d] = o[d]
  BY <1>5 DEF Writes
<1>7. s = [y EXCEPT ![c] = r]
  BY <1>2, <1>4 DEF SaMaps
<1>8. Writes(s, y, c, r)
  <2>1. Writes([y EXCEPT ![c] = r], y, c, r)
    BY <1>3, <1>6, WriteFacts, Zenon
  <2> QED
    BY <1>7, <2>1, Zenon
<1> QED
  BY <1>3, <1>4, <1>6, <1>8 DEF Replaced, Writes

\* The CHILD_SA a request is about.
LEMMA AskedChild ==
    ASSUME RekeyInv, NEW p \in Peers, NEW q, q = Other(p), NEW i \in Asked(air[q])
    PROVE  /\ air[q][i].type \in {"REKEY", "DELETE"} => air[q][i].child \in Sas
           /\ air[q][i].type = "EMPTY" => air[q][i].child = None
<1>1. q \in Peers
  BY PeersFacts
<1>2. task[q] \in TaskRec /\ TaskOk(task[q]) /\ task[q].sent
  BY <1>1, LocalFacts, AskedFacts DEF Matches
<1> QED
  BY <1>2, AskedFacts, RequestKinds

LEMMA RespondRekeyStep ==
    ASSUME RekeyInv, NEW p \in Peers, NEW q, q = Other(p), NEW i, RespondRekey(q, i)
    PROVE  Responding(p)
<1>1. q \in Peers /\ q # p /\ Other(q) = p
  BY PeersFacts
<1>2. PICK m, t, o : m = air[q][i] /\ t = task[p] /\ o = sa[p]
  OBVIOUS
<1>3. /\ i \in DOMAIN air[q] /\ m.req /\ m.type = "REKEY" /\ i \in Asked(air[q])
      /\ scene.ordered => i = 1
  BY <1>2 DEF RespondRekey, Arrives, Asked
<1>4. PICK a \in RekeyAnswers(p, m.child) :
        /\ air' = [air EXCEPT ![q] = RemoveAt(@, i), ![p] = Append(@, Response(a, m))]
        /\ Rejected(a)
        /\ IF a = "OK"
           THEN /\ sa' = [sa EXCEPT ![p][m.new] = NewSa, ![p][m.child].state = "REKEYED",
                                    ![p][m.child].rekey = m.new]
                /\ task' = [task EXCEPT ![p] = CollideRekey(@, m.child, m.new)]
           ELSE UNCHANGED <<sa, task>>
  BY <1>1, <1>2 DEF RespondRekey, Answered
<1>5. UNCHANGED <<queue, jobs, down, nonce, scene>>
  BY DEF RespondRekey
<1>6. /\ t \in TaskRec /\ o \in SaMaps /\ TaskOk(t) /\ Informed(o, t)
      /\ sa \in [Peers -> SaMaps] /\ task \in [Peers -> TaskRec]
      /\ jobs \in [Peers -> SUBSET JobSet] /\ down \in [Peers -> SUBSET Sas] /\ left \in Bounds
      /\ jobs[p] \in SUBSET JobSet
  BY <1>2, LocalFacts DEF RekeyInv, LooseType
<1>7. a \in AnswersTo(m.type)
  BY <1>3, <1>4 DEF RekeyAnswers, Rejections, AnswersTo
<1>8. left' \in Bounds /\ left'.rekeys = left.rekeys /\ left'.failures = left.failures
  BY <1>4, <1>6 DEF Rejected, Bounds
<1>9. jobs' = [jobs EXCEPT ![p] = jobs[p]] /\ down' \in [Peers -> SUBSET Sas]
  BY <1>5, <1>6
<1>10. CASE a # "OK"
  <2>1. /\ sa' = [sa EXCEPT ![p] = o] /\ task' = [task EXCEPT ![p] = t]
    BY <1>2, <1>4, <1>6, <1>10
  <2>2. Handles(p, i, a, o, t, jobs[p], None)
    BY <1>2, <1>3, <1>4, <1>5, <1>6, <1>7, <1>8, <1>9, <2>1, SasFacts DEF Handles
  <2>3. a = "NOT_FOUND" => ~Working(o, m.child) /\ ~Deleting(t, m.child)
    <3>1. SUFFICES ASSUME a = "NOT_FOUND" PROVE ~Working(o, m.child) /\ ~Deleting(t, m.child)
      OBVIOUS
    <3>2. m.child \in Sas
      BY <1>2, <1>3, AskedChild
    <3>3. ~Exists(o, m.child) \/ IsKept(o, m.child)
      BY <1>2, <1>4, <3>1 DEF RekeyAnswers, Rejections
    <3> QED
      BY <1>6, <3>2, <3>3, SasFacts DEF Exists, IsKept, Working, Informed, Deleting
  <2>4. Affects(p, i, a, o, t, None)
    BY <1>2, <1>3, <1>8, <1>10, <2>3 DEF Affects
  <2> QED
    BY <2>2, <2>4, SasFacts DEF Responding
<1>11. CASE a = "OK"
  <2>1. PICK c, n : c = m.child /\ n = m.new
    OBVIOUS
  <2>2. n \in Sas /\ Unused(p, n) /\ ~Holds(p, n)
    BY <1>2, <1>3, <2>1, AskedUnused
  <2>3. c \in SaNumbers
    BY <1>2, <1>3, <2>1, AskedFacts DEF Messages
  <2>4. c \in Sas /\ Working(o, c)
    BY <1>2, <1>4, <1>11, <2>1, <2>3, SasFacts DEF RekeyAnswers, Exists, Working
  <2>5. o[n].state = "NONE" /\ t.child # n /\ t.del # n /\ t.new # n /\ n # c
    BY <1>2, <2>2, <2>4 DEF Unused, Unmentioned, Holds, Working
  <2>6. PICK s, v : /\ s = [o EXCEPT ![n] = NewSa, ![c].state = "REKEYED", ![c].rekey = n]
                    /\ v = CollideRekey(t, c, n)
    OBVIOUS
  <2>7. sa' = [sa EXCEPT ![p] = s] /\ task' = [task EXCEPT ![p] = v]
    <3>1. sa' = [sa EXCEPT ![p][n] = NewSa, ![p][c].state = "REKEYED", ![p][c].rekey = n]
      BY <1>4, <1>11, <2>1
    <3>2. sa' = [sa EXCEPT ![p] = s]
      BY <1>2, <1>6, <2>2, <2>4, <2>6, <3>1 DEF SaMaps
    <3> QED
      BY <1>2, <1>4, <1>6, <1>11, <2>1, <2>6, <3>2
  <2>8. Replaced(s, o, c, n)
    BY <1>6, <2>2, <2>4, <2>5, <2>6, ReplacedFacts
  <2>9. /\ s \in SaMaps /\ s[n] = NewSa /\ s[c].state = "REKEYED" /\ s[c].out = o[c].out
        /\ \A d \in Sas : d \notin {c, n} => s[d] = o[d]
    BY <2>8 DEF Replaced
  <2>10. /\ \A d \in Sas : Working(o, d) => Working(s, d)
         /\ \A d \in Sas : d # n /\ ~Working(o, d) => s[d] = o[d]
    BY <2>4, <2>5, <2>9 DEF Working
  <2>11. \A d \in Sas : s[d].state # "NONE" /\ s[d].out = "NONE" => s[d].state = "DELETING"
    <3>1. o[c].out # "NONE"
      BY <1>6, <2>4 DEF Informed, Working
    <3> QED
      BY <1>6, <2>9, <3>1, SaFields DEF Informed
  <2>12. t.sent /\ t.del # None => s[t.del].state = "DELETING" /\ s[t.del].out # "NONE"
    <3>1. t.del # None => t.del \in Sas
      BY <1>6, SasFacts DEF TaskRec
    <3> QED
      BY <1>6, <2>5, <2>10, <3>1 DEF Informed, Working
  <2>13. /\ v \in TaskRec /\ TaskOk(v) /\ Informed(s, v)
         /\ v.kind = t.kind /\ v.sent = t.sent /\ v.child = t.child /\ v.new = t.new
         /\ v.failed = t.failed /\ v.del = t.del
    <3>1. CASE t.kind = "REKEY" /\ t.child = c
      <4>1. PICK k \in {"REKEY", "DELETE"} : k = "REKEY" /\ v = [t EXCEPT !.coll = k, !.other = n]
        BY <2>6, <3>1 DEF CollideRekey
      <4>2. /\ v \in TaskRec /\ v.kind = t.kind /\ v.sent = t.sent /\ v.child = t.child
            /\ v.new = t.new /\ v.failed = t.failed /\ v.del = t.del /\ v.gone = t.gone
            /\ v.coll = "REKEY" /\ v.other = n
        BY <1>6, <2>2, <4>1, SasFacts DEF TaskRec
      <4>3. TaskOk(v)
        BY <1>6, <2>2, <2>5, <3>1, <4>2 DEF TaskOk
      <4>4. Informed(s, v)
        BY <2>9, <2>11, <2>12, <3>1, <4>2, SaFields DEF Informed, Working
      <4> QED
        BY <4>2, <4>3, <4>4
    <3>2. CASE ~(t.kind = "REKEY" /\ t.child = c)
      <4>1. v = t
        BY <2>6, <3>2 DEF CollideRekey
      <4>2. t.kind = "REKEY" => t.child \in Sas /\ s[t.child] = o[t.child]
        BY <1>6, <2>5, <2>9, <3>2 DEF TaskOk
      <4>3. t.coll = "DELETE" => ~Working(s, t.child)
        BY <1>6, <4>2 DEF Informed, TaskOk, Working
      <4>4. t.coll = "REKEY" /\ ~t.gone => Working(s, t.other)
        BY <1>6, <2>10 DEF Informed, TaskOk
      <4>5. Informed(s, t)
        BY <1>6, <2>11, <2>12, <4>2, <4>3, <4>4 DEF Informed
      <4> QED
        BY <1>6, <4>1, <4>5
    <3> QED
      BY <3>1, <3>2
  <2>14. \A d \in Sas : sa[p][d].state = "NONE" /\ d # n => s[d].state = "NONE"
    BY <1>2, <2>4, <2>9 DEF Working
  <2>15. Handles(p, i, a, s, v, jobs[p], n)
    BY <1>2, <1>3, <1>4, <1>5, <1>6, <1>7, <1>8, <1>9, <1>11, <2>1, <2>7, <2>9, <2>13, <2>14 DEF Handles
  <2>16. \A d \in Sas : Working(s, d) => Working(o, d) \/ d = n
    BY <2>4, <2>9 DEF Working
  <2>17. t.coll = "DELETE" => v.coll = "DELETE"
    <3>1. SUFFICES ASSUME t.coll = "DELETE" PROVE v.coll = "DELETE"
      OBVIOUS
    <3>2. t.child # c
      BY <1>6, <2>4, <3>1 DEF Informed
    <3> QED
      BY <2>6, <3>1, <3>2 DEF CollideRekey
  <2>18. Working(s, n)
    BY <2>9, SaFields DEF Working
  <2>19. Affects(p, i, a, s, v, n)
    BY <1>2, <1>3, <1>8, <1>11, <2>1, <2>10, <2>16, <2>17, <2>18 DEF Affects
  <2> QED
    BY <2>2, <2>15, <2>19, SasFacts DEF Responding
<1> QED
  BY <1>10, <1>11

LEMMA RespondCreateStep ==
    ASSUME RekeyInv, NEW p \in Peers, NEW q, q = Other(p), NEW i, RespondCreate(q, i)
    PROVE  Responding(p)
<1>1. q \in Peers /\ q # p /\ Other(q) = p
  BY PeersFacts
<1>2. PICK m, t, o : m = air[q][i] /\ t = task[p] /\ o = sa[p]
  OBVIOUS
<1>3. /\ i \in DOMAIN air[q] /\ m.req /\ m.type = "CREATE" /\ i \in Asked(air[q])
      /\ scene.ordered => i = 1
  BY <1>2 DEF RespondCreate, Arrives, Asked
<1>4. PICK a \in {"OK"} \cup Rejections :
        /\ air' = [air EXCEPT ![q] = RemoveAt(@, i), ![p] = Append(@, Response(a, m))]
        /\ Rejected(a)
        /\ sa' = IF a = "OK" THEN [sa EXCEPT ![p][m.new] = InUse] ELSE sa
  BY <1>1, <1>2 DEF RespondCreate, Answered
<1>5. UNCHANGED <<task, queue, jobs, down, nonce, scene>>
  BY DEF RespondCreate
<1>6. /\ t \in TaskRec /\ o \in SaMaps /\ TaskOk(t) /\ Informed(o, t)
      /\ sa \in [Peers -> SaMaps] /\ task \in [Peers -> TaskRec]
      /\ jobs \in [Peers -> SUBSET JobSet] /\ down \in [Peers -> SUBSET Sas] /\ left \in Bounds
      /\ jobs[p] \in SUBSET JobSet
  BY <1>2, LocalFacts DEF RekeyInv, LooseType
<1>7. a \in AnswersTo(m.type)
  BY <1>3, <1>4 DEF Rejections, AnswersTo
<1>8. left' \in Bounds /\ left'.rekeys = left.rekeys /\ left'.failures = left.failures
  BY <1>4, <1>6 DEF Rejected, Bounds
<1>9. /\ jobs' = [jobs EXCEPT ![p] = jobs[p]] /\ down' \in [Peers -> SUBSET Sas]
      /\ task' = [task EXCEPT ![p] = t]
  BY <1>2, <1>5, <1>6
<1>10. CASE a # "OK"
  <2>1. sa' = [sa EXCEPT ![p] = o]
    BY <1>2, <1>4, <1>6, <1>10
  <2>2. Handles(p, i, a, o, t, jobs[p], None)
    BY <1>2, <1>3, <1>4, <1>5, <1>6, <1>7, <1>8, <1>9, <2>1, SasFacts DEF Handles
  <2>3. a # "NOT_FOUND"
    BY <1>4, <1>10 DEF Rejections
  <2>4. Affects(p, i, a, o, t, None)
    BY <1>2, <1>3, <1>8, <1>10, <2>3 DEF Affects
  <2> QED
    BY <2>2, <2>4, SasFacts DEF Responding
<1>11. CASE a = "OK"
  <2>1. PICK n : n = m.new
    OBVIOUS
  <2>2. n \in Sas /\ Unused(p, n)
    BY <1>2, <1>3, <2>1, AskedUnused
  <2>3. o[n].state = "NONE" /\ t.child # n /\ t.del # n
    BY <1>2, <2>2 DEF Unused, Unmentioned
  <2>4. PICK s : s = [o EXCEPT ![n] = InUse]
    OBVIOUS
  <2>5. sa' = [sa EXCEPT ![p] = s]
    BY <1>2, <1>4, <1>6, <1>11, <2>1, <2>4
  <2>6. Writes(s, o, n, InUse)
    BY <1>6, <2>2, <2>4, WriteFacts, SaRecs
  <2>7. s \in SaMaps /\ s[n] = InUse /\ \A d \in Sas : d # n => s[d] = o[d]
    BY <2>6 DEF Writes
  <2>8. Informed(s, t)
    <3>1. t.del # None => t.del \in Sas
      BY <1>6, SasFacts DEF TaskRec
    <3>2. t.kind = "REKEY" => t.child \in Sas
      BY <1>6 DEF TaskOk
    <3>3. t.coll = "REKEY" => t.other \in Sas /\ (~t.gone => t.other # n)
      BY <1>6, <2>3 DEF TaskOk, Informed, Working
    <3>4. t.coll = "DELETE" => t.child \in Sas
      BY <1>6 DEF TaskOk
    <3> QED
      BY <1>6, <2>3, <2>7, <3>1, <3>2, <3>3, <3>4, SaFields DEF Informed, Working
  <2>9. Handles(p, i, a, s, t, jobs[p], n)
    BY <1>2, <1>3, <1>4, <1>5, <1>6, <1>7, <1>8, <1>9, <1>11, <2>1, <2>5, <2>7, <2>8 DEF Handles
  <2>10. /\ \A d \in Sas : Working(s, d) => Working(o, d) \/ d = n
         /\ \A d \in Sas : Working(o, d) => Working(s, d)
         /\ Working(s, n)
    <3>1. Working(s, n) /\ ~Working(o, n)
      BY <2>3, <2>7, SaFields DEF Working
    <3>2. \A d \in Sas : d # n => (Working(s, d) <=> Working(o, d))
      BY <2>7 DEF Working
    <3> QED
      BY <3>1, <3>2
  <2>11. Affects(p, i, a, s, t, n)
    <3>1. m.type # "DELETE" /\ a # "NOT_FOUND"
      BY <1>3, <1>11
    <3>2. /\ \A d \in Sas : Working(o, d) => Working(s, d) \/ (m.type = "DELETE" /\ d = m.child)
          /\ m.type = "DELETE" => ~Working(s, m.child)
          /\ a = "OK" => n = m.new /\ Working(s, n)
          /\ a = "NOT_FOUND" => ~Working(o, m.child) /\ ~Deleting(t, m.child)
      BY <2>1, <2>10, <3>1
    <3> QED
      BY <1>2, <1>3, <1>8, <2>10, <3>2, Zenon DEF Affects
  <2> QED
    BY <2>2, <2>9, <2>11, SasFacts DEF Responding
<1> QED
  BY <1>10, <1>11

LEMMA RespondDeleteStep ==
    ASSUME RekeyInv, NEW p \in Peers, NEW q, q = Other(p), NEW i, RespondDelete(q, i)
    PROVE  Responding(p)
<1>1. q \in Peers /\ q # p /\ Other(q) = p
  BY PeersFacts
<1>2. PICK m, t, o, c : m = air[q][i] /\ t = task[p] /\ o = sa[p] /\ c = m.child
  OBVIOUS
<1>3. /\ i \in DOMAIN air[q] /\ m.req /\ m.type \in {"DELETE", "EMPTY"} /\ i \in Asked(air[q])
      /\ scene.ordered => i = 1
  BY <1>2 DEF RespondDelete, Arrives, Asked
<1>4. /\ air' = [air EXCEPT ![q] = RemoveAt(@, i), ![p] = Append(@, Response("DONE", m))]
      /\ UNCHANGED <<queue, nonce, scene, left>>
  BY <1>1, <1>2 DEF RespondDelete, Answered
<1>5. /\ t \in TaskRec /\ o \in SaMaps /\ TaskOk(t) /\ Informed(o, t)
      /\ sa \in [Peers -> SaMaps] /\ task \in [Peers -> TaskRec]
      /\ jobs \in [Peers -> SUBSET JobSet] /\ down \in [Peers -> SUBSET Sas] /\ left \in Bounds
      /\ jobs[p] \in SUBSET JobSet
  BY <1>2, LocalFacts DEF RekeyInv, LooseType
<1>6. "DONE" \in AnswersTo(m.type)
  BY <1>3 DEF AnswersTo
<1>7. CASE ~(Exists(o, c) /\ o[c].state # "DELETING")
  <2>1. UNCHANGED <<sa, jobs, down, task>>
    BY <1>1, <1>2, <1>7 DEF RespondDelete
  <2>2. /\ sa' = [sa EXCEPT ![p] = o] /\ task' = [task EXCEPT ![p] = t]
        /\ jobs' = [jobs EXCEPT ![p] = jobs[p]] /\ down' \in [Peers -> SUBSET Sas]
        /\ left' \in Bounds /\ left'.rekeys = left.rekeys
    BY <1>2, <1>4, <1>5, <2>1
  <2>3. Handles(p, i, "DONE", o, t, jobs[p], None)
    BY <1>2, <1>3, <1>4, <1>5, <1>6, <2>2, SasFacts DEF Handles
  <2>4. m.type = "DELETE" => ~Working(o, c)
    <3>1. m.type = "DELETE" => c \in Sas
      BY <1>2, <1>3, AskedChild
    <3> QED
      BY <1>7, <3>1, SasFacts DEF Exists, Working
  <2>5. left'.failures = left.failures
    BY <1>4
  <2>6. Affects(p, i, "DONE", o, t, None)
    BY <1>2, <1>3, <2>4, <2>5 DEF Affects
  <2> QED
    BY <2>3, <2>6, SasFacts DEF Responding
<1>8. CASE Exists(o, c) /\ o[c].state # "DELETING"
  <2>1. c \in SaNumbers
    BY <1>2, <1>3, AskedFacts DEF Messages
  <2>2. c \in Sas /\ Working(o, c)
    BY <1>8, <2>1, SasFacts DEF Exists, Working
  <2>3. PICK x, v : x = SetState(o, c, "DELETING") /\ v = CollideDelete(t, c)
    OBVIOUS
  <2>4. Puts(x, o, c, "DELETING")
    BY <1>5, <2>2, <2>3, SetStateFacts
  <2>5. x \in SaMaps /\ x[c].state = "DELETING" /\ \A d \in Sas : d # c => x[d] = o[d]
    BY <2>4 DEF Puts
  <2>6. PICK r : DestroyAndReestablish(p, x, t, c, r, FALSE)
    BY <1>1, <1>2, <1>8, <2>3 DEF RespondDelete
  <2>7. Finishes(p, x, c)
    BY <2>2, <2>5, <2>6, EndFacts DEF RekeyInv
  <2>8. PICK s, w : s = sa'[p] /\ w = jobs'[p]
    OBVIOUS
  <2>9. /\ sa' = [sa EXCEPT ![p] = s] /\ Ends(s, x, c) /\ jobs' = [jobs EXCEPT ![p] = w]
        /\ w = jobs[p] \/ w = jobs[p] \cup {<<"DELETE", c>>}
        /\ down' \in [Peers -> SUBSET Sas]
    BY <2>7, <2>8 DEF Finishes
  <2>10. /\ s \in SaMaps /\ ~Working(s, c)
         /\ \A d \in Sas : d # c => s[d].state = o[d].state /\ (s[d].out = o[d].out \/ s[d].out = "INSTALLED")
         /\ s[c].state # "NONE" => s[c].state = "DELETING"
    BY <2>5, <2>9 DEF Ends, Working
  <2>11. task' = [task EXCEPT ![p] = v]
    BY <1>1, <1>2, <1>8, <2>3 DEF RespondDelete
  <2>12. \A d \in Sas : s[d].state # "NONE" /\ s[d].out = "NONE" => s[d].state = "DELETING"
    BY <1>5, <2>10 DEF Informed
  <2>13. t.sent /\ t.del # None => s[t.del].state = "DELETING" /\ s[t.del].out # "NONE"
    <3>1. t.del # None => t.del \in Sas
      BY <1>5, SasFacts DEF TaskRec
    <3>2. t.sent /\ t.del # None => t.del # c
      BY <1>5, <2>2 DEF Informed, Working
    <3> QED
      BY <1>5, <2>10, <3>1, <3>2 DEF Informed
  <2>14. /\ v \in TaskRec /\ TaskOk(v) /\ Informed(s, v)
         /\ v.kind = t.kind /\ v.sent = t.sent /\ v.child = t.child /\ v.new = t.new
         /\ v.failed = t.failed /\ v.del = t.del
    <3>1. CASE IsRedundant(t, c)
      <4>0. t.kind = "REKEY" /\ t.coll = "REKEY" /\ t.other = c /\ t.child # c
        BY <1>5, <3>1 DEF IsRedundant, TaskOk
      <4>1. PICK b \in BOOLEAN : b = TRUE /\ v = [t EXCEPT !.gone = b]
        BY <2>3, <3>1, <4>0 DEF CollideDelete
      <4>2. /\ v \in TaskRec /\ v.kind = t.kind /\ v.sent = t.sent /\ v.child = t.child
            /\ v.new = t.new /\ v.failed = t.failed /\ v.del = t.del /\ v.gone
            /\ v.coll = t.coll /\ v.other = t.other
        BY <1>5, <4>1 DEF TaskRec
      <4>3. TaskOk(v)
        BY <1>5, <4>0, <4>2 DEF TaskOk
      <4>4. t.child # c /\ t.child \in Sas
        BY <1>5, <4>0 DEF TaskOk
      <4>5. Informed(s, v)
        BY <1>5, <2>10, <2>12, <2>13, <4>0, <4>2, <4>4 DEF Informed
      <4> QED
        BY <4>2, <4>3, <4>5
    <3>2. CASE ~IsRedundant(t, c) /\ t.kind = "REKEY" /\ t.child = c
      <4>1. PICK k \in {"REKEY", "DELETE"}, n \in SaNumbers :
               k = "DELETE" /\ n = None /\ v = [t EXCEPT !.coll = k, !.other = n]
        BY <2>3, <3>2, SasFacts DEF CollideDelete
      <4>2. /\ v \in TaskRec /\ v.kind = t.kind /\ v.sent = t.sent /\ v.child = t.child
            /\ v.new = t.new /\ v.failed = t.failed /\ v.del = t.del /\ v.gone = t.gone
            /\ v.coll = "DELETE" /\ v.other = None
        BY <1>5, <4>1 DEF TaskRec
      <4>3. TaskOk(v)
        BY <1>5, <3>2, <4>2 DEF TaskOk
      <4>4. Informed(s, v)
        BY <2>10, <2>12, <2>13, <3>2, <4>2 DEF Informed
      <4> QED
        BY <4>2, <4>3, <4>4
    <3>3. CASE ~IsRedundant(t, c) /\ ~(t.kind = "REKEY" /\ t.child = c)
      <4>1. v = t
        BY <2>3, <3>3 DEF CollideDelete
      <4>2. t.kind = "REKEY" => t.child \in Sas /\ t.child # c
        BY <1>5, <3>3 DEF TaskOk
      <4>3. t.coll = "DELETE" => ~Working(s, t.child)
        BY <1>5, <2>10, <4>2 DEF Informed, TaskOk, Working
      <4>4. t.coll = "REKEY" /\ ~t.gone => Working(s, t.other)
        BY <1>5, <2>10, <3>3 DEF Informed, TaskOk, Working, IsRedundant
      <4>5. Informed(s, t)
        BY <1>5, <2>10, <2>12, <2>13, <4>2, <4>3, <4>4 DEF Informed
      <4> QED
        BY <1>5, <4>1, <4>5
    <3> QED
      BY <3>1, <3>2, <3>3
  <2>15. w \in SUBSET JobSet /\ \A j \in w : j \in jobs[p] \/ sa[p][j[2]].state # "NONE"
    BY <1>2, <1>5, <1>8, <2>2, <2>9 DEF JobSet, Working
  <2>16. \A n \in Sas : sa[p][n].state = "NONE" /\ n # None => s[n].state = "NONE"
    BY <1>2, <2>2, <2>10 DEF Working
  <2>17. left' \in Bounds /\ left'.rekeys = left.rekeys
    BY <1>4, <1>5
  <2>18. Handles(p, i, "DONE", s, v, w, None)
    BY <1>2, <1>3, <1>4, <1>6, <2>9, <2>10, <2>11, <2>14, <2>15, <2>16, <2>17, SasFacts DEF Handles
  <2>19. m.type = "DELETE"
    <3>1. m.type = "EMPTY" => c = None
      BY <1>2, <1>3, AskedChild
    <3> QED
      BY <1>3, <2>2, <3>1, SasFacts
  <2>20. /\ \A d \in Sas : Working(s, d) => Working(o, d)
         /\ \A d \in Sas : Working(o, d) => Working(s, d) \/ d = c
    BY <2>10 DEF Working
  <2>21. t.coll = "DELETE" => v.coll = "DELETE"
    <3>1. SUFFICES ASSUME t.coll = "DELETE" PROVE v.coll = "DELETE"
      OBVIOUS
    <3>2. t.child # c /\ ~IsRedundant(t, c)
      BY <1>5, <2>2, <3>1 DEF Informed, IsRedundant
    <3> QED
      BY <2>3, <3>1, <3>2 DEF CollideDelete
  <2>22. left'.failures = left.failures
    BY <1>4
  <2>23. Affects(p, i, "DONE", s, v, None)
    BY <1>2, <1>3, <2>10, <2>19, <2>20, <2>21, <2>22 DEF Affects
  <2> QED
    BY <2>18, <2>23, SasFacts DEF Responding
<1> QED
  BY <1>7, <1>8

-----------------------------------------------------------------------------
(* Responses *)

\* p takes the i-th message of the other peer, the response to its request.  Its
\* task t becomes v, its objects s, its queue u and its jobs w; made is the
\* CHILD_SA it makes.
Receives(p, i, s, v, u, w, made) == LET q == Other(p)  t == task[p] IN
    /\ i \in Replies(air[q])
    /\ air' = [air EXCEPT ![q] = RemoveAt(@, i)]
    /\ s \in SaMaps /\ v \in TaskRec /\ w \in SUBSET JobSet
    /\ sa' = [sa EXCEPT ![p] = s] /\ task' = [task EXCEPT ![p] = v]
    /\ queue' = [queue EXCEPT ![p] = u] /\ jobs' = [jobs EXCEPT ![p] = w]
    /\ down' \in [Peers -> SUBSET Sas] /\ left' \in Bounds /\ left'.rekeys = left.rekeys
    /\ UNCHANGED <<nonce, scene>>
    /\ TaskOk(v) /\ Informed(s, v)
    /\ v.child \in {None, t.child} /\ v.new \in {None, t.new} /\ v.del \in {None, t.child, made}
    /\ \/ u = queue[p]
       \/ u = Append(queue[p], <<"CREATE", None, t.new>>) /\ v.new = None
    /\ u # queue[p] \/ (v.new # None /\ v.del = None /\ ~v.failed) =>
          t.new \in Sas /\ t.del = None /\ ~t.failed /\ air[q][i].type # "OK"
    /\ \A n \in Sas : sa[p][n].state = "NONE" /\ n # made => s[n].state = "NONE"
    /\ \A j \in w : j \in jobs[p] \/ j[2] \in {t.child, t.del}
    /\ made \in Sas => made = t.new /\ u = queue[p] /\ (v.new = None \/ v.del # None)

\* What the other peer may rely on when p takes the i-th message of it.
Learns(p, i, s, v, made) == LET m == air[Other(p)][i]  t == task[p] IN
    /\ ~v.sent
    /\ left.failures = 0 => /\ left'.failures = 0 /\ (v.failed => t.failed)
                            /\ m.type = "OK" => made = t.new
    /\ m.type # "NOT_FOUND" \/ t.coll = "DELETE" =>
          \A d \in Sas : d # made => (Working(s, d) <=> Working(sa[p], d))
    /\ made \in Sas => m.type = "OK" /\ Working(s, made)

Taught(p) == \E i, s, v, u, w : \E made \in SaNumbers :
    Receives(p, i, s, v, u, w, made) /\ Learns(p, i, s, v, made)

LEMMA RepliedFacts ==
    ASSUME RekeyInv, NEW p \in Peers, NEW q, q = Other(p), NEW i \in Replies(air[q])
    PROVE  /\ air[q][i] \in Messages /\ i \in DOMAIN air[q] /\ ~air[q][i].req
           /\ Matches(air[q][i], task[p]) /\ task[p].sent
           /\ air[q][i].type \in AnswersTo(RequestOf(task[p]).type)
           /\ \A j \in Replies(air[q]) : j = i
<1>1. q \in Peers
  BY PeersFacts
<1>2. air[q] \in Seq(Messages) /\ Exchanging(task[p], air[p], air[q])
  BY <1>1 DEF RekeyInv, LooseType, LocalOk
<1>3. i \in DOMAIN air[q] /\ ~air[q][i].req /\ air[q][i] \in Messages
  BY <1>2 DEF Replies
<1>4. Matches(air[q][i], task[p]) /\ \A j \in Replies(air[q]) : j = i
  BY <1>2 DEF Exchanging
<1> QED
  BY <1>3, <1>4 DEF Matches

LEMMA TaughtStep ==
    ASSUME RekeyInv, NEW p \in Peers, Taught(p)
    PROVE  GoodStep(p)
<1> PICK i, s, v, u, w : \E made \in SaNumbers : Receives(p, i, s, v, u, w, made)
  BY DEF Taught
<1> PICK made \in SaNumbers : Receives(p, i, s, v, u, w, made)
  OBVIOUS
<1>0. PICK q : q = Other(p)
  OBVIOUS
<1>1. q \in Peers /\ q # p /\ Other(q) = p /\ \A x \in Peers : x = p \/ x = q
  BY <1>0, PeersFacts
<1>2. PICK t, e : t = task[p] /\ e = <<"CREATE", None, t.new>>
  OBVIOUS
<1>3. /\ i \in Replies(air[q]) /\ air' = [air EXCEPT ![q] = RemoveAt(air[q], i)]
      /\ s \in SaMaps /\ v \in TaskRec /\ w \in SUBSET JobSet
      /\ sa' = [sa EXCEPT ![p] = s] /\ task' = [task EXCEPT ![p] = v]
      /\ queue' = [queue EXCEPT ![p] = u] /\ jobs' = [jobs EXCEPT ![p] = w]
      /\ down' \in [Peers -> SUBSET Sas] /\ left' \in Bounds /\ left'.rekeys = left.rekeys
      /\ UNCHANGED <<nonce, scene>>
  BY <1>0, <1>1 DEF Receives
<1>4. /\ TaskOk(v) /\ Informed(s, v)
      /\ v.child \in {None, t.child} /\ v.new \in {None, t.new} /\ v.del \in {None, t.child, made}
      /\ \/ u = queue[p]
         \/ u = Append(queue[p], e) /\ v.new = None
      /\ u # queue[p] \/ (v.new # None /\ v.del = None /\ ~v.failed) =>
            t.new \in Sas /\ t.del = None /\ ~t.failed /\ air[q][i].type # "OK"
      /\ \A n \in Sas : sa[p][n].state = "NONE" /\ n # made => s[n].state = "NONE"
      /\ \A j \in w : j \in jobs[p] \/ j[2] \in {t.child, t.del}
      /\ made \in Sas => made = t.new /\ u = queue[p] /\ (v.new = None \/ v.del # None)
  BY <1>0, <1>2 DEF Receives
<1>5. /\ sa \in [Peers -> SaMaps] /\ task \in [Peers -> TaskRec] /\ jobs \in [Peers -> SUBSET JobSet]
      /\ queue \in [Peers -> Seq(Entries)] /\ queue[p] \in Seq(Entries)
      /\ air \in [Peers -> Seq(Messages)] /\ air[p] \in Seq(Messages) /\ air[q] \in Seq(Messages)
      /\ Apart(t, queue[p]) /\ \A k \in DOMAIN queue[p] : EntryOk(queue[p][k])
  BY <1>1, <1>2 DEF RekeyInv, LooseType, Numbers, LocalOk
<1>6. i \in DOMAIN air[q] /\ \A j \in Replies(air[q]) : j = i
  BY <1>0, <1>3, RepliedFacts
<1>7. /\ u \in Seq(Entries) /\ \A k \in DOMAIN u : EntryOk(u[k])
      /\ Apart(v, u)
      /\ \A n : Queued(u, n) => Queued(queue[p], n) \/ (u # queue[p] /\ n = t.new)
      /\ \A k \in DOMAIN u : u[k][2] # None => \E l \in DOMAIN queue[p] : u[k] = queue[p][l]
  <2>1. CASE u = queue[p]
    <3>1. Apart(v, u)
      BY <1>4, <1>5, <2>1 DEF Apart
    <3> QED
      BY <1>5, <2>1, <3>1
  <2>2. CASE u # queue[p]
    <3>1. u = Append(queue[p], e) /\ v.new = None /\ t.new \in Sas
      BY <1>4, <2>2
    <3>2. e \in Entries /\ e[1] = "CREATE" /\ e[2] = None /\ e[3] = t.new
      BY <1>2, <3>1, SasFacts DEF Entries, Kinds
    <3>3. PICK g : g = queue[p]
      OBVIOUS
    <3>4. /\ u \in Seq(Entries) /\ DOMAIN u = DOMAIN g \cup {Len(g) + 1}
          /\ u[Len(g) + 1] = e /\ \A k \in DOMAIN g : u[k] = g[k] /\ k < Len(g) + 1
          /\ Len(g) + 1 \notin DOMAIN g
      BY <1>5, <3>1, <3>2, <3>3, AppendFacts
    <3>5. EntryOk(e)
      BY <3>1, <3>2 DEF EntryOk
    <3>6. \A k \in DOMAIN u : EntryOk(u[k])
      BY <1>5, <3>3, <3>4, <3>5
    <3>7. \A k \in DOMAIN g : g[k][3] # t.new
      BY <1>5, <3>1, <3>3, SasFacts DEF Apart
    <3>8. ASSUME NEW k \in DOMAIN u, NEW l \in DOMAIN u, u[k][3] # None
          PROVE  u[k][3] # v.new /\ (u[k][3] = u[l][3] => k = l)
      <4>1. u[k][3] # v.new
        BY <3>1, <3>8
      <4>2. CASE k \in DOMAIN g /\ l \in DOMAIN g
        BY <1>5, <3>3, <3>4, <3>8, <4>1, <4>2 DEF Apart
      <4>3. CASE k \notin DOMAIN g \/ l \notin DOMAIN g
        BY <3>2, <3>4, <3>7, <4>1, <4>3
      <4> QED
        BY <4>2, <4>3
    <3>9. \A n : Queued(u, n) => Queued(g, n) \/ n = t.new
      BY <3>2, <3>4 DEF Queued
    <3>10. \A k \in DOMAIN u : u[k][2] # None => \E l \in DOMAIN g : u[k] = g[l]
      BY <3>2, <3>4
    <3>11. Apart(v, u)
      BY <3>8 DEF Apart
    <3> QED
      BY <2>2, <3>3, <3>4, <3>6, <3>9, <3>10, <3>11
  <2> QED
    BY <2>1, <2>2
<1>8. RemoveAt(air[q], i) \in Seq(Messages)
  BY <1>5, <1>6, RemoveAir
<1>9. air' \in [Peers -> Seq(Messages)] /\ air'[q] = RemoveAt(air[q], i) /\ air'[p] = air[p]
  BY <1>1, <1>3, <1>5, <1>8
<1>10. /\ sa' \in [Peers -> SaMaps] /\ task' \in [Peers -> TaskRec] /\ jobs' \in [Peers -> SUBSET JobSet]
       /\ queue' \in [Peers -> Seq(Entries)]
       /\ sa'[p] = s /\ task'[p] = v /\ queue'[p] = u /\ jobs'[p] = w
       /\ task'[q] = task[q] /\ queue'[q] = queue[q]
  BY <1>1, <1>3, <1>5, <1>7
<1>11. LooseType'
  BY <1>3, <1>9, <1>10 DEF RekeyInv, LooseType
<1>12. Moves(p)
  BY <1>3, <1>5, <1>11 DEF Moves
<1>13. AirMove(p)
  BY <1>0, <1>3, <1>9 DEF AirMove, Taking
<1>14. Sound(p)'
  BY <1>4, <1>7, <1>10 DEF Sound
<1>15. ~OkIn(air[q]) \/ air[q][i].type = "OK"
  BY <1>6 DEF OkIn
<1>16. ASSUME NEW n \in Sas, Holds(p, n)' PROVE Holds(p, n)
  BY <1>2, <1>4, <1>7, <1>10, <1>16, SasFacts DEF Holds
<1>17. ASSUME NEW n \in Sas, Reserved(p, n)' PROVE Reserved(p, n)
  <2>1. CASE Queued(queue[p], n)
    BY <2>1 DEF Reserved
  <2>2. ASSUME n = t.new, t.del = None, ~t.failed, air[q][i].type # "OK" PROVE Reserved(p, n)
    BY <1>0, <1>2, <1>15, <2>2 DEF Reserved, Unmade
  <2>3. CASE Queued(u, n) /\ ~Queued(queue[p], n)
    BY <1>4, <1>7, <2>2, <2>3
  <2>4. CASE v.new = n /\ v.del = None /\ ~v.failed
    BY <1>4, <2>2, <2>4, SasFacts
  <2>5. Queued(u, n) \/ (v.new = n /\ v.del = None /\ ~v.failed)
    BY <1>10, <1>17 DEF Reserved, Unmade
  <2> QED
    BY <2>1, <2>3, <2>4, <2>5
<1>18. ASSUME NEW n \in Sas, Unused(p, n), n # made PROVE Unused(p, n)'
  <2>1. /\ sa[p][n].state = "NONE" /\ t.child # n /\ t.del # n
        /\ \A k \in DOMAIN queue[p] : queue[p][k][2] # n
        /\ \A j \in jobs[p] : j[2] # n
    BY <1>2, <1>18 DEF Unused, Unmentioned
  <2>2. s[n].state = "NONE" /\ v.child # n /\ v.del # n
    BY <1>4, <1>18, <2>1, SasFacts
  <2>3. \A k \in DOMAIN u : u[k][2] # n
    BY <1>7, <2>1, SasFacts
  <2>4. \A j \in w : j[2] # n
    BY <1>4, <2>1
  <2> QED
    BY <1>10, <2>2, <2>3, <2>4 DEF Unused, Unmentioned
<1>19. ASSUME made \in Sas
       PROVE  (\E x \in Peers : Holds(x, made)) /\ \A x \in Peers : ~Reserved(x, made)'
  <2>1. made = t.new /\ u = queue[p] /\ (v.new = None \/ v.del # None)
    BY <1>4, <1>19
  <2>2. Holds(p, made)
    BY <1>2, <2>1 DEF Holds
  <2>3. ~Holds(q, made)
    BY <1>0, <1>19, <2>2 DEF RekeyInv, Numbers
  <2>4. ~Queued(queue[p], made)
    BY <1>5, <1>19, <2>1, SasFacts DEF Apart, Queued
  <2>5. ~Reserved(p, made)'
    BY <1>10, <1>19, <2>1, <2>4, SasFacts DEF Reserved, Unmade
  <2>6. ~Reserved(q, made)'
    BY <1>10, <2>3 DEF Reserved, Unmade, Holds
  <2> QED
    BY <1>1, <2>2, <2>5, <2>6
<1>20. Frugal(p, made)
  BY <1>3, <1>7, <1>10, <1>16, <1>17, <1>18, <1>19 DEF Frugal
<1> QED
  BY <1>12, <1>13, <1>14, <1>20 DEF GoodStep

LEMMA OtherFacts ==
    ASSUME RekeyInv, NEW p \in Peers
    PROVE  /\ jobs \in [Peers -> SUBSET JobSet] /\ jobs[p] \in SUBSET JobSet
           /\ down \in [Peers -> SUBSET Sas] /\ left \in Bounds
BY DEF RekeyInv, LooseType

\* Nothing of p but its task changes.
LEMMA TaskOnly ==
    ASSUME RekeyInv, NEW p \in Peers
    PROVE  /\ sa = [sa EXCEPT ![p] = sa[p]] /\ queue = [queue EXCEPT ![p] = queue[p]]
           /\ jobs = [jobs EXCEPT ![p] = jobs[p]]
BY LocalFacts, OtherFacts

LEMMA IdleInformed ==
    ASSUME NEW s, NEW t, Informed(s, t)
    PROVE  Informed(s, Idle)
BY IdleFacts DEF Informed

\* p takes the i-th message of the other peer, the response to its request.
Hears(p, i) == LET q == Other(p) IN
    /\ i \in Replies(air[q]) /\ air' = [air EXCEPT ![q] = RemoveAt(@, i)]
    /\ UNCHANGED <<nonce, scene>>

\* The task is done, and nothing is made.
LEMMA TaskEnds ==
    ASSUME RekeyInv, NEW p \in Peers, NEW i, Hears(p, i), air[Other(p)][i].type # "OK",
           NEW s, NEW w, s \in SaMaps, Informed(s, Idle), sa' = [sa EXCEPT ![p] = s],
           task' = [task EXCEPT ![p] = Idle],
           \A n \in Sas : sa[p][n].state = "NONE" => s[n].state = "NONE",
           \A n \in Sas : Working(s, n) <=> Working(sa[p], n),
           w \in SUBSET JobSet, jobs' = [jobs EXCEPT ![p] = w],
           \A j \in w : j \in jobs[p] \/ j[2] \in {task[p].child, task[p].del},
           down' \in [Peers -> SUBSET Sas], UNCHANGED <<queue, left>>
    PROVE  Taught(p)
<1>1. queue' = [queue EXCEPT ![p] = queue[p]] /\ left' \in Bounds /\ left'.rekeys = left.rekeys
  BY TaskOnly, OtherFacts
<1>2. PICK n : n = None
  OBVIOUS
<1>3. n \in SaNumbers /\ n \notin Sas
  BY <1>2, SasFacts
<1>4. Receives(p, i, s, Idle, queue[p], w, n)
  BY <1>1, <1>2, <1>3, IdleFacts DEF Receives, Hears
<1>5. Learns(p, i, s, Idle, n)
  BY <1>3, IdleFacts DEF Learns
<1> QED
  BY <1>3, <1>4, <1>5 DEF Taught

\* The task goes on without having made anything.
LEMMA TaskGoesOn ==
    ASSUME RekeyInv, NEW p \in Peers, NEW i, Hears(p, i), NEW v \in TaskRec,
           task[p].del = None, task[p].kind \in {"CREATE", "REKEY"},
           ~v.sent, v.kind = task[p].kind, v.child = task[p].child, v.new = task[p].new,
           v.del = None, v.coll = task[p].coll, v.other = task[p].other, v.gone = task[p].gone,
           v.failed \/ (~task[p].failed /\ air[Other(p)][i].type # "OK"),
           left.failures = 0 => left'.failures = 0 /\ (v.failed => task[p].failed)
                                /\ air[Other(p)][i].type # "OK",
           task' = [task EXCEPT ![p] = v], left' \in Bounds, left'.rekeys = left.rekeys,
           UNCHANGED <<sa, queue, jobs, down>>
    PROVE  Taught(p)
<1>1. PICK t, o : t = task[p] /\ o = sa[p]
  OBVIOUS
<1>2. /\ t \in TaskRec /\ o \in SaMaps /\ TaskOk(t) /\ Informed(o, t)
      /\ down \in [Peers -> SUBSET Sas] /\ jobs[p] \in SUBSET JobSet
  BY <1>1, LocalFacts, OtherFacts
<1>3. /\ sa' = [sa EXCEPT ![p] = o] /\ queue' = [queue EXCEPT ![p] = queue[p]]
      /\ jobs' = [jobs EXCEPT ![p] = jobs[p]]
  BY <1>1, TaskOnly
<1>4. TaskOk(v)
  BY <1>1, <1>2 DEF TaskOk
<1>5. Informed(o, v)
  BY <1>1, <1>2 DEF Informed
<1>6. t.new \in Sas
  BY <1>1, <1>2 DEF TaskOk
<1>7. PICK n : n = None
  OBVIOUS
<1>8. n \in SaNumbers /\ n \notin Sas
  BY <1>7, SasFacts
<1>9. Receives(p, i, o, v, queue[p], jobs[p], n)
  BY <1>1, <1>2, <1>3, <1>4, <1>5, <1>6, <1>7, <1>8 DEF Receives, Hears
<1>10. Learns(p, i, o, v, n)
  BY <1>1, <1>8 DEF Learns
<1> QED
  BY <1>8, <1>9, <1>10 DEF Taught

LEMMA RetryStep ==
    ASSUME RekeyInv, NEW p \in Peers, NEW i, Hears(p, i), Retry(p),
           task[p].del = None, task[p].kind \in {"CREATE", "REKEY"},
           air[Other(p)][i].type = "INVALID_KE"
    PROVE  Taught(p)
<1>1. PICK b \in BOOLEAN : b = FALSE
  OBVIOUS
<1>2. PICK t, v : t = task[p] /\ v = [t EXCEPT !.sent = b]
  OBVIOUS
<1>3. t \in TaskRec /\ task \in [Peers -> TaskRec] /\ left \in Bounds
  BY <1>2, LocalFacts, OtherFacts
<1>4. /\ v \in TaskRec /\ ~v.sent /\ v.kind = t.kind /\ v.child = t.child /\ v.new = t.new
      /\ v.del = t.del /\ v.coll = t.coll /\ v.other = t.other /\ v.gone = t.gone
      /\ v.failed = t.failed
  BY <1>1, <1>2, <1>3 DEF TaskRec
<1>5. task' = [task EXCEPT ![p] = v] /\ UNCHANGED <<sa, queue, jobs, down, left>>
  BY <1>1, <1>2, <1>3 DEF Retry
<1>6. ~t.failed
  <2>1. air[Other(p)][i].type \in AnswersTo(RequestOf(t).type)
    BY <1>2, RepliedFacts DEF Hears
  <2>2. ASSUME t.failed PROVE FALSE
    <3>1. RequestOf(t).type = "DELETE"
      BY <1>2, <2>2 DEF RequestOf, Request
    <3> QED
      BY <2>1, <3>1 DEF AnswersTo
  <2> QED
    BY <2>2
<1> QED
  BY <1>2, <1>3, <1>4, <1>5, <1>6, TaskGoesOn

LEMMA InstallFailsStep ==
    ASSUME RekeyInv, NEW p \in Peers, NEW i, Hears(p, i), InstallFails(p),
           task[p].del = None, task[p].kind \in {"CREATE", "REKEY"}
    PROVE  Taught(p)
<1>1. PICK b, f \in BOOLEAN : b = FALSE /\ f = TRUE
  OBVIOUS
<1>2. PICK t, v : t = task[p] /\ v = [t EXCEPT !.sent = b, !.failed = f]
  OBVIOUS
<1>3. t \in TaskRec /\ task \in [Peers -> TaskRec] /\ left \in Bounds
  BY <1>2, LocalFacts, OtherFacts
<1>4. /\ v \in TaskRec /\ ~v.sent /\ v.kind = t.kind /\ v.child = t.child /\ v.new = t.new
      /\ v.del = t.del /\ v.coll = t.coll /\ v.other = t.other /\ v.gone = t.gone
      /\ v.failed
  BY <1>1, <1>2, <1>3 DEF TaskRec
<1>5. task' = [task EXCEPT ![p] = v] /\ UNCHANGED <<sa, queue, jobs, down>>
  BY <1>1, <1>2, <1>3 DEF InstallFails
<1>6. left' \in Bounds /\ left'.rekeys = left.rekeys /\ left.failures # 0
  BY <1>3 DEF InstallFails, Bounds
<1> QED
  BY <1>2, <1>4, <1>5, <1>6, TaskGoesOn

\* A CHILD_SA that is being rekeyed has not been deleted.
LEMMA RekeyedFacts ==
    ASSUME RekeyInv, NEW p \in Peers, NEW i, Hears(p, i),
           task[p].kind = "REKEY", task[p].del = None
    PROVE  /\ task[p].child \in Sas /\ task[p].new \in Sas \ {task[p].child}
           /\ task[p].coll # "DELETE" => /\ Working(sa[p], task[p].child)
                                         /\ sa[p][task[p].child].out # "NONE"
<1>1. PICK t, o : t = task[p] /\ o = sa[p]
  OBVIOUS
<1>2. TaskOk(t) /\ Informed(o, t) /\ t.sent
  BY <1>1, LocalFacts, RepliedFacts DEF Hears
<1>3. t.child \in Sas /\ t.new \in Sas \ {t.child}
  BY <1>1, <1>2 DEF TaskOk
<1>4. t.coll # "DELETE" => o[t.child].state \in {"REKEYING", "REKEYED"}
  BY <1>1, <1>2 DEF Informed
<1>5. t.coll # "DELETE" => o[t.child].out # "NONE"
  BY <1>2, <1>3, <1>4 DEF Informed
<1> QED
  BY <1>1, <1>3, <1>4, <1>5 DEF Working

LEMMA AbortRekeyStep ==
    ASSUME RekeyInv, NEW p \in Peers, NEW i, Hears(p, i), NEW t, t = task[p], AbortRekey(p, t),
           t.kind = "REKEY", t.del = None, air[Other(p)][i].type # "OK"
    PROVE  Taught(p)
<1>1. PICK o, c : o = sa[p] /\ c = t.child
  OBVIOUS
<1>2. /\ o \in SaMaps /\ sa \in [Peers -> SaMaps] /\ Informed(o, t) /\ jobs[p] \in SUBSET JobSet
      /\ down \in [Peers -> SUBSET Sas] /\ jobs \in [Peers -> SUBSET JobSet]
  BY <1>1, LocalFacts, OtherFacts
<1>3. c \in Sas /\ (t.coll # "DELETE" => Working(o, c) /\ o[c].out # "NONE")
  BY <1>1, RekeyedFacts
<1>4. task' = [task EXCEPT ![p] = Idle] /\ UNCHANGED <<queue, down, left>>
  BY DEF AbortRekey
<1>5. CASE t.coll = "DELETE"
  <2>1. sa' = [sa EXCEPT ![p] = o] /\ jobs' = [jobs EXCEPT ![p] = jobs[p]]
    BY <1>1, <1>5, TaskOnly DEF AbortRekey
  <2>2. Informed(o, Idle)
    BY <1>2, IdleInformed
  <2> QED
    BY <1>1, <1>2, <1>4, <2>1, <2>2, TaskEnds
<1>6. CASE t.coll # "DELETE"
  <2>1. PICK s, w, st : /\ st = "INSTALLED" /\ s = SetState(o, c, st)
                        /\ w = jobs[p] \cup {<<"REKEY", c>>}
    OBVIOUS
  <2>2. sa' = [sa EXCEPT ![p] = s] /\ jobs' = [jobs EXCEPT ![p] = w]
    BY <1>1, <1>2, <1>6, <2>1 DEF AbortRekey
  <2>3. Puts(s, o, c, st)
    BY <1>2, <1>3, <2>1, SetStateFacts
  <2>4. s \in SaMaps /\ s[c].out = o[c].out /\ \A d \in Sas : d # c => s[d] = o[d]
    BY <2>3 DEF Puts
  <2>5. Informed(s, Idle)
    BY <1>2, <1>3, <1>6, <2>4, IdleFacts DEF Informed
  <2>6. \A n \in Sas : sa[p][n].state = "NONE" => s[n].state = "NONE"
    BY <1>1, <1>3, <1>6, <2>4 DEF Working
  <2>7. /\ w \in SUBSET JobSet
        /\ \A j \in w : j \in jobs[p] \/ j[2] \in {task[p].child, task[p].del}
    BY <1>1, <1>2, <1>3, <2>1 DEF JobSet
  <2>8. down' \in [Peers -> SUBSET Sas]
    BY <1>2, <1>4
  <2>9. \A n \in Sas : Working(s, n) <=> Working(sa[p], n)
    BY <1>1, <1>3, <1>6, <2>1, <2>3 DEF Working, Puts
  <2> QED
    BY <1>4, <2>2, <2>4, <2>5, <2>6, <2>7, <2>8, <2>9, TaskEnds
<1> QED
  BY <1>5, <1>6

LEMMA NotFoundStep ==
    ASSUME RekeyInv, NEW p \in Peers, NEW i, Hears(p, i), NEW t, t = task[p], RekeyNotFound(p, t),
           t.kind = "REKEY", t.del = None, air[Other(p)][i].type = "NOT_FOUND"
    PROVE  Taught(p)
<1>1. PICK o, c : o = sa[p] /\ c = t.child
  OBVIOUS
<1>2. /\ o \in SaMaps /\ sa \in [Peers -> SaMaps] /\ Informed(o, t) /\ jobs[p] \in SUBSET JobSet
      /\ down \in [Peers -> SUBSET Sas] /\ left \in Bounds /\ queue \in [Peers -> Seq(Entries)]
  BY <1>1, LocalFacts, OtherFacts
<1>3. c \in Sas /\ t.new \in Sas
  BY <1>1, RekeyedFacts
<1>4. /\ task' = [task EXCEPT ![p] = Idle] /\ jobs' = [jobs EXCEPT ![p] = jobs[p]]
      /\ left' \in Bounds /\ left'.rekeys = left.rekeys /\ UNCHANGED <<jobs, left>>
  BY <1>2, TaskOnly DEF RekeyNotFound
<1>5. CASE t.coll = "DELETE"
  <2>1. sa' = [sa EXCEPT ![p] = o] /\ down' \in [Peers -> SUBSET Sas] /\ UNCHANGED queue
    BY <1>1, <1>2, <1>5, TaskOnly DEF RekeyNotFound
  <2>2. Informed(o, Idle)
    BY <1>2, IdleInformed
  <2> QED
    BY <1>1, <1>2, <1>4, <2>1, <2>2, TaskEnds
<1>6. CASE t.coll # "DELETE"
  <2>1. PICK s, u, n : /\ s = Destroy(o, c) /\ u = Append(queue[p], <<"CREATE", None, t.new>>)
                       /\ n = None
    OBVIOUS
  <2>2. sa' = [sa EXCEPT ![p] = s] /\ queue' = [queue EXCEPT ![p] = u]
    BY <1>1, <1>2, <1>6, <2>1 DEF RekeyNotFound
  <2>3. down' \in [Peers -> SUBSET Sas]
    <3>1. down' = [down EXCEPT ![p] = down[p] \cup {c}]
      BY <1>1, <1>6 DEF RekeyNotFound
    <3> QED
      BY <1>2, <1>3, <3>1
  <2>4. s \in SaMaps /\ s[c] = NoSa /\ \A d \in Sas : d # c => s[d] = o[d]
    BY <1>2, <1>3, <2>1, DestroyFacts DEF Writes
  <2>5. Informed(s, Idle)
    BY <1>2, <2>4, IdleFacts, SaFields DEF Informed
  <2>6. \A d \in Sas : sa[p][d].state = "NONE" => s[d].state = "NONE"
    BY <1>1, <2>4, SaFields
  <2>7. n \in SaNumbers /\ n \notin Sas
    BY <2>1, SasFacts
  <2>8. ~t.failed
    <3>1. air[Other(p)][i].type \in AnswersTo(RequestOf(t).type)
      BY RepliedFacts DEF Hears
    <3>2. ASSUME t.failed PROVE FALSE
      <4>1. RequestOf(t).type = "DELETE"
        BY <3>2 DEF RequestOf, Request
      <4> QED
        BY <3>1, <4>1 DEF AnswersTo
    <3> QED
      BY <3>2
  <2>9. Receives(p, i, s, Idle, u, jobs[p], n)
    BY <1>2, <1>3, <1>4, <2>1, <2>2, <2>3, <2>4, <2>5, <2>6, <2>7, <2>8, IdleFacts
    DEF Receives, Hears
  <2>10. Learns(p, i, s, Idle, n)
    BY <1>4, <1>6, <2>7, IdleFacts DEF Learns
  <2> QED
    BY <2>7, <2>9, <2>10 DEF Taught
<1> QED
  BY <1>5, <1>6

\* The CHILD_SAs of b are marked as rekeyed.
Marked(made, b) ==
    [c \in Sas |-> IF c \in b THEN [made[c] EXCEPT !.state = "REKEYED"] ELSE made[c]]

\* The objects o of a peer that has made the CHILD_SA n, which is r, and found
\* those of b obsolete.
Made(s, o, n, r, b) ==
    /\ s \in SaMaps
    /\ \A d \in Sas : IF d \in b THEN /\ s[d].state = "REKEYED"
                                      /\ s[d].out = (IF d = n THEN r.out ELSE o[d].out)
                                 ELSE s[d] = IF d = n THEN r ELSE o[d]

LEMMA MadeFacts ==
    ASSUME NEW o \in SaMaps, NEW n \in Sas, NEW r \in SaRec, NEW b, NEW made, NEW s,
           made = [o EXCEPT ![n] = r], s = Marked(made, b)
    PROVE  Made(s, o, n, r, b)
<1>2. made \in SaMaps /\ made[n] = r /\ \A d \in Sas : d # n => made[d] = o[d]
  BY DEF SaMaps
<1>3. PICK st : st = "REKEYED"
  OBVIOUS
<1>4. ASSUME NEW d \in Sas
      PROVE  s[d] \in SaRec /\ IF d \in b THEN s[d].state = st /\ s[d].out = made[d].out
                                          ELSE s[d] = made[d]
  <2>1. made[d] \in SaRec
    BY <1>2 DEF SaMaps
  <2>2. PICK x : x = [made[d] EXCEPT !.state = st]
    OBVIOUS
  <2>3. x \in SaRec /\ x.state = st /\ x.out = made[d].out
    BY <1>3, <2>1, <2>2 DEF SaRec
  <2> QED
    BY <1>3, <2>1, <2>2, <2>3 DEF Marked
<1>5. s \in SaMaps
  BY <1>4 DEF SaMaps, Marked
<1> QED
  BY <1>2, <1>3, <1>4, <1>5 DEF Made

LEMMA RekeySucceedsStep ==
    ASSUME RekeyInv, NEW p \in Peers, NEW i, Hears(p, i), NEW t, t = task[p], RekeySucceeds(p, t),
           t.kind = "REKEY", t.del = None, air[Other(p)][i].type = "OK"
    PROVE  Taught(p)
<1>1. PICK o, c, n : o = sa[p] /\ c = t.child /\ n = t.new
  OBVIOUS
<1>2. /\ o \in SaMaps /\ sa \in [Peers -> SaMaps] /\ Informed(o, t) /\ jobs[p] \in SUBSET JobSet
      /\ down \in [Peers -> SUBSET Sas] /\ left \in Bounds /\ task \in [Peers -> TaskRec]
      /\ t \in TaskRec /\ TaskOk(t)
  BY <1>1, LocalFacts, OtherFacts
<1>3. c \in Sas /\ n \in Sas /\ n # c /\ (t.coll # "DELETE" => Working(o, c) /\ o[c].out # "NONE")
  BY <1>1, RekeyedFacts
<1>4. PICK won \in BOOLEAN : won = Wins(t)
  BY DEF Wins
<1>5. PICK r, b, made, s :
        /\ r = (IF won THEN InUse ELSE NewSa)
        /\ b = ({IF won THEN c ELSE n}
                \cup (IF won /\ t.coll = "REKEY" /\ ~t.gone THEN {t.other} ELSE {}))
        /\ made = [o EXCEPT ![n] = r]
        /\ s = Marked(made, b)
  OBVIOUS
<1>6. r \in SaRec /\ r.state = "INSTALLED" /\ r.out # "NONE"
  BY <1>5, SaRecs, SaFields
<1>7. Made(s, o, n, r, b)
  <2>1. made = [o EXCEPT ![n] = r] /\ s = Marked(made, b)
    BY <1>5
  <2> QED
    BY <1>2, <1>3, <1>6, <2>1, MadeFacts
<1>8. /\ s \in SaMaps
      /\ \A d \in Sas : IF d \in b THEN /\ s[d].state = "REKEYED"
                                        /\ s[d].out = (IF d = n THEN r.out ELSE o[d].out)
                                   ELSE s[d] = IF d = n THEN r ELSE o[d]
  BY <1>7 DEF Made
<1>9. PICK sent \in BOOLEAN, del \in SaNumbers : sent = FALSE /\ del = IF won THEN c ELSE n
  BY <1>3, SasFacts
<1>10. PICK v : v = [t EXCEPT !.sent = sent, !.del = del]
  OBVIOUS
<1>11. /\ v \in TaskRec /\ ~v.sent /\ v.kind = t.kind /\ v.child = c /\ v.new = n /\ v.del = del
       /\ v.failed = t.failed /\ v.coll = t.coll /\ v.other = t.other /\ v.gone = t.gone
  BY <1>1, <1>2, <1>9, <1>10 DEF TaskRec
<1>12. sa' = [sa EXCEPT ![p] = s] /\ UNCHANGED <<queue, jobs, down, left>>
  BY <1>1, <1>2, <1>4, <1>5 DEF RekeySucceeds, Marked
<1>13. task' = [task EXCEPT ![p] = v]
  BY <1>1, <1>2, <1>4, <1>9, <1>10 DEF RekeySucceeds
<1>14. ~t.failed
  <2>1. air[Other(p)][i].type \in AnswersTo(RequestOf(t).type)
    BY RepliedFacts DEF Hears
  <2>2. ASSUME t.failed PROVE FALSE
    <3>1. RequestOf(t).type = "DELETE"
      BY <2>2 DEF RequestOf, Request
    <3> QED
      BY <2>1, <3>1 DEF AnswersTo
  <2> QED
    BY <2>2
<1>15. TaskOk(v)
  BY <1>1, <1>2, <1>3, <1>9, <1>11, <1>14 DEF TaskOk
<1>16. won => t.coll # "DELETE"
  BY <1>4 DEF Wins
<1>17. t.coll = "REKEY" => t.other \in Sas \ {c, n}
  BY <1>1, <1>2 DEF TaskOk
<1>18. t.coll = "REKEY" /\ ~t.gone => Working(o, t.other)
  BY <1>2 DEF Informed
<1>19. t.coll = "DELETE" => ~Working(s, c)
  <2>1. SUFFICES ASSUME t.coll = "DELETE" PROVE ~Working(s, c)
    OBVIOUS
  <2>2. c \notin b
    BY <1>3, <1>5, <1>16, <2>1
  <2>3. s[c] = o[c]
    BY <1>3, <1>8, <2>2
  <2> QED
    BY <1>1, <1>2, <2>1, <2>3 DEF Informed, Working
<1>20. t.coll = "REKEY" /\ ~t.gone => Working(s, t.other)
  BY <1>8, <1>17, <1>18 DEF Working
<1>21. ASSUME NEW d \in Sas, s[d].state # "NONE", s[d].out = "NONE" PROVE s[d].state = "DELETING"
  <2>1. d # n
    BY <1>6, <1>8, <1>21
  <2>2. CASE d \notin b
    BY <1>2, <1>8, <1>21, <2>1, <2>2 DEF Informed
  <2>3. CASE d \in b
    <3>1. d = c \/ d = t.other
      BY <1>5, <2>1, <2>3
    <3>2. won /\ (d = t.other => (t.coll = "REKEY" /\ ~t.gone) \/ d = c)
      BY <1>5, <2>1, <2>3
    <3>3. o[d].out = "NONE"
      BY <1>8, <1>21, <2>1, <2>3
    <3>4. Working(o, d)
      BY <1>3, <1>16, <1>18, <3>1, <3>2
    <3> QED
      BY <1>2, <3>3, <3>4 DEF Informed, Working
  <2> QED
    BY <2>2, <2>3
<1>22. Informed(s, v)
  BY <1>11, <1>19, <1>20, <1>21 DEF Informed
<1>23. ASSUME NEW d \in Sas, sa[p][d].state = "NONE", d # n PROVE s[d].state = "NONE"
  <2>1. d \notin b
    BY <1>1, <1>3, <1>5, <1>16, <1>18, <1>23 DEF Working
  <2> QED
    BY <1>1, <1>8, <1>23, <2>1
<1>24. /\ queue' = [queue EXCEPT ![p] = queue[p]] /\ jobs' = [jobs EXCEPT ![p] = jobs[p]]
       /\ down' \in [Peers -> SUBSET Sas] /\ left' \in Bounds /\ left'.rekeys = left.rekeys
  BY <1>2, <1>12, TaskOnly
<1>25. v.del \in {t.child, n} /\ v.del # None
  BY <1>1, <1>3, <1>9, <1>11, SasFacts
<1>26. Receives(p, i, s, v, queue[p], jobs[p], n)
  BY <1>1, <1>2, <1>8, <1>11, <1>12, <1>13, <1>15, <1>22, <1>23, <1>24, <1>25 DEF Receives, Hears
<1>27. ASSUME NEW d \in Sas, d # n PROVE Working(s, d) <=> Working(o, d)
  <2>1. CASE d \in b
    BY <1>3, <1>5, <1>8, <1>16, <1>18, <1>27, <2>1 DEF Working
  <2>2. CASE d \notin b
    BY <1>8, <1>27, <2>2 DEF Working
  <2> QED
    BY <2>1, <2>2
<1>28. Working(s, n)
  BY <1>3, <1>6, <1>8 DEF Working
<1>29. Learns(p, i, s, v, n)
  BY <1>1, <1>11, <1>12, <1>27, <1>28 DEF Learns
<1> QED
  BY <1>3, <1>26, <1>29, SasFacts DEF Taught

LEMMA HeardFacts ==
    ASSUME RekeyInv, NEW p \in Peers, NEW q, q = Other(p), NEW i, Arrives(q, i), ~air[q][i].req,
           Received(q, i), UNCHANGED <<nonce, scene>>
    PROVE  Hears(p, i)
BY DEF Hears, Arrives, Received, Replies

LEMMA RekeyResponseStep ==
    ASSUME RekeyInv, NEW p \in Peers, NEW i, RekeyResponse(p, i)
    PROVE  Taught(p)
<1>1. PICK q, m, t : q = Other(p) /\ m = air[q][i] /\ t = task[p]
  OBVIOUS
<1>2. /\ Arrives(q, i) /\ ~m.req /\ t.kind = "REKEY" /\ t.del = None /\ Received(q, i)
      /\ UNCHANGED <<nonce, scene>>
      /\ \/ m.type # "OK" /\ AbortRekey(p, t)
         \/ m.type = "NOT_FOUND" /\ RekeyNotFound(p, t)
         \/ m.type = "INVALID_KE" /\ Retry(p)
         \/ InstallFails(p)
         \/ m.type = "OK" /\ RekeySucceeds(p, t)
  BY <1>1 DEF RekeyResponse
<1>3. Hears(p, i)
  BY <1>1, <1>2, HeardFacts
<1>4. CASE m.type # "OK" /\ AbortRekey(p, t)
  BY <1>1, <1>2, <1>3, <1>4, AbortRekeyStep
<1>5. CASE m.type = "NOT_FOUND" /\ RekeyNotFound(p, t)
  BY <1>1, <1>2, <1>3, <1>5, NotFoundStep
<1>6. CASE m.type = "INVALID_KE" /\ Retry(p)
  BY <1>1, <1>2, <1>3, <1>6, RetryStep
<1>7. CASE InstallFails(p)
  BY <1>1, <1>2, <1>3, <1>7, InstallFailsStep
<1>8. CASE m.type = "OK" /\ RekeySucceeds(p, t)
  BY <1>1, <1>2, <1>3, <1>8, RekeySucceedsStep
<1> QED
  BY <1>2, <1>4, <1>5, <1>6, <1>7, <1>8

LEMMA CreatedStep ==
    ASSUME RekeyInv, NEW p \in Peers, NEW i, Hears(p, i), NEW n, n = task[p].new,
           task[p].kind = "CREATE", CreateEnds(p, [sa[p] EXCEPT ![n] = InUse]),
           air[Other(p)][i].type = "OK"
    PROVE  Taught(p)
<1>1. PICK t, o, s : t = task[p] /\ o = sa[p] /\ s = [o EXCEPT ![n] = InUse]
  OBVIOUS
<1>2. /\ o \in SaMaps /\ Informed(o, t) /\ TaskOk(t) /\ jobs[p] \in SUBSET JobSet
      /\ down \in [Peers -> SUBSET Sas] /\ left \in Bounds
  BY <1>1, LocalFacts, OtherFacts
<1>3. n \in Sas /\ t.child = None
  BY <1>1, <1>2 DEF TaskOk
<1>4. Writes(s, o, n, InUse)
  BY <1>1, <1>2, <1>3, WriteFacts, SaRecs
<1>5. s \in SaMaps /\ s[n] = InUse /\ \A d \in Sas : d # n => s[d] = o[d]
  BY <1>4 DEF Writes
<1>6. Informed(s, Idle)
  BY <1>2, <1>5, IdleFacts, SaFields DEF Informed
<1>7. /\ sa' = [sa EXCEPT ![p] = s] /\ task' = [task EXCEPT ![p] = Idle]
      /\ UNCHANGED <<queue, jobs, down, left>>
  BY <1>1 DEF CreateEnds
<1>8. /\ queue' = [queue EXCEPT ![p] = queue[p]] /\ jobs' = [jobs EXCEPT ![p] = jobs[p]]
      /\ down' \in [Peers -> SUBSET Sas] /\ left' \in Bounds /\ left'.rekeys = left.rekeys
  BY <1>2, <1>7, TaskOnly
<1>9. Receives(p, i, s, Idle, queue[p], jobs[p], n)
  BY <1>1, <1>2, <1>5, <1>6, <1>7, <1>8, IdleFacts DEF Receives, Hears
<1>10. /\ \A d \in Sas : d # n => (Working(s, d) <=> Working(o, d))
       /\ Working(s, n)
  BY <1>5, SaFields DEF Working
<1>11. Learns(p, i, s, Idle, n)
  BY <1>1, <1>7, <1>10, IdleFacts DEF Learns
<1> QED
  BY <1>3, <1>9, <1>11, SasFacts DEF Taught

LEMMA JustEnds ==
    ASSUME RekeyInv, NEW p \in Peers, NEW i, Hears(p, i), UNCHANGED <<sa, queue, jobs, down, left>>,
           task' = [task EXCEPT ![p] = Idle], air[Other(p)][i].type # "OK"
    PROVE  Taught(p)
<1>1. PICK o : o = sa[p]
  OBVIOUS
<1>2. /\ o \in SaMaps /\ Informed(o, task[p]) /\ jobs[p] \in SUBSET JobSet
      /\ down' \in [Peers -> SUBSET Sas]
  BY <1>1, LocalFacts, OtherFacts
<1>3. sa' = [sa EXCEPT ![p] = o] /\ jobs' = [jobs EXCEPT ![p] = jobs[p]] /\ Informed(o, Idle)
  BY <1>1, <1>2, TaskOnly, IdleInformed
<1> QED
  BY <1>1, <1>2, <1>3, TaskEnds

LEMMA CreateResponseStep ==
    ASSUME RekeyInv, NEW p \in Peers, NEW i, CreateResponse(p, i)
    PROVE  Taught(p)
<1>1. PICK q, m, t, n : q = Other(p) /\ m = air[q][i] /\ t = task[p] /\ n = t.new
  OBVIOUS
<1>2. /\ Arrives(q, i) /\ ~m.req /\ t.kind = "CREATE" /\ Received(q, i) /\ UNCHANGED <<nonce, scene>>
      /\ \/ m.type = "OK" /\ CreateEnds(p, [sa[p] EXCEPT ![n] = InUse])
         \/ InstallFails(p)
         \/ m.type # "OK" /\ CreateEnds(p, sa[p])
         \/ m.type = "INVALID_KE" /\ Retry(p)
  BY <1>1 DEF CreateResponse
<1>3. Hears(p, i)
  BY <1>1, <1>2, HeardFacts
<1>4. t.del = None
  BY <1>1, <1>2, LocalFacts DEF TaskOk
<1>5. CASE m.type = "OK" /\ CreateEnds(p, [sa[p] EXCEPT ![n] = InUse])
  BY <1>1, <1>2, <1>3, <1>5, CreatedStep
<1>6. CASE InstallFails(p)
  BY <1>1, <1>2, <1>3, <1>4, <1>6, InstallFailsStep
<1>7. CASE m.type # "OK" /\ CreateEnds(p, sa[p])
  <2>1. task' = [task EXCEPT ![p] = Idle] /\ UNCHANGED <<sa, queue, jobs, down, left>>
    BY <1>7, TaskOnly DEF CreateEnds
  <2> QED
    BY <1>1, <1>3, <1>7, <2>1, JustEnds
<1>8. CASE m.type = "INVALID_KE" /\ Retry(p)
  BY <1>1, <1>2, <1>3, <1>4, <1>8, RetryStep
<1> QED
  BY <1>2, <1>5, <1>6, <1>7, <1>8

LEMMA EmptyResponseStep ==
    ASSUME RekeyInv, NEW p \in Peers, NEW i, EmptyResponse(p, i)
    PROVE  Taught(p)
<1>1. PICK q : q = Other(p)
  OBVIOUS
<1>2. /\ Arrives(q, i) /\ ~air[q][i].req /\ Received(q, i) /\ task[p].kind = "EMPTY"
      /\ task' = [task EXCEPT ![p] = Idle] /\ UNCHANGED <<sa, queue, jobs, down, nonce, scene, left>>
  BY <1>1 DEF EmptyResponse
<1>3. Hears(p, i)
  BY <1>1, <1>2, HeardFacts
<1>4. RequestOf(task[p]).type = "EMPTY"
  BY <1>2 DEF RequestOf, Request
<1>5. air[q][i].type # "OK"
  BY <1>1, <1>3, <1>4, RepliedFacts DEF Hears, AnswersTo
<1> QED
  BY <1>1, <1>2, <1>3, <1>5, JustEnds

LEMMA DeleteResponseStep ==
    ASSUME RekeyInv, NEW p \in Peers, NEW i, DeleteResponse(p, i)
    PROVE  Taught(p)
<1>1. PICK q, t, o, c : q = Other(p) /\ t = task[p] /\ o = sa[p] /\ c = t.del
  OBVIOUS
<1>2. /\ Arrives(q, i) /\ ~air[q][i].req /\ c # None /\ Received(q, i)
      /\ DestroyAndReestablish(p, o, t, c, t.rekeyed, TRUE)
      /\ task' = [task EXCEPT ![p] = Idle] /\ UNCHANGED <<queue, nonce, scene, left>>
  BY <1>1 DEF DeleteResponse
<1>3. Hears(p, i)
  BY <1>1, <1>2, HeardFacts
<1>4. /\ o \in SaMaps /\ Informed(o, t) /\ TaskOk(t) /\ t \in TaskRec /\ t.sent
      /\ jobs[p] \in SUBSET JobSet
  BY <1>1, <1>3, LocalFacts, OtherFacts, RepliedFacts DEF Hears
<1>5. c \in Sas /\ o[c].state = "DELETING"
  BY <1>1, <1>2, <1>4, SasFacts DEF TaskRec, Informed
<1>6. Finishes(p, o, c)
  BY <1>2, <1>4, <1>5, EndFacts DEF RekeyInv
<1>7. PICK s, w : s = sa'[p] /\ w = jobs'[p]
  OBVIOUS
<1>8. /\ sa' = [sa EXCEPT ![p] = s] /\ Ends(s, o, c) /\ jobs' = [jobs EXCEPT ![p] = w]
      /\ w = jobs[p] \/ w = jobs[p] \cup {<<"DELETE", c>>}
      /\ down' \in [Peers -> SUBSET Sas]
  BY <1>6, <1>7 DEF Finishes
<1>9. /\ s \in SaMaps
      /\ \A d \in Sas : d # c => s[d].state = o[d].state /\ (s[d].out = o[d].out \/ s[d].out = "INSTALLED")
      /\ s[c].state # "NONE" => s[c].state = "DELETING"
  BY <1>5, <1>8 DEF Ends
<1>10. Informed(s, Idle)
  BY <1>4, <1>9, IdleFacts DEF Informed
<1>11. \A n \in Sas : sa[p][n].state = "NONE" => s[n].state = "NONE"
  BY <1>1, <1>5, <1>9
<1>12. w \in SUBSET JobSet /\ \A j \in w : j \in jobs[p] \/ j[2] \in {task[p].child, task[p].del}
  BY <1>1, <1>4, <1>5, <1>8 DEF JobSet
<1>13. \A n \in Sas : Working(s, n) <=> Working(sa[p], n)
  BY <1>1, <1>5, <1>9 DEF Working
<1>14. RequestOf(t).type \in {"EMPTY", "DELETE"}
  BY <1>1, <1>2 DEF RequestOf, Request
<1>15. air[q][i].type # "OK"
  BY <1>1, <1>3, <1>14, RepliedFacts DEF Hears, AnswersTo
<1> QED
  BY <1>1, <1>2, <1>3, <1>8, <1>9, <1>10, <1>11, <1>12, <1>13, <1>15, TaskEnds

-----------------------------------------------------------------------------
(* The invariant *)

LEMMA InitRekey == Init => RekeyInv
<1>1. SUFFICES ASSUME Init PROVE RekeyInv
  OBVIOUS
<1>2. \A p \in Peers : /\ sa[p] = [c \in Sas |-> IF c = 1 THEN InUse ELSE NoSa]
                       /\ task[p] = Idle /\ queue[p] = <<>> /\ jobs[p] = {} /\ air[p] = <<>>
  BY <1>1 DEF Init
<1>3. PICK e : e = <<>> /\ DOMAIN e = {}
  <2>1. DOMAIN <<>> = {}
    OBVIOUS
  <2> QED
    BY <2>1
<1>4. \A p \in Peers : DOMAIN queue[p] = {} /\ DOMAIN air[p] = {}
  BY <1>2, <1>3
<1>5. /\ left = [rekeys |-> scene.rekeys, deletes |-> scene.deletes,
                 rejects |-> scene.rejects, failures |-> scene.failures]
      /\ scene \in Scenarios /\ scene \in Scenario
  BY <1>1, ChildRekeyConstants DEF Init
<1>6. left \in Bounds /\ left.rekeys = scene.rekeys /\ scene.rekeys \in Nat
  BY <1>5, ChildRekeyConstants DEF Bounds, Scenario
<1>7. LooseType
  <2>1. [c \in Sas |-> IF c = 1 THEN InUse ELSE NoSa] \in SaMaps
    BY SaRecs DEF SaMaps
  <2>2. sa \in [Peers -> SaMaps]
    BY <1>1, <2>1 DEF Init
  <2>3. task \in [Peers -> TaskRec]
    BY <1>1, IdleFacts DEF Init
  <2>4. queue \in [Peers -> Seq(Entries)] /\ air \in [Peers -> Seq(Messages)]
    BY <1>1 DEF Init
  <2>5. jobs \in [Peers -> SUBSET JobSet] /\ down \in [Peers -> SUBSET Sas]
    BY <1>1 DEF Init
  <2>6. nonce \in Injection(Sas, Sas)
    BY <1>1 DEF Init
  <2> QED
    BY <1>5, <1>6, <2>2, <2>3, <2>4, <2>5, <2>6 DEF LooseType
<1>8. NextSa = 2
  BY <1>6 DEF NextSa
<1>9. ASSUME NEW p \in Peers, NEW n \in Sas PROVE ~Holds(p, n) /\ ~Reserved(p, n)
  BY <1>2, <1>4, IdleFacts, SasFacts DEF Holds, Reserved, Queued, Unmade
<1>10. ASSUME NEW p \in Peers, NEW n \in Sas, n >= NextSa PROVE Unused(p, n)
  <2>1. n # 1
    BY <1>8, <1>10, SasFacts
  <2>2. sa[p][n].state = "NONE"
    BY <1>2, <2>1, SaFields
  <2> QED
    BY <1>2, <1>4, <2>2, IdleFacts, SasFacts DEF Unused, Unmentioned
<1>11. \A p \in Peers : Apart(task[p], queue[p])
  BY <1>4 DEF Apart
<1>12. Numbers
  BY <1>6, <1>9, <1>10, <1>11 DEF Numbers
<1>13. ASSUME NEW p \in Peers PROVE LocalOk(p)
  <2>1. Asked(air[p]) = {} /\ Replies(air[Other(p)]) = {}
    BY <1>4, PeersFacts DEF Asked, Replies
  <2>2. Exchanging(task[p], air[p], air[Other(p)])
    BY <2>1 DEF Exchanging
  <2>3. \A c \in Sas : sa[p][c].state # "NONE" => sa[p][c].out # "NONE"
    BY <1>2, SaFields
  <2>4. Informed(sa[p], task[p])
    BY <1>2, <2>3, IdleFacts DEF Informed
  <2> QED
    BY <1>2, <1>4, <2>2, <2>4, IdleFacts DEF LocalOk
<1> QED
  BY <1>7, <1>12, <1>13 DEF RekeyInv

\* What a step does, and which peer takes it.
Acts(p) == Queueing(p) \/ Starting(p) \/ Responding(p) \/ Taught(p)

LEMMA NextActs ==
    ASSUME RekeyInv, Next
    PROVE  \E p \in Peers : Acts(p)
<1>0. PICK p \in Peers : \/ Initiate(p)
                         \/ \E c \in Sas : SoftExpire(p, c) \/ DeleteChild(p, c)
                         \/ Run(p)
                         \/ \E i \in Indices : Deliver(p, i)
  BY DEF Next
<1>1. PICK q \in Peers : q = Other(p) /\ Other(q) = p
  BY PeersFacts
<1>2. CASE Initiate(p)
  BY <1>2, InitiateStep DEF Acts
<1>3. CASE \E c \in Sas : SoftExpire(p, c) \/ DeleteChild(p, c)
  BY <1>3, SoftExpireStep, DeleteChildStep DEF Acts
<1>4. CASE Run(p)
  <2>1. PICK j \in JobSet : RunJob(p, j)
    BY <1>4 DEF Run, JobSet
  <2> QED
    BY <2>1, RunJobStep DEF Acts
<1>5. ASSUME NEW i \in Indices, Deliver(p, i) PROVE Responding(q) \/ Taught(q)
  <2>1. \/ RespondRekey(p, i) \/ RespondCreate(p, i) \/ RespondDelete(p, i)
        \/ RekeyResponse(q, i) \/ CreateResponse(q, i) \/ DeleteResponse(q, i) \/ EmptyResponse(q, i)
    BY <1>1, <1>5 DEF Deliver
  <2> QED
    BY <1>1, <2>1, RespondRekeyStep, RespondCreateStep, RespondDeleteStep,
       RekeyResponseStep, CreateResponseStep, DeleteResponseStep, EmptyResponseStep
<1> QED
  BY <1>0, <1>1, <1>2, <1>3, <1>4, <1>5 DEF Acts

LEMMA ActsGood ==
    ASSUME RekeyInv, NEW p \in Peers, Acts(p)
    PROVE  GoodStep(p)
BY QueueingStep, StartingStep, RespondingStep, TaughtStep DEF Acts

LEMMA RekeyNext == RekeyInv /\ [Next]_vars => RekeyInv'
<1>1. SUFFICES ASSUME RekeyInv, [Next]_vars PROVE RekeyInv'
  OBVIOUS
<1>2. CASE Next
  <2>1. PICK x \in Peers : GoodStep(x)
    BY <1>1, <1>2, NextActs, ActsGood
  <2> QED
    BY <1>1, <2>1, StepKeeps
<1>3. CASE UNCHANGED vars
  BY <1>1, <1>3 DEF RekeyInv, LooseType, Numbers, LocalOk, vars, NextSa, Holds, Reserved, Unused
<1> QED
  BY <1>1, <1>2, <1>3

LEMMA RekeySound == RekeyInv => TasksSound
<1>1. SUFFICES ASSUME RekeyInv PROVE TypeOK /\ NoDangling
  BY DEF TasksSound
<1>2. ASSUME NEW p \in Peers, NEW i \in DOMAIN air[p], NEW j \in DOMAIN air[p],
             air[p][i].req = air[p][j].req
      PROVE  i = j
  <2>1. PICK q \in Peers : q = Other(p) /\ Other(q) = p
    BY PeersFacts
  <2>2. Exchanging(task[p], air[p], air[q]) /\ Exchanging(task[q], air[q], air[p])
    BY <1>1, <2>1 DEF RekeyInv, LocalOk
  <2>3. CASE air[p][i].req
    <3>1. i \in Asked(air[p]) /\ j \in Asked(air[p])
      BY <1>2, <2>3 DEF Asked
    <3> QED
      BY <2>2, <3>1 DEF Exchanging
  <2>4. CASE ~air[p][i].req
    <3>1. i \in Replies(air[p]) /\ j \in Replies(air[p])
      BY <1>2, <2>4 DEF Replies
    <3> QED
      BY <2>2, <3>1 DEF Exchanging
  <2> QED
    BY <2>3, <2>4
<1>3. TypeOK
  BY <1>1, <1>2 DEF RekeyInv, LooseType, TypeOK, SaMaps, SaRec, TaskRec, Entries, JobSet, Messages,
     Bounds
<1>4. ASSUME NEW p \in Peers, NEW t, t = task[p]
      PROVE  /\ t.kind = "REKEY" /\ t.sent /\ t.del = None /\ ~Exists(sa[p], t.child) =>
                   t.coll = "DELETE"
             /\ t.kind = "REKEY" /\ t.coll = "REKEY" /\ ~Exists(sa[p], t.other) => t.gone
             /\ t.sent /\ t.del # None => sa[p][t.del].state = "DELETING"
  <2>1. TaskOk(t) /\ Informed(sa[p], t)
    BY <1>1, <1>4 DEF RekeyInv, LocalOk
  <2>2. t.kind = "REKEY" => t.child # None
    BY <2>1, SasFacts DEF TaskOk
  <2>3. t.coll = "REKEY" => t.other # None
    BY <2>1, SasFacts DEF TaskOk
  <2> QED
    BY <2>1, <2>2, <2>3 DEF Informed, Working, Exists
<1>5. NoDangling
  BY <1>4 DEF NoDangling
<1> QED
  BY <1>3, <1>5

LEMMA RekeyInvariant == Spec => []RekeyInv
<1> QED
  BY InitRekey, RekeyNext, PTL DEF Spec

\* However the rekeyings and deletions of the two peers collide and whatever the
\* network does, each peer has at most one request and one response on the way,
\* and no task uses a CHILD_SA that has been destroyed (child_rekey.c: collide).
THEOREM TasksTheorem == Spec => []TasksSound
<1> QED
  BY RekeyInvariant, RekeySound, PTL

-----------------------------------------------------------------------------
(* What the peers know of each other's CHILD_SAs, when every SA can be       *)
(* installed and no request overtakes the response that made its CHILD_SA.   *)
(* A peer has the objects s, the task t and the messages a, the other one    *)
(* has the objects r, the task z, the queue g, the jobs w and the messages b. *)

Tame == ~Overtaking /\ scene.failures = 0

\* The other peer uses no CHILD_SA that this one has neither in use, nor is
\* deleting, nor is about to hear of.
Shared(s, t, b, r) == \A c \in Sas :
    Working(r, c) => Working(s, c) \/ Deleting(t, c) \/ (OkIn(b) /\ t.new = c)

\* What the other peer has answered to a deletion is true.
Dropped(t, b, r) == Replies(b) # {} => \A c \in Sas : Deleting(t, c) => ~Working(r, c)

\* What the other peer has agreed to make is there until the response arrives.
InOrder(b, n) == \A i \in Replies(b), j \in Asked(b) : b[j].child = n => i < j
Unanswered(a, n) == \A j \in Replies(a) : a[j].child # n
Offered(f, t, a, b, r, z, g, w) == OkIn(b) =>
    /\ Working(r, t.new) \/ Deleting(z, t.new)
    /\ ~f.early => Unmentioned(z, g, w, t.new)
    /\ f.ordered => InOrder(b, t.new) /\ Unanswered(a, t.new)

\* The task knows why the other peer did not find the CHILD_SA.
Missed(t, b) == \A i \in Replies(b) : b[i].type = "NOT_FOUND" => t.coll = "DELETE"

Agreed(p) == LET q == Other(p) IN
    /\ Shared(sa[p], task[p], air[q], sa[q])
    /\ Dropped(task[p], air[q], sa[q])
    /\ Offered(scene, task[p], air[p], air[q], sa[q], task[q], queue[q], jobs[q])
    /\ Missed(task[p], air[q])

Agreement == Tame => /\ left.failures = 0
                     /\ \A p \in Peers : ~task[p].failed /\ Agreed(p)

LEMMA OkFacts ==
    ASSUME RekeyInv, NEW p \in Peers, NEW q, q = Other(p), OkIn(air[q])
    PROVE  /\ task[p].sent /\ task[p].del = None /\ ~task[p].failed /\ task[p].new \in Sas
           /\ Holds(p, task[p].new) /\ ~Holds(q, task[p].new)
<1>1. PICK i \in Replies(air[q]) : air[q][i].type = "OK"
  BY DEF OkIn
<1>2. PICK t : t = task[p]
  OBVIOUS
<1>3. t \in TaskRec /\ TaskOk(t) /\ t.sent /\ "OK" \in AnswersTo(RequestOf(t).type)
  BY <1>1, <1>2, LocalFacts, RepliedFacts
<1>4. RequestOf(t).type \in {"REKEY", "CREATE", "DELETE", "EMPTY"}
  BY <1>3, RequestKinds
<1>5. RequestOf(t).type \in {"REKEY", "CREATE"}
  BY <1>3, <1>4 DEF AnswersTo
<1>6. t.del = None /\ ~t.failed /\ t.new \in Sas
  BY <1>3, <1>5, RequestKinds
<1>7. Holds(p, t.new)
  BY <1>2 DEF Holds
<1>8. ~Holds(q, t.new)
  BY <1>6, <1>7 DEF RekeyInv, Numbers
<1> QED
  BY <1>2, <1>3, <1>6, <1>7, <1>8

LEMMA QueueingAgreed ==
    ASSUME RekeyInv, Tame, Agreement, NEW p \in Peers, Queueing(p)
    PROVE  Agreement'
<1>0. PICK q : q = Other(p)
  OBVIOUS
<1>1. q \in Peers /\ q # p /\ Other(q) = p /\ \A x \in Peers : x = p \/ x = q
  BY <1>0, PeersFacts
<1>2. PICK k : Drops(p, k) /\ (UNCHANGED <<queue, left>> \/ \E e : Queues(p, e))
  BY DEF Queueing
<1>3. /\ k \subseteq jobs[p] /\ jobs' = [jobs EXCEPT ![p] = k]
      /\ UNCHANGED <<sa, task, air, scene>>
  BY <1>2 DEF Drops
<1>4. /\ left.failures = 0 /\ ~task[p].failed /\ ~task[q].failed /\ Agreed(p) /\ Agreed(q)
      /\ jobs \in [Peers -> SUBSET JobSet] /\ queue \in [Peers -> Seq(Entries)]
  BY <1>1, OtherFacts, LocalFacts DEF Agreement
<1>5. jobs'[p] = k /\ jobs'[q] = jobs[q]
  BY <1>1, <1>3, <1>4
<1>6. /\ left'.failures = 0 /\ queue'[q] = queue[q]
      /\ \/ queue'[p] = queue[p]
         \/ \E e \in Entries : queue'[p] = Append(queue[p], e) /\ MayAsk(p, e[2])
  BY <1>1, <1>2, <1>4 DEF Queues
<1>7. Agreed(p)'
  BY <1>0, <1>3, <1>4, <1>5, <1>6 DEF Agreed
<1>8. ASSUME OkIn(air[p]), ~scene.early, NEW n, n = task[q].new
      PROVE  Unmentioned(task[p], queue'[p], k, n)
  <2>1. Unmentioned(task[p], queue[p], jobs[p], n)
    BY <1>1, <1>4, <1>8 DEF Agreed, Offered
  <2>2. CASE queue'[p] = queue[p]
    BY <1>3, <2>1, <2>2 DEF Unmentioned
  <2>3. ASSUME NEW e \in Entries, queue'[p] = Append(queue[p], e), MayAsk(p, e[2])
        PROVE  Unmentioned(task[p], queue'[p], k, n)
    <3>1. InTheMaking(p, n)
      BY <1>0, <1>1, <1>8, OkFacts DEF InTheMaking
    <3>2. e[2] # n
      BY <1>8, <2>1, <2>3, <3>1 DEF MayAsk, Unmentioned
    <3>3. PICK u, y : u = queue[p] /\ y = queue'[p]
      OBVIOUS
    <3>4. /\ DOMAIN y = DOMAIN u \cup {Len(u) + 1}
          /\ y[Len(u) + 1] = e /\ \A l \in DOMAIN u : y[l] = u[l]
      BY <1>4, <2>3, <3>3, AppendFacts
    <3>5. \A l \in DOMAIN y : y[l][2] # n
      BY <2>1, <3>2, <3>3, <3>4 DEF Unmentioned
    <3> QED
      BY <1>3, <2>1, <3>3, <3>5 DEF Unmentioned
  <2> QED
    BY <1>6, <2>2, <2>3
<1>9. Offered(scene, task[q], air[q], air[p], sa[p], task[p], queue'[p], k)
  BY <1>1, <1>4, <1>8 DEF Agreed, Offered
<1>10. Agreed(q)'
  BY <1>1, <1>3, <1>4, <1>5, <1>9 DEF Agreed
<1> QED
  BY <1>1, <1>3, <1>4, <1>6, <1>7, <1>10 DEF Agreement

LEMMA StartingAgreed ==
    ASSUME RekeyInv, Tame, Agreement, NEW p \in Peers, Starting(p)
    PROVE  Agreement'
<1>0. PICK q : q = Other(p)
  OBVIOUS
<1>1. q \in Peers /\ q # p /\ Other(q) = p /\ \A x \in Peers : x = p \/ x = q
  BY <1>0, PeersFacts
<1>2. PICK t, v, s, u : /\ Starts(p, t, u) /\ Becomes(p, t, v, s)
                        /\ queue' = [queue EXCEPT ![p] = u]
                        /\ UNCHANGED <<jobs, scene, left>>
  BY DEF Starting
<1>3. /\ left.failures = 0 /\ ~task[p].failed /\ ~task[q].failed /\ Agreed(p) /\ Agreed(q)
      /\ sa \in [Peers -> SaMaps] /\ task \in [Peers -> TaskRec]
      /\ queue \in [Peers -> Seq(Entries)] /\ air \in [Peers -> Seq(Messages)]
      /\ queue[p] \in Seq(Entries) /\ air[p] \in Seq(Messages) /\ Apart(task[p], queue[p])
  BY <1>1, LocalFacts DEF Agreement, RekeyInv, Numbers
<1>4. /\ sa' = [sa EXCEPT ![p] = s] /\ task' = [task EXCEPT ![p] = v] /\ v \in TaskRec
      /\ v.child \in {None, t.child} /\ v.del \in {None, t.del, t.child}
      /\ v.failed => t.failed
      /\ \A c \in Sas : Working(s, c) => Working(sa[p], c)
      /\ \A c \in Sas : Working(sa[p], c) => Working(s, c) \/ Deleting(v, c)
      /\ IF v.sent THEN air' = [air EXCEPT ![p] = Append(@, RequestOf(v))] ELSE air' = air
  BY <1>2 DEF Becomes
<1>5. PICK o, z, r, a, b, y : /\ o = sa[p] /\ z = task[q] /\ r = sa[q] /\ a = air[p] /\ b = air[q]
                              /\ y = air'[p]
  OBVIOUS
<1>6. /\ sa'[p] = s /\ task'[p] = v /\ queue'[p] = u /\ jobs'[p] = jobs[p]
      /\ sa'[q] = r /\ task'[q] = z /\ queue'[q] = queue[q] /\ jobs'[q] = jobs[q] /\ air'[q] = b
  BY <1>1, <1>2, <1>3, <1>4, <1>5
<1>7. ~task[p].sent /\ ~v.failed
  BY <1>2, <1>3, <1>4, IdleFacts DEF Starts, Idle
<1>8. Replies(b) = {}
  BY <1>0, <1>1, <1>5, <1>7, NothingSent DEF RekeyInv, LocalOk
<1>9. /\ Replies(y) = Replies(a) /\ \A l \in Replies(a) : y[l] = a[l]
      /\ \A l \in Asked(y) : (l \in Asked(a) /\ y[l] = a[l]) \/ \A j \in Replies(a) : j < l
  <2>1. CASE v.sent
    <3>1. PICK m \in Messages : m = RequestOf(v) /\ m.req
      BY <1>4, RequestFacts
    <3>2. y = Append(a, m)
      BY <1>3, <1>4, <1>5, <2>1, <3>1
    <3>3. Longer(y, a, m)
      BY <1>3, <1>5, <3>2, AppendAir
    <3> QED
      BY <3>1, <3>3 DEF Longer, Asked, Replies
  <2>2. CASE ~v.sent
    <3>1. y = a
      BY <1>4, <1>5, <2>2
    <3> QED
      BY <3>1
  <2> QED
    BY <2>1, <2>2
<1>10. OkIn(y) <=> OkIn(a)
  BY <1>9 DEF OkIn
<1>11. \A n : Unmentioned(task[p], queue[p], jobs[p], n) /\ n # None => Unmentioned(v, u, jobs[p], n)
  <2>1. SUFFICES ASSUME NEW n, Unmentioned(task[p], queue[p], jobs[p], n), n # None
                 PROVE  Unmentioned(v, u, jobs[p], n)
    OBVIOUS
  <2>2. t.child # n /\ t.del # n /\ \A l \in DOMAIN u : u[l][2] # n
    <3>1. CASE t = task[p] /\ u = queue[p]
      BY <2>1, <3>1 DEF Unmentioned
    <3>2. ASSUME NEW i \in DOMAIN queue[p], u = RemoveAt(queue[p], i),
                 t = [Idle EXCEPT !.kind = queue[p][i][1], !.child = queue[p][i][2],
                                  !.new = queue[p][i][3]]
          PROVE  t.child # n /\ t.del # n /\ \A l \in DOMAIN u : u[l][2] # n
      <4>1. t.child = queue[p][i][2] /\ t.del = None
        BY <3>2 DEF Idle
      <4>2. PICK g, x : g = queue[p] /\ x = task[p]
        OBVIOUS
      <4>3. \A l \in DOMAIN u : \E j \in DOMAIN g : u[l] = g[j]
        BY <1>3, <3>2, <4>2, Dequeued
      <4> QED
        BY <2>1, <4>1, <4>2, <4>3 DEF Unmentioned
    <3> QED
      BY <1>2, <3>1, <3>2 DEF Starts
  <2> QED
    BY <1>4, <2>1, <2>2 DEF Unmentioned
<1>12. Shared(s, v, b, r)
  <2>1. \A c \in Sas : Working(r, c) => Working(o, c)
    BY <1>0, <1>3, <1>5, <1>7, <1>8 DEF Agreed, Shared, Deleting, OkIn
  <2> QED
    BY <1>4, <1>5, <2>1 DEF Shared
<1>13. Dropped(v, b, r) /\ Missed(v, b) /\ Offered(scene, v, y, b, r, z, queue[q], jobs[q])
  BY <1>8 DEF Dropped, Missed, Offered, OkIn
<1>14. Shared(r, z, y, s) /\ Dropped(z, y, s) /\ Missed(z, y)
  <2>1. Shared(r, z, a, o) /\ Dropped(z, a, o) /\ Missed(z, a)
    BY <1>1, <1>3, <1>5 DEF Agreed
  <2>2. Shared(r, z, y, s)
    BY <1>4, <1>5, <1>10, <2>1 DEF Shared
  <2>3. Dropped(z, y, s)
    BY <1>4, <1>5, <1>9, <2>1 DEF Dropped
  <2>4. Missed(z, y)
    BY <1>9, <2>1 DEF Missed
  <2> QED
    BY <2>2, <2>3, <2>4
<1>15. Offered(scene, z, b, y, s, v, u, jobs[p])
  <2>1. SUFFICES ASSUME OkIn(a)
                 PROVE  /\ Working(s, z.new) \/ Deleting(v, z.new)
                        /\ ~scene.early => Unmentioned(v, u, jobs[p], z.new)
                        /\ scene.ordered => InOrder(y, z.new) /\ Unanswered(b, z.new)
    BY <1>10 DEF Offered
  <2>2. /\ Working(o, z.new) \/ Deleting(task[p], z.new)
        /\ ~scene.early => Unmentioned(task[p], queue[p], jobs[p], z.new)
        /\ scene.ordered => InOrder(a, z.new)
    BY <1>1, <1>3, <1>5, <2>1 DEF Agreed, Offered
  <2>3. z.new \in Sas
    BY <1>0, <1>1, <1>5, <2>1, OkFacts
  <2>4. Working(s, z.new) \/ Deleting(v, z.new)
    BY <1>4, <1>5, <1>7, <2>2, <2>3 DEF Deleting
  <2>5. ~scene.early => Unmentioned(v, u, jobs[p], z.new)
    BY <1>11, <2>2, <2>3, SasFacts
  <2>6. InOrder(a, z.new) => InOrder(y, z.new)
    BY <1>9 DEF InOrder
  <2>7. Unanswered(b, z.new)
    BY <1>8 DEF Unanswered
  <2> QED
    BY <2>2, <2>4, <2>5, <2>6, <2>7
<1>16. Agreed(p)'
  BY <1>0, <1>2, <1>5, <1>6, <1>12, <1>13 DEF Agreed
<1>17. Agreed(q)'
  BY <1>1, <1>2, <1>5, <1>6, <1>14, <1>15 DEF Agreed
<1> QED
  BY <1>1, <1>2, <1>3, <1>5, <1>6, <1>7, <1>16, <1>17 DEF Agreement

LEMMA RequestChild ==
    ASSUME NEW t \in TaskRec, ~t.failed
    PROVE  RequestOf(t).child \in {None, t.child, t.del}
BY DEF RequestOf, Request

\* The messages y are the responses among the messages b.
OnlyReplies(y, b) ==
    /\ Asked(y) = {}
    /\ \A k \in Replies(y) : \E l \in Replies(b) : y[k] = b[l]
    /\ OkIn(b) <=> OkIn(y)

LEMMA RequestTaken ==
    ASSUME NEW b \in Seq(Messages), NEW i \in Asked(b), \A j \in Asked(b) : j = i
    PROVE  OnlyReplies(RemoveAt(b, i), b)
<1> PICK y : y = RemoveAt(b, i)
  OBVIOUS
<1>1. i \in DOMAIN b
  BY DEF Asked
<1>2. Shorter(y, b, i)
  BY <1>1, RemoveAir
<1>3. Asked(y) = {}
  BY <1>2 DEF Shorter
<1>4. \A k \in Replies(y) : \E l \in Replies(b) : y[k] = b[l]
  BY <1>2 DEF Shorter
<1>5. ASSUME NEW l \in Replies(b), b[l].type = "OK" PROVE OkIn(y)
  <2>1. l \in DOMAIN b /\ l # i
    BY <1>5 DEF Asked, Replies
  <2>2. PICK k \in DOMAIN y : y[k] = b[l]
    BY <1>1, <2>1, RemainsFacts
  <2> QED
    BY <1>5, <2>2 DEF OkIn, Replies
<1> QED
  BY <1>3, <1>4, <1>5 DEF OkIn, OnlyReplies

LEMMA RespondingAgreed ==
    ASSUME RekeyInv, Tame, Agreement, NEW p \in Peers, Responding(p)
    PROVE  Agreement'
<1> PICK i, e, s, v, w : \E made \in SaNumbers :
        Handles(p, i, e, s, v, w, made) /\ Affects(p, i, e, s, v, made)
  BY DEF Responding
<1> PICK made \in SaNumbers : Handles(p, i, e, s, v, w, made) /\ Affects(p, i, e, s, v, made)
  OBVIOUS
<1>0. PICK q : q = Other(p)
  OBVIOUS
<1>1. q \in Peers /\ q # p /\ Other(q) = p /\ \A x \in Peers : x = p \/ x = q
  BY <1>0, PeersFacts
<1>2. PICK t, z, o, r, a, b : /\ t = task[p] /\ z = task[q] /\ o = sa[p] /\ r = sa[q]
                              /\ a = air[p] /\ b = air[q]
  OBVIOUS
<1>3. PICK m, h : m = b[i] /\ h = Response(e, m)
  OBVIOUS
<1>4. /\ i \in Asked(b) /\ e \in AnswersTo(m.type)
      /\ air' = [air EXCEPT ![q] = RemoveAt(b, i), ![p] = Append(a, h)]
      /\ sa' = [sa EXCEPT ![p] = s] /\ task' = [task EXCEPT ![p] = v]
      /\ jobs' = [jobs EXCEPT ![p] = w] /\ UNCHANGED <<queue, nonce, scene>>
  BY <1>0, <1>1, <1>2, <1>3 DEF Handles
<1>5. /\ v.sent = t.sent /\ v.child = t.child /\ v.new = t.new
      /\ v.failed = t.failed /\ v.del = t.del /\ w \in SUBSET JobSet
      /\ \A j \in w : j \in jobs[p] \/ o[j[2]].state # "NONE"
      /\ made \in Sas => e = "OK" /\ made = m.new
  BY <1>0, <1>2, <1>3 DEF Handles
<1>6. /\ scene.ordered => i = 1
      /\ left'.failures = left.failures
      /\ t.coll = "DELETE" => v.coll = "DELETE"
      /\ \A d \in Sas : Working(s, d) => Working(o, d) \/ d = made
      /\ \A d \in Sas : Working(o, d) => Working(s, d) \/ (m.type = "DELETE" /\ d = m.child)
      /\ m.type = "DELETE" => ~Working(s, m.child)
      /\ e = "OK" => made = m.new /\ Working(s, made)
      /\ e = "NOT_FOUND" => ~Working(o, m.child) /\ ~Deleting(t, m.child)
  BY <1>0, <1>2, <1>3 DEF Affects
<1>7. /\ sa \in [Peers -> SaMaps] /\ task \in [Peers -> TaskRec] /\ jobs \in [Peers -> SUBSET JobSet]
      /\ air \in [Peers -> Seq(Messages)] /\ a \in Seq(Messages) /\ b \in Seq(Messages)
      /\ t \in TaskRec /\ z \in TaskRec /\ TaskOk(t) /\ TaskOk(z) /\ Informed(r, z)
      /\ Exchanging(t, a, b) /\ Exchanging(z, b, a)
  BY <1>0, <1>1, <1>2 DEF RekeyInv, LooseType, LocalOk
<1>8. /\ left.failures = 0 /\ ~t.failed /\ ~z.failed
      /\ Shared(o, t, b, r) /\ Dropped(t, b, r) /\ Missed(t, b)
      /\ Offered(scene, t, a, b, r, z, queue[q], jobs[q])
      /\ Shared(r, z, a, o)
  BY <1>0, <1>1, <1>2 DEF Agreement, Agreed
<1>9. /\ m \in Messages /\ i \in DOMAIN b /\ Replies(a) = {} /\ z.sent
      /\ m.type = RequestOf(z).type /\ m.child = RequestOf(z).child /\ m.new = RequestOf(z).new
  BY <1>0, <1>2, <1>3, <1>4, AskedFacts DEF Matches
<1>10. PICK x, y : x = Append(a, h) /\ y = RemoveAt(b, i)
  OBVIOUS
<1>11. /\ sa'[p] = s /\ task'[p] = v /\ queue'[p] = queue[p] /\ jobs'[p] = w /\ air'[p] = x
       /\ sa'[q] = r /\ task'[q] = z /\ queue'[q] = queue[q] /\ jobs'[q] = jobs[q] /\ air'[q] = y
  BY <1>1, <1>2, <1>4, <1>7, <1>10
<1>12. /\ m.type \in {"REKEY", "CREATE", "DELETE", "EMPTY"}
       /\ m.type \in {"REKEY", "CREATE"} => z.del = None /\ m.new = z.new /\ m.child = z.child
       /\ m.type = "REKEY" => z.kind = "REKEY" /\ m.child \in Sas
       /\ m.type = "DELETE" => z.del = m.child /\ m.child \in Sas
       /\ m.type = "EMPTY" => z.del = None
  <2>1. /\ m.type \in {"REKEY", "CREATE", "DELETE", "EMPTY"}
        /\ m.type \in {"REKEY", "CREATE"} =>
             z.del = None /\ m.new = z.new /\ m.child = z.child /\ z.kind = m.type
        /\ m.type = "REKEY" => m.child \in Sas
        /\ m.type = "DELETE" => z.del = m.child /\ m.child \in Sas
    BY <1>7, <1>8, <1>9, RequestKinds
  <2>2. m.type = "EMPTY" => z.kind = "EMPTY"
    BY <1>9 DEF RequestOf, Request
  <2> QED
    BY <1>7, <2>1, <2>2 DEF TaskOk
<1>13. /\ e = "OK" => m.type \in {"REKEY", "CREATE"}
       /\ e = "NOT_FOUND" => m.type = "REKEY"
  BY <1>4, <1>12 DEF AnswersTo
<1>14. h \in Messages /\ ~h.req /\ h.type = e /\ h.child = m.child
  BY <1>3, <1>4, <1>9, ResponseFacts
<1>15. PICK l : l = Len(a) + 1
  OBVIOUS
<1>16. /\ Replies(x) = {l} /\ x[l] = h /\ Asked(x) = Asked(a)
       /\ \A k \in Asked(a) : x[k] = a[k]
  <2>1. Longer(x, a, h)
    BY <1>7, <1>10, <1>14, AppendAir
  <2>2. Replies(x) = Replies(a) \cup {l} /\ x[l] = h /\ Asked(x) = Asked(a)
    BY <1>14, <1>15, <2>1 DEF Longer
  <2>3. \A k \in Asked(a) : x[k] = a[k]
    BY <2>1 DEF Longer, Asked
  <2> QED
    BY <1>9, <2>2, <2>3
<1>17. /\ Asked(y) = {} /\ \A k \in Replies(y) : \E j \in Replies(b) : y[k] = b[j]
       /\ OkIn(b) <=> OkIn(y)
  <2>1. \A j \in Asked(b) : j = i
    BY <1>4, <1>7 DEF Exchanging
  <2>2. OnlyReplies(y, b)
    BY <1>4, <1>7, <1>10, <2>1, RequestTaken
  <2> QED
    BY <2>2 DEF OnlyReplies
<1>18. OkIn(x) <=> e = "OK"
  BY <1>14, <1>16 DEF OkIn
<1>19. OkIn(b) /\ scene.ordered => m.child # t.new
  <2>1. SUFFICES ASSUME OkIn(b), scene.ordered, m.child = t.new PROVE FALSE
    OBVIOUS
  <2>2. InOrder(b, t.new) /\ i = 1
    BY <1>6, <1>8, <2>1 DEF Offered
  <2>3. PICK k \in Replies(b) : b[k].type = "OK"
    BY <2>1 DEF OkIn
  <2>4. k < 1
    BY <1>3, <1>4, <2>1, <2>2, <2>3 DEF InOrder
  <2>5. k \in 1..Len(b)
    BY <1>7, <2>3 DEF Replies
  <2> QED
    BY <1>7, <2>4, <2>5
<1>20. Shared(s, v, y, r)
  <2>1. SUFFICES ASSUME NEW c \in Sas, Working(r, c)
                 PROVE  Working(s, c) \/ Deleting(v, c) \/ (OkIn(y) /\ v.new = c)
    BY DEF Shared
  <2>2. Working(o, c) \/ Deleting(t, c) \/ (OkIn(b) /\ t.new = c)
    BY <1>8, <2>1 DEF Shared
  <2>3. ~(m.type = "DELETE" /\ c = m.child)
    BY <1>7, <1>9, <1>12, <2>1, SasFacts DEF Informed, Working
  <2> QED
    BY <1>5, <1>6, <1>17, <2>2, <2>3 DEF Deleting
<1>21. Dropped(v, y, r)
  BY <1>5, <1>8, <1>17 DEF Dropped, Deleting
<1>22. Offered(scene, v, x, y, r, z, queue[q], jobs[q])
  <2>1. SUFFICES ASSUME OkIn(b)
                 PROVE  /\ Working(r, t.new) \/ Deleting(z, t.new)
                        /\ ~scene.early => Unmentioned(z, queue[q], jobs[q], t.new)
                        /\ scene.ordered => InOrder(y, t.new) /\ Unanswered(x, t.new)
    BY <1>5, <1>17 DEF Offered
  <2>2. InOrder(y, t.new)
    BY <1>17 DEF InOrder
  <2>3. scene.ordered => Unanswered(x, t.new)
    BY <1>14, <1>16, <1>19, <2>1 DEF Unanswered
  <2> QED
    BY <1>8, <2>1, <2>2, <2>3 DEF Offered
<1>23. Missed(v, y)
  BY <1>6, <1>8, <1>17 DEF Missed
<1>24. Shared(r, z, x, s)
  <2>1. SUFFICES ASSUME NEW c \in Sas, Working(s, c)
                 PROVE  Working(r, c) \/ Deleting(z, c) \/ (OkIn(x) /\ z.new = c)
    BY DEF Shared
  <2>2. CASE Working(o, c)
    BY <1>8, <1>9, <2>2 DEF Shared, OkIn
  <2>3. CASE c = made
    BY <1>5, <1>12, <1>13, <1>18, <2>3
  <2> QED
    BY <1>6, <2>1, <2>2, <2>3
<1>25. Dropped(z, x, s)
  BY <1>6, <1>12, SasFacts DEF Dropped, Deleting
<1>26. Offered(scene, z, y, x, s, v, queue[p], w)
  <2>0. PICK n : n = z.new
    OBVIOUS
  <2>1. SUFFICES ASSUME e = "OK"
                 PROVE  /\ Working(s, n)
                        /\ Unmentioned(v, queue[p], w, n)
                        /\ InOrder(x, n) /\ Unanswered(y, n)
    BY <1>18, <2>0 DEF Offered
  <2>2. m.type \in {"REKEY", "CREATE"} /\ n = m.new /\ n = made
    BY <1>6, <1>12, <1>13, <2>0, <2>1
  <2>3. Unused(p, n) /\ n \in Sas
    <3>1. /\ i \in Asked(air[q]) /\ air[q][i].type \in {"REKEY", "CREATE"}
          /\ n = air[q][i].new
      BY <1>2, <1>3, <1>4, <2>2
    <3> QED
      BY <1>0, <3>1, AskedUnused
  <2>4. o[n].state = "NONE" /\ Unmentioned(t, queue[p], jobs[p], n)
    BY <1>2, <2>3 DEF Unused
  <2>5. Unmentioned(v, queue[p], w, n)
    BY <1>5, <2>4 DEF Unmentioned
  <2>6. RequestOf(t).child # n
    <3>1. RequestOf(t).child \in {None, t.child, t.del}
      BY <1>7, <1>8, RequestChild
    <3> QED
      BY <2>3, <2>4, <3>1, SasFacts DEF Unmentioned
  <2>7. InOrder(x, n)
    <3>1. \A k \in Asked(x) : x[k].child = RequestOf(t).child
      BY <1>7, <1>16 DEF Exchanging, Matches
    <3> QED
      BY <2>6, <3>1 DEF InOrder
  <2>8. Unanswered(y, n)
    BY <1>7, <1>17, <2>6 DEF Unanswered, Exchanging, Matches
  <2> QED
    BY <1>6, <2>1, <2>2, <2>5, <2>7, <2>8
<1>27. Missed(z, x)
  <2>1. SUFFICES ASSUME e = "NOT_FOUND", z.coll # "DELETE" PROVE FALSE
    BY <1>14, <1>16 DEF Missed
  <2>2. PICK c \in Sas : c = m.child /\ c = z.child /\ z.kind = "REKEY" /\ z.del = None
    BY <1>12, <1>13, <2>1
  <2>3. Working(r, c)
    BY <1>7, <1>9, <2>1, <2>2 DEF Informed, Working
  <2>4. OkIn(b) /\ t.new = c
    BY <1>6, <1>8, <2>1, <2>2, <2>3 DEF Shared
  <2>5. ~scene.early
    BY <1>19, <2>2, <2>4 DEF Tame, Overtaking
  <2> QED
    BY <1>8, <2>2, <2>4, <2>5 DEF Offered, Unmentioned
<1>28. Agreed(p)'
  BY <1>0, <1>4, <1>11, <1>20, <1>21, <1>22, <1>23 DEF Agreed
<1>29. Agreed(q)'
  BY <1>1, <1>4, <1>11, <1>24, <1>25, <1>26, <1>27 DEF Agreed
<1> QED
  BY <1>1, <1>5, <1>6, <1>8, <1>11, <1>28, <1>29 DEF Agreement

\* The request of a task that deletes names what it deletes.
LEMMA DeletionAsked ==
    ASSUME NEW t \in TaskRec, TaskOk(t), NEW c \in Sas, t.del = c
    PROVE  RequestOf(t).child = c
<1>1. t.kind # "EMPTY"
  BY SasFacts DEF TaskOk
<1> QED
  BY <1>1, SasFacts DEF RequestOf, Request

LEMMA TaughtAgreed ==
    ASSUME RekeyInv, Tame, Agreement, NEW p \in Peers, Taught(p)
    PROVE  Agreement'
<1> PICK i, s, v, u, w : \E made \in SaNumbers :
        Receives(p, i, s, v, u, w, made) /\ Learns(p, i, s, v, made)
  BY DEF Taught
<1> PICK made \in SaNumbers : Receives(p, i, s, v, u, w, made) /\ Learns(p, i, s, v, made)
  OBVIOUS
<1>0. PICK q : q = Other(p)
  OBVIOUS
<1>1. q \in Peers /\ q # p /\ Other(q) = p /\ \A x \in Peers : x = p \/ x = q
  BY <1>0, PeersFacts
<1>2. PICK t, z, o, r, a, b : /\ t = task[p] /\ z = task[q] /\ o = sa[p] /\ r = sa[q]
                              /\ a = air[p] /\ b = air[q]
  OBVIOUS
<1>3. PICK m, y, e, g : /\ m = b[i] /\ y = RemoveAt(b, i) /\ e = <<"CREATE", None, t.new>>
                        /\ g = queue[p]
  OBVIOUS
<1>4. /\ i \in Replies(b) /\ air' = [air EXCEPT ![q] = y]
      /\ sa' = [sa EXCEPT ![p] = s] /\ task' = [task EXCEPT ![p] = v]
      /\ queue' = [queue EXCEPT ![p] = u] /\ jobs' = [jobs EXCEPT ![p] = w]
      /\ UNCHANGED <<nonce, scene>>
  BY <1>0, <1>1, <1>2, <1>3 DEF Receives
<1>5. /\ v.child \in {None, t.child} /\ v.del \in {None, t.child, made}
      /\ u = g \/ u = Append(g, e)
      /\ u # g => t.new \in Sas
      /\ \A j \in w : j \in jobs[p] \/ j[2] \in {t.child, t.del}
      /\ made \in Sas => made = t.new
  BY <1>0, <1>2, <1>3 DEF Receives
<1>6. /\ left.failures = 0 => /\ left'.failures = 0 /\ (v.failed => t.failed)
                              /\ m.type = "OK" => made = t.new
      /\ m.type # "NOT_FOUND" \/ t.coll = "DELETE" =>
            \A d \in Sas : d # made => (Working(s, d) <=> Working(o, d))
      /\ made \in Sas => m.type = "OK" /\ Working(s, made)
  BY <1>0, <1>2, <1>3 DEF Learns
<1>7. /\ sa \in [Peers -> SaMaps] /\ task \in [Peers -> TaskRec] /\ jobs \in [Peers -> SUBSET JobSet]
      /\ queue \in [Peers -> Seq(Entries)] /\ g \in Seq(Entries)
      /\ air \in [Peers -> Seq(Messages)] /\ a \in Seq(Messages) /\ b \in Seq(Messages)
      /\ t \in TaskRec /\ z \in TaskRec /\ TaskOk(t) /\ TaskOk(z)
      /\ Exchanging(t, a, b) /\ Exchanging(z, b, a)
  BY <1>0, <1>1, <1>2, <1>3 DEF RekeyInv, LooseType, LocalOk
<1>8. /\ left.failures = 0 /\ ~t.failed /\ ~z.failed
      /\ Shared(o, t, b, r) /\ Dropped(t, b, r) /\ Missed(t, b)
      /\ Offered(scene, t, a, b, r, z, queue[q], jobs[q])
  BY <1>0, <1>1, <1>2 DEF Agreement, Agreed
<1>9. /\ Shared(r, z, a, o) /\ Dropped(z, a, o) /\ Missed(z, a)
      /\ Offered(scene, z, b, a, o, t, g, jobs[p])
  BY <1>0, <1>1, <1>2, <1>3 DEF Agreement, Agreed
<1>10. /\ i \in DOMAIN b /\ Matches(m, t) /\ \A j \in Replies(b) : j = i
  BY <1>3, <1>4, <1>7 DEF Exchanging, Replies
<1>11. /\ sa'[p] = s /\ task'[p] = v /\ queue'[p] = u /\ jobs'[p] = w /\ air'[p] = a
       /\ sa'[q] = r /\ task'[q] = z /\ queue'[q] = queue[q] /\ jobs'[q] = jobs[q] /\ air'[q] = y
  BY <1>1, <1>2, <1>4, <1>7
<1>12. Replies(y) = {}
  <2>1. Shorter(y, b, i)
    BY <1>3, <1>7, <1>10, RemoveAir
  <2> QED
    BY <1>10, <2>1 DEF Shorter
<1>13. OkIn(b) <=> m.type = "OK"
  BY <1>3, <1>4, <1>10 DEF OkIn
<1>14. \A d \in Sas : d # made => (Working(s, d) <=> Working(o, d))
  BY <1>3, <1>4, <1>6, <1>8 DEF Missed
<1>15. OkIn(b) => made = t.new /\ t.new \in Sas
  BY <1>0, <1>2, <1>6, <1>8, <1>13, OkFacts
<1>16. made \in Sas => OkIn(b)
  BY <1>6, <1>13
<1>17. Shared(s, v, y, r)
  <2>1. SUFFICES ASSUME NEW c \in Sas, Working(r, c) PROVE Working(s, c)
    BY DEF Shared
  <2>2. CASE c = made
    BY <1>6, <2>2
  <2>3. CASE Working(o, c)
    BY <1>14, <2>2, <2>3
  <2>4. CASE OkIn(b) /\ t.new = c
    BY <1>15, <2>2, <2>4
  <2>5. ~Deleting(t, c)
    BY <1>4, <1>8, <2>1 DEF Dropped
  <2> QED
    BY <1>8, <2>1, <2>3, <2>4, <2>5 DEF Shared
<1>18. Dropped(v, y, r) /\ Missed(v, y) /\ Offered(scene, v, a, y, r, z, queue[q], jobs[q])
  BY <1>12 DEF Dropped, Missed, Offered, OkIn
<1>19. Shared(r, z, a, s)
  <2>1. SUFFICES ASSUME NEW c \in Sas, Working(s, c)
                 PROVE  Working(r, c) \/ Deleting(z, c) \/ (OkIn(a) /\ z.new = c)
    BY DEF Shared
  <2>2. CASE c = made
    BY <1>5, <1>8, <1>16, <2>2 DEF Offered
  <2>3. CASE c # made
    BY <1>9, <1>14, <2>1, <2>3 DEF Shared
  <2> QED
    BY <2>2, <2>3
<1>20. Dropped(z, a, s)
  <2>1. SUFFICES ASSUME NEW c \in Sas, NEW j \in Replies(a), Deleting(z, c) PROVE ~Working(s, c)
    BY DEF Dropped
  <2>2. ~Working(o, c)
    BY <1>9, <2>1 DEF Dropped
  <2>3. CASE c # made
    BY <1>14, <2>2, <2>3
  <2>4. ASSUME c = made PROVE FALSE
    <3>1. OkIn(b) /\ t.new = c /\ z.del = c
      BY <1>5, <1>16, <2>1, <2>4 DEF Deleting
    <3>2. a[j].child = RequestOf(z).child
      BY <1>7, <2>1 DEF Exchanging, Matches
    <3>3. a[j].child = c
      BY <1>7, <3>1, <3>2, DeletionAsked
    <3>4. ~scene.ordered
      BY <1>8, <2>1, <3>1, <3>3 DEF Offered, Unanswered
    <3>5. ~scene.early
      BY <3>4 DEF Tame, Overtaking
    <3> QED
      BY <1>8, <3>1, <3>5 DEF Offered, Unmentioned
  <2> QED
    BY <2>3, <2>4
<1>21. Offered(scene, z, y, a, s, v, u, w)
  <2>0. PICK n : n = z.new
    OBVIOUS
  <2>1. SUFFICES ASSUME OkIn(a)
                 PROVE  /\ Working(s, n)
                        /\ ~scene.early => Unmentioned(v, u, w, n)
                        /\ scene.ordered => InOrder(a, n) /\ Unanswered(y, n)
    BY <2>0 DEF Offered
  <2>2. /\ Working(o, n) \/ Deleting(t, n)
        /\ ~scene.early => Unmentioned(t, g, jobs[p], n)
        /\ scene.ordered => InOrder(a, n) /\ Unanswered(b, n)
    BY <1>9, <2>0, <2>1 DEF Offered
  <2>3. n \in Sas /\ ~Holds(p, n)
    BY <1>1, <1>2, <2>0, <2>1, OkFacts
  <2>4. t.new # n /\ made # n
    BY <1>2, <1>5, <2>3 DEF Holds
  <2>5. ~Deleting(t, n)
    <3>1. SUFFICES ASSUME Deleting(t, n) PROVE FALSE
      OBVIOUS
    <3>2. t.del = n
      BY <3>1 DEF Deleting
    <3>3. m.child = n
      BY <1>7, <1>10, <2>3, <3>2, DeletionAsked DEF Matches
    <3>4. ~scene.ordered
      BY <1>3, <1>4, <2>2, <3>3 DEF Unanswered
    <3>5. ~scene.early
      BY <3>4 DEF Tame, Overtaking
    <3> QED
      BY <2>2, <3>2, <3>5 DEF Unmentioned
  <2>6. Working(s, n)
    BY <1>14, <2>2, <2>3, <2>4, <2>5
  <2>7. ~scene.early => Unmentioned(v, u, w, n)
    <3>1. SUFFICES ASSUME Unmentioned(t, g, jobs[p], n) PROVE Unmentioned(v, u, w, n)
      BY <2>2
    <3>2. v.child # n /\ v.del # n
      BY <1>5, <2>3, <2>4, <3>1, SasFacts DEF Unmentioned
    <3>3. \A j \in w : j[2] # n
      BY <1>5, <3>1 DEF Unmentioned
    <3>4. \A k \in DOMAIN u : u[k][2] # n
      <4>1. CASE u = g
        BY <3>1, <4>1 DEF Unmentioned
      <4>2. CASE u # g
        <5>1. e \in Entries /\ e[2] = None /\ u = Append(g, e)
          BY <1>3, <1>5, <4>2, SasFacts DEF Entries, Kinds
        <5>2. /\ DOMAIN u = DOMAIN g \cup {Len(g) + 1}
              /\ u[Len(g) + 1] = e /\ \A k \in DOMAIN g : u[k] = g[k]
          BY <1>7, <5>1, AppendFacts
        <5> QED
          BY <2>3, <3>1, <5>1, <5>2, SasFacts DEF Unmentioned
      <4> QED
        BY <4>1, <4>2
    <3> QED
      BY <3>2, <3>3, <3>4 DEF Unmentioned
  <2>8. Unanswered(y, n)
    BY <1>12 DEF Unanswered
  <2> QED
    BY <2>2, <2>6, <2>7, <2>8
<1>22. Agreed(p)'
  BY <1>0, <1>4, <1>11, <1>17, <1>18 DEF Agreed
<1>23. Agreed(q)'
  BY <1>1, <1>4, <1>9, <1>11, <1>19, <1>20, <1>21 DEF Agreed
<1> QED
  BY <1>1, <1>6, <1>8, <1>11, <1>22, <1>23 DEF Agreement

LEMMA InitAgreement == Init => Agreement
<1>1. SUFFICES ASSUME Init, Tame PROVE left.failures = 0 /\ \A p \in Peers : ~task[p].failed /\ Agreed(p)
  BY DEF Agreement
<1>2. left.failures = 0
  BY <1>1 DEF Init, Tame
<1>3. ASSUME NEW p \in Peers PROVE ~task[p].failed /\ Agreed(p)
  <2>1. PICK q \in Peers : q = Other(p)
    BY PeersFacts
  <2>2. sa[p] = sa[q] /\ air[q] = <<>> /\ task[p] = Idle
    BY <1>1, <2>1 DEF Init
  <2>3. DOMAIN <<>> = {}
    OBVIOUS
  <2>4. Replies(air[q]) = {}
    BY <2>2, <2>3 DEF Replies
  <2>5. ~task[p].failed
    BY <2>2, IdleFacts
  <2>6. Agreed(p)
    BY <2>1, <2>2, <2>4 DEF Agreed, Shared, Dropped, Offered, Missed, OkIn
  <2> QED
    BY <2>5, <2>6
<1> QED
  BY <1>2, <1>3

LEMMA AgreementNext == RekeyInv /\ Agreement /\ [Next]_vars => Agreement'
<1>1. SUFFICES ASSUME RekeyInv, Agreement, [Next]_vars PROVE Agreement'
  OBVIOUS
<1>2. ASSUME UNCHANGED vars PROVE Agreement'
  BY <1>1, <1>2 DEF vars, Agreement, Tame, Overtaking, Agreed
<1>3. ASSUME Next PROVE Agreement'
  <2>1. PICK p \in Peers : Acts(p)
    BY <1>1, <1>3, NextActs
  <2>2. scene' = scene
    BY <1>1, <2>1, ActsGood DEF GoodStep, Moves
  <2>3. CASE ~Tame
    BY <2>2, <2>3 DEF Agreement, Tame, Overtaking
  <2>4. CASE Tame
    BY <1>1, <2>1, <2>4, QueueingAgreed, StartingAgreed, RespondingAgreed, TaughtAgreed DEF Acts
  <2> QED
    BY <2>3, <2>4
<1> QED
  BY <1>1, <1>2, <1>3

LEMMA AgreementSound == RekeyInv /\ Agreement => NotFoundExplained
<1>1. SUFFICES ASSUME RekeyInv, Agreement, Tame, NEW p \in Peers, NEW i \in DOMAIN air[p],
                      air[p][i].type = "NOT_FOUND"
               PROVE  task[Other(p)].coll = "DELETE"
  BY DEF NotFoundExplained, Tame
<1>2. PICK q \in Peers : q = Other(p) /\ Other(q) = p
  BY PeersFacts
<1>3. ASSUME air[p][i].req PROVE FALSE
  <2>1. i \in Asked(air[p])
    BY <1>1, <1>3 DEF Asked
  <2>2. Matches(air[p][i], task[p]) /\ air[p][i].type = RequestOf(task[p]).type
    BY <1>1, <1>2, <2>1, AskedFacts
  <2>3. task[p] \in TaskRec /\ TaskOk(task[p]) /\ task[p].sent
    BY <1>1, <2>2, LocalFacts DEF Matches
  <2>4. RequestOf(task[p]).type \in {"REKEY", "CREATE", "DELETE", "EMPTY"}
    BY <2>3, RequestKinds
  <2> QED
    BY <1>1, <2>2, <2>4
<1>4. i \in Replies(air[p])
  BY <1>1, <1>3 DEF Replies
<1>5. Missed(task[q], air[p])
  BY <1>1, <1>2 DEF Agreement, Agreed
<1> QED
  BY <1>1, <1>2, <1>4, <1>5 DEF Missed

\* A peer answers CHILD_SA_NOT_FOUND only to a rekeying of a CHILD_SA whose deletion
\* the asking peer has met, and which therefore ignores the answer, whatever is
\* rekeyed, deleted and refused, provided that messages keep their order or new
\* CHILD_SAs are left alone until both peers have them, and that every SA can be
\* installed (child_rekey.c: process_i, process_r, collide).
THEOREM NotFoundTheorem == Spec => []NotFoundExplained
<1>1. Init => RekeyInv /\ Agreement
  BY InitRekey, InitAgreement
<1>2. RekeyInv /\ Agreement /\ [Next]_vars => RekeyInv' /\ Agreement'
  BY RekeyNext, AgreementNext
<1>3. RekeyInv /\ Agreement => NotFoundExplained
  BY AgreementSound
<1> QED
  BY <1>1, <1>2, <1>3, PTL DEF Spec

=============================================================================
