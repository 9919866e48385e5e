-------------------------- MODULE ChildCourseProofs -------------------------
(***************************************************************************)
(* The course of rekeyings that collide, for any number of CHILD_SAs: if   *)
(* messages keep their order and no rekeying is refused, traffic is never  *)
(* interrupted, no CHILD_SA is reported as gone that was only replaced,    *)
(* and in the end the peers have the same CHILD_SAs.                       *)
(***************************************************************************)
EXTENDS ChildRekeyProofs, FiniteSetTheorems

-----------------------------------------------------------------------------
(* The course of the rekeyings, when every SA can be installed: what each     *)
(* peer's messages say, without their contents.                              *)

Wants(a) == Asked(a) # {}
Tells(a) == Replies(a) # {}
Told(a, type) == \E i \in Replies(a) : a[i].type = type

\* A request among the messages a arrives before a response.
AsksFirst(a) == \A i \in Replies(a), j \in Asked(a) : j < i

SameReplies(x, a) ==
    (Tells(x) <=> Tells(a)) /\ (OkIn(x) <=> OkIn(a)) /\ \A k : Told(x, k) <=> Told(a, k)

\* A request follows the messages a.
Sends(x, a) == Wants(x) /\ SameReplies(x, a) /\ (AsksFirst(x) <=> ~Tells(a))

\* A response of some type follows the messages a.
Replied(x, a, type) ==
    /\ ~Tells(a) /\ Tells(x) /\ (OkIn(x) <=> type = "OK") /\ (Wants(x) <=> Wants(a))
    /\ \A k : Told(x, k) <=> k = type
    /\ AsksFirst(x)

\* The request among the messages b is taken, or the response.
Served(y, b) == Wants(b) /\ ~Wants(y) /\ SameReplies(y, b) /\ (scene.ordered => AsksFirst(b))
Read(y, b) ==
    /\ Tells(b) /\ ~Tells(y) /\ ~OkIn(y) /\ (\A k : ~Told(y, k)) /\ (Wants(y) <=> Wants(b))
    /\ scene.ordered => ~Wants(b) \/ ~AsksFirst(b)

LEMMA SendsFacts ==
    ASSUME NEW a \in Seq(Messages), NEW m \in Messages, m.req, Asked(a) = {}
    PROVE  Sends(Append(a, m), a)
<1> PICK x : x = Append(a, m)
  OBVIOUS
<1>1. Longer(x, a, m)
  BY AppendAir
<1>2. /\ Asked(x) = {Len(a) + 1} /\ Replies(x) = Replies(a)
      /\ \A k \in DOMAIN a : x[k] = a[k] /\ k < Len(a) + 1
  BY <1>1 DEF Longer
<1>3. \A k \in Replies(a) : k \in DOMAIN a /\ k \in Nat /\ x[k] = a[k] /\ k < Len(a) + 1
  BY <1>2 DEF Replies
<1>4. Len(a) + 1 \in Nat
  OBVIOUS
<1>5. SameReplies(x, a)
  BY <1>2, <1>3 DEF SameReplies, Tells, OkIn, Told
<1>6. AsksFirst(x) <=> ~Tells(a)
  BY <1>2, <1>3, <1>4 DEF AsksFirst, Tells
<1> QED
  BY <1>2, <1>5, <1>6 DEF Sends, Wants

LEMMA ReplyFacts ==
    ASSUME NEW a \in Seq(Messages), NEW m \in Messages, ~m.req, Replies(a) = {}
    PROVE  Replied(Append(a, m), a, m.type)
<1> PICK x : x = Append(a, m)
  OBVIOUS
<1>1. Longer(x, a, m)
  BY AppendAir
<1>2. /\ Asked(x) = Asked(a) /\ Replies(x) = {Len(a) + 1} /\ x[Len(a) + 1] = m
      /\ \A k \in DOMAIN a : x[k] = a[k] /\ k < Len(a) + 1
  BY <1>1 DEF Longer
<1>3. \A k \in Asked(a) : k < Len(a) + 1
  BY <1>2 DEF Asked
<1>4. AsksFirst(x)
  BY <1>2, <1>3 DEF AsksFirst
<1> QED
  BY <1>2, <1>4 DEF Replied, Wants, Tells, Told, OkIn

LEMMA ServedFacts ==
    ASSUME NEW b \in Seq(Messages), NEW i \in Asked(b), \A j \in Asked(b) : j = i,
           scene.ordered => i = 1
    PROVE  Served(RemoveAt(b, i), b)
<1> PICK y : y = RemoveAt(b, i)
  OBVIOUS
<1>1. i \in DOMAIN b /\ DOMAIN b = 1..Len(b) /\ Len(b) \in Nat
  BY DEF Asked
<1>2. Shorter(y, b, i)
  BY <1>1, RemoveAir
<1>3. Asked(y) = {}
  BY <1>2 DEF Shorter
<1>4. \A k \in Replies(y) : \E l \in Replies(b) : y[k] = b[l]
  BY <1>2 DEF Shorter
<1>5. ASSUME NEW l \in Replies(b) PROVE \E k \in Replies(y) : y[k] = b[l]
  <2>1. l \in DOMAIN b /\ l # i /\ ~b[l].req
    BY <1>5 DEF Asked, Replies
  <2>2. PICK k \in DOMAIN y : y[k] = b[l]
    BY <1>1, <2>1, RemainsFacts
  <2> QED
    BY <2>1, <2>2 DEF Replies
<1>6. Tells(y) <=> Tells(b)
  BY <1>4, <1>5 DEF Tells
<1>7. OkIn(y) <=> OkIn(b)
  BY <1>4, <1>5 DEF OkIn
<1>8. \A k : Told(y, k) <=> Told(b, k)
  BY <1>4, <1>5 DEF Told
<1>9. ASSUME i = 1 PROVE AsksFirst(b)
  <2>1. ASSUME NEW k \in Replies(b) PROVE 1 < k
    <3>1. k \in DOMAIN b /\ k # i
      BY DEF Asked, Replies
    <3> QED
      BY <1>1, <1>9, <3>1
  <2> QED
    BY <1>9, <2>1 DEF AsksFirst
<1> QED
  BY <1>3, <1>6, <1>7, <1>8, <1>9 DEF Served, SameReplies, Wants

LEMMA ReadFacts ==
    ASSUME NEW b \in Seq(Messages), NEW i \in Replies(b), \A j \in Replies(b) : j = i,
           scene.ordered => i = 1
    PROVE  Read(RemoveAt(b, i), b)
<1> PICK y : y = RemoveAt(b, i)
  OBVIOUS
<1>1. i \in DOMAIN b /\ DOMAIN b = 1..Len(b) /\ Len(b) \in Nat
  BY DEF Replies
<1>2. Shorter(y, b, i)
  BY <1>1, RemoveAir
<1>3. Replies(y) = {}
  BY <1>2 DEF Shorter
<1>4. \A k \in Asked(y) : \E l \in Asked(b) : y[k] = b[l]
  BY <1>2 DEF Shorter
<1>5. ASSUME NEW l \in Asked(b) PROVE \E k \in Asked(y) : y[k] = b[l]
  <2>1. l \in DOMAIN b /\ l # i /\ b[l].req
    BY <1>5 DEF Asked, Replies
  <2>2. PICK k \in DOMAIN y : y[k] = b[l]
    BY <1>1, <2>1, RemainsFacts
  <2> QED
    BY <2>1, <2>2 DEF Asked
<1>6. Wants(y) <=> Wants(b)
  BY <1>4, <1>5 DEF Wants
<1>7. ASSUME i = 1, Wants(b) PROVE ~AsksFirst(b)
  <2>1. PICK j \in Asked(b) : TRUE
    BY <1>7 DEF Wants
  <2>2. j \in DOMAIN b
    BY DEF Asked
  <2>3. ~(j < i)
    BY <1>1, <1>7, <2>2
  <2> QED
    BY <2>3 DEF AsksFirst
<1> QED
  BY <1>3, <1>6, <1>7 DEF Read, Wants, Tells, OkIn, Told

\* The objects o of a peer after the end of the deletion of c; moved: its successor
\* takes over.
Ceases(s, o, c, moved) ==
    /\ s \in SaMaps
    /\ s[c] = NoSa \/ (s[c].state = "DELETING" /\ s[c].out = "NONE" /\ s[c].rekey = o[c].rekey)
    /\ \A d \in Sas : d # c =>
          /\ s[d].state = o[d].state /\ s[d].rekey = o[d].rekey
          /\ moved /\ d = o[c].rekey /\ o[d].state # "NONE" => s[d].out = "INSTALLED"
          /\ ~(moved /\ d = o[c].rekey /\ o[d].state # "NONE") => s[d].out = o[d].out

\* u is s with the outbound state k of c.
Outs(u, s, c, k) ==
    /\ u \in SaMaps /\ \A d \in Sas : d # c => u[d] = s[d]
    /\ u[c].state = s[c].state /\ u[c].rekey = s[c].rekey /\ u[c].out = k

LEMMA OutFacts ==
    ASSUME NEW s \in SaMaps, NEW c \in Sas
    PROVE  Outs(InstallOutbound(s, c), s, c, "INSTALLED") /\ Outs(RemoveOutbound(s, c), s, c, "NONE")
<1>1. ASSUME NEW k \in {"NONE", "INSTALLED"} PROVE Outs([s EXCEPT ![c].out = k], s, c, k)
  <2>1. s[c] \in SaRec
    BY DEF SaMaps
  <2>2. PICK e : e = [s[c] EXCEPT !.out = k]
    OBVIOUS
  <2>3. e \in SaRec /\ e.state = s[c].state /\ e.out = k /\ e.rekey = s[c].rekey
    BY <2>1, <2>2 DEF SaRec
  <2> QED
    BY <2>2, <2>3 DEF SaMaps, Outs
<1> QED
  BY <1>1 DEF InstallOutbound, RemoveOutbound

LEMMA SwitchOverFacts ==
    ASSUME NEW o \in SaMaps, NEW t, NEW c \in Sas, NEW i \in BOOLEAN, NEW moved \in BOOLEAN,
           moved <=> ~(i /\ IsRedundant(t, o[c].rekey)), NEW x, x = SwitchOver(o, t, c, i)
    PROVE  /\ x \in SaMaps
           /\ x[c].state = o[c].state /\ x[c].out = "NONE" /\ x[c].rekey = o[c].rekey
           /\ \A d \in Sas : d # c =>
                /\ x[d].state = o[d].state /\ x[d].rekey = o[d].rekey
                /\ moved /\ d = o[c].rekey /\ o[d].state # "NONE" => x[d].out = "INSTALLED"
                /\ ~(moved /\ d = o[c].rekey /\ o[d].state # "NONE") => x[d].out = o[d].out
<1>0. PICK r \in SaNumbers : r = o[c].rekey
  BY DEF SaMaps, SaRec
<1>1. PICK e : e = IF Exists(o, r) /\ moved THEN InstallOutbound(o, r) ELSE o
  OBVIOUS
<1>2. x = RemoveOutbound(e, c)
  BY <1>0, <1>1 DEF SwitchOver
<1>3. /\ e \in SaMaps
      /\ \A d \in Sas :
            /\ e[d].state = o[d].state /\ e[d].rekey = o[d].rekey
            /\ moved /\ d = r /\ o[d].state # "NONE" => e[d].out = "INSTALLED"
            /\ ~(moved /\ d = r /\ o[d].state # "NONE") => e[d].out = o[d].out
  <2>1. CASE Exists(o, r) /\ moved
    <3>1. r \in Sas /\ o[r].state # "NONE"
      BY <2>1, SasFacts DEF Exists
    <3>2. e = InstallOutbound(o, r)
      BY <1>1, <2>1
    <3>3. Outs(e, o, r, "INSTALLED")
      BY <3>1, <3>2, OutFacts
    <3> QED
      BY <2>1, <3>1, <3>3 DEF Outs
  <2>2. CASE ~(Exists(o, r) /\ moved)
    <3>1. e = o
      BY <1>1, <2>2
    <3>2. \A d \in Sas : ~(moved /\ d = r /\ o[d].state # "NONE")
      BY <2>2, SasFacts DEF Exists
    <3> QED
      BY <3>1, <3>2
  <2> QED
    BY <2>1, <2>2
<1>4. Outs(x, e, c, "NONE")
  BY <1>2, <1>3, OutFacts
<1>5. /\ x \in SaMaps /\ \A d \in Sas : d # c => x[d] = e[d]
      /\ x[c].state = e[c].state /\ x[c].rekey = e[c].rekey /\ x[c].out = "NONE"
  BY <1>4 DEF Outs
<1>6. x[c].state = o[c].state /\ x[c].rekey = o[c].rekey
  BY <1>3, <1>5
<1>7. ASSUME NEW d \in Sas, d # c
      PROVE  /\ x[d].state = o[d].state /\ x[d].rekey = o[d].rekey
             /\ moved /\ d = r /\ o[d].state # "NONE" => x[d].out = "INSTALLED"
             /\ ~(moved /\ d = r /\ o[d].state # "NONE") => x[d].out = o[d].out
  <2>1. x[d] = e[d]
    BY <1>5, <1>7
  <2> QED
    BY <1>3, <2>1
<1> QED
  BY <1>0, <1>5, <1>6, <1>7

\* What the end of the deletion of c does to p, whose objects are o by now.
Concludes(p, o, c, rekeyed, moved) == \E s :
    /\ sa' = [sa EXCEPT ![p] = s] /\ Ceases(s, o, c, moved)
    /\ IF rekeyed /\ scene.keeps
       THEN s[c].state = "DELETING" /\ jobs' = [jobs EXCEPT ![p] = @ \cup {<<"DELETE", c>>}]
       ELSE s[c] = NoSa /\ jobs' = jobs
    /\ down' = IF rekeyed THEN down ELSE [down EXCEPT ![p] = @ \cup {c}]

LEMMA ConcludesFacts ==
    ASSUME NEW p \in Peers, NEW o \in SaMaps, NEW t, NEW c \in Sas, o[c].state = "DELETING",
           NEW rekeyed \in BOOLEAN, NEW i \in BOOLEAN, NEW moved \in BOOLEAN,
           moved <=> rekeyed /\ ~(i /\ IsRedundant(t, o[c].rekey)),
           DestroyAndReestablish(p, o, t, c, rekeyed, i)
    PROVE  Concludes(p, o, c, rekeyed, moved)
<1>1. PICK x : x = IF rekeyed THEN SwitchOver(o, t, c, i) ELSE o
  OBVIOUS
<1>2. PICK s : s = IF rekeyed /\ scene.keeps THEN x ELSE Destroy(x, c)
  OBVIOUS
<1>3. sa' = [sa EXCEPT ![p] = s]
  BY <1>1, <1>2 DEF DestroyAndReestablish
<1>4. /\ x \in SaMaps /\ x[c].state = "DELETING" /\ x[c].rekey = o[c].rekey
      /\ rekeyed => x[c].out = "NONE"
      /\ \A d \in Sas : d # c =>
            /\ x[d].state = o[d].state /\ x[d].rekey = o[d].rekey
            /\ moved /\ d = o[c].rekey /\ o[d].state # "NONE" => x[d].out = "INSTALLED"
            /\ ~(moved /\ d = o[c].rekey /\ o[d].state # "NONE") => x[d].out = o[d].out
  <2>1. CASE rekeyed
    <3>1. x = SwitchOver(o, t, c, i) /\ (moved <=> ~(i /\ IsRedundant(t, o[c].rekey)))
      BY <1>1, <2>1
    <3> QED
      BY <3>1, SwitchOverFacts
  <2>2. CASE ~rekeyed
    BY <1>1, <2>2
  <2> QED
    BY <2>1, <2>2
<1>5. CASE rekeyed /\ scene.keeps
  <2>1. s = x
    BY <1>2, <1>5
  <2>2. Ceases(s, o, c, moved) /\ s[c].state = "DELETING"
    BY <1>4, <1>5, <2>1 DEF Ceases
  <2>3. jobs' = [jobs EXCEPT ![p] = @ \cup {<<"DELETE", c>>}] /\ down' = down
    BY <1>5 DEF DestroyAndReestablish
  <2> QED
    BY <1>3, <1>5, <2>2, <2>3 DEF Concludes
<1>6. CASE ~(rekeyed /\ scene.keeps)
  <2>1. s = Destroy(x, c)
    BY <1>2, <1>6
  <2>2. Writes(s, x, c, NoSa)
    BY <1>4, <2>1, DestroyFacts
  <2>3. Ceases(s, o, c, moved) /\ s[c] = NoSa
    BY <1>4, <2>2 DEF Ceases, Writes
  <2>4. jobs' = jobs /\ down' = IF rekeyed THEN down ELSE [down EXCEPT ![p] = @ \cup {c}]
    BY <1>6 DEF DestroyAndReestablish
  <2> QED
    BY <1>3, <1>6, <2>3, <2>4 DEF Concludes
<1> QED
  BY <1>5, <1>6

\* A task that goes on: only what is named changes.
SameGoal(v, t) == v.kind = t.kind /\ v.child = t.child /\ v.new = t.new /\ v.failed = t.failed
SameColl(v, t) == v.coll = t.coll /\ v.other = t.other /\ v.gone = t.gone

EmptyTask == [Idle EXCEPT !.kind = "EMPTY", !.sent = TRUE]

-----------------------------------------------------------------------------
(* What one step does.  The peer that takes it has the objects o, the task t and the
   messages a before, and s, v and x after it; the other one has the task z and the
   messages b before, and the messages y after it. *)

\* Nothing but the queue and the jobs changes.
Rests(o, t, a, b, s, v, x, y) == s = o /\ v = t /\ x = a /\ y = b

\* initiate() finds that the task has become pointless, or a queued one is.
Quits(o, t, a, b, s, v, x, y) ==
    /\ ~t.sent /\ t.del = None /\ y = b
    /\ t = Idle \/ (t.kind = "REKEY" /\ o[t.child].state # "REKEYING" /\ s = o /\ v = Idle)
    /\ (v = Idle /\ x = a) \/ (v = EmptyTask /\ Sends(x, a))
    /\ s = o \/ \E c \in Sas : o[c].state = "DELETING" /\ Writes(s, o, c, NoSa)

AsksRekey(o, t, a, b, s, v, x, y) ==
    /\ ~t.sent /\ t.del = None /\ y = b /\ Sends(x, a)
    /\ v.kind = "REKEY" /\ v.sent /\ v.del = None /\ v.child \in Sas /\ v.new \in Sas \ {v.child}
    /\ Puts(s, o, v.child, "REKEYING")
    /\ \/ t = Idle /\ o[v.child].state = "INSTALLED" /\ SameColl(v, Idle)
       \/ o[v.child].state = "REKEYING" /\ SameGoal(v, t) /\ SameColl(v, t)

AsksDelete(o, t, a, b, s, v, x, y) ==
    /\ ~t.sent /\ y = b /\ Sends(x, a)
    /\ v.sent /\ v.del \in Sas /\ Working(o, v.del) /\ Puts(s, o, v.del, "DELETING")
    /\ v.rekeyed <=> o[v.del].state = "REKEYED"
    /\ \/ /\ t = Idle /\ v.kind = "DELETE" /\ v.child = v.del /\ v.new = None /\ SameColl(v, Idle)
       \/ /\ t.kind = "REKEY" /\ t.del = v.del /\ o[v.del].state = "REKEYED"
          /\ SameGoal(v, t) /\ SameColl(v, t)

\* A request is answered without an effect.
Denies(o, t, a, z, b, s, v, x, y) ==
    /\ s = o /\ v = t /\ (t.sent \/ t = Idle) /\ z.sent /\ Served(y, b)
    /\ z.del # None => ~Working(o, z.del)
    /\ \E k : /\ Replied(x, a, k) /\ k # "OK"
              /\ k = "TEMPORARY_FAILURE" => /\ z.kind = "REKEY" /\ z.del = None
                                            /\ o[z.child].state = "DELETING"
                                            /\ o[z.child].out # "NONE"
              /\ k = "NO_PROPOSAL" => scene.refuses

Accepts(o, t, a, z, b, s, v, x, y) ==
    /\ (t.sent \/ t = Idle) /\ z.sent /\ z.kind = "REKEY" /\ z.del = None
    /\ Served(y, b) /\ Replied(x, a, "OK")
    /\ z.child \in Sas /\ z.new \in Sas \ {z.child}
    /\ Working(o, z.child) /\ Replaced(s, o, z.child, z.new)
    /\ SameGoal(v, t) /\ v.sent = t.sent /\ v.del = t.del /\ v.rekeyed = t.rekeyed
    /\ IF t.kind = "REKEY" /\ t.child = z.child
       THEN v.coll = "REKEY" /\ v.other = z.new /\ v.gone = t.gone ELSE SameColl(v, t)

Obeys(o, t, a, z, b, s, v, x, y) ==
    /\ (t.sent \/ t = Idle) /\ z.sent /\ z.del \in Sas
    /\ Served(y, b) /\ Replied(x, a, "DONE")
    /\ Working(o, z.del) /\ Ceases(s, o, z.del, o[z.del].state = "REKEYED" \/ IsRedundant(t, z.del))
    /\ SameGoal(v, t) /\ v.sent = t.sent /\ v.del = t.del /\ v.rekeyed = t.rekeyed
    /\ IF IsRedundant(t, z.del) THEN v.coll = t.coll /\ v.other = t.other /\ v.gone
       ELSE IF t.kind = "REKEY" /\ t.child = z.del THEN v.coll = "DELETE" /\ v.gone = t.gone
       ELSE SameColl(v, t)

\* The response ends the task, which has made nothing.
GivesUp(o, t, a, b, s, v, x, y) ==
    /\ Read(y, b) /\ x = a /\ v = Idle /\ t.sent /\ t.del = None /\ ~OkIn(b)
    /\ \/ s = o /\ (t.kind = "EMPTY" \/ (t.kind = "REKEY" /\ t.coll = "DELETE"))
       \/ /\ t.kind = "REKEY" /\ t.coll # "DELETE" /\ Puts(s, o, t.child, "INSTALLED")
          /\ Told(b, "TEMPORARY_FAILURE") \/ Told(b, "NO_PROPOSAL")

Retries(o, t, a, b, s, v, x, y) ==
    /\ Read(y, b) /\ x = a /\ s = o /\ t.kind = "REKEY" /\ t.sent /\ t.del = None /\ ~OkIn(b)
    /\ ~v.sent /\ v.del = None /\ SameGoal(v, t) /\ SameColl(v, t)

\* The objects o of a peer whose rekeying t has succeeded.
Replaces(s, o, t) ==
    /\ s \in SaMaps
    /\ s[t.new].rekey = None
    /\ IF Wins(t) THEN s[t.new].state = "INSTALLED" /\ s[t.new].out = "INSTALLED"
                  ELSE s[t.new].state = "REKEYED" /\ s[t.new].out = "REGISTERED"
    /\ \A d \in Sas \ {t.new} :
          /\ s[d].out = o[d].out /\ s[d].rekey = o[d].rekey
          /\ IF Wins(t) /\ (d = t.child \/ (t.coll = "REKEY" /\ ~t.gone /\ d = t.other))
             THEN s[d].state = "REKEYED" ELSE s[d].state = o[d].state

Succeeds(o, t, a, b, s, v, x, y) ==
    /\ Read(y, b) /\ x = a /\ t.kind = "REKEY" /\ t.sent /\ t.del = None /\ OkIn(b)
    /\ Replaces(s, o, t)
    /\ ~v.sent /\ v.del = (IF Wins(t) THEN t.child ELSE t.new) /\ SameGoal(v, t) /\ SameColl(v, t)

Completes(o, t, a, b, s, v, x, y) ==
    /\ Read(y, b) /\ x = a /\ t.sent /\ t.del \in Sas /\ v = Idle
    /\ Ceases(s, o, t.del, t.rekeyed /\ ~IsRedundant(t, o[t.del].rekey))

Deed(o, t, a, z, b, s, v, x, y) ==
    \/ Rests(o, t, a, b, s, v, x, y)
    \/ Quits(o, t, a, b, s, v, x, y)
    \/ AsksRekey(o, t, a, b, s, v, x, y)
    \/ AsksDelete(o, t, a, b, s, v, x, y)
    \/ Denies(o, t, a, z, b, s, v, x, y)
    \/ Accepts(o, t, a, z, b, s, v, x, y)
    \/ Obeys(o, t, a, z, b, s, v, x, y)
    \/ GivesUp(o, t, a, b, s, v, x, y)
    \/ Retries(o, t, a, b, s, v, x, y)
    \/ Succeeds(o, t, a, b, s, v, x, y)
    \/ Completes(o, t, a, b, s, v, x, y)

\* The CHILD_SAs p is still to delete.
Undone(u, w, c) ==
    <<"DELETE", c>> \in w \/ \E i \in DOMAIN u : u[i][1] = "DELETE" /\ u[i][2] = c
Todo(p) == {c \in Sas : Undone(queue[p], jobs[p], c)}

\* What p does to its queue and its jobs, and what it reports.
Chores(p) ==
    /\ \A i \in DOMAIN queue'[p] : queue'[p][i][1] # "CREATE"
    /\ \A c \in Todo(p)' : c \in Todo(p) \/ ~Undeleted'
                           \/ (task[p].sent /\ c = task[p].del /\ task'[p] = Idle)
                           \/ (Deleting(task[Other(p)], c) /\ ~Working(sa'[p], c))
    /\ \A c \in Todo(p) : c \in Todo(p)' \/ ~IsKept(sa'[p], c)
    /\ \A c \in Sas : IsKept(sa'[p], c) => IsKept(sa[p], c) \/ c \in Todo(p)'
    /\ task[p].kind # "DELETE" /\ task'[p].kind = "DELETE" => task'[p].del \in Todo(p)

Falls(p) ==
    /\ down[p] \subseteq down'[p]
    /\ \A c \in down'[p] \ down[p] :
          \/ /\ Deleting(task[Other(p)], c) /\ Wants(air[Other(p)]) /\ Working(sa[p], c)
             /\ sa[p][c].state # "REKEYED" /\ ~IsRedundant(task[p], c)
          \/ Deleting(task[p], c) /\ ~task[p].rekeyed

\* p takes a step.
Advances(p) == LET q == Other(p) IN
    /\ sa'[q] = sa[q] /\ task'[q] = task[q] /\ queue'[q] = queue[q] /\ jobs'[q] = jobs[q]
    /\ down'[q] = down[q] /\ nonce' = nonce /\ scene' = scene
    /\ left'.deletes <= left.deletes
    /\ Deed(sa[p], task[p], air[p], task[q], air[q], sa'[p], task'[p], air'[p], air'[q])
    /\ Chores(p) /\ Falls(p)

\* No CHILD_SA is made anew, and what a task is about to delete is rekeyed.
Plain(p) ==
    /\ task[p].kind # "CREATE" /\ ~task[p].failed
    /\ \A i \in DOMAIN queue[p] : queue[p][i][1] # "CREATE"
    /\ ~task[p].sent /\ task[p].del # None => sa[p][task[p].del].state = "REKEYED"

LEMMA SentAir ==
    ASSUME RekeyInv, NEW p \in Peers, NEW q, q = Other(p), ~task[p].sent,
           NEW m \in Messages, m.req, Send(p, m)
    PROVE  Sends(air'[p], air[p]) /\ air'[q] = air[q]
<1>1. q \in Peers /\ q # p
  BY PeersFacts
<1>2. air \in [Peers -> Seq(Messages)] /\ air[p] \in Seq(Messages)
  BY LocalFacts
<1>3. Exchanging(task[p], air[p], air[q])
  BY DEF RekeyInv, LocalOk
<1>4. Asked(air[p]) = {}
  BY <1>3, NothingSent
<1>5. air'[p] = Append(air[p], m) /\ air'[q] = air[q]
  BY <1>1, <1>2 DEF Send
<1> QED
  BY <1>2, <1>4, <1>5, SendsFacts

\* Only p's objects, task and messages change, as initiate() changes them.
Sets(p, s, v) == LET q == Other(p) IN
    /\ sa'[p] = s /\ task'[p] = v /\ sa'[q] = sa[q] /\ task'[q] = task[q] /\ air'[q] = air[q]

LEMMA SetsFacts ==
    ASSUME RekeyInv, NEW p \in Peers, NEW s, NEW v,
           sa' = [sa EXCEPT ![p] = s], task' = [task EXCEPT ![p] = v], air'[Other(p)] = air[Other(p)]
    PROVE  Sets(p, s, v)
BY LocalFacts, PeersFacts DEF Sets

LEMMA RequestsOk ==
    ASSUME NEW c \in SaNumbers, NEW n \in SaNumbers, NEW k \in {"DELETE", "REKEY", "EMPTY"}
    PROVE  Request(k, c, n) \in Messages /\ Request(k, c, n).req
BY DEF Request, Messages, Kinds, Answers

LEMMA EmptyFacts ==
    /\ EmptyTask.kind = "EMPTY" /\ EmptyTask.sent /\ EmptyTask.child = None /\ EmptyTask.new = None
    /\ EmptyTask.del = None /\ ~EmptyTask.failed /\ EmptyTask.coll = "NONE" /\ EmptyTask.other = None
    /\ ~EmptyTask.gone /\ EmptyTask \in TaskRec
BY IdleFacts DEF EmptyTask, Idle, TaskRec

Deletes(p, t, c) ==
    \/ /\ task[p] = Idle /\ t.kind = "DELETE" /\ t.child = c /\ t.new = None
       /\ SameColl(t, Idle) /\ ~t.failed
    \/ task[p] = t /\ t.kind = "REKEY" /\ t.del = c

LEMMA BuildDeleteDeed ==
    ASSUME RekeyInv, NEW p \in Peers, NEW q, q = Other(p), Plain(p), NEW t \in TaskRec, NEW c \in Sas,
           ~task[p].sent, Deletes(p, t, c), BuildDelete(p, t, c)
    PROVE  /\ Sets(p, sa'[p], task'[p])
           /\ \/ Quits(sa[p], task[p], air[p], air[q], sa'[p], task'[p], air'[p], air'[q])
              \/ AsksDelete(sa[p], task[p], air[p], air[q], sa'[p], task'[p], air'[p], air'[q])
           /\ ~IsKept(sa'[p], c) /\ (task'[p].kind \in {"DELETE", "CREATE"} => task'[p].del = c)
           /\ task'[p].kind # "CREATE"
           /\ \A d \in Sas \ {c} : sa'[p][d] = sa[p][d]
<1>1. /\ sa[p] \in SaMaps /\ sa[p][c] \in SaRec /\ Informed(sa[p], task[p]) /\ TaskOk(task[p])
      /\ sa \in [Peers -> SaMaps] /\ task \in [Peers -> TaskRec] /\ air \in [Peers -> Seq(Messages)]
  BY LocalFacts
<1>2. PICK o : o = sa[p]
  OBVIOUS
<1>3. CASE o[c].state \in {"NONE", "DELETING"}
  <2>1. task[p] = Idle
    BY <1>2, <1>3, SasFacts DEF Deletes, Plain
  <2>2. task[p].del = None /\ ~task[p].sent
    BY <2>1, IdleFacts
  <2>3. CASE o[c].state = "NONE"
    <3>1. /\ sa' = sa /\ task' = [task EXCEPT ![p] = EmptyTask] /\ Send(p, Request("EMPTY", None, None))
      BY <1>2, <2>3 DEF BuildDelete, EmptyTask
    <3>2. None \in SaNumbers
      BY SasFacts
    <3>3. Request("EMPTY", None, None) \in Messages /\ Request("EMPTY", None, None).req
      BY <3>2, RequestsOk
    <3>4. Sends(air'[p], air[p]) /\ air'[q] = air[q]
      BY <3>1, <3>3, SentAir
    <3>5. Sets(p, o, EmptyTask)
      BY <1>2, <3>1, <3>4, SameObjects, SetsFacts
    <3>6. sa'[p] = o /\ task'[p] = EmptyTask
      BY <3>5 DEF Sets
    <3>7. Quits(o, task[p], air[p], air[q], o, EmptyTask, air'[p], air'[q])
      BY <2>1, <2>2, <3>4 DEF Quits
    <3> QED
      BY <1>2, <2>3, <3>5, <3>6, <3>7, EmptyFacts DEF IsKept
  <2>4. CASE o[c].state = "DELETING"
    <3>1. PICK s : s = Destroy(o, c)
      OBVIOUS
    <3>2. sa' = [sa EXCEPT ![p] = s] /\ task' = [task EXCEPT ![p] = Idle] /\ air' = air
      BY <1>1, <1>2, <2>4, <3>1 DEF BuildDelete
    <3>3. Writes(s, o, c, NoSa)
      BY <1>1, <1>2, <3>1, DestroyFacts
    <3>4. Sets(p, s, Idle)
      BY <3>2, SetsFacts
    <3>5. sa'[p] = s /\ task'[p] = Idle /\ air'[p] = air[p] /\ air'[q] = air[q]
      BY <3>2, <3>4 DEF Sets
    <3>6. Quits(o, task[p], air[p], air[q], s, Idle, air[p], air[q])
      BY <2>1, <2>2, <2>4, <3>3 DEF Quits
    <3>7. ~IsKept(s, c) /\ \A d \in Sas \ {c} : s[d] = o[d]
      BY <3>3, SaFields DEF Writes, IsKept
    <3> QED
      BY <1>2, <3>4, <3>5, <3>6, <3>7, IdleFacts
  <2> QED
    BY <1>3, <2>3, <2>4
<1>4. CASE Working(o, c)
  <2>0. PICK b \in BOOLEAN : b = (o[c].state = "REKEYED")
    OBVIOUS
  <2>1. PICK s, v : /\ s = SetState(o, c, "DELETING")
                    /\ v = [t EXCEPT !.sent = TRUE, !.del = c, !.rekeyed = b]
    OBVIOUS
  <2>2. Puts(s, o, c, "DELETING")
    BY <1>1, <1>2, <2>1, SetStateFacts
  <2>3. /\ v \in TaskRec /\ v.sent /\ v.del = c /\ v.kind = t.kind /\ v.child = t.child
        /\ v.new = t.new /\ v.failed = t.failed /\ v.coll = t.coll /\ v.other = t.other
        /\ v.gone = t.gone /\ v.rekeyed = b
    BY <2>1, SasFacts DEF TaskRec
  <2>4. /\ sa' = [sa EXCEPT ![p] = s] /\ task' = [task EXCEPT ![p] = v] /\ Send(p, Request("DELETE", c, None))
    BY <1>1, <1>2, <1>4, <2>0, <2>1 DEF BuildDelete, Working
  <2>5. Request("DELETE", c, None) \in Messages /\ Request("DELETE", c, None).req
    BY SasFacts, RequestsOk
  <2>6. Sends(air'[p], air[p]) /\ air'[q] = air[q]
    BY <2>4, <2>5, SentAir
  <2>7. Sets(p, s, v)
    BY <2>4, <2>6, SetsFacts
  <2>8. sa'[p] = s /\ task'[p] = v
    BY <2>7 DEF Sets
  <2>9. task[p] = t /\ t.kind = "REKEY" => o[c].state = "REKEYED"
    BY <1>2, SasFacts DEF Plain, Deletes, Idle
  <2>10. AsksDelete(o, task[p], air[p], air[q], s, v, air'[p], air'[q])
    <3>1. CASE task[p] = Idle /\ t.kind = "DELETE"
      BY <1>4, <2>0, <2>2, <2>3, <2>6, <3>1 DEF AsksDelete, SameColl, Deletes
    <3>2. CASE task[p] = t /\ t.kind = "REKEY"
      BY <1>4, <2>0, <2>2, <2>3, <2>6, <2>9, <3>2, IdleFacts DEF AsksDelete, SameColl, SameGoal, Deletes
    <3> QED
      BY <3>1, <3>2 DEF Deletes
  <2>11. s[c].out # "NONE" /\ \A d \in Sas \ {c} : s[d] = o[d]
    BY <1>1, <1>2, <1>4, <2>2 DEF Puts, Informed, Working
  <2>12. t.kind # "CREATE"
    BY DEF Deletes
  <2> QED
    BY <1>2, <2>3, <2>7, <2>8, <2>10, <2>11, <2>12 DEF IsKept
<1> QED
  BY <1>2, <1>3, <1>4 DEF Working

Rekeys(p, t, first) ==
    /\ t.kind = "REKEY" /\ t.child \in Sas /\ t.new \in Sas \ {t.child} /\ t.del = None /\ ~t.failed
    /\ IF first THEN task[p] = Idle /\ SameColl(t, Idle) ELSE task[p] = t

LEMMA BuildRekeyDeed ==
    ASSUME RekeyInv, NEW p \in Peers, NEW q, q = Other(p), NEW t \in TaskRec, NEW first \in BOOLEAN,
           ~task[p].sent, Rekeys(p, t, first), BuildRekey(p, t, first)
    PROVE  /\ Sets(p, sa'[p], task'[p])
           /\ \/ Quits(sa[p], task[p], air[p], air[q], sa'[p], task'[p], air'[p], air'[q])
              \/ AsksRekey(sa[p], task[p], air[p], air[q], sa'[p], task'[p], air'[p], air'[q])
           /\ \A d \in Sas : IsKept(sa'[p], d) <=> IsKept(sa[p], d)
           /\ task'[p].kind \notin {"DELETE", "CREATE"}
<1>1. /\ sa[p] \in SaMaps /\ Informed(sa[p], task[p]) /\ TaskOk(task[p])
      /\ sa \in [Peers -> SaMaps] /\ task \in [Peers -> TaskRec] /\ air \in [Peers -> Seq(Messages)]
  BY LocalFacts
<1>2. PICK o, c : o = sa[p] /\ c = t.child
  OBVIOUS
<1>3. PICK ready \in BOOLEAN : ready <=> o[c].state = IF first THEN "INSTALLED" ELSE "REKEYING"
  OBVIOUS
<1>4. c \in Sas /\ task[p].del = None
  BY <1>2, IdleFacts DEF Rekeys
<1>5. CASE ~ready
  <2>1. task' = [task EXCEPT ![p] = Idle] /\ sa' = sa /\ air' = air
    BY <1>2, <1>3, <1>5 DEF BuildRekey
  <2>2. Sets(p, o, Idle)
    BY <1>2, <2>1, SameObjects, SetsFacts
  <2>3. sa'[p] = o /\ task'[p] = Idle /\ air'[p] = air[p] /\ air'[q] = air[q]
    BY <2>1, <2>2 DEF Sets
  <2>4. Quits(o, task[p], air[p], air[q], o, Idle, air[p], air[q])
    BY <1>2, <1>3, <1>4, <1>5 DEF Quits, Rekeys
  <2> QED
    BY <1>2, <2>2, <2>3, <2>4, IdleFacts
<1>6. CASE ready
  <2>1. PICK s, v : s = SetState(o, c, "REKEYING") /\ v = [t EXCEPT !.sent = TRUE]
    OBVIOUS
  <2>2. Puts(s, o, c, "REKEYING")
    BY <1>1, <1>2, <1>4, <2>1, SetStateFacts
  <2>3. /\ v \in TaskRec /\ v.sent /\ v.del = t.del /\ v.kind = t.kind /\ v.child = t.child
        /\ v.new = t.new /\ v.failed = t.failed /\ v.coll = t.coll /\ v.other = t.other
        /\ v.gone = t.gone
    BY <2>1 DEF TaskRec
  <2>4. /\ sa' = [sa EXCEPT ![p] = s] /\ task' = [task EXCEPT ![p] = v]
        /\ Send(p, Request("REKEY", c, t.new))
    BY <1>1, <1>2, <1>3, <1>6, <2>1 DEF BuildRekey, Rekeys
  <2>5. Request("REKEY", c, t.new) \in Messages /\ Request("REKEY", c, t.new).req
    BY <1>4, SasFacts, RequestsOk DEF Rekeys
  <2>6. Sends(air'[p], air[p]) /\ air'[q] = air[q]
    BY <2>4, <2>5, SentAir
  <2>7. Sets(p, s, v)
    BY <2>4, <2>6, SetsFacts
  <2>8. sa'[p] = s /\ task'[p] = v
    BY <2>7 DEF Sets
  <2>9. AsksRekey(o, task[p], air[p], air[q], s, v, air'[p], air'[q])
    BY <1>2, <1>3, <1>4, <1>6, <2>2, <2>3, <2>6 DEF AsksRekey, SameColl, SameGoal, Rekeys
  <2>10. \A d \in Sas : IsKept(s, d) <=> IsKept(o, d)
    BY <1>3, <1>6, <2>2 DEF Puts, IsKept
  <2>11. t.kind = "REKEY"
    BY DEF Rekeys
  <2> QED
    BY <1>2, <2>3, <2>7, <2>8, <2>9, <2>10, <2>11
<1> QED
  BY <1>5, <1>6

\* The queue r is u without the entry e.
Shrinks(r, u, w, e) ==
    /\ \A c : Undone(r, w, c) => Undone(u, w, c)
    /\ \A c : Undone(u, w, c) => Undone(r, w, c) \/ (e[1] = "DELETE" /\ c = e[2])
    /\ \A k \in DOMAIN r : \E l \in DOMAIN u : r[k] = u[l]

LEMMA DequeuedUndone ==
    ASSUME NEW u \in Seq(Entries), NEW w, NEW i \in DOMAIN u
    PROVE  Shrinks(RemoveAt(u, i), u, w, u[i])
<1>0. PICK r, e : r = RemoveAt(u, i) /\ e = u[i]
  OBVIOUS
<1>1. Lacks(r, u, i)
  BY <1>0, RemovedFrom
<1>2. \A k \in DOMAIN r : \E l \in DOMAIN u : r[k] = u[l]
  BY <1>1 DEF Lacks
<1>3. ASSUME NEW l \in DOMAIN u, l # i PROVE \E k \in DOMAIN r : r[k] = u[l]
  BY <1>0, <1>3, RemainsFacts
<1>4. /\ \A c : Undone(r, w, c) => Undone(u, w, c)
      /\ \A c : Undone(u, w, c) => Undone(r, w, c) \/ (e[1] = "DELETE" /\ c = e[2])
  BY <1>0, <1>2, <1>3 DEF Undone
<1> QED
  BY <1>0, <1>2, <1>4 DEF Shrinks

LEMMA InitiateDeed ==
    ASSUME RekeyInv, NEW p \in Peers, Plain(p), Initiate(p)
    PROVE  Advances(p)
<1>0. PICK q : q = Other(p)
  OBVIOUS
<1>1. /\ sa[p] \in SaMaps /\ task[p] \in TaskRec /\ queue[p] \in Seq(Entries) /\ TaskOk(task[p])
      /\ queue \in [Peers -> Seq(Entries)] /\ \A i \in DOMAIN queue[p] : EntryOk(queue[p][i])
  BY LocalFacts
<1>2. Pending(p) /\ UNCHANGED <<jobs, down, nonce, scene, left>> /\ ~task[p].sent
  BY DEF Initiate, Pending
<1>3. q \in Peers /\ q # p /\ left \in Bounds
  BY <1>0, PeersFacts, OtherFacts
<1>4. Falls(p) /\ left'.deletes <= left.deletes
  BY <1>2, <1>3 DEF Falls, Bounds
<1>5. CASE InitiateQueued(p)
  <2>1. task[p] = Idle /\ queue[p] # <<>>
    BY <1>1, <1>2, <1>5 DEF InitiateQueued, Pending, TaskOk
  <2>2. PICK i, e, t : /\ i = Activated(queue[p]) /\ e = queue[p][i]
                       /\ t = [Idle EXCEPT !.kind = e[1], !.child = e[2], !.new = e[3]]
    OBVIOUS
  <2>3. i \in DOMAIN queue[p] /\ e \in Entries /\ EntryOk(e)
    BY <1>1, <2>1, <2>2, ActivatedFacts
  <2>4. e[1] \in Kinds /\ e[2] \in SaNumbers /\ e[3] \in SaNumbers /\ e[1] # "CREATE"
    BY <2>2, <2>3 DEF Entries, Plain
  <2>5. /\ t \in TaskRec /\ t.kind = e[1] /\ t.child = e[2] /\ t.new = e[3] /\ ~t.sent
        /\ t.del = None /\ SameColl(t, Idle) /\ ~t.failed
    BY <2>2, <2>4, SasFacts DEF Idle, TaskRec, SameColl
  <2>6. PICK r : r = RemoveAt(queue[p], i)
    OBVIOUS
  <2>7. queue' = [queue EXCEPT ![p] = r]
    BY <1>5, <2>2, <2>6 DEF InitiateQueued
  <2>8. queue'[p] = r /\ queue'[q] = queue[q]
    BY <1>1, <1>3, <2>7
  <2>9. Shrinks(r, queue[p], jobs[p], e)
    BY <1>1, <2>2, <2>3, <2>6, DequeuedUndone
  <2>10. \A k \in DOMAIN r : r[k][1] # "CREATE"
    BY <2>9 DEF Plain, Shrinks
  <2>11. /\ \A c \in Todo(p)' : c \in Todo(p)
         /\ \A c \in Todo(p) : c \in Todo(p)' \/ (e[1] = "DELETE" /\ c = e[2])
    BY <1>2, <2>8, <2>9 DEF Todo, Shrinks
  <2>12. CASE e[1] = "DELETE" /\ BuildDelete(p, t, e[2])
    <3>1. PICK c \in Sas : c = e[2]
      BY <2>3, <2>12 DEF EntryOk
    <3>2. Deletes(p, t, c)
      BY <2>1, <2>3, <2>5, <2>12, <3>1 DEF Deletes, EntryOk
    <3>3. /\ Sets(p, sa'[p], task'[p])
          /\ \/ Quits(sa[p], task[p], air[p], air[q], sa'[p], task'[p], air'[p], air'[q])
             \/ AsksDelete(sa[p], task[p], air[p], air[q], sa'[p], task'[p], air'[p], air'[q])
          /\ ~IsKept(sa'[p], c) /\ (task'[p].kind \in {"DELETE", "CREATE"} => task'[p].del = c)
          /\ \A d \in Sas \ {c} : sa'[p][d] = sa[p][d]
      BY <1>0, <1>2, <2>5, <2>12, <3>1, <3>2, BuildDeleteDeed
    <3>4. c \in Todo(p)
      BY <2>2, <2>3, <2>12, <3>1 DEF Todo, Undone
    <3>5. Chores(p)
      BY <2>8, <2>10, <2>11, <3>1, <3>3, <3>4 DEF Chores, IsKept
    <3> QED
      BY <1>0, <1>2, <1>4, <2>8, <3>3, <3>5 DEF Advances, Sets, Deed
  <2>13. CASE e[1] = "REKEY" /\ BuildRekey(p, t, TRUE)
    <3>1. Rekeys(p, t, TRUE)
      BY <2>1, <2>3, <2>5, <2>13 DEF Rekeys, EntryOk
    <3>2. /\ Sets(p, sa'[p], task'[p])
          /\ \/ Quits(sa[p], task[p], air[p], air[q], sa'[p], task'[p], air'[p], air'[q])
             \/ AsksRekey(sa[p], task[p], air[p], air[q], sa'[p], task'[p], air'[p], air'[q])
          /\ \A d \in Sas : IsKept(sa'[p], d) <=> IsKept(sa[p], d)
          /\ task'[p].kind \notin {"DELETE", "CREATE"}
      BY <1>0, <1>2, <2>5, <2>13, <3>1, BuildRekeyDeed
    <3>3. Chores(p)
      BY <2>8, <2>10, <2>11, <2>13, <3>2 DEF Chores
    <3> QED
      BY <1>0, <1>2, <1>4, <2>8, <3>2, <3>3 DEF Advances, Sets, Deed
  <2> QED
    BY <1>5, <2>2, <2>4, <2>12, <2>13 DEF InitiateQueued
<1>6. ASSUME task[p].kind = "REKEY", UNCHANGED queue,
             IF task[p].del # None THEN BuildDelete(p, task[p], task[p].del)
                                   ELSE BuildRekey(p, task[p], FALSE)
      PROVE  Advances(p)
  <2>0. PICK t \in TaskRec : t = task[p]
    BY <1>1
  <2>1. Todo(p)' = Todo(p) /\ \A k \in DOMAIN queue'[p] : queue'[p][k][1] # "CREATE"
    BY <1>2, <1>6 DEF Todo, Plain
  <2>2. CASE t.del # None
    <3>1. PICK c \in Sas : c = t.del
      BY <1>1, <1>6, <2>0, <2>2 DEF TaskOk
    <3>2. Deletes(p, t, c)
      BY <1>6, <2>0, <3>1 DEF Deletes
    <3>3. /\ Sets(p, sa'[p], task'[p])
          /\ \/ Quits(sa[p], task[p], air[p], air[q], sa'[p], task'[p], air'[p], air'[q])
             \/ AsksDelete(sa[p], task[p], air[p], air[q], sa'[p], task'[p], air'[p], air'[q])
          /\ ~IsKept(sa'[p], c) /\ (task'[p].kind \in {"DELETE", "CREATE"} => task'[p].del = c)
          /\ \A d \in Sas \ {c} : sa'[p][d] = sa[p][d]
      BY <1>0, <1>2, <1>6, <2>0, <2>2, <3>1, <3>2, BuildDeleteDeed
    <3>4. task'[p].kind # "DELETE"
      BY <1>6, <2>0, <2>2, <3>3, IdleFacts, SasFacts DEF Quits, AsksDelete, SameGoal
    <3>5. Chores(p)
      BY <2>1, <3>1, <3>3, <3>4 DEF Chores, IsKept
    <3> QED
      BY <1>0, <1>2, <1>4, <1>6, <3>3, <3>5 DEF Advances, Sets, Deed
  <2>3. CASE t.del = None
    <3>1. Rekeys(p, t, FALSE)
      BY <1>1, <1>6, <2>0, <2>3 DEF Rekeys, TaskOk, Plain
    <3>2. /\ Sets(p, sa'[p], task'[p])
          /\ \/ Quits(sa[p], task[p], air[p], air[q], sa'[p], task'[p], air'[p], air'[q])
             \/ AsksRekey(sa[p], task[p], air[p], air[q], sa'[p], task'[p], air'[p], air'[q])
          /\ \A d \in Sas : IsKept(sa'[p], d) <=> IsKept(sa[p], d)
          /\ task'[p].kind \notin {"DELETE", "CREATE"}
      BY <1>0, <1>2, <1>6, <2>0, <2>3, <3>1, BuildRekeyDeed
    <3>3. Chores(p)
      BY <2>1, <3>2 DEF Chores
    <3> QED
      BY <1>0, <1>2, <1>4, <1>6, <3>2, <3>3 DEF Advances, Sets, Deed
  <2> QED
    BY <2>2, <2>3
<1> QED
  BY <1>5, <1>6 DEF Initiate, Plain

Budget == left.deletes <= scene.deletes

LEMMA AppendUndone ==
    ASSUME NEW u \in Seq(Entries), NEW w, NEW e \in Entries
    PROVE  /\ \A c : Undone(Append(u, e), w, c) <=> Undone(u, w, c) \/ (e[1] = "DELETE" /\ c = e[2])
           /\ \A k \in DOMAIN Append(u, e) : Append(u, e)[k] = e \/ \E l \in DOMAIN u : Append(u, e)[k] = u[l]
<1>0. PICK r : r = Append(u, e)
  OBVIOUS
<1>1. /\ r \in Seq(Entries) /\ DOMAIN r = DOMAIN u \cup {Len(u) + 1}
      /\ r[Len(u) + 1] = e /\ \A k \in DOMAIN u : r[k] = u[k]
  BY <1>0, AppendFacts
<1>2. \A c : Undone(r, w, c) <=> Undone(u, w, c) \/ (e[1] = "DELETE" /\ c = e[2])
  BY <1>1 DEF Undone
<1>3. \A k \in DOMAIN r : r[k] = e \/ \E l \in DOMAIN u : r[k] = u[l]
  BY <1>1
<1> QED
  BY <1>0, <1>2, <1>3

\* Nothing but the queue u and the jobs w of p changes.
LEMMA RestsDeed ==
    ASSUME RekeyInv, NEW p \in Peers, Plain(p), UNCHANGED <<sa, task, air, down, nonce, scene>>,
           NEW u, NEW w, queue' = [queue EXCEPT ![p] = u], jobs' = [jobs EXCEPT ![p] = w],
           left'.deletes <= left.deletes, \A k \in DOMAIN u : u[k][1] # "CREATE",
           \A c \in Sas : Undone(u, w, c) => Undone(queue[p], jobs[p], c) \/ ~Undeleted',
           \A c \in Sas : Undone(queue[p], jobs[p], c) => Undone(u, w, c) \/ sa[p][c].state = "NONE"
    PROVE  Advances(p)
<1>1. Other(p) \in Peers /\ Other(p) # p
  BY PeersFacts
<1>2. queue \in [Peers -> Seq(Entries)] /\ jobs \in [Peers -> SUBSET JobSet]
  BY LocalFacts, OtherFacts
<1>3. /\ queue'[p] = u /\ jobs'[p] = w
      /\ queue'[Other(p)] = queue[Other(p)] /\ jobs'[Other(p)] = jobs[Other(p)]
  BY <1>1, <1>2
<1>4. \A c \in Todo(p)' : c \in Todo(p) \/ ~Undeleted'
  BY <1>3 DEF Todo
<1>5. \A c \in Todo(p) : c \in Todo(p)' \/ ~IsKept(sa'[p], c)
  BY <1>3 DEF Todo, IsKept
<1>6. Chores(p)
  BY <1>3, <1>4, <1>5 DEF Chores
<1>7. Falls(p)
  BY DEF Falls
<1>8. Deed(sa[p], task[p], air[p], task[Other(p)], air[Other(p)], sa'[p], task'[p], air'[p], air'[Other(p)])
  BY DEF Deed, Rests
<1> QED
  BY <1>3, <1>6, <1>7, <1>8 DEF Advances

LEMMA RekeyAppended ==
    ASSUME RekeyInv, NEW p \in Peers, NEW c \in Sas, QueueRekey(p, c)
    PROVE  /\ left'.deletes <= left.deletes
           /\ \E e \in Entries : queue' = [queue EXCEPT ![p] = Append(queue[p], e)] /\ e[1] = "REKEY"
<1>1. /\ left \in Bounds /\ left.rekeys > 0 /\ left' = [left EXCEPT !.rekeys = left.rekeys - 1]
      /\ left.rekeys \in Nat /\ scene.rekeys \in 0..MaxRekeys /\ left.rekeys <= scene.rekeys
  BY ChildRekeyConstants DEF RekeyInv, LooseType, Numbers, QueueRekey, Bounds, Scenario
<1>2. left'.deletes <= left.deletes
  BY <1>1 DEF Bounds
<1>3. NextSa \in Sas
  BY <1>1, SasFacts DEF NextSa
<1>4. PICK e : e = <<"REKEY", c, NextSa>>
  OBVIOUS
<1>5. e \in Entries /\ e[1] = "REKEY"
  BY <1>3, <1>4, SasFacts DEF Entries, Kinds
<1>6. queue' = [queue EXCEPT ![p] = Append(queue[p], e)]
  BY <1>4 DEF QueueRekey, NextSa
<1> QED
  BY <1>2, <1>5, <1>6

LEMMA DeleteAppended ==
    ASSUME NEW p \in Peers, NEW c \in Sas, QueueDelete(p, c)
    PROVE  \E e \in Entries : /\ queue' = [queue EXCEPT ![p] = Append(queue[p], e)]
                              /\ e[1] = "DELETE" /\ e[2] = c
<1>1. PICK e : e = <<"DELETE", c, None>>
  OBVIOUS
<1>2. e \in Entries /\ e[1] = "DELETE" /\ e[2] = c
  BY <1>1, SasFacts DEF Entries, Kinds
<1>3. queue' = [queue EXCEPT ![p] = Append(queue[p], e)]
  BY <1>1 DEF QueueDelete
<1> QED
  BY <1>2, <1>3

\* An entry e is appended to the queue of p, and the jobs are w.
LEMMA AppendsDeed ==
    ASSUME RekeyInv, NEW p \in Peers, Plain(p), UNCHANGED <<sa, task, air, down, nonce, scene>>,
           NEW e \in Entries, e[1] # "CREATE", queue' = [queue EXCEPT ![p] = Append(queue[p], e)],
           NEW w, jobs' = [jobs EXCEPT ![p] = w], w \subseteq jobs[p], left'.deletes <= left.deletes,
           e[1] = "DELETE" => <<"DELETE", e[2]>> \in jobs[p] \/ ~Undeleted',
           \A c \in Sas : <<"DELETE", c>> \in jobs[p] =>
              <<"DELETE", c>> \in w \/ (e[1] = "DELETE" /\ c = e[2])
    PROVE  Advances(p)
<1>1. queue[p] \in Seq(Entries)
  BY LocalFacts
<1>2. PICK u : u = Append(queue[p], e)
  OBVIOUS
<1>3. /\ \A c : Undone(u, w, c) <=> Undone(queue[p], w, c) \/ (e[1] = "DELETE" /\ c = e[2])
      /\ \A k \in DOMAIN u : u[k] = e \/ \E l \in DOMAIN queue[p] : u[k] = queue[p][l]
  BY <1>1, <1>2, AppendUndone
<1>4. \A k \in DOMAIN u : u[k][1] # "CREATE"
  BY <1>3 DEF Plain
<1>5. ASSUME NEW c \in Sas, Undone(u, w, c) PROVE Undone(queue[p], jobs[p], c) \/ ~Undeleted'
  BY <1>3, <1>5 DEF Undone
<1>6. ASSUME NEW c \in Sas, Undone(queue[p], jobs[p], c) PROVE Undone(u, w, c)
  <2>1. CASE <<"DELETE", c>> \in jobs[p]
    BY <1>3, <2>1 DEF Undone
  <2>2. CASE \E i \in DOMAIN queue[p] : queue[p][i][1] = "DELETE" /\ queue[p][i][2] = c
    <3>1. Undone(queue[p], w, c)
      BY <2>2 DEF Undone
    <3> QED
      BY <1>3, <3>1
  <2> QED
    BY <1>6, <2>1, <2>2 DEF Undone
<1> QED
  BY <1>2, <1>4, <1>5, <1>6, RestsDeed

LEMMA SoftExpireDeed ==
    ASSUME RekeyInv, NEW p \in Peers, Plain(p), NEW c \in Sas, SoftExpire(p, c)
    PROVE  Advances(p)
<1>1. QueueRekey(p, c) /\ UNCHANGED <<sa, task, jobs, air, down, nonce, scene>>
  BY DEF SoftExpire
<1>2. PICK e \in Entries : queue' = [queue EXCEPT ![p] = Append(queue[p], e)] /\ e[1] = "REKEY"
  BY <1>1, RekeyAppended
<1>3. left'.deletes <= left.deletes
  BY <1>1, RekeyAppended
<1>4. jobs' = [jobs EXCEPT ![p] = jobs[p]]
  BY <1>1, TaskOnly
<1> QED
  BY <1>1, <1>2, <1>3, <1>4, AppendsDeed

LEMMA DeleteChildDeed ==
    ASSUME RekeyInv, Budget, NEW p \in Peers, Plain(p), NEW c \in Sas, DeleteChild(p, c)
    PROVE  Advances(p)
<1>1. /\ QueueDelete(p, c) /\ UNCHANGED <<sa, task, jobs, air, down, nonce, scene>>
      /\ left.deletes > 0 /\ left' = [left EXCEPT !.deletes = left.deletes - 1]
  BY DEF DeleteChild
<1>2. PICK e \in Entries : /\ queue' = [queue EXCEPT ![p] = Append(queue[p], e)]
                           /\ e[1] = "DELETE" /\ e[2] = c
  BY <1>1, DeleteAppended
<1>3. left \in Bounds /\ scene \in Scenario
  BY ChildRekeyConstants DEF RekeyInv, LooseType
<1>4. left.deletes \in Nat /\ scene.deletes \in Nat /\ left'.deletes = left.deletes - 1
  BY <1>1, <1>3 DEF Bounds, Scenario
<1>5. left'.deletes <= left.deletes /\ ~Undeleted'
  BY <1>1, <1>4 DEF Undeleted, Budget
<1>6. jobs' = [jobs EXCEPT ![p] = jobs[p]]
  BY <1>1, TaskOnly
<1> QED
  BY <1>1, <1>2, <1>5, <1>6, AppendsDeed

LEMMA RunJobDeed ==
    ASSUME RekeyInv, NEW p \in Peers, Plain(p), NEW j \in JobSet, RunJob(p, j)
    PROVE  Advances(p)
<1>1. /\ jobs' = [jobs EXCEPT ![p] = jobs[p] \ {j}] /\ j \in jobs[p]
      /\ UNCHANGED <<sa, task, air, down, nonce, scene>>
      /\ \/ ~Exists(sa[p], j[2]) /\ UNCHANGED <<queue, left>>
         \/ j[1] = "REKEY" /\ QueueRekey(p, j[2])
         \/ j[1] = "DELETE" /\ QueueDelete(p, j[2]) /\ UNCHANGED left
  BY DEF RunJob
<1>2. PICK w, c : w = jobs[p] \ {j} /\ c = j[2]
  OBVIOUS
<1>3. c \in Sas /\ j = <<j[1], c>> /\ j[1] \in {"DELETE", "REKEY"} /\ left \in Bounds
  BY <1>2, OtherFacts DEF JobSet
<1>4. CASE ~Exists(sa[p], c) /\ UNCHANGED <<queue, left>>
  <2>1. queue' = [queue EXCEPT ![p] = queue[p]]
    BY <1>4, TaskOnly
  <2>2. left'.deletes <= left.deletes
    BY <1>3, <1>4 DEF Bounds
  <2>3. \A d \in Sas : Undone(queue[p], w, d) => Undone(queue[p], jobs[p], d)
    BY <1>2 DEF Undone
  <2>4. sa[p][c].state = "NONE"
    BY <1>3, <1>4, SasFacts DEF Exists
  <2>5. ASSUME NEW d \in Sas, Undone(queue[p], jobs[p], d)
        PROVE  Undone(queue[p], w, d) \/ sa[p][d].state = "NONE"
    <3>1. CASE d = c
      BY <2>4, <3>1
    <3>2. CASE d # c
      <4>1. <<"DELETE", d>> # j
        BY <1>3, <3>2
      <4> QED
        BY <1>2, <2>5, <4>1 DEF Undone
    <3> QED
      BY <3>1, <3>2
  <2>6. jobs' = [jobs EXCEPT ![p] = w]
    BY <1>1, <1>2
  <2> QED
    BY <1>1, <2>1, <2>2, <2>3, <2>5, <2>6, RestsDeed DEF Plain
<1>5. CASE j[1] = "REKEY" /\ QueueRekey(p, c)
  <2>1. PICK e \in Entries : queue' = [queue EXCEPT ![p] = Append(queue[p], e)] /\ e[1] = "REKEY"
    BY <1>3, <1>5, RekeyAppended
  <2>2. left'.deletes <= left.deletes
    BY <1>3, <1>5, RekeyAppended
  <2>3. \A d \in Sas : <<"DELETE", d>> \in jobs[p] => <<"DELETE", d>> \in w
    BY <1>2, <1>3, <1>5
  <2>4. jobs' = [jobs EXCEPT ![p] = w] /\ w \subseteq jobs[p]
    BY <1>1, <1>2
  <2> QED
    BY <1>1, <2>1, <2>2, <2>3, <2>4, AppendsDeed
<1>6. CASE j[1] = "DELETE" /\ QueueDelete(p, c) /\ UNCHANGED left
  <2>1. PICK e \in Entries : /\ queue' = [queue EXCEPT ![p] = Append(queue[p], e)]
                             /\ e[1] = "DELETE" /\ e[2] = c
    BY <1>3, <1>6, DeleteAppended
  <2>2. left'.deletes <= left.deletes
    BY <1>3, <1>6 DEF Bounds
  <2>3. ASSUME NEW d \in Sas, <<"DELETE", d>> \in jobs[p] PROVE <<"DELETE", d>> \in w \/ d = c
    <3>1. d # c => <<"DELETE", d>> # j
      BY <1>3
    <3> QED
      BY <1>2, <2>3, <3>1
  <2>4. jobs' = [jobs EXCEPT ![p] = w] /\ w \subseteq jobs[p] /\ <<"DELETE", c>> \in jobs[p]
    BY <1>1, <1>2, <1>3, <1>6
  <2> QED
    BY <1>1, <2>1, <2>2, <2>3, <2>4, AppendsDeed
<1> QED
  BY <1>1, <1>2, <1>4, <1>5, <1>6

LEMMA RespondedAir ==
    ASSUME RekeyInv, NEW p \in Peers, NEW q, q = Other(p), NEW i \in Asked(air[q]),
           scene.ordered => i = 1, NEW k \in AnswersTo(air[q][i].type),
           air' = [air EXCEPT ![q] = RemoveAt(@, i), ![p] = Append(@, Response(k, air[q][i]))]
    PROVE  Served(air'[q], air[q]) /\ Replied(air'[p], air[p], k) /\ task[q].sent
<1>1. q \in Peers /\ q # p /\ Other(q) = p
  BY PeersFacts
<1>2. air \in [Peers -> Seq(Messages)] /\ air[p] \in Seq(Messages) /\ air[q] \in Seq(Messages)
  BY <1>1, LocalFacts
<1>3. PICK m, r : m = air[q][i] /\ r = Response(k, m)
  OBVIOUS
<1>4. m \in Messages /\ Replies(air[p]) = {} /\ Matches(m, task[q])
  BY <1>3, AskedFacts
<1>5. r \in Messages /\ ~r.req /\ r.type = k
  BY <1>3, <1>4, ResponseFacts
<1>6. air'[q] = RemoveAt(air[q], i) /\ air'[p] = Append(air[p], r)
  BY <1>1, <1>2, <1>3
<1>7. \A j \in Asked(air[q]) : j = i
  BY <1>1 DEF RekeyInv, LocalOk, Exchanging
<1>8. Served(air'[q], air[q])
  BY <1>2, <1>6, <1>7, ServedFacts
<1>9. Replied(air'[p], air[p], k)
  BY <1>2, <1>4, <1>5, <1>6, ReplyFacts
<1> QED
  BY <1>4, <1>8, <1>9 DEF Matches

\* The request of the other peer, whose task is z.
LEMMA RequestOfTask ==
    ASSUME RekeyInv, NEW p \in Peers, NEW q, q = Other(p), NEW i \in Asked(air[q]),
           NEW m, m = air[q][i], NEW z, z = task[q], ~z.failed
    PROVE  /\ m.type = "REKEY" => /\ z.kind = "REKEY" /\ z.del = None /\ z.child \in Sas
                                  /\ z.new \in Sas \ {z.child} /\ m.child = z.child /\ m.new = z.new
           /\ m.type = "DELETE" => m.child \in Sas /\ z.del = m.child
           /\ m.type = "EMPTY" => z.del = None /\ m.child = None
           /\ m.type = "CREATE" => z.kind = "CREATE"
<1>1. q \in Peers
  BY PeersFacts
<1>2. z \in TaskRec /\ TaskOk(z)
  BY <1>1, LocalFacts
<1>3. Matches(m, z) /\ m.type = RequestOf(z).type /\ m.child = RequestOf(z).child
      /\ m.new = RequestOf(z).new
  BY AskedFacts
<1>4. z.sent
  BY <1>3 DEF Matches
<1>5. m.type = "REKEY" => /\ z.kind = "REKEY" /\ z.del = None /\ z.child \in Sas
                          /\ m.child = z.child /\ m.new = z.new
  BY <1>2, <1>3, <1>4, RequestKinds
<1>6. m.type = "DELETE" => m.child \in Sas /\ z.del = m.child
  BY <1>2, <1>3, <1>4, RequestKinds
<1>7. m.type = "EMPTY" => z.kind = "EMPTY" /\ m.child = None
  BY <1>2, <1>3, <1>4 DEF RequestOf, Request, TaskOk
<1>8. m.type = "CREATE" => z.kind = "CREATE"
  BY <1>2, <1>3, <1>4, RequestKinds
<1> QED
  BY <1>2, <1>5, <1>6, <1>7, <1>8 DEF TaskOk

LEMMA NotPending ==
    ASSUME RekeyInv, NEW p \in Peers, ~Pending(p)
    PROVE  task[p].sent \/ task[p] = Idle
BY LocalFacts DEF Pending, TaskOk

\* The queue and the jobs of p stay as they are, and p reports nothing.
LEMMA SameChores ==
    ASSUME RekeyInv, NEW p \in Peers, Plain(p), UNCHANGED <<queue, jobs, down, left>>,
           task'[p].kind = "DELETE" => task[p].kind = "DELETE",
           \A c \in Sas : IsKept(sa'[p], c) => IsKept(sa[p], c)
    PROVE  Chores(p) /\ Falls(p) /\ left'.deletes <= left.deletes
<1>1. Todo(p)' = Todo(p)
  BY DEF Todo
<1>2. Chores(p)
  BY <1>1 DEF Chores, Plain
<1>3. left \in Bounds
  BY OtherFacts
<1> QED
  BY <1>2, <1>3 DEF Falls, Bounds

LEMMA RespondRekeyDeed ==
    ASSUME RekeyInv, NEW p \in Peers, NEW q, q = Other(p), Plain(p), Plain(q), NEW i, RespondRekey(q, i)
    PROVE  Advances(p)
<1>1. q \in Peers /\ q # p /\ Other(q) = p
  BY PeersFacts
<1>2. PICK m, t, o, z : m = air[q][i] /\ t = task[p] /\ o = sa[p] /\ z = task[q]
  OBVIOUS
<1>3. /\ i \in DOMAIN air[q] /\ m.req /\ m.type = "REKEY" /\ i \in Asked(air[q])
      /\ scene.ordered => i = 1
  BY <1>2 DEF RespondRekey, Arrives, Asked
<1>4. PICK k \in RekeyAnswers(p, m.child) :
        /\ air' = [air EXCEPT ![q] = RemoveAt(@, i), ![p] = Append(@, Response(k, m))]
        /\ Rejected(k)
        /\ IF k = "OK"
           THEN /\ sa' = [sa EXCEPT ![p][m.new] = NewSa, ![p][m.child].state = "REKEYED",
                                    ![p][m.child].rekey = m.new]
                /\ task' = [task EXCEPT ![p] = CollideRekey(@, m.child, m.new)]
           ELSE UNCHANGED <<sa, task>>
  BY <1>1, <1>2 DEF RespondRekey, Answered
<1>5. UNCHANGED <<queue, jobs, down, nonce, scene>> /\ ~Pending(p)
  BY <1>1 DEF RespondRekey
<1>6. /\ t \in TaskRec /\ o \in SaMaps /\ TaskOk(t) /\ Informed(o, t)
      /\ sa \in [Peers -> SaMaps] /\ task \in [Peers -> TaskRec] /\ left \in Bounds
  BY <1>2, LocalFacts, OtherFacts
<1>7. k \in AnswersTo(m.type)
  BY <1>3, <1>4 DEF RekeyAnswers, Rejections, AnswersTo
<1>8. left'.deletes <= left.deletes
  BY <1>4, <1>6 DEF Rejected, Bounds
<1>9. Served(air'[q], air[q]) /\ Replied(air'[p], air[p], k) /\ z.sent
  BY <1>2, <1>3, <1>4, <1>7, RespondedAir
<1>10. /\ z.kind = "REKEY" /\ z.del = None /\ z.child \in Sas
       /\ z.new \in Sas \ {z.child} /\ m.child = z.child /\ m.new = z.new
  BY <1>2, <1>3, RequestOfTask DEF Plain
<1>11. t.sent \/ t = Idle
  BY <1>2, <1>5, NotPending
<1>12. Falls(p)
  BY <1>5 DEF Falls
<1>13. Todo(p)' = Todo(p)
  BY <1>5 DEF Todo
<1>14. CASE k # "OK"
  <2>1. sa' = sa /\ task' = task
    BY <1>4, <1>14
  <2>2. k = "TEMPORARY_FAILURE" => o[z.child].state = "DELETING" /\ o[z.child].out # "NONE"
    BY <1>2, <1>4, <1>10 DEF RekeyAnswers, Rejections, Exists, IsKept
  <2>3. k = "NO_PROPOSAL" => scene.refuses
    BY <1>4 DEF RekeyAnswers, Rejections
  <2>4. Denies(o, t, air[p], z, air[q], o, t, air'[p], air'[q])
    BY <1>9, <1>10, <1>11, <1>14, <2>2, <2>3 DEF Denies
  <2>5. Chores(p)
    BY <1>5, <1>13, <2>1 DEF Chores, Plain
  <2> QED
    BY <1>1, <1>2, <1>5, <1>8, <1>12, <2>1, <2>4, <2>5 DEF Advances, Deed
<1>15. CASE k = "OK"
  <2>1. PICK c \in Sas, n \in Sas : c = z.child /\ n = z.new /\ n # c
    BY <1>10
  <2>2. Working(o, c)
    BY <1>2, <1>4, <1>10, <1>15, <2>1, SasFacts DEF RekeyAnswers, Exists, Working
  <2>3. PICK s, v : /\ s = [o EXCEPT ![n] = NewSa, ![c].state = "REKEYED", ![c].rekey = n]
                    /\ v = CollideRekey(t, c, n)
    OBVIOUS
  <2>4. sa' = [sa EXCEPT ![p] = s] /\ task' = [task EXCEPT ![p] = v]
    <3>1. sa' = [sa EXCEPT ![p][n] = NewSa, ![p][c].state = "REKEYED", ![p][c].rekey = n]
      BY <1>4, <1>10, <1>15, <2>1
    <3>2. sa' = [sa EXCEPT ![p] = s]
      BY <1>2, <1>6, <2>3, <3>1
    <3>3. task' = [task EXCEPT ![p] = v]
      BY <1>2, <1>4, <1>10, <1>15, <2>1, <2>3
    <3> QED
      BY <3>2, <3>3
  <2>5. Replaced(s, o, c, n)
    BY <1>6, <2>1, <2>3, ReplacedFacts
  <2>6. sa'[p] = s /\ task'[p] = v /\ sa'[q] = sa[q] /\ task'[q] = task[q]
    BY <1>1, <1>6, <2>4
  <2>7. SameGoal(v, t) /\ v.sent = t.sent /\ v.del = t.del /\ v.rekeyed = t.rekeyed
    BY <1>6, <2>3 DEF CollideRekey, SameGoal, TaskRec
  <2>8. IF t.kind = "REKEY" /\ t.child = c
        THEN v.coll = "REKEY" /\ v.other = n /\ v.gone = t.gone ELSE SameColl(v, t)
    BY <1>6, <2>3 DEF CollideRekey, SameColl, TaskRec
  <2>9. Accepts(o, t, air[p], z, air[q], s, v, air'[p], air'[q])
    BY <1>9, <1>10, <1>11, <1>15, <2>1, <2>2, <2>5, <2>7, <2>8 DEF Accepts
  <2>10. \A d \in Sas : IsKept(s, d) => IsKept(o, d)
    BY <1>10, <2>1, <2>5, SaFields DEF Replaced, IsKept
  <2>11. Chores(p)
    BY <1>2, <1>5, <1>13, <2>6, <2>7, <2>10 DEF Chores, Plain, SameGoal
  <2> QED
    BY <1>1, <1>2, <1>5, <1>8, <1>12, <2>6, <2>9, <2>11 DEF Advances, Deed
<1> QED
  BY <1>14, <1>15

\* The end of the deletion of c, for the queue, the jobs and the reports of p.
LEMMA ConcludesChores ==
    ASSUME RekeyInv, NEW p \in Peers, Plain(p), NEW o \in SaMaps, NEW c \in Sas,
           NEW rekeyed \in BOOLEAN, NEW moved \in BOOLEAN, Concludes(p, o, c, rekeyed, moved),
           \A d \in Sas : d # c => o[d] = sa[p][d],
           UNCHANGED queue
    PROVE  /\ sa' = [sa EXCEPT ![p] = sa'[p]] /\ Ceases(sa'[p], o, c, moved)
           /\ jobs'[Other(p)] = jobs[Other(p)] /\ down'[Other(p)] = down[Other(p)]
           /\ \A i \in DOMAIN queue'[p] : queue'[p][i][1] # "CREATE"
           /\ \A d \in Todo(p)' : d \in Todo(p) \/ d = c
           /\ \A d \in Todo(p) : d \in Todo(p)'
           /\ \A d \in Sas : IsKept(sa'[p], d) => IsKept(sa[p], d) \/ d \in Todo(p)'
           /\ down[p] \subseteq down'[p] /\ \A d \in down'[p] \ down[p] : d = c /\ ~rekeyed
<1>1. /\ sa \in [Peers -> SaMaps] /\ jobs \in [Peers -> SUBSET JobSet] /\ down \in [Peers -> SUBSET Sas]
      /\ Other(p) \in Peers /\ Other(p) # p
  BY LocalFacts, OtherFacts, PeersFacts
<1>2. PICK s : /\ sa' = [sa EXCEPT ![p] = s] /\ Ceases(s, o, c, moved)
               /\ IF rekeyed /\ scene.keeps
                  THEN s[c].state = "DELETING" /\ jobs' = [jobs EXCEPT ![p] = @ \cup {<<"DELETE", c>>}]
                  ELSE s[c] = NoSa /\ jobs' = jobs
               /\ down' = IF rekeyed THEN down ELSE [down EXCEPT ![p] = @ \cup {c}]
  BY DEF Concludes
<1>3. sa'[p] = s
  BY <1>1, <1>2
<1>4. /\ jobs'[Other(p)] = jobs[Other(p)]
      /\ jobs'[p] = IF rekeyed /\ scene.keeps THEN jobs[p] \cup {<<"DELETE", c>>} ELSE jobs[p]
  BY <1>1, <1>2
<1>5. /\ down'[Other(p)] = down[Other(p)]
      /\ down'[p] = IF rekeyed THEN down[p] ELSE down[p] \cup {c}
  BY <1>1, <1>2
<1>6. \A d \in Sas : <<"DELETE", d>> \in jobs'[p] => <<"DELETE", d>> \in jobs[p] \/ d = c
  BY <1>4
<1>7. /\ \A d \in Todo(p)' : d \in Todo(p) \/ d = c
      /\ \A d \in Todo(p) : d \in Todo(p)'
      /\ rekeyed /\ scene.keeps => c \in Todo(p)'
  BY <1>4, <1>6 DEF Todo, Undone
<1>8. ASSUME NEW d \in Sas, IsKept(s, d) PROVE IsKept(sa[p], d) \/ d \in Todo(p)'
  <2>1. CASE d = c
    BY <1>2, <1>7, <1>8, <2>1, SaFields DEF IsKept
  <2>2. CASE d # c
    BY <1>2, <1>8, <2>2 DEF IsKept, Ceases
  <2> QED
    BY <2>1, <2>2
<1>9. \A i \in DOMAIN queue'[p] : queue'[p][i][1] # "CREATE"
  BY DEF Plain
<1>10. sa' = [sa EXCEPT ![p] = sa'[p]] /\ Ceases(sa'[p], o, c, moved)
  BY <1>2, <1>3
<1>11. \A d \in Sas : IsKept(sa'[p], d) => IsKept(sa[p], d) \/ d \in Todo(p)'
  BY <1>3, <1>8
<1>12. down[p] \subseteq down'[p] /\ \A d \in down'[p] \ down[p] : d = c /\ ~rekeyed
  BY <1>5
<1> QED
  BY <1>4, <1>5, <1>7, <1>9, <1>10, <1>11, <1>12

LEMMA RespondDeleteDeed ==
    ASSUME RekeyInv, NEW p \in Peers, NEW q, q = Other(p), Plain(p), Plain(q), NEW i, RespondDelete(q, i)
    PROVE  Advances(p)
<1>1. q \in Peers /\ q # p /\ Other(q) = p
  BY PeersFacts
<1>2. PICK m, t, o, c, z : m = air[q][i] /\ t = task[p] /\ o = sa[p] /\ c = m.child /\ z = task[q]
  OBVIOUS
<1>3. /\ i \in DOMAIN air[q] /\ m.req /\ m.type \in {"DELETE", "EMPTY"} /\ i \in Asked(air[q])
      /\ scene.ordered => i = 1
  BY <1>2 DEF RespondDelete, Arrives, Asked
<1>4. /\ air' = [air EXCEPT ![q] = RemoveAt(@, i), ![p] = Append(@, Response("DONE", m))]
      /\ UNCHANGED <<queue, nonce, scene, left>> /\ ~Pending(p)
  BY <1>1, <1>2 DEF RespondDelete, Answered
<1>5. /\ t \in TaskRec /\ o \in SaMaps /\ TaskOk(t) /\ Informed(o, t)
      /\ sa \in [Peers -> SaMaps] /\ task \in [Peers -> TaskRec] /\ left \in Bounds
  BY <1>2, LocalFacts, OtherFacts
<1>6. "DONE" \in AnswersTo(m.type)
  BY <1>3 DEF AnswersTo
<1>7. Served(air'[q], air[q]) /\ Replied(air'[p], air[p], "DONE") /\ z.sent
  BY <1>2, <1>3, <1>4, <1>6, RespondedAir
<1>8. /\ m.type = "DELETE" => c \in Sas /\ z.del = c
      /\ m.type = "EMPTY" => z.del = None /\ c = None
  BY <1>2, <1>3, RequestOfTask DEF Plain
<1>9. t.sent \/ t = Idle
  BY <1>2, <1>4, NotPending
<1>10. CASE ~(Exists(o, c) /\ o[c].state # "DELETING")
  <2>1. UNCHANGED <<sa, jobs, down, task>>
    BY <1>1, <1>2, <1>10 DEF RespondDelete
  <2>2. z.del # None => ~Working(o, z.del)
    BY <1>3, <1>8, <1>10, SasFacts DEF Exists, Working
  <2>3. Denies(o, t, air[p], z, air[q], o, t, air'[p], air'[q])
    BY <1>7, <1>9, <2>2 DEF Denies
  <2>4. Chores(p) /\ Falls(p) /\ left'.deletes <= left.deletes
    BY <1>4, <2>1, SameChores
  <2> QED
    BY <1>1, <1>2, <1>4, <2>1, <2>3, <2>4 DEF Advances, Deed
<1>11. CASE Exists(o, c) /\ o[c].state # "DELETING"
  <2>1. m.type = "DELETE" /\ c \in Sas /\ z.del = c /\ Working(o, c)
    BY <1>3, <1>8, <1>11 DEF Exists, Working
  <2>2. PICK x, v : x = SetState(o, c, "DELETING") /\ v = CollideDelete(t, c)
    OBVIOUS
  <2>3. Puts(x, o, c, "DELETING")
    BY <1>5, <2>1, <2>2, SetStateFacts
  <2>4. /\ x \in SaMaps /\ x[c].state = "DELETING" /\ x[c].rekey = o[c].rekey
        /\ \A d \in Sas : d # c => x[d] = o[d]
    BY <2>3 DEF Puts
  <2>5. PICK r \in BOOLEAN : r <=> (o[c].state = "REKEYED" \/ IsRedundant(t, c))
    OBVIOUS
  <2>6. DestroyAndReestablish(p, x, t, c, r, FALSE)
    BY <1>1, <1>2, <1>11, <2>2, <2>5 DEF RespondDelete
  <2>7. Concludes(p, x, c, r, r)
    BY <2>1, <2>4, <2>6, ConcludesFacts
  <2>8. /\ sa' = [sa EXCEPT ![p] = sa'[p]] /\ Ceases(sa'[p], x, c, r)
        /\ jobs'[q] = jobs[q] /\ down'[q] = down[q]
        /\ \A j \in DOMAIN queue'[p] : queue'[p][j][1] # "CREATE"
        /\ \A d \in Todo(p)' : d \in Todo(p) \/ d = c
        /\ \A d \in Todo(p) : d \in Todo(p)'
        /\ \A d \in Sas : IsKept(sa'[p], d) => IsKept(sa[p], d) \/ d \in Todo(p)'
        /\ down[p] \subseteq down'[p] /\ \A d \in down'[p] \ down[p] : d = c /\ ~r
    BY <1>2, <1>4, <2>1, <2>4, <2>7, ConcludesChores
  <2>9. task' = [task EXCEPT ![p] = v]
    BY <1>1, <1>2, <1>11, <2>2 DEF RespondDelete
  <2>10. task'[p] = v /\ task'[q] = task[q] /\ sa'[q] = sa[q]
    BY <1>1, <1>5, <2>8, <2>9
  <2>11. PICK s : s = sa'[p]
    OBVIOUS
  <2>12. Ceases(s, o, c, o[c].state = "REKEYED" \/ IsRedundant(t, c))
    BY <2>4, <2>5, <2>8, <2>11 DEF Ceases
  <2>13. SameGoal(v, t) /\ v.sent = t.sent /\ v.del = t.del /\ v.rekeyed = t.rekeyed
    BY <1>5, <2>2 DEF CollideDelete, SameGoal, TaskRec
  <2>14. IF IsRedundant(t, c) THEN v.coll = t.coll /\ v.other = t.other /\ v.gone
         ELSE IF t.kind = "REKEY" /\ t.child = c THEN v.coll = "DELETE" /\ v.gone = t.gone
         ELSE SameColl(v, t)
    <3>1. CASE IsRedundant(t, c)
      <4>0. t.child # c
        BY <1>5, <3>1 DEF TaskOk, IsRedundant
      <4>1. v = [t EXCEPT !.gone = TRUE]
        BY <2>2, <3>1, <4>0 DEF CollideDelete
      <4> QED
        BY <1>5, <3>1, <4>1 DEF TaskRec
    <3>2. CASE ~IsRedundant(t, c) /\ t.kind = "REKEY" /\ t.child = c
      <4>1. v = [t EXCEPT !.coll = "DELETE", !.other = None]
        BY <2>2, <3>2 DEF CollideDelete
      <4> QED
        BY <1>5, <3>2, <4>1 DEF TaskRec
    <3>3. CASE ~IsRedundant(t, c) /\ ~(t.kind = "REKEY" /\ t.child = c)
      <4>1. v = t
        BY <2>2, <3>3 DEF CollideDelete
      <4> QED
        BY <3>3, <4>1 DEF SameColl
    <3> QED
      BY <3>1, <3>2, <3>3
  <2>15. Obeys(o, t, air[p], z, air[q], s, v, air'[p], air'[q])
    BY <1>7, <1>9, <2>1, <2>12, <2>13, <2>14 DEF Obeys
  <2>16. Deleting(z, c) /\ ~Working(s, c)
    BY <1>7, <2>1, <2>12, SaFields DEF Deleting, Ceases, Working
  <2>17. v.kind = "DELETE" => t.kind = "DELETE"
    BY <2>13 DEF SameGoal
  <2>18. Chores(p)
    BY <1>2, <2>8, <2>10, <2>11, <2>16, <2>17 DEF Chores
  <2>19. Falls(p)
    BY <1>2, <1>7, <2>1, <2>5, <2>8, <2>16 DEF Falls, Served
  <2>20. left'.deletes <= left.deletes
    BY <1>4, <1>5 DEF Bounds
  <2> QED
    BY <1>1, <1>2, <1>4, <2>8, <2>10, <2>11, <2>15, <2>18, <2>19, <2>20 DEF Advances, Deed
<1> QED
  BY <1>10, <1>11

LEMMA RespondCreateDeed ==
    ASSUME RekeyInv, NEW p \in Peers, NEW q, q = Other(p), Plain(q), NEW i
    PROVE  ~RespondCreate(q, i)
<1> SUFFICES ASSUME RespondCreate(q, i) PROVE FALSE
  OBVIOUS
<1>1. i \in Asked(air[q]) /\ air[q][i].type = "CREATE"
  BY DEF RespondCreate, Arrives, Asked
<1> QED
  BY <1>1, RequestOfTask DEF Plain

\* p takes the response, of type k, to its request.
LEMMA ReadAir ==
    ASSUME RekeyInv, NEW p \in Peers, NEW q, q = Other(p), NEW i, Arrives(q, i), ~air[q][i].req,
           Received(q, i), NEW k, k = air[q][i].type
    PROVE  /\ Read(air'[q], air[q]) /\ air'[p] = air[p] /\ task[p].sent
           /\ \A l : Told(air[q], l) <=> l = k
           /\ OkIn(air[q]) <=> k = "OK"
           /\ k \in AnswersTo(RequestOf(task[p]).type)
<1>1. q \in Peers /\ q # p
  BY PeersFacts
<1>2. i \in Replies(air[q]) /\ (scene.ordered => i = 1)
  BY DEF Arrives, Replies
<1>3. air \in [Peers -> Seq(Messages)] /\ air[q] \in Seq(Messages)
  BY <1>1, LocalFacts
<1>4. /\ task[p].sent /\ air[q][i].type \in AnswersTo(RequestOf(task[p]).type)
      /\ \A j \in Replies(air[q]) : j = i
  BY <1>2, RepliedFacts
<1>5. air'[q] = RemoveAt(air[q], i) /\ air'[p] = air[p]
  BY <1>1, <1>3 DEF Received
<1>6. Read(air'[q], air[q])
  BY <1>2, <1>3, <1>4, <1>5, ReadFacts
<1>7. \A l : Told(air[q], l) <=> l = k
  BY <1>2, <1>4 DEF Told
<1>8. OkIn(air[q]) <=> k = "OK"
  BY <1>2, <1>4 DEF OkIn
<1> QED
  BY <1>4, <1>5, <1>6, <1>7, <1>8

LEMMA RekeyResponseDeed ==
    ASSUME RekeyInv, Agreement, Tame, NEW p \in Peers, Plain(p), NEW i, RekeyResponse(p, i)
    PROVE  Advances(p)
<1>0. PICK q, t, o, k : q = Other(p) /\ t = task[p] /\ o = sa[p] /\ k = air[q][i].type
  OBVIOUS
<1>1. q \in Peers /\ q # p /\ Other(q) = p
  BY <1>0, PeersFacts
<1>2. /\ t \in TaskRec /\ o \in SaMaps /\ TaskOk(t) /\ Informed(o, t)
      /\ sa \in [Peers -> SaMaps] /\ task \in [Peers -> TaskRec] /\ left \in Bounds
      /\ jobs \in [Peers -> SUBSET JobSet]
  BY <1>0, LocalFacts, OtherFacts
<1>3. /\ Arrives(q, i) /\ ~air[q][i].req /\ Received(q, i) /\ t.kind = "REKEY" /\ t.del = None
      /\ nonce' = nonce /\ scene' = scene
  BY <1>0 DEF RekeyResponse
<1>4. /\ Read(air'[q], air[q]) /\ air'[p] = air[p] /\ t.sent
      /\ \A l : Told(air[q], l) <=> l = k
      /\ OkIn(air[q]) <=> k = "OK"
      /\ k \in AnswersTo(RequestOf(t).type)
  BY <1>0, <1>3, ReadAir
<1>5. k # "DONE"
  BY <1>0, <1>3, <1>4 DEF RequestOf, Request, AnswersTo, Plain
<1>6. k = "NOT_FOUND" => t.coll = "DELETE"
  <2>1. Missed(t, air[q])
    BY <1>0 DEF Agreement, Agreed
  <2>2. i \in Replies(air[q])
    BY <1>3 DEF Arrives, Replies
  <2> QED
    BY <1>0, <2>1, <2>2 DEF Missed
<1>7. left.failures = 0
  BY DEF Agreement
<1>8. t.child \in Sas
  BY <1>2, <1>3 DEF TaskOk
<1>9. \A s, v : sa' = [sa EXCEPT ![p] = s] /\ task' = [task EXCEPT ![p] = v] =>
                  sa'[p] = s /\ task'[p] = v /\ sa'[q] = sa[q] /\ task'[q] = task[q]
  BY <1>1, <1>2
<1>10. sa = [sa EXCEPT ![p] = o]
  BY <1>0, SameObjects
<1>11. ASSUME k \in {"TEMPORARY_FAILURE", "NO_PROPOSAL", "DONE"}, AbortRekey(p, t) PROVE Advances(p)
  <2>1. task' = [task EXCEPT ![p] = Idle] /\ UNCHANGED <<queue, down, left>>
    BY <1>11 DEF AbortRekey
  <2>2. CASE t.coll = "DELETE"
    <3>1. UNCHANGED <<sa, jobs>>
      BY <1>11, <2>2 DEF AbortRekey
    <3>2. sa'[p] = o /\ task'[p] = Idle /\ sa'[q] = sa[q] /\ task'[q] = task[q]
      BY <1>9, <1>10, <2>1, <3>1
    <3>3. GivesUp(o, t, air[p], air[q], o, Idle, air'[p], air'[q])
      BY <1>3, <1>4, <1>11, <2>2 DEF GivesUp
    <3>4. Chores(p) /\ Falls(p) /\ left'.deletes <= left.deletes
      BY <1>0, <2>1, <3>1, <3>2, IdleFacts, SameChores
    <3> QED
      BY <1>0, <1>3, <2>1, <3>1, <3>2, <3>3, <3>4 DEF Advances, Deed
  <2>3. CASE t.coll # "DELETE"
    <3>1. PICK s : s = SetState(o, t.child, "INSTALLED")
      OBVIOUS
    <3>2. /\ sa' = [sa EXCEPT ![p] = s]
          /\ jobs' = [jobs EXCEPT ![p] = jobs[p] \cup {<<"REKEY", t.child>>}]
      BY <1>0, <1>2, <1>11, <2>3, <3>1 DEF AbortRekey
    <3>3. sa'[p] = s /\ task'[p] = Idle /\ sa'[q] = sa[q] /\ task'[q] = task[q]
      BY <1>9, <2>1, <3>2
    <3>4. Puts(s, o, t.child, "INSTALLED")
      BY <1>2, <1>8, <3>1, SetStateFacts
    <3>5. GivesUp(o, t, air[p], air[q], s, Idle, air'[p], air'[q])
      BY <1>3, <1>4, <1>5, <1>11, <2>3, <3>4 DEF GivesUp
    <3>6. jobs'[q] = jobs[q] /\ jobs'[p] = jobs[p] \cup {<<"REKEY", t.child>>}
      BY <1>1, <1>2, <3>2
    <3>7. \A d : <<"DELETE", d>> # <<"REKEY", t.child>>
      OBVIOUS
    <3>8. Todo(p)' = Todo(p)
      BY <2>1, <3>6, <3>7 DEF Todo, Undone
    <3>9. \A d \in Sas : IsKept(s, d) => IsKept(o, d)
      BY <3>4 DEF Puts, IsKept
    <3>10. Chores(p)
      BY <1>0, <2>1, <3>3, <3>8, <3>9, IdleFacts DEF Chores, Plain
    <3>11. Falls(p) /\ left'.deletes <= left.deletes
      BY <1>2, <2>1 DEF Falls, Bounds
    <3> QED
      BY <1>0, <1>3, <2>1, <3>3, <3>5, <3>6, <3>10, <3>11 DEF Advances, Deed
  <2> QED
    BY <2>2, <2>3
<1>12. ASSUME k = "NOT_FOUND", RekeyNotFound(p, t) PROVE Advances(p)
  <2>1. task' = [task EXCEPT ![p] = Idle] /\ UNCHANGED <<sa, queue, jobs, down, left>>
    BY <1>6, <1>12 DEF RekeyNotFound
  <2>2. sa'[p] = o /\ task'[p] = Idle /\ sa'[q] = sa[q] /\ task'[q] = task[q]
    BY <1>9, <1>10, <2>1
  <2>3. GivesUp(o, t, air[p], air[q], o, Idle, air'[p], air'[q])
    BY <1>3, <1>4, <1>6, <1>12 DEF GivesUp
  <2>4. Chores(p) /\ Falls(p) /\ left'.deletes <= left.deletes
    BY <1>0, <2>1, <2>2, IdleFacts, SameChores
  <2> QED
    BY <1>0, <1>3, <2>1, <2>2, <2>3, <2>4 DEF Advances, Deed
<1>13. ASSUME k = "INVALID_KE", Retry(p) PROVE Advances(p)
  <2>1. PICK v : v = [t EXCEPT !.sent = FALSE]
    OBVIOUS
  <2>2. /\ ~v.sent /\ v.kind = t.kind /\ v.child = t.child /\ v.new = t.new /\ v.failed = t.failed
        /\ v.coll = t.coll /\ v.other = t.other /\ v.gone = t.gone /\ v.del = t.del
    BY <1>2, <2>1 DEF TaskRec
  <2>3. task' = [task EXCEPT ![p] = v] /\ UNCHANGED <<sa, queue, jobs, down, left>>
    BY <1>0, <1>2, <1>13, <2>1 DEF Retry
  <2>4. sa'[p] = o /\ task'[p] = v /\ sa'[q] = sa[q] /\ task'[q] = task[q]
    BY <1>9, <1>10, <2>3
  <2>5. Retries(o, t, air[p], air[q], o, v, air'[p], air'[q])
    BY <1>3, <1>4, <1>13, <2>2 DEF Retries, SameGoal, SameColl
  <2>6. Chores(p) /\ Falls(p) /\ left'.deletes <= left.deletes
    BY <1>0, <1>3, <2>2, <2>3, <2>4, SameChores
  <2> QED
    BY <1>0, <1>3, <2>3, <2>4, <2>5, <2>6 DEF Advances, Deed
<1>14. ~InstallFails(p)
  BY <1>7 DEF InstallFails
<1>15. ASSUME k = "OK", RekeySucceeds(p, t) PROVE Advances(p)
  <2>0. Wins(t) \in BOOLEAN
    BY DEF Wins
  <2>1. PICK n, won, b : /\ n = t.new /\ won = Wins(t)
                         /\ b = ({IF won THEN t.child ELSE n}
                                 \cup (IF won /\ t.coll = "REKEY" /\ ~t.gone THEN {t.other} ELSE {}))
    OBVIOUS
  <2>2. PICK made : made = [o EXCEPT ![n] = IF won THEN InUse ELSE NewSa]
    OBVIOUS
  <2>3. PICK s : s = [c \in Sas |-> IF c \in b THEN [made[c] EXCEPT !.state = "REKEYED"] ELSE made[c]]
    OBVIOUS
  <2>4. Replaces(s, o, t)
    <3>1. /\ n \in Sas /\ t.child \in Sas /\ n # t.child
          /\ t.coll = "REKEY" => t.other \in Sas \ {t.child, n}
      BY <1>2, <1>3, <2>1 DEF TaskOk
    <3>2. PICK r \in SaRec : r = IF won THEN InUse ELSE NewSa
      BY SaRecs
    <3>3. r.state = "INSTALLED" /\ r.out = (IF won THEN "INSTALLED" ELSE "REGISTERED") /\ r.rekey = None
      BY <3>2 DEF InUse, NewSa
    <3>4. made \in SaMaps /\ made[n] = r /\ \A d \in Sas : d # n => made[d] = o[d]
      BY <1>2, <2>2, <3>1, <3>2 DEF SaMaps
    <3>5. ASSUME NEW d \in Sas
          PROVE  /\ s[d] \in SaRec /\ s[d].out = made[d].out /\ s[d].rekey = made[d].rekey
                 /\ s[d].state = IF d \in b THEN "REKEYED" ELSE made[d].state
      <4>1. made[d] \in SaRec
        BY <3>4 DEF SaMaps
      <4>2. PICK e : e = [made[d] EXCEPT !.state = "REKEYED"]
        OBVIOUS
      <4>3. e \in SaRec /\ e.out = made[d].out /\ e.rekey = made[d].rekey /\ e.state = "REKEYED"
        BY <4>1, <4>2 DEF SaRec
      <4>4. s[d] = IF d \in b THEN e ELSE made[d]
        BY <2>3, <4>2
      <4> QED
        BY <4>1, <4>3, <4>4
    <3>6. s \in SaMaps
      BY <2>3, <3>5 DEF SaMaps
    <3>7. /\ s[n].rekey = None
          /\ IF Wins(t) THEN s[n].state = "INSTALLED" /\ s[n].out = "INSTALLED"
                        ELSE s[n].state = "REKEYED" /\ s[n].out = "REGISTERED"
      <4>1. n \in b <=> ~won
        BY <2>1, <3>1
      <4> QED
        BY <2>1, <3>1, <3>3, <3>4, <3>5, <4>1
    <3>8. ASSUME NEW d \in Sas \ {n}
          PROVE  /\ s[d].out = o[d].out /\ s[d].rekey = o[d].rekey
                 /\ IF Wins(t) /\ (d = t.child \/ (t.coll = "REKEY" /\ ~t.gone /\ d = t.other))
                    THEN s[d].state = "REKEYED" ELSE s[d].state = o[d].state
      <4>1. d \in b <=> won /\ (d = t.child \/ (t.coll = "REKEY" /\ ~t.gone /\ d = t.other))
        BY <2>1, <3>1
      <4> QED
        BY <2>1, <3>4, <3>5, <4>1
    <3> QED
      BY <2>1, <3>6, <3>7, <3>8 DEF Replaces
  <2>5. PICK del \in SaNumbers : del = IF won THEN t.child ELSE n
    BY <1>2, <2>1 DEF TaskRec
  <2>6. PICK v : v = [t EXCEPT !.sent = FALSE, !.del = del]
    OBVIOUS
  <2>7. /\ ~v.sent /\ v.kind = t.kind /\ v.child = t.child /\ v.new = t.new /\ v.failed = t.failed
        /\ v.coll = t.coll /\ v.other = t.other /\ v.gone = t.gone /\ v.del = del
    BY <1>2, <2>6 DEF TaskRec
  <2>8. sa' = [sa EXCEPT ![p] = s] /\ UNCHANGED <<queue, jobs, down, left>>
    BY <1>0, <1>15, <2>1, <2>2, <2>3 DEF RekeySucceeds
  <2>9. task' = [task EXCEPT ![p] = v]
    BY <1>0, <1>2, <1>15, <2>1, <2>5, <2>6 DEF RekeySucceeds
  <2>10. sa'[p] = s /\ task'[p] = v /\ sa'[q] = sa[q] /\ task'[q] = task[q]
    BY <1>9, <2>8, <2>9
  <2>11. Succeeds(o, t, air[p], air[q], s, v, air'[p], air'[q])
    BY <1>3, <1>4, <1>15, <2>1, <2>4, <2>5, <2>7 DEF Succeeds, SameGoal, SameColl
  <2>12. \A d \in Sas : IsKept(s, d) => IsKept(o, d)
    BY <2>4 DEF Replaces, IsKept
  <2>13. Chores(p) /\ Falls(p) /\ left'.deletes <= left.deletes
    BY <1>0, <1>3, <2>7, <2>8, <2>10, <2>12, SameChores
  <2> QED
    BY <1>0, <1>3, <2>8, <2>10, <2>11, <2>13 DEF Advances, Deed
<1> QED
  BY <1>0, <1>11, <1>12, <1>13, <1>14, <1>15 DEF RekeyResponse

LEMMA DeleteResponseDeed ==
    ASSUME RekeyInv, NEW p \in Peers, Plain(p), NEW i, DeleteResponse(p, i)
    PROVE  Advances(p)
<1>0. PICK q, t, o, c : q = Other(p) /\ t = task[p] /\ o = sa[p] /\ c = t.del
  OBVIOUS
<1>1. q \in Peers /\ q # p /\ Other(q) = p
  BY <1>0, PeersFacts
<1>2. /\ t \in TaskRec /\ o \in SaMaps /\ TaskOk(t) /\ Informed(o, t)
      /\ sa \in [Peers -> SaMaps] /\ task \in [Peers -> TaskRec] /\ left \in Bounds
  BY <1>0, LocalFacts, OtherFacts
<1>3. /\ Arrives(q, i) /\ ~air[q][i].req /\ Received(q, i) /\ c # None
      /\ DestroyAndReestablish(p, o, t, c, t.rekeyed, TRUE)
      /\ task' = [task EXCEPT ![p] = Idle] /\ UNCHANGED <<queue, nonce, scene, left>>
  BY <1>0 DEF DeleteResponse
<1>4. Read(air'[q], air[q]) /\ air'[p] = air[p] /\ t.sent
  BY <1>0, <1>3, ReadAir
<1>5. c \in Sas /\ t.rekeyed \in BOOLEAN
  BY <1>0, <1>2, <1>3, SasFacts DEF TaskRec
<1>6. o[c].state = "DELETING"
  BY <1>0, <1>2, <1>3, <1>4 DEF Informed
<1>7. PICK moved \in BOOLEAN : moved <=> t.rekeyed /\ ~(TRUE /\ IsRedundant(t, o[c].rekey))
  OBVIOUS
<1>8. Concludes(p, o, c, t.rekeyed, moved)
  BY <1>2, <1>3, <1>5, <1>6, <1>7, ConcludesFacts
<1>9. /\ sa' = [sa EXCEPT ![p] = sa'[p]] /\ Ceases(sa'[p], o, c, moved)
      /\ jobs'[q] = jobs[q] /\ down'[q] = down[q]
      /\ \A j \in DOMAIN queue'[p] : queue'[p][j][1] # "CREATE"
      /\ \A d \in Todo(p)' : d \in Todo(p) \/ d = c
      /\ \A d \in Todo(p) : d \in Todo(p)'
      /\ \A d \in Sas : IsKept(sa'[p], d) => IsKept(sa[p], d) \/ d \in Todo(p)'
      /\ down[p] \subseteq down'[p] /\ \A d \in down'[p] \ down[p] : d = c /\ ~t.rekeyed
  BY <1>0, <1>2, <1>3, <1>5, <1>8, ConcludesChores
<1>10. task'[p] = Idle /\ task'[q] = task[q] /\ sa'[q] = sa[q]
  BY <1>1, <1>2, <1>3, <1>9
<1>11. Completes(o, t, air[p], air[q], sa'[p], Idle, air'[p], air'[q])
  BY <1>0, <1>4, <1>5, <1>7, <1>9 DEF Completes, Ceases
<1>12. Chores(p)
  BY <1>0, <1>4, <1>9, <1>10, IdleFacts DEF Chores
<1>13. Falls(p)
  BY <1>0, <1>4, <1>9 DEF Falls, Deleting
<1>14. left'.deletes <= left.deletes
  BY <1>2, <1>3 DEF Bounds
<1> QED
  BY <1>0, <1>3, <1>9, <1>10, <1>11, <1>12, <1>13, <1>14 DEF Advances, Deed

LEMMA EmptyResponseDeed ==
    ASSUME RekeyInv, NEW p \in Peers, Plain(p), NEW i, EmptyResponse(p, i)
    PROVE  Advances(p)
<1>0. PICK q, t, o : q = Other(p) /\ t = task[p] /\ o = sa[p]
  OBVIOUS
<1>1. q \in Peers /\ q # p
  BY <1>0, PeersFacts
<1>2. t \in TaskRec /\ TaskOk(t) /\ task \in [Peers -> TaskRec] /\ left \in Bounds
  BY <1>0, LocalFacts, OtherFacts
<1>3. /\ Arrives(q, i) /\ ~air[q][i].req /\ Received(q, i) /\ t.kind = "EMPTY"
      /\ task' = [task EXCEPT ![p] = Idle] /\ UNCHANGED <<sa, queue, jobs, down, nonce, scene, left>>
  BY <1>0 DEF EmptyResponse
<1>4. /\ Read(air'[q], air[q]) /\ air'[p] = air[p] /\ t.sent
      /\ OkIn(air[q]) <=> air[q][i].type = "OK"
      /\ air[q][i].type \in AnswersTo(RequestOf(t).type)
  BY <1>0, <1>3, ReadAir
<1>5. t.del = None /\ ~OkIn(air[q])
  BY <1>2, <1>3, <1>4 DEF TaskOk, RequestOf, Request, AnswersTo
<1>6. task'[p] = Idle /\ task'[q] = task[q]
  BY <1>1, <1>2, <1>3
<1>7. GivesUp(o, t, air[p], air[q], o, Idle, air'[p], air'[q])
  BY <1>3, <1>4, <1>5 DEF GivesUp
<1>8. Chores(p) /\ Falls(p) /\ left'.deletes <= left.deletes
  BY <1>3, <1>6, IdleFacts, SameChores
<1> QED
  BY <1>0, <1>3, <1>6, <1>7, <1>8 DEF Advances, Deed

LEMMA NextAdvances ==
    ASSUME RekeyInv, Agreement, Tame, Budget, \A p \in Peers : Plain(p), Next
    PROVE  \E p \in Peers : Advances(p)
<1>0. PICK p \in Peers : \/ Initiate(p)
                         \/ \E c \in Sas : SoftExpire(p, c) \/ DeleteChild(p, c)
                         \/ Run(p)
                         \/ \E i \in Indices : Deliver(p, i)
  BY DEF Next
<1>1. PICK q \in Peers : q = Other(p) /\ Other(q) = p
  BY PeersFacts
<1>2. CASE Initiate(p)
  BY <1>2, InitiateDeed
<1>3. CASE \E c \in Sas : SoftExpire(p, c) \/ DeleteChild(p, c)
  BY <1>3, SoftExpireDeed, DeleteChildDeed
<1>4. CASE Run(p)
  <2>1. PICK j \in JobSet : RunJob(p, j)
    BY <1>4 DEF Run, JobSet
  <2> QED
    BY <2>1, RunJobDeed
<1>5. ASSUME NEW i \in Indices, Deliver(p, i) PROVE Advances(q)
  <2>1. \/ RespondRekey(p, i) \/ RespondCreate(p, i) \/ RespondDelete(p, i)
        \/ RekeyResponse(q, i) \/ CreateResponse(q, i) \/ DeleteResponse(q, i) \/ EmptyResponse(q, i)
    BY <1>1, <1>5 DEF Deliver
  <2>2. ~CreateResponse(q, i)
    BY DEF CreateResponse, Plain
  <2>3. ~RespondCreate(p, i)
    BY <1>1, RespondCreateDeed
  <2>4. CASE RespondRekey(p, i)
    BY <1>1, <2>4, RespondRekeyDeed
  <2>5. CASE RespondDelete(p, i)
    BY <1>1, <2>5, RespondDeleteDeed
  <2> QED
    BY <2>1, <2>2, <2>3, <2>4, <2>5, RekeyResponseDeed, DeleteResponseDeed, EmptyResponseDeed
<1> QED
  BY <1>0, <1>1, <1>2, <1>3, <1>4, <1>5

\* When every SA can be installed, no CHILD_SA is made anew and no user's deletion
\* is forgotten.
Plainly == Tame => Budget /\ \A p \in Peers : Plain(p)

LEMMA InitPlainly == Init => Plainly
<1>1. SUFFICES ASSUME Init PROVE Budget /\ \A p \in Peers : Plain(p)
  BY DEF Plainly
<1>2. Budget
  <2>1. scene \in Scenario
    BY <1>1, ChildRekeyConstants DEF Init
  <2>2. scene.deletes \in Nat
    BY <2>1 DEF Scenario
  <2>3. left.deletes = scene.deletes
    BY <1>1 DEF Init
  <2> QED
    BY <2>2, <2>3 DEF Budget
<1>3. ASSUME NEW p \in Peers PROVE Plain(p)
  <2>1. task[p] = Idle /\ queue[p] = <<>>
    BY <1>1 DEF Init
  <2>2. DOMAIN <<>> = {}
    OBVIOUS
  <2> QED
    BY <2>1, <2>2, IdleFacts DEF Plain
<1> QED
  BY <1>2, <1>3

LEMMA DeedPlain ==
    ASSUME NEW o, NEW t, NEW a, NEW z, NEW b, NEW s, NEW v, NEW x, NEW y,
           Deed(o, t, a, z, b, s, v, x, y), t.kind # "CREATE", TaskOk(t),
           ~t.sent /\ t.del # None => o[t.del].state = "REKEYED"
    PROVE  v.kind # "CREATE" /\ (~v.sent /\ v.del # None => s[v.del].state = "REKEYED")
<1>0. EmptyTask.kind = "EMPTY" /\ EmptyTask.sent /\ EmptyTask.del = None /\ Idle.kind = "NONE"
      /\ Idle.del = None /\ ~Idle.sent
  BY EmptyFacts, IdleFacts
<1>1. CASE Rests(o, t, a, b, s, v, x, y)
  BY <1>1 DEF Rests
<1>2. CASE Quits(o, t, a, b, s, v, x, y)
  BY <1>0, <1>2 DEF Quits
<1>3. CASE AsksRekey(o, t, a, b, s, v, x, y)
  BY <1>3 DEF AsksRekey
<1>4. CASE AsksDelete(o, t, a, b, s, v, x, y)
  BY <1>4 DEF AsksDelete, SameGoal
<1>5. CASE Denies(o, t, a, z, b, s, v, x, y)
  BY <1>5 DEF Denies
<1>6. CASE Accepts(o, t, a, z, b, s, v, x, y)
  BY <1>0, <1>6 DEF Accepts, SameGoal
<1>7. CASE Obeys(o, t, a, z, b, s, v, x, y)
  BY <1>0, <1>7 DEF Obeys, SameGoal
<1>8. CASE GivesUp(o, t, a, b, s, v, x, y)
  BY <1>0, <1>8 DEF GivesUp
<1>9. CASE Retries(o, t, a, b, s, v, x, y)
  BY <1>9 DEF Retries, SameGoal
<1>10. CASE Succeeds(o, t, a, b, s, v, x, y)
  BY <1>10 DEF Succeeds, SameGoal, Replaces, TaskOk
<1>11. CASE Completes(o, t, a, b, s, v, x, y)
  BY <1>0, <1>11 DEF Completes
<1> QED
  BY <1>1, <1>2, <1>3, <1>4, <1>5, <1>6, <1>7, <1>8, <1>9, <1>10, <1>11 DEF Deed

LEMMA PlainlyNext == RekeyInv /\ Agreement /\ Plainly /\ [Next]_vars => Plainly'
<1>1. SUFFICES ASSUME RekeyInv, Agreement, Plainly, [Next]_vars PROVE Plainly'
  OBVIOUS
<1>2. RekeyInv' /\ Agreement'
  BY <1>1, RekeyNext, AgreementNext
<1>3. ASSUME UNCHANGED vars PROVE Plainly'
  BY <1>1, <1>3 DEF vars, Plainly, Budget, Tame, Overtaking, Plain
<1>4. ASSUME Next PROVE Plainly'
  <2>1. PICK p \in Peers : GoodStep(p)
    BY <1>1, <1>4, NextActs, ActsGood
  <2>2. scene' = scene
    BY <2>1 DEF GoodStep, Moves
  <2>3. left.deletes \in Nat /\ left'.deletes \in Nat /\ scene.deletes \in Nat
    <3>1. left \in Bounds /\ left' \in Bounds /\ scene \in Scenarios
      BY <1>1, <1>2 DEF RekeyInv, LooseType
    <3> QED
      BY <3>1, ChildRekeyConstants DEF Bounds, Scenario
  <2>4. ASSUME Tame PROVE Budget'
    <3>1. PICK u \in Peers : Advances(u)
      BY <1>1, <1>4, <2>4, NextAdvances DEF Plainly
    <3> QED
      BY <1>1, <2>2, <2>3, <2>4, <3>1 DEF Plainly, Budget, Advances
  <2>5. ASSUME Tame, NEW w \in Peers PROVE Plain(w)'
    <3>1. PICK u \in Peers : Advances(u)
      BY <1>1, <1>4, <2>5, NextAdvances DEF Plainly
    <3>2. w = u \/ w = Other(u)
      BY PeersFacts
    <3>3. CASE w = u
      <4>1. /\ task'[u].kind # "CREATE"
            /\ ~task'[u].sent /\ task'[u].del # None => sa'[u][task'[u].del].state = "REKEYED"
        <5>1. TaskOk(task[u]) /\ Plain(u)
          BY <1>1, <2>5 DEF RekeyInv, LocalOk, Plainly
        <5> QED
          BY <3>1, <5>1, DeedPlain DEF Advances, Plain
      <4>2. ~task'[u].failed
        BY <1>2, <2>2, <2>5 DEF Agreement, Tame, Overtaking
      <4> QED
        BY <3>1, <3>3, <4>1, <4>2 DEF Plain, Advances, Chores
    <3>4. CASE w = Other(u)
      BY <1>1, <2>5, <3>1, <3>4 DEF Plain, Plainly, Advances
    <3> QED
      BY <3>2, <3>3, <3>4
  <2> QED
    BY <2>2, <2>4, <2>5 DEF Plainly, Tame, Overtaking
<1> QED
  BY <1>1, <1>3, <1>4

-----------------------------------------------------------------------------
(* The course of the rekeyings, when messages keep their order, none is refused   *)
(* and no user deletes a CHILD_SA.  A peer has the objects s, the task t, the      *)
(* messages a and the CHILD_SAs w to delete, the other one r, z, b.                *)

\* A response other than that to a deletion answers a rekeying.
Fits(t, b) == \A k : Told(b, k) =>
    Tells(b) /\ (k # "OK" => ~OkIn(b)) /\ (k # "DONE" => t.kind = "REKEY" /\ t.del = None)

\* What the invariants above say of the two.
Known(s, t, a, r, z, b) ==
    /\ s \in SaMaps /\ TaskOk(t) /\ Informed(s, t) /\ Shared(s, t, b, r)
    /\ Wants(a) => t.sent
    /\ Tells(b) => t.sent /\ ~Wants(a)
    /\ OkIn(b) => /\ Tells(b) /\ t.kind = "REKEY" /\ t.del = None
                  /\ Working(r, t.new) \/ Deleting(z, t.new)
    /\ Fits(t, b)
    /\ Tells(b) /\ t.del # None => ~Working(r, t.del)
    /\ t.kind = "REKEY" => t.new # z.new
    /\ t.kind = "REKEY" /\ t.del = None /\ ~OkIn(b) =>
          s[t.new].state = "NONE" /\ r[t.new].state = "NONE" /\ z.child # t.new /\ z.del # t.new
    /\ scene.ordered /\ OkIn(b) /\ z.kind = "REKEY" /\ z.del = None /\ z.child = t.new =>
          ~(Wants(b) /\ AsksFirst(b)) /\ ~Tells(a)

\* An object that does not exist is blank; none is its own successor.
Blank(s) == \A c \in Sas :
    (s[c].state = "NONE" => s[c].out = "NONE" /\ s[c].rekey = None) /\ s[c].rekey # c

\* A request is on its way, or its response.
Underway(t, a, b) == t.sent => Wants(a) \/ Tells(b)

\* What is to be made is not there yet.
Unborn(s, t) == t.kind = "REKEY" /\ t.del = None => s[t.new].state = "NONE"

\* Only rekeyed CHILD_SAs are deleted, and those left to delete are not used any more.
Tidy(s, t, r, w) ==
    /\ t.kind \in {"NONE", "EMPTY", "REKEY"}
    /\ \A c \in w : ~Working(s, c) /\ ~Working(r, c)

\* One CHILD_SA that is not about to go takes the outbound traffic.
Serves(s, t) == \E c \in Sas : s[c].out = "INSTALLED" /\ Working(s, c) /\ c # t.del

\* What the other peer agreed to make it does not delete.
Wanted(t, z, b) == OkIn(b) => z.del # t.new

\* What the other peer makes is not used until that has told so by deleting the old one.
Fresh(s, z) == z.kind = "REKEY" /\ z.del # z.child =>
    s[z.new].out # "INSTALLED" /\ s[z.new].rekey = None

\* A CHILD_SA the other peer has rekeyed is known as such to the own rekeying.
Lineage(s, t) ==
    /\ \A c \in Sas : s[c].state \in {"INSTALLED", "REKEYING"} => s[c].rekey = None
    /\ t.kind = "REKEY" =>
         /\ s[t.child].rekey # None =>
              t.coll = "DELETE" \/ (t.coll = "REKEY" /\ t.other = s[t.child].rekey)
         /\ t.del = t.new => s[t.new].rekey = None
         /\ t.del = t.child => t.coll # "DELETE"

\* Only the own deletion leaves a CHILD_SA that is going its outbound SA.
Leaving(s, t) == \A c \in Sas : s[c].state = "DELETING" /\ s[c].out # "NONE" => Deleting(t, c)

\* A rekeying fails only after the deletion it collided with has arrived.
Excused(t, z, b) ==
    /\ ~Told(b, "NO_PROPOSAL")
    /\ Told(b, "TEMPORARY_FAILURE") =>
         t.coll = "DELETE" \/ (Wants(b) /\ AsksFirst(b) /\ Deleting(z, t.child))

\* The CHILD_SA the other peer is rekeying has its new one as the successor, which is
\* there to take over when the deletion of the old one arrives.
Handed(s, t, a, z, b) == z.kind = "REKEY" /\ Working(s, z.child) =>
    /\ OkIn(a) => s[z.child].state = "REKEYED" /\ s[z.child].rekey = z.new
    /\ z.del = z.child /\ (~z.sent \/ Wants(b)) =>
         /\ s[z.child].state = "REKEYED" /\ s[z.child].rekey = z.new
         /\ Working(s, z.new) /\ z.new # t.del

\* Before a CHILD_SA is replaced again, the one it replaces is deleted.
Chained(t, z, b) == z.kind = "REKEY" /\ z.new = t.child /\ OkIn(b) =>
    z.del = z.child /\ z.sent /\ AsksFirst(b)

Course(s, t, a, r, z, b) ==
    /\ Blank(s) /\ Underway(t, a, b) /\ Unborn(s, t) /\ Serves(s, t) /\ Wanted(t, z, b)
    /\ Fresh(s, z) /\ Lineage(s, t) /\ Leaving(s, t)
    /\ Excused(t, z, b) /\ Handed(s, t, a, z, b) /\ Chained(t, z, b)

\* One peer takes a step, by which its objects o, its task t and the messages a and b
\* become s, v, x and y; the other one has the objects r and the task z.
Passing(o, t, a, r, z, b, s, v, x, y) ==
    /\ scene.ordered /\ ~scene.refuses
    /\ t.kind \in {"NONE", "EMPTY", "REKEY"} /\ v.kind \in {"NONE", "EMPTY", "REKEY"}
    /\ z.kind \in {"NONE", "EMPTY", "REKEY"}
    /\ Known(o, t, a, r, z, b) /\ Known(r, z, b, o, t, a)
    /\ Known(s, v, x, r, z, y) /\ Known(r, z, y, s, v, x)
    /\ Course(o, t, a, r, z, b) /\ Course(r, z, b, o, t, a)

LEMMA RestsCourse ==
    ASSUME NEW o, NEW t, NEW a, NEW r, NEW z, NEW b, NEW s, NEW v, NEW x, NEW y,
           Passing(o, t, a, r, z, b, s, v, x, y), Rests(o, t, a, b, s, v, x, y)
    PROVE  Course(s, v, x, r, z, y) /\ Course(r, z, y, s, v, x)
BY DEF Passing, Rests

\* Nothing of the objects o but a CHILD_SA that was being deleted may have changed in s.
Loses(s, o) == \A d \in Sas :
    \/ s[d].state = o[d].state /\ s[d].out = o[d].out /\ s[d].rekey = o[d].rekey
    \/ o[d].state = "DELETING" /\ s[d].state = "NONE" /\ s[d].out = "NONE" /\ s[d].rekey = None

LEMMA QuitsCourse ==
    ASSUME NEW o, NEW t, NEW a, NEW r, NEW z, NEW b, NEW s, NEW v, NEW x, NEW y,
           Passing(o, t, a, r, z, b, s, v, x, y), Quits(o, t, a, b, s, v, x, y)
    PROVE  Course(s, v, x, r, z, y) /\ Course(r, z, y, s, v, x)
<1>1. /\ y = b /\ ~t.sent /\ t.del = None /\ v.del = None /\ v.kind # "REKEY"
      /\ (OkIn(x) <=> OkIn(a)) /\ (Tells(x) <=> Tells(a)) /\ (v.sent => Wants(x))
      /\ \A k : Told(x, k) <=> Told(a, k)
  BY IdleFacts, EmptyFacts DEF Quits, Sends, SameReplies
<1>2. Loses(s, o)
  <2>1. NoSa.state = "NONE" /\ NoSa.out = "NONE" /\ NoSa.rekey = None
    BY DEF NoSa
  <2> QED
    BY <2>1 DEF Quits, Writes, Loses
<1>3. ~Tells(b) /\ ~OkIn(b) /\ ~Wants(a) /\ \A k : ~Told(b, k)
  BY <1>1 DEF Passing, Known, Fits
<1>4. /\ Blank(o) /\ Unborn(o, t) /\ Serves(o, t) /\ Fresh(o, z) /\ Lineage(o, t) /\ Leaving(o, t)
      /\ Handed(o, t, a, z, b) /\ Course(r, z, b, o, t, a)
  BY DEF Passing, Course
<1>5. TaskOk(z) /\ (z.kind = "REKEY" => z.new # None) /\ None \notin Sas
  BY SasFacts DEF Passing, Known, TaskOk
<1>6. Blank(s) /\ Lineage(s, v) /\ Unborn(s, v)
  BY <1>1, <1>2, <1>4, SasFacts DEF Loses, Blank, Lineage, Unborn
<1>7. Serves(s, v)
  BY <1>1, <1>2, <1>4, SasFacts DEF Loses, Serves, Working
<1>8. Fresh(s, z)
  BY <1>2, <1>4, <1>5 DEF Loses, Fresh, TaskOk
<1>9. Leaving(s, v)
  BY <1>1, <1>2, <1>4 DEF Loses, Leaving, Deleting
<1>10. Handed(s, v, x, z, y)
  BY <1>1, <1>2, <1>4, <1>5 DEF Loses, Handed, Working, TaskOk
<1>11. Underway(v, x, y) /\ Wanted(v, z, y) /\ Excused(v, z, y) /\ Chained(v, z, y)
  BY <1>1, <1>3 DEF Underway, Wanted, Excused, Chained
<1>12. Course(r, z, y, s, v, x)
  BY <1>1, <1>3, <1>4 DEF Course, Underway, Wanted, Fresh, Excused, Handed, Chained, Deleting
<1> QED
  BY <1>6, <1>7, <1>8, <1>9, <1>10, <1>11, <1>12 DEF Course

LEMMA AsksRekeyCourse ==
    ASSUME NEW o, NEW t, NEW a, NEW r, NEW z, NEW b, NEW s, NEW v, NEW x, NEW y,
           Passing(o, t, a, r, z, b, s, v, x, y), AsksRekey(o, t, a, b, s, v, x, y)
    PROVE  Course(s, v, x, r, z, y) /\ Course(r, z, y, s, v, x)
<1>1. /\ y = b /\ ~t.sent /\ t.del = None /\ v.del = None /\ v.kind = "REKEY" /\ v.sent
      /\ v.child \in Sas /\ v.new \in Sas \ {v.child}
      /\ (OkIn(x) <=> OkIn(a)) /\ (Tells(x) <=> Tells(a)) /\ Wants(x)
      /\ \A k : Told(x, k) <=> Told(a, k)
  BY DEF AsksRekey, Sends, SameReplies
<1>2. /\ o[v.child].state \in {"INSTALLED", "REKEYING"} /\ s[v.child].state = "REKEYING"
      /\ s[v.child].out = o[v.child].out
      /\ \A d \in Sas : s[d].rekey = o[d].rekey /\ s[d].out = o[d].out
      /\ \A d \in Sas : d # v.child => s[d].state = o[d].state
  BY DEF AsksRekey, Puts
<1>3. ~Tells(b) /\ ~OkIn(b) /\ ~Wants(a) /\ \A k : ~Told(b, k)
  BY <1>1 DEF Passing, Known, Fits
<1>4. /\ Blank(o) /\ Serves(o, t) /\ Fresh(o, z) /\ Lineage(o, t) /\ Leaving(o, t)
      /\ Handed(o, t, a, z, b) /\ Course(r, z, b, o, t, a)
  BY DEF Passing, Course
<1>5. TaskOk(z) /\ None \notin Sas /\ (OkIn(a) => z.kind = "REKEY" /\ z.del = None)
  BY SasFacts DEF Passing, Known
<1>6. /\ s[v.new].state = "NONE" /\ r[v.new].state = "NONE" /\ z.child # v.new /\ z.del # v.new
      /\ z.kind = "REKEY" => z.new # v.new
  BY <1>1, <1>3 DEF Passing, Known
<1>7. Blank(s) /\ Unborn(s, v)
  BY <1>1, <1>2, <1>4, <1>6 DEF Blank, Unborn
<1>8. Serves(s, v)
  BY <1>1, <1>2, <1>4, <1>5 DEF Serves, Working
<1>9. Fresh(s, z)
  BY <1>2, <1>4, <1>5 DEF Fresh, TaskOk
<1>10. Lineage(s, v)
  BY <1>1, <1>2, <1>4, <1>5 DEF Lineage
<1>11. Leaving(s, v)
  BY <1>1, <1>2, <1>4 DEF Leaving, Deleting
<1>12. Handed(s, v, x, z, y)
  BY <1>1, <1>2, <1>4, <1>5 DEF Handed, Working, TaskOk
<1>13. Underway(v, x, y) /\ Wanted(v, z, y) /\ Excused(v, z, y) /\ Chained(v, z, y)
  BY <1>1, <1>3 DEF Underway, Wanted, Excused, Chained
<1>14. Underway(z, y, x) /\ Wanted(z, v, x) /\ Excused(z, v, x) /\ Chained(z, v, x)
  BY <1>1, <1>3, <1>4, <1>5, <1>6 DEF Course, Underway, Wanted, Excused, Chained, Deleting, TaskOk
<1>15. Fresh(r, v) /\ Handed(r, z, y, v, x)
  BY <1>1, <1>3, <1>4, <1>5, <1>6 DEF Course, Blank, Fresh, Handed
<1> QED
  BY <1>4, <1>7, <1>8, <1>9, <1>10, <1>11, <1>12, <1>13, <1>14, <1>15 DEF Course

LEMMA AsksDeleteCourse ==
    ASSUME NEW o, NEW t, NEW a, NEW r, NEW z, NEW b, NEW s, NEW v, NEW x, NEW y,
           Passing(o, t, a, r, z, b, s, v, x, y), AsksDelete(o, t, a, b, s, v, x, y)
    PROVE  Course(s, v, x, r, z, y) /\ Course(r, z, y, s, v, x)
<1>1. /\ y = b /\ ~t.sent /\ v.sent /\ t.kind = "REKEY" /\ v.kind = "REKEY" /\ v.del = t.del
      /\ v.child = t.child /\ v.new = t.new /\ v.coll = t.coll /\ v.other = t.other /\ v.del \in Sas
      /\ (OkIn(x) <=> OkIn(a)) /\ (Tells(x) <=> Tells(a)) /\ Wants(x)
      /\ \A k : Told(x, k) <=> Told(a, k)
  BY DEF AsksDelete, Passing, Sends, SameReplies, SameGoal, SameColl
<1>2. /\ o[v.del].state = "REKEYED" /\ s[v.del].state = "DELETING"
      /\ \A d \in Sas : s[d].rekey = o[d].rekey /\ s[d].out = o[d].out
      /\ \A d \in Sas : d # v.del => s[d].state = o[d].state
  BY <1>1, IdleFacts DEF AsksDelete, Puts
<1>3. ~Tells(b) /\ ~OkIn(b) /\ ~Wants(a) /\ \A k : ~Told(b, k)
  BY <1>1 DEF Passing, Known, Fits
<1>4. /\ Blank(o) /\ Serves(o, t) /\ Fresh(o, z) /\ Lineage(o, t) /\ Leaving(o, t)
      /\ Handed(o, t, a, z, b) /\ Course(r, z, b, o, t, a)
  BY DEF Passing, Course
<1>5. TaskOk(z) /\ TaskOk(t) /\ None \notin Sas /\ (OkIn(a) => z.kind = "REKEY" /\ z.del = None)
  BY SasFacts DEF Passing, Known
<1>7. Blank(s) /\ Unborn(s, v)
  BY <1>1, <1>2, <1>4, <1>5 DEF Blank, Unborn
<1>8. Serves(s, v)
  BY <1>1, <1>2, <1>4, <1>5 DEF Serves, Working
<1>9. Fresh(s, z)
  BY <1>2, <1>4, <1>5 DEF Fresh, TaskOk
<1>10. Lineage(s, v)
  BY <1>1, <1>2, <1>4, <1>5 DEF Lineage, TaskOk
<1>11. Leaving(s, v)
  BY <1>1, <1>2, <1>4 DEF Leaving, Deleting
<1>12. Handed(s, v, x, z, y)
  BY <1>1, <1>2, <1>4, <1>5 DEF Handed, Working, TaskOk
<1>13. Underway(v, x, y) /\ Wanted(v, z, y) /\ Excused(v, z, y) /\ Chained(v, z, y)
  BY <1>1, <1>3 DEF Underway, Wanted, Excused, Chained
<1>14. Underway(z, y, x) /\ Wanted(z, v, x) /\ Excused(z, v, x) /\ Chained(z, v, x)
  BY <1>1, <1>3, <1>4, <1>5 DEF Course, Underway, Wanted, Excused, Chained, Deleting, TaskOk
<1>15. Fresh(r, v) /\ Handed(r, z, y, v, x)
  BY <1>1, <1>3, <1>4, <1>5 DEF Course, Blank, Fresh, Handed
<1> QED
  BY <1>4, <1>7, <1>8, <1>9, <1>10, <1>11, <1>12, <1>13, <1>14, <1>15 DEF Course

\* A rekeying that fails is one that waits for its response.
LEMMA FailureFacts ==
    ASSUME NEW s, NEW t, NEW a, NEW r, NEW z, NEW b, Known(s, t, a, r, z, b),
           Told(b, "TEMPORARY_FAILURE")
    PROVE  t.kind = "REKEY" /\ t.del = None /\ t.sent /\ t.child \in Sas
<1>1. PICK k : k = "TEMPORARY_FAILURE"
  OBVIOUS
<1>2. k # "DONE" /\ Told(b, k)
  BY <1>1
<1>3. t.kind = "REKEY" /\ t.del = None /\ Tells(b)
  <2>1. Fits(t, b)
    BY DEF Known
  <2> QED
    BY <1>2, <2>1 DEF Fits
<1> QED
  BY <1>3 DEF Known, TaskOk

LEMMA DeniesCourse ==
    ASSUME NEW o, NEW t, NEW a, NEW r, NEW z, NEW b, NEW s, NEW v, NEW x, NEW y,
           Passing(o, t, a, r, z, b, s, v, x, y), Denies(o, t, a, z, b, s, v, x, y)
    PROVE  Course(s, v, x, r, z, y) /\ Course(r, z, y, s, v, x)
<1>1. /\ s = o /\ v = t /\ z.sent /\ Wants(b) /\ ~Wants(y) /\ (z.del # None => ~Working(o, z.del))
      /\ (OkIn(y) <=> OkIn(b)) /\ (Tells(y) <=> Tells(b)) /\ \A l : Told(y, l) <=> Told(b, l)
  BY DEF Denies, Served, SameReplies
<1>2. PICK k : /\ ~Tells(a) /\ Tells(x) /\ ~OkIn(x) /\ (Wants(x) <=> Wants(a)) /\ AsksFirst(x)
               /\ \A l : Told(x, l) <=> l = k
               /\ k # "NO_PROPOSAL"
               /\ k = "TEMPORARY_FAILURE" => /\ z.kind = "REKEY" /\ z.del = None
                                             /\ o[z.child].state = "DELETING"
                                             /\ o[z.child].out # "NONE"
  BY DEF Denies, Passing, Replied
<1>3. Course(o, t, a, r, z, b) /\ Course(r, z, b, o, t, a)
  BY DEF Passing
<1>4. TaskOk(z) /\ TaskOk(t) /\ Informed(o, t) /\ Informed(r, z) /\ None \notin Sas
  BY SasFacts DEF Passing, Known
<1>5. AsksFirst(y)
  BY <1>1 DEF AsksFirst, Wants
<1>6. Excused(t, z, y)
  <2>1. ASSUME Told(b, "TEMPORARY_FAILURE") PROVE t.coll = "DELETE"
    <3>1. t.kind = "REKEY" /\ t.del = None /\ t.sent /\ t.child \in Sas
      BY <2>1, FailureFacts DEF Passing
    <3>2. SUFFICES ASSUME Deleting(z, t.child) PROVE t.coll = "DELETE"
      BY <1>3, <2>1 DEF Course, Excused
    <3> QED
      BY <1>1, <1>4, <3>1, <3>2 DEF Deleting, Informed, Working
  <2> QED
    BY <1>1, <1>3, <2>1 DEF Course, Excused
<1>7. Underway(t, x, y) /\ Wanted(t, z, y) /\ Handed(o, t, x, z, y) /\ Chained(t, z, y)
  BY <1>1, <1>2, <1>3, <1>5 DEF Course, Underway, Wanted, Handed, Chained
<1>8. Excused(z, t, x)
  <2>1. ASSUME k = "TEMPORARY_FAILURE", z.coll # "DELETE" PROVE Wants(x) /\ Deleting(t, z.child)
    <3>1. z.child \in Sas /\ Working(r, z.child)
      BY <1>1, <1>2, <1>4, <2>1 DEF TaskOk, Informed, Working
    <3>2. Deleting(t, z.child)
      BY <1>2, <1>3, <2>1, <3>1 DEF Course, Leaving
    <3>3. ~Tells(b)
      BY <1>4, <3>1, <3>2 DEF Passing, Known, Deleting
    <3> QED
      BY <1>2, <1>3, <3>2, <3>3 DEF Course, Underway, Deleting
  <2> QED
    BY <1>2, <2>1 DEF Excused
<1>9. Underway(z, y, x) /\ Wanted(z, t, x) /\ Handed(r, z, y, t, x) /\ Chained(z, t, x)
  BY <1>1, <1>2, <1>3 DEF Course, Underway, Wanted, Handed, Chained
<1> QED
  BY <1>1, <1>3, <1>6, <1>7, <1>8, <1>9 DEF Course

LEMMA AcceptsCourse ==
    ASSUME NEW o, NEW t, NEW a, NEW r, NEW z, NEW b, NEW s, NEW v, NEW x, NEW y,
           Passing(o, t, a, r, z, b, s, v, x, y), Accepts(o, t, a, z, b, s, v, x, y)
    PROVE  Course(s, v, x, r, z, y) /\ Course(r, z, y, s, v, x)
<1>1. /\ z.sent /\ z.kind = "REKEY" /\ z.del = None /\ z.child \in Sas /\ z.new \in Sas \ {z.child}
      /\ Wants(b) /\ AsksFirst(b) /\ ~Wants(y) /\ (t.sent \/ t = Idle)
      /\ (OkIn(y) <=> OkIn(b)) /\ (Tells(y) <=> Tells(b)) /\ \A l : Told(y, l) <=> Told(b, l)
  BY DEF Accepts, Passing, Served, SameReplies
<1>2. /\ ~Tells(a) /\ Tells(x) /\ OkIn(x) /\ (Wants(x) <=> Wants(a)) /\ AsksFirst(x)
      /\ \A l : Told(x, l) <=> l = "OK"
  BY DEF Accepts, Replied
<1>3. Course(o, t, a, r, z, b) /\ Course(r, z, b, o, t, a)
  BY DEF Passing
<1>4. TaskOk(z) /\ TaskOk(t) /\ Informed(o, t) /\ Informed(r, z) /\ None \notin Sas
  BY SasFacts DEF Passing, Known
<1>5. AsksFirst(y)
  BY <1>1 DEF AsksFirst, Wants
<1>6. /\ v.kind = t.kind /\ v.child = t.child /\ v.new = t.new /\ v.sent = t.sent /\ v.del = t.del
      /\ t.kind = "REKEY" /\ t.child = z.child => v.coll = "REKEY" /\ v.other = z.new
      /\ ~(t.kind = "REKEY" /\ t.child = z.child) => v.coll = t.coll /\ v.other = t.other
  BY DEF Accepts, SameGoal, SameColl
<1>7. /\ s[z.new].state = "INSTALLED" /\ s[z.new].out = "REGISTERED" /\ s[z.new].rekey = None
      /\ Working(o, z.child) /\ s[z.child].state = "REKEYED" /\ s[z.child].out = o[z.child].out
      /\ s[z.child].rekey = z.new
      /\ \A d \in Sas : d \notin {z.child, z.new} => s[d] = o[d]
  BY DEF Accepts, Replaced, NewSa
<1>8. /\ ~OkIn(a) /\ o[z.new].state = "NONE" /\ r[z.new].state = "NONE" /\ t.child # z.new
      /\ t.del # z.new /\ t.new # z.new
  BY <1>1, <1>2 DEF Passing, Known
<1>9. t.del # None => t.del # z.child
  <2>1. ASSUME t.del # None PROVE t.sent /\ ~Working(o, t.del)
    BY <1>1, <1>4, <2>1, IdleFacts DEF Informed, Working
  <2> QED
    BY <1>7, <2>1
<1>10. Blank(s)
  BY <1>1, <1>3, <1>4, <1>7 DEF Course, Blank
<1>11. Unborn(s, v)
  BY <1>1, <1>3, <1>4, <1>6, <1>7, <1>8 DEF Course, Unborn, Working, TaskOk
<1>12. Serves(s, v)
  BY <1>3, <1>6, <1>7, <1>8 DEF Course, Serves, Working
<1>13. Fresh(s, z)
  BY <1>7 DEF Fresh
<1>14. Lineage(s, v)
  BY <1>1, <1>3, <1>4, <1>6, <1>7, <1>8, <1>9 DEF Course, Lineage, TaskOk
<1>15. Leaving(s, v)
  BY <1>1, <1>3, <1>6, <1>7 DEF Course, Leaving, Deleting
<1>16. Excused(v, z, y)
  <2>1. ASSUME Told(b, "TEMPORARY_FAILURE") PROVE v.coll = "DELETE"
    <3>1. t.kind = "REKEY" /\ t.del = None /\ t.sent /\ t.child \in Sas
      BY <2>1, FailureFacts DEF Passing
    <3>2. t.coll = "DELETE"
      BY <1>1, <1>3, <1>4, <2>1, <3>1 DEF Course, Excused, Deleting
    <3> QED
      BY <1>4, <1>6, <1>7, <3>1, <3>2 DEF Informed
  <2> QED
    BY <1>1, <1>3, <2>1 DEF Course, Excused
<1>17. Underway(v, x, y) /\ Wanted(v, z, y) /\ Handed(s, v, x, z, y) /\ Chained(v, z, y)
  BY <1>1, <1>2, <1>3, <1>5, <1>6, <1>7, <1>8 DEF Course, Underway, Wanted, Handed, Chained
<1>18. Underway(z, y, x) /\ Excused(z, v, x) /\ Wanted(z, v, x) /\ Fresh(r, v) /\ Handed(r, z, y, v, x)
  BY <1>1, <1>2, <1>3, <1>6, <1>8 DEF Course, Underway, Excused, Wanted, Fresh, Handed
<1>19. Chained(z, v, x)
  <2>1. SUFFICES ASSUME t.kind = "REKEY", t.new = z.child PROVE t.del = t.child /\ t.sent
    BY <1>2, <1>6 DEF Chained
  <2>2. t.sent
    BY <1>1, <2>1, IdleFacts
  <2>3. t.del # None
    <3>1. SUFFICES ASSUME t.del = None PROVE FALSE
      OBVIOUS
    <3>2. ~OkIn(b)
      BY <1>1, <2>1, <3>1 DEF Passing, Known
    <3> QED
      BY <1>1, <1>7, <2>1, <3>1, <3>2 DEF Passing, Known, Working
  <2> QED
    BY <1>4, <1>9, <2>1, <2>2, <2>3 DEF TaskOk
<1> QED
  BY <1>3, <1>10, <1>11, <1>12, <1>13, <1>14, <1>15, <1>16, <1>17, <1>18, <1>19 DEF Course

LEMMA ObeysCourse ==
    ASSUME NEW o, NEW t, NEW a, NEW r, NEW z, NEW b, NEW s, NEW v, NEW x, NEW y,
           Passing(o, t, a, r, z, b, s, v, x, y), Obeys(o, t, a, z, b, s, v, x, y)
    PROVE  Course(s, v, x, r, z, y) /\ Course(r, z, y, s, v, x)
<1>1. /\ z.sent /\ z.del \in Sas /\ Wants(b) /\ ~Wants(y) /\ (t.sent \/ t = Idle) /\ Working(o, z.del)
      /\ (OkIn(y) <=> OkIn(b)) /\ (Tells(y) <=> Tells(b)) /\ \A l : Told(y, l) <=> Told(b, l)
  BY DEF Obeys, Served, SameReplies
<1>2. /\ ~Tells(a) /\ Tells(x) /\ ~OkIn(x) /\ (Wants(x) <=> Wants(a)) /\ AsksFirst(x)
      /\ \A l : Told(x, l) <=> l = "DONE"
  BY DEF Obeys, Replied
<1>3. Course(o, t, a, r, z, b) /\ Course(r, z, b, o, t, a)
  BY DEF Passing
<1>4. TaskOk(z) /\ TaskOk(t) /\ Informed(o, t) /\ Informed(r, z) /\ None \notin Sas
  BY SasFacts DEF Passing, Known
<1>5. AsksFirst(y)
  BY <1>1 DEF AsksFirst, Wants
<1>6. /\ z.kind = "REKEY" /\ z.del \in {z.child, z.new} /\ z.child \in Sas /\ z.new \in Sas \ {z.child}
      /\ t.del # z.del
  <2>1. z.kind = "REKEY"
    BY <1>1, <1>4, IdleFacts DEF Passing, TaskOk
  <2>2. ASSUME t.del = z.del PROVE FALSE
    BY <1>1, <1>4, <2>2, IdleFacts DEF Informed, Working
  <2> QED
    BY <1>1, <1>4, <2>1, <2>2 DEF TaskOk
<1>7. /\ v.kind = t.kind /\ v.child = t.child /\ v.new = t.new /\ v.sent = t.sent /\ v.del = t.del
      /\ t.coll = "DELETE" => v.coll = "DELETE"
      /\ t.kind = "REKEY" /\ t.child = z.del => v.coll = "DELETE"
      /\ ~(t.kind = "REKEY" /\ t.child = z.del) => v.coll = t.coll /\ v.other = t.other
  BY <1>4 DEF Obeys, SameGoal, SameColl, IsRedundant, TaskOk
<1>8. /\ z.del = z.child => /\ o[z.child].state = "REKEYED" /\ o[z.child].rekey = z.new
                            /\ Working(o, z.new) /\ z.new # t.del
      /\ z.del # z.child => o[z.new].out # "INSTALLED" /\ o[z.new].rekey = None
  BY <1>1, <1>3, <1>6 DEF Course, Handed, Fresh
<1>9. /\ s[z.del].state \in {"NONE", "DELETING"} /\ s[z.del].out = "NONE"
      /\ s[z.del].rekey = None \/ (s[z.del].state # "NONE" /\ s[z.del].rekey = o[z.del].rekey)
      /\ \A d \in Sas : d # z.del => /\ s[d].state = o[d].state /\ s[d].rekey = o[d].rekey
                                     /\ s[d].out = o[d].out \/ (d = z.new /\ s[d].out = "INSTALLED")
      /\ z.del = z.child => s[z.new].out = "INSTALLED"
  <2>1. PICK moved \in BOOLEAN : moved <=> o[z.del].state = "REKEYED" \/ IsRedundant(t, z.del)
    BY DEF IsRedundant
  <2>2. Ceases(s, o, z.del, moved)
    BY <2>1 DEF Obeys, Ceases
  <2>3. NoSa.state = "NONE" /\ NoSa.out = "NONE" /\ NoSa.rekey = None
    BY DEF NoSa
  <2>4. z.del = z.child => moved /\ o[z.new].state # "NONE"
    BY <1>8, <2>1 DEF Working
  <2>5. z.del # z.child => z.del = z.new /\ o[z.del].rekey \notin Sas
    BY <1>4, <1>6, <1>8
  <2>6. /\ s[z.del].state \in {"NONE", "DELETING"} /\ s[z.del].out = "NONE"
        /\ s[z.del].rekey = None \/ (s[z.del].state # "NONE" /\ s[z.del].rekey = o[z.del].rekey)
    BY <2>2, <2>3 DEF Ceases
  <2>7. z.del = z.child => s[z.new].out = "INSTALLED"
    BY <1>6, <1>8, <2>2, <2>4 DEF Ceases
  <2>8. ASSUME NEW d \in Sas, d # z.del
        PROVE  /\ s[d].state = o[d].state /\ s[d].rekey = o[d].rekey
               /\ s[d].out = o[d].out \/ (d = z.new /\ s[d].out = "INSTALLED")
    BY <1>6, <1>8, <2>2, <2>5, <2>8 DEF Ceases
  <2> QED
    BY <2>6, <2>7, <2>8
<1>10. Blank(s)
  BY <1>1, <1>3, <1>4, <1>6, <1>8, <1>9 DEF Course, Blank, Working
<1>11. Unborn(s, v)
  BY <1>1, <1>3, <1>4, <1>7, <1>9 DEF Course, Unborn, Working, TaskOk
<1>12. Serves(s, v)
  <2>1. PICK c \in Sas : o[c].out = "INSTALLED" /\ Working(o, c) /\ c # t.del
    BY <1>3 DEF Course, Serves
  <2>2. CASE z.del = z.child
    BY <1>6, <1>7, <1>8, <1>9, <2>2 DEF Serves, Working
  <2>3. CASE z.del # z.child
    BY <1>6, <1>7, <1>8, <1>9, <2>1, <2>3 DEF Serves, Working
  <2> QED
    BY <2>2, <2>3
<1>13. Fresh(s, z)
  BY <1>6, <1>8, <1>9 DEF Fresh
<1>14. Lineage(s, v)
  BY <1>1, <1>3, <1>4, <1>6, <1>7, <1>9 DEF Course, Lineage, TaskOk
<1>15. Leaving(s, v)
  BY <1>1, <1>3, <1>6, <1>7, <1>8, <1>9 DEF Course, Leaving, Deleting, Working
<1>16. Excused(v, z, y)
  <2>1. ASSUME Told(b, "TEMPORARY_FAILURE") PROVE v.coll = "DELETE"
    <3>1. t.kind = "REKEY"
      BY <2>1, FailureFacts DEF Passing
    <3> QED
      BY <1>3, <1>7, <2>1, <3>1 DEF Course, Excused, Deleting
  <2> QED
    BY <1>1, <1>3, <2>1 DEF Course, Excused
<1>17. Underway(v, x, y) /\ Wanted(v, z, y) /\ Handed(s, v, x, z, y) /\ Chained(v, z, y)
  BY <1>1, <1>2, <1>3, <1>5, <1>7 DEF Course, Underway, Wanted, Handed, Chained
<1>18. /\ Underway(z, y, x) /\ Excused(z, v, x) /\ Wanted(z, v, x) /\ Fresh(r, v)
       /\ Handed(r, z, y, v, x) /\ Chained(z, v, x)
  BY <1>1, <1>2, <1>3, <1>7 DEF Course, Underway, Excused, Wanted, Fresh, Handed, Chained
<1> QED
  BY <1>3, <1>10, <1>11, <1>12, <1>13, <1>14, <1>15, <1>16, <1>17, <1>18 DEF Course

LEMMA GivesUpCourse ==
    ASSUME NEW o, NEW t, NEW a, NEW r, NEW z, NEW b, NEW s, NEW v, NEW x, NEW y,
           Passing(o, t, a, r, z, b, s, v, x, y), GivesUp(o, t, a, b, s, v, x, y)
    PROVE  s = o /\ Course(s, v, x, r, z, y) /\ Course(r, z, y, s, v, x)
<1>1. /\ x = a /\ v = Idle /\ t.sent /\ t.del = None /\ ~OkIn(b) /\ Tells(b)
      /\ ~Tells(y) /\ ~OkIn(y) /\ (\A k : ~Told(y, k)) /\ (Wants(y) <=> Wants(b))
      /\ ~Wants(b) \/ ~AsksFirst(b)
  BY DEF GivesUp, Passing, Read
<1>2. Course(o, t, a, r, z, b) /\ Course(r, z, b, o, t, a)
  BY DEF Passing
<1>3. TaskOk(z) /\ TaskOk(t) /\ None \notin Sas
  BY SasFacts DEF Passing, Known
<1>4. s = o
  <2>1. ~Told(b, "NO_PROPOSAL") /\ (Told(b, "TEMPORARY_FAILURE") => t.coll = "DELETE")
    BY <1>1, <1>2 DEF Course, Excused
  <2> QED
    BY <2>1 DEF GivesUp
<1>5. ~Wants(a) /\ (OkIn(a) => z.kind = "REKEY")
  BY <1>1 DEF Passing, Known
<1>6. v.kind = "NONE" /\ v.del = None /\ ~v.sent
  BY <1>1, IdleFacts
<1>7. /\ Underway(v, x, y) /\ Unborn(s, v) /\ Serves(s, v) /\ Wanted(v, z, y)
      /\ Lineage(s, v) /\ Leaving(s, v) /\ Excused(v, z, y) /\ Chained(v, z, y)
  BY <1>1, <1>2, <1>3, <1>4, <1>6 DEF Course, Underway, Unborn, Serves, Wanted, Lineage, Leaving, Excused,
     Chained, Deleting
<1>8. Handed(s, v, x, z, y)
  BY <1>1, <1>2, <1>3, <1>4, <1>6 DEF Course, Handed, TaskOk
<1>9. /\ Underway(z, y, x) /\ Excused(z, v, x) /\ Wanted(z, v, x) /\ Fresh(r, v)
      /\ Handed(r, z, y, v, x) /\ Chained(z, v, x)
  BY <1>1, <1>2, <1>3, <1>5, <1>6 DEF Course, Underway, Excused, Wanted, Fresh, Handed, Chained, TaskOk
<1> QED
  BY <1>2, <1>4, <1>7, <1>8, <1>9 DEF Course

LEMMA RetriesCourse ==
    ASSUME NEW o, NEW t, NEW a, NEW r, NEW z, NEW b, NEW s, NEW v, NEW x, NEW y,
           Passing(o, t, a, r, z, b, s, v, x, y), Retries(o, t, a, b, s, v, x, y)
    PROVE  Course(s, v, x, r, z, y) /\ Course(r, z, y, s, v, x)
<1>1. /\ x = a /\ s = o /\ t.sent /\ t.kind = "REKEY" /\ t.del = None /\ ~OkIn(b) /\ Tells(b)
      /\ ~Tells(y) /\ ~OkIn(y) /\ (\A k : ~Told(y, k)) /\ (Wants(y) <=> Wants(b))
      /\ ~v.sent /\ v.kind = "REKEY" /\ v.child = t.child /\ v.new = t.new /\ v.del = None
      /\ v.coll = t.coll /\ v.other = t.other
  BY DEF Retries, Read, SameGoal, SameColl
<1>2. Course(o, t, a, r, z, b) /\ Course(r, z, b, o, t, a)
  BY DEF Passing
<1>3. TaskOk(z) /\ TaskOk(t) /\ None \notin Sas
  BY SasFacts DEF Passing, Known
<1>4. ~Wants(a) /\ (OkIn(a) => z.kind = "REKEY")
  BY <1>1 DEF Passing, Known
<1>5. /\ Underway(v, x, y) /\ Unborn(s, v) /\ Serves(s, v) /\ Wanted(v, z, y)
      /\ Lineage(s, v) /\ Leaving(s, v) /\ Excused(v, z, y) /\ Chained(v, z, y)
  BY <1>1, <1>2, <1>3 DEF Course, Underway, Unborn, Serves, Wanted, Lineage, Leaving, Excused,
     Chained, Deleting
<1>6. Handed(s, v, x, z, y)
  BY <1>1, <1>2, <1>3 DEF Course, Handed, TaskOk
<1>7. /\ Underway(z, y, x) /\ Excused(z, v, x) /\ Wanted(z, v, x) /\ Fresh(r, v)
      /\ Handed(r, z, y, v, x) /\ Chained(z, v, x)
  BY <1>1, <1>2, <1>3, <1>4 DEF Course, Underway, Excused, Wanted, Fresh, Handed, Chained, TaskOk, Deleting
<1> QED
  BY <1>1, <1>2, <1>5, <1>6, <1>7 DEF Course

LEMMA SucceedsCourse ==
    ASSUME NEW o, NEW t, NEW a, NEW r, NEW z, NEW b, NEW s, NEW v, NEW x, NEW y,
           Passing(o, t, a, r, z, b, s, v, x, y), Succeeds(o, t, a, b, s, v, x, y)
    PROVE  Course(s, v, x, r, z, y) /\ Course(r, z, y, s, v, x)
<1>0. PICK won \in BOOLEAN : won = Wins(t) /\ (won => t.coll # "DELETE")
  BY DEF Wins
<1>1. /\ x = a /\ t.sent /\ t.kind = "REKEY" /\ t.del = None /\ OkIn(b) /\ Tells(b)
      /\ ~Tells(y) /\ ~OkIn(y) /\ (\A k : ~Told(y, k)) /\ (Wants(y) <=> Wants(b))
      /\ ~Wants(b) \/ ~AsksFirst(b)
      /\ ~v.sent /\ v.kind = "REKEY" /\ v.child = t.child /\ v.new = t.new
      /\ v.del = (IF won THEN t.child ELSE t.new) /\ v.coll = t.coll /\ v.other = t.other
  BY <1>0 DEF Succeeds, Passing, Read, SameGoal, SameColl
<1>2. Course(o, t, a, r, z, b) /\ Course(r, z, b, o, t, a)
  BY DEF Passing
<1>3. TaskOk(z) /\ TaskOk(t) /\ None \notin Sas /\ Informed(o, t)
  BY SasFacts DEF Passing, Known
<1>4. /\ t.child \in Sas /\ t.new \in Sas \ {t.child} /\ t.new # z.new
      /\ t.coll = "REKEY" => t.other \in Sas \ {t.child, t.new}
      /\ z.kind = "REKEY" => z.child \in Sas /\ z.new \in Sas \ {z.child}
  BY <1>1, <1>3 DEF Passing, Known, TaskOk
<1>5. o[t.new].state = "NONE" /\ z.del # t.new /\ Working(r, t.new) /\ ~Wants(a)
  BY <1>1, <1>2 DEF Course, Unborn, Wanted, Passing, Known, Deleting
<1>6. /\ s[t.new].rekey = None
      /\ IF won THEN s[t.new].state = "INSTALLED" /\ s[t.new].out = "INSTALLED"
                ELSE s[t.new].state = "REKEYED" /\ s[t.new].out = "REGISTERED"
      /\ \A d \in Sas \ {t.new} :
            /\ s[d].out = o[d].out /\ s[d].rekey = o[d].rekey /\ (Working(s, d) <=> Working(o, d))
            /\ s[d].state = o[d].state \/ (s[d].state = "REKEYED" /\ Working(o, d))
  <2>1. Replaces(s, o, t)
    BY DEF Succeeds
  <2>2. won => Working(o, t.child) /\ (t.coll = "REKEY" /\ ~t.gone => Working(o, t.other))
    BY <1>0, <1>1, <1>3 DEF Informed, Working
  <2>3. ASSUME NEW d \in Sas \ {t.new}
        PROVE  /\ s[d].out = o[d].out /\ s[d].rekey = o[d].rekey
               /\ s[d].state = o[d].state \/ (s[d].state = "REKEYED" /\ Working(o, d))
    BY <1>0, <2>1, <2>2 DEF Replaces
  <2> QED
    BY <1>0, <2>1, <2>3 DEF Replaces, Working
<1>7. Blank(s)
  BY <1>2, <1>3, <1>4, <1>6 DEF Course, Blank, Working
<1>8. Serves(s, v)
  <2>1. PICK c \in Sas : o[c].out = "INSTALLED" /\ Working(o, c) /\ c # t.del
    BY <1>2 DEF Course, Serves
  <2>2. c # t.new
    BY <1>5, <2>1 DEF Working
  <2>3. CASE won
    BY <1>1, <1>4, <1>6, <2>3 DEF Serves, Working
  <2>4. CASE ~won
    BY <1>1, <1>6, <2>1, <2>2, <2>4 DEF Serves
  <2> QED
    BY <2>3, <2>4
<1>9. Fresh(s, z)
  BY <1>2, <1>4, <1>6 DEF Course, Fresh
<1>10. Lineage(s, v)
  BY <1>0, <1>1, <1>2, <1>4, <1>6 DEF Course, Lineage
<1>11. Leaving(s, v)
  BY <1>1, <1>2, <1>3, <1>4, <1>6 DEF Course, Leaving, Deleting
<1>12. /\ Underway(v, x, y) /\ Unborn(s, v) /\ Wanted(v, z, y) /\ Excused(v, z, y)
       /\ Chained(v, z, y)
  BY <1>1, <1>3, <1>4 DEF Underway, Unborn, Wanted, Excused, Chained
<1>13. Handed(s, v, x, z, y)
  <2>1. SUFFICES ASSUME z.kind = "REKEY", Working(s, z.child)
                 PROVE  /\ OkIn(a) => s[z.child].state = "REKEYED" /\ s[z.child].rekey = z.new
                        /\ z.del = z.child /\ (~z.sent \/ Wants(b)) =>
                              /\ s[z.child].state = "REKEYED" /\ s[z.child].rekey = z.new
                              /\ Working(s, z.new) /\ z.new # v.del
    BY <1>1 DEF Handed
  <2>2. z.child = t.new => ~OkIn(a) /\ z.del # z.child
    BY <1>1, <1>5, <2>1 DEF Passing, Known
  <2>3. z.child # t.new => Working(o, z.child)
    BY <1>4, <1>6, <2>1
  <2>4. z.new = t.child => z.sent /\ ~Wants(b)
    BY <1>1, <1>2, <2>1 DEF Course, Chained
  <2>5. z.new # t.child => z.new # v.del
    BY <1>1, <1>4
  <2>6. Handed(o, t, a, z, b)
    BY <1>2 DEF Course
  <2> QED
    BY <1>4, <1>6, <2>1, <2>2, <2>3, <2>4, <2>5, <2>6 DEF Handed
<1>14. Underway(z, y, x) /\ Excused(z, v, x) /\ Fresh(r, v) /\ Chained(z, v, x)
  BY <1>1, <1>2, <1>3, <1>4, <1>5 DEF Course, Underway, Excused, Fresh, Chained
<1>15. Wanted(z, v, x)
  BY <1>1, <1>4 DEF Wanted, Passing, Known
<1>16. Handed(r, z, y, v, x)
  BY <1>1, <1>2, <1>4, <1>5 DEF Course, Handed
<1> QED
  BY <1>2, <1>7, <1>8, <1>9, <1>10, <1>11, <1>12, <1>13, <1>14, <1>15, <1>16 DEF Course

LEMMA CompletesCourse ==
    ASSUME NEW o, NEW t, NEW a, NEW r, NEW z, NEW b, NEW s, NEW v, NEW x, NEW y,
           Passing(o, t, a, r, z, b, s, v, x, y), Completes(o, t, a, b, s, v, x, y)
    PROVE  Course(s, v, x, r, z, y) /\ Course(r, z, y, s, v, x)
<1>1. /\ x = a /\ v = Idle /\ t.sent /\ t.del \in Sas /\ Tells(b)
      /\ ~Tells(y) /\ ~OkIn(y) /\ (\A k : ~Told(y, k)) /\ (Wants(y) <=> Wants(b))
  BY DEF Completes, Read
<1>2. Course(o, t, a, r, z, b) /\ Course(r, z, b, o, t, a)
  BY DEF Passing
<1>3. TaskOk(z) /\ TaskOk(t) /\ None \notin Sas /\ Informed(o, t)
  BY SasFacts DEF Passing, Known
<1>4. v.kind = "NONE" /\ v.del = None /\ ~v.sent
  BY <1>1, IdleFacts
<1>5. t.kind = "REKEY" /\ ~Wants(a) /\ (OkIn(a) => z.kind = "REKEY") /\ o[t.del].state = "DELETING"
  BY <1>1, <1>3, IdleFacts DEF Passing, Known, TaskOk, Informed
<1>6. o[t.del].rekey = None \/ IsRedundant(t, o[t.del].rekey)
  BY <1>1, <1>2, <1>3, <1>5 DEF Course, Lineage, TaskOk, IsRedundant
<1>7. /\ s[t.del].state \in {"NONE", "DELETING"} /\ s[t.del].out = "NONE"
      /\ s[t.del].rekey = None \/ (s[t.del].state # "NONE" /\ s[t.del].rekey = o[t.del].rekey)
      /\ \A d \in Sas : d # t.del => s[d].state = o[d].state /\ s[d].rekey = o[d].rekey /\ s[d].out = o[d].out
  <2>1. PICK moved \in BOOLEAN : moved <=> t.rekeyed /\ ~IsRedundant(t, o[t.del].rekey)
    OBVIOUS
  <2>2. Ceases(s, o, t.del, moved)
    BY <2>1 DEF Completes, Ceases
  <2>3. NoSa.state = "NONE" /\ NoSa.out = "NONE" /\ NoSa.rekey = None
    BY DEF NoSa
  <2>4. ~(moved /\ o[t.del].rekey \in Sas)
    BY <1>3, <1>6, <2>1
  <2> QED
    BY <2>2, <2>3, <2>4 DEF Ceases
<1>8. Blank(s) /\ Unborn(s, v) /\ Lineage(s, v)
  BY <1>1, <1>2, <1>3, <1>4, <1>7 DEF Course, Blank, Unborn, Lineage
<1>9. Serves(s, v)
  BY <1>2, <1>3, <1>4, <1>7 DEF Course, Serves, Working
<1>10. Fresh(s, z)
  BY <1>2, <1>3, <1>7 DEF Course, Fresh, TaskOk
<1>11. Leaving(s, v)
  BY <1>2, <1>4, <1>7 DEF Course, Leaving, Deleting
<1>12. Handed(s, v, x, z, y)
  BY <1>1, <1>2, <1>3, <1>4, <1>7 DEF Course, Handed, Working, TaskOk
<1>13. Underway(v, x, y) /\ Wanted(v, z, y) /\ Excused(v, z, y) /\ Chained(v, z, y)
  BY <1>1, <1>4 DEF Underway, Wanted, Excused, Chained
<1>14. /\ Underway(z, y, x) /\ Excused(z, v, x) /\ Wanted(z, v, x) /\ Fresh(r, v)
       /\ Handed(r, z, y, v, x) /\ Chained(z, v, x)
  BY <1>1, <1>2, <1>3, <1>4, <1>5 DEF Course, Underway, Excused, Wanted, Fresh, Handed, Chained, TaskOk
<1> QED
  BY <1>2, <1>8, <1>9, <1>10, <1>11, <1>12, <1>13, <1>14 DEF Course

\* A step keeps to the course.
LEMMA DeedCourse ==
    ASSUME NEW o, NEW t, NEW a, NEW r, NEW z, NEW b, NEW s, NEW v, NEW x, NEW y,
           Passing(o, t, a, r, z, b, s, v, x, y), Deed(o, t, a, z, b, s, v, x, y)
    PROVE  Course(s, v, x, r, z, y) /\ Course(r, z, y, s, v, x)
BY RestsCourse, QuitsCourse, AsksRekeyCourse, AsksDeleteCourse, DeniesCourse, AcceptsCourse, ObeysCourse,
   GivesUpCourse, RetriesCourse, SucceedsCourse, CompletesCourse DEF Deed

LEMMA KnownFacts ==
    ASSUME RekeyInv, Agreement, Tame, NEW p \in Peers, NEW q, q = Other(p), Plain(p), Plain(q)
    PROVE  Known(sa[p], task[p], air[p], sa[q], task[q], air[q])
<1>0. PICK s, t, a, r, z, b : /\ s = sa[p] /\ t = task[p] /\ a = air[p]
                              /\ r = sa[q] /\ z = task[q] /\ b = air[q]
  OBVIOUS
<1>1. q \in Peers /\ q # p /\ Other(q) = p
  BY PeersFacts
<1>2. /\ s \in SaMaps /\ t \in TaskRec /\ TaskOk(t) /\ Informed(s, t)
      /\ z \in TaskRec /\ TaskOk(z) /\ None \notin Sas
  BY <1>0, <1>1, LocalFacts, SasFacts
<1>3. /\ Shared(s, t, b, r) /\ Dropped(t, b, r) /\ ~t.failed /\ ~z.failed
      /\ Offered(scene, t, a, b, r, z, queue[q], jobs[q])
  BY <1>0, <1>1 DEF Agreement, Agreed
<1>4. ASSUME NEW i \in Asked(a) PROVE t.sent /\ ~Tells(b)
  BY <1>0, <1>1, <1>4, AskedFacts DEF Matches, Tells
<1>5. ASSUME NEW i \in Replies(b)
      PROVE  /\ t.sent /\ b[i].type \in AnswersTo(RequestOf(t).type) /\ \A j \in Replies(b) : j = i
             /\ b[i].child = RequestOf(t).child
  BY <1>0, <1>5, RepliedFacts DEF Matches
<1>6. t.kind # "CREATE" /\ z.kind # "CREATE"
  BY <1>0 DEF Plain
<1>7. Wants(a) => t.sent /\ ~Tells(b)
  BY <1>4 DEF Wants
<1>8. Tells(b) => t.sent /\ ~Wants(a)
  BY <1>5, <1>7 DEF Tells
<1>9. ASSUME NEW k, Told(b, k)
      PROVE  /\ Tells(b) /\ (k # "OK" => ~OkIn(b))
             /\ k # "DONE" => t.kind = "REKEY" /\ t.del = None
  <2>1. PICK i \in Replies(b) : b[i].type = k
    BY <1>9 DEF Told
  <2>2. Tells(b) /\ (k # "OK" => ~OkIn(b))
    BY <1>5, <2>1 DEF Tells, OkIn
  <2>3. ASSUME k # "DONE" PROVE t.kind = "REKEY" /\ t.del = None
    <3>1. t.sent /\ k \in AnswersTo(RequestOf(t).type)
      BY <1>5, <2>1
    <3>2. RequestOf(t).type \notin {"DELETE", "EMPTY"}
      BY <2>3, <3>1 DEF AnswersTo
    <3>3. RequestOf(t).type \in {"REKEY", "CREATE", "DELETE", "EMPTY"}
      BY <1>2, <3>1, RequestKinds
    <3> QED
      BY <1>2, <1>6, <3>1, <3>2, <3>3, RequestKinds
  <2> QED
    BY <2>2, <2>3
<1>10. Fits(t, b)
  BY <1>9 DEF Fits
<1>11. OkIn(b) => Told(b, "OK") /\ Tells(b)
  BY DEF OkIn, Told, Tells
<1>12. OkIn(b) => t.kind = "REKEY" /\ t.del = None
  BY <1>9, <1>11
<1>13. OkIn(b) => Working(r, t.new) \/ Deleting(z, t.new)
  BY <1>3 DEF Offered
<1>14. Tells(b) /\ t.del # None => ~Working(r, t.del)
  <2>1. t.del # None => t.del \in Sas
    BY <1>2 DEF TaskOk, TaskRec, SaNumbers
  <2> QED
    BY <1>3, <1>8, <2>1 DEF Dropped, Tells, Deleting
<1>15. ASSUME t.kind = "REKEY" PROVE t.new # z.new
  <2>1. t.new \in Sas
    BY <1>2, <1>15 DEF TaskOk
  <2>2. Holds(p, t.new)
    BY <1>0 DEF Holds
  <2>3. ~Holds(q, t.new)
    BY <2>1, <2>2 DEF RekeyInv, Numbers
  <2> QED
    BY <1>0, <2>3 DEF Holds
<1>16. ASSUME t.kind = "REKEY", t.del = None, ~OkIn(b)
       PROVE  s[t.new].state = "NONE" /\ r[t.new].state = "NONE" /\ z.child # t.new /\ z.del # t.new
  <2>1. t.new \in Sas
    BY <1>2, <1>16 DEF TaskOk
  <2>2. Reserved(p, t.new)
    BY <1>0, <1>3, <1>16 DEF Reserved, Unmade
  <2>3. Unused(p, t.new) /\ Unused(q, t.new)
    BY <1>1, <2>1, <2>2 DEF RekeyInv, Numbers
  <2> QED
    BY <1>0, <2>3 DEF Unused, Unmentioned
<1>17. ASSUME scene.ordered, OkIn(b), z.kind = "REKEY", z.del = None, z.child = t.new
       PROVE  ~(Wants(b) /\ AsksFirst(b)) /\ ~Tells(a)
  <2>1. InOrder(b, t.new) /\ Unanswered(a, t.new)
    BY <1>3, <1>17 DEF Offered
  <2>2. RequestOf(z).child = t.new
    BY <1>3, <1>17 DEF RequestOf, Request
  <2>3. ASSUME Wants(b), AsksFirst(b) PROVE FALSE
    <3>1. PICK j \in Asked(b), i \in Replies(b) : TRUE
      BY <1>17, <2>3 DEF Wants, OkIn
    <3>2. b[j].child = t.new
      BY <1>0, <1>1, <2>2, <3>1, AskedFacts
    <3>3. i < j /\ j < i
      BY <2>1, <2>3, <3>2 DEF InOrder, AsksFirst
    <3>4. i \in Nat /\ j \in Nat
      BY <1>0, <1>1, LocalFacts DEF Asked, Replies
    <3> QED
      BY <3>3, <3>4
  <2>4. ASSUME NEW j \in Replies(a) PROVE FALSE
    <3>1. a[j].child = t.new
      BY <1>0, <1>1, <2>2, <2>4, RepliedFacts DEF Matches
    <3> QED
      BY <2>1, <3>1 DEF Unanswered
  <2> QED
    BY <2>3, <2>4 DEF Tells
<1> QED
  BY <1>0, <1>2, <1>3, <1>7, <1>8, <1>10, <1>11, <1>12, <1>13, <1>14, <1>15, <1>16, <1>17 DEF Known

\* A step puts to use only what it makes.
LEMMA DeedUses ==
    ASSUME NEW o, NEW t, NEW a, NEW r, NEW z, NEW b, NEW s, NEW v, NEW x, NEW y,
           Passing(o, t, a, r, z, b, s, v, x, y), Deed(o, t, a, z, b, s, v, x, y),
           NEW c \in Sas, ~Working(o, c), ~Working(r, c),
           z.kind = "REKEY" /\ z.del = None /\ ~OkIn(a) => c # z.new
    PROVE  ~Working(s, c)
<1>1. CASE Rests(o, t, a, b, s, v, x, y)
  BY <1>1 DEF Rests
<1>2. CASE Quits(o, t, a, b, s, v, x, y)
  BY <1>2 DEF Quits, Writes, Working, NoSa
<1>3. CASE AsksRekey(o, t, a, b, s, v, x, y)
  BY <1>3 DEF AsksRekey, Puts, Working
<1>4. CASE AsksDelete(o, t, a, b, s, v, x, y)
  BY <1>4 DEF AsksDelete, Puts, Working
<1>5. CASE Denies(o, t, a, z, b, s, v, x, y)
  BY <1>5 DEF Denies
<1>6. CASE Accepts(o, t, a, z, b, s, v, x, y)
  <2>1. ~OkIn(a)
    BY <1>6 DEF Accepts, Replied, Passing, Known
  <2> QED
    BY <1>6, <2>1 DEF Accepts, Replaced, Working
<1>7. CASE Obeys(o, t, a, z, b, s, v, x, y)
  BY <1>7 DEF Obeys, Ceases, Working, NoSa
<1>8. CASE GivesUp(o, t, a, b, s, v, x, y)
  BY <1>8, GivesUpCourse
<1>9. CASE Retries(o, t, a, b, s, v, x, y)
  BY <1>9 DEF Retries
<1>10. CASE Succeeds(o, t, a, b, s, v, x, y)
  <2>1. Replaces(s, o, t) /\ OkIn(b) /\ t.kind = "REKEY" /\ t.sent /\ t.del = None
    BY <1>10 DEF Succeeds
  <2>2. c # t.new
    BY <2>1 DEF Passing, Known, Course, Wanted, Deleting
  <2>3. Informed(o, t)
    BY DEF Passing, Known
  <2>4. Wins(t) => t.coll # "DELETE"
    BY DEF Wins
  <2> QED
    BY <2>1, <2>2, <2>3, <2>4 DEF Replaces, Informed, Working
<1>11. CASE Completes(o, t, a, b, s, v, x, y)
  BY <1>11 DEF Completes, Ceases, Working, NoSa
<1> QED
  BY <1>1, <1>2, <1>3, <1>4, <1>5, <1>6, <1>7, <1>8, <1>9, <1>10, <1>11 DEF Deed

\* A step starts no deletion of a CHILD_SA that is not used.
LEMMA DeedKind ==
    ASSUME NEW o, NEW t, NEW a, NEW z, NEW b, NEW s, NEW v, NEW x, NEW y,
           Deed(o, t, a, z, b, s, v, x, y), t.kind \in {"NONE", "EMPTY", "REKEY"},
           v.kind = "DELETE" => ~Working(o, v.del)
    PROVE  v.kind \in {"NONE", "EMPTY", "REKEY"}
<1>0. EmptyTask.kind = "EMPTY" /\ Idle.kind = "NONE"
  BY EmptyFacts, IdleFacts
<1> QED
  BY <1>0 DEF Deed, Rests, Quits, AsksRekey, AsksDelete, Denies, Accepts, Obeys, GivesUp, Retries,
     Succeeds, Completes, SameGoal

Held(p) == LET q == Other(p) IN
    /\ Course(sa[p], task[p], air[p], sa[q], task[q], air[q])
    /\ Tidy(sa[p], task[p], sa[q], Todo(p))

\* Rekeyings take their course.
CourseInv == Regular /\ Undeleted => \A p \in Peers : Held(p)

LEMMA InitCourse == Init => CourseInv
<1>1. SUFFICES ASSUME Init, NEW p \in Peers PROVE Held(p)
  BY DEF CourseInv
<1>2. PICK q \in Peers : q = Other(p)
  BY PeersFacts
<1>3. /\ sa[p] = sa[q] /\ task[p] = Idle /\ task[q] = Idle /\ air[p] = <<>> /\ air[q] = <<>>
      /\ queue[p] = <<>> /\ jobs[p] = {}
  BY <1>1, <1>2 DEF Init
<1>4. DOMAIN <<>> = {}
  OBVIOUS
<1>5. Asked(<<>>) = {} /\ Replies(<<>>) = {}
  BY <1>4 DEF Asked, Replies
<1>6. ~OkIn(<<>>) /\ \A k : ~Told(<<>>, k)
  BY <1>5 DEF OkIn, Told
<1>7. Todo(p) = {}
  BY <1>3, <1>4 DEF Todo, Undone
<1>8. \A c \in Sas : /\ c = 1 => sa[p][c].state = "INSTALLED" /\ sa[p][c].out = "INSTALLED"
                     /\ c # 1 => sa[p][c].state = "NONE" /\ sa[p][c].out = "NONE"
                     /\ sa[p][c].rekey = None
  <2>1. \A c \in Sas : sa[p][c] = IF c = 1 THEN InUse ELSE NoSa
    BY <1>1 DEF Init
  <2> QED
    BY <2>1 DEF InUse, NewSa, NoSa
<1>9. Blank(sa[p]) /\ Lineage(sa[p], Idle) /\ Leaving(sa[p], Idle) /\ Serves(sa[p], Idle)
  BY <1>8, SasFacts, IdleFacts DEF Blank, Lineage, Leaving, Serves, Working
<1>10. /\ Underway(Idle, <<>>, <<>>) /\ Unborn(sa[p], Idle) /\ Wanted(Idle, Idle, <<>>) /\ Fresh(sa[p], Idle)
       /\ Excused(Idle, Idle, <<>>) /\ Handed(sa[p], Idle, <<>>, Idle, <<>>) /\ Chained(Idle, Idle, <<>>)
  BY <1>6, IdleFacts DEF Underway, Unborn, Wanted, Fresh, Excused, Handed, Chained
<1>11. Tidy(sa[p], task[p], sa[q], Todo(p))
  BY <1>3, <1>7, IdleFacts DEF Tidy
<1> QED
  BY <1>2, <1>3, <1>9, <1>10, <1>11 DEF Held, Course

\* A number that is not used yet is not to be deleted.
LEMMA TodoUsed ==
    ASSUME RekeyInv, NEW p \in Peers, NEW q, q = Other(p), ~task[p].failed, task[p].kind = "REKEY",
           task[p].del = None, ~OkIn(air[q])
    PROVE  task[p].new \notin Todo(p) /\ task[p].new \notin Todo(q)
<1>1. q \in Peers
  BY PeersFacts
<1>2. PICK n : n = task[p].new
  OBVIOUS
<1>3. n \in Sas
  BY <1>2, LocalFacts DEF TaskOk
<1>4. Unused(p, n) /\ Unused(q, n)
  <2>1. Reserved(p, n)
    BY <1>2 DEF Reserved, Unmade
  <2> QED
    BY <1>1, <1>3, <2>1 DEF RekeyInv, Numbers
<1>5. ASSUME NEW w \in Peers, Unused(w, n) PROVE n \notin Todo(w)
  <2>1. /\ \A i \in DOMAIN queue[w] : queue[w][i][2] # n
        /\ \A j \in jobs[w] : j[2] # n
    BY <1>5 DEF Unused, Unmentioned
  <2>2. <<"DELETE", n>> \notin jobs[w]
    BY <2>1
  <2> QED
    BY <2>1, <2>2 DEF Todo, Undone
<1> QED
  BY <1>1, <1>2, <1>4, <1>5

AllKnown == \A p \in Peers :
    Known(sa[p], task[p], air[p], sa[Other(p)], task[Other(p)], air[Other(p)])

LEMMA AllKnownFacts == RekeyInv /\ Agreement /\ Plainly /\ Tame => AllKnown
<1> SUFFICES ASSUME RekeyInv, Agreement, Plainly, Tame, NEW p \in Peers
             PROVE  Known(sa[p], task[p], air[p], sa[Other(p)], task[Other(p)], air[Other(p)])
  BY DEF AllKnown
<1>1. Other(p) \in Peers
  BY PeersFacts
<1> QED
  BY <1>1, KnownFacts DEF Plainly

LEMMA CourseStep ==
    ASSUME RekeyInv, Agreement, Tame, RekeyInv', Agreement', Tame', Regular, Undeleted', NEW p \in Peers,
           Plainly, Plainly', \A w \in Peers : Held(w), Advances(p)
    PROVE  \A w \in Peers : Held(w)'
<1>0. PICK q \in Peers : q = Other(p) /\ Other(q) = p /\ \A w \in Peers : w = p \/ w = q
  BY PeersFacts
<1>1. PICK o, t, a, r, z, b, s, v, x, y :
        /\ o = sa[p] /\ t = task[p] /\ a = air[p] /\ r = sa[q] /\ z = task[q] /\ b = air[q]
        /\ s = sa'[p] /\ v = task'[p] /\ x = air'[p] /\ y = air'[q]
  OBVIOUS
<1>2. /\ sa'[q] = r /\ task'[q] = z /\ queue'[q] = queue[q] /\ jobs'[q] = jobs[q]
      /\ Deed(o, t, a, z, b, s, v, x, y) /\ Chores(p)
  BY <1>0, <1>1 DEF Advances
<1>3. Known(o, t, a, r, z, b) /\ Known(r, z, b, o, t, a)
  BY <1>0, <1>1, KnownFacts DEF Plainly
<1>4. Known(s, v, x, r, z, y) /\ Known(r, z, y, s, v, x)
  <2>1. AllKnown'
    BY AllKnownFacts, PTL
  <2>2. scene' = scene
    BY DEF Advances
  <2> QED
    BY <1>0, <1>1, <1>2, <2>1, <2>2 DEF AllKnown, Known
<1>5. /\ Course(o, t, a, r, z, b) /\ Course(r, z, b, o, t, a)
      /\ Tidy(o, t, r, Todo(p)) /\ Tidy(r, z, o, Todo(q))
  BY <1>0, <1>1 DEF Held
<1>6. v.kind \in {"NONE", "EMPTY", "REKEY"}
  <2>1. v.kind = "DELETE" => ~Working(o, v.del)
    BY <1>1, <1>2, <1>5 DEF Chores, Tidy
  <2> QED
    BY <1>2, <1>5, <2>1, DeedKind DEF Tidy
<1>7. Passing(o, t, a, r, z, b, s, v, x, y)
  BY <1>3, <1>4, <1>5, <1>6 DEF Passing, Tidy, Regular
<1>8. Course(s, v, x, r, z, y) /\ Course(r, z, y, s, v, x)
  BY <1>2, <1>7, DeedCourse
<1>9. ASSUME NEW c \in Sas, c \in Todo(p) \/ c \in Todo(q) PROVE ~Working(s, c) /\ ~Working(r, c)
  <2>1. ~Working(o, c) /\ ~Working(r, c)
    BY <1>5, <1>9 DEF Tidy
  <2>2. z.kind = "REKEY" /\ z.del = None /\ ~OkIn(a) => c # z.new
    BY <1>0, <1>1, <1>9, TodoUsed DEF Plain, Plainly
  <2> QED
    BY <1>2, <1>7, <2>1, <2>2, DeedUses
<1>10. Tidy(r, z, s, Todo(q)')
  <2>1. Todo(q)' = Todo(q) /\ Todo(q) \subseteq Sas
    BY <1>2 DEF Todo
  <2> QED
    BY <1>5, <1>9, <2>1 DEF Tidy
<1>11. Tidy(s, v, r, Todo(p)')
  <2>1. ASSUME NEW c \in Todo(p)' PROVE ~Working(s, c) /\ ~Working(r, c)
    <3>1. c \in Sas
      BY <2>1 DEF Todo
    <3>2. CASE c \in Todo(p)
      BY <1>9, <3>1, <3>2
    <3>3. CASE t.sent /\ c = t.del /\ v = Idle
      <4>1. c # None /\ Working(o, c) = FALSE
        BY <1>3, <3>1, <3>3, SasFacts DEF Known, Informed, Working
      <4>2. Tells(b)
        <5>1. t.kind # "NONE" /\ Idle.sent = FALSE
          BY <1>3, <3>3, IdleFacts DEF Known, TaskOk
        <5> QED
          BY <1>2, <3>3, <4>1, <5>1, IdleFacts DEF Deed, Rests, Quits, AsksRekey, AsksDelete, Denies, Accepts,
             Obeys, GivesUp, Retries, Succeeds, Completes, SameGoal, Read
      <4>3. ~Working(r, c)
        BY <1>3, <3>3, <4>1, <4>2 DEF Known
      <4>4. z.kind = "REKEY" /\ z.del = None /\ ~OkIn(a) => c # z.new
        BY <1>3, <3>3 DEF Known
      <4> QED
        BY <1>2, <1>7, <3>1, <4>1, <4>3, <4>4, DeedUses
    <3>4. CASE Deleting(z, c) /\ ~Working(s, c)
      BY <1>3, <3>1, <3>4, SasFacts DEF Known, Informed, Deleting, Working
    <3> QED
      BY <1>0, <1>1, <1>2, <3>2, <3>3, <3>4 DEF Chores
  <2> QED
    BY <1>6, <2>1 DEF Tidy
<1>12. Held(p)'
  BY <1>0, <1>1, <1>2, <1>8, <1>11 DEF Held
<1>13. Held(q)'
  BY <1>0, <1>1, <1>2, <1>8, <1>10 DEF Held
<1> QED
  BY <1>0, <1>12, <1>13

LEMMA CourseNext == RekeyInv /\ Agreement /\ Plainly /\ CourseInv /\ [Next]_vars => CourseInv'
<1>1. SUFFICES ASSUME RekeyInv, Agreement, Plainly, CourseInv, [Next]_vars PROVE CourseInv'
  OBVIOUS
<1>2. RekeyInv' /\ Agreement' /\ Plainly'
  BY <1>1, RekeyNext, AgreementNext, PlainlyNext
<1>3. ASSUME UNCHANGED vars PROVE CourseInv'
  BY <1>1, <1>3 DEF vars, CourseInv, Regular, Undeleted, Held, Todo
<1>4. ASSUME Next, Regular', Undeleted' PROVE \A w \in Peers : Held(w)'
  <2>1. scene' = scene
    BY <1>1, <1>4, NextActs, ActsGood DEF GoodStep, Moves
  <2>2. Regular /\ Tame /\ Tame'
    BY <1>4, <2>1 DEF Regular, Tame, Overtaking
  <2>3. PICK p \in Peers : Advances(p)
    BY <1>1, <1>4, <2>2, NextAdvances DEF Plainly
  <2>4. Undeleted
    <3>1. left.deletes \in Nat /\ left'.deletes \in Nat /\ scene.deletes \in Nat
      <4>1. left \in Bounds /\ left' \in Bounds /\ scene \in Scenarios
        BY <1>1, <1>2 DEF RekeyInv, LooseType
      <4> QED
        BY <4>1, ChildRekeyConstants DEF Bounds, Scenario
    <3>2. left'.deletes <= left.deletes /\ left.deletes <= scene.deletes
      BY <1>1, <2>2, <2>3 DEF Advances, Plainly, Budget
    <3> QED
      BY <1>4, <2>1, <3>1, <3>2 DEF Undeleted
  <2> QED
    BY <1>1, <1>2, <1>4, <2>2, <2>3, <2>4, CourseStep DEF CourseInv
<1> QED
  BY <1>1, <1>3, <1>4 DEF CourseInv

LEMMA CourseServes == RekeyInv /\ Agreement /\ Plainly /\ CourseInv => NoOutage
<1>1. SUFFICES ASSUME RekeyInv, Agreement, Plainly, CourseInv, Regular, Undeleted, NEW p \in Peers
               PROVE  Outbound(p) \cap Live(Other(p)) # {}
  BY DEF NoOutage
<1>2. PICK q \in Peers : q = Other(p) /\ Other(q) = p
  BY PeersFacts
<1>3. Tame
  BY <1>1 DEF Regular, Tame, Overtaking
<1>4. /\ Known(sa[q], task[q], air[q], sa[p], task[p], air[p])
      /\ Course(sa[p], task[p], air[p], sa[q], task[q], air[q])
  BY <1>1, <1>2, <1>3, KnownFacts DEF Plainly, CourseInv, Held
<1>5. PICK c \in Sas : sa[p][c].out = "INSTALLED" /\ Working(sa[p], c)
  BY <1>4 DEF Course, Serves
<1>6. Working(sa[q], c) \/ Deleting(task[q], c) \/ (OkIn(air[p]) /\ task[q].new = c)
  BY <1>4, <1>5 DEF Known, Shared
<1>7. ~(OkIn(air[p]) /\ task[q].new = c)
  BY <1>4, <1>5, SasFacts DEF Known, Course, Fresh, TaskOk
<1>8. sa[q][c].state # "NONE"
  BY <1>4, <1>6, <1>7, SasFacts DEF Known, Informed, Deleting, Working
<1>9. c \in Outbound(p) /\ c \in Live(q)
  BY <1>5, <1>8, SasFacts DEF Outbound, Live, Exists
<1> QED
  BY <1>2, <1>9

\* Whatever rekeyings collide, in whatever order the peers start them, hear of them and
\* delete what they replaced, each peer has at every moment an outbound SA whose inbound
\* SA the other peer has installed, provided that messages keep their order, no rekeying
\* is refused, every SA can be installed and no user deletes a CHILD_SA (child_rekey.c:
\* process_i, process_r, handle_collision; child_delete.c: destroy_and_reestablish).
THEOREM NoOutageTheorem == Spec => []NoOutage
<1>1. Init => RekeyInv /\ Agreement /\ Plainly /\ CourseInv
  BY InitRekey, InitAgreement, InitPlainly, InitCourse
<1>2. RekeyInv /\ Agreement /\ Plainly /\ CourseInv /\ [Next]_vars =>
        RekeyInv' /\ Agreement' /\ Plainly' /\ CourseInv'
  BY RekeyNext, AgreementNext, PlainlyNext, CourseNext
<1>3. RekeyInv /\ Agreement /\ Plainly /\ CourseInv => NoOutage
  BY CourseServes
<1> QED
  BY <1>1, <1>2, <1>3, PTL DEF Spec

-----------------------------------------------------------------------------
(* How colliding rekeyings know of each other, when messages keep their order, or      *)
(* no CHILD_SA is rekeyed before both peers know it and none is refused.               *)

\* A CHILD_SA that is not to be rekeyed any more.
Retired(s, c) == s[c].state \notin {"INSTALLED", "REKEYING"}

\* The deletion z is still to arrive.
Due(z, b) == ~z.sent \/ Wants(b)

\* The nonces tell CHILD_SAs apart.
Ranked == \A c, d \in Sas : nonce[c] \in Nat /\ (c # d => nonce[c] # nonce[d])

\* What the other peer's rekeying made is not what that is about to make.
Older(t, z, a) ==
    t.coll = "REKEY" /\ z.kind = "REKEY" /\ z.del = None /\ ~OkIn(a) => t.other # z.new

Met(s, t, a, r, z, b) ==
    /\ Known(s, t, a, r, z, b) /\ t \in TaskRec /\ Older(t, z, a)
    /\ OkIn(b) /\ ~scene.early => z.child # t.new /\ z.del # t.new

\* A rekeying and the CHILD_SAs it knows of.
Tracks(s, t) ==
    /\ t.kind = "REKEY" /\ t.del = None /\ s[t.child].state = "REKEYED" => s[t.child].rekey # None
    /\ t.coll = "REKEY" /\ t.del = None => Retired(s, t.child)
    /\ t.gone => t.coll # "NONE"
    /\ t.coll = "REKEY" /\ t.gone => ~Working(s, t.other)
    /\ t.coll = "REKEY" /\ t.del = t.child => Retired(s, t.other)
    /\ t.kind = "REKEY" /\ t.del = t.new =>
          t.coll # "NONE" /\ (t.coll = "REKEY" => nonce[t.new] <= nonce[t.other])
    /\ t.kind = "REKEY" /\ t.del = t.child => t.coll # "DELETE"

\* A rekeying that met a deletion, was put off for one or refused was told the truth.
Truthful(s, z, a) ==
    /\ z.coll = "DELETE" => ~Working(s, z.child)
    /\ Told(a, "TEMPORARY_FAILURE") => ~Working(s, z.child)
    /\ Told(a, "NO_PROPOSAL") => scene.refuses

\* The other peer's rekeying that succeeded, or is about to.
Granted(z, a) == z.kind = "REKEY" /\ (OkIn(a) \/ z.del = z.child)

\* The successor is noted, and has none itself.
Noted(s, z, a) ==
    /\ Granted(z, a) /\ s[z.child].state # "NONE" => s[z.child].rekey # None
    /\ z.kind = "REKEY" /\ z.del # z.child => s[z.new].rekey = None
    /\ ~scene.ordered /\ OkIn(a) => Retired(s, z.child)

\* What a peer makes is not rekeyed by the other one before it is used.
Separate(t, a, z) ==
    /\ t.kind = "REKEY" /\ t.del # t.child /\ Granted(z, a) => z.child # t.new
    /\ z.kind = "REKEY" /\ t.kind = "REKEY" /\ t.child = z.new => t.coll # "REKEY"

Rivals(t, z) == t.kind = "REKEY" /\ z.kind = "REKEY" /\ z.child = t.child

\* A collision of rekeyings is known to the rekeying that met it.
Collides(t, a, r, z) ==
    /\ t.coll = "REKEY" =>
         IF Rivals(t, z) /\ z.del = None THEN z.new = t.other /\ OkIn(a) ELSE Retired(r, t.child)
    /\ Rivals(t, z) /\ OkIn(a) /\ t.del = None /\ t.sent /\ (scene.ordered => AsksFirst(a)) =>
         t.coll = "REKEY" /\ t.other = z.new

\* The two rekeyings that collide know of each other.
Mutual(t, z, b) ==
    /\ Rivals(t, z) /\ t.coll = "REKEY" /\ t.other = z.new /\ t.new = z.other
    /\ OkIn(b) \/ t.del # None

\* What becomes of the other peer's rekeying z, which met the own one.
Outcome(s, t, a, z, b) ==
    /\ z.coll = "REKEY" /\ z.del = None /\ ~OkIn(a) /\ Working(s, z.child) =>
         Rivals(t, z) /\ t.new = z.other /\ (OkIn(b) \/ (~t.sent /\ t.del = t.child))
    /\ z.coll = "REKEY" /\ OkIn(a) =>
         \/ Mutual(t, z, b)
         \/ Retired(s, z.new) /\ ~Working(s, z.child)
         \/ nonce[z.new] > nonce[z.other]
    /\ Rivals(t, z) /\ OkIn(a) /\ t.del = t.child => Retired(s, z.new)

Bond(s, t, a, r, z, b) ==
    /\ Blank(s) /\ Unborn(s, t) /\ Tracks(s, t) /\ Truthful(s, z, a) /\ Noted(s, z, a)
    /\ Separate(t, a, z) /\ Collides(t, a, r, z) /\ Outcome(s, t, a, z, b)

\* If no user deletes a CHILD_SA: what is deleted was rekeyed before, and that the peer
\* deletes what it has made comes as no surprise.
Firm(s, t, a, z, b) ==
    /\ t.sent /\ t.del # None => t.rekeyed
    /\ OkIn(a) /\ z.coll = "DELETE" => Retired(s, z.new)
    /\ z.kind = "REKEY" /\ z.del = z.new /\ Due(z, b) =>
         Retired(s, z.new) \/ (Mutual(t, z, b) /\ nonce[z.new] <= nonce[z.other])

\* One peer takes a step, as in Passing.
Turning(o, t, a, r, z, b, s, v, x, y) ==
    /\ Ranked /\ (scene.ordered \/ ~(scene.early \/ scene.refuses))
    /\ Met(o, t, a, r, z, b) /\ Met(r, z, b, o, t, a)
    /\ Met(s, v, x, r, z, y) /\ Met(r, z, y, s, v, x)
    /\ Bond(o, t, a, r, z, b) /\ Bond(r, z, b, o, t, a)

Firmly(o, t, a, r, z, b, v) ==
    /\ t.kind \in {"NONE", "EMPTY", "REKEY"} /\ v.kind \in {"NONE", "EMPTY", "REKEY"}
    /\ z.kind \in {"NONE", "EMPTY", "REKEY"}
    /\ Firm(o, t, a, z, b) /\ Firm(r, z, b, t, a)

LEMMA RestsBond ==
    ASSUME NEW o, NEW t, NEW a, NEW r, NEW z, NEW b, NEW s, NEW v, NEW x, NEW y,
           Turning(o, t, a, r, z, b, s, v, x, y), Rests(o, t, a, b, s, v, x, y)
    PROVE  /\ Bond(s, v, x, r, z, y) /\ Bond(r, z, y, s, v, x)
           /\ Firmly(o, t, a, r, z, b, v) => Firm(s, v, x, z, y) /\ Firm(r, z, y, v, x)
BY DEF Turning, Rests, Firmly

LEMMA QuitsBond ==
    ASSUME NEW o, NEW t, NEW a, NEW r, NEW z, NEW b, NEW s, NEW v, NEW x, NEW y,
           Turning(o, t, a, r, z, b, s, v, x, y), Quits(o, t, a, b, s, v, x, y)
    PROVE  /\ Bond(s, v, x, r, z, y) /\ Bond(r, z, y, s, v, x)
           /\ Firmly(o, t, a, r, z, b, v) => Firm(s, v, x, z, y) /\ Firm(r, z, y, v, x)
<1>1. Bond(o, t, a, r, z, b) /\ Bond(r, z, b, o, t, a)
  BY DEF Turning
<1>2. TaskOk(t) /\ TaskOk(z) /\ Informed(o, t) /\ Informed(r, z) /\ None \notin Sas
      /\ t.coll \in {"NONE", "REKEY", "DELETE"} /\ z.coll \in {"NONE", "REKEY", "DELETE"}
  BY SasFacts DEF Turning, Met, Known, TaskRec
<1>3. /\ y = b /\ ~t.sent /\ t.del = None /\ v.del = None /\ v.kind # "REKEY" /\ v.coll = "NONE"
      /\ v.child = None /\ ~v.gone /\ (OkIn(x) <=> OkIn(a)) /\ (Tells(x) <=> Tells(a))
      /\ \A k : Told(x, k) <=> Told(a, k)
  BY IdleFacts, EmptyFacts DEF Quits, Sends, SameReplies
<1>4. Loses(s, o)
  <2>1. NoSa.state = "NONE" /\ NoSa.out = "NONE" /\ NoSa.rekey = None
    BY DEF NoSa
  <2> QED
    BY <2>1 DEF Quits, Writes, Loses
<1>5. ~Tells(b) /\ ~OkIn(b) /\ \A k : ~Told(b, k)
  BY <1>3 DEF Turning, Met, Known, Fits
<1>6. /\ OkIn(a) => z.kind = "REKEY" /\ z.del = None
      /\ z.coll # "NONE" => z.kind = "REKEY"
      /\ Told(a, "TEMPORARY_FAILURE") => z.kind = "REKEY"
      /\ z.kind = "REKEY" => z.child \in Sas /\ z.new \in Sas
  BY FailureFacts DEF Turning, Met, Known, TaskOk
<1>7. Blank(s)
  BY <1>1, <1>2, <1>4 DEF Bond, Blank, Loses
<1>8. Unborn(s, v)
  BY <1>3 DEF Unborn
<1>9. Tracks(s, v)
  BY <1>3 DEF Tracks
<1>10. Truthful(s, z, x)
  BY <1>1, <1>3, <1>4, <1>6 DEF Bond, Truthful, Working, Loses
<1>11. Noted(s, z, x)
  BY <1>1, <1>3, <1>4, <1>6 DEF Bond, Noted, Granted, Retired, Loses
<1>12. Separate(v, x, z)
  BY <1>3 DEF Separate
<1>13. Collides(v, x, r, z)
  BY <1>3 DEF Collides, Rivals
<1>14. Outcome(s, v, x, z, y)
  BY <1>1, <1>2, <1>3, <1>4, <1>5 DEF Bond, Outcome, Mutual, Rivals, Retired, Working, TaskOk, Loses
<1>15. Truthful(r, v, y)
  BY <1>3, <1>5 DEF Truthful
<1>16. Noted(r, v, y)
  BY <1>3, <1>5 DEF Noted, Granted
<1>17. Separate(z, y, v)
  BY <1>3 DEF Separate, Granted
<1>18. Collides(z, y, s, v)
  BY <1>1, <1>3, <1>4, <1>5, <1>6 DEF Bond, Collides, Rivals, Retired, Loses
<1>19. Outcome(r, z, y, v, x)
  BY <1>3 DEF Outcome, Rivals
<1>20. ASSUME Firmly(o, t, a, r, z, b, v) PROVE Firm(s, v, x, z, y)
  BY <1>3, <1>4, <1>5, <1>6, <1>20 DEF Firmly, Firm, Mutual, Retired, Loses
<1>21. ASSUME Firmly(o, t, a, r, z, b, v) PROVE Firm(r, z, y, v, x)
  BY <1>3, <1>21 DEF Firmly, Firm
<1> QED
  BY <1>1, <1>7, <1>8, <1>9, <1>10, <1>11, <1>12, <1>13, <1>14, <1>15, <1>16, <1>17, <1>18, <1>19,
     <1>20, <1>21 DEF Bond

LEMMA AsksRekeyBond ==
    ASSUME NEW o, NEW t, NEW a, NEW r, NEW z, NEW b, NEW s, NEW v, NEW x, NEW y,
           Turning(o, t, a, r, z, b, s, v, x, y), AsksRekey(o, t, a, b, s, v, x, y)
    PROVE  /\ Bond(s, v, x, r, z, y) /\ Bond(r, z, y, s, v, x)
           /\ Firmly(o, t, a, r, z, b, v) => Firm(s, v, x, z, y) /\ Firm(r, z, y, v, x)
<1>1. Bond(o, t, a, r, z, b) /\ Bond(r, z, b, o, t, a)
  BY DEF Turning
<1>2. TaskOk(t) /\ TaskOk(z) /\ Informed(o, t) /\ Informed(r, z) /\ None \notin Sas
      /\ t.coll \in {"NONE", "REKEY", "DELETE"} /\ z.coll \in {"NONE", "REKEY", "DELETE"}
  BY SasFacts DEF Turning, Met, Known, TaskRec
<1>3. /\ y = b /\ ~t.sent /\ t.del = None /\ v.del = None /\ v.kind = "REKEY" /\ v.sent
      /\ v.child \in Sas /\ v.new \in Sas \ {v.child}
      /\ (OkIn(x) <=> OkIn(a)) /\ (Tells(x) <=> Tells(a)) /\ Wants(x)
      /\ \A k : Told(x, k) <=> Told(a, k)
      /\ OkIn(a) => Tells(a)
      /\ AsksFirst(x) <=> ~Tells(a)
  BY DEF AsksRekey, Sends, SameReplies, Turning, Met, Known
<1>4. /\ o[v.child].state \in {"INSTALLED", "REKEYING"} /\ s[v.child].state = "REKEYING"
      /\ s[v.child].out = o[v.child].out
      /\ \A d \in Sas : s[d].rekey = o[d].rekey /\ s[d].out = o[d].out
      /\ \A d \in Sas : d # v.child => s[d].state = o[d].state
  BY DEF AsksRekey, Puts
<1>5. ~Tells(b) /\ ~OkIn(b) /\ \A k : ~Told(b, k)
  BY <1>3 DEF Turning, Met, Known, Fits
<1>6. /\ OkIn(a) => z.kind = "REKEY" /\ z.del = None
      /\ z.coll # "NONE" => z.kind = "REKEY"
      /\ Told(a, "TEMPORARY_FAILURE") => z.kind = "REKEY"
      /\ z.kind = "REKEY" => z.child \in Sas /\ z.new \in Sas
  BY FailureFacts DEF Turning, Met, Known, TaskOk
<1>7. /\ o[v.new].state = "NONE" /\ r[v.new].state = "NONE" /\ z.child # v.new /\ z.del # v.new
      /\ z.kind = "REKEY" => z.new # v.new
      /\ s[v.new].state = "NONE"
  BY <1>3, <1>4 DEF Turning, Met, Known
<1>8. v.coll = "NONE" /\ ~v.gone
  <2>1. CASE t = Idle /\ SameColl(v, Idle)
    BY <2>1, IdleFacts DEF SameColl
  <2>2. CASE SameGoal(v, t) /\ SameColl(v, t) /\ o[v.child].state = "REKEYING"
    BY <1>1, <1>2, <1>3, <2>2 DEF SameGoal, SameColl, Bond, Tracks, Retired, Informed, Working
  <2> QED
    BY <2>1, <2>2 DEF AsksRekey
<1>9. Blank(s)
  BY <1>1, <1>4 DEF Bond, Blank
<1>10. Unborn(s, v)
  BY <1>7 DEF Unborn
<1>11. Tracks(s, v)
  BY <1>2, <1>3, <1>4, <1>8 DEF Tracks
<1>12. Truthful(s, z, x)
  BY <1>1, <1>3, <1>4, <1>6 DEF Bond, Truthful, Working
<1>13. Noted(s, z, x)
  BY <1>1, <1>3, <1>4, <1>6 DEF Bond, Noted, Granted, Retired
<1>14. Separate(v, x, z)
  BY <1>7, <1>8 DEF Separate
<1>15. Collides(v, x, r, z)
  BY <1>1, <1>3, <1>4, <1>8 DEF Bond, Collides, Rivals, Retired, Noted
<1>16. Outcome(s, v, x, z, y)
  BY <1>1, <1>2, <1>3, <1>4, <1>5 DEF Bond, Outcome, Mutual, Rivals, Retired, Working, TaskOk
<1>17. Truthful(r, v, y)
  BY <1>3, <1>5, <1>8 DEF Truthful
<1>18. Noted(r, v, y)
  BY <1>1, <1>3, <1>5, <1>7 DEF Bond, Noted, Granted, Blank
<1>19. Separate(z, y, v)
  BY <1>2, <1>3, <1>5, <1>7 DEF Separate, Granted
<1>20. Collides(z, y, s, v)
  BY <1>1, <1>3, <1>4, <1>5, <1>6 DEF Bond, Collides, Rivals, Retired
<1>21. Outcome(r, z, y, v, x)
  BY <1>7, <1>8 DEF Outcome, Retired
<1>22. ASSUME Firmly(o, t, a, r, z, b, v) PROVE Firm(s, v, x, z, y)
  BY <1>3, <1>4, <1>5, <1>6, <1>22 DEF Firmly, Firm, Mutual, Retired
<1>23. ASSUME Firmly(o, t, a, r, z, b, v) PROVE Firm(r, z, y, v, x)
  BY <1>7, <1>23 DEF Firmly, Firm, Retired
<1> QED
  BY <1>1, <1>9, <1>10, <1>11, <1>12, <1>13, <1>14, <1>15, <1>16, <1>17, <1>18, <1>19, <1>20, <1>21,
     <1>22, <1>23 DEF Bond

LEMMA AsksDeleteBond ==
    ASSUME NEW o, NEW t, NEW a, NEW r, NEW z, NEW b, NEW s, NEW v, NEW x, NEW y,
           Turning(o, t, a, r, z, b, s, v, x, y), AsksDelete(o, t, a, b, s, v, x, y)
    PROVE  /\ Bond(s, v, x, r, z, y) /\ Bond(r, z, y, s, v, x)
           /\ Firmly(o, t, a, r, z, b, v) => Firm(s, v, x, z, y) /\ Firm(r, z, y, v, x)
<1>1. Bond(o, t, a, r, z, b) /\ Bond(r, z, b, o, t, a)
  BY DEF Turning
<1>2. TaskOk(t) /\ TaskOk(z) /\ Informed(o, t) /\ Informed(r, z) /\ None \notin Sas
      /\ t.coll \in {"NONE", "REKEY", "DELETE"} /\ z.coll \in {"NONE", "REKEY", "DELETE"}
  BY SasFacts DEF Turning, Met, Known, TaskRec
<1>3. /\ y = b /\ ~t.sent /\ v.sent /\ v.del \in Sas
      /\ (OkIn(x) <=> OkIn(a)) /\ (Tells(x) <=> Tells(a)) /\ Wants(x)
      /\ \A k : Told(x, k) <=> Told(a, k)
      /\ OkIn(a) => Tells(a)
  BY DEF AsksDelete, Sends, SameReplies, Turning, Met, Known
<1>4. /\ Working(o, v.del) /\ s[v.del].state = "DELETING"
      /\ \A d \in Sas : s[d].rekey = o[d].rekey /\ s[d].out = o[d].out
      /\ \A d \in Sas : d # v.del => s[d].state = o[d].state
  BY DEF AsksDelete, Puts
<1>5. ~Tells(b) /\ ~OkIn(b) /\ \A k : ~Told(b, k)
  BY <1>3 DEF Turning, Met, Known, Fits
<1>6. /\ OkIn(a) => z.kind = "REKEY" /\ z.del = None
      /\ z.coll # "NONE" => z.kind = "REKEY"
      /\ Told(a, "TEMPORARY_FAILURE") => z.kind = "REKEY"
      /\ z.kind = "REKEY" => z.child \in Sas /\ z.new \in Sas
  BY FailureFacts DEF Turning, Met, Known, TaskOk
<1>7. \/ t = Idle /\ v.kind = "DELETE" /\ v.coll = "NONE" /\ ~v.gone
      \/ /\ t.kind = "REKEY" /\ t.del = v.del /\ v.kind = "REKEY" /\ v.child = t.child /\ v.new = t.new
         /\ v.coll = t.coll /\ v.other = t.other /\ v.gone = t.gone /\ v.rekeyed
  BY IdleFacts DEF AsksDelete, SameGoal, SameColl
<1>8. Idle.kind = "NONE" /\ Idle.coll = "NONE" /\ Idle.del = None
  BY IdleFacts
<1>9. Blank(s)
  BY <1>1, <1>4 DEF Bond, Blank
<1>10. Unborn(s, v)
  BY <1>2, <1>3 DEF Unborn
<1>11. Tracks(s, v)
  BY <1>1, <1>2, <1>4, <1>7 DEF Bond, Tracks, Retired, Working, TaskOk
<1>12. Truthful(s, z, x)
  BY <1>1, <1>3, <1>4, <1>6 DEF Bond, Truthful, Working
<1>13. Noted(s, z, x)
  BY <1>1, <1>3, <1>4, <1>6 DEF Bond, Noted, Granted, Retired, Working
<1>14. Separate(v, x, z)
  BY <1>1, <1>3, <1>7 DEF Bond, Separate, Granted
<1>15. Collides(v, x, r, z)
  BY <1>1, <1>2, <1>3, <1>7 DEF Bond, Collides, Rivals
<1>16. Outcome(s, v, x, z, y)
  BY <1>1, <1>3, <1>4, <1>6, <1>7, <1>8 DEF Bond, Outcome, Mutual, Rivals, Retired, Working
<1>17. Truthful(r, v, y)
  BY <1>1, <1>3, <1>5, <1>7 DEF Bond, Truthful
<1>18. Noted(r, v, y)
  BY <1>1, <1>3, <1>5, <1>7 DEF Bond, Noted, Granted
<1>19. Separate(z, y, v)
  BY <1>1, <1>3, <1>7 DEF Bond, Separate, Granted
<1>20. Collides(z, y, s, v)
  BY <1>1, <1>3, <1>4, <1>6, <1>7, <1>8 DEF Bond, Collides, Rivals, Retired
<1>21. Outcome(r, z, y, v, x)
  BY <1>2, <1>3, <1>5 DEF Outcome
<1>22. ASSUME Firmly(o, t, a, r, z, b, v) PROVE Firm(s, v, x, z, y)
  BY <1>3, <1>4, <1>6, <1>7, <1>22 DEF Firmly, Firm, Mutual, Rivals, Retired
<1>23. ASSUME Firmly(o, t, a, r, z, b, v) PROVE Firm(r, z, y, v, x)
  BY <1>3, <1>7, <1>23 DEF Firmly, Firm, Due, Mutual, Rivals
<1> QED
  BY <1>1, <1>9, <1>10, <1>11, <1>12, <1>13, <1>14, <1>15, <1>16, <1>17, <1>18, <1>19, <1>20, <1>21,
     <1>22, <1>23 DEF Bond

LEMMA DeniesBond ==
    ASSUME NEW o, NEW t, NEW a, NEW r, NEW z, NEW b, NEW s, NEW v, NEW x, NEW y,
           Turning(o, t, a, r, z, b, s, v, x, y), Denies(o, t, a, z, b, s, v, x, y)
    PROVE  /\ Bond(s, v, x, r, z, y) /\ Bond(r, z, y, s, v, x)
           /\ Firmly(o, t, a, r, z, b, v) => Firm(s, v, x, z, y) /\ Firm(r, z, y, v, x)
<1>1. Bond(o, t, a, r, z, b) /\ Bond(r, z, b, o, t, a)
  BY DEF Turning
<1>2. /\ s = o /\ v = t /\ z.sent /\ Wants(b) /\ ~Wants(y) /\ (z.del # None => ~Working(o, z.del))
      /\ (OkIn(y) <=> OkIn(b)) /\ (Tells(y) <=> Tells(b)) /\ \A l : Told(y, l) <=> Told(b, l)
      /\ scene.ordered => AsksFirst(b)
  BY DEF Denies, Served, SameReplies
<1>3. PICK k : /\ ~Tells(a) /\ Tells(x) /\ ~OkIn(x) /\ (Wants(x) <=> Wants(a)) /\ AsksFirst(x)
               /\ \A l : Told(x, l) <=> l = k
               /\ k = "TEMPORARY_FAILURE" => o[z.child].state = "DELETING"
               /\ k = "NO_PROPOSAL" => scene.refuses
  BY DEF Denies, Replied
<1>4. ~OkIn(a)
  BY <1>3 DEF Turning, Met, Known
<1>5. Blank(s)
  BY <1>1, <1>2 DEF Bond
<1>6. Unborn(s, v)
  BY <1>1, <1>2 DEF Bond
<1>7. Tracks(s, v)
  BY <1>1, <1>2 DEF Bond
<1>8. Truthful(s, z, x)
  BY <1>1, <1>2, <1>3 DEF Bond, Truthful, Working
<1>9. Noted(s, z, x)
  BY <1>1, <1>2, <1>3 DEF Bond, Noted, Granted
<1>10. Separate(v, x, z)
  BY <1>1, <1>2, <1>3 DEF Bond, Separate, Granted
<1>11. Collides(v, x, r, z)
  BY <1>1, <1>2, <1>3, <1>4 DEF Bond, Collides
<1>12. Outcome(s, v, x, z, y)
  BY <1>1, <1>2, <1>3, <1>4 DEF Bond, Outcome
<1>13. Truthful(r, v, y)
  BY <1>1, <1>2 DEF Bond, Truthful
<1>14. Noted(r, v, y)
  BY <1>1, <1>2 DEF Bond, Noted, Granted
<1>15. Separate(z, y, v)
  BY <1>1, <1>2 DEF Bond, Separate, Granted
<1>16. Collides(z, y, s, v)
  BY <1>1, <1>2 DEF Bond, Collides
<1>17. Outcome(r, z, y, v, x)
  BY <1>1, <1>2, <1>4 DEF Bond, Outcome, Mutual
<1>18. ASSUME Firmly(o, t, a, r, z, b, v) PROVE Firm(s, v, x, z, y)
  BY <1>2, <1>3, <1>18 DEF Firmly, Firm, Due
<1>19. ASSUME Firmly(o, t, a, r, z, b, v) PROVE Firm(r, z, y, v, x)
  BY <1>2, <1>3, <1>4, <1>19 DEF Firmly, Firm, Due, Mutual
<1> QED
  BY <1>1, <1>5, <1>6, <1>7, <1>8, <1>9, <1>10, <1>11, <1>12, <1>13, <1>14, <1>15, <1>16, <1>17,
     <1>18, <1>19 DEF Bond

LEMMA AcceptsBond ==
    ASSUME NEW o, NEW t, NEW a, NEW r, NEW z, NEW b, NEW s, NEW v, NEW x, NEW y,
           Turning(o, t, a, r, z, b, s, v, x, y), Accepts(o, t, a, z, b, s, v, x, y)
    PROVE  /\ Bond(s, v, x, r, z, y) /\ Bond(r, z, y, s, v, x)
           /\ Firmly(o, t, a, r, z, b, v) => Firm(s, v, x, z, y) /\ Firm(r, z, y, v, x)
<1>1. Bond(o, t, a, r, z, b) /\ Bond(r, z, b, o, t, a)
  BY DEF Turning
<1>2. TaskOk(t) /\ TaskOk(z) /\ Informed(o, t) /\ Informed(r, z) /\ None \notin Sas
      /\ t.coll \in {"NONE", "REKEY", "DELETE"} /\ z.coll \in {"NONE", "REKEY", "DELETE"}
  BY SasFacts DEF Turning, Met, Known, TaskRec
<1>3. /\ z.sent /\ z.kind = "REKEY" /\ z.del = None /\ z.child \in Sas /\ z.new \in Sas \ {z.child}
      /\ Wants(b) /\ ~Wants(y) /\ (t.sent \/ t = Idle) /\ (scene.ordered => AsksFirst(b))
      /\ (OkIn(y) <=> OkIn(b)) /\ (Tells(y) <=> Tells(b)) /\ \A l : Told(y, l) <=> Told(b, l)
      /\ OkIn(b) => Tells(b)
  BY DEF Accepts, Served, SameReplies, Turning, Met, Known
<1>4. /\ ~Tells(a) /\ Tells(x) /\ OkIn(x) /\ (Wants(x) <=> Wants(a)) /\ AsksFirst(x)
      /\ \A l : Told(x, l) <=> l = "OK"
      /\ ~OkIn(a)
  BY DEF Accepts, Replied, Turning, Met, Known
<1>5. /\ v.kind = t.kind /\ v.child = t.child /\ v.new = t.new /\ v.sent = t.sent /\ v.del = t.del
      /\ v.rekeyed = t.rekeyed
      /\ t.kind = "REKEY" /\ t.child = z.child => v.coll = "REKEY" /\ v.other = z.new /\ v.gone = t.gone
      /\ ~(t.kind = "REKEY" /\ t.child = z.child) => v.coll = t.coll /\ v.other = t.other /\ v.gone = t.gone
  BY DEF Accepts, SameGoal, SameColl
<1>6. /\ s[z.new].state = "INSTALLED" /\ s[z.new].rekey = None /\ Working(s, z.new)
      /\ Working(o, z.child) /\ s[z.child].state = "REKEYED" /\ s[z.child].rekey = z.new
      /\ s[z.new].out # "NONE" /\ s[z.child].out = o[z.child].out
      /\ \A d \in Sas : d \notin {z.child, z.new} => s[d] = o[d]
  BY DEF Accepts, Replaced, NewSa, Working
<1>7. /\ o[z.new].state = "NONE" /\ r[z.new].state = "NONE" /\ t.child # z.new
      /\ t.del # z.new /\ (t.kind = "REKEY" => t.new # z.new) /\ (t.coll = "REKEY" => t.other # z.new)
  BY <1>4 DEF Turning, Met, Known, Older
<1>8. t.del # None => t.del # z.child
  <2>1. ASSUME t.del # None PROVE t.sent /\ ~Working(o, t.del)
    BY <1>2, <1>3, <2>1, IdleFacts DEF Informed, Working
  <2> QED
    BY <1>6, <2>1
<1>9. t.kind = "REKEY" /\ t.child = z.child => t.coll = "NONE" /\ ~t.gone
  BY <1>1, <1>2, <1>3, <1>4, <1>6 DEF Bond, Tracks, Collides, Rivals, Informed
<1>10. t.kind = "REKEY" /\ t.del # t.child => z.child # t.new
  <2>1. ASSUME t.kind = "REKEY", t.del = None PROVE z.child # t.new
    <3>1. o[t.new].state = "NONE"
      BY <1>1, <2>1 DEF Bond, Unborn
    <3> QED
      BY <1>6, <3>1 DEF Working
  <2>2. ASSUME t.kind = "REKEY", t.del # None, t.del # t.child PROVE z.child # t.new
    BY <1>2, <1>8, <2>2 DEF TaskOk
  <2> QED
    BY <2>1, <2>2
<1>11. t.kind = "NONE" \/ t.sent
  BY <1>3, IdleFacts
<1>12. Blank(s)
  BY <1>1, <1>6, <1>7 DEF Bond, Blank
<1>13. Unborn(s, v)
  BY <1>1, <1>2, <1>5, <1>6, <1>7 DEF Bond, Unborn, Working, TaskOk
<1>14. Tracks(s, v)
  BY <1>1, <1>2, <1>5, <1>6, <1>7, <1>9, <1>11 DEF Bond, Tracks, Retired, Working, TaskOk, Informed
<1>15. Truthful(s, z, x)
  BY <1>1, <1>4, <1>6 DEF Bond, Truthful
<1>16. Noted(s, z, x)
  BY <1>2, <1>6 DEF Noted, Granted, Retired, TaskOk
<1>17. Separate(v, x, z)
  BY <1>5, <1>7, <1>10 DEF Separate
<1>18. Collides(v, x, r, z)
  BY <1>1, <1>3, <1>4, <1>5 DEF Bond, Collides, Rivals
<1>19. Outcome(s, v, x, z, y)
  BY <1>1, <1>2, <1>3, <1>4, <1>5, <1>6, <1>11 DEF Bond, Outcome, Mutual, Rivals, Working, Informed
<1>20. Truthful(r, v, y)
  BY <1>1, <1>3, <1>5 DEF Bond, Truthful
<1>21. Noted(r, v, y)
  BY <1>1, <1>3, <1>5 DEF Bond, Noted, Granted
<1>22. Separate(z, y, v)
  BY <1>1, <1>5, <1>7 DEF Bond, Separate
<1>23. Collides(z, y, s, v)
  BY <1>1, <1>3, <1>5, <1>6 DEF Bond, Collides, Rivals, Retired
<1>24. Outcome(r, z, y, v, x)
  BY <1>1, <1>3, <1>4, <1>5 DEF Bond, Outcome, Mutual, Rivals, Collides
<1>25. ASSUME Firmly(o, t, a, r, z, b, v) PROVE Firm(s, v, x, z, y)
  BY <1>1, <1>3, <1>5, <1>6, <1>25 DEF Bond, Firmly, Firm, Due, Truthful
<1>26. ASSUME Firmly(o, t, a, r, z, b, v) PROVE Firm(r, z, y, v, x)
  BY <1>3, <1>4, <1>5, <1>26 DEF Firmly, Firm, Due, Mutual
<1> QED
  BY <1>1, <1>12, <1>13, <1>14, <1>15, <1>16, <1>17, <1>18, <1>19, <1>20, <1>21, <1>22, <1>23,
     <1>24, <1>25, <1>26 DEF Bond

LEMMA ObeysBond ==
    ASSUME NEW o, NEW t, NEW a, NEW r, NEW z, NEW b, NEW s, NEW v, NEW x, NEW y,
           Turning(o, t, a, r, z, b, s, v, x, y), Obeys(o, t, a, z, b, s, v, x, y)
    PROVE  /\ Bond(s, v, x, r, z, y) /\ Bond(r, z, y, s, v, x)
           /\ Firmly(o, t, a, r, z, b, v) => Firm(s, v, x, z, y) /\ Firm(r, z, y, v, x)
<1>1. Bond(o, t, a, r, z, b) /\ Bond(r, z, b, o, t, a)
  BY DEF Turning
<1>2. TaskOk(t) /\ TaskOk(z) /\ Informed(o, t) /\ Informed(r, z) /\ None \notin Sas
      /\ t.coll \in {"NONE", "REKEY", "DELETE"} /\ z.coll \in {"NONE", "REKEY", "DELETE"}
  BY SasFacts DEF Turning, Met, Known, TaskRec
<1>3. /\ z.sent /\ z.del \in Sas /\ Wants(b) /\ ~Wants(y) /\ (t.sent \/ t = Idle) /\ Working(o, z.del)
      /\ (OkIn(y) <=> OkIn(b)) /\ (Tells(y) <=> Tells(b)) /\ \A l : Told(y, l) <=> Told(b, l)
      /\ scene.ordered => AsksFirst(b)
  BY DEF Obeys, Served, SameReplies
<1>4. /\ ~Tells(a) /\ Tells(x) /\ ~OkIn(x) /\ (Wants(x) <=> Wants(a)) /\ AsksFirst(x)
      /\ \A l : Told(x, l) <=> l = "DONE"
      /\ ~OkIn(a)
  BY DEF Obeys, Replied, Turning, Met, Known
<1>5. t.del # z.del
  BY <1>2, <1>3, IdleFacts DEF Informed, Working
<1>6. /\ v.kind = t.kind /\ v.child = t.child /\ v.new = t.new /\ v.sent = t.sent /\ v.del = t.del
      /\ v.rekeyed = t.rekeyed
      /\ IF IsRedundant(t, z.del) THEN v.coll = t.coll /\ v.other = t.other /\ v.gone
         ELSE IF t.kind = "REKEY" /\ t.child = z.del THEN v.coll = "DELETE"
         ELSE v.coll = t.coll /\ v.other = t.other /\ v.gone = t.gone
  BY DEF Obeys, SameGoal, SameColl
<1>7. /\ s[z.del].state \in {"NONE", "DELETING"} /\ s[z.del].out = "NONE"
      /\ s[z.del].rekey = None \/ (s[z.del].state # "NONE" /\ s[z.del].rekey = o[z.del].rekey)
      /\ s[z.del].state = "NONE" => s[z.del].rekey = None
      /\ \A d \in Sas : d # z.del => /\ s[d].state = o[d].state /\ s[d].rekey = o[d].rekey
                                     /\ s[d].out = o[d].out \/ o[d].state # "NONE"
      /\ s[z.del].rekey = o[z.del].rekey \/ s[z.del].state = "NONE"
  <2>1. PICK moved \in BOOLEAN : moved <=> o[z.del].state = "REKEYED" \/ IsRedundant(t, z.del)
    BY DEF IsRedundant
  <2>2. Ceases(s, o, z.del, moved)
    BY <2>1 DEF Obeys
  <2>3. NoSa.state = "NONE" /\ NoSa.out = "NONE" /\ NoSa.rekey = None
    BY DEF NoSa
  <2> QED
    BY <2>2, <2>3 DEF Ceases
<1>8. z.del # None /\ (z.kind = "REKEY" => z.child \in Sas /\ z.new \in Sas)
  BY <1>2, <1>3 DEF TaskOk
<1>9. t.coll # "NONE" => t.kind = "REKEY" /\ t.child \in Sas
  BY <1>2 DEF TaskOk
<1>10. t.coll = "REKEY" => t.other \in Sas \ {t.child, t.new}
  BY <1>2 DEF TaskOk
<1>11. t.kind = "REKEY" => t.child \in Sas /\ t.new \in Sas \ {t.child}
  BY <1>2 DEF TaskOk
<1>12. Blank(s)
  BY <1>1, <1>7, <1>8 DEF Bond, Blank
<1>13. Unborn(s, v)
  BY <1>1, <1>3, <1>6, <1>7, <1>11 DEF Bond, Unborn, Working
<1>14. Tracks(s, v)
  BY <1>1, <1>5, <1>6, <1>7, <1>9, <1>10, <1>11 DEF Bond, Tracks, Retired, Working, IsRedundant
<1>15. Truthful(s, z, x)
  BY <1>1, <1>2, <1>4, <1>7 DEF Bond, Truthful, Working, TaskOk
<1>16. Noted(s, z, x)
  BY <1>1, <1>3, <1>4, <1>7, <1>8 DEF Bond, Noted, Granted, Working
<1>17. Separate(v, x, z)
  BY <1>1, <1>4, <1>6 DEF Bond, Separate, Granted
<1>18. Collides(v, x, r, z)
  BY <1>1, <1>4, <1>6 DEF Bond, Collides, Rivals
<1>19. Outcome(s, v, x, z, y)
  BY <1>4, <1>8 DEF Outcome
<1>20. Truthful(r, v, y)
  BY <1>1, <1>2, <1>3, <1>6 DEF Bond, Truthful, Working, Informed
<1>21. Noted(r, v, y)
  BY <1>1, <1>3, <1>6 DEF Bond, Noted, Granted
<1>22. Separate(z, y, v)
  BY <1>1, <1>3, <1>6 DEF Bond, Separate, Granted
<1>23. Collides(z, y, s, v)
  BY <1>1, <1>2, <1>3, <1>6, <1>7 DEF Bond, Collides, Rivals, Retired, TaskOk
<1>24. Outcome(r, z, y, v, x)
  BY <1>1, <1>3, <1>4, <1>6 DEF Bond, Outcome, Mutual, Rivals
<1>25. ASSUME Firmly(o, t, a, r, z, b, v) PROVE Firm(s, v, x, z, y)
  BY <1>4, <1>6, <1>7, <1>25 DEF Firmly, Firm, Retired
<1>26. ASSUME Firmly(o, t, a, r, z, b, v) PROVE Firm(r, z, y, v, x)
  <2>1. z.kind = "REKEY" /\ z.del \in {z.child, z.new} /\ Firm(r, z, b, t, a)
    BY <1>2, <1>3, <1>26, IdleFacts DEF Firmly, TaskOk
  <2>2. Tracks(r, z) /\ Separate(z, b, t) /\ Outcome(r, z, b, t, a)
    BY <1>1 DEF Bond
  <2>3. ASSUME OkIn(y), v.coll = "DELETE" PROVE Retired(r, v.new)
    <3>1. CASE t.coll = "DELETE"
      BY <1>3, <1>6, <2>1, <2>3, <3>1 DEF Firm
    <3>2. CASE t.kind = "REKEY" /\ t.child = z.del
      <4>1. z.del = z.child
        BY <1>3, <2>1, <2>2, <2>3, <3>2 DEF Separate, Granted
      <4> QED
        BY <1>3, <1>6, <2>1, <2>2, <2>3, <3>2, <4>1 DEF Outcome, Rivals
    <3> QED
      BY <1>6, <2>3, <3>1, <3>2
  <2>4. ASSUME v.kind = "REKEY", v.del = v.new, Due(v, x)
        PROVE  Retired(r, v.new) \/ (Mutual(z, v, x) /\ nonce[v.new] <= nonce[v.other])
    <3>1. Retired(r, t.new) \/ (Mutual(z, t, a) /\ nonce[t.new] <= nonce[t.other])
      BY <1>4, <1>6, <2>1, <2>4 DEF Firm, Due
    <3>2. SUFFICES ASSUME Mutual(z, t, a), nonce[t.new] <= nonce[t.other], ~Retired(r, t.new)
                   PROVE  Mutual(z, v, x) /\ nonce[v.new] <= nonce[v.other]
      BY <1>6, <3>1
    <3>3. t.child # z.del
      <4>1. SUFFICES ASSUME t.child = z.del PROVE FALSE
        OBVIOUS
      <4>2. z.del = z.child
        BY <3>2, <4>1 DEF Mutual, Rivals
      <4> QED
        BY <2>2, <3>2, <4>2 DEF Tracks, Mutual
    <3>4. v.coll = t.coll /\ v.other = t.other
      BY <1>6, <3>3
    <3> QED
      BY <1>6, <1>8, <3>2, <3>4 DEF Mutual, Rivals
  <2> QED
    BY <2>1, <2>3, <2>4 DEF Firm
<1> QED
  BY <1>1, <1>12, <1>13, <1>14, <1>15, <1>16, <1>17, <1>18, <1>19, <1>20, <1>21, <1>22, <1>23,
     <1>24, <1>25, <1>26 DEF Bond

LEMMA GivesUpBond ==
    ASSUME NEW o, NEW t, NEW a, NEW r, NEW z, NEW b, NEW s, NEW v, NEW x, NEW y,
           Turning(o, t, a, r, z, b, s, v, x, y), GivesUp(o, t, a, b, s, v, x, y)
    PROVE  /\ Bond(s, v, x, r, z, y) /\ Bond(r, z, y, s, v, x)
           /\ Firmly(o, t, a, r, z, b, v) => Firm(s, v, x, z, y) /\ Firm(r, z, y, v, x)
<1>1. Bond(o, t, a, r, z, b) /\ Bond(r, z, b, o, t, a)
  BY DEF Turning
<1>2. TaskOk(t) /\ TaskOk(z) /\ Informed(o, t) /\ Informed(r, z) /\ None \notin Sas
      /\ t.coll \in {"NONE", "REKEY", "DELETE"} /\ z.coll \in {"NONE", "REKEY", "DELETE"}
  BY SasFacts DEF Turning, Met, Known, TaskRec
<1>3. /\ x = a /\ v = Idle /\ t.sent /\ t.del = None /\ ~OkIn(b) /\ Tells(b)
      /\ ~Tells(y) /\ ~OkIn(y) /\ (\A k : ~Told(y, k)) /\ (Wants(y) <=> Wants(b))
  BY DEF GivesUp, Read
<1>4. v.kind = "NONE" /\ v.del = None /\ v.coll = "NONE" /\ ~v.gone
  BY <1>3, IdleFacts
<1>5. /\ OkIn(a) => z.kind = "REKEY" /\ z.del = None /\ z.sent
      /\ z.coll # "NONE" => z.kind = "REKEY"
      /\ Told(a, "TEMPORARY_FAILURE") => z.kind = "REKEY"
      /\ z.kind = "REKEY" => z.child \in Sas /\ z.new \in Sas
  BY FailureFacts DEF Turning, Met, Known, TaskOk
<1>6. s = o \/ /\ t.kind = "REKEY" /\ t.coll # "DELETE" /\ t.child \in Sas
               /\ o[t.child].state \in {"REKEYING", "REKEYED"}
               /\ s[t.child].state = "INSTALLED"
               /\ \A d \in Sas : s[d].rekey = o[d].rekey /\ s[d].out = o[d].out
               /\ \A d \in Sas : d # t.child => s[d].state = o[d].state
               /\ ~scene.ordered => ~Working(r, t.child)
  <2>1. Told(b, "NO_PROPOSAL") => scene.refuses
    BY <1>1 DEF Bond, Truthful
  <2>2. Told(b, "TEMPORARY_FAILURE") => ~Working(r, t.child)
    BY <1>1 DEF Bond, Truthful
  <2>3. scene.ordered \/ ~scene.refuses
    BY DEF Turning
  <2> QED
    BY <1>2, <2>1, <2>2, <2>3 DEF GivesUp, Puts, TaskOk, Informed
<1>7. ASSUME s # o, OkIn(a) PROVE z.child # t.child \/ scene.ordered
  BY <1>1, <1>2, <1>5, <1>6, <1>7 DEF Bond, Truthful, Informed, Working
<1>8. ASSUME s # o, z.kind = "REKEY", z.del # z.child, Retired(o, z.new) PROVE z.new # t.child
  <2>1. o[z.new].rekey = None
    BY <1>1, <1>8 DEF Bond, Noted
  <2>2. o[t.child].state = "REKEYED" => o[t.child].rekey # None
    BY <1>1, <1>3, <1>6, <1>8 DEF Bond, Tracks
  <2> QED
    BY <1>6, <1>8, <2>1, <2>2 DEF Retired
<1>9. Blank(s)
  BY <1>1, <1>6 DEF Bond, Blank
<1>10. Unborn(s, v)
  BY <1>4 DEF Unborn
<1>11. Tracks(s, v)
  BY <1>4 DEF Tracks
<1>12. Truthful(s, z, x)
  BY <1>1, <1>3, <1>5, <1>6 DEF Bond, Truthful, Working
<1>13. Noted(s, z, x)
  BY <1>1, <1>3, <1>5, <1>6, <1>7 DEF Bond, Noted, Granted, Retired
<1>14. Separate(v, x, z)
  BY <1>4 DEF Separate
<1>15. Collides(v, x, r, z)
  BY <1>4 DEF Collides, Rivals
<1>16. Outcome(s, v, x, z, y)
  BY <1>1, <1>2, <1>3, <1>4, <1>5, <1>6, <1>8 DEF Bond, Outcome, Mutual, Rivals, Retired, Working
<1>17. Truthful(r, v, y)
  BY <1>3, <1>4 DEF Truthful
<1>18. Noted(r, v, y)
  BY <1>3, <1>4 DEF Noted, Granted
<1>19. Separate(z, y, v)
  BY <1>4 DEF Separate, Granted
<1>20. Collides(z, y, s, v)
  BY <1>1, <1>3, <1>4, <1>5, <1>6 DEF Bond, Collides, Rivals, Retired
<1>21. Outcome(r, z, y, v, x)
  BY <1>4 DEF Outcome, Rivals
<1>22. ASSUME Firmly(o, t, a, r, z, b, v) PROVE Firm(s, v, x, z, y)
  BY <1>2, <1>3, <1>4, <1>5, <1>6, <1>8, <1>22 DEF Firmly, Firm, Due, Mutual, Retired, TaskOk
<1>23. ASSUME Firmly(o, t, a, r, z, b, v) PROVE Firm(r, z, y, v, x)
  BY <1>4, <1>23 DEF Firmly, Firm
<1> QED
  BY <1>1, <1>9, <1>10, <1>11, <1>12, <1>13, <1>14, <1>15, <1>16, <1>17, <1>18, <1>19, <1>20, <1>21,
     <1>22, <1>23 DEF Bond

LEMMA RetriesBond ==
    ASSUME NEW o, NEW t, NEW a, NEW r, NEW z, NEW b, NEW s, NEW v, NEW x, NEW y,
           Turning(o, t, a, r, z, b, s, v, x, y), Retries(o, t, a, b, s, v, x, y)
    PROVE  /\ Bond(s, v, x, r, z, y) /\ Bond(r, z, y, s, v, x)
           /\ Firmly(o, t, a, r, z, b, v) => Firm(s, v, x, z, y) /\ Firm(r, z, y, v, x)
<1>1. Bond(o, t, a, r, z, b) /\ Bond(r, z, b, o, t, a)
  BY DEF Turning
<1>2. TaskOk(t) /\ TaskOk(z) /\ Informed(o, t) /\ Informed(r, z) /\ None \notin Sas
      /\ t.coll \in {"NONE", "REKEY", "DELETE"} /\ z.coll \in {"NONE", "REKEY", "DELETE"}
  BY SasFacts DEF Turning, Met, Known, TaskRec
<1>3. /\ x = a /\ s = o /\ t.sent /\ t.kind = "REKEY" /\ t.del = None /\ ~OkIn(b) /\ Tells(b)
      /\ ~Tells(y) /\ ~OkIn(y) /\ (\A k : ~Told(y, k)) /\ (Wants(y) <=> Wants(b))
      /\ ~v.sent /\ v.kind = "REKEY" /\ v.child = t.child /\ v.new = t.new /\ v.del = None
      /\ v.coll = t.coll /\ v.other = t.other /\ v.gone = t.gone
  BY DEF Retries, Read, SameGoal, SameColl
<1>4. Blank(s)
  BY <1>1, <1>3 DEF Bond
<1>5. Unborn(s, v)
  BY <1>1, <1>3 DEF Bond, Unborn
<1>6. Tracks(s, v)
  BY <1>1, <1>3 DEF Bond, Tracks
<1>7. Truthful(s, z, x)
  BY <1>1, <1>3 DEF Bond
<1>8. Noted(s, z, x)
  BY <1>1, <1>3 DEF Bond
<1>9. Separate(v, x, z)
  BY <1>1, <1>3 DEF Bond, Separate
<1>10. Collides(v, x, r, z)
  BY <1>1, <1>3 DEF Bond, Collides, Rivals
<1>11. Outcome(s, v, x, z, y)
  BY <1>1, <1>3 DEF Bond, Outcome, Mutual, Rivals
<1>12. Truthful(r, v, y)
  BY <1>1, <1>3 DEF Bond, Truthful
<1>13. Noted(r, v, y)
  BY <1>1, <1>3 DEF Bond, Noted, Granted
<1>14. Separate(z, y, v)
  BY <1>1, <1>3 DEF Bond, Separate, Granted
<1>15. Collides(z, y, s, v)
  BY <1>1, <1>3 DEF Bond, Collides, Rivals
<1>16. Outcome(r, z, y, v, x)
  BY <1>1, <1>3 DEF Bond, Outcome, Rivals
<1>17. ASSUME Firmly(o, t, a, r, z, b, v) PROVE Firm(s, v, x, z, y)
  BY <1>3, <1>17 DEF Firmly, Firm, Due, Mutual
<1>18. ASSUME Firmly(o, t, a, r, z, b, v) PROVE Firm(r, z, y, v, x)
  BY <1>2, <1>3, <1>18 DEF Firmly, Firm, TaskOk
<1> QED
  BY <1>1, <1>4, <1>5, <1>6, <1>7, <1>8, <1>9, <1>10, <1>11, <1>12, <1>13, <1>14, <1>15, <1>16,
     <1>17, <1>18 DEF Bond

LEMMA SucceedsBond ==
    ASSUME NEW o, NEW t, NEW a, NEW r, NEW z, NEW b, NEW s, NEW v, NEW x, NEW y,
           Turning(o, t, a, r, z, b, s, v, x, y), Succeeds(o, t, a, b, s, v, x, y)
    PROVE  /\ Bond(s, v, x, r, z, y) /\ Bond(r, z, y, s, v, x)
           /\ Firmly(o, t, a, r, z, b, v) => Firm(s, v, x, z, y) /\ Firm(r, z, y, v, x)
<1>1. Bond(o, t, a, r, z, b) /\ Bond(r, z, b, o, t, a)
  BY DEF Turning
<1>2. TaskOk(t) /\ TaskOk(z) /\ Informed(o, t) /\ Informed(r, z) /\ None \notin Sas
      /\ t.coll \in {"NONE", "REKEY", "DELETE"} /\ z.coll \in {"NONE", "REKEY", "DELETE"}
  BY SasFacts DEF Turning, Met, Known, TaskRec
<1>3. PICK won \in BOOLEAN : won = Wins(t) /\ (won => t.coll # "DELETE") /\ (~won => t.coll # "NONE")
  BY DEF Wins
<1>4. /\ x = a /\ t.sent /\ t.kind = "REKEY" /\ t.del = None /\ OkIn(b) /\ Tells(b)
      /\ ~Tells(y) /\ ~OkIn(y) /\ (\A k : ~Told(y, k)) /\ (Wants(y) <=> Wants(b))
      /\ ~v.sent /\ v.kind = "REKEY" /\ v.child = t.child /\ v.new = t.new
      /\ v.del = (IF won THEN t.child ELSE t.new)
      /\ v.coll = t.coll /\ v.other = t.other /\ v.gone = t.gone
  BY <1>3 DEF Succeeds, Read, SameGoal, SameColl
<1>5. /\ t.child \in Sas /\ t.new \in Sas \ {t.child} /\ (z.kind = "REKEY" => t.new # z.new)
      /\ t.coll = "REKEY" => t.other \in Sas \ {t.child, t.new}
      /\ z.kind = "REKEY" => z.child \in Sas /\ z.new \in Sas \ {z.child}
      /\ z.coll # "NONE" => z.kind = "REKEY"
      /\ OkIn(a) => z.kind = "REKEY" /\ z.del = None
      /\ ~Wants(a) /\ AsksFirst(a)
  BY <1>4 DEF Turning, Met, Known, TaskOk, Wants, AsksFirst
<1>6. ~won /\ t.coll = "REKEY" =>
         nonce[t.new] <= nonce[t.other] /\ ~(nonce[t.new] > nonce[t.other])
  <2>1. t.coll = "REKEY" => nonce[t.new] \in Nat /\ nonce[t.other] \in Nat
    BY <1>5 DEF Turning, Ranked
  <2>2. ~won /\ t.coll = "REKEY" => ~(nonce[t.new] > nonce[t.other])
    BY <1>3 DEF Wins
  <2> QED
    BY <2>1, <2>2
<1>7. /\ s[t.new].rekey = None /\ s[t.new].state # "NONE"
      /\ \A d \in Sas \ {t.new} :
            /\ s[d].out = o[d].out /\ s[d].rekey = o[d].rekey /\ (Working(s, d) <=> Working(o, d))
            /\ s[d].state = o[d].state \/ (s[d].state = "REKEYED" /\ Working(o, d))
      /\ won => s[t.child].state = "REKEYED"
      /\ won /\ t.coll = "REKEY" => Retired(s, t.other)
  <2>1. Replaces(s, o, t)
    BY DEF Succeeds
  <2>2. won => Working(o, t.child) /\ (t.coll = "REKEY" /\ ~t.gone => Working(o, t.other))
    BY <1>2, <1>3, <1>4 DEF Informed, Working
  <2>3. ASSUME NEW d \in Sas \ {t.new}
        PROVE  /\ s[d].out = o[d].out /\ s[d].rekey = o[d].rekey
               /\ s[d].state = o[d].state \/ (s[d].state = "REKEYED" /\ Working(o, d))
    BY <1>3, <2>1, <2>2 DEF Replaces
  <2>4. won /\ t.coll = "REKEY" /\ t.gone => ~Working(o, t.other)
    BY <1>1 DEF Bond, Tracks
  <2>5. won => s[t.child].state = "REKEYED"
    BY <1>3, <1>5, <2>1 DEF Replaces
  <2>6. won /\ t.coll = "REKEY" /\ ~t.gone => s[t.other].state = "REKEYED"
    BY <1>3, <1>5, <2>1 DEF Replaces
  <2>7. won /\ t.coll = "REKEY" => Retired(s, t.other)
    BY <1>5, <2>3, <2>4, <2>6 DEF Retired, Working
  <2>8. s[t.new].rekey = None /\ s[t.new].state # "NONE"
    BY <2>1 DEF Replaces
  <2>9. \A d \in Sas \ {t.new} : Working(s, d) <=> Working(o, d)
    BY <2>3 DEF Working
  <2> QED
    BY <2>3, <2>5, <2>7, <2>8, <2>9
<1>8. z.coll = "DELETE" => z.child # t.new
  <2>1. Working(r, t.new) \/ Deleting(z, t.new)
    BY <1>4 DEF Turning, Met, Known
  <2> QED
    BY <1>1, <1>2, <1>5, <2>1 DEF Bond, Tracks, Informed, Deleting
<1>9. Told(a, "TEMPORARY_FAILURE") => z.child # t.new /\ z.child \in Sas
  <2>1. ASSUME Told(a, "TEMPORARY_FAILURE") PROVE z.kind = "REKEY" /\ z.del = None /\ Tells(a) /\ z.child \in Sas
    BY <2>1, FailureFacts DEF Turning, Met, Told, Tells
  <2> QED
    BY <1>4, <2>1 DEF Turning, Met, Known
<1>10. z.coll = "REKEY" => z.child # t.new
  BY <1>1, <1>4, <1>5 DEF Bond, Separate
<1>11. Granted(z, a) => z.child # t.new
  BY <1>1, <1>2, <1>4, <1>5 DEF Bond, Separate
<1>12. Blank(s)
  BY <1>1, <1>2, <1>7 DEF Bond, Blank
<1>13. Unborn(s, v)
  BY <1>2, <1>4 DEF Unborn, TaskOk
<1>14. Tracks(s, v)
  BY <1>1, <1>2, <1>3, <1>4, <1>6, <1>7 DEF Bond, Tracks, TaskOk
<1>15. Truthful(s, z, x)
  BY <1>1, <1>4, <1>5, <1>7, <1>8, <1>9 DEF Bond, Truthful
<1>16. Noted(s, z, x)
  BY <1>1, <1>4, <1>5, <1>7, <1>11 DEF Bond, Noted, Granted, Retired, Working
<1>17. Separate(v, x, z)
  BY <1>1, <1>4, <1>11 DEF Bond, Separate
<1>18. Collides(v, x, r, z)
  BY <1>1, <1>4 DEF Bond, Collides, Rivals
<1>19. Outcome(s, v, x, z, y)
  BY <1>1, <1>2, <1>3, <1>4, <1>5, <1>7, <1>10 DEF Bond, Outcome, Mutual, Rivals, Retired, Collides,
     Informed
<1>20. Truthful(r, v, y)
  BY <1>1, <1>4 DEF Bond, Truthful
<1>21. Noted(r, v, y)
  BY <1>1, <1>2, <1>4 DEF Bond, Noted, Granted, TaskOk
<1>22. Separate(z, y, v)
  BY <1>1, <1>4 DEF Bond, Separate, Granted
<1>23. Collides(z, y, s, v)
  BY <1>1, <1>2, <1>3, <1>4, <1>7, <1>10 DEF Bond, Collides, Rivals, Retired, Tracks, Working,
     TaskOk, Informed
<1>24. Outcome(r, z, y, v, x)
  BY <1>2, <1>4 DEF Outcome, TaskOk
<1>25. ASSUME Firmly(o, t, a, r, z, b, v) PROVE Firm(s, v, x, z, y)
  BY <1>2, <1>4, <1>5, <1>7, <1>25 DEF Firmly, Firm, Due, Mutual, Rivals, Retired
<1>26. ASSUME Firmly(o, t, a, r, z, b, v) PROVE Firm(r, z, y, v, x)
  BY <1>1, <1>2, <1>3, <1>4, <1>6, <1>26 DEF Bond, Firmly, Firm, Mutual, Rivals, Outcome, TaskOk
<1> QED
  BY <1>1, <1>12, <1>13, <1>14, <1>15, <1>16, <1>17, <1>18, <1>19, <1>20, <1>21, <1>22, <1>23,
     <1>24, <1>25, <1>26 DEF Bond

LEMMA CompletesBond ==
    ASSUME NEW o, NEW t, NEW a, NEW r, NEW z, NEW b, NEW s, NEW v, NEW x, NEW y,
           Turning(o, t, a, r, z, b, s, v, x, y), Completes(o, t, a, b, s, v, x, y)
    PROVE  /\ Bond(s, v, x, r, z, y) /\ Bond(r, z, y, s, v, x)
           /\ Firmly(o, t, a, r, z, b, v) => Firm(s, v, x, z, y) /\ Firm(r, z, y, v, x)
<1>1. Bond(o, t, a, r, z, b) /\ Bond(r, z, b, o, t, a)
  BY DEF Turning
<1>2. TaskOk(t) /\ TaskOk(z) /\ Informed(o, t) /\ Informed(r, z) /\ None \notin Sas
      /\ t.coll \in {"NONE", "REKEY", "DELETE"} /\ z.coll \in {"NONE", "REKEY", "DELETE"}
  BY SasFacts DEF Turning, Met, Known, TaskRec
<1>3. /\ x = a /\ v = Idle /\ t.sent /\ t.del \in Sas /\ Tells(b)
      /\ ~Tells(y) /\ ~OkIn(y) /\ (\A k : ~Told(y, k)) /\ (Wants(y) <=> Wants(b))
  BY DEF Completes, Read
<1>4. v.kind = "NONE" /\ v.del = None /\ v.coll = "NONE" /\ ~v.gone
  BY <1>3, IdleFacts
<1>5. /\ OkIn(a) => z.kind = "REKEY" /\ z.del = None
      /\ z.coll # "NONE" => z.kind = "REKEY"
      /\ Told(a, "TEMPORARY_FAILURE") => z.kind = "REKEY"
      /\ z.kind = "REKEY" => z.child \in Sas /\ z.new \in Sas
      /\ ~OkIn(b)
  BY <1>2, <1>3, FailureFacts DEF Turning, Met, Known, TaskOk
<1>6. /\ s[t.del].state \in {"NONE", "DELETING"} /\ o[t.del].state = "DELETING"
      /\ s[t.del].rekey = o[t.del].rekey \/ (s[t.del].state = "NONE" /\ s[t.del].rekey = None)
      /\ s[t.del].out = "NONE"
      /\ \A d \in Sas : d # t.del => /\ s[d].state = o[d].state /\ s[d].rekey = o[d].rekey
                                     /\ s[d].out = o[d].out \/ o[d].state # "NONE"
      /\ s[t.del].state = "NONE" => s[t.del].rekey = None
  <2>1. PICK moved \in BOOLEAN : moved <=> t.rekeyed /\ ~IsRedundant(t, o[t.del].rekey)
    OBVIOUS
  <2>2. Ceases(s, o, t.del, moved)
    BY <2>1 DEF Completes
  <2>3. NoSa.state = "NONE" /\ NoSa.out = "NONE" /\ NoSa.rekey = None
    BY DEF NoSa
  <2> QED
    BY <1>2, <1>3, <2>2, <2>3 DEF Ceases, Informed
<1>7. ASSUME Mutual(t, z, b), t.del = t.new
      PROVE  nonce[z.new] > nonce[z.other] /\ ~(nonce[z.new] <= nonce[z.other])
  <2>1. nonce[t.new] <= nonce[t.other] /\ t.new \in Sas /\ t.other \in Sas \ {t.new}
    BY <1>1, <1>2, <1>7 DEF Bond, Tracks, Mutual, TaskOk
  <2>2. nonce[t.new] \in Nat /\ nonce[t.other] \in Nat /\ nonce[t.new] # nonce[t.other]
    BY <2>1 DEF Turning, Ranked
  <2> QED
    BY <1>7, <2>1, <2>2 DEF Mutual
<1>8. ASSUME Mutual(t, z, b), t.del = t.child PROVE Retired(o, z.new) /\ ~Working(o, z.child)
  BY <1>1, <1>6, <1>8 DEF Bond, Tracks, Mutual, Rivals, Working
<1>9. t.kind = "REKEY" => t.del \in {t.child, t.new}
  BY <1>2, <1>3 DEF TaskOk
<1>10. Blank(s)
  BY <1>1, <1>2, <1>6 DEF Bond, Blank
<1>11. Unborn(s, v)
  BY <1>4 DEF Unborn
<1>12. Tracks(s, v)
  BY <1>4 DEF Tracks
<1>13. Truthful(s, z, x)
  BY <1>1, <1>3, <1>5, <1>6 DEF Bond, Truthful, Working
<1>14. Noted(s, z, x)
  BY <1>1, <1>3, <1>5, <1>6 DEF Bond, Noted, Granted, Retired
<1>15. Separate(v, x, z)
  BY <1>4 DEF Separate
<1>16. Collides(v, x, r, z)
  BY <1>4 DEF Collides, Rivals
<1>17. Outcome(s, v, x, z, y)
  BY <1>1, <1>3, <1>4, <1>5, <1>6, <1>7, <1>9 DEF Bond, Outcome, Mutual, Rivals, Retired, Working
<1>18. Truthful(r, v, y)
  BY <1>3, <1>4 DEF Truthful
<1>19. Noted(r, v, y)
  BY <1>3, <1>4 DEF Noted, Granted
<1>20. Separate(z, y, v)
  BY <1>4 DEF Separate, Granted
<1>21. Collides(z, y, s, v)
  BY <1>1, <1>4, <1>5, <1>6 DEF Bond, Collides, Rivals, Retired
<1>22. Outcome(r, z, y, v, x)
  BY <1>4 DEF Outcome, Rivals
<1>23. ASSUME Firmly(o, t, a, r, z, b, v) PROVE Firm(s, v, x, z, y)
  BY <1>3, <1>4, <1>5, <1>6, <1>7, <1>8, <1>9, <1>23 DEF Firmly, Firm, Due, Mutual, Rivals, Retired
<1>24. ASSUME Firmly(o, t, a, r, z, b, v) PROVE Firm(r, z, y, v, x)
  BY <1>4, <1>24 DEF Firmly, Firm
<1> QED
  BY <1>1, <1>10, <1>11, <1>12, <1>13, <1>14, <1>15, <1>16, <1>17, <1>18, <1>19, <1>20, <1>21,
     <1>22, <1>23, <1>24 DEF Bond

\* A step keeps the bond.
LEMMA DeedBond ==
    ASSUME NEW o, NEW t, NEW a, NEW r, NEW z, NEW b, NEW s, NEW v, NEW x, NEW y,
           Turning(o, t, a, r, z, b, s, v, x, y), Deed(o, t, a, z, b, s, v, x, y)
    PROVE  /\ Bond(s, v, x, r, z, y) /\ Bond(r, z, y, s, v, x)
           /\ Firmly(o, t, a, r, z, b, v) => Firm(s, v, x, z, y) /\ Firm(r, z, y, v, x)
BY RestsBond, QuitsBond, AsksRekeyBond, AsksDeleteBond, DeniesBond, AcceptsBond, ObeysBond,
   GivesUpBond, RetriesBond, SucceedsBond, CompletesBond DEF Deed

\* A CHILD_SA that a colliding rekeying has made is not one that is still to be made.
Aged(p) == task[p].coll = "REKEY" =>
    /\ task[p].other < NextSa
    /\ \A w \in Peers : ~Reserved(w, task[p].other)

AgedInv == Tame => \A p \in Peers : Aged(p)

\* The CHILD_SA of a collision becomes known when it is made.
LEMMA DeedOther ==
    ASSUME NEW o, NEW t, NEW a, NEW z, NEW b, NEW s, NEW v, NEW x, NEW y,
           Deed(o, t, a, z, b, s, v, x, y), v.coll = "REKEY"
    PROVE  \/ t.coll = "REKEY" /\ v.other = t.other
           \/ OkIn(x) /\ z.kind = "REKEY" /\ z.del = None /\ v.other = z.new
<1>0. EmptyTask.coll = "NONE" /\ Idle.coll = "NONE"
  BY EmptyFacts, IdleFacts
<1> QED
  BY <1>0 DEF Deed, Rests, Quits, AsksRekey, AsksDelete, Denies, Accepts, Obeys, GivesUp, Retries,
     Succeeds, Completes, SameColl, Replied

LEMMA AgedNext == RekeyInv /\ Agreement /\ Plainly /\ AgedInv /\ [Next]_vars => AgedInv'
<1>1. SUFFICES ASSUME RekeyInv, Agreement, Plainly, AgedInv, [Next]_vars PROVE AgedInv'
  OBVIOUS
<1>2. RekeyInv' /\ Agreement' /\ Plainly'
  BY <1>1, RekeyNext, AgreementNext, PlainlyNext
<1>3. ASSUME UNCHANGED vars PROVE AgedInv'
  BY <1>1, <1>3 DEF vars, AgedInv, Aged, Tame, Overtaking, NextSa, Reserved
<1>4. ASSUME Next, Tame', NEW p \in Peers, task'[p].coll = "REKEY" PROVE Aged(p)'
  <2>1. PICK u \in Peers : GoodStep(u)
    BY <1>1, <1>4, NextActs, ActsGood
  <2>2. PICK w \in Peers : w = Other(u) /\ w # u /\ Other(w) = u /\ \A i \in Peers : i = u \/ i = w
    BY PeersFacts
  <2>3. /\ scene' = scene /\ task'[w] = task[w] /\ queue'[w] = queue[w]
        /\ left \in Bounds /\ left' \in Bounds /\ scene \in Scenarios
    BY <1>1, <1>2, <2>1, <2>2 DEF GoodStep, Moves, RekeyInv, LooseType
  <2>4. Tame
    BY <1>4, <2>3 DEF Tame, Overtaking
  <2>5. ASSUME NEW n \in Sas, NEW i \in Peers, Reserved(i, n)' PROVE Reserved(i, n) \/ n >= NextSa
    <3>1. CASE i = u
      BY <2>1, <2>5, <3>1 DEF GoodStep, Frugal
    <3>2. CASE i = w
      BY <1>1, <2>1, <2>2, <2>3, <2>5, <3>2, ExchangingNext DEF GoodStep, Reserved, Unmade
    <3> QED
      BY <2>2, <3>1, <3>2
  <2>6. NextSa \in Int /\ NextSa' \in Int /\ NextSa <= NextSa'
    <3>1. left.rekeys \in Nat /\ left'.rekeys \in Nat /\ scene.rekeys \in Nat
      BY <2>3, ChildRekeyConstants DEF Bounds, Scenario
    <3>2. left'.rekeys <= left.rekeys
      BY <2>1, <3>1 DEF GoodStep, Frugal
    <3> QED
      BY <2>3, <3>1, <3>2 DEF NextSa
  <2>7. PICK n \in Sas : n = task'[p].other
    <3>1. TaskOk(task'[p])
      BY <1>2 DEF RekeyInv, LocalOk
    <3> QED
      BY <1>4, <3>1 DEF TaskOk
  <2>8. \/ task[p].coll = "REKEY" /\ n = task[p].other
        \/ /\ OkIn(air'[p]) /\ task'[Other(p)].kind = "REKEY" /\ n = task'[Other(p)].new
    <3>1. PICK g \in Peers : Advances(g)
      BY <1>1, <1>4, <2>4, NextAdvances DEF Plainly
    <3>2. p = g \/ p = Other(g)
      BY PeersFacts
    <3>3. CASE p = g
      BY <1>4, <2>7, <3>1, <3>3, DeedOther DEF Advances
    <3>4. CASE p = Other(g)
      BY <1>4, <2>7, <3>1, <3>4 DEF Advances
    <3> QED
      BY <3>2, <3>3, <3>4
  <2>9. CASE task[p].coll = "REKEY" /\ n = task[p].other
    <3>1. n < NextSa /\ \A i \in Peers : ~Reserved(i, n)
      BY <1>1, <2>4, <2>9 DEF AgedInv, Aged
    <3>2. ASSUME NEW i \in Peers PROVE ~Reserved(i, n)'
      BY <2>5, <2>6, <3>1, SasFacts
    <3> QED
      BY <2>6, <2>7, <3>1, <3>2, SasFacts DEF Aged, Reserved, Unmade, Queued
  <2>10. CASE OkIn(air'[p]) /\ task'[Other(p)].kind = "REKEY" /\ n = task'[Other(p)].new
    <3>1. PICK q \in Peers : q = Other(p) /\ Other(q) = p /\ \A i \in Peers : i = p \/ i = q
      BY PeersFacts
    <3>2. Holds(q, n)'
      BY <2>10, <3>1 DEF Holds
    <3>3. n < NextSa' /\ ~Holds(p, n)' /\ Apart(task[q], queue[q])'
      BY <1>2, <3>1, <3>2 DEF RekeyInv, Numbers
    <3>4. ~Reserved(p, n)'
      BY <3>3 DEF Reserved, Holds, Unmade
    <3>5. ~Queued(queue[q], n)'
      BY <2>10, <3>1, <3>3, SasFacts DEF Apart, Queued
    <3>6. ~Reserved(q, n)'
      BY <2>10, <3>1, <3>5 DEF Reserved, Unmade
    <3> QED
      BY <2>7, <3>1, <3>3, <3>4, <3>6 DEF Aged, Reserved, Unmade, Queued
  <2> QED
    BY <2>8, <2>9, <2>10
<1> QED
  BY <1>1, <1>3, <1>4 DEF AgedInv, Aged

AllMet == \A p \in Peers :
    Met(sa[p], task[p], air[p], sa[Other(p)], task[Other(p)], air[Other(p)])

LEMMA AllMetFacts == RekeyInv /\ Agreement /\ Plainly /\ AgedInv /\ Tame => AllMet
<1> SUFFICES ASSUME RekeyInv, Agreement, Plainly, AgedInv, Tame, NEW p \in Peers
             PROVE  Met(sa[p], task[p], air[p], sa[Other(p)], task[Other(p)], air[Other(p)])
  BY DEF AllMet
<1>1. PICK q \in Peers : q = Other(p) /\ Other(q) = p
  BY PeersFacts
<1>2. Known(sa[p], task[p], air[p], sa[q], task[q], air[q])
  BY <1>1, AllKnownFacts DEF AllKnown
<1>3. ~task[q].failed /\ Offered(scene, task[p], air[p], air[q], sa[q], task[q], queue[q], jobs[q])
  BY <1>1 DEF Agreement, Agreed
<1>4. OkIn(air[q]) /\ ~scene.early => task[q].child # task[p].new /\ task[q].del # task[p].new
  BY <1>3 DEF Offered, Unmentioned
<1>5. Older(task[p], task[q], air[p])
  BY <1>1, <1>3 DEF Older, AgedInv, Aged, Reserved, Unmade
<1> QED
  BY <1>1, <1>2, <1>4, <1>5, LocalFacts DEF Met

LEMMA RankedFacts == RekeyInv => Ranked
<1> SUFFICES ASSUME RekeyInv PROVE Ranked
  OBVIOUS
<1>1. nonce \in [Sas -> Sas] /\ \A c, d \in Sas : nonce[c] = nonce[d] => c = d
  BY DEF RekeyInv, LooseType, Injection, IsInjective
<1> QED
  BY <1>1, SasFacts DEF Ranked

\* Colliding rekeyings know of each other.
BondInv == Orderly => \A p \in Peers :
    Bond(sa[p], task[p], air[p], sa[Other(p)], task[Other(p)], air[Other(p)])

LEMMA OrderlyTame == Orderly => Tame
BY DEF Orderly, Tame, Overtaking

LEMMA BondStep ==
    ASSUME Ranked, Orderly, AllMet, AllMet', NEW p \in Peers, BondInv, Advances(p)
    PROVE  BondInv'
<1>0. PICK q \in Peers : q = Other(p) /\ Other(q) = p /\ \A w \in Peers : w = p \/ w = q
  BY PeersFacts
<1>1. PICK o, t, a, r, z, b, s, v, x, y :
        /\ o = sa[p] /\ t = task[p] /\ a = air[p] /\ r = sa[q] /\ z = task[q] /\ b = air[q]
        /\ s = sa'[p] /\ v = task'[p] /\ x = air'[p] /\ y = air'[q]
  OBVIOUS
<1>2. sa'[q] = r /\ task'[q] = z /\ scene' = scene /\ nonce' = nonce /\ Deed(o, t, a, z, b, s, v, x, y)
  BY <1>0, <1>1 DEF Advances
<1>3. Met(o, t, a, r, z, b) /\ Met(r, z, b, o, t, a)
  BY <1>0, <1>1 DEF AllMet
<1>4. Met(s, v, x, r, z, y) /\ Met(r, z, y, s, v, x)
  BY <1>0, <1>1, <1>2 DEF AllMet, Met, Known
<1>5. Bond(o, t, a, r, z, b) /\ Bond(r, z, b, o, t, a)
  BY <1>0, <1>1 DEF BondInv
<1>6. Turning(o, t, a, r, z, b, s, v, x, y)
  BY <1>3, <1>4, <1>5 DEF Turning, Orderly
<1>7. Bond(s, v, x, r, z, y) /\ Bond(r, z, y, s, v, x)
  BY <1>2, <1>6, DeedBond
<1>8. Bond(sa[p], task[p], air[p], sa[q], task[q], air[q])'
  <2>1. (Blank(sa[p]) /\ Unborn(sa[p], task[p]) /\ Tracks(sa[p], task[p]))'
    BY <1>1, <1>2, <1>7 DEF Bond, Blank, Unborn, Tracks, Retired
  <2>2. (Truthful(sa[p], task[q], air[p]) /\ Noted(sa[p], task[q], air[p]))'
    BY <1>1, <1>2, <1>7 DEF Bond, Truthful, Noted, Granted, Retired
  <2>3. (Separate(task[p], air[p], task[q]) /\ Collides(task[p], air[p], sa[q], task[q]))'
    BY <1>1, <1>2, <1>7 DEF Bond, Separate, Granted, Collides, Rivals, Retired
  <2>4. Outcome(sa[p], task[p], air[p], task[q], air[q])'
    BY <1>1, <1>2, <1>7 DEF Bond, Outcome, Mutual, Rivals, Retired
  <2> QED
    BY <2>1, <2>2, <2>3, <2>4 DEF Bond
<1>9. Bond(sa[q], task[q], air[q], sa[p], task[p], air[p])'
  <2>1. (Blank(sa[q]) /\ Unborn(sa[q], task[q]) /\ Tracks(sa[q], task[q]))'
    BY <1>1, <1>2, <1>7 DEF Bond, Blank, Unborn, Tracks, Retired
  <2>2. (Truthful(sa[q], task[p], air[q]) /\ Noted(sa[q], task[p], air[q]))'
    BY <1>1, <1>2, <1>7 DEF Bond, Truthful, Noted, Granted, Retired
  <2>3. (Separate(task[q], air[q], task[p]) /\ Collides(task[q], air[q], sa[p], task[p]))'
    BY <1>1, <1>2, <1>7 DEF Bond, Separate, Granted, Collides, Rivals, Retired
  <2>4. Outcome(sa[q], task[q], air[q], task[p], air[p])'
    BY <1>1, <1>2, <1>7 DEF Bond, Outcome, Mutual, Rivals, Retired
  <2> QED
    BY <2>1, <2>2, <2>3, <2>4 DEF Bond
<1> QED
  BY <1>0, <1>8, <1>9 DEF BondInv

LEMMA InitBond == Init => AgedInv /\ BondInv
<1>1. SUFFICES ASSUME Init, NEW p \in Peers
               PROVE  /\ Aged(p)
                      /\ Bond(sa[p], task[p], air[p], sa[Other(p)], task[Other(p)], air[Other(p)])
  BY DEF AgedInv, BondInv
<1>2. PICK q \in Peers : q = Other(p)
  BY PeersFacts
<1>3. task[p] = Idle /\ task[q] = Idle /\ air[p] = <<>> /\ air[q] = <<>>
  BY <1>1, <1>2 DEF Init
<1>4. DOMAIN <<>> = {}
  OBVIOUS
<1>5. Asked(<<>>) = {} /\ Replies(<<>>) = {}
  BY <1>4 DEF Asked, Replies
<1>6. ~OkIn(<<>>) /\ \A k : ~Told(<<>>, k)
  BY <1>5 DEF OkIn, Told
<1>7. Blank(sa[p])
  <2>1. \A c \in Sas : sa[p][c] = IF c = 1 THEN InUse ELSE NoSa
    BY <1>1 DEF Init
  <2> QED
    BY <2>1, SasFacts DEF InUse, NewSa, NoSa, Blank
<1>8. /\ Unborn(sa[p], Idle) /\ Tracks(sa[p], Idle) /\ Truthful(sa[p], Idle, <<>>)
      /\ Noted(sa[p], Idle, <<>>) /\ Separate(Idle, <<>>, Idle) /\ Collides(Idle, <<>>, sa[q], Idle)
      /\ Outcome(sa[p], Idle, <<>>, Idle, <<>>)
  BY <1>6, IdleFacts DEF Unborn, Tracks, Truthful, Noted, Granted, Separate, Collides, Rivals,
     Outcome
<1> QED
  BY <1>2, <1>3, <1>7, <1>8, IdleFacts DEF Bond, Aged

LEMMA BondNext == RekeyInv /\ Agreement /\ Plainly /\ AgedInv /\ BondInv /\ [Next]_vars => BondInv'
<1>1. SUFFICES ASSUME RekeyInv, Agreement, Plainly, AgedInv, BondInv, [Next]_vars PROVE BondInv'
  OBVIOUS
<1>2. RekeyInv' /\ Agreement' /\ Plainly' /\ AgedInv'
  BY <1>1, RekeyNext, AgreementNext, PlainlyNext, AgedNext
<1>3. ASSUME UNCHANGED vars PROVE BondInv'
  BY <1>1, <1>3 DEF vars, BondInv, Orderly, Bond, Blank, Unborn, Tracks, Retired, Truthful, Noted,
     Granted, Separate, Collides, Rivals, Outcome, Mutual
<1>4. ASSUME Next, Orderly' PROVE BondInv'
  <2>1. scene' = scene
    BY <1>1, <1>4, NextActs, ActsGood DEF GoodStep, Moves
  <2>2. Orderly /\ Tame /\ Tame'
    BY <1>4, <2>1 DEF Orderly, Tame, Overtaking
  <2>3. PICK p \in Peers : Advances(p)
    BY <1>1, <1>4, <2>2, NextAdvances DEF Plainly
  <2>4. AllMet /\ AllMet'
    BY <1>1, <1>2, <2>2, AllMetFacts, PTL
  <2> QED
    BY <1>1, <2>2, <2>3, <2>4, RankedFacts, BondStep
<1> QED
  BY <1>1, <1>3, <1>4 DEF BondInv

\* As long as no user deletes a CHILD_SA, only rekeyed ones are deleted.
Sturdy(p) == LET q == Other(p) IN
    /\ Firm(sa[p], task[p], air[p], task[q], air[q])
    /\ Tidy(sa[p], task[p], sa[q], Todo(p))

FirmInv == Orderly /\ Undeleted => \A p \in Peers : Sturdy(p)

LEMMA InitFirm == Init => FirmInv
<1>1. SUFFICES ASSUME Init, NEW p \in Peers PROVE Sturdy(p)
  BY DEF FirmInv
<1>2. PICK q \in Peers : q = Other(p)
  BY PeersFacts
<1>3. /\ task[p] = Idle /\ task[q] = Idle /\ air[p] = <<>> /\ queue[p] = <<>> /\ jobs[p] = {}
  BY <1>1, <1>2 DEF Init
<1>4. DOMAIN <<>> = {}
  OBVIOUS
<1>5. Todo(p) = {}
  BY <1>3, <1>4 DEF Todo, Undone
<1> QED
  BY <1>2, <1>3, <1>5, IdleFacts DEF Sturdy, Firm, Tidy

\* What neither peer uses is not put to use again.
LEMMA DeedRevives ==
    ASSUME NEW o, NEW t, NEW a, NEW r, NEW z, NEW b, NEW s, NEW v, NEW x, NEW y,
           Turning(o, t, a, r, z, b, s, v, x, y), Deed(o, t, a, z, b, s, v, x, y),
           z.kind \in {"NONE", "EMPTY", "REKEY"}, NEW c \in Sas, ~Working(o, c), ~Working(r, c),
           z.kind = "REKEY" /\ z.del = None /\ ~OkIn(a) => c # z.new
    PROVE  ~Working(s, c)
<1>0. Known(o, t, a, r, z, b) /\ Informed(o, t) /\ TaskOk(z) /\ Bond(o, t, a, r, z, b) /\ Known(r, z, b, o, t, a)
  BY DEF Turning, Met, Known
<1>1. CASE Rests(o, t, a, b, s, v, x, y)
  BY <1>1 DEF Rests
<1>2. CASE Quits(o, t, a, b, s, v, x, y)
  BY <1>2 DEF Quits, Writes, Working, NoSa
<1>3. CASE AsksRekey(o, t, a, b, s, v, x, y)
  BY <1>3 DEF AsksRekey, Puts, Working
<1>4. CASE AsksDelete(o, t, a, b, s, v, x, y)
  BY <1>4 DEF AsksDelete, Puts, Working
<1>5. CASE Denies(o, t, a, z, b, s, v, x, y)
  BY <1>5 DEF Denies
<1>6. CASE Accepts(o, t, a, z, b, s, v, x, y)
  <2>1. ~OkIn(a)
    BY <1>0, <1>6 DEF Accepts, Replied, Known
  <2> QED
    BY <1>6, <2>1 DEF Accepts, Replaced, Working
<1>7. CASE Obeys(o, t, a, z, b, s, v, x, y)
  BY <1>7 DEF Obeys, Ceases, Working, NoSa
<1>8. CASE GivesUp(o, t, a, b, s, v, x, y)
  BY <1>0, <1>8 DEF GivesUp, Puts, Informed, Working
<1>9. CASE Retries(o, t, a, b, s, v, x, y)
  BY <1>9 DEF Retries
<1>10. CASE Succeeds(o, t, a, b, s, v, x, y)
  <2>1. Replaces(s, o, t) /\ OkIn(b) /\ t.kind = "REKEY" /\ t.sent /\ t.del = None
    BY <1>10 DEF Succeeds
  <2>2. t.new # z.new /\ t.child # None /\ t.new # None
    BY <1>0, <2>1, SasFacts DEF Known, TaskOk
  <2>3. z.del # t.new
    BY <1>0, <2>1, <2>2, IdleFacts DEF Bond, Separate, Granted, TaskOk
  <2>4. c # t.new
    BY <1>0, <2>1, <2>3 DEF Known, Deleting
  <2>5. Wins(t) => t.coll # "DELETE"
    BY DEF Wins
  <2> QED
    BY <1>0, <2>1, <2>4, <2>5 DEF Replaces, Informed, Working
<1>11. CASE Completes(o, t, a, b, s, v, x, y)
  BY <1>11 DEF Completes, Ceases, Working, NoSa
<1> QED
  BY <1>1, <1>2, <1>3, <1>4, <1>5, <1>6, <1>7, <1>8, <1>9, <1>10, <1>11 DEF Deed

LEMMA FirmStep ==
    ASSUME RekeyInv, Plainly, Ranked, Orderly, AllMet, AllMet', Undeleted', NEW p \in Peers,
           BondInv, \A w \in Peers : Sturdy(w), Advances(p)
    PROVE  \A w \in Peers : Sturdy(w)'
<1>0. PICK q \in Peers : q = Other(p) /\ Other(q) = p /\ \A w \in Peers : w = p \/ w = q
  BY PeersFacts
<1>1. PICK o, t, a, r, z, b, s, v, x, y :
        /\ o = sa[p] /\ t = task[p] /\ a = air[p] /\ r = sa[q] /\ z = task[q] /\ b = air[q]
        /\ s = sa'[p] /\ v = task'[p] /\ x = air'[p] /\ y = air'[q]
  OBVIOUS
<1>2. /\ sa'[q] = r /\ task'[q] = z /\ queue'[q] = queue[q] /\ jobs'[q] = jobs[q]
      /\ scene' = scene /\ nonce' = nonce /\ Deed(o, t, a, z, b, s, v, x, y) /\ Chores(p)
  BY <1>0, <1>1 DEF Advances
<1>3. Met(o, t, a, r, z, b) /\ Met(r, z, b, o, t, a)
  BY <1>0, <1>1 DEF AllMet
<1>4. Met(s, v, x, r, z, y) /\ Met(r, z, y, s, v, x)
  BY <1>0, <1>1, <1>2 DEF AllMet, Met, Known
<1>5. Bond(o, t, a, r, z, b) /\ Bond(r, z, b, o, t, a)
  BY <1>0, <1>1 DEF BondInv
<1>6. Turning(o, t, a, r, z, b, s, v, x, y)
  BY <1>3, <1>4, <1>5 DEF Turning, Orderly
<1>7. /\ Firm(o, t, a, z, b) /\ Firm(r, z, b, t, a)
      /\ Tidy(o, t, r, Todo(p)) /\ Tidy(r, z, o, Todo(q))
  BY <1>0, <1>1 DEF Sturdy
<1>8. v.kind \in {"NONE", "EMPTY", "REKEY"}
  <2>1. v.kind = "DELETE" => ~Working(o, v.del)
    BY <1>1, <1>2, <1>7 DEF Chores, Tidy
  <2> QED
    BY <1>2, <1>7, <2>1, DeedKind DEF Tidy
<1>9. Firm(s, v, x, z, y) /\ Firm(r, z, y, v, x)
  <2>1. Firmly(o, t, a, r, z, b, v)
    BY <1>7, <1>8 DEF Firmly, Tidy
  <2> QED
    BY <1>2, <1>6, <2>1, DeedBond
<1>10. ASSUME NEW c \in Sas, c \in Todo(p) \/ c \in Todo(q) PROVE ~Working(s, c) /\ ~Working(r, c)
  <2>1. ~Working(o, c) /\ ~Working(r, c)
    BY <1>7, <1>10 DEF Tidy
  <2>2. z.kind = "REKEY" /\ z.del = None /\ ~OkIn(a) => c # z.new
    BY <1>0, <1>1, <1>10, OrderlyTame, TodoUsed DEF Plain, Plainly
  <2> QED
    BY <1>2, <1>6, <1>7, <2>1, <2>2, DeedRevives DEF Tidy
<1>11. Tidy(r, z, s, Todo(q)')
  <2>1. Todo(q)' = Todo(q) /\ Todo(q) \subseteq Sas
    BY <1>2 DEF Todo
  <2> QED
    BY <1>7, <1>10, <2>1 DEF Tidy
<1>12. Tidy(s, v, r, Todo(p)')
  <2>1. ASSUME NEW c \in Todo(p)' PROVE ~Working(s, c) /\ ~Working(r, c)
    <3>0. Known(o, t, a, r, z, b) /\ Known(r, z, b, o, t, a)
      BY <1>3 DEF Met
    <3>1. c \in Sas
      BY <2>1 DEF Todo
    <3>2. CASE c \in Todo(p)
      BY <1>10, <3>1, <3>2
    <3>3. CASE t.sent /\ c = t.del /\ v = Idle
      <4>1. c # None /\ Working(o, c) = FALSE
        BY <3>0, <3>1, <3>3, SasFacts DEF Known, Informed, Working
      <4>2. Tells(b)
        <5>1. t.kind # "NONE" /\ Idle.sent = FALSE
          BY <3>0, <3>3, IdleFacts DEF Known, TaskOk
        <5> QED
          BY <1>2, <3>3, <4>1, <5>1, IdleFacts DEF Deed, Rests, Quits, AsksRekey, AsksDelete,
             Denies, Accepts, Obeys, GivesUp, Retries, Succeeds, Completes, SameGoal, Read
      <4>3. ~Working(r, c)
        BY <3>0, <3>3, <4>1, <4>2 DEF Known
      <4>4. z.kind = "REKEY" /\ z.del = None /\ ~OkIn(a) => c # z.new
        BY <3>0, <3>3 DEF Known
      <4> QED
        BY <1>2, <1>6, <1>7, <3>1, <4>1, <4>3, <4>4, DeedRevives DEF Tidy
    <3>4. CASE Deleting(z, c) /\ ~Working(s, c)
      BY <3>0, <3>1, <3>4, SasFacts DEF Known, Informed, Deleting, Working
    <3> QED
      BY <1>0, <1>1, <1>2, <3>2, <3>3, <3>4 DEF Chores
  <2> QED
    BY <1>8, <2>1 DEF Tidy
<1>13. Sturdy(p)'
  BY <1>0, <1>1, <1>2, <1>9, <1>12 DEF Sturdy, Firm, Due, Mutual, Retired, Rivals
<1>14. Sturdy(q)'
  BY <1>0, <1>1, <1>2, <1>9, <1>11 DEF Sturdy, Firm, Due, Mutual, Retired, Rivals
<1> QED
  BY <1>0, <1>13, <1>14

\* No deletion by a user is forgotten.
LEMMA UndeletedBefore ==
    ASSUME RekeyInv, RekeyInv', Plainly, Tame, NEW p \in Peers, Advances(p), Undeleted'
    PROVE  Undeleted
<1>1. left.deletes \in Nat /\ left'.deletes \in Nat /\ scene.deletes \in Nat
  <2>1. left \in Bounds /\ left' \in Bounds /\ scene \in Scenarios
    BY DEF RekeyInv, LooseType
  <2> QED
    BY <2>1, ChildRekeyConstants DEF Bounds, Scenario
<1>2. left'.deletes <= left.deletes /\ left.deletes <= scene.deletes /\ scene' = scene
  BY DEF Advances, Plainly, Budget
<1> QED
  BY <1>1, <1>2 DEF Undeleted

LEMMA FirmNext ==
    RekeyInv /\ Agreement /\ Plainly /\ AgedInv /\ BondInv /\ FirmInv /\ [Next]_vars => FirmInv'
<1>1. SUFFICES ASSUME RekeyInv, Agreement, Plainly, AgedInv, BondInv, FirmInv, [Next]_vars PROVE FirmInv'
  OBVIOUS
<1>2. RekeyInv' /\ Agreement' /\ Plainly' /\ AgedInv'
  BY <1>1, RekeyNext, AgreementNext, PlainlyNext, AgedNext
<1>3. ASSUME UNCHANGED vars PROVE FirmInv'
  BY <1>1, <1>3 DEF vars, FirmInv, Orderly, Undeleted, Sturdy, Firm, Due, Mutual, Retired, Rivals,
     Todo
<1>4. ASSUME Next, Orderly', Undeleted' PROVE \A w \in Peers : Sturdy(w)'
  <2>1. scene' = scene
    BY <1>1, <1>4, NextActs, ActsGood DEF GoodStep, Moves
  <2>2. Orderly /\ Tame /\ Tame'
    BY <1>4, <2>1 DEF Orderly, Tame, Overtaking
  <2>3. PICK p \in Peers : Advances(p)
    BY <1>1, <1>4, <2>2, NextAdvances DEF Plainly
  <2>4. AllMet /\ AllMet'
    BY <1>1, <1>2, <2>2, AllMetFacts, PTL
  <2>5. Undeleted
    BY <1>1, <1>2, <1>4, <2>2, <2>3, UndeletedBefore
  <2> QED
    BY <1>1, <1>4, <2>2, <2>3, <2>4, <2>5, RankedFacts, FirmStep DEF FirmInv
<1> QED
  BY <1>1, <1>3, <1>4 DEF FirmInv

LEMMA DownStep ==
    RekeyInv /\ Agreement /\ Plainly /\ AgedInv /\ CourseInv /\ BondInv /\ FirmInv /\ [Next]_vars =>
      [Orderly /\ Undeleted =>
         \A p \in Peers : \A c \in down'[p] \ down[p] : ~Regular /\ sa[p][c].rekey # None]_vars
<1>1. SUFFICES ASSUME RekeyInv, Agreement, Plainly, AgedInv, CourseInv, BondInv, FirmInv, Next, Orderly, Undeleted,
                      NEW p \in Peers, NEW c \in down'[p] \ down[p]
               PROVE  ~Regular /\ sa[p][c].rekey # None
  OBVIOUS
<1>2. Tame
  BY <1>1, OrderlyTame
<1>3. PICK g \in Peers : Advances(g)
  BY <1>1, <1>2, NextAdvances DEF Plainly
<1>4. PICK q \in Peers : q = Other(p) /\ Other(q) = p /\ \A w \in Peers : w = p \/ w = q
  BY PeersFacts
<1>5. g = p
  BY <1>1, <1>3, <1>4 DEF Advances
<1>6. PICK s, t, a, r, z, b : /\ s = sa[p] /\ t = task[p] /\ a = air[p]
                              /\ r = sa[q] /\ z = task[q] /\ b = air[q]
  OBVIOUS
<1>7. c \in Sas
  <2>1. down' \in [Peers -> SUBSET Sas]
    BY <1>1, NextActs, ActsGood DEF GoodStep, Moves, LooseType
  <2> QED
    BY <1>1, <2>1
<1>8. /\ Met(s, t, a, r, z, b) /\ Met(r, z, b, s, t, a) /\ Bond(s, t, a, r, z, b)
      /\ Firm(s, t, a, z, b) /\ Tidy(r, z, s, Todo(q)) /\ TaskOk(z) /\ c # None
      /\ Regular => Course(s, t, a, r, z, b)
  BY <1>1, <1>2, <1>4, <1>6, <1>7, AllMetFacts, SasFacts DEF AllMet, Met, Known, BondInv, FirmInv,
     Sturdy, CourseInv, Held
<1>9. ~(Deleting(t, c) /\ ~t.rekeyed)
  BY <1>8 DEF Firm, Deleting
<1>10. /\ Deleting(z, c) /\ Wants(b) /\ Working(s, c) /\ s[c].state # "REKEYED" /\ ~IsRedundant(t, c)
  BY <1>1, <1>3, <1>4, <1>5, <1>6, <1>9 DEF Advances, Falls
<1>11. z.kind = "REKEY" /\ c \in {z.child, z.new} /\ z.del = c
  BY <1>8, <1>10, IdleFacts DEF Tidy, TaskOk, Deleting
<1>12. ~Retired(s, c)
  <2>1. s[c] \in SaRec
    BY <1>1, <1>6, <1>7, LocalFacts DEF SaMaps
  <2> QED
    BY <1>10, <2>1 DEF Retired, Working, SaRec
<1>13. c # z.new
  BY <1>8, <1>10, <1>11, <1>12 DEF Firm, Due, Mutual, Rivals, IsRedundant
<1>14. s[c].rekey # None
  BY <1>8, <1>10, <1>11, <1>13 DEF Bond, Noted, Granted, Working
<1>15. ~Regular
  BY <1>8, <1>10, <1>11, <1>13 DEF Course, Handed
<1> QED
  BY <1>6, <1>14, <1>15

\* Unless a user deletes a CHILD_SA, the hook child_updown reports one as gone only if the
\* peer had rekeyed it already when the own rekeying of it was given up; never, if no
\* rekeying is refused and messages keep their order.  Redundant CHILD_SAs of a collision
\* and rekeyed ones never are reported (child_delete.c: process_payloads, is_redundant;
\* child_rekey.c: handle_collision, schedule_delayed_rekey).
THEOREM DownExplainedTheorem == Spec => DownExplained
<1>1. Init => RekeyInv /\ Agreement /\ Plainly /\ AgedInv /\ CourseInv /\ BondInv /\ FirmInv
  BY InitRekey, InitAgreement, InitPlainly, InitCourse, InitBond, InitFirm
<1>2. RekeyInv /\ Agreement /\ Plainly /\ AgedInv /\ CourseInv /\ BondInv /\ FirmInv /\ [Next]_vars =>
        RekeyInv' /\ Agreement' /\ Plainly' /\ AgedInv' /\ CourseInv' /\ BondInv' /\ FirmInv'
  BY RekeyNext, AgreementNext, PlainlyNext, AgedNext, CourseNext, BondNext, FirmNext
<1> QED
  BY <1>1, <1>2, DownStep, PTL DEF Spec, DownExplained

-----------------------------------------------------------------------------
(* How rekeyings and deletions come to an end, when messages keep their order and none  *)
(* is refused; users may delete CHILD_SAs.                                              *)

\* A CHILD_SA the other peer has rekeyed stays in use only as long as that rekeying goes on.
Replacing(s, t, a, z, b) == \A c \in Sas : Working(s, c) /\ s[c].rekey # None =>
    /\ s[c].state = "REKEYED" /\ z.kind = "REKEY" /\ z.child = c /\ z.new = s[c].rekey
    /\ OkIn(a) \/ (z.del # None /\ Due(z, b))
    /\ z.del = z.new => Mutual(t, z, b) /\ (OkIn(b) /\ Wants(b) => ~AsksFirst(b))
    /\ Working(s, z.new) \/ Deleting(t, z.new)

\* One that is marked as rekeyed by this peer is about to be deleted by it or the other one.
Dismissed(s, t, a, z, b) == \A c \in Sas : s[c].state = "REKEYED" /\ s[c].rekey = None =>
    \/ ~t.sent /\ t.del = c
    \/ z.kind = "REKEY" /\ z.new = c /\ ((OkIn(a) /\ ~Wins(z)) \/ (z.del = c /\ Due(z, b)))

\* One without an outbound SA takes over from another one, unless it is about to go.
Successor(s, t, z, b) == \A c \in Sas : Working(s, c) /\ s[c].out = "REGISTERED" =>
    \/ s[c].state = "REKEYED" \/ (z.del = c /\ Due(z, b))
    \/ \E d \in Sas : /\ s[d].rekey = c
                      /\ Working(s, d) \/ (Deleting(t, d) /\ t.rekeyed /\ ~IsRedundant(t, c))

\* Only the active task makes a CHILD_SA rekeying.
Renewing(s, t) == \A c \in Sas :
    s[c].state = "REKEYING" => t.kind = "REKEY" /\ t.child = c /\ t.del = None

\* What a rekeying replaces has no successor but that of the colliding rekeying.
Heir(s, t) == t.kind = "REKEY" =>
    /\ s[t.child].rekey # None /\ t.coll # "DELETE" => t.coll = "REKEY" /\ t.other = s[t.child].rekey
    /\ t.coll = "REKEY" /\ Working(s, t.child) => t.other = s[t.child].rekey
    /\ t.del = t.new => s[t.new].rekey = None

\* Of two colliding rekeyings one gives way.
Yields(t, z, b) == Rivals(t, z) /\ OkIn(b) /\ z.del = z.child =>
    z.coll = "REKEY" /\ z.other = t.new /\ nonce[z.new] > nonce[t.new]

\* Before a CHILD_SA is replaced or deleted, the one it replaces is deleted.
Following(t, z, b) ==
    z.kind = "REKEY" /\ z.del # z.new /\ Tells(b) /\ ((z.new = t.child /\ OkIn(b)) \/ t.del = z.new) =>
      z.del = z.child /\ z.sent /\ AsksFirst(b)

\* A deletion does not overtake the response to the rekeying, nor its own.
Behind(t, a, z, b) ==
    /\ OkIn(a) => z.coll # "DELETE" /\ (Deleting(t, z.child) /\ Wants(a) => ~AsksFirst(a))
    /\ t.sent /\ t.del # None /\ Deleting(z, t.del) /\ Tells(b) => AsksFirst(b)

\* The successor of a CHILD_SA that a user deletes is there to take over.
Bequeaths(s, t, a, z, b) == t.kind = "DELETE" /\ s[t.del].rekey # None =>
    /\ Working(s, s[t.del].rekey)
    /\ \/ /\ z.kind = "REKEY" /\ z.child = t.del /\ z.new = s[t.del].rekey
          /\ (OkIn(a) /\ Wins(z) /\ Wants(a) /\ ~AsksFirst(a)) \/ z.del = t.del
       \/ Tells(b) /\ ~(Wants(b) /\ AsksFirst(b))

\* A deletion of what is to be made arrives after it is made.
Awaits(t, a, z, b) == OkIn(b) /\ z.del = t.new => ~(Wants(b) /\ AsksFirst(b)) /\ ~Tells(a)

Settle(s, t, a, r, z, b) ==
    /\ Underway(t, a, b) /\ Excused(t, z, b) /\ Following(t, z, b) /\ Behind(t, a, z, b) /\ Yields(t, z, b)
    /\ Leaving(s, t) /\ Renewing(s, t) /\ Heir(s, t)
    /\ Replacing(s, t, a, z, b) /\ Bequeaths(s, t, a, z, b) /\ Successor(s, t, z, b) /\ Dismissed(s, t, a, z, b)

\* One peer takes a step, as in Turning.
Settling(o, t, a, r, z, b, s, v, x, y) ==
    /\ scene.ordered /\ ~scene.refuses /\ Turning(o, t, a, r, z, b, s, v, x, y)
    /\ Bond(s, v, x, r, z, y) /\ Bond(r, z, y, s, v, x)
    /\ Awaits(t, a, z, b) /\ Awaits(z, b, t, a)
    /\ Settle(o, t, a, r, z, b) /\ Settle(r, z, b, o, t, a)

LEMMA RestsSettle ==
    ASSUME NEW o, NEW t, NEW a, NEW r, NEW z, NEW b, NEW s, NEW v, NEW x, NEW y,
           Settling(o, t, a, r, z, b, s, v, x, y), Rests(o, t, a, b, s, v, x, y)
    PROVE  Settle(s, v, x, r, z, y) /\ Settle(r, z, y, s, v, x)
BY DEF Settling, Rests

LEMMA QuitsSettle ==
    ASSUME NEW o, NEW t, NEW a, NEW r, NEW z, NEW b, NEW s, NEW v, NEW x, NEW y,
           Settling(o, t, a, r, z, b, s, v, x, y), Quits(o, t, a, b, s, v, x, y)
    PROVE  Settle(s, v, x, r, z, y) /\ Settle(r, z, y, s, v, x)
<1>1. Settle(o, t, a, r, z, b) /\ Settle(r, z, b, o, t, a) /\ Bond(o, t, a, r, z, b) /\ Bond(r, z, b, o, t, a)
      /\ scene.ordered /\ ~scene.refuses
  BY DEF Settling, Turning
<1>2. TaskOk(t) /\ TaskOk(z) /\ Informed(o, t) /\ Informed(r, z) /\ None \notin Sas
      /\ t.coll \in {"NONE", "REKEY", "DELETE"} /\ z.coll \in {"NONE", "REKEY", "DELETE"}
  BY SasFacts DEF Settling, Turning, Met, Known, TaskRec
<1>3. /\ y = b /\ ~t.sent /\ t.del = None /\ v.del = None /\ v.kind \in {"NONE", "EMPTY"} /\ v.coll = "NONE"
      /\ v.child = None /\ ~v.gone /\ (OkIn(x) <=> OkIn(a)) /\ (Tells(x) <=> Tells(a))
      /\ \A k : Told(x, k) <=> Told(a, k)
      /\ v.sent => Wants(x)
      /\ x = a \/ (Wants(x) /\ (AsksFirst(x) <=> ~Tells(a)))
  BY IdleFacts, EmptyFacts DEF Quits, Sends, SameReplies
<1>4. Loses(s, o)
  <2>1. NoSa.state = "NONE" /\ NoSa.out = "NONE" /\ NoSa.rekey = None
    BY DEF NoSa
  <2> QED
    BY <2>1 DEF Quits, Writes, Loses
<1>5. ~Tells(b) /\ ~OkIn(b) /\ ~Wants(a) /\ \A k : ~Told(b, k)
  BY <1>3 DEF Settling, Turning, Met, Known, Fits
<1>6. /\ OkIn(a) => z.kind = "REKEY" /\ z.del = None /\ Tells(a)
      /\ z.coll # "NONE" => z.kind = "REKEY"
      /\ Told(a, "TEMPORARY_FAILURE") => z.kind = "REKEY" /\ z.child \in Sas
      /\ z.kind = "REKEY" => z.child \in Sas /\ z.new \in Sas \ {z.child}
  BY <1>2, FailureFacts DEF Settling, Turning, Met, Known, TaskOk
<1>7. t.kind # "REKEY" \/ o[t.child].state # "REKEYING"
  BY IdleFacts DEF Quits
<1>8. Underway(v, x, y)
  BY <1>3 DEF Underway
<1>9. Excused(v, z, y)
  BY <1>3, <1>5 DEF Excused
<1>10. Following(v, z, y)
  BY <1>3, <1>5 DEF Following
<1>11. Behind(v, x, z, y)
  BY <1>1, <1>3, <1>5, <1>6 DEF Settle, Behind
<1>12. Yields(v, z, y)
  BY <1>3 DEF Yields, Rivals
<1>13. Leaving(s, v)
  BY <1>1, <1>3, <1>4 DEF Settle, Leaving, Deleting, Loses
<1>14. Renewing(s, v)
  BY <1>1, <1>4, <1>7 DEF Settle, Renewing, Loses
<1>15. Heir(s, v)
  BY <1>3 DEF Heir
<1>16. Replacing(s, v, x, z, y)
  BY <1>1, <1>3, <1>4, <1>5, <1>6 DEF Settle, Replacing, Mutual, Deleting, Working, Loses
<1>17. Bequeaths(s, v, x, z, y)
  BY <1>3 DEF Bequeaths
<1>18. Successor(s, v, z, y)
  BY <1>1, <1>3, <1>4 DEF Settle, Successor, Deleting, Working, Loses
<1>19. Dismissed(s, v, x, z, y)
  BY <1>1, <1>2, <1>3, <1>4 DEF Settle, Dismissed, Loses
<1>20. Underway(z, y, x)
  BY <1>1, <1>3 DEF Settle, Underway
<1>21. Excused(z, v, x)
  BY <1>1, <1>3 DEF Settle, Excused, Deleting
<1>22. Following(z, v, x)
  BY <1>3 DEF Following
<1>23. Behind(z, y, v, x)
  BY <1>3, <1>5 DEF Behind, Deleting
<1>24. Yields(z, v, x)
  BY <1>3 DEF Yields, Rivals
<1>25. Replacing(r, z, y, v, x)
  BY <1>1, <1>3, <1>5 DEF Settle, Replacing
<1>26. Bequeaths(r, z, y, v, x)
  BY <1>1, <1>2, <1>3, <1>5 DEF Settle, Bequeaths, TaskOk
<1>27. Successor(r, z, v, x)
  BY <1>1, <1>3 DEF Settle, Successor, Due
<1>28. Dismissed(r, z, y, v, x)
  BY <1>1, <1>2, <1>3, <1>5 DEF Settle, Dismissed
<1> QED
  BY <1>1, <1>8, <1>9, <1>10, <1>11, <1>12, <1>13, <1>14, <1>15, <1>16, <1>17, <1>18, <1>19, <1>20,
     <1>21, <1>22, <1>23, <1>24, <1>25, <1>26, <1>27, <1>28 DEF Settle

LEMMA AsksRekeySettle ==
    ASSUME NEW o, NEW t, NEW a, NEW r, NEW z, NEW b, NEW s, NEW v, NEW x, NEW y,
           Settling(o, t, a, r, z, b, s, v, x, y), AsksRekey(o, t, a, b, s, v, x, y)
    PROVE  Settle(s, v, x, r, z, y) /\ Settle(r, z, y, s, v, x)
<1>1. Settle(o, t, a, r, z, b) /\ Settle(r, z, b, o, t, a) /\ Bond(o, t, a, r, z, b) /\ Bond(r, z, b, o, t, a)
      /\ scene.ordered /\ ~scene.refuses
  BY DEF Settling, Turning
<1>2. TaskOk(t) /\ TaskOk(z) /\ Informed(o, t) /\ Informed(r, z) /\ None \notin Sas
      /\ t.coll \in {"NONE", "REKEY", "DELETE"} /\ z.coll \in {"NONE", "REKEY", "DELETE"}
  BY SasFacts DEF Settling, Turning, Met, Known, TaskRec
<1>3. /\ y = b /\ ~t.sent /\ t.del = None /\ v.del = None /\ v.kind = "REKEY" /\ v.sent
      /\ v.child \in Sas /\ v.new \in Sas \ {v.child}
      /\ (OkIn(x) <=> OkIn(a)) /\ (Tells(x) <=> Tells(a)) /\ Wants(x)
      /\ \A k : Told(x, k) <=> Told(a, k)
      /\ OkIn(a) => Tells(a)
      /\ AsksFirst(x) <=> ~Tells(a)
  BY DEF AsksRekey, Sends, SameReplies, Settling, Turning, Met, Known
<1>4. /\ o[v.child].state \in {"INSTALLED", "REKEYING"} /\ s[v.child].state = "REKEYING"
      /\ \A d \in Sas : s[d].rekey = o[d].rekey /\ s[d].out = o[d].out
      /\ \A d \in Sas : d # v.child => s[d].state = o[d].state
  BY DEF AsksRekey, Puts
<1>5. ~Tells(b) /\ ~OkIn(b) /\ ~Wants(a) /\ \A k : ~Told(b, k)
  BY <1>3 DEF Settling, Turning, Met, Known, Fits
<1>6. /\ OkIn(a) => z.kind = "REKEY" /\ z.del = None
      /\ z.coll # "NONE" => z.kind = "REKEY"
      /\ Told(a, "TEMPORARY_FAILURE") => z.kind = "REKEY"
      /\ z.kind = "REKEY" => z.child \in Sas /\ z.new \in Sas
  BY FailureFacts DEF Settling, Turning, Met, Known, TaskOk
<1>7. /\ z.child # v.new /\ z.del # v.new /\ (z.kind = "REKEY" => z.new # v.new)
      /\ r[v.new].state = "NONE"
  BY <1>3 DEF Settling, Turning, Met, Known
<1>8. t = Idle \/ (v.child = t.child /\ v.new = t.new /\ t.kind = "REKEY")
  BY DEF AsksRekey, SameGoal
<1>9. v.coll = "NONE" /\ o[v.child].rekey = None
  <2>1. CASE t = Idle /\ SameColl(v, Idle)
    BY <1>1, <1>3, <1>4, <2>1, IdleFacts DEF SameColl, Settle, Replacing, Working
  <2>2. CASE SameGoal(v, t) /\ SameColl(v, t) /\ o[v.child].state = "REKEYING"
    BY <1>1, <1>2, <1>3, <2>2 DEF SameGoal, SameColl, Bond, Tracks, Retired, Informed, Working,
       Settle, Replacing
  <2> QED
    BY <2>1, <2>2 DEF AsksRekey
<1>10. Idle.kind = "NONE" /\ Idle.del = None /\ Idle.coll = "NONE"
  BY IdleFacts
<1>11. Underway(v, x, y)
  BY <1>3 DEF Underway
<1>12. Excused(v, z, y)
  BY <1>3, <1>5 DEF Excused
<1>13. Following(v, z, y)
  BY <1>3, <1>5 DEF Following
<1>14. Behind(v, x, z, y)
  BY <1>1, <1>3 DEF Settle, Behind
<1>15. Yields(v, z, y)
  BY <1>3, <1>5 DEF Yields
<1>16. Leaving(s, v)
  BY <1>1, <1>3, <1>4 DEF Settle, Leaving, Deleting
<1>17. Renewing(s, v)
  BY <1>1, <1>3, <1>4, <1>8, <1>10 DEF Settle, Renewing
<1>18. Heir(s, v)
  BY <1>2, <1>3, <1>4, <1>9 DEF Heir
<1>19. Replacing(s, v, x, z, y)
  BY <1>1, <1>3, <1>4, <1>6, <1>8, <1>10 DEF Settle, Replacing, Mutual, Rivals, Deleting, Working
<1>20. Bequeaths(s, v, x, z, y)
  BY <1>3 DEF Bequeaths
<1>21. Successor(s, v, z, y)
  BY <1>1, <1>3, <1>4 DEF Settle, Successor, Deleting, Working
<1>22. Dismissed(s, v, x, z, y)
  BY <1>1, <1>2, <1>3, <1>4 DEF Settle, Dismissed
<1>23. Underway(z, y, x)
  BY <1>1, <1>3 DEF Settle, Underway
<1>24. Excused(z, v, x)
  BY <1>1, <1>3 DEF Settle, Excused, Deleting
<1>25. Following(z, v, x)
  BY <1>7 DEF Following
<1>26. Behind(z, y, v, x)
  BY <1>3, <1>5 DEF Behind, Deleting
<1>27. Yields(z, v, x)
  BY <1>2, <1>3 DEF Yields
<1>28. Replacing(r, z, y, v, x)
  BY <1>1, <1>7, <1>8, <1>10 DEF Settle, Replacing, Deleting, Working
<1>29. Bequeaths(r, z, y, v, x)
  BY <1>1, <1>3, <1>7, <1>8, <1>10 DEF Settle, Bequeaths, Working
<1>30. Successor(r, z, v, x)
  BY <1>1, <1>3 DEF Settle, Successor, Due
<1>31. Dismissed(r, z, y, v, x)
  BY <1>1, <1>7, <1>8, <1>10 DEF Settle, Dismissed
<1> QED
  BY <1>1, <1>11, <1>12, <1>13, <1>14, <1>15, <1>16, <1>17, <1>18, <1>19, <1>20, <1>21, <1>22,
     <1>23, <1>24, <1>25, <1>26, <1>27, <1>28, <1>29, <1>30, <1>31 DEF Settle

LEMMA AsksDeleteSettle ==
    ASSUME NEW o, NEW t, NEW a, NEW r, NEW z, NEW b, NEW s, NEW v, NEW x, NEW y,
           Settling(o, t, a, r, z, b, s, v, x, y), AsksDelete(o, t, a, b, s, v, x, y)
    PROVE  Settle(s, v, x, r, z, y) /\ Settle(r, z, y, s, v, x)
<1>1. Settle(o, t, a, r, z, b) /\ Settle(r, z, b, o, t, a) /\ Bond(o, t, a, r, z, b) /\ Bond(r, z, b, o, t, a)
      /\ scene.ordered /\ ~scene.refuses
  BY DEF Settling, Turning
<1>2. TaskOk(t) /\ TaskOk(z) /\ Informed(o, t) /\ Informed(r, z) /\ None \notin Sas
      /\ t.coll \in {"NONE", "REKEY", "DELETE"} /\ z.coll \in {"NONE", "REKEY", "DELETE"}
  BY SasFacts DEF Settling, Turning, Met, Known, TaskRec
<1>3. /\ y = b /\ ~t.sent /\ v.sent /\ v.del \in Sas
      /\ (OkIn(x) <=> OkIn(a)) /\ (Tells(x) <=> Tells(a)) /\ Wants(x)
      /\ \A k : Told(x, k) <=> Told(a, k)
      /\ OkIn(a) => Tells(a)
      /\ AsksFirst(x) <=> ~Tells(a)
  BY DEF AsksDelete, Sends, SameReplies, Settling, Turning, Met, Known
<1>4. /\ Working(o, v.del) /\ s[v.del].state = "DELETING"
      /\ \A d \in Sas : s[d].rekey = o[d].rekey /\ s[d].out = o[d].out
      /\ \A d \in Sas : d # v.del => s[d].state = o[d].state
      /\ v.rekeyed <=> o[v.del].state = "REKEYED"
  BY DEF AsksDelete, Puts
<1>5. ~Tells(b) /\ ~OkIn(b) /\ ~Wants(a) /\ \A k : ~Told(b, k)
  BY <1>3 DEF Settling, Turning, Met, Known, Fits
<1>6. /\ OkIn(a) => z.kind = "REKEY" /\ z.del = None
      /\ z.coll # "NONE" => z.kind = "REKEY"
      /\ Told(a, "TEMPORARY_FAILURE") => z.kind = "REKEY"
      /\ z.kind = "REKEY" => z.child \in Sas /\ z.new \in Sas
      /\ Tells(a) /\ z.del # None => ~Working(o, z.del)
  BY FailureFacts DEF Settling, Turning, Met, Known, TaskOk
<1>7. \/ t = Idle /\ v.kind = "DELETE" /\ v.coll = "NONE" /\ v.child = v.del /\ v.new = None
      \/ /\ t.kind = "REKEY" /\ t.del = v.del /\ v.kind = "REKEY" /\ v.child = t.child /\ v.new = t.new
         /\ v.coll = t.coll /\ v.other = t.other /\ v.gone = t.gone /\ v.rekeyed
  BY IdleFacts DEF AsksDelete, SameGoal, SameColl
<1>8. Idle.kind = "NONE" /\ Idle.coll = "NONE" /\ Idle.del = None /\ ~Idle.sent
  BY IdleFacts
<1>9. Underway(v, x, y)
  BY <1>3 DEF Underway
<1>10. Excused(v, z, y)
  BY <1>3, <1>5 DEF Excused
<1>11. Following(v, z, y)
  BY <1>3, <1>5 DEF Following
<1>12. Behind(v, x, z, y)
  BY <1>1, <1>3, <1>5 DEF Settle, Behind
<1>13. Yields(v, z, y)
  BY <1>3, <1>5 DEF Yields
<1>14. Leaving(s, v)
  BY <1>1, <1>3, <1>4 DEF Settle, Leaving, Deleting
<1>15. Renewing(s, v)
  BY <1>1, <1>4, <1>7, <1>8 DEF Settle, Renewing
<1>16. Heir(s, v)
  BY <1>1, <1>2, <1>4, <1>7 DEF Settle, Heir, Working, TaskOk
<1>17. Replacing(s, v, x, z, y)
  BY <1>1, <1>3, <1>4, <1>6, <1>7, <1>8 DEF Settle, Replacing, Mutual, Rivals, Deleting, Working
<1>18. Bequeaths(s, v, x, z, y)
  <2>1. SUFFICES ASSUME v.kind = "DELETE", s[v.del].rekey # None
                 PROVE  /\ Working(s, s[v.del].rekey) /\ z.kind = "REKEY" /\ z.child = v.del /\ z.new = s[v.del].rekey
                        /\ (OkIn(x) /\ Wins(z) /\ Wants(x) /\ ~AsksFirst(x)) \/ z.del = v.del
    BY DEF Bequeaths
  <2>2. t = Idle /\ s[v.del].rekey = o[v.del].rekey
    BY <1>3, <1>4, <1>7, <2>1
  <2>3. Replacing(o, t, a, z, b) /\ Behind(t, a, z, b) /\ Outcome(o, t, a, z, b)
    BY <1>1 DEF Settle, Bond
  <2>4. /\ z.kind = "REKEY" /\ z.child = v.del /\ z.new = o[v.del].rekey
        /\ (OkIn(a) \/ z.del # None) /\ z.del # z.new /\ Working(o, z.new)
    BY <1>3, <1>4, <1>8, <2>1, <2>2, <2>3 DEF Replacing, Mutual, Deleting
  <2>5. OkIn(a) => Wins(z)
    BY <1>2, <1>4, <1>8, <2>2, <2>3, <2>4 DEF Behind, Outcome, Mutual, Wins
  <2> QED
    BY <1>2, <1>3, <1>4, <1>6, <2>2, <2>4, <2>5 DEF TaskOk, Working
<1>19. Successor(s, v, z, y)
  <2>1. Successor(o, t, z, b) /\ Replacing(o, t, a, z, b) /\ Heir(o, t) /\ Tracks(o, t) /\ o \in SaMaps
    BY DEF Settle, Bond, Settling, Turning, Met, Known
  <2>2. SUFFICES ASSUME NEW c \in Sas, Working(s, c), s[c].out = "REGISTERED", s[c].state # "REKEYED",
                        ~(z.del = c /\ Due(z, y))
                 PROVE  \E d \in Sas : /\ s[d].rekey = c
                                       /\ Working(s, d) \/ (Deleting(v, d) /\ v.rekeyed /\ ~IsRedundant(v, c))
    BY DEF Successor
  <2>3. c # v.del /\ s[c].state = o[c].state /\ Working(o, c) /\ ~Deleting(t, c)
    BY <1>3, <1>4, <2>2 DEF Working, Deleting
  <2>4. PICK d \in Sas : o[d].rekey = c /\ Working(o, d)
    BY <1>3, <1>4, <2>1, <2>2, <2>3 DEF Successor, Deleting
  <2>5. CASE d # v.del
    BY <1>4, <2>4, <2>5 DEF Working
  <2>6. CASE d = v.del
    <3>1. v.rekeyed /\ Deleting(v, d) /\ s[d].rekey = c
      BY <1>2, <1>3, <1>4, <2>1, <2>4, <2>6 DEF Replacing, Deleting
    <3>2. IsRedundant(v, c) => t.kind = "REKEY" /\ t.coll = "REKEY" /\ t.other = c /\ t.del = t.child
      BY <1>2, <1>7, <2>1, <2>4, <2>6 DEF IsRedundant, Heir, TaskOk
    <3>3. ~Retired(o, c)
      BY <2>1, <2>2, <2>3 DEF Retired, Working, SaMaps, SaRec
    <3> QED
      BY <2>1, <3>1, <3>2, <3>3 DEF Tracks
  <2> QED
    BY <2>5, <2>6
<1>20. Dismissed(s, v, x, z, y)
  BY <1>1, <1>2, <1>3, <1>4, <1>7, <1>8 DEF Settle, Dismissed
<1>21. Underway(z, y, x)
  BY <1>1, <1>3 DEF Settle, Underway
<1>22. Excused(z, v, x)
  BY <1>1, <1>3 DEF Settle, Excused, Deleting
<1>23. Following(z, v, x)
  BY <1>1, <1>3, <1>7 DEF Settle, Following
<1>24. Behind(z, y, v, x)
  BY <1>3, <1>4, <1>5, <1>6 DEF Behind, Deleting
<1>25. Yields(z, v, x)
  BY <1>1, <1>3, <1>7 DEF Settle, Yields, Rivals
<1>26. Replacing(r, z, y, v, x)
  BY <1>1, <1>3, <1>7, <1>8 DEF Settle, Replacing, Due, Mutual, Rivals
<1>27. Bequeaths(r, z, y, v, x)
  BY <1>1, <1>3, <1>5, <1>7, <1>8 DEF Settle, Bequeaths
<1>28. Successor(r, z, v, x)
  BY <1>1, <1>2, <1>3, <1>7, <1>8 DEF Settle, Successor, Due
<1>29. Dismissed(r, z, y, v, x)
  BY <1>1, <1>3, <1>5, <1>7, <1>8 DEF Settle, Dismissed, Due
<1> QED
  BY <1>1, <1>9, <1>10, <1>11, <1>12, <1>13, <1>14, <1>15, <1>16, <1>17, <1>18, <1>19, <1>20, <1>21,
     <1>22, <1>23, <1>24, <1>25, <1>26, <1>27, <1>28, <1>29 DEF Settle

LEMMA DeniesSettle ==
    ASSUME NEW o, NEW t, NEW a, NEW r, NEW z, NEW b, NEW s, NEW v, NEW x, NEW y,
           Settling(o, t, a, r, z, b, s, v, x, y), Denies(o, t, a, z, b, s, v, x, y)
    PROVE  Settle(s, v, x, r, z, y) /\ Settle(r, z, y, s, v, x)
<1>1. Settle(o, t, a, r, z, b) /\ Settle(r, z, b, o, t, a) /\ Bond(o, t, a, r, z, b) /\ Bond(r, z, b, o, t, a)
      /\ scene.ordered /\ ~scene.refuses
  BY DEF Settling, Turning
<1>2. TaskOk(t) /\ TaskOk(z) /\ Informed(o, t) /\ Informed(r, z) /\ None \notin Sas
      /\ t.coll \in {"NONE", "REKEY", "DELETE"} /\ z.coll \in {"NONE", "REKEY", "DELETE"}
  BY SasFacts DEF Settling, Turning, Met, Known, TaskRec
<1>3. /\ s = o /\ v = t /\ z.sent /\ Wants(b) /\ ~Wants(y) /\ (z.del # None => ~Working(o, z.del))
      /\ (OkIn(y) <=> OkIn(b)) /\ (Tells(y) <=> Tells(b)) /\ (\A l : Told(y, l) <=> Told(b, l))
      /\ AsksFirst(b) /\ AsksFirst(y) /\ (t.sent \/ t = Idle)
  BY <1>1 DEF Denies, Served, SameReplies, AsksFirst, Wants
<1>4. PICK k : /\ ~Tells(a) /\ Tells(x) /\ ~OkIn(x) /\ (Wants(x) <=> Wants(a)) /\ AsksFirst(x)
               /\ \A l : Told(x, l) <=> l = k
               /\ k = "TEMPORARY_FAILURE" => /\ z.kind = "REKEY" /\ z.del = None
                                             /\ o[z.child].state = "DELETING" /\ o[z.child].out # "NONE"
               /\ k = "NO_PROPOSAL" => scene.refuses
  BY DEF Denies, Replied
<1>5. ~OkIn(a) /\ (OkIn(b) => Tells(b))
  BY <1>4 DEF Settling, Turning, Met, Known
<1>6. /\ z.coll # "NONE" => z.kind = "REKEY"
      /\ z.kind = "REKEY" => z.child \in Sas /\ z.new \in Sas
      /\ Wants(a) => t.sent /\ ~Tells(b)
      /\ Tells(b) /\ t.del # None => ~Working(r, t.del)
  BY DEF Settling, Turning, Met, Known, TaskOk
<1>7. Underway(v, x, y)
  BY <1>1, <1>3, <1>4 DEF Settle, Underway
<1>8. Excused(v, z, y)
  <2>1. Excused(t, z, b)
    BY <1>1 DEF Settle
  <2>2. Told(b, "TEMPORARY_FAILURE") => t.kind = "REKEY" /\ t.del = None /\ t.sent /\ t.child \in Sas
    BY FailureFacts DEF Settling, Turning, Met
  <2>3. Told(b, "TEMPORARY_FAILURE") /\ Deleting(z, t.child) => t.coll = "DELETE"
    BY <1>2, <1>3, <2>2 DEF Informed, Deleting, Working
  <2> QED
    BY <1>3, <2>1, <2>3 DEF Excused
<1>9. Following(v, z, y)
  BY <1>1, <1>3 DEF Settle, Following
<1>10. Behind(v, x, z, y)
  BY <1>3, <1>4 DEF Behind
<1>11. Yields(v, z, y)
  BY <1>1, <1>3 DEF Settle, Yields
<1>12. Leaving(s, v)
  BY <1>1, <1>3 DEF Settle
<1>13. Renewing(s, v)
  BY <1>1, <1>3 DEF Settle
<1>14. Heir(s, v)
  BY <1>1, <1>3 DEF Settle
<1>15. Replacing(s, v, x, z, y)
  BY <1>1, <1>2, <1>3, <1>5 DEF Settle, Replacing, Mutual, Deleting, TaskOk
<1>16. Bequeaths(s, v, x, z, y)
  BY <1>1, <1>3, <1>5 DEF Settle, Bequeaths
<1>17. Successor(s, v, z, y)
  BY <1>1, <1>2, <1>3 DEF Settle, Successor
<1>18. Dismissed(s, v, x, z, y)
  BY <1>1, <1>2, <1>3, <1>5 DEF Settle, Dismissed, Working
<1>19. Underway(z, y, x)
  BY <1>4 DEF Underway
<1>20. Excused(z, v, x)
  <2>1. ASSUME Told(x, "TEMPORARY_FAILURE") PROVE z.coll = "DELETE" \/ (Wants(x) /\ AsksFirst(x) /\ Deleting(v, z.child))
    <3>1. /\ z.kind = "REKEY" /\ z.del = None /\ z.child \in Sas
          /\ o[z.child].state = "DELETING" /\ o[z.child].out # "NONE"
      BY <1>4, <1>6, <2>1
    <3>2. Deleting(t, z.child) /\ (Wants(a) \/ Tells(b))
      BY <1>1, <3>1 DEF Settle, Leaving, Underway, Deleting
    <3>3. Tells(b) => ~Working(r, z.child)
      BY <1>2, <1>6, <3>1, <3>2 DEF Deleting
    <3>4. Tells(b) => z.coll = "DELETE"
      BY <1>2, <1>3, <3>1, <3>3 DEF Informed, Working
    <3> QED
      BY <1>3, <1>4, <3>2, <3>4
  <2>2. ~Told(x, "NO_PROPOSAL")
    BY <1>1, <1>4
  <2> QED
    BY <2>1, <2>2 DEF Excused
<1>21. Following(z, v, x)
  <2>1. ASSUME t.kind = "REKEY", t.del # t.new, z.del = t.new PROVE t.del = t.child /\ t.sent
    <3>1. t.del # None
      BY <1>3, <2>1 DEF Settling, Turning, Met, Known, Awaits
    <3> QED
      BY <1>2, <1>3, <2>1, <3>1, IdleFacts DEF TaskOk
  <2> QED
    BY <1>3, <1>4, <2>1 DEF Following
<1>22. Behind(z, y, v, x)
  BY <1>1, <1>3, <1>4 DEF Settle, Behind
<1>23. Yields(z, v, x)
  BY <1>4 DEF Yields
<1>24. Replacing(r, z, y, v, x)
  BY <1>1, <1>3, <1>4, <1>5 DEF Settle, Replacing, Due, Mutual
<1>25. Bequeaths(r, z, y, v, x)
  BY <1>1, <1>3, <1>4 DEF Settle, Bequeaths
<1>26. Successor(r, z, v, x)
  BY <1>1, <1>3, <1>4 DEF Settle, Successor, Due
<1>27. Dismissed(r, z, y, v, x)
  BY <1>1, <1>3, <1>4 DEF Settle, Dismissed, Due
<1> QED
  BY <1>1, <1>7, <1>8, <1>9, <1>10, <1>11, <1>12, <1>13, <1>14, <1>15, <1>16, <1>17, <1>18, <1>19,
     <1>20, <1>21, <1>22, <1>23, <1>24, <1>25, <1>26, <1>27 DEF Settle

LEMMA AcceptsSettle ==
    ASSUME NEW o, NEW t, NEW a, NEW r, NEW z, NEW b, NEW s, NEW v, NEW x, NEW y,
           Settling(o, t, a, r, z, b, s, v, x, y), Accepts(o, t, a, z, b, s, v, x, y)
    PROVE  Settle(s, v, x, r, z, y) /\ Settle(r, z, y, s, v, x)
<1>1. Settle(o, t, a, r, z, b) /\ Settle(r, z, b, o, t, a) /\ Bond(o, t, a, r, z, b) /\ Bond(r, z, b, o, t, a)
      /\ scene.ordered /\ ~scene.refuses
  BY DEF Settling, Turning
<1>2. TaskOk(t) /\ TaskOk(z) /\ Informed(o, t) /\ Informed(r, z) /\ None \notin Sas
      /\ t.coll \in {"NONE", "REKEY", "DELETE"} /\ z.coll \in {"NONE", "REKEY", "DELETE"}
  BY SasFacts DEF Settling, Turning, Met, Known, TaskRec
<1>3. /\ z.sent /\ z.kind = "REKEY" /\ z.del = None /\ z.child \in Sas /\ z.new \in Sas \ {z.child}
      /\ Wants(b) /\ ~Wants(y) /\ (t.sent \/ t = Idle) /\ AsksFirst(b) /\ AsksFirst(y)
      /\ (OkIn(y) <=> OkIn(b)) /\ (Tells(y) <=> Tells(b)) /\ \A l : Told(y, l) <=> Told(b, l)
      /\ OkIn(b) => Tells(b)
  BY DEF Accepts, Served, SameReplies, AsksFirst, Wants, Settling, Turning, Met, Known
<1>4. /\ ~Tells(a) /\ Tells(x) /\ OkIn(x) /\ (Wants(x) <=> Wants(a)) /\ AsksFirst(x)
      /\ \A l : Told(x, l) <=> l = "OK"
      /\ ~OkIn(a)
  BY DEF Accepts, Replied, Settling, Turning, Met, Known
<1>5. /\ v.kind = t.kind /\ v.child = t.child /\ v.new = t.new /\ v.sent = t.sent /\ v.del = t.del
      /\ v.rekeyed = t.rekeyed
      /\ t.kind = "REKEY" /\ t.child = z.child => v.coll = "REKEY" /\ v.other = z.new /\ v.gone = t.gone
      /\ ~(t.kind = "REKEY" /\ t.child = z.child) => v.coll = t.coll /\ v.other = t.other /\ v.gone = t.gone
  BY DEF Accepts, SameGoal, SameColl
<1>6. /\ s[z.new].state = "INSTALLED" /\ s[z.new].rekey = None /\ Working(s, z.new)
      /\ Working(o, z.child) /\ s[z.child].state = "REKEYED" /\ s[z.child].rekey = z.new
      /\ s[z.new].out # "NONE" /\ s[z.child].out = o[z.child].out
      /\ \A d \in Sas : d \notin {z.child, z.new} => s[d] = o[d]
  BY DEF Accepts, Replaced, NewSa, Working
<1>7. /\ o[z.new].state = "NONE" /\ r[z.new].state = "NONE" /\ t.child # z.new
      /\ t.del # z.new /\ (t.kind = "REKEY" => t.new # z.new) /\ (t.coll = "REKEY" => t.other # z.new)
  BY <1>4 DEF Settling, Turning, Met, Known, Older
<1>8. t.del # None => t.sent /\ t.del # z.child
  <2>1. ASSUME t.del # None PROVE t.sent /\ ~Working(o, t.del)
    BY <1>2, <1>3, <2>1, IdleFacts DEF Informed, Working
  <2> QED
    BY <1>6, <2>1
<1>9. t.kind = "REKEY" /\ t.child = z.child => t.coll = "NONE" /\ ~t.gone
  BY <1>1, <1>2, <1>3, <1>4, <1>6 DEF Bond, Tracks, Collides, Rivals, Informed
<1>10. \A c \in Sas : Working(o, c) => o[c].rekey = None
  BY <1>1, <1>3, <1>4 DEF Settle, Replacing
<1>11. /\ Wants(a) => t.sent /\ ~Tells(b)
       /\ z.coll # "NONE" => z.kind = "REKEY"
       /\ t.kind = "NONE" \/ t.sent
       /\ t.kind = "REKEY" => t.child \in Sas /\ t.new \in Sas
  BY <1>3, IdleFacts DEF Settling, Turning, Met, Known, TaskOk
<1>12. z.coll # "DELETE" /\ (Wins(v) => Wins(t)) /\ (~Wins(t) => ~Wins(v))
  <2>1. z.coll # "DELETE"
    BY <1>1, <1>6 DEF Bond, Truthful
  <2>2. Wins(v) => Wins(t)
    BY <1>5, <1>9 DEF Wins
  <2> QED
    BY <2>1, <2>2
<1>13. /\ Told(b, "TEMPORARY_FAILURE") => t.kind = "REKEY"
       /\ t.kind = "REKEY" /\ t.del = None => t.new # z.child
  BY <1>6, FailureFacts DEF Bond, Unborn, Working, Settling, Turning, Met
<1>14. Underway(v, x, y)
  BY <1>1, <1>3, <1>4, <1>5 DEF Settle, Underway
<1>15. Excused(v, z, y)
  BY <1>1, <1>2, <1>3, <1>5, <1>9, <1>13 DEF Settle, Excused, Deleting, TaskOk
<1>16. Following(v, z, y)
  BY <1>5, <1>7 DEF Following
<1>17. Behind(v, x, z, y)
  BY <1>2, <1>3, <1>5, <1>8, <1>12 DEF Behind, Deleting
<1>18. Yields(v, z, y)
  BY <1>2, <1>3 DEF Yields
<1>19. Leaving(s, v)
  BY <1>1, <1>5, <1>6 DEF Settle, Leaving, Deleting
<1>20. Renewing(s, v)
  BY <1>1, <1>5, <1>6 DEF Settle, Renewing
<1>21. Heir(s, v)
  BY <1>1, <1>5, <1>6, <1>7, <1>8, <1>11, <1>13 DEF Settle, Heir, Working
<1>22. Replacing(s, v, x, z, y)
  BY <1>3, <1>4, <1>6, <1>10 DEF Replacing, Working
<1>23. Bequeaths(s, v, x, z, y)
  BY <1>1, <1>2, <1>3, <1>5, <1>6, <1>8 DEF Settle, Bequeaths, TaskOk
<1>24. Successor(s, v, z, y)
  BY <1>1, <1>3, <1>5, <1>6, <1>7, <1>10 DEF Settle, Successor, IsRedundant, Deleting, Working
<1>25. Dismissed(s, v, x, z, y)
  BY <1>1, <1>2, <1>3, <1>6, <1>8 DEF Settle, Dismissed
<1>26. Underway(z, y, x)
  BY <1>4 DEF Underway
<1>27. Excused(z, v, x)
  BY <1>4 DEF Excused
<1>28. Following(z, v, x)
  BY <1>2, <1>3, <1>4, <1>5, <1>11, <1>13 DEF Following, TaskOk
<1>29. Behind(z, y, v, x)
  BY <1>1, <1>3, <1>5 DEF Settle, Behind
<1>30. Yields(z, v, x)
  BY <1>2, <1>5, <1>8 DEF Yields, Rivals, TaskOk
<1>31. Replacing(r, z, y, v, x)
  BY <1>1, <1>3, <1>4, <1>5 DEF Settle, Replacing, Due, Mutual
<1>32. Bequeaths(r, z, y, v, x)
  BY <1>3 DEF Bequeaths
<1>33. Successor(r, z, v, x)
  BY <1>1, <1>4, <1>5 DEF Settle, Successor, Due
<1>34. Dismissed(r, z, y, v, x)
  BY <1>1, <1>3, <1>4, <1>5, <1>12 DEF Settle, Dismissed, Due
<1> QED
  BY <1>1, <1>14, <1>15, <1>16, <1>17, <1>18, <1>19, <1>20, <1>21, <1>22, <1>23, <1>24, <1>25,
     <1>26, <1>27, <1>28, <1>29, <1>30, <1>31, <1>32, <1>33, <1>34 DEF Settle

LEMMA ObeysSettle ==
    ASSUME NEW o, NEW t, NEW a, NEW r, NEW z, NEW b, NEW s, NEW v, NEW x, NEW y,
           Settling(o, t, a, r, z, b, s, v, x, y), Obeys(o, t, a, z, b, s, v, x, y)
    PROVE  Settle(s, v, x, r, z, y) /\ Settle(r, z, y, s, v, x)
<1>1. Settle(o, t, a, r, z, b) /\ Settle(r, z, b, o, t, a) /\ Bond(o, t, a, r, z, b) /\ Bond(r, z, b, o, t, a)
      /\ scene.ordered /\ ~scene.refuses
  BY DEF Settling, Turning
<1>2. TaskOk(t) /\ TaskOk(z) /\ Informed(o, t) /\ Informed(r, z) /\ None \notin Sas
      /\ t.coll \in {"NONE", "REKEY", "DELETE"} /\ z.coll \in {"NONE", "REKEY", "DELETE"}
  BY SasFacts DEF Settling, Turning, Met, Known, TaskRec
<1>3. /\ z.sent /\ z.del \in Sas /\ Wants(b) /\ ~Wants(y) /\ (t.sent \/ t = Idle) /\ Working(o, z.del)
      /\ (OkIn(y) <=> OkIn(b)) /\ (Tells(y) <=> Tells(b)) /\ \A l : Told(y, l) <=> Told(b, l)
      /\ AsksFirst(b) /\ AsksFirst(y)
  BY <1>1 DEF Obeys, Served, SameReplies, AsksFirst, Wants
<1>4. /\ ~Tells(a) /\ Tells(x) /\ ~OkIn(x) /\ (Wants(x) <=> Wants(a)) /\ AsksFirst(x)
      /\ \A l : Told(x, l) <=> l = "DONE"
      /\ ~OkIn(a)
  BY DEF Obeys, Replied, Settling, Turning, Met, Known
<1>5. t.del # z.del /\ (t.del # None => t.sent)
  BY <1>2, <1>3, IdleFacts DEF Informed, Working
<1>6. /\ v.kind = t.kind /\ v.child = t.child /\ v.new = t.new /\ v.sent = t.sent /\ v.del = t.del
      /\ v.rekeyed = t.rekeyed
      /\ IF IsRedundant(t, z.del) THEN v.coll = t.coll /\ v.other = t.other /\ v.gone
         ELSE IF t.kind = "REKEY" /\ t.child = z.del THEN v.coll = "DELETE"
         ELSE v.coll = t.coll /\ v.other = t.other /\ v.gone = t.gone
  BY DEF Obeys, SameGoal, SameColl
<1>7. /\ s[z.del].state \in {"NONE", "DELETING"} /\ s[z.del].out = "NONE"
      /\ s[z.del].state = "NONE" => s[z.del].rekey = None
      /\ s[z.del].rekey = o[z.del].rekey \/ s[z.del].state = "NONE"
      /\ \A d \in Sas : d # z.del =>
            /\ s[d].state = o[d].state /\ s[d].rekey = o[d].rekey
            /\ IF /\ o[z.del].state = "REKEYED" \/ IsRedundant(t, z.del)
                  /\ d = o[z.del].rekey /\ o[d].state # "NONE"
               THEN s[d].out = "INSTALLED" ELSE s[d].out = o[d].out
  <2>1. PICK moved \in BOOLEAN : moved <=> o[z.del].state = "REKEYED" \/ IsRedundant(t, z.del)
    BY DEF IsRedundant
  <2>2. Ceases(s, o, z.del, moved)
    BY <2>1 DEF Obeys
  <2>3. NoSa.state = "NONE" /\ NoSa.out = "NONE" /\ NoSa.rekey = None
    BY DEF NoSa
  <2> QED
    BY <2>1, <2>2, <2>3 DEF Ceases
<1>8. /\ z.del # None /\ (z.kind = "REKEY" => z.child \in Sas /\ z.new \in Sas \ {z.child})
      /\ t.coll # "NONE" => t.kind = "REKEY" /\ t.child \in Sas
      /\ t.coll = "REKEY" => t.other \in Sas \ {t.child, t.new}
      /\ t.kind = "REKEY" => t.child \in Sas /\ t.new \in Sas \ {t.child}
  BY <1>2, <1>3 DEF TaskOk
<1>9. /\ Wants(a) => t.sent /\ ~Tells(b)
      /\ z.coll # "NONE" => z.kind = "REKEY"
      /\ t.kind = "NONE" \/ t.sent
      /\ OkIn(b) => Tells(b) /\ t.kind = "REKEY" /\ t.del = None
  BY <1>3, IdleFacts DEF Settling, Turning, Met, Known, TaskOk
<1>10. \A c \in Sas : Working(o, c) /\ o[c].rekey # None => c = z.del
  <2>1. SUFFICES ASSUME NEW c \in Sas, Working(o, c), o[c].rekey # None, c # z.del PROVE FALSE
    OBVIOUS
  <2>2. z.kind = "REKEY" /\ z.child = c /\ z.del = z.new /\ Mutual(t, z, b) /\ (OkIn(b) => ~AsksFirst(b))
    BY <1>1, <1>2, <1>3, <2>1 DEF Settle, Replacing, TaskOk
  <2>3. t.del # None /\ t.del = t.new /\ t.kind = "REKEY" /\ t.coll = "REKEY"
    BY <1>2, <1>3, <1>5, <2>1, <2>2 DEF Mutual, Rivals, Informed, TaskOk, Working
  <2>4. nonce[t.new] <= nonce[t.other] /\ nonce[z.new] <= nonce[z.other]
    BY <1>1, <1>2, <2>1, <2>2, <2>3 DEF Bond, Tracks, Truthful
  <2>5. nonce[t.new] \in Nat /\ nonce[z.new] \in Nat /\ nonce[t.new] # nonce[z.new]
    BY <1>8, <2>2 DEF Settling, Turning, Ranked, Mutual
  <2> QED
    BY <2>2, <2>4, <2>5 DEF Mutual
<1>11. ~Wins(t) => ~Wins(v)
  BY <1>6 DEF Wins
<1>12. /\ Told(b, "TEMPORARY_FAILURE") => t.kind = "REKEY"
       /\ t.kind = "REKEY" /\ t.del = None => t.new # z.del
       /\ ~Working(r, z.del)
       /\ Working(o, z.del) /\ o[z.del].rekey # None =>
            o[z.del].state = "REKEYED" /\ (Working(o, o[z.del].rekey) \/ Deleting(t, o[z.del].rekey))
  <2>1. Told(b, "TEMPORARY_FAILURE") => t.kind = "REKEY"
    BY FailureFacts DEF Settling, Turning, Met
  <2>2. t.kind = "REKEY" /\ t.del = None => t.new # z.del
    BY <1>1, <1>3 DEF Bond, Unborn, Working
  <2>3. ~Working(r, z.del)
    BY <1>2, <1>3 DEF Informed, Working
  <2> QED
    BY <1>1, <1>3, <2>1, <2>2, <2>3 DEF Settle, Replacing
<1>13. Underway(v, x, y)
  BY <1>1, <1>3, <1>4, <1>6 DEF Settle, Underway
<1>14. Excused(v, z, y)
  BY <1>1, <1>3, <1>6, <1>8, <1>12 DEF Settle, Excused, Deleting, IsRedundant
<1>15. Following(v, z, y)
  BY <1>2, <1>3 DEF Following, TaskOk
<1>16. Behind(v, x, z, y)
  BY <1>4, <1>5, <1>6 DEF Behind, Deleting
<1>17. Yields(v, z, y)
  BY <1>1, <1>3, <1>6 DEF Settle, Yields, Rivals
<1>18. Leaving(s, v)
  BY <1>1, <1>2, <1>3, <1>6, <1>7, <1>12 DEF Settle, Leaving, Deleting, Working
<1>19. Renewing(s, v)
  BY <1>1, <1>6, <1>7 DEF Settle, Renewing
<1>20. Heir(s, v)
  BY <1>1, <1>6, <1>7, <1>8 DEF Settle, Heir, Working
<1>21. Replacing(s, v, x, z, y)
  BY <1>7, <1>10 DEF Replacing, Working
<1>22. Bequeaths(s, v, x, z, y)
  BY <1>1, <1>2, <1>3, <1>4, <1>6, <1>7, <1>8 DEF Settle, Bequeaths, Working, TaskOk
<1>23. Successor(s, v, z, y)
  BY <1>1, <1>5, <1>6, <1>7, <1>10, <1>12 DEF Settle, Successor, Deleting, Working, IsRedundant
<1>24. Dismissed(s, v, x, z, y)
  BY <1>1, <1>4, <1>6, <1>7 DEF Settle, Dismissed
<1>25. Underway(z, y, x)
  BY <1>4 DEF Underway
<1>26. Excused(z, v, x)
  BY <1>4 DEF Excused
<1>27. Following(z, v, x)
  BY <1>2, <1>4, <1>6, <1>9, <1>12 DEF Following, TaskOk
<1>28. Behind(z, y, v, x)
  BY <1>1, <1>3, <1>5, <1>6 DEF Settle, Behind, Deleting
<1>29. Yields(z, v, x)
  BY <1>4 DEF Yields
<1>30. Replacing(r, z, y, v, x)
  BY <1>1, <1>3, <1>4, <1>6, <1>12 DEF Settle, Replacing, Due, Mutual, Rivals
<1>31. Bequeaths(r, z, y, v, x)
  BY <1>1, <1>4, <1>6, <1>9 DEF Settle, Bequeaths
<1>32. Successor(r, z, v, x)
  BY <1>1, <1>4, <1>6 DEF Settle, Successor, Due
<1>33. Dismissed(r, z, y, v, x)
  BY <1>1, <1>3, <1>4, <1>6, <1>11 DEF Settle, Dismissed, Due
<1> QED
  BY <1>1, <1>13, <1>14, <1>15, <1>16, <1>17, <1>18, <1>19, <1>20, <1>21, <1>22, <1>23, <1>24,
     <1>25, <1>26, <1>27, <1>28, <1>29, <1>30, <1>31, <1>32, <1>33 DEF Settle

LEMMA GivesUpSettle ==
    ASSUME NEW o, NEW t, NEW a, NEW r, NEW z, NEW b, NEW s, NEW v, NEW x, NEW y,
           Settling(o, t, a, r, z, b, s, v, x, y), GivesUp(o, t, a, b, s, v, x, y)
    PROVE  Settle(s, v, x, r, z, y) /\ Settle(r, z, y, s, v, x)
<1>1. Settle(o, t, a, r, z, b) /\ Settle(r, z, b, o, t, a) /\ Bond(o, t, a, r, z, b) /\ Bond(r, z, b, o, t, a)
      /\ scene.ordered /\ ~scene.refuses
  BY DEF Settling, Turning
<1>2. TaskOk(t) /\ TaskOk(z) /\ Informed(o, t) /\ Informed(r, z) /\ None \notin Sas
      /\ t.coll \in {"NONE", "REKEY", "DELETE"} /\ z.coll \in {"NONE", "REKEY", "DELETE"}
  BY SasFacts DEF Settling, Turning, Met, Known, TaskRec
<1>3. /\ x = a /\ v = Idle /\ t.sent /\ t.del = None /\ ~OkIn(b) /\ Tells(b)
      /\ ~Tells(y) /\ ~OkIn(y) /\ (\A k : ~Told(y, k)) /\ (Wants(y) <=> Wants(b))
      /\ ~Wants(b) \/ ~AsksFirst(b)
      /\ AsksFirst(y)
  BY <1>1 DEF GivesUp, Read, AsksFirst, Tells
<1>4. v.kind = "NONE" /\ v.del = None /\ v.coll = "NONE" /\ ~v.gone /\ ~v.sent
  BY <1>3, IdleFacts
<1>5. /\ OkIn(a) => z.kind = "REKEY" /\ z.del = None /\ z.sent
      /\ z.coll # "NONE" => z.kind = "REKEY"
      /\ Told(a, "TEMPORARY_FAILURE") => z.kind = "REKEY"
      /\ z.kind = "REKEY" => z.child \in Sas /\ z.new \in Sas
      /\ ~Wants(a)
  BY <1>3, FailureFacts DEF Settling, Turning, Met, Known, TaskOk
<1>6. s = o /\ (t.kind = "REKEY" => t.coll = "DELETE")
  BY <1>1, <1>3 DEF GivesUp, Settle, Excused
<1>7. Underway(v, x, y)
  BY <1>4 DEF Underway
<1>8. Excused(v, z, y)
  BY <1>3 DEF Excused
<1>9. Following(v, z, y)
  BY <1>3 DEF Following
<1>10. Behind(v, x, z, y)
  BY <1>1, <1>3, <1>5 DEF Settle, Behind
<1>11. Yields(v, z, y)
  BY <1>4 DEF Yields, Rivals
<1>12. Leaving(s, v)
  BY <1>1, <1>2, <1>3, <1>6 DEF Settle, Leaving, Deleting
<1>13. Renewing(s, v)
  BY <1>1, <1>2, <1>6 DEF Settle, Renewing, Working, Informed
<1>14. Heir(s, v)
  BY <1>4 DEF Heir
<1>15. Replacing(s, v, x, z, y)
  BY <1>1, <1>3, <1>6 DEF Settle, Replacing, Due, Mutual, Deleting
<1>16. Bequeaths(s, v, x, z, y)
  BY <1>4 DEF Bequeaths
<1>17. Successor(s, v, z, y)
  BY <1>1, <1>2, <1>3, <1>6 DEF Settle, Successor, Due, Deleting
<1>18. Dismissed(s, v, x, z, y)
  BY <1>1, <1>3, <1>6 DEF Settle, Dismissed, Due
<1>19. Underway(z, y, x)
  BY <1>1, <1>3 DEF Settle, Underway
<1>20. Excused(z, v, x)
  BY <1>1, <1>3, <1>5 DEF Settle, Excused
<1>21. Following(z, v, x)
  BY <1>4 DEF Following
<1>22. Behind(z, y, v, x)
  BY <1>3, <1>4 DEF Behind, Deleting
<1>23. Yields(z, v, x)
  BY <1>4 DEF Yields, Rivals
<1>24. Replacing(r, z, y, v, x)
  BY <1>1, <1>3 DEF Settle, Replacing
<1>25. Bequeaths(r, z, y, v, x)
  BY <1>1, <1>2, <1>3 DEF Settle, Bequeaths, TaskOk
<1>26. Successor(r, z, v, x)
  BY <1>1, <1>3, <1>5 DEF Settle, Successor, Due
<1>27. Dismissed(r, z, y, v, x)
  BY <1>1, <1>3, <1>5 DEF Settle, Dismissed, Due
<1> QED
  BY <1>1, <1>7, <1>8, <1>9, <1>10, <1>11, <1>12, <1>13, <1>14, <1>15, <1>16, <1>17, <1>18, <1>19,
     <1>20, <1>21, <1>22, <1>23, <1>24, <1>25, <1>26, <1>27 DEF Settle

LEMMA RetriesSettle ==
    ASSUME NEW o, NEW t, NEW a, NEW r, NEW z, NEW b, NEW s, NEW v, NEW x, NEW y,
           Settling(o, t, a, r, z, b, s, v, x, y), Retries(o, t, a, b, s, v, x, y)
    PROVE  Settle(s, v, x, r, z, y) /\ Settle(r, z, y, s, v, x)
<1>1. Settle(o, t, a, r, z, b) /\ Settle(r, z, b, o, t, a) /\ Bond(o, t, a, r, z, b) /\ Bond(r, z, b, o, t, a)
      /\ scene.ordered /\ ~scene.refuses
  BY DEF Settling, Turning
<1>2. TaskOk(t) /\ TaskOk(z) /\ Informed(o, t) /\ Informed(r, z) /\ None \notin Sas
      /\ t.coll \in {"NONE", "REKEY", "DELETE"} /\ z.coll \in {"NONE", "REKEY", "DELETE"}
  BY SasFacts DEF Settling, Turning, Met, Known, TaskRec
<1>3. /\ x = a /\ s = o /\ t.sent /\ t.kind = "REKEY" /\ t.del = None /\ ~OkIn(b) /\ Tells(b)
      /\ ~Tells(y) /\ ~OkIn(y) /\ (\A k : ~Told(y, k)) /\ (Wants(y) <=> Wants(b))
      /\ ~Wants(b) \/ ~AsksFirst(b)
      /\ ~v.sent /\ v.kind = "REKEY" /\ v.child = t.child /\ v.new = t.new /\ v.del = None
      /\ v.coll = t.coll /\ v.other = t.other /\ v.gone = t.gone
  BY <1>1 DEF Retries, Read, SameGoal, SameColl
<1>4. ~Wants(a) /\ (OkIn(a) => Tells(a) /\ z.kind = "REKEY" /\ z.del = None)
  BY <1>3 DEF Settling, Turning, Met, Known
<1>5. Underway(v, x, y)
  BY <1>3 DEF Underway
<1>6. Excused(v, z, y)
  BY <1>3 DEF Excused
<1>7. Following(v, z, y)
  BY <1>3 DEF Following
<1>8. Behind(v, x, z, y)
  BY <1>1, <1>3 DEF Settle, Behind, Deleting
<1>9. Yields(v, z, y)
  BY <1>3 DEF Yields
<1>10. Leaving(s, v)
  BY <1>1, <1>2, <1>3 DEF Settle, Leaving, Deleting
<1>11. Renewing(s, v)
  BY <1>1, <1>3 DEF Settle, Renewing
<1>12. Heir(s, v)
  BY <1>1, <1>3 DEF Settle, Heir
<1>13. Replacing(s, v, x, z, y)
  BY <1>1, <1>3 DEF Settle, Replacing, Due, Mutual, Deleting
<1>14. Bequeaths(s, v, x, z, y)
  BY <1>3 DEF Bequeaths
<1>15. Successor(s, v, z, y)
  BY <1>1, <1>2, <1>3 DEF Settle, Successor, Due, Deleting
<1>16. Dismissed(s, v, x, z, y)
  BY <1>1, <1>3 DEF Settle, Dismissed, Due
<1>17. Underway(z, y, x)
  BY <1>1, <1>3 DEF Settle, Underway
<1>18. Excused(z, v, x)
  BY <1>1, <1>3, <1>4 DEF Settle, Excused
<1>19. Following(z, v, x)
  BY <1>1, <1>2, <1>3 DEF Settle, Following, TaskOk
<1>20. Behind(z, y, v, x)
  BY <1>3 DEF Behind, Deleting
<1>21. Yields(z, v, x)
  BY <1>2, <1>3 DEF Yields, TaskOk
<1>22. Replacing(r, z, y, v, x)
  BY <1>1, <1>3 DEF Settle, Replacing
<1>23. Bequeaths(r, z, y, v, x)
  BY <1>1, <1>3 DEF Settle, Bequeaths
<1>24. Successor(r, z, v, x)
  BY <1>1, <1>3 DEF Settle, Successor, Due
<1>25. Dismissed(r, z, y, v, x)
  BY <1>1, <1>3 DEF Settle, Dismissed, Due
<1> QED
  BY <1>1, <1>5, <1>6, <1>7, <1>8, <1>9, <1>10, <1>11, <1>12, <1>13, <1>14, <1>15, <1>16, <1>17,
     <1>18, <1>19, <1>20, <1>21, <1>22, <1>23, <1>24, <1>25 DEF Settle

LEMMA SucceedsSettle ==
    ASSUME NEW o, NEW t, NEW a, NEW r, NEW z, NEW b, NEW s, NEW v, NEW x, NEW y,
           Settling(o, t, a, r, z, b, s, v, x, y), Succeeds(o, t, a, b, s, v, x, y)
    PROVE  Settle(s, v, x, r, z, y) /\ Settle(r, z, y, s, v, x)
<1>1. Settle(o, t, a, r, z, b) /\ Settle(r, z, b, o, t, a) /\ Bond(o, t, a, r, z, b) /\ Bond(r, z, b, o, t, a)
      /\ scene.ordered /\ ~scene.refuses
  BY DEF Settling, Turning
<1>2. TaskOk(t) /\ TaskOk(z) /\ Informed(o, t) /\ Informed(r, z) /\ None \notin Sas
      /\ t.coll \in {"NONE", "REKEY", "DELETE"} /\ z.coll \in {"NONE", "REKEY", "DELETE"}
  BY SasFacts DEF Settling, Turning, Met, Known, TaskRec
<1>3. PICK won \in BOOLEAN : won = Wins(t) /\ (won => t.coll # "DELETE") /\ (~won => t.coll # "NONE")
  BY DEF Wins
<1>4. /\ x = a /\ t.sent /\ t.kind = "REKEY" /\ t.del = None /\ OkIn(b) /\ Tells(b)
      /\ ~Tells(y) /\ ~OkIn(y) /\ (\A k : ~Told(y, k)) /\ (Wants(y) <=> Wants(b))
      /\ ~Wants(b) \/ ~AsksFirst(b)
      /\ ~v.sent /\ v.kind = "REKEY" /\ v.child = t.child /\ v.new = t.new
      /\ v.del = (IF won THEN t.child ELSE t.new)
      /\ v.coll = t.coll /\ v.other = t.other /\ v.gone = t.gone
  BY <1>1, <1>3 DEF Succeeds, Read, SameGoal, SameColl
<1>5. /\ t.child \in Sas /\ t.new \in Sas \ {t.child} /\ (z.kind = "REKEY" => t.new # z.new)
      /\ t.coll = "REKEY" => t.other \in Sas \ {t.child, t.new}
      /\ z.kind = "REKEY" => z.child \in Sas /\ z.new \in Sas \ {z.child}
      /\ z.coll # "NONE" => z.kind = "REKEY"
      /\ OkIn(a) => z.kind = "REKEY" /\ z.del = None
      /\ ~Wants(a) /\ AsksFirst(a)
  BY <1>4 DEF Settling, Turning, Met, Known, TaskOk, Wants, AsksFirst
<1>6. ~won /\ t.coll = "REKEY" =>
         nonce[t.new] <= nonce[t.other] /\ ~(nonce[t.new] > nonce[t.other])
  <2>1. t.coll = "REKEY" => nonce[t.new] \in Nat /\ nonce[t.other] \in Nat
    BY <1>5 DEF Settling, Turning, Ranked
  <2>2. ~won /\ t.coll = "REKEY" => ~(nonce[t.new] > nonce[t.other])
    BY <1>3 DEF Wins
  <2> QED
    BY <2>1, <2>2
<1>7. /\ s[t.new].rekey = None /\ o[t.new].state = "NONE"
      /\ won => s[t.new].state = "INSTALLED" /\ s[t.new].out = "INSTALLED"
      /\ ~won => s[t.new].state = "REKEYED" /\ s[t.new].out = "REGISTERED"
      /\ won => s[t.child].state = "REKEYED" /\ Working(o, t.child)
      /\ won /\ t.coll = "REKEY" /\ ~t.gone => s[t.other].state = "REKEYED" /\ Working(o, t.other)
      /\ \A d \in Sas \ {t.new} :
            /\ s[d].out = o[d].out /\ s[d].rekey = o[d].rekey /\ (Working(s, d) <=> Working(o, d))
            /\ ~(won /\ (d = t.child \/ (t.coll = "REKEY" /\ ~t.gone /\ d = t.other))) => s[d].state = o[d].state
  <2>1. Replaces(s, o, t) /\ o[t.new].state = "NONE"
    BY <1>1 DEF Succeeds, Bond, Unborn
  <2>2. won => Working(o, t.child) /\ (t.coll = "REKEY" /\ ~t.gone => Working(o, t.other))
    BY <1>2, <1>3, <1>4 DEF Informed, Working
  <2>3. /\ won => s[t.child].state = "REKEYED"
        /\ won /\ t.coll = "REKEY" /\ ~t.gone => s[t.other].state = "REKEYED"
    BY <1>3, <1>5, <2>1 DEF Replaces
  <2>4. ASSUME NEW d \in Sas \ {t.new}
        PROVE  /\ s[d].out = o[d].out /\ s[d].rekey = o[d].rekey
               /\ ~(won /\ (d = t.child \/ (t.coll = "REKEY" /\ ~t.gone /\ d = t.other))) => s[d].state = o[d].state
    BY <1>3, <2>1 DEF Replaces
  <2>5. ASSUME NEW d \in Sas \ {t.new} PROVE Working(s, d) <=> Working(o, d)
    BY <2>2, <2>3, <2>4 DEF Working
  <2>6. /\ s[t.new].rekey = None
        /\ won => s[t.new].state = "INSTALLED" /\ s[t.new].out = "INSTALLED"
        /\ ~won => s[t.new].state = "REKEYED" /\ s[t.new].out = "REGISTERED"
    BY <1>3, <2>1 DEF Replaces
  <2> QED
    BY <2>1, <2>2, <2>3, <2>4, <2>5, <2>6
<1>8. /\ Working(r, t.new) \/ Deleting(z, t.new)
      /\ z.kind = "REKEY" /\ z.del = None /\ z.child = t.new => ~Tells(a)
      /\ z.del = t.new => ~Tells(a)
      /\ OkIn(a) => Tells(a)
  BY <1>4 DEF Settling, Turning, Met, Known, Awaits
<1>9. Underway(v, x, y)
  BY <1>4 DEF Underway
<1>10. Excused(v, z, y)
  BY <1>4 DEF Excused
<1>11. Following(v, z, y)
  BY <1>4 DEF Following
<1>12. Behind(v, x, z, y)
  BY <1>1, <1>4 DEF Settle, Behind, Deleting
<1>13. Yields(v, z, y)
  BY <1>4 DEF Yields
<1>14. Leaving(s, v)
  BY <1>1, <1>2, <1>4, <1>7 DEF Settle, Leaving, Deleting
<1>15. Renewing(s, v)
  BY <1>1, <1>2, <1>3, <1>7 DEF Settle, Renewing, Bond, Tracks, Retired, Informed, Working
<1>16. Heir(s, v)
  BY <1>1, <1>4, <1>5, <1>7 DEF Settle, Heir
<1>17. Replacing(s, v, x, z, y)
  BY <1>1, <1>2, <1>4, <1>7 DEF Settle, Replacing, Due, Mutual, Rivals, Deleting, Working, TaskOk
<1>18. Bequeaths(s, v, x, z, y)
  BY <1>4 DEF Bequeaths
<1>19. Successor(s, v, z, y)
  BY <1>1, <1>2, <1>4, <1>7 DEF Settle, Successor, Due, Deleting, Working
<1>20. Dismissed(s, v, x, z, y)
  <2>1. Dismissed(o, t, a, z, b) /\ Replacing(o, t, a, z, b) /\ Heir(o, t) /\ Yields(t, z, b) /\ Collides(z, b, o, t)
    BY <1>1 DEF Settle, Bond
  <2>2. SUFFICES ASSUME NEW c \in Sas, s[c].state = "REKEYED", s[c].rekey = None, ~(~v.sent /\ v.del = c)
                 PROVE  z.kind = "REKEY" /\ z.new = c /\ ((OkIn(a) /\ ~Wins(z)) \/ (z.del = c /\ Due(z, y)))
    BY <1>4 DEF Dismissed
  <2>3. Due(z, b) => Due(z, y)
    BY <1>4 DEF Due
  <2>4. c # t.new /\ (won => c # t.child) /\ o[c].rekey = None
    BY <1>4, <1>7, <2>2
  <2>5. CASE o[c].state = "REKEYED"
    BY <1>4, <2>1, <2>3, <2>4, <2>5 DEF Dismissed
  <2>6. CASE won /\ t.coll = "REKEY" /\ c = t.other
    <3>1. o[t.child].rekey = c /\ Working(o, t.child)
      BY <1>4, <1>7, <2>1, <2>6 DEF Heir
    <3>2. /\ z.kind = "REKEY" /\ z.child = t.child /\ z.new = c /\ Rivals(t, z) /\ Rivals(z, t)
          /\ OkIn(a) \/ (z.del # None /\ Due(z, b))
      BY <1>2, <1>4, <1>5, <2>1, <3>1 DEF Replacing, Rivals
    <3>3. nonce[t.new] > nonce[z.new] /\ nonce[t.new] \in Nat /\ nonce[z.new] \in Nat
      BY <1>3, <1>5, <2>6, <3>2 DEF Wins, Settling, Turning, Ranked
    <3>4. CASE OkIn(a)
      <4>1. z.sent /\ z.del = None /\ ~Wants(b)
        BY <3>4 DEF Settling, Turning, Met, Known
      <4>2. z.coll = "REKEY" /\ z.other = t.new
        BY <1>4, <2>1, <3>2, <4>1 DEF Collides, AsksFirst, Wants
      <4>3. ~Wins(z)
        BY <3>3, <4>2 DEF Wins
      <4> QED
        BY <3>2, <3>4, <4>3
    <3>5. CASE z.del # None /\ Due(z, b)
      <4>1. z.del # z.child
        BY <1>4, <2>1, <3>2, <3>3 DEF Yields
      <4> QED
        BY <1>2, <2>3, <3>2, <3>5, <4>1 DEF TaskOk
    <3> QED
      BY <3>2, <3>4, <3>5
  <2> QED
    BY <1>7, <2>2, <2>4, <2>5, <2>6
<1>21. Underway(z, y, x)
  BY <1>1, <1>4 DEF Settle, Underway
<1>22. Excused(z, v, x)
  BY <1>1, <1>4, <1>5 DEF Settle, Excused
<1>23. Following(z, v, x)
  BY <1>4, <1>5, <1>8 DEF Following
<1>24. Behind(z, y, v, x)
  BY <1>4 DEF Behind, Deleting
<1>25. Yields(z, v, x)
  <2>1. SUFFICES ASSUME Rivals(z, v), OkIn(x), v.del = v.child
                 PROVE  v.coll = "REKEY" /\ v.other = z.new /\ nonce[v.new] > nonce[z.new]
    BY DEF Yields
  <2>2. won /\ Rivals(t, z)
    BY <1>4, <1>5, <2>1 DEF Rivals
  <2>3. t.coll = "REKEY" /\ t.other = z.new
    BY <1>1, <1>4, <1>5, <2>1, <2>2 DEF Bond, Collides
  <2> QED
    BY <1>3, <1>4, <2>2, <2>3 DEF Wins
<1>26. Replacing(r, z, y, v, x)
  <2>1. Replacing(r, z, b, t, a) /\ Truthful(r, t, b) /\ Outcome(r, z, b, t, a)
    BY <1>1 DEF Settle, Bond
  <2>2. SUFFICES ASSUME NEW c \in Sas, Working(r, c), r[c].rekey # None
                 PROVE  /\ r[c].state = "REKEYED" /\ v.kind = "REKEY" /\ v.child = c /\ v.new = r[c].rekey
                        /\ OkIn(y) \/ (v.del # None /\ Due(v, x))
                        /\ v.del = v.new => Mutual(z, v, x) /\ (OkIn(x) /\ Wants(x) => ~AsksFirst(x))
                        /\ Working(r, v.new) \/ Deleting(z, v.new)
    BY DEF Replacing
  <2>3. /\ r[c].state = "REKEYED" /\ v.kind = "REKEY" /\ v.child = c /\ v.new = r[c].rekey /\ t.child = c
        /\ Working(r, v.new) \/ Deleting(z, v.new)
    BY <1>4, <2>1, <2>2 DEF Replacing
  <2>4. v.del # None /\ Due(v, x)
    BY <1>2, <1>4, <1>5 DEF Due
  <2>5. ASSUME v.del = v.new PROVE Mutual(z, v, x) /\ ~Wants(x)
    <3>1. t.coll = "REKEY" /\ ~(nonce[t.new] > nonce[t.other])
      BY <1>2, <1>3, <1>4, <1>5, <1>6, <2>1, <2>2, <2>3, <2>5 DEF Truthful
    <3>2. Mutual(z, t, a)
      BY <1>4, <2>1, <2>2, <2>3, <3>1 DEF Outcome
    <3> QED
      BY <1>4, <1>5, <3>2 DEF Mutual, Rivals
  <2> QED
    BY <2>3, <2>4, <2>5
<1>27. Bequeaths(r, z, y, v, x)
  BY <1>1, <1>2, <1>3, <1>4 DEF Settle, Bequeaths, TaskOk
<1>28. Successor(r, z, v, x)
  BY <1>1, <1>4, <1>5 DEF Settle, Successor, Due
<1>29. Dismissed(r, z, y, v, x)
  BY <1>1, <1>3, <1>4, <1>5 DEF Settle, Dismissed, Due
<1> QED
  BY <1>1, <1>9, <1>10, <1>11, <1>12, <1>13, <1>14, <1>15, <1>16, <1>17, <1>18, <1>19, <1>20, <1>21,
     <1>22, <1>23, <1>24, <1>25, <1>26, <1>27, <1>28, <1>29 DEF Settle

LEMMA CompletesSettle ==
    ASSUME NEW o, NEW t, NEW a, NEW r, NEW z, NEW b, NEW s, NEW v, NEW x, NEW y,
           Settling(o, t, a, r, z, b, s, v, x, y), Completes(o, t, a, b, s, v, x, y)
    PROVE  Settle(s, v, x, r, z, y) /\ Settle(r, z, y, s, v, x)
<1>1. Settle(o, t, a, r, z, b) /\ Settle(r, z, b, o, t, a) /\ Bond(o, t, a, r, z, b) /\ Bond(r, z, b, o, t, a)
      /\ scene.ordered /\ ~scene.refuses
  BY DEF Settling, Turning
<1>2. TaskOk(t) /\ TaskOk(z) /\ Informed(o, t) /\ Informed(r, z) /\ None \notin Sas
      /\ t.coll \in {"NONE", "REKEY", "DELETE"} /\ z.coll \in {"NONE", "REKEY", "DELETE"}
  BY SasFacts DEF Settling, Turning, Met, Known, TaskRec
<1>3. /\ x = a /\ v = Idle /\ t.sent /\ t.del \in Sas /\ Tells(b)
      /\ ~Tells(y) /\ ~OkIn(y) /\ (\A k : ~Told(y, k)) /\ (Wants(y) <=> Wants(b))
      /\ ~Wants(b) \/ ~AsksFirst(b)
  BY <1>1 DEF Completes, Read
<1>4. v.kind = "NONE" /\ v.del = None /\ v.coll = "NONE" /\ ~v.gone /\ ~v.sent
  BY <1>3, IdleFacts
<1>5. /\ OkIn(a) => z.kind = "REKEY" /\ z.del = None /\ Tells(a)
      /\ z.coll # "NONE" => z.kind = "REKEY"
      /\ Told(a, "TEMPORARY_FAILURE") => z.kind = "REKEY"
      /\ z.kind = "REKEY" => z.child \in Sas /\ z.new \in Sas \ {z.child}
      /\ ~OkIn(b) /\ ~Wants(a) /\ ~Working(r, t.del)
  BY <1>2, <1>3, FailureFacts DEF Settling, Turning, Met, Known, TaskOk
<1>6. /\ s[t.del].state \in {"NONE", "DELETING"} /\ o[t.del].state = "DELETING"
      /\ s[t.del].rekey = o[t.del].rekey \/ s[t.del].state = "NONE"
      /\ s[t.del].out = "NONE"
      /\ s[t.del].state = "NONE" => s[t.del].rekey = None
      /\ \A d \in Sas : d # t.del =>
            /\ s[d].state = o[d].state /\ s[d].rekey = o[d].rekey
            /\ IF /\ t.rekeyed /\ ~IsRedundant(t, o[t.del].rekey)
                  /\ d = o[t.del].rekey /\ o[d].state # "NONE"
               THEN s[d].out = "INSTALLED" ELSE s[d].out = o[d].out
  <2>1. PICK moved \in BOOLEAN : moved <=> t.rekeyed /\ ~IsRedundant(t, o[t.del].rekey)
    OBVIOUS
  <2>2. Ceases(s, o, t.del, moved)
    BY <2>1 DEF Completes
  <2>3. NoSa.state = "NONE" /\ NoSa.out = "NONE" /\ NoSa.rekey = None
    BY DEF NoSa
  <2> QED
    BY <1>2, <1>3, <2>1, <2>2, <2>3 DEF Ceases, Informed
<1>7. t.kind = "REKEY" => t.del \in {t.child, t.new} /\ t.child \in Sas /\ t.new \in Sas
  BY <1>2, <1>3 DEF TaskOk
<1>8. t.kind \in {"REKEY", "DELETE"}
  BY <1>2, <1>3, IdleFacts DEF TaskOk, TaskRec, Kinds, Settling, Turning, Met
<1>9. Underway(v, x, y)
  BY <1>4 DEF Underway
<1>10. Excused(v, z, y)
  BY <1>3 DEF Excused
<1>11. Following(v, z, y)
  BY <1>3 DEF Following
<1>12. Behind(v, x, z, y)
  BY <1>1, <1>3, <1>5 DEF Settle, Behind
<1>13. Yields(v, z, y)
  BY <1>4 DEF Yields, Rivals
<1>14. Leaving(s, v)
  <2>1. SUFFICES ASSUME NEW c \in Sas, s[c].state = "DELETING", s[c].out # "NONE" PROVE FALSE
    BY DEF Leaving
  <2>2. c # t.del /\ o[c].state = "DELETING"
    BY <1>6, <2>1
  <2>3. o[c].out = "NONE"
    BY <1>1, <2>2 DEF Settle, Leaving, Deleting
  <2>4. t.rekeyed /\ ~IsRedundant(t, c) /\ c = o[t.del].rekey
    BY <1>6, <2>1, <2>3
  <2>5. t.kind = "REKEY"
    BY <1>1, <1>2, <1>8, <2>2, <2>4 DEF Settle, Bequeaths, Working
  <2>6. t.del = t.child /\ t.coll # "DELETE"
    BY <1>1, <1>2, <1>7, <2>4, <2>5 DEF Settle, Heir, Bond, Tracks
  <2> QED
    BY <1>1, <1>2, <2>4, <2>5, <2>6 DEF Settle, Heir, IsRedundant
<1>15. Renewing(s, v)
  BY <1>1, <1>2, <1>6, <1>7 DEF Settle, Renewing
<1>16. Heir(s, v)
  BY <1>4 DEF Heir
<1>17. Replacing(s, v, x, z, y)
  <2>1. Replacing(o, t, a, z, b) /\ Following(t, z, b) /\ Tracks(o, t) /\ Tracks(r, z) /\ Truthful(o, z, a)
    BY <1>1 DEF Settle, Bond
  <2>2. SUFFICES ASSUME NEW c \in Sas, Working(s, c), s[c].rekey # None
                 PROVE  /\ s[c].state = "REKEYED" /\ z.kind = "REKEY" /\ z.child = c /\ z.new = s[c].rekey
                        /\ OkIn(x) \/ (z.del # None /\ Due(z, y))
                        /\ z.del # z.new
                        /\ Working(s, z.new)
    BY DEF Replacing
  <2>3. c # t.del /\ Working(o, c) /\ o[c].rekey = s[c].rekey /\ s[c].state = o[c].state
    BY <1>6, <2>2 DEF Working
  <2>4. /\ s[c].state = "REKEYED" /\ z.kind = "REKEY" /\ z.child = c /\ z.new = s[c].rekey
        /\ OkIn(x) \/ (z.del # None /\ Due(z, y))
        /\ z.del = z.new => Mutual(t, z, b)
        /\ Working(o, z.new) \/ Deleting(t, z.new)
    BY <1>3, <2>1, <2>2, <2>3 DEF Replacing, Due
  <2>5. ASSUME z.del = z.new PROVE FALSE
    <3>1. Mutual(t, z, b) /\ t.kind = "REKEY" /\ t.coll = "REKEY" /\ t.other = z.new /\ t.new = z.other /\ t.child = c
      BY <2>4, <2>5 DEF Mutual, Rivals
    <3>2. t.del = t.new /\ t.new \in Sas \ {z.new}
      BY <1>2, <1>7, <2>3, <3>1 DEF TaskOk
    <3>3. z.coll = "REKEY"
      BY <1>2, <2>1, <2>3, <2>4, <2>5 DEF Tracks, Truthful
    <3>4. nonce[t.new] <= nonce[z.new] /\ nonce[z.new] <= nonce[t.new]
      BY <2>1, <2>4, <2>5, <3>1, <3>2, <3>3 DEF Tracks
    <3>5. nonce[t.new] \in Nat /\ nonce[z.new] \in Nat /\ nonce[t.new] # nonce[z.new]
      BY <1>5, <2>4, <3>2 DEF Settling, Turning, Ranked
    <3> QED
      BY <3>4, <3>5
  <2>6. t.del # z.new
    <3>1. SUFFICES ASSUME t.del = z.new PROVE FALSE
      OBVIOUS
    <3>2. z.del = z.child /\ z.sent /\ AsksFirst(b)
      BY <1>3, <2>1, <2>4, <2>5, <3>1 DEF Following
    <3> QED
      BY <1>2, <1>3, <1>5, <2>4, <3>2 DEF Due
  <2>7. Working(s, z.new)
    BY <1>5, <1>6, <2>4, <2>6 DEF Working, Deleting
  <2> QED
    BY <2>4, <2>5, <2>7
<1>18. Bequeaths(s, v, x, z, y)
  BY <1>4 DEF Bequeaths
<1>19. Successor(s, v, z, y)
  BY <1>1, <1>3, <1>6 DEF Settle, Successor, Due, Deleting, Working
<1>20. Dismissed(s, v, x, z, y)
  BY <1>1, <1>3, <1>6 DEF Settle, Dismissed, Due
<1>21. Underway(z, y, x)
  BY <1>1, <1>3 DEF Settle, Underway
<1>22. Excused(z, v, x)
  BY <1>1, <1>3, <1>5 DEF Settle, Excused
<1>23. Following(z, v, x)
  BY <1>4 DEF Following
<1>24. Behind(z, y, v, x)
  BY <1>3, <1>4 DEF Behind, Deleting
<1>25. Yields(z, v, x)
  BY <1>4 DEF Yields, Rivals
<1>26. Replacing(r, z, y, v, x)
  BY <1>1, <1>3, <1>5 DEF Settle, Replacing, Due
<1>27. Bequeaths(r, z, y, v, x)
  <2>1. SUFFICES ASSUME z.kind = "DELETE", r[z.del].rekey # None
                 PROVE  Working(r, r[z.del].rekey) /\ Tells(x)
    BY <1>3, <1>5 DEF Bequeaths
  <2>2. Bequeaths(r, z, b, t, a) /\ Underway(z, b, a) /\ Behind(t, a, z, b)
    BY <1>1 DEF Settle
  <2>3. Working(r, r[z.del].rekey) /\ (t.del = z.del \/ Tells(a))
    BY <1>5, <2>1, <2>2 DEF Bequeaths
  <2>4. t.del = z.del => AsksFirst(b)
    BY <1>2, <1>3, <2>1, <2>2 DEF Behind, Deleting, TaskOk
  <2> QED
    BY <1>2, <1>3, <2>1, <2>2, <2>3, <2>4 DEF Underway, TaskOk
<1>28. Successor(r, z, v, x)
  BY <1>1, <1>5 DEF Settle, Successor
<1>29. Dismissed(r, z, y, v, x)
  BY <1>1, <1>5 DEF Settle, Dismissed, Working
<1> QED
  BY <1>1, <1>9, <1>10, <1>11, <1>12, <1>13, <1>14, <1>15, <1>16, <1>17, <1>18, <1>19, <1>20, <1>21,
     <1>22, <1>23, <1>24, <1>25, <1>26, <1>27, <1>28, <1>29 DEF Settle

LEMMA DeedSettle ==
    ASSUME NEW o, NEW t, NEW a, NEW r, NEW z, NEW b, NEW s, NEW v, NEW x, NEW y,
           Settling(o, t, a, r, z, b, s, v, x, y), Deed(o, t, a, z, b, s, v, x, y)
    PROVE  Settle(s, v, x, r, z, y) /\ Settle(r, z, y, s, v, x)
BY RestsSettle, QuitsSettle, AsksRekeySettle, AsksDeleteSettle, DeniesSettle, AcceptsSettle,
   ObeysSettle, GivesUpSettle, RetriesSettle, SucceedsSettle, CompletesSettle DEF Deed

LEMMA RegularOrderly == Regular => Orderly /\ Tame
BY DEF Regular, Orderly, Tame, Overtaking

AllAwait == \A p \in Peers : Awaits(task[p], air[p], task[Other(p)], air[Other(p)])

LEMMA AllAwaitFacts ==
    ASSUME RekeyInv, Agreement, Regular
    PROVE  AllAwait
<1>0. SUFFICES ASSUME NEW p \in Peers PROVE Awaits(task[p], air[p], task[Other(p)], air[Other(p)])
  BY DEF AllAwait
<1>1. PICK q \in Peers : q = Other(p) /\ q # p /\ Other(q) = p
  BY PeersFacts
<1>2. PICK t, a, z, b : t = task[p] /\ a = air[p] /\ z = task[q] /\ b = air[q]
  OBVIOUS
<1>3. SUFFICES ASSUME OkIn(b), z.del = t.new PROVE ~(Wants(b) /\ AsksFirst(b)) /\ ~Tells(a)
  BY <1>1, <1>2 DEF Awaits
<1>4. Offered(scene, t, a, b, sa[q], z, queue[q], jobs[q]) /\ scene.ordered
  BY <1>1, <1>2, RegularOrderly DEF Agreement, Agreed, Regular
<1>5. InOrder(b, t.new) /\ Unanswered(a, t.new)
  BY <1>3, <1>4 DEF Offered
<1>6. t.new \in Sas /\ None \notin Sas /\ TaskOk(z)
  BY <1>1, <1>2, <1>3, OkFacts, LocalFacts, SasFacts
<1>7. z.kind # "EMPTY"
  BY <1>3, <1>6 DEF TaskOk
<1>8. RequestOf(z).child = t.new
  BY <1>3, <1>6, <1>7 DEF RequestOf, Request
<1>9. ASSUME Wants(b), AsksFirst(b) PROVE FALSE
  <2>1. PICK j \in Asked(b), i \in Replies(b) : TRUE
    BY <1>3, <1>9 DEF Wants, OkIn
  <2>2. b[j].child = t.new
    BY <1>1, <1>2, <1>8, <2>1, AskedFacts
  <2>3. i < j /\ j < i
    BY <1>5, <1>9, <2>2 DEF InOrder, AsksFirst
  <2>4. i \in Nat /\ j \in Nat
    BY <1>1, <1>2, LocalFacts DEF Asked, Replies
  <2> QED
    BY <2>3, <2>4
<1>10. ASSUME NEW j \in Replies(a) PROVE FALSE
  <2>1. a[j].child = t.new
    BY <1>1, <1>2, <1>8, <1>10, RepliedFacts DEF Matches
  <2> QED
    BY <1>5, <2>1 DEF Unanswered
<1> QED
  BY <1>9, <1>10 DEF Tells

SettleInv == Regular => \A p \in Peers :
    Settle(sa[p], task[p], air[p], sa[Other(p)], task[Other(p)], air[Other(p)])

LEMMA InitSettle == Init => SettleInv
<1>1. SUFFICES ASSUME Init, NEW p \in Peers
               PROVE  Settle(sa[p], task[p], air[p], sa[Other(p)], task[Other(p)], air[Other(p)])
  BY DEF SettleInv
<1>2. PICK q \in Peers : q = Other(p)
  BY PeersFacts
<1>3. task[p] = Idle /\ task[q] = Idle /\ air[p] = <<>> /\ air[q] = <<>>
  BY <1>1, <1>2 DEF Init
<1>4. DOMAIN <<>> = {}
  OBVIOUS
<1>5. Asked(<<>>) = {} /\ Replies(<<>>) = {}
  BY <1>4 DEF Asked, Replies
<1>6. ~OkIn(<<>>) /\ ~Tells(<<>>) /\ ~Wants(<<>>) /\ \A k : ~Told(<<>>, k)
  BY <1>5 DEF OkIn, Told, Tells, Wants
<1>7. \A c \in Sas : /\ sa[p][c].state \in {"NONE", "INSTALLED"} /\ sa[p][c].rekey = None
                     /\ sa[p][c].out \in {"NONE", "INSTALLED"}
  <2>1. \A c \in Sas : sa[p][c] = IF c = 1 THEN InUse ELSE NoSa
    BY <1>1 DEF Init
  <2> QED
    BY <2>1, SasFacts DEF InUse, NewSa, NoSa
<1>8. /\ Leaving(sa[p], Idle) /\ Renewing(sa[p], Idle) /\ Replacing(sa[p], Idle, <<>>, Idle, <<>>)
      /\ Successor(sa[p], Idle, Idle, <<>>) /\ Dismissed(sa[p], Idle, <<>>, Idle, <<>>)
  BY <1>7 DEF Leaving, Renewing, Replacing, Successor, Dismissed
<1>9. /\ Underway(Idle, <<>>, <<>>) /\ Excused(Idle, Idle, <<>>) /\ Following(Idle, Idle, <<>>)
      /\ Behind(Idle, <<>>, Idle, <<>>) /\ Yields(Idle, Idle, <<>>) /\ Heir(sa[p], Idle)
      /\ Bequeaths(sa[p], Idle, <<>>, Idle, <<>>)
  BY <1>6, IdleFacts DEF Underway, Excused, Following, Behind, Yields, Rivals, Heir, Bequeaths
<1> QED
  BY <1>2, <1>3, <1>8, <1>9 DEF Settle

LEMMA SettleStep ==
    ASSUME Ranked, Regular, AllMet, AllMet', AllAwait, NEW p \in Peers, BondInv, BondInv', SettleInv, Advances(p)
    PROVE  SettleInv'
<1>0. PICK q \in Peers : q = Other(p) /\ Other(q) = p /\ \A w \in Peers : w = p \/ w = q
  BY PeersFacts
<1>1. PICK o, t, a, r, z, b, s, v, x, y :
        /\ o = sa[p] /\ t = task[p] /\ a = air[p] /\ r = sa[q] /\ z = task[q] /\ b = air[q]
        /\ s = sa'[p] /\ v = task'[p] /\ x = air'[p] /\ y = air'[q]
  OBVIOUS
<1>2. sa'[q] = r /\ task'[q] = z /\ scene' = scene /\ nonce' = nonce /\ Deed(o, t, a, z, b, s, v, x, y)
  BY <1>0, <1>1 DEF Advances
<1>3. Met(o, t, a, r, z, b) /\ Met(r, z, b, o, t, a)
  BY <1>0, <1>1 DEF AllMet
<1>4. Met(s, v, x, r, z, y) /\ Met(r, z, y, s, v, x)
  BY <1>0, <1>1, <1>2 DEF AllMet, Met, Known
<1>5. Bond(o, t, a, r, z, b) /\ Bond(r, z, b, o, t, a)
  BY <1>0, <1>1, RegularOrderly DEF BondInv
<1>6. Turning(o, t, a, r, z, b, s, v, x, y)
  BY <1>3, <1>4, <1>5, RegularOrderly DEF Turning, Orderly
<1>7. Bond(s, v, x, r, z, y) /\ Bond(r, z, y, s, v, x)
  BY <1>2, <1>6, DeedBond
<1>8. Settle(o, t, a, r, z, b) /\ Settle(r, z, b, o, t, a) /\ Awaits(t, a, z, b) /\ Awaits(z, b, t, a)
  BY <1>0, <1>1 DEF SettleInv, AllAwait
<1>9. Settling(o, t, a, r, z, b, s, v, x, y)
  BY <1>6, <1>7, <1>8 DEF Settling, Regular
<1>10. Settle(s, v, x, r, z, y) /\ Settle(r, z, y, s, v, x)
  BY <1>2, <1>9, DeedSettle
<1>11. Settle(sa[p], task[p], air[p], sa[q], task[q], air[q])'
  BY <1>1, <1>2, <1>10 DEF Settle, Underway, Excused, Following, Behind, Yields, Rivals, Leaving,
     Renewing, Heir, Replacing, Due, Mutual, Bequeaths, Wins, Successor, Dismissed
<1>12. Settle(sa[q], task[q], air[q], sa[p], task[p], air[p])'
  BY <1>1, <1>2, <1>10 DEF Settle, Underway, Excused, Following, Behind, Yields, Rivals, Leaving,
     Renewing, Heir, Replacing, Due, Mutual, Bequeaths, Wins, Successor, Dismissed
<1> QED
  BY <1>0, <1>11, <1>12 DEF SettleInv

LEMMA SettleNext ==
    RekeyInv /\ Agreement /\ Plainly /\ AgedInv /\ BondInv /\ SettleInv /\ [Next]_vars => SettleInv'
<1>1. SUFFICES ASSUME RekeyInv, Agreement, Plainly, AgedInv, BondInv, SettleInv, [Next]_vars PROVE SettleInv'
  OBVIOUS
<1>2. RekeyInv' /\ Agreement' /\ Plainly' /\ AgedInv' /\ BondInv'
  BY <1>1, RekeyNext, AgreementNext, PlainlyNext, AgedNext, BondNext
<1>3. ASSUME UNCHANGED vars PROVE SettleInv'
  BY <1>1, <1>3 DEF vars, SettleInv, Regular, Settle, Underway, Excused, Following, Behind, Yields,
     Rivals, Leaving, Renewing, Heir, Replacing, Due, Mutual, Bequeaths, Wins, Successor, Dismissed
<1>4. ASSUME Next, Regular' PROVE SettleInv'
  <2>1. scene' = scene
    BY <1>1, <1>4, NextActs, ActsGood DEF GoodStep, Moves
  <2>2. Regular /\ Tame /\ Tame'
    BY <1>4, <2>1 DEF Regular, Tame, Overtaking
  <2>3. PICK p \in Peers : Advances(p)
    BY <1>1, <1>4, <2>2, NextAdvances DEF Plainly
  <2>4. AllMet /\ AllMet'
    BY <1>1, <1>2, <2>2, AllMetFacts, PTL
  <2> QED
    BY <1>1, <1>2, <2>2, <2>3, <2>4, RankedFacts, AllAwaitFacts, SettleStep
<1> QED
  BY <1>1, <1>3, <1>4 DEF SettleInv

\* A CHILD_SA the other peer has rekeyed takes the outbound traffic until it is deleted.
Worn(s) == \A c \in Sas : Working(s, c) /\ s[c].rekey # None => s[c].out = "INSTALLED"

\* No other CHILD_SA does, unless it is about to go.
Sole(s, t) == \A c, d \in Sas :
    /\ Working(s, c) /\ c # t.del /\ s[c].out = "INSTALLED"
    /\ Working(s, d) /\ d # t.del /\ s[d].out = "INSTALLED"
    => c = d

\* No user has deleted a CHILD_SA, and no rekeying is refused or overtaken.
Lasting(o, t, a, r, z, b) ==
    /\ scene.ordered /\ t.kind \in {"NONE", "EMPTY", "REKEY"} /\ z.kind \in {"NONE", "EMPTY", "REKEY"}
    /\ Known(o, t, a, r, z, b) /\ Known(r, z, b, o, t, a)
    /\ Bond(o, t, a, r, z, b) /\ Course(o, t, a, r, z, b) /\ Settle(o, t, a, r, z, b)
    /\ Worn(o) /\ Sole(o, t)

\* The successor of what the own rekeying deletes is known to be redundant.
LEMMA LastingHeir ==
    ASSUME NEW o, NEW t, NEW a, NEW r, NEW z, NEW b, Lasting(o, t, a, r, z, b),
           t.del \in Sas, o[t.del].rekey # None
    PROVE  IsRedundant(t, o[t.del].rekey)
<1>1. TaskOk(t) /\ None \notin Sas /\ t.kind = "REKEY"
  BY SasFacts, IdleFacts DEF Lasting, Known, TaskOk
<1>2. t.del \in {t.child, t.new}
  BY <1>1 DEF TaskOk
<1> QED
  BY <1>1, <1>2 DEF Lasting, Course, Lineage, IsRedundant

LEMMA AcceptsSole ==
    ASSUME NEW o, NEW t, NEW a, NEW r, NEW z, NEW b, NEW s, NEW v, NEW x, NEW y,
           Lasting(o, t, a, r, z, b), Accepts(o, t, a, z, b, s, v, x, y)
    PROVE  Worn(s) /\ Sole(s, v)
<1>1. /\ (t.sent \/ t = Idle) /\ z.del = None /\ z.child \in Sas /\ z.new \in Sas \ {z.child} /\ ~OkIn(a)
      /\ Working(o, z.child) /\ Replaced(s, o, z.child, z.new) /\ v.del = t.del
      /\ None \notin Sas /\ Informed(o, t) /\ o \in SaMaps
  BY SasFacts DEF Accepts, Replied, Lasting, Known
<1>2. ASSUME NEW d \in Sas, Working(o, d) PROVE o[d].rekey = None
  BY <1>1, <1>2 DEF Lasting, Settle, Replacing
<1>3. o[z.child].out = "INSTALLED"
  <2>1. SUFFICES ASSUME o[z.child].out = "REGISTERED" PROVE FALSE
    BY <1>1 DEF Informed, SaMaps, SaRec, Working
  <2>2. o[z.child].state # "REKEYED"
    BY <1>1, <1>2, IdleFacts DEF Lasting, Settle, Dismissed
  <2>3. PICK d \in Sas : o[d].rekey = z.child /\ Deleting(t, d) /\ ~IsRedundant(t, z.child)
    BY <1>1, <1>2, <2>1, <2>2 DEF Lasting, Settle, Successor
  <2> QED
    BY <1>1, <2>3, LastingHeir DEF Deleting
<1>4. Worn(s)
  BY <1>1, <1>3 DEF Lasting, Worn, Replaced, Working, NewSa
<1>5. Sole(s, v)
  BY <1>1 DEF Lasting, Sole, Replaced, Working, NewSa
<1> QED
  BY <1>4, <1>5

LEMMA SucceedsSole ==
    ASSUME NEW o, NEW t, NEW a, NEW r, NEW z, NEW b, NEW s, NEW v, NEW x, NEW y,
           Lasting(o, t, a, r, z, b), Succeeds(o, t, a, b, s, v, x, y)
    PROVE  Worn(s) /\ Sole(s, v)
<1>1. /\ t.kind = "REKEY" /\ t.sent /\ t.del = None /\ OkIn(b) /\ Replaces(s, o, t)
      /\ v.del = (IF Wins(t) THEN t.child ELSE t.new) /\ (~Wants(b) \/ ~AsksFirst(b))
  BY DEF Succeeds, Read, Lasting
<1>2. /\ None \notin Sas /\ Informed(o, t) /\ o \in SaMaps /\ TaskOk(z)
      /\ t.child \in Sas /\ t.new \in Sas \ {t.child} /\ (z.kind = "REKEY" => z.new # z.child)
      /\ OkIn(a) => z.del = None
  BY <1>1, SasFacts DEF Lasting, Known, TaskOk
<1>3. Wins(t) => t.coll # "DELETE"
  BY DEF Wins
<1>4. Wins(t) => Working(o, t.child) /\ (t.coll = "REKEY" /\ ~t.gone => Working(o, t.other))
  BY <1>1, <1>2, <1>3 DEF Informed, Working
<1>5. ASSUME NEW d \in Sas \ {t.new}
      PROVE  s[d].out = o[d].out /\ s[d].rekey = o[d].rekey /\ (Working(s, d) <=> Working(o, d))
  BY <1>1, <1>4 DEF Replaces, Working
<1>6. s[t.new].rekey = None
  BY <1>1 DEF Replaces
<1>7. Worn(s)
  BY <1>5, <1>6 DEF Lasting, Worn
<1>8. ASSUME Wins(t) PROVE o[t.child].out = "INSTALLED"
  <2>1. SUFFICES ASSUME o[t.child].out = "REGISTERED" PROVE FALSE
    BY <1>2, <1>4, <1>8 DEF Informed, SaMaps, SaRec, Working
  <2>2. o[t.child].rekey = None /\ o[t.child].state # "REKEYED"
    BY <1>1, <1>2, <1>4, <1>8, <2>1 DEF Lasting, Worn, Bond, Tracks
  <2>3. z.del # t.child
    <3>1. SUFFICES ASSUME z.kind = "REKEY", z.del = t.child PROVE FALSE
      BY <1>2, IdleFacts DEF TaskOk, Lasting
    <3>2. z.del = z.child
      BY <1>1, <1>2, <3>1 DEF TaskOk, Lasting, Course, Chained
    <3> QED
      BY <1>4, <1>8, <2>2, <3>1, <3>2 DEF Lasting, Bond, Noted, Granted, Working
  <2>4. PICK d \in Sas : o[d].rekey = t.child /\ Working(o, d)
    BY <1>1, <1>2, <1>4, <1>8, <2>1, <2>2, <2>3 DEF Lasting, Settle, Successor, Deleting
  <2>5. z.kind = "REKEY" /\ z.child = d /\ z.new = t.child /\ (OkIn(a) \/ (z.del # None /\ Due(z, b)))
    BY <1>2, <2>4 DEF Lasting, Settle, Replacing
  <2>6. z.del = z.child /\ z.sent /\ AsksFirst(b)
    BY <1>1, <2>5 DEF Lasting, Course, Chained
  <2> QED
    BY <1>1, <1>2, <2>4, <2>5, <2>6 DEF Due
<1>9. CASE Wins(t)
  <2>1. v.del = t.child
    BY <1>1, <1>9
  <2>2. ASSUME NEW d \in Sas \ {t.new}, Working(s, d), d # t.child PROVE s[d].out # "INSTALLED"
    BY <1>1, <1>2, <1>4, <1>5, <1>8, <1>9, <2>2 DEF Lasting, Sole
  <2>3. Sole(s, v)
    BY <2>1, <2>2 DEF Sole
  <2> QED
    BY <1>7, <2>3
<1>10. CASE ~Wins(t)
  <2>1. v.del = t.new
    BY <1>1, <1>10
  <2>2. Sole(s, v)
    BY <1>1, <1>2, <1>5, <2>1 DEF Lasting, Sole
  <2> QED
    BY <1>7, <2>2
<1> QED
  BY <1>9, <1>10

LEMMA ObeysSole ==
    ASSUME NEW o, NEW t, NEW a, NEW r, NEW z, NEW b, NEW s, NEW v, NEW x, NEW y,
           Lasting(o, t, a, r, z, b), Obeys(o, t, a, z, b, s, v, x, y)
    PROVE  Worn(s) /\ Sole(s, v)
<1>1. z.del \in Sas /\ Working(o, z.del) /\ v.del = t.del /\ (t.sent \/ t = Idle)
  BY DEF Obeys
<1>2. t.del # z.del
  BY <1>1, IdleFacts, SasFacts DEF Lasting, Known, Informed, Working
<1>3. PICK moved \in BOOLEAN : Ceases(s, o, z.del, moved)
  <2>1. PICK m \in BOOLEAN : m <=> o[z.del].state = "REKEYED" \/ IsRedundant(t, z.del)
    BY DEF IsRedundant
  <2> QED
    BY <2>1 DEF Obeys, Ceases
<1>4. /\ ~Working(s, z.del)
      /\ \A d \in Sas : d # z.del =>
           /\ s[d].rekey = o[d].rekey /\ (Working(s, d) <=> Working(o, d))
           /\ s[d].out = o[d].out \/ (d = o[z.del].rekey /\ s[d].out = "INSTALLED")
  BY <1>3 DEF Ceases, Working, NoSa
<1>5. Worn(s)
  BY <1>4 DEF Lasting, Worn
<1>6. Sole(s, v)
  <2>1. ASSUME o[z.del].rekey \in Sas
        PROVE  \A c \in Sas : Working(o, c) /\ c # t.del /\ o[c].out = "INSTALLED" => c = z.del
    BY <1>1, <1>2, <2>1, SasFacts DEF Lasting, Worn, Sole
  <2>2. CASE o[z.del].rekey \in Sas
    BY <1>1, <1>4, <2>1, <2>2 DEF Sole
  <2>3. CASE o[z.del].rekey \notin Sas
    BY <1>1, <1>4, <2>3 DEF Lasting, Sole
  <2> QED
    BY <2>2, <2>3
<1> QED
  BY <1>5, <1>6

LEMMA CompletesSole ==
    ASSUME NEW o, NEW t, NEW a, NEW r, NEW z, NEW b, NEW s, NEW v, NEW x, NEW y,
           Lasting(o, t, a, r, z, b), Completes(o, t, a, b, s, v, x, y)
    PROVE  Worn(s) /\ Sole(s, v)
<1>1. t.del \in Sas /\ v = Idle /\ Ceases(s, o, t.del, t.rekeyed /\ ~IsRedundant(t, o[t.del].rekey))
  BY DEF Completes
<1>2. o[t.del].rekey = None \/ IsRedundant(t, o[t.del].rekey)
  BY <1>1, LastingHeir
<1>3. /\ ~Working(s, t.del)
      /\ \A d \in Sas : d # t.del =>
           s[d].rekey = o[d].rekey /\ (Working(s, d) <=> Working(o, d)) /\ s[d].out = o[d].out
  BY <1>1, <1>2, SasFacts DEF Ceases, Working, NoSa
<1>4. Worn(s)
  BY <1>1, <1>3 DEF Lasting, Worn
<1>5. Sole(s, v)
  BY <1>1, <1>3 DEF Lasting, Sole
<1> QED
  BY <1>4, <1>5

\* The other steps put nothing to use and delete nothing.
LEMMA DeedSole ==
    ASSUME NEW o, NEW t, NEW a, NEW r, NEW z, NEW b, NEW s, NEW v, NEW x, NEW y,
           Lasting(o, t, a, r, z, b), Deed(o, t, a, z, b, s, v, x, y)
    PROVE  Worn(s) /\ Sole(s, v)
<1>0. /\ Idle.del = None /\ EmptyTask.del = None /\ None \notin Sas
      /\ Informed(o, t) /\ Worn(o) /\ Sole(o, t)
  BY IdleFacts, EmptyFacts, SasFacts DEF Lasting, Known
<1>1. CASE Rests(o, t, a, b, s, v, x, y)
  BY <1>0, <1>1 DEF Rests
<1>2. CASE Quits(o, t, a, b, s, v, x, y)
  BY <1>0, <1>2 DEF Quits, Writes, Worn, Sole, Working, NoSa
<1>3. CASE AsksRekey(o, t, a, b, s, v, x, y)
  BY <1>0, <1>3 DEF AsksRekey, Puts, Worn, Sole, Working
<1>4. CASE AsksDelete(o, t, a, b, s, v, x, y)
  BY <1>0, <1>4 DEF AsksDelete, Puts, Worn, Sole, Working
<1>5. CASE Denies(o, t, a, z, b, s, v, x, y)
  BY <1>0, <1>5 DEF Denies
<1>6. CASE GivesUp(o, t, a, b, s, v, x, y)
  BY <1>0, <1>6 DEF GivesUp, Puts, Worn, Sole, Informed, Working
<1>7. CASE Retries(o, t, a, b, s, v, x, y)
  BY <1>0, <1>7 DEF Retries, Sole
<1> QED
  BY <1>1, <1>2, <1>3, <1>4, <1>5, <1>6, <1>7, AcceptsSole, SucceedsSole, ObeysSole, CompletesSole
     DEF Deed

SoleInv == Regular /\ Undeleted => \A p \in Peers : Worn(sa[p]) /\ Sole(sa[p], task[p])

\* What is kept for delayed packets is to be deleted later.
KeptInv == Tame => \A p \in Peers : \A c \in Sas : IsKept(sa[p], c) => c \in Todo(p)

LEMMA InitSole == Init => SoleInv /\ KeptInv
<1>1. SUFFICES ASSUME Init, NEW p \in Peers
               PROVE  Worn(sa[p]) /\ Sole(sa[p], task[p]) /\ \A c \in Sas : ~IsKept(sa[p], c)
  BY DEF SoleInv, KeptInv
<1>2. \A c \in Sas : sa[p][c] = IF c = 1 THEN InUse ELSE NoSa
  BY <1>1 DEF Init
<1>3. \A c \in Sas : /\ sa[p][c].state = IF c = 1 THEN "INSTALLED" ELSE "NONE"
                     /\ sa[p][c].rekey = None
  BY <1>2 DEF InUse, NewSa, NoSa
<1> QED
  BY <1>3 DEF Worn, Sole, Working, IsKept

LEMMA KeptNext == RekeyInv /\ Agreement /\ Plainly /\ KeptInv /\ [Next]_vars => KeptInv'
<1>1. SUFFICES ASSUME RekeyInv, Agreement, Plainly, KeptInv, [Next]_vars PROVE KeptInv'
  OBVIOUS
<1>2. ASSUME UNCHANGED vars PROVE KeptInv'
  BY <1>1, <1>2 DEF vars, KeptInv, Tame, Overtaking, IsKept, Todo
<1>3. ASSUME Next, Tame', NEW p \in Peers, NEW c \in Sas, IsKept(sa'[p], c) PROVE c \in Todo(p)'
  <2>1. scene' = scene
    BY <1>1, <1>3, NextActs, ActsGood DEF GoodStep, Moves
  <2>2. Tame
    BY <1>3, <2>1 DEF Tame, Overtaking
  <2>3. PICK u \in Peers : Advances(u)
    BY <1>1, <1>3, <2>2, NextAdvances DEF Plainly
  <2>4. CASE p = u
    BY <1>1, <1>3, <2>2, <2>3, <2>4 DEF KeptInv, Advances, Chores
  <2>5. CASE p = Other(u)
    <3>1. sa'[p] = sa[p] /\ Todo(p)' = Todo(p)
      BY <2>3, <2>5 DEF Advances, Todo
    <3> QED
      BY <1>1, <1>3, <2>2, <3>1 DEF KeptInv
  <2> QED
    BY <2>4, <2>5, PeersFacts
<1> QED
  BY <1>1, <1>2, <1>3 DEF KeptInv, IsKept

LEMMA SoleNext ==
    RekeyInv /\ Agreement /\ Plainly /\ CourseInv /\ BondInv /\ SettleInv /\ SoleInv /\ [Next]_vars => SoleInv'
<1>1. SUFFICES ASSUME RekeyInv, Agreement, Plainly, CourseInv, BondInv, SettleInv, SoleInv, [Next]_vars
               PROVE  SoleInv'
  OBVIOUS
<1>2. RekeyInv'
  BY <1>1, RekeyNext
<1>3. ASSUME UNCHANGED vars PROVE SoleInv'
  BY <1>1, <1>3 DEF vars, SoleInv, Regular, Undeleted
<1>4. ASSUME Next, Regular', Undeleted', NEW p \in Peers PROVE Worn(sa'[p]) /\ Sole(sa'[p], task'[p])
  <2>1. scene' = scene
    BY <1>1, <1>4, NextActs, ActsGood DEF GoodStep, Moves
  <2>2. Regular /\ Tame /\ Orderly
    BY <1>4, <2>1, RegularOrderly DEF Regular
  <2>3. PICK u \in Peers : Advances(u)
    BY <1>1, <1>4, <2>2, NextAdvances DEF Plainly
  <2>4. Undeleted
    BY <1>1, <1>2, <1>4, <2>2, <2>3, UndeletedBefore
  <2>5. CASE p = Other(u)
    BY <1>1, <1>4, <2>2, <2>3, <2>4, <2>5 DEF SoleInv, Advances
  <2>6. CASE p = u
    <3>1. PICK q \in Peers : q = Other(p) /\ Other(q) = p
      BY PeersFacts
    <3>2. PICK o, t, a, r, z, b, s, v, x, y :
            /\ o = sa[p] /\ t = task[p] /\ a = air[p] /\ r = sa[q] /\ z = task[q] /\ b = air[q]
            /\ s = sa'[p] /\ v = task'[p] /\ x = air'[p] /\ y = air'[q]
      OBVIOUS
    <3>3. Deed(o, t, a, z, b, s, v, x, y)
      BY <2>3, <2>6, <3>1, <3>2 DEF Advances
    <3>4. Known(o, t, a, r, z, b) /\ Known(r, z, b, o, t, a)
      BY <1>1, <2>2, <3>1, <3>2, AllKnownFacts DEF AllKnown
    <3>5. /\ Course(o, t, a, r, z, b)
          /\ t.kind \in {"NONE", "EMPTY", "REKEY"} /\ z.kind \in {"NONE", "EMPTY", "REKEY"}
      BY <1>1, <2>2, <2>4, <3>1, <3>2 DEF CourseInv, Held, Tidy
    <3>6. Bond(o, t, a, r, z, b) /\ Settle(o, t, a, r, z, b) /\ Worn(o) /\ Sole(o, t)
      BY <1>1, <2>2, <2>4, <3>1, <3>2 DEF BondInv, SettleInv, SoleInv
    <3>7. Lasting(o, t, a, r, z, b)
      BY <2>2, <3>4, <3>5, <3>6 DEF Lasting, Regular
    <3> QED
      BY <3>2, <3>3, <3>7, DeedSole
  <2> QED
    BY <2>3, <2>5, <2>6, PeersFacts
<1> QED
  BY <1>1, <1>3, <1>4 DEF SoleInv, Worn, Sole

\* Nothing is left to be done: every CHILD_SA is installed in both directions, at both peers.
LEMMA QuietFacts ==
    ASSUME RekeyInv, Agreement, Plainly, SettleInv, KeptInv, Regular, Quiet, NEW p \in Peers, NEW c \in Sas,
           sa[p][c].state # "NONE"
    PROVE  sa[p][c].state = "INSTALLED" /\ sa[p][c].out = "INSTALLED" /\ sa[Other(p)][c].state # "NONE"
<1>1. PICK q \in Peers : q = Other(p) /\ Other(q) = p
  BY PeersFacts
<1>2. PICK s, t, a, r, z, b : /\ s = sa[p] /\ t = task[p] /\ a = air[p]
                              /\ r = sa[q] /\ z = task[q] /\ b = air[q]
  OBVIOUS
<1>3. a = <<>> /\ b = <<>> /\ queue[p] = <<>> /\ <<"DELETE", c>> \notin jobs[p] /\ c # None
  BY <1>2, SasFacts DEF Quiet
<1>4. Tame /\ Known(s, t, a, r, z, b) /\ Known(r, z, b, s, t, a) /\ Settle(s, t, a, r, z, b)
  BY <1>1, <1>2, RegularOrderly, AllKnownFacts DEF AllKnown, SettleInv
<1>5. t = Idle /\ z = Idle
  BY <1>2, <1>4 DEF Quiet, Known, TaskOk
<1>6. DOMAIN <<>> = {}
  OBVIOUS
<1>7. ~OkIn(a) /\ ~OkIn(b)
  BY <1>3, <1>6 DEF OkIn, Replies
<1>8. c \notin Todo(p)
  BY <1>3, <1>6 DEF Todo, Undone
<1>9. Idle.kind = "NONE" /\ ~Idle.sent /\ Idle.del = None
  BY IdleFacts
<1>10. s[c].state # "DELETING"
  BY <1>2, <1>4, <1>5, <1>8, <1>9 DEF KeptInv, IsKept, Settle, Leaving, Deleting
<1>11. s[c].state # "REKEYING"
  BY <1>4, <1>5, <1>9 DEF Settle, Renewing
<1>12. \A d \in Sas : Working(s, d) => s[d].rekey = None
  BY <1>4, <1>5, <1>9 DEF Settle, Replacing
<1>13. s[c].state # "REKEYED"
  BY <1>3, <1>4, <1>5, <1>9, <1>12 DEF Settle, Dismissed, Working
<1>14. s[c].state = "INSTALLED" /\ s[c].out # "NONE"
  BY <1>2, <1>4, <1>10, <1>11, <1>13 DEF Known, Informed, SaMaps, SaRec
<1>15. s[c].out # "REGISTERED"
  BY <1>3, <1>4, <1>5, <1>9, <1>12, <1>14 DEF Settle, Successor, Working, Deleting
<1>16. s[c].out = "INSTALLED"
  BY <1>4, <1>14, <1>15 DEF Known, SaMaps, SaRec
<1>17. r[c].state # "NONE"
  BY <1>4, <1>5, <1>7, <1>9, <1>14 DEF Known, Shared, Working, Deleting
<1> QED
  BY <1>1, <1>2, <1>14, <1>16, <1>17

LEMMA ConvergedFacts ==
    RekeyInv /\ Agreement /\ Plainly /\ CourseInv /\ SettleInv /\ KeptInv /\ SoleInv => Converged
<1>1. SUFFICES ASSUME RekeyInv, Agreement, Plainly, CourseInv, SettleInv, KeptInv, SoleInv, Regular, Quiet,
                      NEW p \in Peers
               PROVE  /\ Live(p) = Live(Other(p))
                      /\ \A c \in Live(p) : sa[p][c].state = "INSTALLED" /\ sa[p][c].out = "INSTALLED"
                      /\ Undeleted => Cardinality(Live(p)) = 1
  BY DEF Converged
<1>2. PICK q \in Peers : q = Other(p) /\ Other(q) = p
  BY PeersFacts
<1>3. ASSUME NEW w \in Peers, NEW c \in Live(w)
      PROVE  /\ c \in Sas /\ sa[w][c].state = "INSTALLED" /\ sa[w][c].out = "INSTALLED"
             /\ sa[Other(w)][c].state # "NONE"
  <2>1. c \in Sas /\ sa[w][c].state # "NONE"
    BY <1>3 DEF Live, Exists
  <2> QED
    BY <1>1, <2>1, QuietFacts
<1>4. Live(p) = Live(q)
  BY <1>2, <1>3 DEF Live, Exists
<1>5. ASSUME Undeleted PROVE Cardinality(Live(p)) = 1
  <2>1. Serves(sa[p], task[p]) /\ Sole(sa[p], task[p])
    BY <1>1, <1>5 DEF CourseInv, Held, Course, SoleInv
  <2>2. task[p].del = None
    BY <1>1, LocalFacts, IdleFacts DEF Quiet, TaskOk
  <2>3. PICK c \in Sas : sa[p][c].out = "INSTALLED" /\ Working(sa[p], c)
    BY <2>1 DEF Serves
  <2>4. c \in Live(p)
    BY <2>3, SasFacts DEF Live, Exists, Working
  <2>5. ASSUME NEW d \in Live(p) PROVE d = c
    <3>1. d \in Sas /\ Working(sa[p], d) /\ sa[p][d].out = "INSTALLED"
      BY <1>3, <2>5 DEF Working
    <3> QED
      BY <2>1, <2>2, <2>3, <3>1, SasFacts DEF Sole
  <2>6. Live(p) = {c}
    BY <2>4, <2>5
  <2> QED
    BY <2>6, FS_Singleton
<1> QED
  BY <1>2, <1>3, <1>4, <1>5

\* When all exchanges and delayed deletions are over, both peers have the same CHILD_SAs,
\* installed in both directions, and just one if no user deleted any: whichever of two
\* colliding rekeyings or deletions comes first, handle_collision and is_redundant leave
\* the same successor on both sides (child_rekey.c: process_i, collide; child_delete.c:
\* process_payloads, destroy_and_reestablish).
THEOREM ConvergedTheorem == Spec => []Converged
<1>1. Init => /\ RekeyInv /\ Agreement /\ Plainly /\ AgedInv /\ CourseInv /\ BondInv /\ SettleInv
              /\ KeptInv /\ SoleInv
  BY InitRekey, InitAgreement, InitPlainly, InitCourse, InitBond, InitSettle, InitSole
<1>2. (RekeyInv /\ Agreement /\ Plainly /\ AgedInv /\ CourseInv /\ BondInv /\ SettleInv /\ KeptInv
       /\ SoleInv /\ [Next]_vars) =>
      /\ RekeyInv' /\ Agreement' /\ Plainly' /\ AgedInv' /\ CourseInv' /\ BondInv' /\ SettleInv'
      /\ KeptInv' /\ SoleInv'
  BY RekeyNext, AgreementNext, PlainlyNext, AgedNext, CourseNext, BondNext, SettleNext, KeptNext,
     SoleNext
<1> QED
  BY <1>1, <1>2, ConvergedFacts, PTL DEF Spec
=============================================================================
