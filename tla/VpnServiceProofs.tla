-------------------------- MODULE VpnServiceProofs --------------------------
(***************************************************************************)
(* Proofs about the VPN service, for any number of profiles, instances,    *)
(* requests and reports: the types, that there is one charon at a time,    *)
(* that no report is shown for a connection it does not belong to, and     *)
(* that at rest the last request is the one that was carried out and what  *)
(* VpnStateService shows is true.                                          *)
(***************************************************************************)
EXTENDS VpnServiceProps, SequenceTheorems, TLAPS

-----------------------------------------------------------------------------
(* Types.                                                                  *)

\* Appending one message, as Post does.
LEMMA ConcatOne ==
    ASSUME NEW S, NEW q \in Seq(S), NEW m \in S
    PROVE  q \o <<m>> = Append(q, m)
  BY AppendIsConcat

\* Appending two messages, as a failed initialisation does.
LEMMA ConcatTwo ==
    ASSUME NEW S, NEW q \in Seq(S), NEW a \in S, NEW b \in S
    PROVE  q \o <<a, b>> = Append(Append(q, a), b)
  <1>1. /\ q \o <<a, b>> \in Seq(S)
        /\ Len(q \o <<a, b>>) = Len(q) + 2
        /\ \A k \in 1..Len(q) + 2 : (q \o <<a, b>>)[k] =
               IF k <= Len(q) THEN q[k] ELSE <<a, b>>[k - Len(q)]
    <2>1. <<a, b>> \in Seq(S) /\ Len(<<a, b>>) = 2
      OBVIOUS
    <2> QED BY <2>1, ConcatProperties
  <1>2. /\ Append(Append(q, a), b) \in Seq(S)
        /\ Len(Append(Append(q, a), b)) = Len(q) + 2
        /\ \A k \in 1..Len(q) + 2 : Append(Append(q, a), b)[k] =
               IF k <= Len(q) THEN q[k] ELSE IF k = Len(q) + 1 THEN a ELSE b
    OBVIOUS
  <1>3. \A k \in 1..Len(q) + 2 : (q \o <<a, b>>)[k] = Append(Append(q, a), b)[k]
    <2> TAKE k \in 1..Len(q) + 2
    <2>1. k <= Len(q) \/ k = Len(q) + 1 \/ k = Len(q) + 2
      OBVIOUS
    <2>2. CASE k <= Len(q)
      BY <1>1, <1>2, <2>2
    <2>3. CASE k = Len(q) + 1
      BY <1>1, <1>2, <2>3
    <2>4. CASE k = Len(q) + 2
      BY <1>1, <1>2, <2>4
    <2> QED BY <2>1, <2>2, <2>3, <2>4
  <1> QED BY <1>1, <1>2, <1>3, SeqEqual

\* What a call of charon posts.
LEMMA ReportedType ==
    ASSUME NEW ev \in AllEvents, NEW c \in Nat
    PROVE  Reported(ev, c) \in Seq(Msgs)
  <1>1. Msg("state", "CONNECTED", c) \in Msgs
    BY DEF Msg, Msgs, States
  <1>2. Msg("state", "CONNECTING", c) \in Msgs
    BY DEF Msg, Msgs, States
  <1>3. Msg("error", "AUTH_FAILED", c) \in Msgs
    BY DEF Msg, Msgs, Errors
  <1>4. Msg("imc", "BLOCK", c) \in Msgs
    BY DEF Msg, Msgs, ImcStates
  <1>5. Msg("imc", "UNKNOWN", c) \in Msgs
    BY DEF Msg, Msgs, ImcStates
  <1>6. Msg("instr", None, c) \in Msgs
    BY DEF Msg, Msgs
  <1> HIDE DEF Msgs, Msg
  <1> QED BY <1>1, <1>2, <1>3, <1>4, <1>5, <1>6 DEF Reported, AllEvents

\* Posting keeps the type of the queue.
LEMMA PostType ==
    ASSUME TypeOK, NEW i \in Instances, NEW msgs \in Seq(Msgs), Post(i, msgs)
    PROVE  queue' \in Seq(Msgs)
  BY ConcatProperties DEF TypeOK, Post

-----------------------------------------------------------------------------
(* The threads.                                                            *)

\* Where the handler thread of an instance is says what the instance keeps,
\* and whether charon runs for it. Instances that are gone, or not yet there,
\* have no active handler thread.
HandlerInv ==
    \A i \in Instances :
        /\ (~alive \/ i # cur) => h[i] \in {"unstarted", "ended"}
        /\ h[i] # "unstarted" => svc[i].bound
        /\ h[i] \in {"unstarted", "next", "ended"} => svc[i].mCurrentProfile = None
        /\ h[i] \in {"started", "init", "flag", "flush", "stop"} =>
               svc[i].mCurrentProfile # None
        /\ svc[i].mCurrentProfile # None =>
               svc[i].mCurrentCertificateAlias = svc[i].mCurrentProfile
        /\ h[i] \in {"next", "started", "init"} => daemon = NoDaemon
        /\ h[i] \in {"check", "wait", "flag", "flush", "stop"}
               /\ svc[i].mCurrentProfile # None =>
                  daemon = [svc |-> i, profile |-> svc[i].mCurrentProfile]

\* charon runs for the current profile of an instance whose handler thread is
\* there, and only then do its threads call.
DaemonInv ==
    /\ daemon # NoDaemon =>
           /\ h[daemon.svc] \in {"check", "wait", "flag", "flush", "stop"}
           /\ svc[daemon.svc].mCurrentProfile = daemon.profile
    /\ rep # NoCall =>
           /\ daemon # NoDaemon
           /\ rep.svc = daemon.svc
           /\ rep.conn = conn

ThreadInv == TypeOK /\ HandlerInv /\ DaemonInv

LEMMA ThreadInit == Init => ThreadInv
  <1> SUFFICES ASSUME Init PROVE ThreadInv
    OBVIOUS
  <1>1. TypeOK
    <2>1. svc \in [Instances -> Services]
      BY DEF Init, NewService, Services, Wishes
    <2>2. h \in [Instances -> Controls]
      BY DEF Init, Controls
    <2>3. cur \in 0..MaxInstances /\ requests \in 0..MaxRequests /\ reports \in 0..MaxReports
      BY ConstantsAssumption DEF Init
    <2>4. queue \in Seq(Msgs)
      BY EmptySeq DEF Init
    <2>5. state \in [mConnectionID : Nat, mProfile : Wishes, mState : States,
                     mError : Errors, mImcState : ImcStates,
                     mRemediationInstructions : SUBSET Nat]
      BY DEF Init, NewState, Wishes, States, Errors, ImcStates
    <2> QED BY <2>1, <2>2, <2>3, <2>4, <2>5 DEF Init, TypeOK, Loop, Wishes
  <1>2. HandlerInv /\ DaemonInv
    BY DEF Init, HandlerInv, DaemonInv, NewService
  <1> QED BY <1>1, <1>2 DEF ThreadInv

\* Delivering a message keeps the types: each kind of message carries a value
\* of the field it sets.
LEMMA DeliverType == TypeOK /\ Deliver => TypeOK'
  <1> SUFFICES ASSUME TypeOK, Deliver PROVE TypeOK'
    OBVIOUS
  <1>1. Head(queue) \in Msgs /\ queue' \in Seq(Msgs)
    BY HeadTailProperties DEF TypeOK, Deliver
  <1>2. /\ state' \in [mConnectionID : Nat, mProfile : Wishes, mState : States,
                       mError : Errors, mImcState : ImcStates,
                       mRemediationInstructions : SUBSET Nat]
        /\ widget' \in BOOLEAN
    <2> DEFINE m == Head(queue)
    <2>1. CASE m.kind = "start" /\ ApplyStart(m)
      <3>1. m.val \in Wishes
        BY <1>1, <2>1 DEF Msgs, Wishes
      <3> HIDE DEF m
      <3>2. state.mConnectionID + 1 \in Nat /\ widget \in BOOLEAN
        BY DEF TypeOK
      <3>3. NewState \in [mConnectionID : Nat, mProfile : Wishes, mState : States,
                          mError : Errors, mImcState : ImcStates,
                          mRemediationInstructions : SUBSET Nat]
        BY DEF NewState, States, Errors, ImcStates, Wishes
      <3>4. "CONNECTING" \in States
        BY DEF States
      <3> QED BY <2>1, <3>1, <3>2, <3>3, <3>4 DEF ApplyStart
    <2>2. CASE m.kind = "state" /\ ApplyState(m)
      <3>1. m.val \in States
        BY <1>1, <2>2 DEF Msgs
      <3> HIDE DEF m
      <3> QED BY <2>2, <3>1 DEF ApplyState, TypeOK
    <2>3. CASE m.kind = "error" /\ ApplyError(m)
      <3>1. m.val \in Errors
        BY <1>1, <2>3 DEF Msgs
      <3> HIDE DEF m
      <3> QED BY <2>3, <3>1 DEF ApplyError, TypeOK
    <2>4. CASE m.kind = "imc" /\ ApplyImc(m)
      <3>1. m.val \in ImcStates
        BY <1>1, <2>4 DEF Msgs
      <3> HIDE DEF m
      <3> QED BY <2>4, <3>1 DEF ApplyImc, TypeOK
    <2>5. CASE m.kind = "instr" /\ ApplyInstr(m)
      <3>1. m.conn \in Nat
        BY <1>1, <2>5 DEF Msgs
      <3> HIDE DEF m
      <3> QED BY <2>5, <3>1 DEF ApplyInstr, TypeOK
    <2> QED BY <2>1, <2>2, <2>3, <2>4, <2>5 DEF Deliver
  <1> QED BY <1>1, <1>2 DEF TypeOK, Deliver, mainVars, bounds

\* Setting a field of a service keeps its type.
LEMMA ServiceFields ==
    ASSUME NEW r \in Services
    PROVE  /\ \A x \in Wishes : [r EXCEPT !.mNextProfile = x] \in Services
           /\ \A x \in Wishes : [r EXCEPT !.mCurrentProfile = x] \in Services
           /\ \A x \in Wishes : [r EXCEPT !.mCurrentCertificateAlias = x] \in Services
           /\ \A x \in BOOLEAN : [r EXCEPT !.mProfileUpdated = x] \in Services
           /\ \A x \in BOOLEAN : [r EXCEPT !.mTerminate = x] \in Services
           /\ \A x \in BOOLEAN : [r EXCEPT !.mIsDisconnecting = x] \in Services
           /\ \A x \in BOOLEAN : [r EXCEPT !.bound = x] \in Services
  <1>1. /\ \A x \in Wishes : [r EXCEPT !.mNextProfile = x] \in Services
        /\ \A x \in Wishes : [r EXCEPT !.mCurrentProfile = x] \in Services
        /\ \A x \in Wishes : [r EXCEPT !.mCurrentCertificateAlias = x] \in Services
    BY DEF Services
  <1>2. /\ \A x \in BOOLEAN : [r EXCEPT !.mProfileUpdated = x] \in Services
        /\ \A x \in BOOLEAN : [r EXCEPT !.mTerminate = x] \in Services
    BY Zenon DEF Services
  <1>3. /\ \A x \in BOOLEAN : [r EXCEPT !.mIsDisconnecting = x] \in Services
        /\ \A x \in BOOLEAN : [r EXCEPT !.bound = x] \in Services
    BY Zenon DEF Services
  <1> QED BY <1>1, <1>2, <1>3

\* Requests and the other callbacks of the service keep the types.
LEMMA CallbackType ==
    ASSUME TypeOK,
           \/ OnCreate \/ OnServiceConnected \/ OnDestroy \/ MainSetsNext
           \/ HandlerJoined \/ OnRevoke
           \/ \E p \in Profiles \cup {None}, t \in BOOLEAN : OnStartCommand(p, t)
    PROVE  TypeOK'
  <1> USE DEF TypeOK, mainVars, shown, bounds
  <1>0. alive => cur \in Instances
    BY ConstantsAssumption DEF Instances
  <1>1. CASE OnCreate
    BY <1>1, ConstantsAssumption DEF OnCreate
  <1>2. CASE OnServiceConnected
    BY <1>2, <1>0 DEF OnServiceConnected, Services, Controls
  <1>3. CASE OnDestroy
    <2>1. svc' = [svc EXCEPT ![cur] = [svc[cur] EXCEPT !.mTerminate = TRUE]]
      BY <1>3 DEF OnDestroy
    <2>2. [svc[cur] EXCEPT !.mTerminate = TRUE] \in Services
      BY <1>3, <1>0, ServiceFields DEF OnDestroy
    <2>3. svc' \in [Instances -> Services]
      BY <2>1, <2>2
    <2> QED BY <1>3, <2>3 DEF OnDestroy, Wishes
  <1>4. ASSUME NEW p \in Wishes, SetNextProfile(cur, p), alive
        PROVE  svc' \in [Instances -> Services] /\ h' \in [Instances -> Controls] /\ wish' \in Wishes
    <2> DEFINE new == [svc[cur] EXCEPT !.mNextProfile = p, !.mProfileUpdated = TRUE]
    <2>1. svc' = [svc EXCEPT ![cur] = new]
      BY <1>4 DEF SetNextProfile
    <2>2. new \in Services
      <3>1. [svc[cur] EXCEPT !.mNextProfile = p] \in Services
        BY <1>4, <1>0, ServiceFields
      <3> QED BY <3>1, ServiceFields
    <2>3. Notified(cur) \in Controls
      BY <1>4, <1>0 DEF Notified, Controls
    <2> HIDE DEF new
    <2>4. svc' \in [Instances -> Services]
      BY <2>1, <2>2
    <2> QED BY <1>4, <2>3, <2>4 DEF SetNextProfile
  <1>5. CASE MainSetsNext
    BY <1>5, <1>4 DEF MainSetsNext, Wishes
  <1>6. CASE HandlerJoined
    BY <1>6 DEF HandlerJoined, Loop, Wishes
  <1>7. CASE OnRevoke
    BY <1>7, <1>4, ConstantsAssumption DEF OnRevoke, Wishes
  <1>8. ASSUME NEW p \in Profiles \cup {None}, NEW t \in BOOLEAN, OnStartCommand(p, t)
        PROVE  TypeOK'
    BY <1>8, ConstantsAssumption DEF OnStartCommand, Wanted, Wishes
  <1> QED BY <1>1, <1>2, <1>3, <1>5, <1>6, <1>7, <1>8

\* The messages the handler thread posts itself.
LEMMA HandlerMsgs ==
    ASSUME NEW c \in Nat
    PROVE  /\ \A x \in States : <<Msg("state", x, c)>> \in Seq(Msgs)
           /\ \A p \in Profiles : <<Msg("start", p, c)>> \in Seq(Msgs)
           /\ <<Msg("error", "GENERIC_ERROR", c), Msg("state", "DISABLED", c)>> \in Seq(Msgs)
  <1>1. /\ \A x \in States : Msg("state", x, c) \in Msgs
        /\ \A p \in Profiles : Msg("start", p, c) \in Msgs
        /\ Msg("error", "GENERIC_ERROR", c) \in Msgs
        /\ "DISABLED" \in States
    BY DEF Msg, Msgs, Errors, States
  <1> QED BY <1>1

\* The handler thread keeps the types. That charon is initialised for a profile
\* needs HandlerInv.
LEMMA HandlerType ==
    ASSUME TypeOK, HandlerInv, NEW i \in Instances, HandlerStep(i)
    PROVE  TypeOK'
  <1> USE DEF TypeOK, mainVars, shown, bounds
  <1>0. svc[i] \in Services /\ conn \in Nat /\ conn + 1 \in Nat /\ None \in Wishes
    BY DEF Wishes
  <1>1. CASE Check(i)
    <2>1. svc' \in [Instances -> Services]
      BY <1>1, <1>0, ServiceFields DEF Check
    <2>2. h' \in [Instances -> Controls]
      BY <1>1 DEF Check, Controls
    <2>3. queue' \in Seq(Msgs)
      <3>1. <<Msg("state", "DISCONNECTING", conn)>> \in Seq(Msgs)
        BY <1>0, HandlerMsgs DEF States
      <3> QED BY <3>1, <1>1, PostType DEF Check
    <2> QED BY <1>1, <2>1, <2>2, <2>3 DEF Check
  <1>2. CASE SetDisconnecting(i)
    <2>1. svc' \in [Instances -> Services]
      BY <1>2, <1>0, ServiceFields DEF SetDisconnecting
    <2> QED BY <1>2, <2>1 DEF SetDisconnecting, Controls
  <1>3. CASE FlushReports(i)
    <2>1. PICK ev \in {"down", "error"} :
              Post(i, IF Dropped(i, ev) THEN <<>> ELSE Reported(ev, conn))
      BY <1>3 DEF FlushReports
    <2>2. Reported(ev, conn) \in Seq(Msgs) /\ <<>> \in Seq(Msgs)
      BY <1>0, ReportedType, EmptySeq DEF AllEvents
    <2>3. queue' \in Seq(Msgs)
      BY <2>1, <2>2, PostType
    <2> QED BY <1>3, <2>3 DEF FlushReports, Controls
  <1>4. CASE DeinitializeCharon(i)
    <2>1. svc' \in [Instances -> Services]
      BY <1>4, <1>0, ServiceFields DEF DeinitializeCharon
    <2> QED BY <1>4, <2>1 DEF DeinitializeCharon, Controls
  <1>5. CASE Disable(i)
    <2>1. queue' \in Seq(Msgs)
      <3>1. <<Msg("state", "DISABLED", conn)>> \in Seq(Msgs)
        BY <1>0, HandlerMsgs DEF States
      <3> QED BY <1>5, <3>1, PostType DEF Disable
    <2> QED BY <1>5, <2>1 DEF Disable, Controls
  <1>6. CASE StartConnection(i)
    <2> DEFINE p == svc[i].mNextProfile
    <2>1. p \in Profiles /\ p \in Wishes
      BY <1>6, <1>0 DEF StartConnection, HasNext, Services, Wishes
    <2>2. svc' \in [Instances -> Services]
      <3> DEFINE r1 == [svc[i] EXCEPT !.mCurrentProfile = p]
                 r2 == [r1 EXCEPT !.mCurrentCertificateAlias = p]
                 r3 == [r2 EXCEPT !.mNextProfile = None]
      <3>0. svc' = [svc EXCEPT ![i] = r3]
        BY <1>6 DEF StartConnection
      <3>1. r1 \in Services
        BY <1>0, <2>1, ServiceFields
      <3>2. r2 \in Services
        <4> HIDE DEF r1, p
        <4> QED BY <3>1, <2>1, ServiceFields
      <3>3. r3 \in Services
        <4> HIDE DEF r2
        <4> QED BY <3>2, <1>0, ServiceFields
      <3> HIDE DEF r3
      <3> QED BY <3>0, <3>3
    <2>3. queue' \in Seq(Msgs)
      <3>1. <<Msg("start", p, conn + 1)>> \in Seq(Msgs)
        BY <1>0, <2>1, HandlerMsgs
      <3> QED BY <1>6, <3>1, PostType DEF StartConnection
    <2> QED BY <1>6, <1>0, <2>2, <2>3, ConstantsAssumption DEF StartConnection, Controls
  <1>7. CASE ResetDisconnecting(i)
    <2>1. svc' \in [Instances -> Services]
      BY <1>7, <1>0, ServiceFields DEF ResetDisconnecting
    <2> QED BY <1>7, <2>1 DEF ResetDisconnecting, Controls
  <1>8. CASE InitializeCharon(i)
    <2>1. svc[i].mCurrentProfile \in Profiles
      BY <1>8, <1>0 DEF InitializeCharon, HandlerInv, Services, Wishes
    <2> QED BY <1>8, <2>1 DEF InitializeCharon, Controls
  <1>9. CASE InitializeFails(i)
    <2>1. svc' \in [Instances -> Services]
      BY <1>9, <1>0, ServiceFields DEF InitializeFails
    <2>2. queue' \in Seq(Msgs)
      BY <1>9, <1>0, HandlerMsgs, PostType DEF InitializeFails
    <2> QED BY <1>9, <2>1, <2>2 DEF InitializeFails, Controls
  <1> QED BY <1>1, <1>2, <1>3, <1>4, <1>5, <1>6, <1>7, <1>8, <1>9 DEF HandlerStep

\* charon's calls keep the types.
LEMMA CallType ==
    ASSUME TypeOK, (\E ev \in Events : Call(ev)) \/ ReportPosted \/ GetTrustedCertificates
    PROVE  TypeOK'
  <1> USE DEF TypeOK, mainVars, shown, bounds
  <1>1. ASSUME NEW ev \in Events, Call(ev) PROVE TypeOK'
    <2>1. daemon.svc \in Instances
      BY <1>1 DEF Call
    <2>2. svc[daemon.svc].mIsDisconnecting \in BOOLEAN
      BY <2>1 DEF Services
    <2>3. rep' \in [svc : Instances, conn : Nat, ev : AllEvents, skip : BOOLEAN]
      BY <1>1, <2>1, <2>2, ConstantsAssumption DEF Call, Dropped
    <2>4. link' \in [up : BOOLEAN, failed : BOOLEAN]
      BY <1>1 DEF Call
    <2> QED BY <1>1, <2>3, <2>4, ConstantsAssumption DEF Call
  <1>2. CASE ReportPosted
    <2>1. rep.svc \in Instances /\ rep.conn \in Nat /\ rep.ev \in AllEvents
      BY <1>2 DEF ReportPosted, NoCall, AllEvents
    <2>2. Reported(rep.ev, rep.conn) \in Seq(Msgs) /\ <<>> \in Seq(Msgs)
      BY <2>1, ReportedType, EmptySeq
    <2>3. queue' \in Seq(Msgs)
      BY <1>2, <2>1, <2>2, PostType DEF ReportPosted
    <2> QED BY <1>2, <2>3 DEF ReportPosted
  <1>3. CASE GetTrustedCertificates
    BY <1>3 DEF GetTrustedCertificates
  <1> QED BY <1>1, <1>2, <1>3

LEMMA TypeStep == TypeOK /\ HandlerInv /\ [Next]_vars => TypeOK'
  <1> SUFFICES ASSUME TypeOK, HandlerInv, [Next]_vars PROVE TypeOK'
    OBVIOUS
  <1>1. CASE UNCHANGED vars
    BY <1>1 DEF vars, TypeOK
  <1>2. CASE Next
    BY <1>2, DeliverType, CallbackType, HandlerType, CallType DEF Next
  <1> QED BY <1>1, <1>2

-----------------------------------------------------------------------------
(* Threads and charon.                                                     *)

\* Callbacks leave the handler thread where it is, except that they start it
\* or wake it up, and keep the profile charon runs for.
LEMMA CallbackThreads ==
    ASSUME ThreadInv,
           \/ Deliver \/ OnCreate \/ OnServiceConnected \/ OnDestroy
           \/ MainSetsNext \/ HandlerJoined \/ OnRevoke
           \/ \E p \in Profiles \cup {None}, t \in BOOLEAN : OnStartCommand(p, t)
    PROVE  HandlerInv' /\ DaemonInv'
  <1> USE DEF ThreadInv, HandlerInv, DaemonInv, mainVars, shown, bounds
  <1>0. /\ alive => cur \in Instances
        /\ svc \in [Instances -> Services] /\ h \in [Instances -> Controls]
        /\ daemon # NoDaemon => daemon.svc \in Instances
        /\ main.pc # "loop" => alive
    BY ConstantsAssumption DEF TypeOK, Instances
  <1>1. CASE Deliver
    BY <1>1 DEF Deliver
  <1>2. CASE OnCreate
    BY <1>2 DEF OnCreate
  <1>3. CASE OnServiceConnected
    BY <1>3, <1>0 DEF OnServiceConnected, Services
  <1>4. CASE OnDestroy
    BY <1>4, <1>0 DEF OnDestroy, Services
  <1>5. ASSUME NEW p, SetNextProfile(cur, p), alive,
               UNCHANGED <<cur, alive, daemon, rep, conn>>
        PROVE  HandlerInv' /\ DaemonInv'
    BY <1>5, <1>0 DEF SetNextProfile, MonitorFree, Notified, Services
  <1>6. CASE MainSetsNext
    BY <1>6, <1>5, <1>0 DEF MainSetsNext
  <1>7. CASE HandlerJoined
    BY <1>7 DEF HandlerJoined, HandlerGone
  <1>8. CASE OnRevoke
    BY <1>8, <1>5 DEF OnRevoke
  <1>9. ASSUME NEW p \in Profiles \cup {None}, NEW t \in BOOLEAN, OnStartCommand(p, t)
        PROVE  HandlerInv' /\ DaemonInv'
    BY <1>9 DEF OnStartCommand
  <1> QED BY <1>1, <1>2, <1>3, <1>4, <1>6, <1>7, <1>8, <1>9

\* The handler thread starts and stops charon in turn. It is the only active
\* one, as onDestroy waits for the thread of the previous instance.
LEMMA HandlerThreads ==
    ASSUME ThreadInv, NEW i \in Instances, HandlerStep(i)
    PROVE  HandlerInv' /\ DaemonInv'
  <1> USE DEF ThreadInv, HandlerInv, DaemonInv, mainVars, shown, bounds
  <1>0. /\ svc \in [Instances -> Services] /\ h \in [Instances -> Controls]
        /\ daemon # NoDaemon => daemon.svc \in Instances /\ daemon.profile \in Profiles
        /\ None \notin Profiles
    BY ConstantsAssumption DEF TypeOK
  <1>00. NoDaemon.svc \notin Instances
    BY ConstantsAssumption DEF NoDaemon, Instances
  <1>a. h[i] \notin {"unstarted", "ended"} => alive /\ i = cur
    OBVIOUS
  <1>1. CASE Check(i)
    BY <1>1, <1>0, <1>00, <1>a DEF Check, Services
  <1>2. CASE SetDisconnecting(i)
    BY <1>2, <1>0, <1>00, <1>a DEF SetDisconnecting, Services
  <1>3. CASE FlushReports(i)
    BY <1>3, <1>0, <1>00, <1>a DEF FlushReports
  <1>4. CASE DeinitializeCharon(i)
    BY <1>4, <1>0, <1>00, <1>a DEF DeinitializeCharon, ThreadsGone, Services
  <1>5. CASE Disable(i)
    BY <1>5, <1>0, <1>00, <1>a DEF Disable
  <1>6. CASE StartConnection(i)
    BY <1>6, <1>0, <1>00, <1>a DEF StartConnection, HasNext, Services
  <1>7. CASE ResetDisconnecting(i)
    BY <1>7, <1>0, <1>00, <1>a DEF ResetDisconnecting, Services
  <1>8. CASE InitializeCharon(i)
    BY <1>8, <1>0, <1>00, <1>a DEF InitializeCharon
  <1>9. CASE InitializeFails(i)
    BY <1>9, <1>0, <1>00, <1>a DEF InitializeFails, Services
  <1> QED BY <1>1, <1>2, <1>3, <1>4, <1>5, <1>6, <1>7, <1>8, <1>9 DEF HandlerStep

\* charon's calls belong to the connection that is up.
LEMMA CallThreads ==
    ASSUME ThreadInv, (\E ev \in Events : Call(ev)) \/ ReportPosted \/ GetTrustedCertificates
    PROVE  HandlerInv' /\ DaemonInv'
  <1> USE DEF ThreadInv, HandlerInv, DaemonInv, mainVars, shown, bounds
  <1>1. ASSUME NEW ev \in Events, Call(ev) PROVE HandlerInv' /\ DaemonInv'
    BY <1>1 DEF Call
  <1>2. CASE ReportPosted
    BY <1>2 DEF ReportPosted
  <1>3. CASE GetTrustedCertificates
    BY <1>3 DEF GetTrustedCertificates
  <1> QED BY <1>1, <1>2, <1>3

LEMMA ThreadStep == ThreadInv /\ [Next]_vars => ThreadInv'
  <1> SUFFICES ASSUME ThreadInv, [Next]_vars PROVE ThreadInv'
    OBVIOUS
  <1>1. TypeOK'
    BY TypeStep DEF ThreadInv
  <1>2. CASE UNCHANGED vars
    BY <1>1, <1>2 DEF vars, ThreadInv, HandlerInv, DaemonInv
  <1>3. CASE Next
    BY <1>1, <1>3, CallbackThreads, HandlerThreads, CallThreads DEF Next, ThreadInv
  <1> QED BY <1>2, <1>3

\* The invariant of the threads holds in every reachable state.
THEOREM ThreadTheorem == Spec => []ThreadInv
  BY ThreadInit, ThreadStep, PTL DEF Spec

\* TypeOK holds in every reachable state, for any profiles and bounds.
THEOREM ServiceTypes == Spec => []TypeOK
  <1>1. ThreadInv => TypeOK
    BY DEF ThreadInv
  <1> QED BY ThreadTheorem, <1>1, PTL

\* charon is initialised once at a time, and stopped by the thread that
\* started it, however callbacks, instances and calls interleave.
THEOREM OneDaemonTheorem == Spec => []OneDaemon
  <1>1. ThreadInv => OneDaemon
    <2> SUFFICES ASSUME ThreadInv, NEW i \in Instances
                 PROVE  /\ h[i] \in {"next", "started", "init"} => daemon = NoDaemon
                        /\ h[i] \in {"flag", "flush", "stop"} => daemon.svc = i
                        /\ daemon.svc = i => svc[i].mCurrentCertificateAlias = daemon.profile
      BY DEF OneDaemon
    <2>1. daemon.svc = i => daemon # NoDaemon
      BY ConstantsAssumption DEF NoDaemon, Instances
    <2>2. daemon # NoDaemon => daemon.profile # None
      BY ConstantsAssumption DEF ThreadInv, TypeOK
    <2> QED BY <2>1, <2>2 DEF ThreadInv, HandlerInv, DaemonInv
  <1> QED BY ThreadTheorem, <1>1, PTL

-----------------------------------------------------------------------------
(* Reports and the connections they belong to.                             *)

\* The messages in q, for a main thread that shows connection id, when c
\* connections have been started: numbers do not decrease and grow with every
\* start, each start is of the connection after the one before it, and each
\* report is of the connection started last before it.
Bounded(q, id, c) ==
    \A k \in 1..Len(q) : /\ id <= q[k].conn /\ q[k].conn <= c
                         /\ q[k].kind = "start" => id < q[k].conn

Ordered(q) ==
    \A k \in 1..Len(q) : \A j \in 1..Len(q) : j < k =>
        /\ q[j].conn <= q[k].conn
        /\ q[k].kind = "start" => q[j].conn < q[k].conn

Anchored(q, id) ==
    \A k \in 1..Len(q) :
        IF q[k].kind = "start"
        THEN \/ q[k].conn = id + 1
             \/ \E j \in 1..Len(q) : j < k /\ q[j].kind = "start" /\ q[j].conn + 1 = q[k].conn
        ELSE \/ q[k].conn = id
             \/ \E j \in 1..Len(q) : j < k /\ q[j].kind = "start" /\ q[j].conn = q[k].conn

Latest(q, id, c) ==
    c = id \/ \E j \in 1..Len(q) : q[j].kind = "start" /\ q[j].conn = c

Fresh(q, id, c) ==
    /\ id <= c
    /\ Bounded(q, id, c)
    /\ Ordered(q)
    /\ Anchored(q, id)
    /\ Latest(q, id, c)

\* A report of the latest connection is appended.
LEMMA FreshReport ==
    ASSUME NEW q \in Seq(Msgs), NEW id \in Nat, NEW c \in Nat, NEW m \in Msgs,
           Fresh(q, id, c), m.kind # "start", m.conn = c
    PROVE  Fresh(Append(q, m), id, c)
  <1> DEFINE r == Append(q, m)
  <1>1. /\ Len(r) = Len(q) + 1 /\ Len(q) \in Nat
        /\ \A k \in 1..Len(q) : r[k] = q[k]
        /\ r[Len(q) + 1] = m
    BY AppendProperties, LenProperties
  <1>2. /\ m.conn \in Nat
        /\ \A k \in 1..Len(q) : q[k].conn \in Nat
    BY ElementOfSeq DEF Msgs
  <1> HIDE DEF r
  <1>3. Bounded(r, id, c)
    BY <1>1, <1>2 DEF Fresh, Bounded
  <1>4. Ordered(r)
    BY <1>1, <1>2 DEF Fresh, Bounded, Ordered
  <1>5. Anchored(r, id)
    <2> SUFFICES ASSUME NEW k \in 1..Len(r)
                 PROVE  IF r[k].kind = "start"
                        THEN \/ r[k].conn = id + 1
                             \/ \E j \in 1..Len(r) : j < k /\ r[j].kind = "start" /\ r[j].conn + 1 = r[k].conn
                        ELSE \/ r[k].conn = id
                             \/ \E j \in 1..Len(r) : j < k /\ r[j].kind = "start" /\ r[j].conn = r[k].conn
      BY DEF Anchored
    <2>1. CASE k = Len(q) + 1
      BY <1>1, <2>1 DEF Fresh, Latest
    <2>2. CASE k \in 1..Len(q)
      BY <1>1, <2>2 DEF Fresh, Anchored
    <2> QED BY <2>1, <2>2, <1>1
  <1>6. Latest(r, id, c)
    BY <1>1 DEF Fresh, Latest
  <1> QED BY <1>3, <1>4, <1>5, <1>6 DEF Fresh, r

\* The start of the next connection is appended.
LEMMA FreshStart ==
    ASSUME NEW q \in Seq(Msgs), NEW id \in Nat, NEW c \in Nat, NEW m \in Msgs,
           Fresh(q, id, c), m.kind = "start", m.conn = c + 1
    PROVE  Fresh(Append(q, m), id, c + 1)
  <1> DEFINE r == Append(q, m)
  <1>1. /\ Len(r) = Len(q) + 1 /\ Len(q) \in Nat
        /\ \A k \in 1..Len(q) : r[k] = q[k]
        /\ r[Len(q) + 1] = m
    BY AppendProperties, LenProperties
  <1>2. /\ m.conn \in Nat
        /\ \A k \in 1..Len(q) : q[k].conn \in Nat
    BY ElementOfSeq DEF Msgs
  <1> HIDE DEF r
  <1>3. Bounded(r, id, c + 1)
    BY <1>1, <1>2 DEF Fresh, Bounded
  <1>4. Ordered(r)
    <2> SUFFICES ASSUME NEW k \in 1..Len(r), NEW j \in 1..Len(r), j < k
                 PROVE  r[j].conn <= r[k].conn /\ (r[k].kind = "start" => r[j].conn < r[k].conn)
      BY DEF Ordered
    <2>1. CASE k = Len(q) + 1
      BY <1>1, <1>2, <2>1 DEF Fresh, Bounded
    <2>2. CASE k \in 1..Len(q)
      BY <1>1, <2>2 DEF Fresh, Ordered
    <2> QED BY <2>1, <2>2, <1>1
  <1>5. Anchored(r, id)
    <2> SUFFICES ASSUME NEW k \in 1..Len(r)
                 PROVE  IF r[k].kind = "start"
                        THEN \/ r[k].conn = id + 1
                             \/ \E j \in 1..Len(r) : j < k /\ r[j].kind = "start" /\ r[j].conn + 1 = r[k].conn
                        ELSE \/ r[k].conn = id
                             \/ \E j \in 1..Len(r) : j < k /\ r[j].kind = "start" /\ r[j].conn = r[k].conn
      BY DEF Anchored
    <2>1. CASE k = Len(q) + 1
      BY <1>1, <2>1 DEF Fresh, Latest
    <2>2. CASE k \in 1..Len(q)
      BY <1>1, <2>2 DEF Fresh, Anchored
    <2> QED BY <2>1, <2>2, <1>1
  <1>6. Latest(r, id, c + 1)
    BY <1>1 DEF Latest
  <1> QED BY <1>3, <1>4, <1>5, <1>6 DEF Fresh, r

\* Taking the first message away shifts the others.
LEMMA TailShift ==
    ASSUME NEW q \in Seq(Msgs), q # <<>>
    PROVE  /\ Len(q) \in Nat \ {0}
           /\ Len(Tail(q)) = Len(q) - 1
           /\ \A k \in 1..Len(q) - 1 : Tail(q)[k] = q[k + 1]
           /\ Head(q) = q[1]
           /\ \A k \in 1..Len(q) : q[k].conn \in Nat
  <1>1. \A k \in 1..Len(q) : q[k].conn \in Nat
    BY ElementOfSeq DEF Msgs
  <1>2. Len(q) \in Nat \ {0} /\ Head(q) = q[1]
    BY EmptySeq
  <1> QED BY <1>1, <1>2, HeadTailProperties

LEMMA OrderedTail ==
    ASSUME NEW q \in Seq(Msgs), q # <<>>, Ordered(q)
    PROVE  Ordered(Tail(q))
  <1> SUFFICES ASSUME NEW k \in 1..Len(Tail(q)), NEW j \in 1..Len(Tail(q)), j < k
               PROVE  /\ Tail(q)[j].conn <= Tail(q)[k].conn
                      /\ Tail(q)[k].kind = "start" => Tail(q)[j].conn < Tail(q)[k].conn
    BY DEF Ordered
  <1>1. /\ k + 1 \in 1..Len(q) /\ Tail(q)[k] = q[k + 1]
        /\ j + 1 \in 1..Len(q) /\ Tail(q)[j] = q[j + 1]
        /\ j + 1 < k + 1
    BY TailShift
  <1> QED BY <1>1 DEF Ordered

\* The main thread takes a report: it is of the connection shown.
LEMMA FreshTakeReport ==
    ASSUME NEW q \in Seq(Msgs), NEW id \in Nat, NEW c \in Nat,
           q # <<>>, Fresh(q, id, c), Head(q).kind # "start"
    PROVE  Head(q).conn = id /\ Fresh(Tail(q), id, c)
  <1> DEFINE r == Tail(q)
  <1>1. /\ Len(q) \in Nat \ {0} /\ Len(r) = Len(q) - 1
        /\ \A k \in 1..Len(q) - 1 : r[k] = q[k + 1]
        /\ Head(q) = q[1]
        /\ \A k \in 1..Len(q) : q[k].conn \in Nat
    BY TailShift
  <1> HIDE DEF r
  <1>2. q[1].conn = id
    BY <1>1 DEF Fresh, Anchored
  <1>3. Bounded(r, id, c)
    BY <1>1 DEF Fresh, Bounded
  <1>4. Ordered(r)
    BY OrderedTail DEF Fresh, r
  <1>5. ASSUME NEW j \in 1..Len(q), q[j].kind = "start"
        PROVE  j - 1 \in 1..Len(r) /\ r[j - 1] = q[j]
    BY <1>1, <1>5
  <1>6. Anchored(r, id)
    <2> SUFFICES ASSUME NEW k \in 1..Len(r)
                 PROVE  IF r[k].kind = "start"
                        THEN \/ r[k].conn = id + 1
                             \/ \E j \in 1..Len(r) : j < k /\ r[j].kind = "start" /\ r[j].conn + 1 = r[k].conn
                        ELSE \/ r[k].conn = id
                             \/ \E j \in 1..Len(r) : j < k /\ r[j].kind = "start" /\ r[j].conn = r[k].conn
      BY DEF Anchored
    <2>1. k + 1 \in 1..Len(q) /\ r[k] = q[k + 1]
      BY <1>1
    <2>2. ASSUME NEW j \in 1..Len(q), j < k + 1, q[j].kind = "start"
          PROVE  j - 1 \in 1..Len(r) /\ j - 1 < k /\ r[j - 1] = q[j]
      BY <1>1, <1>5, <2>2
    <2>3. CASE r[k].kind = "start"
      <3>1. \/ q[k + 1].conn = id + 1
            \/ \E j \in 1..Len(q) : j < k + 1 /\ q[j].kind = "start" /\ q[j].conn + 1 = q[k + 1].conn
        BY <2>1, <2>3 DEF Fresh, Anchored
      <3> QED BY <2>1, <2>2, <2>3, <3>1
    <2>4. CASE r[k].kind # "start"
      <3>1. \/ q[k + 1].conn = id
            \/ \E j \in 1..Len(q) : j < k + 1 /\ q[j].kind = "start" /\ q[j].conn = q[k + 1].conn
        BY <2>1, <2>4 DEF Fresh, Anchored
      <3> QED BY <2>1, <2>2, <2>4, <3>1
    <2> QED BY <2>3, <2>4
  <1>7. Latest(r, id, c)
    BY <1>5 DEF Fresh, Latest
  <1> QED BY <1>1, <1>2, <1>3, <1>4, <1>6, <1>7 DEF Fresh, r

\* The main thread takes a start: it is of the connection after the one shown.
LEMMA FreshTakeStart ==
    ASSUME NEW q \in Seq(Msgs), NEW id \in Nat, NEW c \in Nat,
           q # <<>>, Fresh(q, id, c), Head(q).kind = "start"
    PROVE  Fresh(Tail(q), id + 1, c)
  <1> DEFINE r == Tail(q)
  <1>1. /\ Len(q) \in Nat \ {0} /\ Len(r) = Len(q) - 1
        /\ \A k \in 1..Len(q) - 1 : r[k] = q[k + 1]
        /\ Head(q) = q[1]
        /\ \A k \in 1..Len(q) : q[k].conn \in Nat
    BY TailShift
  <1> HIDE DEF r
  <1>2. q[1].conn = id + 1 /\ id + 1 <= c
    BY <1>1 DEF Fresh, Anchored, Bounded
  <1>3. ASSUME NEW k \in 1..Len(r)
        PROVE  /\ k + 1 \in 1..Len(q) /\ r[k] = q[k + 1]
               /\ id + 1 <= r[k].conn /\ r[k].conn <= c
               /\ r[k].kind = "start" => id + 1 < r[k].conn
    <2>1. k + 1 \in 1..Len(q) /\ r[k] = q[k + 1] /\ 1 < k + 1 /\ 1 \in 1..Len(q)
      BY <1>1
    <2> QED BY <1>1, <1>2, <2>1 DEF Fresh, Bounded, Ordered
  <1>4. Bounded(r, id + 1, c)
    BY <1>3 DEF Bounded
  <1>5. Ordered(r)
    BY OrderedTail DEF Fresh, r
  <1>6. ASSUME NEW j \in 1..Len(q), j # 1
        PROVE  j - 1 \in 1..Len(r) /\ r[j - 1] = q[j]
    BY <1>1, <1>6
  <1>7. Anchored(r, id + 1)
    <2> SUFFICES ASSUME NEW k \in 1..Len(r)
                 PROVE  IF r[k].kind = "start"
                        THEN \/ r[k].conn = id + 1 + 1
                             \/ \E j \in 1..Len(r) : j < k /\ r[j].kind = "start" /\ r[j].conn + 1 = r[k].conn
                        ELSE \/ r[k].conn = id + 1
                             \/ \E j \in 1..Len(r) : j < k /\ r[j].kind = "start" /\ r[j].conn = r[k].conn
      BY DEF Anchored
    <2>1. k + 1 \in 1..Len(q) /\ r[k] = q[k + 1]
      BY <1>1
    <2>2. ASSUME NEW j \in 1..Len(q), j < k + 1, j # 1
          PROVE  j - 1 \in 1..Len(r) /\ j - 1 < k /\ r[j - 1] = q[j]
      BY <1>1, <1>6, <2>2
    <2>3. CASE r[k].kind = "start"
      <3>1. q[k + 1].conn # id + 1
        BY <1>1, <1>3, <2>1, <2>3
      <3>2. PICK j \in 1..Len(q) : j < k + 1 /\ q[j].kind = "start" /\ q[j].conn + 1 = q[k + 1].conn
        BY <2>1, <2>3, <3>1 DEF Fresh, Anchored
      <3>3. CASE j = 1
        BY <1>2, <2>1, <2>3, <3>2, <3>3
      <3>4. CASE j # 1
        BY <2>1, <2>2, <2>3, <3>2, <3>4
      <3> QED BY <3>3, <3>4
    <2>4. CASE r[k].kind # "start"
      <3>0. id + 1 <= q[k + 1].conn /\ q[k + 1].conn \in Nat
        BY <1>1, <1>3, <2>1
      <3>1. q[k + 1].conn # id
        BY <3>0
      <3>2. PICK j \in 1..Len(q) : j < k + 1 /\ q[j].kind = "start" /\ q[j].conn = q[k + 1].conn
        BY <2>1, <2>4, <3>1 DEF Fresh, Anchored
      <3>3. CASE j = 1
        BY <1>2, <2>1, <2>4, <3>2, <3>3
      <3>4. CASE j # 1
        BY <2>1, <2>2, <2>4, <3>2, <3>4
      <3> QED BY <3>3, <3>4
    <2> QED BY <2>3, <2>4
  <1>8. Latest(r, id + 1, c)
    <2>1. PICK j \in 1..Len(q) : q[j].kind = "start" /\ q[j].conn = c
      BY <1>2 DEF Fresh, Latest
    <2> QED BY <1>2, <1>6, <2>1 DEF Latest
  <1> QED BY <1>2, <1>4, <1>5, <1>7, <1>8 DEF Fresh, r

\* The queue is fresh with respect to the connection shown, and the
\* instructions listed are of that connection.
ReportInv ==
    /\ Fresh(queue, state.mConnectionID, conn)
    /\ state.mRemediationInstructions \subseteq {state.mConnectionID}

LEMMA ReportInit == Init => ReportInv
  BY DEF Init, ReportInv, NewState, Fresh, Bounded, Ordered, Anchored, Latest

\* What a call of charon posts for a connection is a report of it.
LEMMA ReportedFresh ==
    ASSUME TypeOK, ReportInv, NEW i \in Instances, NEW ev \in AllEvents,
           NEW skip \in BOOLEAN,
           Post(i, IF skip THEN <<>> ELSE Reported(ev, conn)),
           UNCHANGED <<state, conn>>
    PROVE  ReportInv'
  <1> DEFINE ms == IF skip THEN <<>> ELSE Reported(ev, conn)
             id == state.mConnectionID
  <1>1. queue \in Seq(Msgs) /\ conn \in Nat /\ id \in Nat
    BY DEF TypeOK
  <1>2. ms = <<>> \/ \E m \in Msgs : ms = <<m>> /\ m.kind # "start" /\ m.conn = conn
    <2> DEFINE ok(m) == m \in Msgs /\ m.kind # "start" /\ m.conn = conn
    <2>1. ok(Msg("state", "CONNECTED", conn)) /\ ok(Msg("state", "CONNECTING", conn))
      BY <1>1 DEF Msg, Msgs, States
    <2>2. ok(Msg("error", "AUTH_FAILED", conn)) /\ ok(Msg("instr", None, conn))
      BY <1>1 DEF Msg, Msgs, Errors
    <2>3. ok(Msg("imc", "BLOCK", conn)) /\ ok(Msg("imc", "UNKNOWN", conn))
      BY <1>1 DEF Msg, Msgs, ImcStates
    <2>4. \/ Reported(ev, conn) = <<>>
          \/ \E m \in {Msg("state", "CONNECTED", conn), Msg("state", "CONNECTING", conn),
                        Msg("error", "AUTH_FAILED", conn), Msg("instr", None, conn),
                        Msg("imc", "BLOCK", conn), Msg("imc", "UNKNOWN", conn)} :
                  Reported(ev, conn) = <<m>>
      BY DEF Reported, AllEvents
    <2>5. \A m \in {Msg("state", "CONNECTED", conn), Msg("state", "CONNECTING", conn),
                     Msg("error", "AUTH_FAILED", conn), Msg("instr", None, conn),
                     Msg("imc", "BLOCK", conn), Msg("imc", "UNKNOWN", conn)} : ok(m)
      BY <2>1, <2>2, <2>3
    <2> HIDE DEF ok
    <2>6. ms = <<>> \/ \E m : ms = <<m>> /\ ok(m)
      BY <2>4, <2>5
    <2> QED BY <2>6 DEF ok
  <1>3. queue' = queue \/ queue' = queue \o ms
    BY DEF Post
  <1> HIDE DEF ms
  <1>4. CASE queue' = queue
    BY <1>4 DEF ReportInv
  <1>5. CASE queue' = queue \o ms /\ ms = <<>>
    <2>1. queue' = queue
      BY <1>1, <1>5, ConcatEmptySeq
    <2> QED BY <2>1 DEF ReportInv
  <1>6. ASSUME NEW m \in Msgs, ms = <<m>>, m.kind # "start", m.conn = conn,
               queue' = queue \o ms
        PROVE  ReportInv'
    <2>1. queue' = Append(queue, m)
      BY <1>1, <1>6, ConcatOne
    <2>2. Fresh(Append(queue, m), id, conn)
      BY <1>1, <1>6, FreshReport DEF ReportInv
    <2> QED BY <2>1, <2>2 DEF ReportInv
  <1> QED BY <1>2, <1>3, <1>4, <1>5, <1>6

\* A state the handler thread posts is a report of the latest connection.
LEMMA PostedFresh ==
    ASSUME TypeOK, ReportInv, NEW i \in Instances, NEW m \in Msgs,
           m.kind # "start", m.conn = conn,
           Post(i, <<m>>), UNCHANGED <<state, conn>>
    PROVE  ReportInv'
  <1>1. queue \in Seq(Msgs) /\ conn \in Nat /\ state.mConnectionID \in Nat
    BY DEF TypeOK
  <1>2. queue' = queue \/ queue' = Append(queue, m)
    BY <1>1, ConcatOne DEF Post
  <1>3. Fresh(Append(queue, m), state.mConnectionID, conn)
    BY <1>1, FreshReport DEF ReportInv
  <1> QED BY <1>2, <1>3 DEF ReportInv

\* The main thread delivers.
LEMMA DeliverFresh ==
    ASSUME TypeOK, ReportInv, Deliver
    PROVE  ReportInv'
  <1> DEFINE m == Head(queue)
             id == state.mConnectionID
  <1>1. queue \in Seq(Msgs) /\ queue # <<>> /\ conn \in Nat /\ id \in Nat
        /\ queue' = Tail(queue) /\ conn' = conn
    BY DEF TypeOK, Deliver
  <1>2. CASE m.kind = "start" /\ ApplyStart(m)
    <2>1. Fresh(Tail(queue), id + 1, conn)
      BY <1>1, <1>2, FreshTakeStart DEF ReportInv
    <2>2. state'.mConnectionID = id + 1 /\ state'.mRemediationInstructions = {}
      <3> HIDE DEF m
      <3> QED BY <1>2 DEF ApplyStart, NewState
    <2> QED BY <1>1, <2>1, <2>2 DEF ReportInv
  <1>3. CASE m.kind # "start"
    <2>1. m.conn = id /\ Fresh(Tail(queue), id, conn)
      BY <1>1, <1>3, FreshTakeReport DEF ReportInv
    <2>2. \/ ApplyState(m) \/ ApplyError(m) \/ ApplyImc(m) \/ ApplyInstr(m)
      BY <1>3 DEF Deliver
    <2> HIDE DEF m
    <2>3. state'.mConnectionID = id
      BY <2>2 DEF TypeOK, ApplyState, ApplyError, ApplyImc, ApplyInstr
    <2>4. state'.mRemediationInstructions \subseteq {id}
      <3> DEFINE old == state.mRemediationInstructions
      <3>1. old \subseteq {id}
        BY DEF ReportInv
      <3>2. CASE ApplyState(m) \/ ApplyError(m)
        <4>1. state'.mRemediationInstructions = old
          BY <3>2 DEF TypeOK, ApplyState, ApplyError
        <4> QED BY <3>1, <4>1
      <3>3. CASE ApplyImc(m)
        <4>1. state'.mRemediationInstructions \in {{}, old}
          BY <3>3 DEF TypeOK, ApplyImc
        <4> QED BY <3>1, <4>1
      <3>4. CASE ApplyInstr(m)
        <4>1. state'.mRemediationInstructions = old \cup {m.conn}
          BY <3>4 DEF TypeOK, ApplyInstr
        <4> QED BY <2>1, <3>1, <4>1
      <3> QED BY <2>2, <3>2, <3>3, <3>4
    <2> QED BY <1>1, <2>1, <2>3, <2>4 DEF ReportInv
  <1> QED BY <1>2, <1>3 DEF Deliver

LEMMA ReportStep == ThreadInv /\ ReportInv /\ [Next]_vars => ReportInv'
  <1> SUFFICES ASSUME ThreadInv, ReportInv, [Next]_vars PROVE ReportInv'
    OBVIOUS
  <1> USE DEF mainVars, shown, bounds
  <1>0. /\ TypeOK /\ conn \in Nat /\ state.mConnectionID \in Nat /\ queue \in Seq(Msgs)
        /\ \A x \in States : Msg("state", x, conn) \in Msgs
        /\ Msg("error", "GENERIC_ERROR", conn) \in Msgs
    BY DEF ThreadInv, TypeOK, Msg, Msgs, Errors
  <1>1. ASSUME UNCHANGED <<queue, state, conn>> PROVE ReportInv'
    BY <1>1 DEF ReportInv
  <1>2. CASE UNCHANGED vars
    BY <1>1, <1>2 DEF vars
  <1>3. CASE Deliver
    BY <1>3, <1>0, DeliverFresh
  <1>4. CASE \/ OnCreate \/ OnServiceConnected \/ OnDestroy \/ MainSetsNext
             \/ HandlerJoined \/ OnRevoke
             \/ \E p \in Profiles \cup {None}, t \in BOOLEAN : OnStartCommand(p, t)
    BY <1>1, <1>4 DEF OnCreate, OnServiceConnected, OnDestroy, MainSetsNext,
                      HandlerJoined, OnRevoke, OnStartCommand
  <1>5. ASSUME NEW i \in Instances, HandlerStep(i) PROVE ReportInv'
    <2>1. CASE Check(i)
      <3>1. CASE UNCHANGED queue
        BY <1>1, <2>1, <3>1 DEF Check
      <3>2. CASE Post(i, <<Msg("state", "DISCONNECTING", conn)>>)
        BY <1>0, <2>1, <3>2, PostedFresh DEF Check, Msg, States
      <3> QED BY <2>1, <3>1, <3>2 DEF Check
    <2>2. CASE SetDisconnecting(i) \/ DeinitializeCharon(i) \/ ResetDisconnecting(i) \/ InitializeCharon(i)
      BY <1>1, <2>2 DEF SetDisconnecting, DeinitializeCharon, ResetDisconnecting, InitializeCharon
    <2>3. CASE FlushReports(i)
      <3>1. PICK ev \in {"down", "error"} :
                Post(i, IF Dropped(i, ev) THEN <<>> ELSE Reported(ev, conn))
        BY <2>3 DEF FlushReports
      <3>2. PICK b \in BOOLEAN : b = Dropped(i, ev)
        BY DEF Dropped
      <3>3. Post(i, IF b THEN <<>> ELSE Reported(ev, conn))
        BY <3>1, <3>2
      <3>4. UNCHANGED <<state, conn>> /\ ev \in AllEvents
        BY <2>3 DEF FlushReports, AllEvents
      <3> QED BY <1>0, <3>3, <3>4, ReportedFresh
    <2>4. CASE Disable(i)
      BY <1>0, <2>4, PostedFresh DEF Disable, Msg, States
    <2>5. CASE StartConnection(i)
      <3> DEFINE m == Msg("start", svc[i].mNextProfile, conn + 1)
      <3>1. svc[i].mNextProfile \in Profiles
        BY <2>5, <1>0 DEF StartConnection, HasNext, TypeOK, Services, Wishes
      <3>2. m \in Msgs /\ m.kind = "start" /\ m.conn = conn + 1
        BY <1>0, <3>1 DEF Msg, Msgs
      <3>3. svc[i].bound
        BY <2>5 DEF StartConnection, ThreadInv, HandlerInv
      <3>4. Post(i, <<m>>) /\ conn' = conn + 1 /\ state' = state
        BY <2>5 DEF StartConnection
      <3> HIDE DEF m
      <3>5. queue' = Append(queue, m)
        BY <1>0, <3>2, <3>3, <3>4, ConcatOne DEF Post
      <3>6. Fresh(Append(queue, m), state.mConnectionID, conn + 1)
        BY <1>0, <3>2, FreshStart DEF ReportInv
      <3> QED BY <3>4, <3>5, <3>6 DEF ReportInv
    <2>6. CASE InitializeFails(i)
      <3> DEFINE a == Msg("error", "GENERIC_ERROR", conn)
                 b == Msg("state", "DISABLED", conn)
      <3>1. /\ a \in Msgs /\ a.kind # "start" /\ a.conn = conn
            /\ b \in Msgs /\ b.kind # "start" /\ b.conn = conn
        BY <1>0 DEF Msg, States
      <3>2. Post(i, <<a, b>>) /\ UNCHANGED <<state, conn>>
        BY <2>6 DEF InitializeFails
      <3> HIDE DEF a, b
      <3>3. queue' = queue \/ queue' = Append(Append(queue, a), b)
        BY <1>0, <3>1, <3>2, ConcatTwo DEF Post
      <3>4. Append(queue, a) \in Seq(Msgs) /\ Fresh(Append(queue, a), state.mConnectionID, conn)
        BY <1>0, <3>1, FreshReport, AppendProperties DEF ReportInv
      <3>5. Fresh(Append(Append(queue, a), b), state.mConnectionID, conn)
        BY <1>0, <3>1, <3>4, FreshReport
      <3> QED BY <3>2, <3>3, <3>5 DEF ReportInv
    <2> QED BY <1>5, <2>1, <2>2, <2>3, <2>4, <2>5, <2>6 DEF HandlerStep
  <1>6. CASE (\E ev \in Events : Call(ev)) \/ GetTrustedCertificates
    BY <1>1, <1>6 DEF Call, GetTrustedCertificates
  <1>7. CASE ReportPosted
    <2>1. rep \in [svc : Instances, conn : Nat, ev : AllEvents, skip : BOOLEAN] /\ rep # NoCall
      BY <1>0, <1>7 DEF TypeOK, ReportPosted, NoCall, AllEvents
    <2>2. rep.svc \in Instances /\ rep.ev \in AllEvents /\ rep.skip \in BOOLEAN /\ rep.conn = conn
      BY <2>1 DEF ThreadInv, DaemonInv
    <2>3. /\ Post(rep.svc, IF rep.skip THEN <<>> ELSE Reported(rep.ev, conn))
          /\ UNCHANGED <<state, conn>>
      BY <1>7, <2>2 DEF ReportPosted
    <2> QED BY <1>0, <2>2, <2>3, ReportedFresh
  <1> QED BY <1>2, <1>3, <1>4, <1>5, <1>6, <1>7 DEF Next

\* No report is ever shown, or waiting to be shown, for another connection than
\* the one it was made for.
THEOREM NoStaleReportsTheorem == Spec => []NoStaleReports
  <1>1. ReportInv /\ TypeOK => NoStaleReports
    BY DEF ReportInv, TypeOK, NoStaleReports, Fresh, Bounded, Ordered
  <1>2. ThreadInv => TypeOK
    BY DEF ThreadInv
  <1>3. Spec => []ReportInv
    BY ReportInit, ReportStep, ThreadTheorem, PTL DEF Spec
  <1> QED BY <1>1, <1>2, <1>3, ThreadTheorem, PTL

-----------------------------------------------------------------------------
(* The last request.                                                       *)

\* The request that counts is where the handler thread will find it: in
\* mNextProfile while it is pending or a connection is being stopped, afterwards
\* in mCurrentProfile. Nothing is left to ask for once an instance is destroyed.
WishInv ==
    /\ \A i \in Instances : i > cur => ~svc[i].mProfileUpdated
    /\ ~alive \/ main.pc = "join" => wish = None
    /\ main.pc = "destroy" => main.next = None
    /\ alive =>
          /\ svc[cur].mProfileUpdated =>
                /\ svc[cur].mNextProfile = wish
                /\ h[cur] \in {"unstarted", "check", "ended"}
          /\ h[cur] \in {"flag", "flush", "stop", "next"} => svc[cur].mNextProfile = wish
          /\ h[cur] \in {"started", "init"} => svc[cur].mCurrentProfile = wish
          /\ h[cur] \in {"unstarted", "check", "wait"} /\ ~svc[cur].mProfileUpdated =>
                \/ svc[cur].mCurrentProfile = wish
                \/ svc[cur].mCurrentProfile = None /\ link.failed

LEMMA WishInit == Init => WishInv
  BY DEF Init, WishInv, NewService, Loop

\* Callbacks of the service: setNextProfile stores the request where the handler
\* thread looks next, and is excluded while it stops or starts a connection.
LEMMA CallbackWish ==
    ASSUME ThreadInv, WishInv,
           \/ Deliver \/ OnCreate \/ OnServiceConnected \/ OnDestroy
           \/ MainSetsNext \/ HandlerJoined \/ OnRevoke
           \/ \E p \in Profiles \cup {None}, t \in BOOLEAN : OnStartCommand(p, t)
    PROVE  WishInv'
  <1> USE DEF WishInv, mainVars, shown, bounds
  <1>0. /\ alive => cur \in Instances
        /\ cur < MaxInstances => cur + 1 \in Instances
        /\ cur \in Nat /\ Instances \subseteq Nat
        /\ svc \in [Instances -> Services] /\ h \in [Instances -> Controls]
        /\ main.pc # "loop" => alive
        /\ main \in [pc : {"loop", "set", "destroy", "join"}, next : Wishes]
    BY ConstantsAssumption DEF ThreadInv, TypeOK, Instances
  <1>1. CASE Deliver
    BY <1>1 DEF Deliver
  <1>2. CASE OnCreate
    <2>1. h[cur + 1] \in {"unstarted", "ended"} /\ svc[cur + 1].mCurrentProfile = None
          /\ ~svc[cur + 1].mProfileUpdated /\ wish = None
      BY <1>2, <1>0 DEF OnCreate, ThreadInv, HandlerInv
    <2> QED BY <1>2, <1>0, <2>1 DEF OnCreate
  <1>3. CASE OnServiceConnected
    BY <1>3, <1>0 DEF OnServiceConnected, Services
  <1>4. CASE OnDestroy
    BY <1>4, <1>0 DEF OnDestroy, Services
  <1>5. ASSUME NEW p, SetNextProfile(cur, p), alive
        PROVE  /\ wish' = p
               /\ svc'[cur].mNextProfile = p /\ svc'[cur].mProfileUpdated
               /\ h'[cur] \in {"unstarted", "check", "ended"}
               /\ \A i \in Instances : i > cur => svc'[i] = svc[i]
    BY <1>5, <1>0 DEF SetNextProfile, MonitorFree, Notified, Services
  <1>6. CASE MainSetsNext
    <2>1. SetNextProfile(cur, main.next) /\ alive /\ alive' = alive /\ cur' = cur
          /\ main'.pc = (IF main.pc = "set" THEN "loop" ELSE "join")
          /\ main.pc \in {"set", "destroy"}
      BY <1>6, <1>0 DEF MainSetsNext
    <2>2. main'.pc = "join" => main.next = None
      BY <2>1
    <2> QED BY <1>5, <2>1, <2>2
  <1>7. CASE HandlerJoined
    BY <1>7 DEF HandlerJoined, HandlerGone, Loop
  <1>8. CASE OnRevoke
    BY <1>8, <1>5 DEF OnRevoke
  <1>9. ASSUME NEW p \in Profiles \cup {None}, NEW t \in BOOLEAN, OnStartCommand(p, t)
        PROVE  WishInv'
    BY <1>9 DEF OnStartCommand
  <1> QED BY <1>1, <1>2, <1>3, <1>4, <1>6, <1>7, <1>8, <1>9

\* The handler thread takes the request it finds at the head of its loop.
LEMMA HandlerWish ==
    ASSUME ThreadInv, WishInv, NEW i \in Instances, HandlerStep(i)
    PROVE  WishInv'
  <1> USE DEF WishInv, mainVars, shown, bounds
  <1>0. /\ svc \in [Instances -> Services] /\ h \in [Instances -> Controls]
        /\ cur \in Nat /\ Instances \subseteq Nat /\ i \in Nat
        /\ link \in [up : BOOLEAN, failed : BOOLEAN]
    BY DEF ThreadInv, TypeOK, Instances
  <1>a. /\ alive /\ i = cur
        /\ h[i] = "next" => svc[i].mCurrentProfile = None
    BY DEF ThreadInv, HandlerInv, HandlerStep, Check, SetDisconnecting, FlushReports,
           DeinitializeCharon, Disable, StartConnection, ResetDisconnecting,
           InitializeCharon, InitializeFails
  <1>1. CASE Check(i)
    BY <1>1, <1>0, <1>a DEF Check, Services
  <1>2. CASE SetDisconnecting(i)
    BY <1>2, <1>0, <1>a DEF SetDisconnecting, Services
  <1>3. CASE FlushReports(i)
    BY <1>3, <1>0, <1>a DEF FlushReports
  <1>4. CASE DeinitializeCharon(i)
    BY <1>4, <1>0, <1>a DEF DeinitializeCharon, Services
  <1>5. CASE Disable(i)
    BY <1>5, <1>0, <1>a DEF Disable, HasNext
  <1>6. CASE StartConnection(i)
    BY <1>6, <1>0, <1>a DEF StartConnection, HasNext, Services
  <1>7. CASE ResetDisconnecting(i)
    BY <1>7, <1>0, <1>a DEF ResetDisconnecting, Services
  <1>8. CASE InitializeCharon(i)
    BY <1>8, <1>0, <1>a DEF InitializeCharon
  <1>9. CASE InitializeFails(i)
    BY <1>9, <1>0, <1>a DEF InitializeFails, Services
  <1> QED BY <1>1, <1>2, <1>3, <1>4, <1>5, <1>6, <1>7, <1>8, <1>9 DEF HandlerStep

LEMMA WishStep == ThreadInv /\ WishInv /\ [Next]_vars => WishInv'
  <1> SUFFICES ASSUME ThreadInv, WishInv, [Next]_vars PROVE WishInv'
    OBVIOUS
  <1>1. CASE UNCHANGED vars
    BY <1>1 DEF vars, WishInv
  <1>2. ASSUME NEW ev \in Events, Call(ev) PROVE WishInv'
    BY <1>2 DEF Call, WishInv, mainVars
  <1>3. CASE ReportPosted \/ GetTrustedCertificates
    BY <1>3 DEF ReportPosted, GetTrustedCertificates, WishInv, mainVars
  <1> QED BY <1>1, <1>2, <1>3, CallbackWish, HandlerWish DEF Next

\* Requests are neither lost nor served out of order: at rest the VPN is what the
\* last setNextProfile asked for, or that connection could not be started.
THEOREM LastRequestTheorem == Spec => []LastRequestWins
  <1>1. WishInv => LastRequestWins
    BY DEF WishInv, LastRequestWins, Settled
  <1>2. Spec => []WishInv
    BY WishInit, WishStep, ThreadTheorem, PTL DEF Spec
  <1> QED BY <1>1, <1>2, PTL

-----------------------------------------------------------------------------
(* What a queue will make of a field of VpnStateService. f gives for each      *)
(* message the value it sets, or keep.                                     *)

\* The field, now old, will be x when everything queued has been delivered.
Final(q, f, keep, old, x) ==
    \/ x = old /\ \A k \in 1..Len(q) : f[q[k]] = keep
    \/ /\ x # keep
       /\ \E k \in 1..Len(q) :
             /\ f[q[k]] = x
             /\ \A j \in 1..Len(q) : j > k => f[q[j]] = keep

\* A message that does not set the field is posted.
LEMMA FinalKept ==
    ASSUME NEW q \in Seq(Msgs), NEW m \in Msgs, NEW f, NEW keep, NEW old, NEW x,
           Final(q, f, keep, old, x), f[m] = keep
    PROVE  Final(Append(q, m), f, keep, old, x)
  <1> DEFINE r == Append(q, m)
  <1>1. /\ Len(q) \in Nat /\ Len(r) = Len(q) + 1
        /\ \A k \in 1..Len(r) : (k \in 1..Len(q) /\ r[k] = q[k]) \/ r[k] = m
        /\ \A k \in 1..Len(q) : k \in 1..Len(r) /\ r[k] = q[k]
    <2>1. /\ Len(q) \in Nat /\ Len(r) = Len(q) + 1 /\ r[Len(q) + 1] = m
          /\ \A k \in 1..Len(q) : r[k] = q[k]
      BY AppendProperties
    <2> HIDE DEF r
    <2>2. \A k \in 1..Len(r) : k \in 1..Len(q) \/ k = Len(q) + 1
      BY <2>1
    <2> QED BY <2>1, <2>2
  <1> HIDE DEF r
  <1>2. CASE x = old /\ \A k \in 1..Len(q) : f[q[k]] = keep
    BY <1>1, <1>2 DEF Final, r
  <1>3. ASSUME x # keep, NEW k \in 1..Len(q), f[q[k]] = x,
               \A j \in 1..Len(q) : j > k => f[q[j]] = keep
        PROVE  Final(r, f, keep, old, x)
    <2>1. k \in 1..Len(r) /\ f[r[k]] = x
      BY <1>1, <1>3
    <2>2. \A j \in 1..Len(r) : j > k => f[r[j]] = keep
      BY <1>1, <1>3
    <2> QED BY <1>3, <2>1, <2>2 DEF Final
  <1> QED BY <1>2, <1>3 DEF Final, r

\* A message that sets the field is posted.
LEMMA FinalSet ==
    ASSUME NEW q \in Seq(Msgs), NEW m \in Msgs, NEW f, NEW keep, NEW old,
           f[m] # keep
    PROVE  Final(Append(q, m), f, keep, old, f[m])
  <1> DEFINE r == Append(q, m)
  <1>1. Len(r) \in 1..Len(r) /\ r[Len(r)] = m /\ \A j \in 1..Len(r) : ~(j > Len(r))
    OBVIOUS
  <1> HIDE DEF r
  <1> QED BY <1>1 DEF Final, r

\* The first message is delivered: the field becomes what it sets, if it does,
\* and what the rest makes of it stays the same.
LEMMA FinalTaken ==
    ASSUME NEW q \in Seq(Msgs), q # <<>>, NEW f, NEW keep, NEW old, NEW x,
           Final(q, f, keep, old, x)
    PROVE  Final(Tail(q), f, keep, IF f[Head(q)] = keep THEN old ELSE f[Head(q)], x)
  <1> DEFINE r == Tail(q)
             new == IF f[Head(q)] = keep THEN old ELSE f[Head(q)]
  <1>1. /\ Len(q) \in Nat \ {0} /\ Len(r) = Len(q) - 1
        /\ \A k \in 1..Len(q) - 1 : r[k] = q[k + 1]
        /\ Head(q) = q[1]
    BY TailShift
  <1>2. \A k \in 1..Len(r) : k + 1 \in 1..Len(q) /\ r[k] = q[k + 1]
    BY <1>1
  <1> HIDE DEF r
  <1>3. CASE x = old /\ \A k \in 1..Len(q) : f[q[k]] = keep
    <2>1. f[Head(q)] = keep
      BY <1>1, <1>3
    <2>2. \A k \in 1..Len(r) : f[r[k]] = keep
      BY <1>2, <1>3
    <2> QED BY <1>3, <2>1, <2>2 DEF Final, r
  <1>4. ASSUME x # keep, NEW k \in 1..Len(q), f[q[k]] = x,
               \A j \in 1..Len(q) : j > k => f[q[j]] = keep
        PROVE  Final(r, f, keep, new, x)
    <2>1. CASE k = 1
      <3>1. new = x
        BY <1>1, <1>4, <2>1
      <3>2. \A j \in 1..Len(r) : f[r[j]] = keep
        <4> TAKE j \in 1..Len(r)
        <4>1. j + 1 \in 1..Len(q) /\ j + 1 > k /\ r[j] = q[j + 1]
          BY <1>1, <1>2, <2>1
        <4> QED BY <1>4, <4>1
      <3> QED BY <3>1, <3>2 DEF Final
    <2>2. CASE k # 1
      <3>1. k - 1 \in 1..Len(r) /\ f[r[k - 1]] = x
        BY <1>1, <1>4, <2>2
      <3>2. \A j \in 1..Len(r) : j > k - 1 => f[r[j]] = keep
        <4> TAKE j \in 1..Len(r)
        <4> HAVE j > k - 1
        <4>1. j + 1 \in 1..Len(q) /\ j + 1 > k /\ r[j] = q[j + 1]
          BY <1>1, <1>2
        <4> QED BY <1>4, <4>1
      <3> QED BY <1>4, <3>1, <3>2 DEF Final
    <2> QED BY <2>1, <2>2
  <1> QED BY <1>3, <1>4 DEF Final, r

\* Nothing queued: the field has its final value.
LEMMA FinalEmpty ==
    ASSUME NEW q, q = <<>>, NEW f, NEW keep, NEW old, NEW x, Final(q, f, keep, old, x)
    PROVE  x = old
  <1>1. Len(q) = 0
    OBVIOUS
  <1> QED BY <1>1 DEF Final

\* The value a message sets the state, the profile and the error to.
StateEffect ==
    [m \in Msgs |-> IF m.kind = "start" THEN "CONNECTING"
                    ELSE IF m.kind = "state" THEN m.val ELSE "keep"]
ProfileEffect == [m \in Msgs |-> IF m.kind = "start" THEN m.val ELSE None]
ErrorEffect ==
    [m \in Msgs |-> IF m.kind = "start" THEN "NO_ERROR"
                    ELSE IF m.kind = "error" THEN m.val ELSE "keep"]

\* What VpnStateService shows after everything queued has been delivered.
FinalState(x) == Final(queue, StateEffect, "keep", state.mState, x)
FinalProfile(x) == Final(queue, ProfileEffect, None, state.mProfile, x)
FinalError(x) == Final(queue, ErrorEffect, "keep", state.mError, x)

\* Delivering does not change what will be shown in the end: the runnables set
\* the fields as the effects say.
LEMMA DeliverFinal ==
    ASSUME TypeOK, Deliver
    PROVE  /\ \A x : FinalState(x) => FinalState(x)'
           /\ \A x : FinalProfile(x) => FinalProfile(x)'
           /\ \A x : FinalError(x) => FinalError(x)'
  <1> DEFINE m == Head(queue)
             St == [mConnectionID : Nat, mProfile : Wishes, mState : States,
                    mError : Errors, mImcState : ImcStates,
                    mRemediationInstructions : SUBSET Nat]
  <1>1. queue \in Seq(Msgs) /\ queue # <<>> /\ queue' = Tail(queue) /\ m \in Msgs
    BY HeadTailProperties DEF TypeOK, Deliver
  <1>2. state \in St
    BY DEF TypeOK
  <1>3. /\ m.kind \in {"start", "state", "error", "imc", "instr"}
        /\ m.kind = "start" => m.val \in Profiles /\ ApplyStart(m)
        /\ m.kind = "state" => m.val \in States /\ ApplyState(m)
        /\ m.kind = "error" => m.val \in Errors /\ ApplyError(m)
        /\ m.kind = "imc" => ApplyImc(m)
        /\ m.kind = "instr" => ApplyInstr(m)
    BY <1>1 DEF Deliver, Msgs
  <1>4. /\ StateEffect[m] = IF m.kind = "start" THEN "CONNECTING"
                            ELSE IF m.kind = "state" THEN m.val ELSE "keep"
        /\ ProfileEffect[m] = IF m.kind = "start" THEN m.val ELSE None
        /\ ErrorEffect[m] = IF m.kind = "start" THEN "NO_ERROR"
                            ELSE IF m.kind = "error" THEN m.val ELSE "keep"
    BY <1>1 DEF StateEffect, ProfileEffect, ErrorEffect
  <1>5. /\ "keep" \notin States /\ "keep" \notin Errors /\ None \notin Profiles
    BY ConstantsAssumption DEF States, Errors
  <1> HIDE DEF m, St
  <1>6. /\ state'.mState = IF StateEffect[m] = "keep" THEN state.mState ELSE StateEffect[m]
        /\ state'.mProfile = IF ProfileEffect[m] = None THEN state.mProfile ELSE ProfileEffect[m]
        /\ state'.mError = IF ErrorEffect[m] = "keep" THEN state.mError ELSE ErrorEffect[m]
    <2>1. CASE m.kind = "start"
      BY <1>3, <1>4, <1>5, <2>1 DEF ApplyStart, NewState
    <2>2. CASE m.kind = "state"
      BY <1>2, <1>3, <1>4, <1>5, <2>2 DEF ApplyState, St
    <2>3. CASE m.kind = "error"
      BY <1>2, <1>3, <1>4, <1>5, <2>3 DEF ApplyError, St
    <2>4. CASE m.kind = "imc"
      BY <1>2, <1>3, <1>4, <1>5, <2>4 DEF ApplyImc, St
    <2>5. CASE m.kind = "instr"
      BY <1>2, <1>3, <1>4, <1>5, <2>5 DEF ApplyInstr, St
    <2> QED BY <1>3, <2>1, <2>2, <2>3, <2>4, <2>5
  <1>7. ASSUME NEW x, FinalState(x) PROVE FinalState(x)'
    BY <1>1, <1>6, <1>7, FinalTaken DEF FinalState, m
  <1>8. ASSUME NEW x, FinalProfile(x) PROVE FinalProfile(x)'
    BY <1>1, <1>6, <1>8, FinalTaken DEF FinalProfile, m
  <1>9. ASSUME NEW x, FinalError(x) PROVE FinalError(x)'
    BY <1>1, <1>6, <1>9, FinalTaken DEF FinalError, m
  <1> QED BY <1>7, <1>8, <1>9

\* Posting a message while the state service is bound.
LEMMA PostFinal ==
    ASSUME TypeOK, NEW i \in Instances, svc[i].bound, NEW m \in Msgs,
           Post(i, <<m>>), state' = state
    PROVE  /\ IF StateEffect[m] = "keep" THEN \A x : FinalState(x) => FinalState(x)'
              ELSE Final(queue', StateEffect, "keep", state'.mState, StateEffect[m])
           /\ IF ProfileEffect[m] = None THEN \A x : FinalProfile(x) => FinalProfile(x)'
              ELSE Final(queue', ProfileEffect, None, state'.mProfile, ProfileEffect[m])
           /\ IF ErrorEffect[m] = "keep" THEN \A x : FinalError(x) => FinalError(x)'
              ELSE Final(queue', ErrorEffect, "keep", state'.mError, ErrorEffect[m])
  <1>1. queue \in Seq(Msgs)
    BY DEF TypeOK
  <1>2. queue' = Append(queue, m)
    BY <1>1, ConcatOne DEF Post
  <1> QED BY <1>1, <1>2, FinalKept, FinalSet DEF FinalState, FinalProfile, FinalError

\* The effects of the messages the service posts.
LEMMA Effects ==
    ASSUME NEW c \in Nat
    PROVE  /\ \A x \in States : LET m == Msg("state", x, c)
                                IN  /\ m \in Msgs /\ StateEffect[m] = x
                                    /\ ProfileEffect[m] = None /\ ErrorEffect[m] = "keep"
           /\ \A x \in Errors : LET m == Msg("error", x, c)
                                IN  /\ m \in Msgs /\ StateEffect[m] = "keep"
                                    /\ ProfileEffect[m] = None /\ ErrorEffect[m] = x
           /\ \A p \in Profiles : LET m == Msg("start", p, c)
                                  IN  /\ m \in Msgs /\ StateEffect[m] = "CONNECTING"
                                      /\ ProfileEffect[m] = p /\ ErrorEffect[m] = "NO_ERROR"
           /\ \A x \in ImcStates : LET m == Msg("imc", x, c)
                                   IN  /\ m \in Msgs /\ StateEffect[m] = "keep"
                                       /\ ProfileEffect[m] = None /\ ErrorEffect[m] = "keep"
           /\ LET m == Msg("instr", None, c)
              IN  /\ m \in Msgs /\ StateEffect[m] = "keep"
                  /\ ProfileEffect[m] = None /\ ErrorEffect[m] = "keep"
  <1>1. ASSUME NEW k \in {"start", "state", "error", "imc", "instr"}, NEW v
        PROVE  Msg(k, v, c).kind = k /\ Msg(k, v, c).val = v
    BY DEF Msg
  <1>2. /\ \A x \in States : Msg("state", x, c) \in Msgs
        /\ \A x \in Errors : Msg("error", x, c) \in Msgs
        /\ \A p \in Profiles : Msg("start", p, c) \in Msgs
        /\ \A x \in ImcStates : Msg("imc", x, c) \in Msgs
        /\ Msg("instr", None, c) \in Msgs
    BY DEF Msg, Msgs
  <1>3. ASSUME NEW m \in Msgs
        PROVE  /\ StateEffect[m] = IF m.kind = "start" THEN "CONNECTING"
                                   ELSE IF m.kind = "state" THEN m.val ELSE "keep"
               /\ ProfileEffect[m] = IF m.kind = "start" THEN m.val ELSE None
               /\ ErrorEffect[m] = IF m.kind = "start" THEN "NO_ERROR"
                                   ELSE IF m.kind = "error" THEN m.val ELSE "keep"
    BY DEF StateEffect, ProfileEffect, ErrorEffect
  <1> QED BY <1>1, <1>2, <1>3

-----------------------------------------------------------------------------
(* What is shown.                                                          *)

Connected == alive /\ h[cur] \in {"check", "wait"} /\ svc[cur].mCurrentProfile # None
Starting == alive /\ h[cur] \in {"started", "init"}
Down == \/ ~alive
        \/ h[cur] \in {"unstarted", "ended"}
        \/ h[cur] \in {"check", "wait"} /\ svc[cur].mCurrentProfile = None

\* What charon said of the connection, and which of its calls will be dropped.
LinkInv ==
    /\ Starting => ~link.up /\ ~link.failed
    /\ alive /\ h[cur] \in {"flush", "stop"} => svc[cur].mIsDisconnecting
    /\ alive /\ h[cur] = "init" => ~svc[cur].mIsDisconnecting
    /\ Connected => ~svc[cur].mIsDisconnecting /\ ~rep.skip
    /\ rep.ev = "up" => link.up
    /\ rep.ev = "down" => ~link.up
    /\ rep.ev = "error" => link.failed

\* Once everything posted has been delivered the state and the profile shown are
\* those of the connection, but for a change of charon that is being reported.
ShownInv ==
    /\ Down => FinalState("DISABLED")
    /\ Starting \/ Connected => FinalProfile(svc[cur].mCurrentProfile)
    /\ Starting => FinalState("CONNECTING")
    /\ Connected /\ rep.ev \notin {"up", "down"} =>
           /\ link.up => FinalState("CONNECTED")
           /\ ~link.up => FinalState("CONNECTING")

\* Likewise the error, which stays after the connection has been stopped.
ErrorInv ==
    \E e \in Errors :
        /\ FinalError(e)
        /\ e # "NO_ERROR" => link.failed
        /\ Connected /\ link.failed /\ rep.ev # "error" => e # "NO_ERROR"

RestInv == LinkInv /\ ShownInv /\ ErrorInv /\ WidgetAgrees

LEMMA RestInit == Init => RestInv
  <1> SUFFICES ASSUME Init PROVE RestInv
    OBVIOUS
  <1>1. LinkInv /\ WidgetAgrees
    BY DEF Init, LinkInv, WidgetAgrees, Starting, Connected, NewState, NoCall
  <1>2. FinalState("DISABLED") /\ FinalError("NO_ERROR")
    <2>1. Len(queue) = 0 /\ state.mState = "DISABLED" /\ state.mError = "NO_ERROR"
      BY DEF Init, NewState
    <2> QED BY <2>1 DEF FinalState, FinalError, Final
  <1>3. ShownInv
    BY <1>2 DEF Init, ShownInv, Starting, Connected
  <1>4. ErrorInv
    BY <1>2 DEF Init, ErrorInv, Connected, Errors
  <1> QED BY <1>1, <1>3, <1>4 DEF RestInv

\* A handler thread that steps is the one of the latest instance, bound to the
\* state service.
LEMMA HandlerIsCurrent ==
    ASSUME ThreadInv, NEW i \in Instances, HandlerStep(i)
    PROVE  alive /\ i = cur /\ svc[i].bound
  BY DEF ThreadInv, HandlerInv, HandlerStep, Check, SetDisconnecting, FlushReports,
         DeinitializeCharon, Disable, StartConnection, ResetDisconnecting,
         InitializeCharon, InitializeFails

\* charon runs, and calls, for the connection of the latest instance only.
LEMMA CallIsCurrent ==
    ASSUME ThreadInv
    PROVE  /\ Starting \/ Down => daemon = NoDaemon
           /\ daemon = NoDaemon => rep = NoCall
           /\ daemon # NoDaemon => alive /\ daemon.svc = cur /\ cur \in Instances
           /\ rep # NoCall => alive /\ rep.svc = cur /\ svc[cur].bound
  <1> USE DEF ThreadInv, HandlerInv, DaemonInv
  <1>1. /\ daemon # NoDaemon => daemon.svc \in Instances /\ daemon.profile \in Profiles
        /\ None \notin Profiles /\ NoDaemon.svc \notin Instances
        /\ alive => cur \in Instances
    BY ConstantsAssumption DEF TypeOK, NoDaemon, Instances
  <1>2. daemon # NoDaemon => alive /\ daemon.svc = cur /\ svc[cur].bound
                             /\ svc[cur].mCurrentProfile # None
    BY <1>1
  <1>3. Starting \/ Down => daemon = NoDaemon
    BY <1>1, <1>2 DEF Starting, Down
  <1> QED BY <1>1, <1>2, <1>3

\* The callbacks leave the connection as it is.
LEMMA CallbackKeeps ==
    ASSUME ThreadInv,
           \/ Deliver \/ OnCreate \/ OnServiceConnected \/ OnDestroy
           \/ MainSetsNext \/ HandlerJoined \/ OnRevoke
           \/ \E p \in Profiles \cup {None}, t \in BOOLEAN : OnStartCommand(p, t)
    PROVE  /\ link' = link /\ rep' = rep
           /\ Down' => Down
           /\ Starting' => Starting
           /\ Connected' => Connected
           /\ Starting' \/ Connected' => svc'[cur'].mCurrentProfile = svc[cur].mCurrentProfile
           /\ alive' => \/ h'[cur'] = "check"
                        \/ h'[cur'] \in {"unstarted", "ended"}
                        \/ alive /\ h'[cur'] = h[cur]
           /\ alive' /\ h'[cur'] \notin {"unstarted", "ended"} =>
                  alive /\ svc'[cur'].mIsDisconnecting = svc[cur].mIsDisconnecting
  <1> USE DEF mainVars, shown, bounds, Down, Starting, Connected
  <1>0. /\ alive => cur \in Instances
        /\ cur < MaxInstances => cur + 1 \in Instances /\ cur + 1 # cur
        /\ svc \in [Instances -> Services] /\ h \in [Instances -> Controls]
        /\ main.pc # "loop" => alive
        /\ \A i \in Instances : (~alive \/ i # cur) => h[i] \in {"unstarted", "ended"}
        /\ \A i \in Instances : h[i] = "unstarted" => svc[i].mCurrentProfile = None
    <2>1. TypeOK /\ HandlerInv
      BY DEF ThreadInv
    <2>2. /\ \A i \in Instances : (~alive \/ i # cur) => h[i] \in {"unstarted", "ended"}
          /\ \A i \in Instances : h[i] = "unstarted" => svc[i].mCurrentProfile = None
      BY <2>1 DEF HandlerInv
    <2>3. cur \in 0..MaxInstances /\ MaxInstances \in Nat /\ (alive => cur # 0)
      BY <2>1, ConstantsAssumption DEF TypeOK
    <2>4. /\ alive => cur \in Instances
          /\ cur < MaxInstances => cur + 1 \in Instances /\ cur + 1 # cur
      BY <2>3 DEF Instances
    <2>5. /\ svc \in [Instances -> Services] /\ h \in [Instances -> Controls]
          /\ main.pc # "loop" => alive
      BY <2>1 DEF TypeOK
    <2> QED BY <2>2, <2>4, <2>5
  <1>1. CASE Deliver
    BY <1>1 DEF Deliver
  <1>2. CASE OnCreate
    BY <1>2, <1>0 DEF OnCreate
  <1>3. CASE OnServiceConnected
    BY <1>3, <1>0 DEF OnServiceConnected, Services
  <1>4. CASE OnDestroy
    BY <1>4, <1>0 DEF OnDestroy, Services
  <1>5. ASSUME NEW p, SetNextProfile(cur, p), alive
        PROVE  /\ svc'[cur].mCurrentProfile = svc[cur].mCurrentProfile
               /\ svc'[cur].mIsDisconnecting = svc[cur].mIsDisconnecting
               /\ h'[cur] = h[cur] \/ (h[cur] = "wait" /\ h'[cur] = "check")
    BY <1>5, <1>0 DEF SetNextProfile, Notified, Services
  <1>6. CASE MainSetsNext
    BY <1>6, <1>5, <1>0 DEF MainSetsNext
  <1>7. CASE HandlerJoined
    BY <1>7 DEF HandlerJoined, HandlerGone
  <1>8. CASE OnRevoke
    BY <1>8, <1>5 DEF OnRevoke
  <1>9. CASE \E p \in Profiles \cup {None}, t \in BOOLEAN : OnStartCommand(p, t)
    BY <1>9 DEF OnStartCommand
  <1> QED BY <1>1, <1>2, <1>3, <1>4, <1>6, <1>7, <1>8, <1>9

LEMMA LinkStep == ThreadInv /\ LinkInv /\ [Next]_vars => LinkInv'
  <1> SUFFICES ASSUME ThreadInv, LinkInv, [Next]_vars PROVE LinkInv'
    OBVIOUS
  <1> USE DEF LinkInv, mainVars, shown, bounds
  <1>0. /\ alive => cur \in Instances
        /\ svc \in [Instances -> Services] /\ h \in [Instances -> Controls]
        /\ link \in [up : BOOLEAN, failed : BOOLEAN]
        /\ NoCall.ev = "none" /\ NoCall.skip = FALSE
        /\ \A i \in Instances : h[i] \in {"flag", "flush", "stop"} => svc[i].mCurrentProfile # None
        /\ \A i \in Instances : h[i] = "next" => svc[i].mCurrentProfile = None
        /\ \A i \in Instances : h[i] \in {"next", "started", "init"} => daemon = NoDaemon
    <2>1. TypeOK /\ HandlerInv
      BY DEF ThreadInv
    <2>2. /\ \A i \in Instances : h[i] \in {"flag", "flush", "stop"} => svc[i].mCurrentProfile # None
          /\ \A i \in Instances : h[i] = "next" => svc[i].mCurrentProfile = None
          /\ \A i \in Instances : h[i] \in {"next", "started", "init"} => daemon = NoDaemon
      BY <2>1 DEF HandlerInv
    <2>3. cur \in 0..MaxInstances /\ MaxInstances \in Nat /\ (alive => cur # 0)
      BY <2>1, ConstantsAssumption DEF TypeOK
    <2> QED BY <2>1, <2>2, <2>3 DEF TypeOK, Instances, NoCall
  <1>1. CASE UNCHANGED vars
    BY <1>1 DEF vars, Starting, Connected
  <1>2. CASE \/ Deliver \/ OnCreate \/ OnServiceConnected \/ OnDestroy
             \/ MainSetsNext \/ HandlerJoined \/ OnRevoke
             \/ \E p \in Profiles \cup {None}, t \in BOOLEAN : OnStartCommand(p, t)
    <2>2. /\ link' = link /\ rep' = rep
          /\ Starting' => Starting
          /\ Connected' => Connected
          /\ alive' /\ h'[cur'] \in {"flush", "stop", "init"} => alive /\ h'[cur'] = h[cur]
          /\ alive' /\ h'[cur'] \in {"flush", "stop", "init", "check", "wait"} =>
                 svc'[cur'].mIsDisconnecting = svc[cur].mIsDisconnecting
      BY <1>2, CallbackKeeps
    <2>3. Connected' => alive' /\ h'[cur'] \in {"check", "wait"}
      BY DEF Connected
    <2>4. Connected' => ~svc'[cur'].mIsDisconnecting /\ ~rep'.skip
      BY <2>2, <2>3
    <2>5. /\ alive' /\ h'[cur'] \in {"flush", "stop"} => svc'[cur'].mIsDisconnecting
          /\ alive' /\ h'[cur'] = "init" => ~svc'[cur'].mIsDisconnecting
      BY <2>2
    <2> QED BY <2>2, <2>4, <2>5
  <1>3. ASSUME NEW i \in Instances, HandlerStep(i) PROVE LinkInv'
    <2>0. alive /\ i = cur
      BY <1>3, HandlerIsCurrent
    <2> USE DEF Starting, Connected
    <2>1. CASE Check(i)
      BY <1>0, <2>0, <2>1 DEF Check, Services
    <2>2. CASE SetDisconnecting(i)
      BY <1>0, <2>0, <2>2 DEF SetDisconnecting, Services
    <2>3. CASE FlushReports(i)
      BY <1>0, <2>0, <2>3 DEF FlushReports
    <2>4. CASE DeinitializeCharon(i)
      BY <1>0, <2>0, <2>4 DEF DeinitializeCharon, Services
    <2>5. CASE Disable(i)
      BY <1>0, <2>0, <2>5 DEF Disable
    <2>6. CASE StartConnection(i)
      BY <1>0, <2>0, <2>6, CallIsCurrent DEF StartConnection, Services
    <2>7. CASE ResetDisconnecting(i)
      BY <1>0, <2>0, <2>7 DEF ResetDisconnecting, Services
    <2>8. CASE InitializeCharon(i)
      BY <1>0, <2>0, <2>8, CallIsCurrent DEF InitializeCharon
    <2>9. CASE InitializeFails(i)
      BY <1>0, <2>0, <2>9, CallIsCurrent DEF InitializeFails, Services
    <2> QED BY <1>3, <2>1, <2>2, <2>3, <2>4, <2>5, <2>6, <2>7, <2>8, <2>9 DEF HandlerStep
  <1>4. ASSUME NEW ev \in Events, Call(ev) PROVE LinkInv'
    <2>1. ~Starting /\ daemon.svc = cur /\ cur \in Instances
      BY <1>4, CallIsCurrent DEF Call
    <2>2. ev \in AllEvents
      BY ConstantsAssumption
    <2> QED BY <1>0, <1>4, <2>1, <2>2 DEF Call, Dropped, Starting, Connected, AllEvents
  <1>5. CASE ReportPosted \/ GetTrustedCertificates
    BY <1>0, <1>5 DEF ReportPosted, GetTrustedCertificates, Starting, Connected
  <1> QED BY <1>1, <1>2, <1>3, <1>4, <1>5 DEF Next

\* What charon's call posts: the state that it said, an error, or neither.
LEMMA ReportFinal ==
    ASSUME ThreadInv, LinkInv, ReportPosted
    PROVE  /\ Connected /\ rep.ev = "up" => FinalState("CONNECTED")'
           /\ Connected /\ rep.ev = "down" => FinalState("CONNECTING")'
           /\ Connected /\ rep.ev = "error" => FinalError("AUTH_FAILED")'
           /\ rep.ev \notin {"up", "down"} => \A x : FinalState(x) => FinalState(x)'
           /\ rep.ev # "error" => \A x : FinalError(x) => FinalError(x)'
           /\ rep.ev = "error" =>
                 (\A x : FinalError(x) => FinalError(x)') \/ FinalError("AUTH_FAILED")'
           /\ \A x : FinalProfile(x) => FinalProfile(x)'
  <1>0. /\ TypeOK /\ cur \in Instances /\ svc[cur].bound /\ rep.svc = cur
        /\ rep.conn \in Nat /\ state' = state /\ queue \in Seq(Msgs)
        /\ rep.ev \in AllEvents \ {"certs"}
        /\ Post(cur, IF rep.skip THEN <<>> ELSE Reported(rep.ev, rep.conn))
    <2>1. rep # NoCall /\ TypeOK
      BY DEF ReportPosted, NoCall, AllEvents, ThreadInv
    <2>2. rep.conn \in Nat /\ rep.svc \in Instances
      BY <2>1 DEF TypeOK
    <2>3. rep.svc = cur /\ svc[cur].bound
      BY <2>1, CallIsCurrent
    <2> QED BY <2>1, <2>2, <2>3 DEF ReportPosted, TypeOK, shown
  <1>1. CASE rep.skip
    <2>1. queue' = queue
      BY <1>0, <1>1, ConcatEmptySeq DEF Post
    <2>2. ~Connected
      BY <1>1 DEF LinkInv
    <2> QED BY <1>0, <2>1, <2>2 DEF FinalState, FinalProfile, FinalError
  <1>2. CASE ~rep.skip
    <2>0. Post(cur, Reported(rep.ev, rep.conn))
      BY <1>0, <1>2
    <2>00. /\ "CONNECTED" \in States /\ "CONNECTING" \in States /\ "AUTH_FAILED" \in Errors
           /\ "BLOCK" \in ImcStates /\ "UNKNOWN" \in ImcStates
           /\ "keep" \notin States /\ "keep" \notin Errors
      BY DEF States, Errors, ImcStates
    <2>1. CASE rep.ev = "up"
      <3> DEFINE m == Msg("state", "CONNECTED", rep.conn)
      <3>1. Post(cur, <<m>>)
        BY <2>0, <2>1 DEF Reported
      <3>2. /\ m \in Msgs /\ StateEffect[m] = "CONNECTED"
            /\ ProfileEffect[m] = None /\ ErrorEffect[m] = "keep"
        BY <1>0, <2>00, Effects
      <3> HIDE DEF m
      <3> QED BY <1>0, <2>1, <3>1, <3>2, PostFinal DEF FinalState
    <2>2. CASE rep.ev = "down"
      <3> DEFINE m == Msg("state", "CONNECTING", rep.conn)
      <3>1. Post(cur, <<m>>)
        BY <2>0, <2>2 DEF Reported
      <3>2. /\ m \in Msgs /\ StateEffect[m] = "CONNECTING"
            /\ ProfileEffect[m] = None /\ ErrorEffect[m] = "keep"
        BY <1>0, <2>00, Effects
      <3> HIDE DEF m
      <3> QED BY <1>0, <2>2, <3>1, <3>2, PostFinal DEF FinalState
    <2>3. CASE rep.ev = "error"
      <3> DEFINE m == Msg("error", "AUTH_FAILED", rep.conn)
      <3>1. Post(cur, <<m>>)
        BY <2>0, <2>3 DEF Reported
      <3>2. /\ m \in Msgs /\ StateEffect[m] = "keep"
            /\ ProfileEffect[m] = None /\ ErrorEffect[m] = "AUTH_FAILED"
        BY <1>0, <2>00, Effects
      <3> HIDE DEF m
      <3> QED BY <1>0, <2>3, <3>1, <3>2, PostFinal DEF FinalError
    <2>4. CASE rep.ev \in {"imc", "imcUnknown", "instr"}
      <3>1. PICK m \in Msgs : /\ Reported(rep.ev, rep.conn) = <<m>>
                              /\ StateEffect[m] = "keep" /\ ProfileEffect[m] = None
                              /\ ErrorEffect[m] = "keep"
        BY <1>0, <2>00, <2>4, Effects DEF Reported
      <3> QED BY <1>0, <2>0, <2>4, <3>1, PostFinal
    <2> QED BY <1>0, <2>1, <2>2, <2>3, <2>4 DEF AllEvents
  <1> QED BY <1>1, <1>2

LEMMA ShownStep == ThreadInv /\ LinkInv /\ ShownInv /\ [Next]_vars => ShownInv'
  <1> SUFFICES ASSUME ThreadInv, LinkInv, ShownInv, [Next]_vars PROVE ShownInv'
    OBVIOUS
  <1> USE DEF ShownInv, mainVars, shown, bounds
  <1>0. /\ TypeOK /\ svc \in [Instances -> Services] /\ h \in [Instances -> Controls]
        /\ conn \in Nat /\ conn + 1 \in Nat
        /\ link \in [up : BOOLEAN, failed : BOOLEAN]
    BY DEF ThreadInv, TypeOK
  <1>q. ASSUME UNCHANGED <<queue, state>>
        PROVE  \A x : (FinalState(x)' <=> FinalState(x)) /\ (FinalProfile(x)' <=> FinalProfile(x))
    BY <1>q DEF FinalState, FinalProfile
  <1>1. CASE UNCHANGED vars
    BY <1>1 DEF vars, Starting, Connected, Down, FinalState, FinalProfile
  <1>2. CASE \/ Deliver \/ OnCreate \/ OnServiceConnected \/ OnDestroy
             \/ MainSetsNext \/ HandlerJoined \/ OnRevoke
             \/ \E p \in Profiles \cup {None}, t \in BOOLEAN : OnStartCommand(p, t)
    <2>1. \A x : (FinalState(x) => FinalState(x)') /\ (FinalProfile(x) => FinalProfile(x)')
      <3>1. CASE Deliver
        BY <1>0, <3>1, DeliverFinal
      <3>2. CASE ~Deliver
        <4>1. UNCHANGED <<queue, state>>
          BY <1>2, <3>2 DEF OnCreate, OnServiceConnected, OnDestroy, MainSetsNext,
                            HandlerJoined, OnRevoke, OnStartCommand
        <4> QED BY <1>q, <4>1
      <3> QED BY <3>1, <3>2
    <2>2. /\ link' = link /\ rep' = rep
          /\ Down' => Down
          /\ Starting' => Starting
          /\ Connected' => Connected
          /\ Starting' \/ Connected' => svc'[cur'].mCurrentProfile = svc[cur].mCurrentProfile
      BY <1>2, CallbackKeeps
    <2> QED BY <2>1, <2>2 DEF FinalState, FinalProfile
  <1>3. ASSUME NEW i \in Instances, HandlerStep(i) PROVE ShownInv'
    <2>0. alive /\ i = cur /\ svc[i].bound
      BY <1>3, HandlerIsCurrent
    <2>1. CASE Check(i)
      <3>1. CASE ~svc[i].mProfileUpdated
        <4>1. UNCHANGED <<queue, state, rep, link, svc, cur, alive>> /\ h[cur] = "check" /\ h'[cur] = "wait"
          BY <1>0, <2>0, <2>1, <3>1 DEF Check
        <4> QED BY <4>1 DEF Starting, Connected, Down, FinalState, FinalProfile
      <3>2. CASE svc[i].mProfileUpdated
        <4>1. h'[cur'] \in {"flag", "next"} /\ alive'
          BY <1>0, <2>0, <2>1, <3>2 DEF Check
        <4> QED BY <4>1 DEF Starting, Connected, Down
      <3> QED BY <3>1, <3>2
    <2>2. CASE SetDisconnecting(i) \/ FlushReports(i) \/ DeinitializeCharon(i)
      <3>1. h'[cur'] \in {"flush", "stop", "next"} /\ alive'
        BY <1>0, <2>0, <2>2 DEF SetDisconnecting, FlushReports, DeinitializeCharon
      <3> QED BY <3>1 DEF Starting, Connected, Down
    <2>3. CASE Disable(i)
      <3> DEFINE m == Msg("state", "DISABLED", conn)
      <3>1. Post(i, <<m>>) /\ state' = state
        BY <2>3 DEF Disable
      <3>2. m \in Msgs /\ StateEffect[m] = "DISABLED"
        BY <1>0, Effects DEF States
      <3>3. FinalState("DISABLED")'
        <4> HIDE DEF m
        <4> QED BY <1>0, <2>0, <3>1, <3>2, PostFinal DEF FinalState
      <3>4. /\ h'[cur'] \in {"ended", "check"} /\ alive'
            /\ svc'[cur'].mCurrentProfile = None
        BY <1>0, <2>0, <2>3 DEF Disable, ThreadInv, HandlerInv
      <3> QED BY <3>3, <3>4 DEF Starting, Connected
    <2>4. CASE StartConnection(i)
      <3> DEFINE p == svc[i].mNextProfile
                 m == Msg("start", p, conn + 1)
      <3>1. Post(i, <<m>>) /\ state' = state
        BY <2>4 DEF StartConnection
      <3>2. p \in Profiles /\ p # None
        BY <1>0, <2>4 DEF StartConnection, HasNext, Services, Wishes
      <3>3. m \in Msgs /\ StateEffect[m] = "CONNECTING" /\ ProfileEffect[m] = p
        BY <1>0, <3>2, Effects
      <3>4. h'[cur'] = "started" /\ alive' /\ svc'[cur'].mCurrentProfile = p
        BY <1>0, <2>0, <2>4 DEF StartConnection, Services
      <3> HIDE DEF m, p
      <3>5. FinalState("CONNECTING")' /\ FinalProfile(svc[cur].mCurrentProfile)'
        BY <1>0, <2>0, <3>1, <3>2, <3>3, <3>4, PostFinal DEF FinalState, FinalProfile
      <3> QED BY <3>4, <3>5 DEF Starting, Connected, Down
    <2>5. CASE ResetDisconnecting(i) \/ InitializeCharon(i)
      <3>1. /\ UNCHANGED <<queue, state, rep, link, cur>> /\ alive'
            /\ svc'[cur].mCurrentProfile = svc[cur].mCurrentProfile
            /\ svc[cur].mCurrentProfile # None
            /\ h[cur] \in {"started", "init"} /\ h'[cur] \in {"init", "check"}
        <4>1. h[i] \in {"started", "init"} => svc[i].mCurrentProfile # None
          BY DEF ThreadInv, HandlerInv
        <4>2. CASE ResetDisconnecting(i)
          BY <1>0, <2>0, <4>1, <4>2 DEF ResetDisconnecting, Services
        <4>3. CASE InitializeCharon(i)
          BY <1>0, <2>0, <4>1, <4>3 DEF InitializeCharon
        <4> QED BY <2>5, <4>2, <4>3
      <3>2. Starting /\ ~Down' /\ ~link.up
        BY <2>0, <3>1 DEF Starting, Down, LinkInv
      <3> QED BY <3>1, <3>2 DEF FinalState, FinalProfile
    <2>6. CASE InitializeFails(i)
      <3> DEFINE a == Msg("error", "GENERIC_ERROR", conn)
                 b == Msg("state", "DISABLED", conn)
      <3>1. /\ a \in Msgs /\ b \in Msgs
            /\ StateEffect[b] = "DISABLED"
        BY <1>0, Effects DEF States, Errors
      <3>2. Post(i, <<a, b>>) /\ state' = state
        BY <2>6 DEF InitializeFails
      <3>3. /\ h'[cur'] = "check" /\ alive' /\ svc'[cur'].mCurrentProfile = None
        BY <1>0, <2>0, <2>6 DEF InitializeFails, Services
      <3> HIDE DEF a, b
      <3>4. queue' = Append(Append(queue, a), b) /\ Append(queue, a) \in Seq(Msgs)
        <4>1. queue \in Seq(Msgs)
          BY <1>0 DEF TypeOK
        <4> QED BY <4>1, <2>0, <3>1, <3>2, ConcatTwo, AppendProperties DEF Post
      <3>5. FinalState("DISABLED")'
        BY <3>1, <3>4, FinalSet DEF FinalState
      <3> QED BY <3>3, <3>5 DEF Starting, Connected
    <2> QED BY <1>3, <2>1, <2>2, <2>3, <2>4, <2>5, <2>6 DEF HandlerStep
  <1>4. ASSUME NEW ev \in Events, Call(ev) PROVE ShownInv'
    <2>1. ~Starting /\ ~Down
      BY <1>4, CallIsCurrent DEF Call
    <2>2. /\ UNCHANGED <<queue, state, cur, alive, svc, h>> /\ rep'.ev = ev
          /\ ev \notin {"up", "down"} => link'.up = link.up
          /\ rep.ev = "none"
      BY <1>4 DEF Call, NoCall
    <2>3. ~Starting' /\ ~Down' /\ (Connected' => Connected)
      BY <2>1, <2>2 DEF Starting, Down, Connected
    <2> QED BY <2>2, <2>3 DEF FinalState, FinalProfile
  <1>5. CASE ReportPosted
    <2>1. rep # NoCall
      BY <1>5 DEF ReportPosted, NoCall, AllEvents
    <2>2. ~Starting /\ ~Down
      BY <2>1, CallIsCurrent
    <2>3. UNCHANGED <<cur, alive, svc, h, link>>
      BY <1>5 DEF ReportPosted
    <2>4. ~Starting' /\ ~Down' /\ (Connected' => Connected)
      BY <2>2, <2>3 DEF Starting, Down, Connected
    <2>5. Connected' => FinalProfile(svc[cur].mCurrentProfile)'
      BY <1>5, <2>3, <2>4, ReportFinal DEF FinalProfile
    <2>6. Connected' => /\ link.up => FinalState("CONNECTED")'
                        /\ ~link.up => FinalState("CONNECTING")'
      <3>1. CASE rep.ev = "up"
        BY <1>5, <2>4, <3>1, ReportFinal DEF LinkInv
      <3>2. CASE rep.ev = "down"
        BY <1>5, <2>4, <3>2, ReportFinal DEF LinkInv
      <3>3. CASE rep.ev \notin {"up", "down"}
        BY <1>5, <2>4, <3>3, ReportFinal
      <3> QED BY <3>1, <3>2, <3>3
    <2> QED BY <2>3, <2>4, <2>5, <2>6
  <1>6. CASE GetTrustedCertificates
    <2>1. UNCHANGED <<queue, state, cur, alive, svc, h, link>> /\ rep.ev = "certs"
      BY <1>6 DEF GetTrustedCertificates
    <2> QED BY <2>1 DEF Starting, Down, Connected, FinalState, FinalProfile
  <1> QED BY <1>1, <1>2, <1>3, <1>4, <1>5, <1>6 DEF Next

LEMMA ErrorStep == ThreadInv /\ LinkInv /\ ErrorInv /\ [Next]_vars => ErrorInv'
  <1> SUFFICES ASSUME ThreadInv, LinkInv, ErrorInv, [Next]_vars PROVE ErrorInv'
    OBVIOUS
  <1> USE DEF mainVars, shown, bounds
  <1>0. /\ TypeOK /\ svc \in [Instances -> Services] /\ h \in [Instances -> Controls]
        /\ conn \in Nat /\ conn + 1 \in Nat
        /\ link \in [up : BOOLEAN, failed : BOOLEAN]
        /\ NoCall.ev = "none"
    BY DEF ThreadInv, TypeOK, NoCall
  <1>e. PICK e \in Errors : /\ FinalError(e)
                            /\ e # "NO_ERROR" => link.failed
                            /\ Connected /\ link.failed /\ rep.ev # "error" => e # "NO_ERROR"
    BY DEF ErrorInv
  <1>k. ASSUME FinalError(e)', link.failed => link'.failed,
               Connected' /\ link'.failed /\ rep'.ev # "error" =>
                   Connected /\ link.failed /\ rep.ev # "error"
        PROVE  ErrorInv'
    BY <1>e, <1>k DEF ErrorInv
  <1>1. CASE UNCHANGED vars
    <2>1. FinalError(e)' /\ link' = link /\ rep' = rep /\ (Connected' => Connected)
      BY <1>1, <1>e DEF vars, FinalError, Connected
    <2> QED BY <1>k, <2>1
  <1>2. CASE \/ Deliver \/ OnCreate \/ OnServiceConnected \/ OnDestroy
             \/ MainSetsNext \/ HandlerJoined \/ OnRevoke
             \/ \E p \in Profiles \cup {None}, t \in BOOLEAN : OnStartCommand(p, t)
    <2>1. FinalError(e)'
      <3>1. CASE Deliver
        BY <1>0, <1>e, <3>1, DeliverFinal
      <3>2. CASE ~Deliver
        <4>1. UNCHANGED <<queue, state>>
          BY <1>2, <3>2 DEF OnCreate, OnServiceConnected, OnDestroy, MainSetsNext,
                            HandlerJoined, OnRevoke, OnStartCommand
        <4> QED BY <1>e, <4>1 DEF FinalError
      <3> QED BY <3>1, <3>2
    <2>2. link' = link /\ rep' = rep /\ (Connected' => Connected)
      BY <1>2, CallbackKeeps
    <2> QED BY <1>k, <2>1, <2>2
  <1>3. ASSUME NEW i \in Instances, HandlerStep(i) PROVE ErrorInv'
    <2>0. alive /\ i = cur /\ svc[i].bound
      BY <1>3, HandlerIsCurrent
    <2>1. CASE Check(i)
      <3>1. link' = link /\ rep' = rep /\ state' = state
        BY <2>1 DEF Check
      <3>2. FinalError(e)'
        <4>1. CASE UNCHANGED queue
          BY <1>e, <3>1, <4>1 DEF FinalError
        <4>2. CASE Post(i, <<Msg("state", "DISCONNECTING", conn)>>)
          <5> DEFINE m == Msg("state", "DISCONNECTING", conn)
          <5>1. m \in Msgs /\ ErrorEffect[m] = "keep"
            BY <1>0, Effects DEF States
          <5> HIDE DEF m
          <5> QED BY <1>0, <1>e, <2>0, <3>1, <4>2, <5>1, PostFinal DEF m
        <4> QED BY <2>1, <4>1, <4>2 DEF Check
      <3>3. Connected' => Connected
        BY <1>0, <2>0, <2>1 DEF Check, Connected, Services
      <3> QED BY <1>k, <3>1, <3>2, <3>3
    <2>2. CASE SetDisconnecting(i) \/ DeinitializeCharon(i)
      <3>1. UNCHANGED <<queue, state, link, rep>> /\ h'[cur'] \in {"flush", "next"}
        BY <1>0, <2>0, <2>2 DEF SetDisconnecting, DeinitializeCharon
      <3> QED BY <1>e, <1>k, <3>1 DEF FinalError, Connected
    <2>3. CASE FlushReports(i)
      <3>1. PICK ev \in {"down", "error"} :
                Post(i, IF Dropped(i, ev) THEN <<>> ELSE Reported(ev, conn))
        BY <2>3 DEF FlushReports
      <3>2. Dropped(i, ev)
        BY <2>0, <2>3 DEF FlushReports, LinkInv, Dropped
      <3>3. queue' = queue
        BY <1>0, <3>1, <3>2, ConcatEmptySeq DEF Post, TypeOK
      <3>4. UNCHANGED <<state, link, rep>> /\ h'[cur'] = "stop"
        BY <1>0, <2>0, <2>3 DEF FlushReports
      <3> QED BY <1>e, <1>k, <3>3, <3>4 DEF FinalError, Connected
    <2>4. CASE Disable(i)
      <3> DEFINE m == Msg("state", "DISABLED", conn)
      <3>1. Post(i, <<m>>) /\ state' = state /\ link' = link /\ rep' = rep
        BY <2>4 DEF Disable
      <3>2. m \in Msgs /\ ErrorEffect[m] = "keep"
        BY <1>0, Effects DEF States
      <3>3. svc'[cur'].mCurrentProfile = None
        BY <1>0, <2>0, <2>4 DEF Disable, ThreadInv, HandlerInv
      <3> HIDE DEF m
      <3>4. FinalError(e)'
        BY <1>0, <1>e, <2>0, <3>1, <3>2, PostFinal
      <3> QED BY <1>k, <3>1, <3>3, <3>4 DEF Connected
    <2>5. CASE StartConnection(i)
      <3> DEFINE p == svc[i].mNextProfile
                 m == Msg("start", p, conn + 1)
      <3>1. Post(i, <<m>>) /\ state' = state
        BY <2>5 DEF StartConnection
      <3>2. p \in Profiles
        BY <1>0, <2>5 DEF StartConnection, HasNext, Services, Wishes
      <3>3. m \in Msgs /\ ErrorEffect[m] = "NO_ERROR"
        BY <1>0, <3>2, Effects
      <3>4. h'[cur'] = "started"
        BY <1>0, <2>0, <2>5 DEF StartConnection, Services
      <3> HIDE DEF m, p
      <3>5. FinalError("NO_ERROR")'
        BY <1>0, <2>0, <3>1, <3>3, PostFinal DEF FinalError
      <3> QED BY <3>4, <3>5 DEF ErrorInv, Connected, Errors
    <2>6. CASE ResetDisconnecting(i) \/ InitializeCharon(i)
      <3>1. /\ UNCHANGED <<queue, state, rep, link>>
            /\ h[cur] \in {"started", "init"}
        BY <2>0, <2>6 DEF ResetDisconnecting, InitializeCharon
      <3>2. ~link.failed
        BY <2>0, <3>1 DEF LinkInv, Starting
      <3> QED BY <1>e, <1>k, <3>1, <3>2 DEF FinalError
    <2>7. CASE InitializeFails(i)
      <3> DEFINE a == Msg("error", "GENERIC_ERROR", conn)
                 b == Msg("state", "DISABLED", conn)
      <3>1. /\ a \in Msgs /\ b \in Msgs
            /\ ErrorEffect[a] = "GENERIC_ERROR" /\ ErrorEffect[b] = "keep"
        BY <1>0, Effects DEF States, Errors
      <3>2. Post(i, <<a, b>>) /\ state' = state /\ link'.failed
        BY <1>0, <2>7 DEF InitializeFails
      <3>3. svc'[cur'].mCurrentProfile = None
        BY <1>0, <2>0, <2>7 DEF InitializeFails, Services
      <3> HIDE DEF a, b
      <3>4. queue' = Append(Append(queue, a), b) /\ Append(queue, a) \in Seq(Msgs)
            /\ queue \in Seq(Msgs)
        <4>1. queue \in Seq(Msgs)
          BY <1>0 DEF TypeOK
        <4> QED BY <4>1, <2>0, <3>1, <3>2, ConcatTwo, AppendProperties DEF Post
      <3>5. Final(Append(queue, a), ErrorEffect, "keep", state.mError, "GENERIC_ERROR")
        BY <3>1, <3>4, FinalSet
      <3>6. FinalError("GENERIC_ERROR")'
        BY <3>1, <3>2, <3>4, <3>5, FinalKept DEF FinalError
      <3> QED BY <3>2, <3>3, <3>6 DEF ErrorInv, Connected, Errors
    <2> QED BY <1>3, <2>1, <2>2, <2>3, <2>4, <2>5, <2>6, <2>7 DEF HandlerStep
  <1>4. ASSUME NEW ev \in Events, Call(ev) PROVE ErrorInv'
    <2>1. /\ UNCHANGED <<queue, state, cur, alive, svc, h>> /\ rep'.ev = ev
          /\ rep.ev = "none"
          /\ link.failed => link'.failed
          /\ ev # "error" => link'.failed = link.failed
      BY <1>0, <1>4 DEF Call
    <2>2. FinalError(e)' /\ (Connected' => Connected)
      BY <1>e, <2>1 DEF FinalError, Connected
    <2> QED BY <1>k, <2>1, <2>2
  <1>5. CASE ReportPosted
    <2>1. link' = link /\ rep'.ev = "none" /\ (Connected' => Connected)
      BY <1>0, <1>5 DEF ReportPosted, Connected
    <2>2. CASE FinalError("AUTH_FAILED")' /\ rep.ev = "error"
      <3>1. link.failed
        BY <2>2 DEF LinkInv
      <3> QED BY <2>1, <2>2, <3>1 DEF ErrorInv, Errors
    <2>3. CASE FinalError(e)' /\ (Connected => rep.ev # "error")
      BY <1>k, <2>1, <2>3
    <2>4. CASE Connected /\ rep.ev = "error"
      BY <1>5, <2>2, <2>4, ReportFinal
    <2> QED BY <1>5, <1>e, <2>2, <2>3, <2>4, ReportFinal
  <1>6. CASE GetTrustedCertificates
    <2>1. UNCHANGED <<queue, state, cur, alive, svc, h, link>> /\ rep.ev = "certs"
      BY <1>6 DEF GetTrustedCertificates
    <2>2. FinalError(e)' /\ (Connected' => Connected)
      BY <1>e, <2>1 DEF FinalError, Connected
    <2> QED BY <1>k, <2>1, <2>2
  <1> QED BY <1>1, <1>2, <1>3, <1>4, <1>5, <1>6 DEF Next

\* The widget is touched when the state changes, by the runnable that changes it.
LEMMA WidgetStep == TypeOK /\ WidgetAgrees /\ [Next]_vars => WidgetAgrees'
  <1> SUFFICES ASSUME TypeOK, WidgetAgrees, [Next]_vars PROVE WidgetAgrees'
    OBVIOUS
  <1>1. CASE UNCHANGED shown
    BY <1>1 DEF WidgetAgrees, shown
  <1>2. CASE Deliver
    <2> DEFINE m == Head(queue)
    <2>1. CASE ApplyStart(m)
      <3> HIDE DEF m
      <3> QED BY <2>1 DEF ApplyStart, NewState, WidgetAgrees
    <2>2. CASE ApplyState(m)
      <3> HIDE DEF m
      <3>1. state'.mState = m.val
        BY <2>2 DEF ApplyState, TypeOK
      <3>2. CASE state.mState = m.val
        <4>1. widget' = widget
          BY <2>2, <3>2 DEF ApplyState
        <4> QED BY <3>1, <3>2, <4>1 DEF WidgetAgrees
      <3>3. CASE state.mState # m.val
        <4>1. widget' <=> m.val = "CONNECTED"
          BY <2>2, <3>3 DEF ApplyState
        <4> QED BY <3>1, <4>1 DEF WidgetAgrees
      <3> QED BY <3>2, <3>3
    <2>3. CASE ApplyError(m) \/ ApplyImc(m) \/ ApplyInstr(m)
      <3> HIDE DEF m
      <3>1. state'.mState = state.mState /\ widget' = widget
        BY <2>3 DEF ApplyError, ApplyImc, ApplyInstr, TypeOK
      <3> QED BY <3>1 DEF WidgetAgrees
    <2> QED BY <1>2, <2>1, <2>2, <2>3 DEF Deliver
  <1>3. CASE ~Deliver
    <2>1. UNCHANGED shown
      BY <1>3 DEF Next, vars, shown, OnCreate, OnServiceConnected, OnDestroy, MainSetsNext,
            HandlerJoined, OnRevoke, OnStartCommand, HandlerStep, Check, SetDisconnecting,
            FlushReports, DeinitializeCharon, Disable, StartConnection, ResetDisconnecting,
            InitializeCharon, InitializeFails, Call, ReportPosted, GetTrustedCertificates
    <2> QED BY <1>1, <2>1
  <1> QED BY <1>2, <1>3

LEMMA RestTheorem == Spec => []RestInv
  <1>1. ThreadInv /\ RestInv /\ [Next]_vars => RestInv'
    BY LinkStep, ShownStep, ErrorStep, WidgetStep DEF RestInv, ThreadInv
  <1> QED BY <1>1, RestInit, ThreadTheorem, PTL DEF Spec

\* What the user sees at rest is true: the state, the profile and the error of the
\* connection charon has, and at all times the widget.
THEOREM ShownTheorem == Spec => []ShownTrue
  <1>1. ThreadInv /\ RestInv => ShownTrue
    <2> SUFFICES ASSUME ThreadInv, RestInv PROVE ShownTrue
      OBVIOUS
    <2> USE DEF RestInv
    <2>0. WidgetAgrees
      OBVIOUS
    <2>1. ASSUME Settled PROVE ShownStateTrue /\ ShownErrorTrue
      <3>0. alive /\ h[cur] = "wait" /\ queue = <<>> /\ rep = NoCall /\ rep.ev = "none"
            /\ cur \in Instances
        BY <2>1, ConstantsAssumption DEF Settled, NoCall, ThreadInv, TypeOK, Instances
      <3>1. /\ \A x : FinalState(x) => x = state.mState
            /\ \A x : FinalProfile(x) => x = state.mProfile
            /\ \A x : FinalError(x) => x = state.mError
        BY <3>0, FinalEmpty DEF FinalState, FinalProfile, FinalError
      <3>2. ShownErrorTrue
        <4>1. PICK e \in Errors : /\ FinalError(e)
                                  /\ e # "NO_ERROR" => link.failed
                                  /\ Connected /\ link.failed /\ rep.ev # "error" => e # "NO_ERROR"
          BY DEF ErrorInv
        <4>2. svc[cur].mCurrentProfile # None => Connected
          BY <3>0 DEF Connected
        <4> QED BY <3>0, <3>1, <4>1, <4>2 DEF ShownErrorTrue
      <3>3. CASE svc[cur].mCurrentProfile = None
        <4>1. Down
          BY <3>0, <3>3 DEF Down
        <4>2. daemon = NoDaemon /\ state.mState = "DISABLED"
          BY <3>1, <4>1, CallIsCurrent DEF ShownInv
        <4> QED BY <3>2, <3>3, <4>2 DEF ShownStateTrue
      <3>4. CASE svc[cur].mCurrentProfile # None
        <4>1. Connected
          BY <3>0, <3>4 DEF Connected
        <4>2. /\ state.mProfile = svc[cur].mCurrentProfile
              /\ link.up => state.mState = "CONNECTED"
              /\ ~link.up => state.mState = "CONNECTING"
          BY <3>0, <3>1, <4>1 DEF ShownInv
        <4>3. daemon = [svc |-> cur, profile |-> svc[cur].mCurrentProfile]
          BY <3>0, <3>4 DEF ThreadInv, HandlerInv
        <4> QED BY <3>2, <3>4, <4>2, <4>3 DEF ShownStateTrue
      <3> QED BY <3>3, <3>4, <3>2
    <2> QED BY <2>0, <2>1 DEF ShownTrue, ShownStateTrue, ShownErrorTrue
  <1> QED BY <1>1, RestTheorem, ThreadTheorem, PTL
=============================================================================
