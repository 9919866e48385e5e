----------------------------- MODULE VpnService -----------------------------
(***************************************************************************)
(* The Android service that runs charon (CharonVpnService.java, the JNI    *)
(* entry points of charonservice.c) and the service that publishes the     *)
(* state of the VPN to the UI (VpnStateService.java).                      *)
(*                                                                         *)
(* Four kinds of threads meet here:                                        *)
(*  - the main thread: service callbacks and the runnables posted to it;   *)
(*  - a binder thread, which calls onRevoke;                               *)
(*  - one handler thread per service instance, which starts and stops      *)
(*    charon and keeps the monitor of the service while it does;           *)
(*  - charon's threads, which call back into the service, one at a time,   *)
(*    as the bus serialises them.                                          *)
(***************************************************************************)
EXTENDS Naturals, Sequences

CONSTANTS
    Profiles,      \* VPN profiles (VpnProfile)
    None,          \* a null profile
    MaxInstances,  \* bound: instances of CharonVpnService, one after the other
    MaxRequests,   \* bound: requests to start or stop a connection
    MaxReports,    \* bound: calls of charon per connection
    Events         \* what charon may call back for, a subset of AllEvents

AllEvents == {"up", "down", "error", "imc", "imcUnknown", "instr", "certs"}

ASSUME ConstantsAssumption ==
    /\ None \notin Profiles
    /\ MaxInstances \in Nat \ {0}
    /\ MaxRequests \in Nat
    /\ MaxReports \in Nat
    /\ Events \subseteq AllEvents

Instances == 1..MaxInstances

VARIABLES
    cur,      \* number of the latest CharonVpnService instance, 0 before the first
    alive,    \* whether that instance has been created and not yet destroyed
    svc,      \* the fields of each instance
    h,        \* where its handler thread is
    main,     \* where the main thread is, and the profile it is about to set
    queue,    \* runnables posted to the main thread by VpnStateService
    state,    \* the fields of VpnStateService
    widget,   \* whether VpnStateService last switched the widget to "connected"
    daemon,   \* the instance and profile charon was initialised for, or NoDaemon
    rep,      \* the call charon's threads are making
    conn,     \* auxiliary: connections started so far
    link,     \* auxiliary: what charon last said about the current connection
    wish,     \* auxiliary: the last profile passed to setNextProfile
    requests, \* auxiliary: counts requests, for the bound
    reports   \* auxiliary: counts calls per connection, for the bound

vars == <<cur, alive, svc, h, main, queue, state, widget, daemon, rep,
          conn, link, wish, requests, reports>>

mainVars == <<cur, alive, main>>
shown == <<state, widget>>
bounds == <<requests, reports>>

NoDaemon == [svc |-> 0, profile |-> None]
NoCall == [svc |-> 0, conn |-> 0, ev |-> "none", skip |-> FALSE]
Loop == [pc |-> "loop", next |-> None]

\* A freshly constructed CharonVpnService.
NewService ==
    [mNextProfile |-> None, mProfileUpdated |-> FALSE, mTerminate |-> FALSE,
     mCurrentProfile |-> None, mCurrentCertificateAlias |-> None,
     mIsDisconnecting |-> FALSE, bound |-> FALSE]

\* A freshly constructed VpnStateService. Remediation instructions are known
\* by the connection they were sent for.
NewState ==
    [mConnectionID |-> 0, mProfile |-> None, mState |-> "DISABLED",
     mError |-> "NO_ERROR", mImcState |-> "UNKNOWN",
     mRemediationInstructions |-> {}]

Init ==
    /\ cur = 0
    /\ alive = FALSE
    /\ svc = [i \in Instances |-> NewService]
    /\ h = [i \in Instances |-> "unstarted"]
    /\ main = Loop
    /\ queue = <<>>
    /\ state = NewState
    /\ widget = FALSE
    /\ daemon = NoDaemon
    /\ rep = NoCall
    /\ conn = 0
    /\ link = [up |-> FALSE, failed |-> FALSE]
    /\ wish = None
    /\ requests = 0
    /\ reports = 0

-----------------------------------------------------------------------------
(* Posting to the main thread, and what the posted runnables do there.     *)

Msg(kind, val, c) == [kind |-> kind, val |-> val, conn |-> c]

\* startConnection, setState, setError, ... of CharonVpnService: nothing is
\* posted while the state service is not bound.
Post(i, msgs) == queue' = IF svc[i].bound THEN queue \o msgs ELSE queue

\* The runnable of VpnStateService.startConnection. The widget is not touched.
ApplyStart(m) ==
    /\ state' = [NewState EXCEPT !.mConnectionID = state.mConnectionID + 1,
                                 !.mProfile = m.val,
                                 !.mState = "CONNECTING"]
    /\ UNCHANGED widget

\* The runnable of VpnStateService.setState.
ApplyState(m) ==
    /\ state' = [state EXCEPT !.mState = m.val]
    /\ widget' = IF state.mState # m.val THEN m.val = "CONNECTED" ELSE widget

\* The runnable of VpnStateService.setError.
ApplyError(m) ==
    /\ state' = [state EXCEPT !.mError = m.val]
    /\ UNCHANGED widget

\* The runnable of VpnStateService.setImcState.
ApplyImc(m) ==
    /\ state' = [state EXCEPT !.mImcState = m.val,
                              !.mRemediationInstructions =
                                    IF m.val = "UNKNOWN" THEN {} ELSE @]
    /\ UNCHANGED widget

\* The runnable of VpnStateService.addRemediationInstruction.
ApplyInstr(m) ==
    /\ state' = [state EXCEPT !.mRemediationInstructions = @ \cup {m.conn}]
    /\ UNCHANGED widget

\* The main thread runs the next posted runnable.
Deliver ==
    /\ main.pc = "loop"
    /\ queue # <<>>
    /\ LET m == Head(queue)
       IN  \/ m.kind = "start" /\ ApplyStart(m)
           \/ m.kind = "state" /\ ApplyState(m)
           \/ m.kind = "error" /\ ApplyError(m)
           \/ m.kind = "imc" /\ ApplyImc(m)
           \/ m.kind = "instr" /\ ApplyInstr(m)
    /\ queue' = Tail(queue)
    /\ UNCHANGED <<mainVars, svc, h, daemon, rep, conn, link, wish, bounds>>

-----------------------------------------------------------------------------
(* Requests.                                                               *)

\* A slip: setNextProfile not synchronized.
MonitorFree_Ignored(i) == TRUE

\* The handler thread keeps the monitor of the service except in wait(), and
\* before it enters the synchronized block again.
MonitorFree(i) ==
    h[i] \in {"unstarted", "check", "wait", "ended"}

\* A slip: setNextProfile without notifyAll.
Notified_Not(i) == h[i]

\* notifyAll in setNextProfile.
Notified(i) == IF h[i] = "wait" THEN "check" ELSE h[i]

SetNextProfile(i, p) ==
    /\ MonitorFree(i)
    /\ svc' = [svc EXCEPT ![i].mNextProfile = p, ![i].mProfileUpdated = TRUE]
    /\ h' = [h EXCEPT ![i] = Notified(i)]
    /\ wish' = p

\* The system creates a service instance; bindService is asynchronous.
OnCreate ==
    /\ main.pc = "loop"
    /\ ~alive
    /\ cur < MaxInstances
    /\ cur' = cur + 1
    /\ alive' = TRUE
    /\ UNCHANGED <<svc, h, main, queue, shown, daemon, rep, conn, link, wish,
                   bounds>>

OnServiceConnected ==
    /\ main.pc = "loop"
    /\ alive
    /\ h[cur] = "unstarted"
    /\ svc' = [svc EXCEPT ![cur].bound = TRUE]
    /\ h' = [h EXCEPT ![cur] = "check"]
    /\ UNCHANGED <<mainVars, queue, shown, daemon, rep, conn, link, wish, bounds>>

\* The profile an intent asks for: a toggle of a connected VPN disconnects it.
Wanted(p, isToggle) ==
    IF isToggle /\ svc[cur].bound /\ state.mState = "CONNECTED" THEN None ELSE p

\* onStartCommand up to the monitor of setNextProfile. p = None stands for the
\* DISCONNECT action and for a profile that does not exist.
OnStartCommand(p, isToggle) ==
    /\ main.pc = "loop"
    /\ alive
    /\ requests < MaxRequests
    /\ requests' = requests + 1
    /\ main' = [pc |-> "set", next |-> Wanted(p, isToggle)]
    /\ UNCHANGED <<cur, alive, svc, h, queue, shown, daemon, rep, conn, link,
                   wish, reports>>

\* onDestroy up to the monitor of setNextProfile.
OnDestroy ==
    /\ main.pc = "loop"
    /\ alive
    /\ svc' = [svc EXCEPT ![cur].mTerminate = TRUE]
    /\ main' = [pc |-> "destroy", next |-> None]
    /\ UNCHANGED <<cur, alive, h, queue, shown, daemon, rep, conn, link, wish,
                   bounds>>

\* The main thread gets the monitor in setNextProfile.
MainSetsNext ==
    /\ main.pc \in {"set", "destroy"}
    /\ SetNextProfile(cur, main.next)
    /\ main' = [pc |-> IF main.pc = "set" THEN "loop" ELSE "join", next |-> None]
    /\ UNCHANGED <<cur, alive, queue, shown, daemon, rep, conn, link, bounds>>

\* A slip: onDestroy without the join.
HandlerGone_Unawaited(i) == TRUE

\* mConnectionHandler.join() returns at once for a thread never started.
HandlerGone(i) == h[i] \in {"unstarted", "ended"}

\* The end of onDestroy.
HandlerJoined ==
    /\ main.pc = "join"
    /\ HandlerGone(cur)
    /\ main' = Loop
    /\ alive' = FALSE
    /\ UNCHANGED <<cur, svc, h, queue, shown, daemon, rep, conn, link, wish,
                   bounds>>

\* The binder thread calls onRevoke.
OnRevoke ==
    /\ alive
    /\ requests < MaxRequests
    /\ requests' = requests + 1
    /\ SetNextProfile(cur, None)
    /\ UNCHANGED <<mainVars, queue, shown, daemon, rep, conn, link, reports>>

-----------------------------------------------------------------------------
(* The handler thread (run and stopCurrentConnection).                     *)

\* The head of the loop. A connection is stopped first, beginning with the
\* state shown to the user.
Check(i) ==
    /\ h[i] = "check"
    /\ \/ /\ ~svc[i].mProfileUpdated
          /\ h' = [h EXCEPT ![i] = "wait"]
          /\ UNCHANGED <<svc, queue>>
       \/ /\ svc[i].mProfileUpdated
          /\ svc' = [svc EXCEPT ![i].mProfileUpdated = FALSE]
          /\ IF svc[i].mCurrentProfile # None
             THEN /\ Post(i, <<Msg("state", "DISCONNECTING", conn)>>)
                  /\ h' = [h EXCEPT ![i] = "flag"]
             ELSE /\ h' = [h EXCEPT ![i] = "next"]
                  /\ UNCHANGED queue
    /\ UNCHANGED <<mainVars, shown, daemon, rep, conn, link, wish, bounds>>

\* mIsDisconnecting is set after the state has been posted.
SetDisconnecting(i) ==
    /\ h[i] = "flag"
    /\ svc' = [svc EXCEPT ![i].mIsDisconnecting = TRUE]
    /\ h' = [h EXCEPT ![i] = "flush"]
    /\ UNCHANGED <<mainVars, queue, shown, daemon, rep, conn, link, wish, bounds>>

\* A slip: updateStatus reports a lost CHILD_SA and errors also while stopping.
Dropped_Never(i, ev) == FALSE

\* The reports updateStatus drops while the connection is being stopped.
Dropped(i, ev) == ev \in {"down", "error"} /\ svc[i].mIsDisconnecting

\* What updateStatus, updateImcState and addRemediationInstruction post.
Reported(ev, c) ==
    CASE ev = "up" -> <<Msg("state", "CONNECTED", c)>>
      [] ev = "down" -> <<Msg("state", "CONNECTING", c)>>
      [] ev = "error" -> <<Msg("error", "AUTH_FAILED", c)>>
      [] ev = "imc" -> <<Msg("imc", "BLOCK", c)>>
      [] ev = "imcUnknown" -> <<Msg("imc", "UNKNOWN", c)>>
      [] ev = "instr" -> <<Msg("instr", None, c)>>
      [] OTHER -> <<>>

\* deinitializeCharon flushes the IKE_SAs on the handler thread, which calls
\* the listeners of the backend for the SA that is taken down.
FlushReports(i) ==
    /\ h[i] = "flush"
    /\ \E ev \in {"down", "error"} :
          Post(i, IF Dropped(i, ev) THEN <<>> ELSE Reported(ev, conn))
    /\ h' = [h EXCEPT ![i] = "stop"]
    /\ UNCHANGED <<mainVars, svc, shown, daemon, rep, conn, link, wish, bounds>>

\* A slip: deinitializeCharon without waiting for charon's threads.
ThreadsGone_Unawaited == TRUE

\* charon's threads have been cancelled and joined: no call is in progress.
ThreadsGone == rep = NoCall

DeinitializeCharon(i) ==
    /\ h[i] = "stop"
    /\ ThreadsGone
    /\ daemon' = NoDaemon
    /\ svc' = [svc EXCEPT ![i].mCurrentProfile = None]
    /\ h' = [h EXCEPT ![i] = "next"]
    /\ UNCHANGED <<mainVars, queue, shown, rep, conn, link, wish, bounds>>

HasNext(i) == svc[i].mNextProfile # None

\* No next profile: the VPN is disabled and, in onDestroy, the thread ends.
Disable(i) ==
    /\ h[i] = "next"
    /\ ~HasNext(i)
    /\ Post(i, <<Msg("state", "DISABLED", conn)>>)
    /\ h' = [h EXCEPT ![i] = IF svc[i].mTerminate THEN "ended" ELSE "check"]
    /\ UNCHANGED <<mainVars, svc, shown, daemon, rep, conn, link, wish, bounds>>

StartConnection(i) ==
    /\ h[i] = "next"
    /\ HasNext(i)
    /\ svc' = [svc EXCEPT ![i].mCurrentProfile = svc[i].mNextProfile,
                          ![i].mCurrentCertificateAlias = svc[i].mNextProfile,
                          ![i].mNextProfile = None]
    /\ Post(i, <<Msg("start", svc[i].mNextProfile, conn + 1)>>)
    /\ conn' = conn + 1
    /\ link' = [up |-> FALSE, failed |-> FALSE]
    /\ reports' = 0
    /\ h' = [h EXCEPT ![i] = "started"]
    /\ UNCHANGED <<mainVars, shown, daemon, rep, wish, requests>>

\* mIsDisconnecting is reset after the new connection has been announced.
ResetDisconnecting(i) ==
    /\ h[i] = "started"
    /\ svc' = [svc EXCEPT ![i].mIsDisconnecting = FALSE]
    /\ h' = [h EXCEPT ![i] = "init"]
    /\ UNCHANGED <<mainVars, queue, shown, daemon, rep, conn, link, wish, bounds>>

\* initializeCharon and initiate. charon reports nothing before initiate has
\* registered the backend's listener.
InitializeCharon(i) ==
    /\ h[i] = "init"
    /\ daemon' = [svc |-> i, profile |-> svc[i].mCurrentProfile]
    /\ h' = [h EXCEPT ![i] = "check"]
    /\ UNCHANGED <<mainVars, svc, queue, shown, rep, conn, link, wish, bounds>>

\* initializeCharon fails; it has undone what it initialised.
InitializeFails(i) ==
    /\ h[i] = "init"
    /\ Post(i, <<Msg("error", "GENERIC_ERROR", conn), Msg("state", "DISABLED", conn)>>)
    /\ svc' = [svc EXCEPT ![i].mCurrentProfile = None]
    /\ link' = [link EXCEPT !.failed = TRUE]
    /\ h' = [h EXCEPT ![i] = "check"]
    /\ UNCHANGED <<mainVars, shown, daemon, rep, conn, wish, bounds>>

HandlerStep(i) ==
    \/ Check(i)
    \/ SetDisconnecting(i)
    \/ FlushReports(i)
    \/ DeinitializeCharon(i)
    \/ Disable(i)
    \/ StartConnection(i)
    \/ ResetDisconnecting(i)
    \/ InitializeCharon(i)
    \/ InitializeFails(i)

-----------------------------------------------------------------------------
(* Calls of charon's threads into the service.                             *)

\* charon calls: mIsDisconnecting is read here, the report is posted later.  The
\* reports are not concurrent; asking for certificates, which changes nothing, is
\* taken as one more call in that order.
Call(ev) ==
    /\ daemon # NoDaemon
    /\ rep = NoCall
    /\ reports < MaxReports
    /\ reports' = reports + 1
    /\ rep' = [svc |-> daemon.svc, conn |-> conn, ev |-> ev,
               skip |-> Dropped(daemon.svc, ev)]
    /\ link' = [up |-> IF ev \in {"up", "down"} THEN ev = "up" ELSE link.up,
                failed |-> link.failed \/ ev = "error"]
    /\ UNCHANGED <<mainVars, svc, h, queue, shown, daemon, conn, wish, requests>>

ReportPosted ==
    /\ rep.ev \in AllEvents \ {"certs"}
    /\ Post(rep.svc, IF rep.skip THEN <<>> ELSE Reported(rep.ev, rep.conn))
    /\ rep' = NoCall
    /\ UNCHANGED <<mainVars, svc, h, shown, daemon, conn, link, wish, bounds>>

\* A slip: getTrustedCertificates synchronizes on the service.
GetTrustedCertificates_Synchronized ==
    /\ rep.ev = "certs"
    /\ MonitorFree(rep.svc)
    /\ rep' = NoCall
    /\ UNCHANGED <<mainVars, svc, h, queue, shown, daemon, conn, link, wish, bounds>>

\* getTrustedCertificates reads the volatile alias, not mCurrentProfile, and
\* so does not need the monitor, which the handler thread may have.
GetTrustedCertificates ==
    /\ rep.ev = "certs"
    /\ rep' = NoCall
    /\ UNCHANGED <<mainVars, svc, h, queue, shown, daemon, conn, link, wish, bounds>>

Next ==
    \/ Deliver
    \/ OnCreate
    \/ OnServiceConnected
    \/ \E p \in Profiles \cup {None}, t \in BOOLEAN : OnStartCommand(p, t)
    \/ OnDestroy
    \/ MainSetsNext
    \/ HandlerJoined
    \/ OnRevoke
    \/ \E i \in Instances : HandlerStep(i)
    \/ \E ev \in Events : Call(ev)
    \/ ReportPosted
    \/ GetTrustedCertificates

\* A thread that can go on goes on: the main thread works its queue, gets the
\* monitor and sees the handler end; the handler thread and charon's calls make
\* progress. Requests, binding and what charon reports are not promised.
Fairness ==
    /\ WF_vars(Deliver)
    /\ WF_vars(MainSetsNext)
    /\ WF_vars(HandlerJoined)
    /\ \A i \in Instances : WF_vars(HandlerStep(i))
    /\ WF_vars(ReportPosted)
    /\ WF_vars(GetTrustedCertificates)

Spec == Init /\ [][Next]_vars

LiveSpec == Spec /\ Fairness

=============================================================================
