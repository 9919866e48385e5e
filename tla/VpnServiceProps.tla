-------------------------- MODULE VpnServiceProps --------------------------
(* What the VPN service promises to its user and to charon.                *)
EXTENDS VpnService

Controls == {"unstarted", "check", "wait", "flag", "flush", "stop", "next",
             "started", "init", "ended"}
States == {"DISABLED", "CONNECTING", "CONNECTED", "DISCONNECTING"}
Errors == {"NO_ERROR", "AUTH_FAILED", "GENERIC_ERROR"}
ImcStates == {"UNKNOWN", "BLOCK"}
Wishes == Profiles \cup {None}

Services ==
    [mNextProfile : Wishes, mProfileUpdated : BOOLEAN, mTerminate : BOOLEAN,
     mCurrentProfile : Wishes, mCurrentCertificateAlias : Wishes,
     mIsDisconnecting : BOOLEAN, bound : BOOLEAN]

Msgs ==
    [kind : {"start"}, val : Profiles, conn : Nat]
        \cup [kind : {"state"}, val : States, conn : Nat]
        \cup [kind : {"error"}, val : Errors, conn : Nat]
        \cup [kind : {"imc"}, val : ImcStates, conn : Nat]
        \cup [kind : {"instr"}, val : {None}, conn : Nat]

\* Types of all variables.
TypeOK ==
    /\ cur \in 0..MaxInstances
    /\ alive \in BOOLEAN
    /\ alive => cur # 0
    /\ svc \in [Instances -> Services]
    /\ h \in [Instances -> Controls]
    /\ main \in [pc : {"loop", "set", "destroy", "join"}, next : Wishes]
    /\ main.pc # "loop" => alive
    /\ queue \in Seq(Msgs)
    /\ state \in [mConnectionID : Nat, mProfile : Wishes, mState : States,
                  mError : Errors, mImcState : ImcStates,
                  mRemediationInstructions : SUBSET Nat]
    /\ widget \in BOOLEAN
    /\ daemon \in [svc : Instances, profile : Profiles] \cup {NoDaemon}
    /\ rep \in [svc : Instances, conn : Nat, ev : AllEvents, skip : BOOLEAN]
                  \cup {NoCall}
    /\ conn \in Nat
    /\ link \in [up : BOOLEAN, failed : BOOLEAN]
    /\ wish \in Wishes
    /\ requests \in 0..MaxRequests
    /\ reports \in 0..MaxReports

\* charon is one per process (the globals lib, charon and charonservice):
\* initializeCharon is never called while it runs, not even for the next
\* service instance, deinitializeCharon only by the thread that initialised
\* it, and its threads find the certificate alias of the profile it was
\* initialised for.
OneDaemon ==
    \A i \in Instances :
        /\ h[i] \in {"next", "started", "init"} => daemon = NoDaemon
        /\ h[i] \in {"flag", "flush", "stop"} => daemon.svc = i
        /\ daemon.svc = i =>
               svc[i].mCurrentCertificateAlias = daemon.profile

\* Nothing a connection reported is shown for a later one: in the queue of the
\* main thread no report stands behind the start of a later connection, and the
\* remediation instructions listed are those of the connection shown.
NoStaleReports ==
    /\ \A k \in 1..Len(queue) :
          /\ queue[k].conn >= state.mConnectionID
          /\ queue[k].kind = "start" => queue[k].conn > state.mConnectionID
          /\ \A j \in 1..Len(queue) : j < k =>
                /\ queue[j].conn <= queue[k].conn
                /\ queue[k].kind = "start" => queue[j].conn < queue[k].conn
    /\ state.mRemediationInstructions \subseteq {state.mConnectionID}

\* Nothing is under way: the handler thread waits, everything posted has been
\* applied, and charon is not calling.
Settled ==
    /\ alive
    /\ h[cur] = "wait"
    /\ queue = <<>>
    /\ rep = NoCall

\* Requests are not lost, merged or served out of order while a connection is
\* started or stopped: at rest the VPN is what the last setNextProfile asked
\* for, unless that connection failed, when it was started or later.
LastRequestWins ==
    Settled => \/ svc[cur].mCurrentProfile = wish
               \/ svc[cur].mCurrentProfile = None /\ link.failed

\* At rest the state shown is the truth: disabled without a connection,
\* otherwise the profile charon runs, connected exactly if charon said so last.
ShownStateTrue ==
    Settled =>
        IF svc[cur].mCurrentProfile = None
        THEN state.mState = "DISABLED" /\ daemon = NoDaemon
        ELSE /\ state.mState = IF link.up THEN "CONNECTED" ELSE "CONNECTING"
             /\ state.mProfile = svc[cur].mCurrentProfile
             /\ daemon = [svc |-> cur, profile |-> state.mProfile]

\* At rest an error is shown only if the connection had one; that the SAs are
\* deleted while charon is stopped is not shown as an authentication error.
\* While the connection is still up every error it had is shown.
ShownErrorTrue ==
    Settled => /\ state.mError # "NO_ERROR" => link.failed
               /\ svc[cur].mCurrentProfile # None /\ link.failed =>
                      state.mError # "NO_ERROR"

\* What VpnStateService publishes to the widget follows the state, also when the
\* same state is set twice. Only while connecting may it be the one before.
WidgetAgrees ==
    /\ state.mState = "CONNECTED" => widget
    /\ state.mState \in {"DISABLED", "DISCONNECTING"} => ~widget

\* What VpnStateService shows of the connection is true at rest: the state and
\* its profile, the error, and always what it last published to the widget.
ShownTrue == ShownStateTrue /\ ShownErrorTrue /\ WidgetAgrees

\* The callbacks of the service return: the main thread does not wait forever
\* for the monitor the handler thread has, nor for its end in onDestroy, although
\* stopping charon waits for threads that call back into the service.
CallbacksReturn == main.pc # "loop" ~> main.pc = "loop"

\* A disconnect is carried out, whoever asked for it and whatever was going on.
DisconnectCompletes == wish = None ~> state.mState = "DISABLED" \/ wish # None
=============================================================================
