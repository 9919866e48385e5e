------------------------------ MODULE Exchange ------------------------------
(***************************************************************************)
(* What the IKEv2 task managers of two peers promise their tasks: remote   *)
(* calls in both directions over a network that loses, repeats and delays  *)
(* messages.  Each peer has at most one call outstanding, the other peer   *)
(* executes every call at most once and in order, and an answer is taken   *)
(* only for a call that was executed.  Either peer may go down for good.   *)
(*                                                                         *)
(* The IKE_SA_INIT exchange is not part of it: it is not at-most-once, as  *)
(* it may be started again from message ID 0.                              *)
(***************************************************************************)
EXTENDS Naturals, Sequences

CONSTANTS Peers,        \* the two ends of the IKE_SA
          Kinds         \* what a call may ask for

VARIABLES calls,        \* calls[p]: the calls p made, in order
          execs,        \* execs[p]: the calls of the other peer p executed
          answers,      \* answers[p]: the calls whose answer p has taken
          up            \* up[p]: p still keeps the IKE_SA

xvars == <<calls, execs, answers, up>>

Partner(p) == CHOOSE q \in Peers : q # p

Init == /\ calls = [p \in Peers |-> <<>>]
        /\ execs = [p \in Peers |-> <<>>]
        /\ answers = [p \in Peers |-> <<>>]
        /\ up = [p \in Peers |-> TRUE]

\* In the same step the peer may go down, whatever else it did.
MayGoDown(p) == \/ UNCHANGED up
                \/ up' = [up EXCEPT ![p] = FALSE]

\* The answer to the only outstanding call, if that has been executed.
Answered(p) ==
    /\ Len(answers[p]) < Len(execs[Partner(p)])
    /\ answers' = [answers EXCEPT ![p] = Append(@, execs[Partner(p)][Len(@) + 1])]

Called(p, taken) ==
    /\ Len(calls[p]) = taken
    /\ \E k \in Kinds : calls' = [calls EXCEPT ![p] = Append(@, k)]

Call(p) == /\ up[p]
           /\ Called(p, Len(answers[p]))
           /\ MayGoDown(p)
           /\ UNCHANGED <<execs, answers>>

\* An answer is taken, and the next call made at once if there is one.
Return(p) == /\ up[p]
             /\ Answered(p)
             /\ UNCHANGED calls \/ Called(p, Len(answers[p]) + 1)
             /\ MayGoDown(p)
             /\ UNCHANGED execs

Execute(p) ==
    LET n == Len(execs[p]) IN
    /\ up[p]
    /\ n < Len(calls[Partner(p)])
    /\ execs' = [execs EXCEPT ![p] = Append(@, calls[Partner(p)][n + 1])]
    /\ MayGoDown(p)
    /\ UNCHANGED <<calls, answers>>

Leave(p) == /\ up[p]
            /\ up' = [up EXCEPT ![p] = FALSE]
            /\ UNCHANGED <<calls, execs, answers>>

Next == \E p \in Peers : Call(p) \/ Return(p) \/ Execute(p) \/ Leave(p)

Spec == Init /\ [][Next]_xvars

=============================================================================
