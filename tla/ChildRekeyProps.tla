--------------------------- MODULE ChildRekeyProps ---------------------------
(* What two peers that rekey and delete CHILD_SAs guarantee. *)
EXTENDS ChildRekey

SaNumbers == Sas \cup {None}
Kinds == {"DELETE", "CREATE", "REKEY"}
Answers == {"OK", "TEMPORARY_FAILURE", "NO_PROPOSAL", "INVALID_KE", "NOT_FOUND", "DONE"}

\* Every state is well typed; in particular a peer never has more than one request
\* and one response on the way.
TypeOK ==
    /\ sa \in [Peers -> [Sas -> [state : {"NONE", "INSTALLED", "REKEYING", "REKEYED",
                                          "DELETING"},
                                 out : {"NONE", "REGISTERED", "INSTALLED"},
                                 rekey : SaNumbers]]]
    /\ task \in [Peers -> [kind : Kinds \cup {"NONE", "EMPTY"}, sent : BOOLEAN,
                           child : SaNumbers, new : SaNumbers, failed : BOOLEAN,
                           coll : {"NONE", "REKEY", "DELETE"}, other : SaNumbers,
                           gone : BOOLEAN, del : SaNumbers, rekeyed : BOOLEAN]]
    /\ queue \in [Peers -> Seq(Kinds \X SaNumbers \X SaNumbers)]
    /\ jobs \in [Peers -> SUBSET ({"DELETE", "REKEY"} \X Sas)]
    /\ air \in [Peers -> Seq([req : BOOLEAN, type : Kinds \cup {"EMPTY"} \cup Answers,
                              child : SaNumbers, new : SaNumbers])]
    /\ \A p \in Peers : \A i, j \in DOMAIN air[p] : air[p][i].req = air[p][j].req => i = j
    /\ down \in [Peers -> SUBSET Sas]
    /\ nonce \in Injection(Sas, Sas)
    /\ scene \in Scenarios
    /\ left \in [rekeys : Nat, deletes : Nat, rejects : Nat, failures : Nat]

\* A task never holds on to a CHILD_SA that has been destroyed meanwhile without
\* knowing it: the one it rekeys is gone only if it has met the peer's deletion, the
\* one the peer's colliding rekeying made only if "other_child_destroyed" says so,
\* and the one it deletes is still there when the response comes.
NoDangling == \A p \in Peers : LET t == task[p] IN
    /\ t.kind = "REKEY" /\ t.sent /\ t.del = None /\ ~Exists(sa[p], t.child) => t.coll = "DELETE"
    /\ t.kind = "REKEY" /\ t.coll = "REKEY" /\ ~Exists(sa[p], t.other) => t.gone
    /\ t.sent /\ t.del # None => sa[p][t.del].state = "DELETING"

\* The tasks are sound: one request and one response at a time on the way, and
\* no task uses a CHILD_SA that has been destroyed.
TasksSound == TypeOK /\ NoDangling

Overtaking == scene.early /\ ~scene.ordered

\* A peer answers a rekeying with CHILD_SA_NOT_FOUND only if the asking peer has met
\* the deletion of that CHILD_SA and ignores the error (process_i): it never sets up
\* a second CHILD_SA beside one that is in use.  The exceptions are a network that lets
\* the request overtake the response by which the CHILD_SA was made, and a CHILD_SA
\* the answering peer could not install, which the asking one uses until it is told.
NotFoundExplained == ~Overtaking /\ scene.failures = 0 =>
    \A p \in Peers : \A i \in DOMAIN air[p] :
       air[p][i].type = "NOT_FOUND" => task[Other(p)].coll = "DELETE"

Live(p) == {c \in Sas : Exists(sa[p], c)}
Outbound(p) == {c \in Sas : sa[p][c].out = "INSTALLED"}

Quiet == \A p \in Peers : /\ task[p].kind = "NONE"
                          /\ queue[p] = <<>>
                          /\ air[p] = <<>>
                          /\ \A c \in Sas : <<"DELETE", c>> \notin jobs[p]

\* Nothing undoes a rekeying the other peer has completed: no rekeying is refused,
\* overtaken by a deletion or left without its SA.
Regular == scene.ordered /\ ~scene.refuses /\ scene.failures = 0
Undeleted == left.deletes = scene.deletes

\* However rekeyings and deletions collided, once they are over both peers have the
\* same CHILD_SAs, installed in both directions; just one if no user deleted any.
Converged == Regular /\ Quiet => \A p \in Peers :
    /\ Live(p) = Live(Other(p))
    /\ \A c \in Live(p) : sa[p][c].state = "INSTALLED" /\ sa[p][c].out = "INSTALLED"
    /\ Undeleted => Cardinality(Live(p)) = 1

\* Rekeying interrupts no traffic: at every moment each peer has an outbound SA
\* whose inbound SA the other peer has installed.
NoOutage == Regular /\ Undeleted => \A p \in Peers : Outbound(p) \cap Live(Other(p)) # {}

\* Messages keep their order; or no CHILD_SA is rekeyed before both peers know it,
\* and none is refused.
Orderly == scene.failures = 0 /\ (scene.ordered \/ ~(scene.early \/ scene.refuses))

\* Unless a user deletes a CHILD_SA, the child_updown hook reports one as gone only
\* if that is one the peer had rekeyed already when the own rekeying was given up
\* (schedule_delayed_rekey resets it to INSTALLED): redundant CHILD_SAs of a
\* collision and rekeyed ones never are.  If messages keep their order and no rekeying
\* is refused, the hook is never called that way.
DownExplained ==
    [][Orderly /\ Undeleted =>
         \A p \in Peers : \A c \in down'[p] \ down[p] : ~Regular /\ sa[p][c].rekey # None]_vars

\* All exchanges, collisions and delayed deletions come to an end.
Settles == []<>Quiet

\* A rekeying between two peers that accept each other's proposals never ends in a
\* child_updown event: "this should never get called as this results in a successful
\* rekeying".
NeverDown == ~scene.refuses /\ scene.failures = 0 /\ Undeleted =>
                \A p \in Peers : down[p] = {}
=============================================================================
