------------------------------ MODULE MCAccess ------------------------------
(***************************************************************************)
(* Instances of Sessions and of Identity for TLC. In the model they share  *)
(* no variable, so a step of one never changes what the other can do, and  *)
(* it is enough to look at the behaviours of each: the first state says    *)
(* whose they are. Those of Identity leave a browser that never signed in; *)
(* in those of Sessions the realm's variables hold Nobody.                 *)
(***************************************************************************)
EXTENDS Sessions, TLC

CONSTANTS Roles, Workers, MaxRequests, Absent

\* "A realm's roles are few": a walk along the composites stops at _MAX_WALK, 500 roles.
ASSUME WalkAssumption == IsFiniteSet(Roles) /\ Cardinality(Roles) < 500
ASSUME RealmConstants == Absent \notin {"enabled", "disabled"} /\ "identity" \notin Roles

VARIABLES account, direct, comp, signedIn, asking, requests, raced, composed
VARIABLE side

realm == <<account, direct, comp, signedIn, asking, requests, raced, composed>>

Realm == INSTANCE Identity WITH req <- asking

NoRealm ==
    /\ account = Nobody /\ direct = Nobody /\ comp = Nobody /\ signedIn = Nobody
    /\ asking = Nobody /\ requests = Nobody /\ raced = Nobody /\ composed = Nobody

NoBrowser ==
    /\ now = 0 /\ cookie = Empty /\ req = [r \in Requests |-> Idle] /\ arrivals = 0
    /\ redirects = {} /\ asked = 0 /\ codes = {} /\ results = {} /\ cache = {}
    /\ tokens = <<>> /\ sso = [user |-> Nobody, auth |-> 0]

AccessInit ==
    \/ side = "realm" /\ Realm!Init /\ NoBrowser
    \/ side = "browser" /\ Init /\ NoRealm

AccessNext ==
    \/ side = "realm" /\ Realm!Next /\ UNCHANGED <<side, vars>>
    \/ side = "browser" /\ Next /\ UNCHANGED <<side, realm>>

AccessSpec == AccessInit /\ [][AccessNext]_<<side, realm, vars>>

\* Neither names an element of these sets. Requests are the Workers, of which one permutation
\* moves both.
Symmetry == Permutations(Accounts) \cup Permutations(Roles) \cup Permutations(Workers)

\* The properties of Identity, under their names there.
SomebodyRemains == side = "realm" => Realm!SomebodyRemains
NoLoops == side = "realm" => Realm!NoLoops

=============================================================================
