------------------------------ MODULE Identity ------------------------------
(***************************************************************************)
(* Accounts and realm roles: what the Users and the Roles page do to       *)
(* Keycloak, one request to it at a time.                                  *)
(*                                                                         *)
(* core/users_service.py, core/roles_service.py, core/keycloak_users.py,   *)
(* routers/api_users.py, routers/api_roles.py.                             *)
(*                                                                         *)
(* The manager acts with the token of whoever is signed in, and Keycloak,  *)
(* which is external, looks at that account's rights as they are at every  *)
(* request. The route's own check reads the claims of the session, which   *)
(* may be old, so anybody may get as far as asking. A role is its name,    *)
(* descriptions and passwords are left out.                                *)
(***************************************************************************)
EXTENDS Integers, FiniteSets

CONSTANTS
    Accounts, Roles,    \* the roles of the realm that are not built in
    Workers,            \* requests to the manager that may be under way together
    MaxRequests,        \* bound on requests
    Absent              \* an account that is not there

VARIABLES
    account,    \* whether an account is there, enabled or disabled
    direct,     \* the realm roles of an account
    comp,       \* the roles there are, with the realm roles each contains
    signedIn,   \* the accounts with a session in Keycloak
    req,        \* the requests under way
    requests,   \* how many there were
    raced,      \* some role was changed while another change of roles was under way
    composed    \* some role contained the identity role

vars == <<account, direct, comp, signedIn, req, requests, raced, composed>>
realm == <<account, direct, comp, signedIn>>

Identity == "identity"      \* the role that may manage users and roles; it is built in
RoleNames == Roles \cup {Identity}
NoRequest == [at |-> "idle", actor |-> Absent, op |-> "none", on |-> Absent, role |-> Identity,
              want |-> {}, cur |-> {}]

Present == {a \in Accounts : account[a] # Absent}
Known == DOMAIN comp

\* A role and everything below it: `_reaches` walks the composites until there is nothing new.
Closed(found) == \A x \in found \cap Known : comp[x] \subseteq found
Below(r) == {x \in RoleNames : \A found \in SUBSET RoleNames : r \in found /\ Closed(found) => x \in found}
Effective(a) == UNION {Below(r) : r \in direct[a]}

\* Keycloak lets this account do it.
Authorized(a) == account[a] = "enabled" /\ Identity \in Effective(a)

\* _require_editable, and the roles that are Keycloak's own are not shown at all.
RequireEditable(r) == r # Identity

-----------------------------------------------------------------------------
(* A request of a page begins *)

Begin(w, r) ==
    /\ req[w].at = "idle" /\ requests < MaxRequests
    /\ requests' = requests + 1
    /\ req' = [req EXCEPT ![w] = r]
    /\ UNCHANGED <<realm, raced, composed>>

Asked(op, at, actor) == [NoRequest EXCEPT !.op = op, !.at = at, !.actor = actor]

\* set_enabled: nobody disables their own account.
SetEnabledUnguarded(w, actor, u, on) ==
    Begin(w, [Asked(IF on THEN "enable" ELSE "disable", "write", actor) EXCEPT !.on = u])
SetEnabled(w, actor, u, on) ==
    /\ on \/ u # actor
    /\ SetEnabledUnguarded(w, actor, u, on)

SetRoles(w, actor, u, want) ==
    Begin(w, [Asked("set_roles", "read", actor) EXCEPT !.on = u, !.want = want])

CreateUser(w, actor, u, want) ==
    /\ account[u] = Absent
    /\ Begin(w, [Asked("create_user", "read", actor) EXCEPT !.on = u, !.want = want])

EndSessions(w, actor, u) ==
    /\ u # actor
    /\ Begin(w, [Asked("end_sessions", "logout", actor) EXCEPT !.on = u])

CreateRole(w, actor, r, want) ==
    /\ RequireEditable(r)
    /\ Begin(w, [Asked("create_role", "read", actor) EXCEPT !.role = r, !.want = want])

UpdateRole(w, actor, r, want) ==
    /\ RequireEditable(r)
    /\ Begin(w, [Asked("update_role", "read", actor) EXCEPT !.role = r, !.want = want])

DeleteRole(w, actor, r) ==
    /\ RequireEditable(r)
    /\ Begin(w, [Asked("delete_role", "read", actor) EXCEPT !.role = r])

-----------------------------------------------------------------------------
(* One request to Keycloak each; what it refuses ends the request there *)

Goto(w, at) == req' = [req EXCEPT ![w] = IF at = "idle" THEN NoRequest ELSE [@ EXCEPT !.at = at]]
Refused(w) == Goto(w, "idle") /\ UNCHANGED <<realm, requests, raced, composed>>

\* Keycloak may also fail for reasons of its own.
KeycloakFails(w) == req[w].at # "idle" /\ Refused(w)

\* set_roles: what is known and what the account holds; nobody takes their own identity role.
ReadRoles(w) ==
    LET q == req[w]
        cur == direct[q.on] \cap Known
    IN /\ q.at = "read" /\ q.op = "set_roles" /\ q.on \in Present
       /\ IF q.want \subseteq Known /\ ~(q.on = q.actor /\ Identity \in cur \ q.want)
          THEN req' = [req EXCEPT ![w].at = "add", ![w].cur = cur]
          ELSE req' = [req EXCEPT ![w] = NoRequest]
       /\ UNCHANGED <<realm, requests, raced, composed>>

\* create, up to the account: the roles are checked before anything is written.
NewUser(w) ==
    LET q == req[w]
    IN /\ q.at = "read" /\ q.op = "create_user"
       /\ Authorized(q.actor) /\ account[q.on] = Absent /\ q.want \subseteq Known
       /\ account' = [account EXCEPT ![q.on] = "enabled"]
       /\ Goto(w, "add")
       /\ UNCHANGED <<direct, comp, signedIn, requests, raced, composed>>

ToAdd(q) == q.want \ q.cur
ToRemove(q) == q.cur \ q.want

\* add_roles and remove_roles; neither is called with nothing to do. A role may be gone by now.
AddRoles(w) ==
    LET q == req[w]
    IN /\ q.at = "add" /\ q.op \in {"set_roles", "create_user"}
       /\ ToAdd(q) = {} \/ (Authorized(q.actor) /\ ToAdd(q) \subseteq Known)
       /\ direct' = [direct EXCEPT ![q.on] = @ \cup ToAdd(q)]
       /\ Goto(w, IF q.op = "set_roles" /\ ToRemove(q) # {} THEN "remove" ELSE "idle")
       /\ UNCHANGED <<account, comp, signedIn, requests, raced, composed>>

RemoveRoles(w) ==
    LET q == req[w]
    IN /\ q.at = "remove" /\ q.op = "set_roles"
       /\ Authorized(q.actor) /\ ToRemove(q) \subseteq Known
       /\ direct' = [direct EXCEPT ![q.on] = @ \ ToRemove(q)]
       /\ Goto(w, "idle")
       /\ UNCHANGED <<account, comp, signedIn, requests, raced, composed>>

\* update_user with the whole representation; disabling goes on to end the account's sessions.
WriteEnabled(w) ==
    LET q == req[w]
    IN /\ q.at = "write" /\ Authorized(q.actor) /\ q.on \in Present
       /\ account' = [account EXCEPT ![q.on] = IF q.op = "enable" THEN "enabled" ELSE "disabled"]
       /\ Goto(w, IF q.op = "disable" THEN "logout" ELSE "idle")
       /\ UNCHANGED <<direct, comp, signedIn, requests, raced, composed>>

Logout(w) ==
    LET q == req[w]
    IN /\ q.at = "logout" /\ Authorized(q.actor) /\ q.on \in Present
       /\ signedIn' = signedIn \ {q.on}
       /\ Goto(w, "idle")
       /\ UNCHANGED <<account, direct, comp, requests, raced, composed>>

\* A change of the composites: another change of roles under way works on what it read before.
Compose(w, c) ==
    /\ comp' = c
    /\ raced' = (raced \/ \E o \in Workers \ {w} : req[o].op \in {"create_role", "update_role"})
    /\ composed' = (composed \/ \E r \in DOMAIN c \ {Identity} : Identity \in c[r])

NewRole(w) ==
    LET q == req[w]
    IN /\ q.at = "read" /\ q.op = "create_role"
       /\ Authorized(q.actor) /\ q.role \notin Known /\ q.want \subseteq Known
       /\ Compose(w, [r \in Known \cup {q.role} |-> IF r = q.role THEN {} ELSE comp[r]])
       /\ Goto(w, "members")
       /\ UNCHANGED <<account, direct, signedIn, requests>>

\* update, up to the check that no member to add reaches the role.
ReachesItself(m, r) == m = r
Reaches(m, r) == r \in Below(m)
ReadRole(w) ==
    LET q == req[w]
        cur == comp[q.role]
    IN /\ q.at = "read" /\ q.op = "update_role" /\ q.role \in Known
       /\ q.want \subseteq Known
       /\ IF \E m \in q.want \ cur : Reaches(m, q.role)
          THEN req' = [req EXCEPT ![w] = NoRequest]
          ELSE req' = [req EXCEPT ![w].at = "members", ![w].cur = cur]
       /\ UNCHANGED <<realm, requests, raced, composed>>

\* add_role_composites and remove_role_composites
AddMembers(w) ==
    LET q == req[w]
    IN /\ q.at = "members"
       /\ ToAdd(q) = {} \/ (Authorized(q.actor) /\ ToAdd(q) \cup {q.role} \subseteq Known)
       /\ Compose(w, [r \in Known |-> IF r = q.role THEN comp[r] \cup ToAdd(q) ELSE comp[r]])
       /\ Goto(w, IF ToRemove(q) # {} THEN "unmembers" ELSE "idle")
       /\ UNCHANGED <<account, direct, signedIn, requests>>

RemoveMembers(w) ==
    LET q == req[w]
    IN /\ q.at = "unmembers"
       /\ Authorized(q.actor) /\ ToRemove(q) \cup {q.role} \subseteq Known
       /\ Compose(w, [comp EXCEPT ![q.role] = @ \ ToRemove(q)])
       /\ Goto(w, "idle")
       /\ UNCHANGED <<account, direct, signedIn, requests>>

\* Whoever holds the role, or contains it, does not any more.
RemoveRole(w) ==
    LET q == req[w]
    IN /\ q.at = "read" /\ q.op = "delete_role"
       /\ Authorized(q.actor) /\ q.role \in Known
       /\ Compose(w, [r \in Known \ {q.role} |-> comp[r] \ {q.role}])
       /\ direct' = [a \in Accounts |-> direct[a] \ {q.role}]
       /\ Goto(w, "idle")
       /\ UNCHANGED <<account, signedIn, requests>>

SignIn(a) ==
    /\ account[a] = "enabled" /\ a \notin signedIn
    /\ signedIn' = signedIn \cup {a}
    /\ UNCHANGED <<account, direct, comp, req, requests, raced, composed>>

-----------------------------------------------------------------------------

\* A realm that somebody may manage, and perhaps others too.
Init ==
    /\ \E admins \in (SUBSET Accounts) \ {{}} :
          /\ account = [a \in Accounts |-> IF a \in admins THEN "enabled" ELSE Absent]
          /\ direct = [a \in Accounts |-> IF a \in admins THEN {Identity} ELSE {}]
          /\ signedIn = admins
    /\ comp = [r \in RoleNames |-> {}]
    /\ req = [w \in Workers |-> NoRequest] /\ requests = 0
    /\ raced = FALSE /\ composed = FALSE

Pages(w, actor) ==
    \/ \E u \in Present :
          \/ \E on \in BOOLEAN : SetEnabled(w, actor, u, on)
          \/ \E want \in SUBSET RoleNames : SetRoles(w, actor, u, want)
          \/ EndSessions(w, actor, u)
    \/ \E u \in Accounts, want \in SUBSET RoleNames : CreateUser(w, actor, u, want)
    \/ \E r \in RoleNames, want \in SUBSET RoleNames :
          CreateRole(w, actor, r, want) \/ UpdateRole(w, actor, r, want)
    \/ \E r \in RoleNames : DeleteRole(w, actor, r)

Keycloak(w) ==
    \/ KeycloakFails(w)
    \/ ReadRoles(w) \/ NewUser(w) \/ AddRoles(w) \/ RemoveRoles(w) \/ WriteEnabled(w) \/ Logout(w)
    \/ NewRole(w) \/ ReadRole(w) \/ AddMembers(w) \/ RemoveMembers(w) \/ RemoveRole(w)

Next ==
    \/ \E w \in Workers : Keycloak(w) \/ \E actor \in signedIn : Pages(w, actor)
    \/ \E a \in Accounts : SignIn(a)

Spec == Init /\ [][Next]_vars

-----------------------------------------------------------------------------
(* Properties *)

\* "Protection against the one mistake that leaves nobody able to undo it": whatever administrators
\* do to each other at the same time, some enabled account may still manage the realm, as long
\* as nobody put the identity role into a role that can be edited.
SomebodyRemains == composed \/ \E a \in Accounts : account[a] = "enabled" /\ Identity \in direct[a]

\* "A role cannot contain itself, directly or through another role", unless roles were changed
\* while the check for it was under way.
NoLoops == raced \/ \A r \in Known : \A m \in comp[r] : r \notin Below(m)

=============================================================================
