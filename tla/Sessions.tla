------------------------------ MODULE Sessions ------------------------------
(***************************************************************************)
(* One browser's session with the manager: sign-in, renewal, the access    *)
(* token of the Users page, step-up and sign-out.                          *)
(*                                                                         *)
(* auth/deps.py, auth/user_token.py, auth/oidc.py, routers/auth.py.        *)
(*                                                                         *)
(* The session is a signed cookie. A request works on the copy it arrived  *)
(* with and its answer replaces the browser's cookie, so requests that are *)
(* under way together overwrite each other. Keycloak is external, and a    *)
(* refresh token is good for one renewal.                                  *)
(***************************************************************************)
EXTENDS Integers, FiniteSets

CONSTANTS
    Accounts,
    Requests,       \* requests that may be under way together
    Nobody,
    Life, Skew, Ttl,        \* of an access token, before its end, of a renewal's result
    MaxTime, MaxTokens, MaxRedirects, MaxArrivals   \* bounds

ASSUME SessionConstants ==
    /\ Nobody \notin Accounts
    /\ {Life, Skew, Ttl, MaxTime, MaxTokens, MaxRedirects, MaxArrivals} \subseteq Nat

VARIABLES
    now,
    cookie,
    req,
    arrivals,   \* how many requests there were
    redirects,  \* the verifiers of the browser's ways to the sign-in form
    asked,      \* how many of those there were
    codes,      \* sign-ins on their way back
    results,    \* _refresh_results
    cache,      \* user_token._cache
    tokens,     \* the refresh tokens Keycloak issued, in order
    sso         \* Keycloak's session: who signed in and which sign-in that was

vars == <<now, cookie, req, arrivals, redirects, asked, codes, results, cache, tokens, sso>>
manager == <<results, cache>>
forms == <<redirects, asked>>
keycloak == <<codes, tokens, sso>>

NoStep == [sub |-> Nobody, auth |-> 0, was |-> 0]
NoPending == [verifier |-> 0, sub |-> Nobody, auth |-> 0]
Empty == [user |-> Nobody, auth |-> 0, exp |-> 0, token |-> 0, step |-> NoStep, pending |-> NoPending]
Idle == [at |-> "idle", kind |-> "none", s |-> Empty, since |-> 0, code |-> [verifier |-> 0]]

Issued == DOMAIN tokens
Sessions == {cookie} \cup {req[r].s : r \in Requests}

-----------------------------------------------------------------------------
(* Keycloak and the browser *)

Time == now < MaxTime /\ now' = now + 1 /\ UNCHANGED <<arrivals, cookie, req, forms, manager, keycloak>>

\* What the browser signs in as at a form: silently with the session there is, or with a password.
SignIn(d, a) ==
    /\ redirects' = redirects \ {d}
    /\ sso' \in {sso, [user |-> a, auth |-> sso.auth + 1]} /\ sso'.user = a
    /\ codes' = codes \cup {[verifier |-> d, user |-> a, auth |-> sso'.auth]}
    /\ UNCHANGED <<now, arrivals, cookie, req, asked, manager, tokens>>

SsoEnds ==
    /\ sso.user # Nobody /\ sso' = [sso EXCEPT !.user = Nobody]
    /\ UNCHANGED <<now, arrivals, cookie, req, forms, manager, codes, tokens>>

\* A token of a session that goes on, and that was not used yet.
Accepts(t) == t \in Issued /\ ~tokens[t].used /\ sso.user = tokens[t].user /\ sso.auth = tokens[t].auth
NewToken == Cardinality(Issued) + 1
Fresh(a, auth) == [user |-> a, auth |-> auth, used |-> FALSE, by |-> "none", since |-> 0]

\* Keycloak exchanges t for a new one; who did it, and since when, is remembered.
Rotate(t, by, since) ==
    tokens' = [x \in Issued \cup {NewToken} |->
                 IF x = NewToken THEN [tokens[t] EXCEPT !.used = FALSE]
                 ELSE IF x = t THEN [tokens[t] EXCEPT !.used = TRUE, !.by = by, !.since = since]
                 ELSE tokens[x]]

-----------------------------------------------------------------------------
(* A request *)

Respond(r, s) == cookie' = s /\ req' = [req EXCEPT ![r] = Idle]
Step(r, at, s) == req' = [req EXCEPT ![r].at = at, ![r].s = s] /\ UNCHANGED cookie

Counted == arrivals < MaxArrivals /\ arrivals' = arrivals + 1

\* get_current_user: without a session there is nothing to do, and claims that are about to expire
\* are renewed first.
CurrentUser == IF cookie.exp - now >= Skew THEN "go on" ELSE "renew"
Arrive(r, kind) ==
    /\ req[r].at = "idle" /\ cookie.user # Nobody /\ Counted
    /\ req' = [req EXCEPT ![r] = [Idle EXCEPT !.kind = kind, !.s = cookie,
                                    !.at = IF CurrentUser = "renew" THEN "renew" ELSE kind]]
    /\ UNCHANGED <<now, cookie, forms, manager, keycloak>>

Renewed(s, t) == [s EXCEPT !.exp = now + Life, !.token = t]

\* The lock of the token is free, what is too old is pruned, and a result of another is taken.
CachedNever(t) == {}
Cached(t) == {x \in results : x.key = t /\ now - x.since <= Ttl}
Renew(r) ==
    LET s == req[r].s
    IN /\ req[r].at = "renew"
       /\ ~ \E o \in Requests : req[o].at = "asking" /\ req[o].s.token = s.token
       /\ results' = {x \in results : now - x.since <= Ttl}
       /\ \/ \E x \in Cached(s.token) : Step(r, req[r].kind, [s EXCEPT !.exp = x.exp, !.token = x.token])
          \/ /\ Cached(s.token) = {} /\ UNCHANGED cookie
             /\ req' = [req EXCEPT ![r].at = "asking", ![r].since = now]
       /\ UNCHANGED <<now, arrivals, forms, cache, keycloak>>

RenewAnswered(r) ==
    LET s == req[r].s
    IN /\ req[r].at = "asking" /\ Accepts(s.token) /\ NewToken <= MaxTokens
       /\ Rotate(s.token, "renewal", req[r].since)
       /\ results' = results \cup {[key |-> s.token, since |-> req[r].since,
                                    token |-> NewToken, exp |-> now + Life]}
       /\ Step(r, req[r].kind, Renewed(s, NewToken))
       /\ UNCHANGED <<now, arrivals, forms, cache, codes, sso>>

\* Refused, or no answer: claims that still hold go on, expired ones end the session.
RenewFails(r) ==
    LET s == req[r].s
    IN /\ req[r].at = "asking"
       /\ IF s.exp <= now THEN Respond(r, Empty) ELSE Step(r, req[r].kind, s)
       /\ UNCHANGED <<now, arrivals, forms, manager, keycloak>>

\* A page that needs nothing more.
Page(r) ==
    /\ req[r].at = "page" /\ Respond(r, req[r].s)
    /\ UNCHANGED <<now, arrivals, forms, manager, keycloak>>

\* user_access_token, with a lock and a cache of its own.
Held(t) == {x \in cache : x.key = t /\ x.exp - now > 0}
UserToken(r) ==
    LET s == req[r].s
    IN /\ req[r].at = "users"
       /\ IF Held(s.token) # {} THEN Respond(r, s)
          ELSE /\ ~ \E o \in Requests : req[o].at = "token" /\ req[o].s.token = s.token
               /\ Step(r, "token", s)
       /\ UNCHANGED <<now, arrivals, forms, manager, keycloak>>

UserTokenAnswered(r) ==
    LET s == req[r].s
    IN /\ req[r].at = "token"
       /\ \/ Respond(r, s) /\ UNCHANGED <<cache, tokens>>
          \/ /\ Accepts(s.token) /\ NewToken <= MaxTokens
             /\ Rotate(s.token, "users", now)
             /\ cache' = {x \in cache : x.exp > now} \cup
                         {[key |-> t, exp |-> now + Life, access |-> NewToken] :
                              t \in {s.token, NewToken}}
             /\ Respond(r, Renewed(s, NewToken))
       /\ UNCHANGED <<now, arrivals, forms, results, codes, sso>>

\* login and step_up send the browser to the form; the step-up is tied to its redirect.
Redirect(v) ==
    /\ v = asked + 1 /\ v <= MaxRedirects
    /\ asked' = v /\ redirects' = redirects \cup {v}

Login ==
    /\ Redirect(asked + 1)
    /\ UNCHANGED <<now, arrivals, cookie, req, manager, keycloak>>

StepUp(r) ==
    LET s == req[r].s
        v == asked + 1
    IN /\ req[r].at = "stepup" /\ Redirect(v)
       /\ Respond(r, [s EXCEPT !.pending = [verifier |-> v, sub |-> s.user, auth |-> s.auth]])
       /\ UNCHANGED <<now, arrivals, manager, keycloak>>

\* The browser comes back with a code.
CallbackArrives(r, c) ==
    /\ req[r].at = "idle" /\ c \in codes /\ Counted
    /\ codes' = codes \ {c}
    /\ req' = [req EXCEPT ![r] = [Idle EXCEPT !.at = "callback", !.s = cookie, !.code = c]]
    /\ UNCHANGED <<now, cookie, forms, manager, tokens, sso>>

\* _finish_step_up: only the redirect it was asked with, the same account and a newer sign-in.
OrdinaryKeeping(s) == s
Ordinary(s) == [s EXCEPT !.step = NoStep]
Confirms(s, c) == c.user = s.pending.sub /\ c.auth > s.pending.auth
FinishStepUp(s, c) ==
    IF s.pending.verifier # c.verifier THEN Ordinary(s)
    ELSE [s EXCEPT !.pending = NoPending, !.step = [sub |-> c.user, auth |-> c.auth, was |-> s.pending.auth]]

Callback(r) ==
    LET s == req[r].s
        c == req[r].code
    IN /\ req[r].at = "callback"
       /\ \/ Respond(r, s) /\ UNCHANGED tokens          \* the exchange failed, or no role
          \/ /\ s.pending.verifier = c.verifier /\ ~Confirms(s, c)
             /\ Respond(r, [s EXCEPT !.pending = NoPending]) /\ UNCHANGED tokens
          \/ /\ s.pending.verifier = c.verifier => Confirms(s, c)
             /\ NewToken <= MaxTokens
             /\ tokens' = [x \in Issued \cup {NewToken} |->
                  IF x \in Issued THEN tokens[x]
                  ELSE Fresh(c.user, c.auth)]
             /\ Respond(r, [FinishStepUp(s, c) EXCEPT !.user = c.user, !.auth = c.auth,
                                                      !.exp = now + Life, !.token = NewToken])
       /\ UNCHANGED <<now, arrivals, forms, manager, codes, sso>>

\* logout: Keycloak may not be reached; the session here is cleared all the same. `forget` drops
\* every entry that holds the access token of this one.
Logout(r) ==
    /\ req[r].at = "idle" /\ cookie.user # Nobody
    /\ sso' \in {sso, IF Accepts(cookie.token) THEN [sso EXCEPT !.user = Nobody] ELSE sso}
    /\ cache' = {x \in cache : ~ \E y \in cache : y.key = cookie.token /\ y.access = x.access}
    /\ cookie' = Empty
    /\ UNCHANGED <<now, arrivals, req, forms, results, codes, tokens>>

-----------------------------------------------------------------------------

\* Somebody has signed in; a browser that is signed out is one Logout away.
Init ==
    /\ now = 0 /\ arrivals = 0 /\ req = [r \in Requests |-> Idle]
    /\ \E a \in Accounts :
          /\ sso = [user |-> a, auth |-> 1]
          /\ tokens = [t \in {1} |-> Fresh(a, 1)]
          /\ cookie = [Empty EXCEPT !.user = a, !.auth = 1, !.exp = Life, !.token = 1]
    /\ redirects = {} /\ asked = 0 /\ codes = {} /\ results = {} /\ cache = {}

Next ==
    \/ Time \/ Login \/ SsoEnds
    \/ \E d \in redirects, a \in Accounts : SignIn(d, a)
    \/ \E r \in Requests :
          \/ \E kind \in {"page", "users", "stepup"} : Arrive(r, kind)
          \/ \E c \in codes : CallbackArrives(r, c)
          \/ Renew(r) \/ RenewAnswered(r) \/ RenewFails(r) \/ Page(r)
          \/ UserToken(r) \/ UserTokenAnswered(r) \/ StepUp(r) \/ Callback(r) \/ Logout(r)

Spec == Init /\ [][Next]_vars

-----------------------------------------------------------------------------
(* Properties *)

\* "An ordinary login in another tab is not mistaken for the step-up, and one the provider answered
\* without asking for the password is refused": whatever answers overwrite the cookie, a session
\* that counts as stepped up is of the account that signed in again, later than it had.
StepUpIsConfirmed ==
    \A s \in Sessions : s.step # NoStep => s.step.sub = s.user /\ s.step.auth > s.step.was

\* "A burst of concurrent pollers arriving with the same expired cookie makes a single round-trip
\* instead of racing token rotation": a request whose token is refused while its session at Keycloak
\* goes on presented one that a renewal longer ago than its result is kept, or the Users page,
\* had used.
RaceSignsNobodyOut ==
    \A r \in Requests :
        LET t == req[r].s.token
        IN (req[r].at = "asking" /\ t \in Issued /\ tokens[t].used)
              => tokens[t].by = "users" \/ now - tokens[t].since > Ttl

=============================================================================
