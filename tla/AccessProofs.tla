---------------------------- MODULE AccessProofs ----------------------------
(***************************************************************************)
(* Accounts, roles and sessions, for every set of accounts, of roles and   *)
(* of requests that are under way together, and for every clock.           *)
(*                                                                         *)
(* The first part is about one browser's session, the second about the     *)
(* realm. SomebodyRemains needs to know what a request under way has been  *)
(* checked for, and that Keycloak grants nothing through a role that does  *)
(* not contain the identity role. NoLoops needs to know that a request     *)
(* past its walk works on the roles it has walked.                         *)
(***************************************************************************)
EXTENDS MCAccess, FiniteSetTheorems, TLAPS

-----------------------------------------------------------------------------
(* The browser *)

People == Accounts \cup {Nobody}
SessionRecords ==
    [user : People, auth : Nat, exp : Int, token : Nat,
     step : [sub : People, auth : Nat, was : Nat],
     pending : [verifier : Nat, sub : People, auth : Nat]]
CodeRecords == [verifier : Nat, user : Accounts, auth : Nat]
PageKinds == {"none", "page", "users", "stepup"}
BrowserRequests ==
    [at : PageKinds \cup {"idle", "renew", "asking", "token", "callback"}, kind : PageKinds,
     s : SessionRecords, since : Nat, code : CodeRecords \cup {[verifier |-> 0]}]
TokenRecords ==
    [user : Accounts, auth : Nat, used : BOOLEAN, by : {"none", "renewal", "users"}, since : Nat]

BrowserType ==
    /\ now \in Nat
    /\ cookie \in SessionRecords
    /\ req \in [Requests -> BrowserRequests]
    /\ asked \in Nat /\ redirects \subseteq Nat
    /\ codes \subseteq CodeRecords
    /\ results \subseteq [key : Nat, since : Nat, token : Nat, exp : Int]
    /\ \E k \in Nat : tokens \in [1..k -> TokenRecords]
    /\ sso \in [user : People, auth : Nat]

\* A session that counts as stepped up was confirmed by the account it is of.
Confirmed(s) == s.step # NoStep => s.step.sub = s.user /\ s.step.auth > s.step.was

\* The result of the renewal that used a token is kept as long as it is good for anything.
UsedIsKept ==
    \A t \in Issued : tokens[t].used /\ tokens[t].by # "users" =>
        \/ \E x \in results : x.key = t /\ x.since = tokens[t].since
        \/ now - tokens[t].since > Ttl

\* The lock of a token: one request asks for its renewal.
OneAsks ==
    \A r, o \in Requests : req[r].at = "asking" /\ req[o].at = "asking" /\ req[r].s.token = req[o].s.token
                              => r = o

BrowserInv ==
    /\ BrowserType
    /\ \A r \in Requests : req[r].at = "callback" => req[r].code \in CodeRecords
    /\ Confirmed(cookie) /\ \A r \in Requests : Confirmed(req[r].s)
    /\ UsedIsKept
    /\ OneAsks
    /\ RaceSignsNobodyOut

LEMMA Clock == Ttl \in Nat /\ Life \in Nat /\ Skew \in Nat
BY SessionConstants

LEMMA NowIs ==
    ASSUME BrowserInv
    PROVE  now \in Nat /\ now + Life \in Int /\ Ttl \in Nat
<1>1. now \in Nat
  BY DEF BrowserInv, BrowserType
<1>2. QED
  BY <1>1, Clock

LEMMA NewTokenIs ==
    ASSUME NEW k \in Nat, DOMAIN tokens = 1..k
    PROVE  NewToken = k + 1
<1>1. Cardinality(1..k) = IF 1 > k THEN 0 ELSE k - 1 + 1
  BY FS_Interval
<1>2. Cardinality(1..k) = k
  BY <1>1
<1>3. QED
  BY <1>2 DEF NewToken, Issued

LEMMA EmptyIs == Empty \in SessionRecords /\ Confirmed(Empty)
BY DEF Empty, SessionRecords, NoStep, NoPending, People, Confirmed

LEMMA IdleIs == Idle \in BrowserRequests /\ Idle.at = "idle" /\ Idle.s = Empty
BY EmptyIs DEF Idle, BrowserRequests, PageKinds

\* A request that was told something: where it goes, and with which session.
LEMMA RespondKeeps ==
    ASSUME BrowserInv, NEW r \in Requests, NEW s \in SessionRecords, Confirmed(s), Respond(r, s)
    PROVE  /\ cookie' \in SessionRecords /\ Confirmed(cookie')
           /\ req' \in [Requests -> BrowserRequests]
           /\ \A o \in Requests : req'[o] = req[o] \/ req'[o] = Idle
<1>1. cookie' = s /\ req' = [req EXCEPT ![r] = Idle]
  BY DEF Respond
<1>2. QED
  BY <1>1, IdleIs DEF BrowserInv, BrowserType

LEMMA StepKeeps ==
    ASSUME BrowserInv, NEW r \in Requests, NEW at \in PageKinds \cup {"token"}, NEW s \in SessionRecords, Confirmed(s),
           Step(r, at, s)
    PROVE  /\ cookie' = cookie
           /\ req' \in [Requests -> BrowserRequests]
           /\ req'[r].at = at /\ req'[r].s = s
           /\ \A o \in Requests \ {r} : req'[o] = req[o]
<1>1. PICK q \in BrowserRequests : q = req[r]
  BY DEF BrowserInv, BrowserType
<1>2. PICK p : p = [q EXCEPT !.at = at, !.s = s]
  OBVIOUS
<1>3. p \in BrowserRequests /\ p.at = at /\ p.s = s
  BY <1>1, <1>2 DEF BrowserRequests
<1>4. req' = [req EXCEPT ![r] = p] /\ cookie' = cookie
  BY <1>1, <1>2 DEF Step
<1>5. QED
  BY <1>3, <1>4 DEF BrowserInv, BrowserType

\* No request begins to ask, no token is used and no result is dropped.
LEMMA BrowserQuiet ==
    ASSUME BrowserInv, BrowserType',
           now' \in Nat, now' >= now,
           results \subseteq results',
           \A t \in Issued' :
               \/ t \in Issued /\ tokens'[t] = tokens[t]
               \/ tokens'[t].used => tokens'[t].by = "users",
           Confirmed(cookie'),
           \A r \in Requests :
               /\ req'[r].at = "asking" => req'[r] = req[r]
               /\ req'[r].at = "callback" => req'[r].code \in CodeRecords
               /\ Confirmed(req'[r].s)
    PROVE  BrowserInv'
<1>1. UsedIsKept'
  <2>1. SUFFICES ASSUME NEW t \in Issued', tokens'[t].used, tokens'[t].by # "users"
                 PROVE  \/ \E x \in results' : x.key = t /\ x.since = tokens'[t].since
                        \/ now' - tokens'[t].since > Ttl
    BY DEF UsedIsKept
  <2>2. t \in Issued /\ tokens'[t] = tokens[t] /\ tokens[t].since \in Nat
    BY <2>1 DEF BrowserInv, BrowserType, TokenRecords, Issued
  <2>3. CASE now - tokens[t].since > Ttl
    BY <2>2, <2>3, NowIs
  <2>4. QED
    BY <2>1, <2>2, <2>3 DEF BrowserInv, UsedIsKept
<1>2. OneAsks'
  <2>1. OneAsks
    BY DEF BrowserInv
  <2>2. \A r \in Requests : req'[r].at = "asking" => req[r].at = "asking" /\ req'[r].s.token = req[r].s.token
    OBVIOUS
  <2>3. QED
    BY <2>1, <2>2 DEF OneAsks
<1>3. RaceSignsNobodyOut'
  <2>1. SUFFICES ASSUME NEW r \in Requests, req'[r].at = "asking",
                        req'[r].s.token \in Issued', tokens'[req'[r].s.token].used
                 PROVE  \/ tokens'[req'[r].s.token].by = "users"
                        \/ now' - tokens'[req'[r].s.token].since > Ttl
    BY DEF RaceSignsNobodyOut
  <2>2. PICK t : t = req[r].s.token
    OBVIOUS
  <2>6. req'[r] = req[r]
    BY <2>1
  <2>3. t = req'[r].s.token /\ req[r].at = "asking" /\ t \in Issued' /\ tokens'[t].used
    BY <2>1, <2>2, <2>6
  <2>4. CASE t \in Issued /\ tokens'[t] = tokens[t]
    <3>1. tokens[t].since \in Nat
      BY <2>4 DEF BrowserInv, BrowserType, TokenRecords, Issued
    <3>2. tokens[t].by = "users" \/ now - tokens[t].since > Ttl
      BY <2>1, <2>2, <2>3, <2>4 DEF BrowserInv, RaceSignsNobodyOut
    <3>3. tokens[t].by = "users" \/ now' - tokens[t].since > Ttl
      BY <3>1, <3>2, NowIs
    <3>4. QED
      BY <2>3, <2>4, <3>3
  <2>5. QED
    BY <2>2, <2>3, <2>4
<1>4. QED
  BY <1>1, <1>2, <1>3 DEF BrowserInv, Confirmed

\* A step that hands out no token and leaves the results alone.
LEMMA BrowserMoves ==
    ASSUME BrowserInv, BrowserType', UNCHANGED <<now, results, tokens>>,
           Confirmed(cookie'),
           \A r \in Requests :
               /\ req'[r].at = "asking" => req'[r] = req[r]
               /\ req'[r].at = "callback" => req'[r].code \in CodeRecords
               /\ Confirmed(req'[r].s)
    PROVE  BrowserInv'
<1>1. now' \in Nat /\ now' >= now /\ results \subseteq results' /\ \A t \in Issued' : t \in Issued /\ tokens'[t] = tokens[t]
  BY DEF BrowserInv, BrowserType, Issued
<1>2. QED
  BY <1>1, BrowserQuiet

\* A request answers, with a session as good as its own.
LEMMA BrowserResponds ==
    ASSUME BrowserInv, NEW r \in Requests, NEW s \in SessionRecords, Confirmed(s), Respond(r, s),
           UNCHANGED <<now, results, tokens, codes, sso>>, asked' \in Nat, redirects' \subseteq Nat
    PROVE  BrowserInv'
<1>1. BrowserType'
  BY RespondKeeps DEF BrowserInv, BrowserType
<1>2. \A o \in Requests :
          /\ req'[o].at = "asking" => req'[o] = req[o]
          /\ req'[o].at = "callback" => req'[o].code \in CodeRecords
          /\ Confirmed(req'[o].s)
  BY RespondKeeps, IdleIs, EmptyIs DEF BrowserInv
<1>3. Confirmed(cookie')
  BY RespondKeeps
<1>4. QED
  BY <1>1, <1>2, <1>3, BrowserMoves

\* A request goes on, with a session as good as its own.
LEMMA BrowserGoesOn ==
    ASSUME BrowserInv, NEW r \in Requests, NEW at \in PageKinds \cup {"token"}, NEW s \in SessionRecords, Confirmed(s),
           Step(r, at, s),
           UNCHANGED <<now, results, tokens, codes, sso, asked, redirects>>
    PROVE  BrowserInv'
<1>1. BrowserType'
  BY StepKeeps DEF BrowserInv, BrowserType
<1>2. \A o \in Requests :
          /\ req'[o].at = "asking" => req'[o] = req[o]
          /\ req'[o].at = "callback" => req'[o].code \in CodeRecords
          /\ Confirmed(req'[o].s)
  <2>1. req'[r].at # "asking" /\ req'[r].at # "callback" /\ Confirmed(req'[r].s)
    BY StepKeeps DEF PageKinds
  <2>2. \A o \in Requests \ {r} : req'[o] = req[o] /\ Confirmed(req[o].s)
    BY StepKeeps DEF BrowserInv
  <2>3. QED
    BY <2>1, <2>2 DEF BrowserInv
<1>3. Confirmed(cookie')
  BY StepKeeps DEF BrowserInv
<1>4. QED
  BY <1>1, <1>2, <1>3, BrowserMoves

LEMMA SessionOf ==
    ASSUME BrowserInv, NEW r \in Requests
    PROVE  /\ req[r] \in BrowserRequests /\ req[r].s \in SessionRecords /\ Confirmed(req[r].s)
           /\ req[r].kind \in PageKinds
BY DEF BrowserInv, BrowserType, BrowserRequests

LEMMA RenewedIs ==
    ASSUME NEW s \in SessionRecords, Confirmed(s), NEW t \in Nat, NEW e \in Int
    PROVE  /\ [s EXCEPT !.exp = e, !.token = t] \in SessionRecords
           /\ Confirmed([s EXCEPT !.exp = e, !.token = t])
<1>1. PICK p : p = [s EXCEPT !.exp = e, !.token = t]
  OBVIOUS
<1>2. p \in SessionRecords /\ p.step = s.step /\ p.user = s.user
  BY <1>1 DEF SessionRecords
<1>3. QED
  BY <1>1, <1>2 DEF Confirmed

\* A new refresh token, and perhaps another one used by somebody.
LEMMA Rotated ==
    ASSUME BrowserInv, NEW t \in Issued, NEW by \in {"renewal", "users"}, NEW since \in Nat,
           ~tokens[t].used, Rotate(t, by, since)
    PROVE  /\ \E k \in Nat : tokens' \in [1..k -> TokenRecords]
           /\ NewToken \in Nat \ Issued /\ Issued' = Issued \cup {NewToken}
           /\ ~tokens'[NewToken].used
           /\ tokens'[t].used /\ tokens'[t].by = by /\ tokens'[t].since = since
           /\ \A x \in Issued \ {t} : tokens'[x] = tokens[x]
<1>1. PICK k \in Nat : tokens \in [1..k -> TokenRecords]
  BY DEF BrowserInv, BrowserType
<1>2. Issued = 1..k /\ NewToken = k + 1
  BY <1>1, NewTokenIs DEF Issued
<1>3. PICK old, new : old = [tokens[t] EXCEPT !.used = TRUE, !.by = by, !.since = since]
                      /\ new = [tokens[t] EXCEPT !.used = FALSE]
  OBVIOUS
<1>4. /\ old \in TokenRecords /\ old.used /\ old.by = by /\ old.since = since
      /\ new \in TokenRecords /\ ~new.used
  BY <1>1, <1>2, <1>3 DEF TokenRecords
<1>5. tokens' = [x \in 1..k+1 |-> IF x = k + 1 THEN new ELSE IF x = t THEN old ELSE tokens[x]]
  <2>1. Issued \cup {NewToken} = 1..k+1
    BY <1>2
  <2>2. QED
    BY <1>2, <1>3, <2>1 DEF Rotate
<1>6. tokens' \in [1..k+1 -> TokenRecords]
  BY <1>1, <1>4, <1>5
<1>7. QED
  BY <1>2, <1>4, <1>5, <1>6 DEF Issued

\* The result of a renewal is taken, or the token is this request's to renew: it has not been used
\* since the results that are kept, or they would say so.
LEMMA RenewKeeps ==
    ASSUME BrowserInv, NEW r \in Requests, Renew(r)
    PROVE  BrowserInv'
<1> DEFINE s == req[r].s
           kept == {x \in results : now - x.since <= Ttl}
<1>1. /\ results' = kept /\ UNCHANGED <<now, asked, redirects, codes, tokens, sso>>
      /\ s \in SessionRecords /\ Confirmed(s) /\ req[r].kind \in PageKinds
  BY SessionOf DEF Renew, forms, keycloak
<1>2. UsedIsKept'
  <2>1. SUFFICES ASSUME NEW t \in Issued, tokens[t].used, tokens[t].by # "users", now - tokens[t].since <= Ttl
                 PROVE  \E x \in kept : x.key = t /\ x.since = tokens[t].since
    <3>1. \A t \in Issued : tokens[t].since \in Nat
      BY DEF BrowserInv, BrowserType, TokenRecords, Issued
    <3>2. QED
      BY <1>1, <3>1, Clock DEF UsedIsKept, Issued, BrowserInv, BrowserType
  <2>2. PICK x \in results : x.key = t /\ x.since = tokens[t].since
    <3>1. tokens[t].since \in Nat /\ now \in Nat
      BY DEF BrowserInv, BrowserType, TokenRecords, Issued
    <3>2. ~(now - tokens[t].since > Ttl)
      BY <2>1, <3>1, Clock
    <3>3. QED
      BY <2>1, <3>2 DEF BrowserInv, UsedIsKept
  <2>3. QED
    BY <2>1, <2>2
<1>3. CASE \E x \in Cached(s.token) : Step(r, req[r].kind, [s EXCEPT !.exp = x.exp, !.token = x.token])
  <2>1. PICK x \in Cached(s.token) : Step(r, req[r].kind, [s EXCEPT !.exp = x.exp, !.token = x.token])
    BY <1>3
  <2>2. x.exp \in Int /\ x.token \in Nat
    BY DEF Cached, BrowserInv, BrowserType
  <2>3. PICK p : p = [s EXCEPT !.exp = x.exp, !.token = x.token]
    OBVIOUS
  <2>4. p \in SessionRecords /\ Confirmed(p) /\ Step(r, req[r].kind, p)
    BY <1>1, <2>1, <2>2, <2>3, RenewedIs
  <2>5. /\ cookie' = cookie /\ req' \in [Requests -> BrowserRequests]
        /\ req'[r].at \in PageKinds /\ req'[r].s = p /\ \A o \in Requests \ {r} : req'[o] = req[o]
    BY <1>1, <2>4, StepKeeps
  <2>6. BrowserType'
    BY <1>1, <2>5 DEF BrowserInv, BrowserType
  <2>7. \A o \in Requests : req'[o].at = "asking" => o # r /\ req'[o] = req[o]
    BY <2>5 DEF PageKinds
  <2>8. OneAsks' /\ RaceSignsNobodyOut'
    BY <1>1, <2>7 DEF BrowserInv, OneAsks, RaceSignsNobodyOut, Issued
  <2>9. (\A o \in Requests : req[o].at = "callback" => req[o].code \in CodeRecords)'
        /\ (Confirmed(cookie) /\ \A o \in Requests : Confirmed(req[o].s))'
    <3>1. req'[r].at # "callback" /\ Confirmed(req'[r].s)
      BY <2>4, <2>5 DEF PageKinds
    <3>2. \A o \in Requests : o = r \/ req'[o] = req[o]
      BY <2>5
    <3>3. QED
      BY <2>5, <3>1, <3>2 DEF BrowserInv, Confirmed
  <2>10. QED
    BY <1>2, <2>6, <2>8, <2>9 DEF BrowserInv
<1>4. CASE /\ Cached(s.token) = {} /\ UNCHANGED cookie
           /\ req' = [req EXCEPT ![r].at = "asking", ![r].since = now]
  <2>1. PICK q : q = [req[r] EXCEPT !.at = "asking", !.since = now]
    OBVIOUS
  <2>2. q \in BrowserRequests /\ q.at = "asking" /\ q.s = s
    BY <2>1, SessionOf DEF BrowserRequests, BrowserInv, BrowserType
  <2>3. req' = [req EXCEPT ![r] = q]
    BY <1>4, <2>1
  <2>4. /\ req' \in [Requests -> BrowserRequests] /\ req'[r] = q
        /\ \A o \in Requests \ {r} : req'[o] = req[o]
    BY <2>2, <2>3 DEF BrowserInv, BrowserType
  <2>5. BrowserType'
    BY <1>1, <1>4, <2>4 DEF BrowserInv, BrowserType
  <2>6. OneAsks'
    <3>1. \A o \in Requests : req[o].at = "asking" => req[o].s.token # s.token
      BY DEF Renew
    <3>2. QED
      BY <2>2, <2>4, <3>1 DEF BrowserInv, OneAsks
  <2>7. RaceSignsNobodyOut'
    <3>1. ASSUME NEW t \in Issued, t = s.token, tokens[t].used, tokens[t].by # "users"
          PROVE  now - tokens[t].since > Ttl
      <4>1. tokens[t].since \in Nat /\ now \in Nat
        BY DEF BrowserInv, BrowserType, TokenRecords, Issued
      <4>2. CASE \E x \in results : x.key = t /\ x.since = tokens[t].since
        <5>1. PICK x \in results : x.key = t /\ x.since = tokens[t].since
          BY <4>2
        <5>2. ~(now - x.since <= Ttl)
          BY <1>4, <3>1, <5>1 DEF Cached
        <5>3. QED
          BY <4>1, <5>1, <5>2, Clock
      <4>3. QED
        BY <3>1, <4>2 DEF BrowserInv, UsedIsKept
    <3>2. \A o \in Requests \ {r} : req[o].at = "asking" /\ req[o].s.token \in Issued /\ tokens[req[o].s.token].used
             => tokens[req[o].s.token].by = "users" \/ now - tokens[req[o].s.token].since > Ttl
      BY DEF BrowserInv, RaceSignsNobodyOut
    <3>3. ASSUME NEW o \in Requests, req'[o].at = "asking", req'[o].s.token \in Issued', tokens'[req'[o].s.token].used
          PROVE  tokens'[req'[o].s.token].by = "users" \/ now' - tokens'[req'[o].s.token].since > Ttl
      <4>1. CASE o = r
        BY <1>1, <2>2, <2>4, <3>1, <3>3, <4>1 DEF Issued
      <4>2. CASE o # r
        BY <1>1, <2>4, <3>2, <3>3, <4>2 DEF Issued
      <4>3. QED
        BY <4>1, <4>2
    <3>4. QED
      BY <3>3 DEF RaceSignsNobodyOut
  <2>8. (\A o \in Requests : req[o].at = "callback" => req[o].code \in CodeRecords)'
        /\ (Confirmed(cookie) /\ \A o \in Requests : Confirmed(req[o].s))'
    <3>1. req'[r].at # "callback" /\ Confirmed(req'[r].s)
      BY <1>1, <2>2, <2>4 DEF Confirmed
    <3>2. \A o \in Requests : o = r \/ req'[o] = req[o]
      BY <2>4
    <3>3. QED
      BY <1>4, <3>1, <3>2 DEF BrowserInv, Confirmed
  <2>9. QED
    BY <1>2, <2>5, <2>6, <2>7, <2>8 DEF BrowserInv
<1>5. QED
  BY <1>3, <1>4 DEF Renew

\* The renewal that uses a token leaves its result.
LEMMA RenewAnsweredKeeps ==
    ASSUME BrowserInv, NEW r \in Requests, RenewAnswered(r)
    PROVE  BrowserInv'
<1>1. PICK s, t, n, since : s = req[r].s /\ t = s.token /\ n = NewToken /\ since = req[r].since
  OBVIOUS
<1>2. /\ s \in SessionRecords /\ Confirmed(s) /\ t \in Nat /\ since \in Nat /\ now \in Nat /\ now + Life \in Int
      /\ req[r].kind \in PageKinds /\ req[r].at = "asking"
      /\ t \in Issued /\ ~tokens[t].used /\ Rotate(t, "renewal", since)
      /\ UNCHANGED <<now, asked, redirects, codes, sso>>
  <2>1. req[r] \in BrowserRequests /\ s \in SessionRecords /\ Confirmed(s) /\ req[r].kind \in PageKinds
    BY <1>1, SessionOf
  <2>2. t \in Nat /\ since \in Nat
    BY <1>1, <2>1 DEF BrowserRequests, SessionRecords
  <2>3. now \in Nat /\ now + Life \in Int
    BY Clock DEF BrowserInv, BrowserType
  <2>4. req[r].at = "asking" /\ Rotate(t, "renewal", since) /\ UNCHANGED <<now, asked, redirects, codes, sso>>
    BY <1>1 DEF RenewAnswered, forms
  <2>5. t \in Issued /\ ~tokens[t].used
    BY <1>1 DEF RenewAnswered, Accepts
  <2>6. QED
    BY <2>1, <2>2, <2>3, <2>4, <2>5
<1>3. /\ \E k \in Nat : tokens' \in [1..k -> TokenRecords]
      /\ n \in Nat \ Issued /\ Issued' = Issued \cup {n}
      /\ ~tokens'[n].used
      /\ tokens'[t].used /\ tokens'[t].by = "renewal" /\ tokens'[t].since = since
      /\ \A x \in Issued \ {t} : tokens'[x] = tokens[x]
  BY <1>1, <1>2, Rotated
<1>4. PICK p, x : /\ p = [s EXCEPT !.exp = now + Life, !.token = n]
                  /\ x = [key |-> t, since |-> since, token |-> n, exp |-> now + Life]
  OBVIOUS
<1>5. /\ p \in SessionRecords /\ Confirmed(p)
      /\ x \in [key : Nat, since : Nat, token : Nat, exp : Int] /\ x.key = t /\ x.since = since
  BY <1>2, <1>3, <1>4, RenewedIs
<1>6. Step(r, req[r].kind, p) /\ results' = results \cup {x}
  BY <1>1, <1>4 DEF RenewAnswered, Renewed
<1>7. /\ cookie' = cookie /\ req' \in [Requests -> BrowserRequests]
      /\ req'[r].at \in PageKinds /\ req'[r].s = p /\ \A o \in Requests \ {r} : req'[o] = req[o]
  BY <1>2, <1>5, <1>6, StepKeeps
<1>8. BrowserType'
  BY <1>2, <1>3, <1>5, <1>6, <1>7 DEF BrowserInv, BrowserType
<1>9. \A o \in Requests : req'[o].at = "asking" => o # r /\ req'[o] = req[o] /\ req[o].s.token # t
  <2>1. \A o \in Requests \ {r} : req[o].at = "asking" => req[o].s.token # t
    BY <1>1, <1>2 DEF BrowserInv, OneAsks
  <2>2. QED
    BY <1>7, <2>1 DEF PageKinds
<1>10. UsedIsKept'
  <2>1. \A y \in Issued : tokens[y].used /\ tokens[y].by # "users" =>
           \/ \E z \in results : z.key = y /\ z.since = tokens[y].since
           \/ now - tokens[y].since > Ttl
    BY DEF BrowserInv, UsedIsKept
  <2>2. SUFFICES ASSUME NEW y \in Issued', tokens'[y].used, tokens'[y].by # "users"
                 PROVE  \/ \E z \in results' : z.key = y /\ z.since = tokens'[y].since
                        \/ now' - tokens'[y].since > Ttl
    BY DEF UsedIsKept
  <2>3. CASE y = t
    BY <1>3, <1>5, <1>6, <2>3
  <2>4. CASE y # t
    <3>1. y \in Issued /\ tokens'[y] = tokens[y]
      BY <1>3, <2>2, <2>4
    <3>2. QED
      BY <1>2, <1>6, <2>1, <2>2, <3>1
  <2>5. QED
    BY <2>3, <2>4
<1>11. OneAsks'
  BY <1>9 DEF BrowserInv, OneAsks
<1>12. RaceSignsNobodyOut'
  <2>1. SUFFICES ASSUME NEW o \in Requests, req'[o].at = "asking", req'[o].s.token \in Issued',
                        tokens'[req'[o].s.token].used
                 PROVE  tokens'[req'[o].s.token].by = "users" \/ now' - tokens'[req'[o].s.token].since > Ttl
    BY DEF RaceSignsNobodyOut
  <2>2. PICK u : u = req[o].s.token
    OBVIOUS
  <2>3. req'[o] = req[o] /\ u # t /\ u = req'[o].s.token /\ req[o].at = "asking"
    BY <1>9, <2>1, <2>2
  <2>4. u \in Issued /\ tokens'[u] = tokens[u] /\ tokens[u].used
    BY <1>3, <2>1, <2>3
  <2>5. tokens[u].by = "users" \/ now - tokens[u].since > Ttl
    BY <2>2, <2>3, <2>4 DEF BrowserInv, RaceSignsNobodyOut
  <2>6. QED
    BY <1>2, <2>3, <2>4, <2>5
<1>13. (\A o \in Requests : req[o].at = "callback" => req[o].code \in CodeRecords)'
       /\ (Confirmed(cookie) /\ \A o \in Requests : Confirmed(req[o].s))'
  <2>1. req'[r].at # "callback" /\ Confirmed(req'[r].s)
    BY <1>5, <1>7 DEF PageKinds
  <2>2. \A o \in Requests : o = r \/ req'[o] = req[o]
    BY <1>7
  <2>3. QED
    BY <1>7, <2>1, <2>2 DEF BrowserInv, Confirmed
<1>14. QED
  BY <1>8, <1>10, <1>11, <1>12, <1>13 DEF BrowserInv

LEMMA RequestsStay ==
    ASSUME BrowserInv, UNCHANGED req
    PROVE  \A r \in Requests :
               /\ req'[r].at = "asking" => req'[r] = req[r]
               /\ req'[r].at = "callback" => req'[r].code \in CodeRecords
               /\ Confirmed(req'[r].s)
BY DEF BrowserInv

LEMMA TimeKeeps ==
    ASSUME BrowserInv, Time
    PROVE  BrowserInv'
<1>1. /\ now' = now + 1 /\ UNCHANGED <<cookie, req, asked, redirects, codes, results, tokens, sso>>
  BY DEF Time, forms, manager, keycloak
<1>2. BrowserType'
  <2>1. now' \in Nat
    BY <1>1, NowIs
  <2>2. QED
    BY <1>1, <2>1 DEF BrowserInv, BrowserType
<1>3. /\ now' \in Nat /\ now' >= now /\ results \subseteq results' /\ Confirmed(cookie')
      /\ \A t \in Issued' : t \in Issued /\ tokens'[t] = tokens[t]
  <2>1. Confirmed(cookie)
    BY DEF BrowserInv
  <2>2. QED
    BY <1>1, <2>1, NowIs DEF Issued, Confirmed
<1>4. QED
  BY <1>1, <1>2, <1>3, RequestsStay, BrowserQuiet

\* A form, and what Keycloak does with it.
LEMMA FormKeeps ==
    ASSUME BrowserInv, Login \/ SsoEnds \/ \E d \in redirects, a \in Accounts : SignIn(d, a)
    PROVE  BrowserInv'
<1>1. UNCHANGED <<now, cookie, req, results, tokens>>
  BY DEF Login, SsoEnds, SignIn, forms, manager, keycloak
<1>2. sso.user \in People /\ sso.auth \in Nat /\ sso \in [user : People, auth : Nat]
  BY DEF BrowserInv, BrowserType
<1>3. asked' \in Nat /\ redirects' \subseteq Nat /\ codes' \subseteq CodeRecords /\ sso' \in [user : People, auth : Nat]
  <2>1. CASE Login
    BY <2>1 DEF Login, Redirect, keycloak, BrowserInv, BrowserType
  <2>2. CASE SsoEnds
    <3>1. sso' = [sso EXCEPT !.user = Nobody] /\ UNCHANGED <<asked, redirects, codes>>
      BY <2>2 DEF SsoEnds, forms, keycloak
    <3>2. sso' \in [user : People, auth : Nat]
      BY <1>2, <3>1 DEF People
    <3>3. QED
      BY <3>1, <3>2 DEF BrowserInv, BrowserType
  <2>3. CASE \E d \in redirects, a \in Accounts : SignIn(d, a)
    <3>1. PICK d \in redirects, a \in Accounts : SignIn(d, a)
      BY <2>3
    <3>2. sso' \in [user : People, auth : Nat]
      BY <1>2, <3>1 DEF SignIn, People
    <3>3. PICK c : c = [verifier |-> d, user |-> a, auth |-> sso'.auth]
      OBVIOUS
    <3>4. c \in CodeRecords
      BY <3>2, <3>3 DEF CodeRecords, BrowserInv, BrowserType
    <3>5. codes' = codes \cup {c} /\ asked' = asked /\ redirects' \subseteq redirects
      BY <3>1, <3>3 DEF SignIn
    <3>6. QED
      BY <3>2, <3>4, <3>5 DEF BrowserInv, BrowserType
  <2>4. QED
    BY <2>1, <2>2, <2>3
<1>4. BrowserType'
  BY <1>1, <1>3 DEF BrowserInv, BrowserType
<1>5. Confirmed(cookie')
  BY <1>1 DEF BrowserInv, Confirmed
<1>6. QED
  BY <1>1, <1>4, <1>5, RequestsStay, BrowserMoves

\* A request arrives with the browser's cookie, or comes back from the form with it.
LEMMA ArrivesKeeps ==
    ASSUME BrowserInv, NEW r \in Requests, NEW q \in BrowserRequests,
           q.at # "asking", q.at = "callback" => q.code \in CodeRecords, q.s = cookie,
           req' = [req EXCEPT ![r] = q], codes' \subseteq codes,
           UNCHANGED <<now, cookie, asked, redirects, results, tokens, sso>>
    PROVE  BrowserInv'
<1>1. BrowserType'
  BY DEF BrowserInv, BrowserType
<1>2. req'[r] = q /\ \A o \in Requests \ {r} : req'[o] = req[o]
  BY DEF BrowserInv, BrowserType
<1>3. Confirmed(cookie') /\ Confirmed(q.s)
  BY DEF BrowserInv, Confirmed
<1>4. \A o \in Requests :
          /\ req'[o].at = "asking" => req'[o] = req[o]
          /\ req'[o].at = "callback" => req'[o].code \in CodeRecords
          /\ Confirmed(req'[o].s)
  BY <1>2, <1>3 DEF BrowserInv
<1>5. QED
  BY <1>1, <1>3, <1>4, BrowserMoves

LEMMA ArriveKeeps ==
    ASSUME BrowserInv, NEW r \in Requests, NEW kind \in {"page", "users", "stepup"}, Arrive(r, kind)
    PROVE  BrowserInv'
<1>1. PICK q : q = [Idle EXCEPT !.kind = kind, !.s = cookie, !.at = IF CurrentUser = "renew" THEN "renew" ELSE kind]
  OBVIOUS
<1>2. q \in BrowserRequests /\ q.at # "asking" /\ q.at # "callback" /\ q.s = cookie
  BY <1>1, IdleIs DEF BrowserRequests, PageKinds, BrowserInv, BrowserType, Idle
<1>3. /\ req' = [req EXCEPT ![r] = q]
      /\ UNCHANGED <<now, cookie, asked, redirects, results, tokens, sso, codes>>
  BY <1>1 DEF Arrive, forms, manager, keycloak
<1>4. QED
  BY <1>2, <1>3, ArrivesKeeps

LEMMA CallbackArrivesKeeps ==
    ASSUME BrowserInv, NEW r \in Requests, NEW c \in codes, CallbackArrives(r, c)
    PROVE  BrowserInv'
<1>1. PICK q : q = [Idle EXCEPT !.at = "callback", !.s = cookie, !.code = c]
  OBVIOUS
<1>2. q \in BrowserRequests /\ q.at = "callback" /\ q.code \in CodeRecords /\ q.s = cookie
  BY <1>1, IdleIs DEF BrowserRequests, PageKinds, BrowserInv, BrowserType, Idle
<1>3. /\ req' = [req EXCEPT ![r] = q] /\ codes' \subseteq codes
      /\ UNCHANGED <<now, cookie, asked, redirects, results, tokens, sso>>
  BY <1>1 DEF CallbackArrives, forms, manager
<1>4. QED
  BY <1>2, <1>3, ArrivesKeeps

LEMMA RenewFailsKeeps ==
    ASSUME BrowserInv, NEW r \in Requests, RenewFails(r)
    PROVE  BrowserInv'
<1>1. /\ UNCHANGED <<now, asked, redirects, results, tokens, codes, sso>>
      /\ Respond(r, Empty) \/ Step(r, req[r].kind, req[r].s)
  BY DEF RenewFails, forms, manager, keycloak
<1>2. CASE Respond(r, Empty)
  BY <1>1, <1>2, EmptyIs, BrowserResponds DEF BrowserInv, BrowserType
<1>3. CASE Step(r, req[r].kind, req[r].s)
  BY <1>1, <1>3, SessionOf, BrowserGoesOn
<1>4. QED
  BY <1>1, <1>2, <1>3

LEMMA PageKeeps ==
    ASSUME BrowserInv, NEW r \in Requests, Page(r)
    PROVE  BrowserInv'
<1>1. UNCHANGED <<now, asked, redirects, results, tokens, codes, sso>> /\ Respond(r, req[r].s)
  BY DEF Page, forms, manager, keycloak
<1>2. QED
  BY <1>1, SessionOf, BrowserResponds DEF BrowserInv, BrowserType

LEMMA UserTokenKeeps ==
    ASSUME BrowserInv, NEW r \in Requests, UserToken(r)
    PROVE  BrowserInv'
<1>1. /\ UNCHANGED <<now, asked, redirects, results, tokens, codes, sso>>
      /\ Respond(r, req[r].s) \/ Step(r, "token", req[r].s)
  BY DEF UserToken, forms, manager, keycloak
<1>2. CASE Respond(r, req[r].s)
  BY <1>1, <1>2, SessionOf, BrowserResponds DEF BrowserInv, BrowserType
<1>3. CASE Step(r, "token", req[r].s)
  BY <1>1, <1>3, SessionOf, BrowserGoesOn
<1>4. QED
  BY <1>1, <1>2, <1>3

LEMMA StepUpKeeps ==
    ASSUME BrowserInv, NEW r \in Requests, StepUp(r)
    PROVE  BrowserInv'
<1>1. PICK s, w : s = req[r].s /\ w = [verifier |-> asked + 1, sub |-> s.user, auth |-> s.auth]
  OBVIOUS
<1>2. s \in SessionRecords /\ Confirmed(s)
  BY <1>1, SessionOf
<1>3. PICK p : p = [s EXCEPT !.pending = w]
  OBVIOUS
<1>4. p \in SessionRecords /\ p.step = s.step /\ p.user = s.user
  <2>1. w \in [verifier : Nat, sub : People, auth : Nat]
    BY <1>1, <1>2 DEF SessionRecords, BrowserInv, BrowserType
  <2>2. QED
    BY <1>2, <1>3, <2>1 DEF SessionRecords
<1>5. /\ Respond(r, p) /\ asked' = asked + 1 /\ redirects' = redirects \cup {asked + 1}
      /\ UNCHANGED <<now, results, tokens, codes, sso>>
  BY <1>1, <1>3 DEF StepUp, Redirect, manager, keycloak
<1>6. asked' \in Nat /\ redirects' \subseteq Nat
  BY <1>5 DEF BrowserInv, BrowserType
<1>7. QED
  BY <1>2, <1>4, <1>5, <1>6, BrowserResponds DEF Confirmed

\* Answers with a new token: what was used is as before, or was used by the Users page.
LEMMA NewTokenKeeps ==
    ASSUME BrowserInv, NEW r \in Requests, NEW s \in SessionRecords, Confirmed(s), Respond(r, s),
           UNCHANGED <<now, results, codes, sso, asked, redirects>>,
           \E k \in Nat : tokens' \in [1..k -> TokenRecords],
           \A t \in Issued' :
               \/ t \in Issued /\ tokens'[t] = tokens[t]
               \/ tokens'[t].used => tokens'[t].by = "users"
    PROVE  BrowserInv'
<1>1. BrowserType'
  <2>1. cookie' \in SessionRecords /\ req' \in [Requests -> BrowserRequests]
    BY RespondKeeps
  <2>2. PICK k \in Nat : tokens' \in [1..k -> TokenRecords]
    OBVIOUS
  <2>3. QED
    BY <2>1, <2>2 DEF BrowserInv, BrowserType
<1>2. \A o \in Requests :
          /\ req'[o].at = "asking" => req'[o] = req[o]
          /\ req'[o].at = "callback" => req'[o].code \in CodeRecords
          /\ Confirmed(req'[o].s)
  BY RespondKeeps, IdleIs, EmptyIs DEF BrowserInv
<1>3. now' \in Nat /\ now' >= now /\ results \subseteq results' /\ Confirmed(cookie')
  <2>1. now \in Nat
    BY DEF BrowserInv, BrowserType
  <2>2. QED
    BY <2>1, RespondKeeps
<1>4. QED
  BY <1>1, <1>2, <1>3, BrowserQuiet

LEMMA UserTokenAnsweredKeeps ==
    ASSUME BrowserInv, NEW r \in Requests, UserTokenAnswered(r)
    PROVE  BrowserInv'
<1>1. PICK s, t, n : s = req[r].s /\ t = s.token /\ n = NewToken
  OBVIOUS
<1>2. /\ s \in SessionRecords /\ Confirmed(s) /\ now \in Nat /\ now + Life \in Int
      /\ UNCHANGED <<now, asked, redirects, results, codes, sso>>
  BY <1>1, SessionOf, Clock DEF UserTokenAnswered, forms, BrowserInv, BrowserType
<1>3. CASE Respond(r, s) /\ UNCHANGED <<cache, tokens>>
  BY <1>2, <1>3, BrowserResponds DEF BrowserInv, BrowserType
<1>4. CASE Accepts(t) /\ Rotate(t, "users", now) /\ Respond(r, Renewed(s, n))
  <2>1. t \in Issued /\ ~tokens[t].used
    BY <1>4 DEF Accepts
  <2>2. /\ \E k \in Nat : tokens' \in [1..k -> TokenRecords]
        /\ n \in Nat \ Issued /\ Issued' = Issued \cup {n}
        /\ ~tokens'[n].used
        /\ tokens'[t].used /\ tokens'[t].by = "users"
        /\ \A x \in Issued \ {t} : tokens'[x] = tokens[x]
    BY <1>1, <1>2, <1>4, <2>1, Rotated
  <2>3. PICK p : p = [s EXCEPT !.exp = now + Life, !.token = n]
    OBVIOUS
  <2>4. p \in SessionRecords /\ Confirmed(p) /\ Respond(r, p)
    BY <1>2, <1>4, <2>2, <2>3, RenewedIs DEF Renewed
  <2>5. \A x \in Issued' : x = n \/ x = t \/ (x \in Issued /\ tokens'[x] = tokens[x])
    BY <2>2
  <2>6. QED
    BY <1>2, <2>2, <2>4, <2>5, NewTokenKeeps
<1>5. QED
  BY <1>1, <1>3, <1>4 DEF UserTokenAnswered

LEMMA CallbackKeeps ==
    ASSUME BrowserInv, NEW r \in Requests, Callback(r)
    PROVE  BrowserInv'
<1>1. PICK s, c, n : s = req[r].s /\ c = req[r].code /\ n = NewToken
  OBVIOUS
<1>2. /\ s \in SessionRecords /\ Confirmed(s) /\ c \in CodeRecords /\ now \in Nat /\ now + Life \in Int
      /\ UNCHANGED <<now, asked, redirects, results, codes, sso>>
  <2>1. s \in SessionRecords /\ Confirmed(s)
    BY <1>1, SessionOf
  <2>2. req[r].at = "callback" /\ UNCHANGED <<now, asked, redirects, results, codes, sso>>
    BY DEF Callback, forms, manager
  <2>3. c \in CodeRecords
    BY <1>1, <2>2 DEF BrowserInv
  <2>4. QED
    BY <2>1, <2>2, <2>3, NowIs
<1>3. CASE Respond(r, s) /\ UNCHANGED tokens
  BY <1>2, <1>3, BrowserResponds DEF BrowserInv, BrowserType
<1>4. CASE Respond(r, [s EXCEPT !.pending = NoPending]) /\ UNCHANGED tokens
  <2>1. PICK p : p = [s EXCEPT !.pending = NoPending]
    OBVIOUS
  <2>2. p \in SessionRecords /\ p.step = s.step /\ p.user = s.user
    BY <1>2, <2>1 DEF SessionRecords, NoPending, People
  <2>3. Confirmed(p) /\ Respond(r, p)
    BY <1>2, <1>4, <2>1, <2>2 DEF Confirmed
  <2>4. QED
    BY <1>2, <1>4, <2>2, <2>3, BrowserResponds DEF BrowserInv, BrowserType
<1>5. CASE /\ s.pending.verifier = c.verifier => Confirms(s, c)
           /\ tokens' = [x \in Issued \cup {n} |-> IF x \in Issued THEN tokens[x] ELSE Fresh(c.user, c.auth)]
           /\ Respond(r, [FinishStepUp(s, c) EXCEPT !.user = c.user, !.auth = c.auth,
                                                    !.exp = now + Life, !.token = n])
  <2>1. PICK k \in Nat : tokens \in [1..k -> TokenRecords]
    BY DEF BrowserInv, BrowserType
  <2>2. Issued = 1..k /\ n = k + 1
    BY <1>1, <2>1, NewTokenIs DEF Issued
  <2>3. PICK new : new = Fresh(c.user, c.auth)
    OBVIOUS
  <2>4. new \in TokenRecords /\ ~new.used
    BY <1>2, <2>3 DEF Fresh, TokenRecords, CodeRecords
  <2>5. tokens' = [x \in 1..k+1 |-> IF x \in 1..k THEN tokens[x] ELSE new]
    <3>1. Issued \cup {n} = 1..k+1
      BY <2>2
    <3>2. QED
      BY <1>5, <2>2, <2>3, <3>1
  <2>6. tokens' \in [1..k+1 -> TokenRecords]
    BY <2>1, <2>4, <2>5
  <2>7. \A t \in Issued' : (t \in Issued /\ tokens'[t] = tokens[t]) \/ (tokens'[t].used => tokens'[t].by = "users")
    BY <2>2, <2>4, <2>5 DEF Issued
  <2>8. PICK f : f = FinishStepUp(s, c)
    OBVIOUS
  <2>9. /\ f \in SessionRecords
        /\ f.step # NoStep => f.step.sub = c.user /\ f.step.auth > f.step.was
    <3>1. CASE s.pending.verifier # c.verifier
      <4>1. f = [s EXCEPT !.step = NoStep]
        BY <2>8, <3>1 DEF FinishStepUp, Ordinary
      <4>2. f \in SessionRecords /\ f.step = NoStep
        BY <1>2, <4>1 DEF SessionRecords, NoStep, People
      <4>3. QED
        BY <4>2
    <3>2. CASE s.pending.verifier = c.verifier
      <4>1. PICK z : z = [sub |-> c.user, auth |-> c.auth, was |-> s.pending.auth]
        OBVIOUS
      <4>2. f = [s EXCEPT !.pending = NoPending, !.step = z]
        BY <2>8, <3>2, <4>1 DEF FinishStepUp
      <4>3. /\ z \in [sub : People, auth : Nat, was : Nat]
            /\ z.sub = c.user /\ z.auth = c.auth /\ z.was = s.pending.auth
        BY <1>2, <4>1 DEF SessionRecords, CodeRecords, People
      <4>4. f \in SessionRecords /\ f.step = z
        BY <1>2, <4>2, <4>3 DEF SessionRecords, NoPending, People
      <4>5. c.auth > s.pending.auth
        BY <1>5, <3>2 DEF Confirms
      <4>6. QED
        BY <4>3, <4>4, <4>5
    <3>3. QED
      BY <3>1, <3>2
  <2>10. PICK p : p = [f EXCEPT !.user = c.user, !.auth = c.auth, !.exp = now + Life, !.token = n]
    OBVIOUS
  <2>11. p \in SessionRecords /\ p.user = c.user /\ p.step = f.step
    <3>1. c.user \in People /\ c.auth \in Nat /\ n \in Nat
      BY <1>2, <2>1, <2>2 DEF CodeRecords, People
    <3>2. QED
      BY <1>2, <2>9, <2>10, <3>1 DEF SessionRecords
  <2>12. Confirmed(p) /\ Respond(r, p)
    BY <1>5, <2>8, <2>9, <2>10, <2>11 DEF Confirmed
  <2>13. QED
    BY <1>2, <2>6, <2>7, <2>11, <2>12, NewTokenKeeps
<1>6. QED
  BY <1>1, <1>3, <1>4, <1>5 DEF Callback

LEMMA LogoutKeeps ==
    ASSUME BrowserInv, NEW r \in Requests, Logout(r)
    PROVE  BrowserInv'
<1>1. cookie' = Empty /\ UNCHANGED <<now, req, asked, redirects, results, codes, tokens>>
  BY DEF Logout, forms
<1>2. sso \in [user : People, auth : Nat]
  BY DEF BrowserInv, BrowserType
<1>3. [sso EXCEPT !.user = Nobody] \in [user : People, auth : Nat]
  BY <1>2 DEF People
<1>4. sso' = sso \/ sso' = [sso EXCEPT !.user = Nobody]
  BY DEF Logout
<1>5. BrowserType'
  BY <1>1, <1>2, <1>3, <1>4, EmptyIs DEF BrowserInv, BrowserType
<1>6. QED
  BY <1>1, <1>5, EmptyIs, RequestsStay, BrowserMoves

LEMMA BrowserBegins ==
    ASSUME Init \/ NoBrowser
    PROVE  BrowserInv
<1>1. CASE Init
  <2>1. PICK a \in Accounts :
            /\ sso = [user |-> a, auth |-> 1]
            /\ tokens = [t \in {1} |-> Fresh(a, 1)]
            /\ cookie = [Empty EXCEPT !.user = a, !.auth = 1, !.exp = Life, !.token = 1]
    BY <1>1 DEF Init
  <2>2. cookie \in SessionRecords /\ cookie.step = NoStep
    <3>1. Empty \in SessionRecords /\ Empty.step = NoStep
      BY EmptyIs DEF Empty
    <3>2. a \in People
      BY DEF People
    <3>3. PICK e : e = Empty
      OBVIOUS
    <3>4. cookie = [e EXCEPT !.user = a, !.auth = 1, !.exp = Life, !.token = 1] /\ Life \in Int
      BY <2>1, <3>3, Clock
    <3>5. QED
      BY <3>1, <3>2, <3>3, <3>4 DEF SessionRecords
  <2>3. Fresh(a, 1) \in TokenRecords /\ ~Fresh(a, 1).used
    BY DEF Fresh, TokenRecords
  <2>4. {1} = 1..1
    OBVIOUS
  <2>5. tokens \in [1..1 -> TokenRecords] /\ 1 \in Nat /\ \A t \in Issued : ~tokens[t].used
    BY <2>1, <2>3, <2>4 DEF Issued
  <2>6. BrowserType
    BY <1>1, <2>1, <2>2, <2>5, IdleIs DEF Init, BrowserType, People
  <2>7. \A r \in Requests : req[r] = Idle
    BY <1>1 DEF Init
  <2>8. UsedIsKept
    BY <2>5 DEF UsedIsKept
  <2>9. QED
    BY <2>2, <2>6, <2>7, <2>8, IdleIs, EmptyIs DEF BrowserInv, OneAsks, RaceSignsNobodyOut, Confirmed
<1>2. CASE NoBrowser
  <2>1. tokens \in [1..0 -> TokenRecords] /\ 0 \in Nat /\ Issued = {}
    BY <1>2 DEF NoBrowser, Issued
  <2>2. BrowserType
    BY <1>2, <2>1, IdleIs, EmptyIs DEF NoBrowser, BrowserType, People
  <2>3. \A r \in Requests : req[r] = Idle
    BY <1>2 DEF NoBrowser
  <2>4. UsedIsKept
    BY <2>1 DEF UsedIsKept
  <2>5. QED
    BY <1>2, <2>2, <2>3, <2>4, IdleIs, EmptyIs DEF NoBrowser, BrowserInv, OneAsks, RaceSignsNobodyOut, Confirmed
<1>3. QED
  BY <1>1, <1>2

LEMMA BrowserNext ==
    ASSUME BrowserInv, Next \/ UNCHANGED vars
    PROVE  BrowserInv'
<1>1. CASE UNCHANGED vars
  <2>1. BrowserType' /\ UNCHANGED <<now, cookie, req, results, tokens>> /\ Confirmed(cookie')
    BY <1>1 DEF vars, BrowserInv, BrowserType, Confirmed
  <2>2. QED
    BY <2>1, RequestsStay, BrowserMoves
<1>2. CASE Time
  BY <1>2, TimeKeeps
<1>3. CASE Login \/ SsoEnds \/ \E d \in redirects, a \in Accounts : SignIn(d, a)
  BY <1>3, FormKeeps
<1>4. ASSUME NEW r \in Requests,
             \/ \E kind \in {"page", "users", "stepup"} : Arrive(r, kind)
             \/ \E c \in codes : CallbackArrives(r, c)
             \/ Renew(r) \/ RenewAnswered(r) \/ RenewFails(r) \/ Page(r)
             \/ UserToken(r) \/ UserTokenAnswered(r) \/ StepUp(r) \/ Callback(r) \/ Logout(r)
      PROVE  BrowserInv'
  BY <1>4, ArriveKeeps, CallbackArrivesKeeps, RenewKeeps, RenewAnsweredKeeps, RenewFailsKeeps, PageKeeps,
     UserTokenKeeps, UserTokenAnsweredKeeps, StepUpKeeps, CallbackKeeps, LogoutKeeps
<1>5. QED
  BY <1>1, <1>2, <1>3, <1>4 DEF Next

LEMMA BrowserHolds == AccessSpec => []BrowserInv
<1>1. AccessInit => BrowserInv
  BY BrowserBegins DEF AccessInit
<1>2. BrowserInv /\ [AccessNext]_<<side, realm, vars>> => BrowserInv'
  BY BrowserNext DEF AccessNext
<1>3. QED
  BY <1>1, <1>2, PTL DEF AccessSpec

\* Whatever answers overwrite the browser's cookie, a session that counts as stepped up (step_up,
\* _finish_step_up) is of the account that signed in again, later than it had.
THEOREM StepUpIsConfirmedAlways == AccessSpec => []StepUpIsConfirmed
<1>1. BrowserInv => StepUpIsConfirmed
  BY DEF BrowserInv, StepUpIsConfirmed, Confirmed, Sessions
<1>2. QED
  BY <1>1, BrowserHolds, PTL

\* Requests that find the same expired claims share one renewal (get_current_user, _refresh_results):
\* none is refused because another of them was faster.
THEOREM RaceSignsNobodyOutAlways == AccessSpec => []RaceSignsNobodyOut
<1>1. BrowserInv => RaceSignsNobodyOut
  BY DEF BrowserInv
<1>2. QED
  BY <1>1, BrowserHolds, PTL

-----------------------------------------------------------------------------
(* The realm *)

RoleSets == SUBSET Realm!RoleNames
AskedRecords ==
    [at : {"idle", "read", "write", "logout", "add", "remove", "members", "unmembers"},
     actor : Accounts \cup {Absent},
     op : {"none", "enable", "disable", "set_roles", "create_user", "end_sessions",
           "create_role", "update_role", "delete_role"},
     on : Accounts \cup {Absent}, role : Realm!RoleNames, want : RoleSets, cur : RoleSets]

RealmType ==
    /\ account \in [Accounts -> {"enabled", "disabled", Absent}]
    /\ direct \in [Accounts -> RoleSets]
    /\ Realm!Known \subseteq Realm!RoleNames /\ comp \in [Realm!Known -> SUBSET Realm!Known]
    /\ signedIn \subseteq Accounts
    /\ asking \in [Workers -> AskedRecords]
    /\ raced \in BOOLEAN /\ composed \in BOOLEAN

\* What a request under way was checked for when it began, or when it read the realm.
Checked(q) ==
    /\ q.at # "idle" => q.actor \in Accounts
    /\ q.op \in {"set_roles", "create_user"} => q.on \in Accounts
    /\ q.at = "read" => q.cur = {}
    /\ q.at = "write" /\ q.op # "enable" => q.on # q.actor
    /\ q.at \in {"add", "remove"} /\ Realm!Identity \in q.cur \ q.want => q.on # q.actor
    /\ q.op = "delete_role" => q.role # Realm!Identity
    /\ q.at = "members" => q.op \in {"create_role", "update_role"}

\* No role that can be edited contains the identity role.
Plain == composed \/ \A r \in Realm!Known \ {Realm!Identity} : Realm!Identity \notin comp[r]

\* The walk of a request past it found no way from a role to add to the role it is added to.
Walked(q) == \A m \in q.want \ q.cur : q.role \notin Realm!Below(m)

RealmInv ==
    /\ RealmType
    /\ \A w \in Workers : Checked(asking[w])
    /\ Plain
    /\ Realm!SomebodyRemains
    /\ Realm!NoLoops
    /\ raced \/ \A w \in Workers : asking[w].at = "members" => Walked(asking[w])

LEMMA BelowSelf ==
    ASSUME NEW r \in Realm!RoleNames
    PROVE  r \in Realm!Below(r)
BY DEF Realm!Below

LEMMA BelowLeast ==
    ASSUME NEW r, NEW found \in RoleSets, r \in found, Realm!Closed(found)
    PROVE  Realm!Below(r) \subseteq found
BY DEF Realm!Below, RoleSets

LEMMA BelowClosed ==
    ASSUME RealmType, NEW r, NEW x \in Realm!Below(r), x \in Realm!Known
    PROVE  comp[x] \subseteq Realm!Below(r)
<1>1. SUFFICES ASSUME NEW y \in comp[x], NEW found \in RoleSets, r \in found, Realm!Closed(found)
               PROVE  y \in found /\ y \in Realm!RoleNames
  <2>1. comp[x] \subseteq Realm!RoleNames
    BY DEF RealmType
  <2>2. QED
    BY <1>1, <2>1 DEF Realm!Below, RoleSets
<1>2. x \in found
  BY <1>1 DEF Realm!Below, RoleSets
<1>3. QED
  BY <1>1, <1>2 DEF Realm!Closed, RealmType

\* What can be reached by way of a role below another can be reached from that one.
LEMMA BelowGoesOn ==
    ASSUME RealmType, NEW r, NEW x \in Realm!Below(r)
    PROVE  Realm!Below(x) \subseteq Realm!Below(r)
<1>1. Realm!Below(r) \in RoleSets
  BY DEF Realm!Below, RoleSets
<1>2. Realm!Closed(Realm!Below(r))
  BY BelowClosed DEF Realm!Closed
<1>3. QED
  BY <1>1, <1>2, BelowLeast

\* Nothing more is reached when no role contains more than it did, or a new one contains nothing.
LEMMA BelowShrinks ==
    ASSUME \A x \in Realm!Known' : comp'[x] = {} \/ (x \in Realm!Known /\ comp'[x] \subseteq comp[x]), NEW r
    PROVE  Realm!Below(r)' \subseteq Realm!Below(r)
<1>1. SUFFICES ASSUME NEW y \in Realm!Below(r)', NEW found \in RoleSets, r \in found, Realm!Closed(found)
               PROVE  y \in Realm!RoleNames /\ y \in found
  BY DEF Realm!Below, RoleSets, Realm!RoleNames
<1>2. Realm!Closed(found)'
  BY <1>1 DEF Realm!Closed
<1>3. QED
  BY <1>1, <1>2 DEF Realm!Below, RoleSets, Realm!RoleNames, Realm!Identity

\* A role that gets more: what is below it was there, or is below what it gets; and nothing more is
\* below a role that does not reach it.
LEMMA BelowGrows ==
    ASSUME RealmType, NEW r \in Realm!Known, NEW more \in SUBSET Realm!Known,
           comp' = [x \in Realm!Known |-> IF x = r THEN comp[x] \cup more ELSE comp[x]],
           NEW y \in Realm!RoleNames
    PROVE  /\ Realm!Below(y)' \subseteq Realm!Below(y) \cup UNION {Realm!Below(a) : a \in more}
           /\ r \notin Realm!Below(y) => Realm!Below(y)' \subseteq Realm!Below(y)
<1>1. Realm!Known' = Realm!Known /\ \A x \in Realm!Known : comp'[x] = IF x = r THEN comp[x] \cup more ELSE comp[x]
  BY DEF Realm!Known
<1>2. y \in Realm!Below(y) /\ \A a \in more : a \in Realm!Below(a)
  BY BelowSelf DEF RealmType
<1>3. PICK with : with = Realm!Below(y) \cup UNION {Realm!Below(a) : a \in more}
  OBVIOUS
<1>4. with \in RoleSets /\ Realm!Below(y) \in RoleSets
  BY <1>3 DEF RoleSets, Realm!Below
<1>5. \A x \in with \cap Realm!Known : comp[x] \subseteq with
  BY <1>3, BelowClosed
<1>6. more \subseteq with
  BY <1>2, <1>3
<1>7. Realm!Closed(with)'
  BY <1>1, <1>5, <1>6 DEF Realm!Closed
<1>8. ASSUME r \notin Realm!Below(y)
      PROVE  \A x \in Realm!Below(y) \cap Realm!Known : comp'[x] \subseteq Realm!Below(y)
  BY <1>1, <1>8, BelowClosed
<1>9. ASSUME NEW found \in RoleSets, y \in found, \A x \in found \cap Realm!Known : comp'[x] \subseteq found
      PROVE  Realm!Below(y)' \subseteq found
  <2>1. Realm!Closed(found)'
    BY <1>1, <1>9 DEF Realm!Closed
  <2>2. QED
    BY <1>9, <2>1 DEF Realm!Below, RoleSets, Realm!RoleNames, Realm!Identity
<1>10. Realm!Below(y)' \subseteq with
  <2>1. y \in with /\ \A x \in with \cap Realm!Known : comp'[x] \subseteq with
    BY <1>1, <1>2, <1>3, <1>5, <1>6
  <2>2. QED
    BY <1>4, <1>9, <2>1
<1>11. QED
  BY <1>2, <1>3, <1>4, <1>8, <1>9, <1>10

\* What keeps the roles free of loops when a role gets members: none of them reaches it.
LEMMA NoLoopAdded ==
    ASSUME RealmType, \A x \in Realm!Known : \A m \in comp[x] : x \notin Realm!Below(m),
           NEW r \in Realm!Known, NEW more \in SUBSET Realm!Known,
           \A a \in more : r \notin Realm!Below(a),
           comp' = [x \in Realm!Known |-> IF x = r THEN comp[x] \cup more ELSE comp[x]]
    PROVE  \A x \in Realm!Known' : \A m \in comp'[x] : x \notin Realm!Below(m)'
<1>1. SUFFICES ASSUME NEW x \in Realm!Known, NEW m \in comp'[x], x \in Realm!Below(m)'
               PROVE  FALSE
  BY DEF Realm!Known
<1>2. m \in comp[x] \/ (x = r /\ m \in more)
  OBVIOUS
<1>3. m \in Realm!Known /\ m \in Realm!RoleNames
  BY <1>2 DEF RealmType
<1>4. /\ Realm!Below(m)' \subseteq Realm!Below(m) \cup UNION {Realm!Below(a) : a \in more}
      /\ r \notin Realm!Below(m) => Realm!Below(m)' \subseteq Realm!Below(m)
  BY <1>3, BelowGrows
<1>5. m \in comp[x] /\ r \in Realm!Below(m)
  BY <1>1, <1>2, <1>4
<1>6. PICK a \in more : x \in Realm!Below(a)
  BY <1>1, <1>4, <1>5
<1>7. m \in Realm!Below(a)
  BY <1>5, <1>6, BelowClosed
<1>8. QED
  BY <1>5, <1>7, BelowGoesOn

\* Nothing is granted through a role that does not contain the identity role.
LEMMA HeldDirectly ==
    ASSUME RealmInv, ~composed, NEW a \in Accounts, Realm!Authorized(a)
    PROVE  account[a] = "enabled" /\ Realm!Identity \in direct[a]
<1>1. PICK r \in direct[a] : Realm!Identity \in Realm!Below(r)
  BY DEF Realm!Authorized, Realm!Effective
<1>2. r \in Realm!RoleNames
  BY DEF RealmInv, RealmType, RoleSets
<1>3. CASE r # Realm!Identity
  <2>1. PICK found : found = Realm!RoleNames \ {Realm!Identity}
    OBVIOUS
  <2>2. \A x \in Realm!Known \ {Realm!Identity} : comp[x] \subseteq found
    BY <2>1 DEF RealmInv, RealmType, Plain
  <2>3. Realm!Closed(found) /\ r \in found /\ found \in RoleSets
    BY <1>2, <1>3, <2>1, <2>2 DEF Realm!Closed, RoleSets
  <2>4. Realm!Below(r) \subseteq found
    BY <2>3, BelowLeast
  <2>5. QED
    BY <1>1, <2>1, <2>4
<1>4. QED
  BY <1>1, <1>3 DEF Realm!Authorized

\* A step of a request that changes no role.
LEMMA RequestMoves ==
    ASSUME RealmInv, NEW w \in Workers, NEW p \in AskedRecords, Checked(p),
           p.at = "members" => Walked(p),
           asking' = [asking EXCEPT ![w] = p],
           UNCHANGED <<comp, composed, raced>>,
           account' \in [Accounts -> {"enabled", "disabled", Absent}],
           direct' \in [Accounts -> RoleSets],
           signedIn' \subseteq Accounts,
           Realm!SomebodyRemains'
    PROVE  RealmInv'
<1>1. RealmType'
  <2>1. asking' \in [Workers -> AskedRecords]
    BY DEF RealmInv, RealmType
  <2>2. Realm!Known' = Realm!Known
    BY DEF Realm!Known
  <2>3. QED
    BY <2>1, <2>2 DEF RealmInv, RealmType
<1>2. asking'[w] = p /\ \A o \in Workers : o = w \/ asking'[o] = asking[o]
  BY DEF RealmInv, RealmType
<1>3. \A o \in Workers : Checked(asking'[o])
  BY <1>2 DEF RealmInv
<1>4. \A r : Realm!Below(r)' = Realm!Below(r)
  BY DEF Realm!Below, Realm!Closed, Realm!Known
<1>5. Plain' /\ Realm!NoLoops'
  BY <1>4 DEF Plain, Realm!NoLoops, Realm!Known, RealmInv
<1>6. raced' \/ \A o \in Workers : asking'[o].at = "members" =>
          \A m \in asking'[o].want \ asking'[o].cur : asking'[o].role \notin Realm!Below(m)'
  <2>1. SUFFICES ASSUME ~raced, NEW o \in Workers, asking'[o].at = "members",
                        NEW m \in asking'[o].want \ asking'[o].cur
                 PROVE  asking'[o].role \notin Realm!Below(m)'
    OBVIOUS
  <2>2. CASE o = w
    BY <1>2, <1>4, <2>1, <2>2 DEF Walked
  <2>3. CASE o # w
    BY <1>2, <1>4, <2>1, <2>3 DEF Walked, RealmInv
  <2>4. QED
    BY <2>2, <2>3
<1>7. QED
  BY <1>1, <1>3, <1>5, <1>6 DEF RealmInv, Walked, Checked

LEMMA NoRequestIs ==
    Realm!NoRequest \in AskedRecords /\ Checked(Realm!NoRequest) /\ Realm!NoRequest.at = "idle"
BY DEF Realm!NoRequest, AskedRecords, Checked, RoleSets, Realm!RoleNames

\* A step of a request that changes nothing at Keycloak.
LEMMA RequestReads ==
    ASSUME RealmInv, NEW w \in Workers, NEW p \in AskedRecords, Checked(p),
           p.at = "members" => Walked(p),
           asking' = [asking EXCEPT ![w] = p],
           UNCHANGED <<account, direct, comp, signedIn, raced, composed>>
    PROVE  RealmInv'
<1>1. /\ account' \in [Accounts -> {"enabled", "disabled", Absent}] /\ direct' \in [Accounts -> RoleSets]
      /\ signedIn' \subseteq Accounts
  BY DEF RealmInv, RealmType
<1>2. Realm!SomebodyRemains'
  BY DEF RealmInv, Realm!SomebodyRemains
<1>3. QED
  BY <1>1, <1>2, RequestMoves

\* Where a request goes: it ends, or goes on with what it has.
LEMMA GotoIs ==
    ASSUME RealmInv, NEW w \in Workers,
           NEW at \in {"idle", "read", "write", "logout", "add", "remove", "members", "unmembers"},
           Realm!Goto(w, at)
    PROVE  \E p \in AskedRecords :
               /\ asking' = [asking EXCEPT ![w] = p]
               /\ \/ at = "idle" /\ p = Realm!NoRequest
                  \/ at # "idle" /\ p = [asking[w] EXCEPT !.at = at]
<1>1. asking[w] \in AskedRecords
  BY DEF RealmInv, RealmType
<1>2. CASE at = "idle"
  BY <1>2, NoRequestIs DEF Realm!Goto
<1>3. CASE at # "idle"
  <2>1. PICK p : p = [asking[w] EXCEPT !.at = at]
    OBVIOUS
  <2>2. p \in AskedRecords
    BY <1>1, <2>1 DEF AskedRecords
  <2>3. asking' = [asking EXCEPT ![w] = p]
    BY <1>1, <1>3, <2>1 DEF Realm!Goto, RealmInv, RealmType
  <2>4. QED
    BY <1>3, <2>1, <2>2, <2>3
<1>4. QED
  BY <1>2, <1>3

\* A request begins: it is checked for what can be seen from its arguments.
LEMMA BeginKeeps ==
    ASSUME RealmInv, NEW w \in Workers, NEW q \in AskedRecords, Checked(q), q.at # "members", Realm!Begin(w, q)
    PROVE  RealmInv'
BY RequestReads DEF Realm!Begin, Realm!realm

LEMMA AskedIs ==
    ASSUME NEW op \in {"enable", "disable", "set_roles", "create_user", "end_sessions",
                       "create_role", "update_role", "delete_role"},
           NEW at \in {"read", "write", "logout"}, NEW actor \in Accounts
    PROVE  \E q \in AskedRecords :
               /\ q = Realm!Asked(op, at, actor)
               /\ q.op = op /\ q.at = at /\ q.actor = actor /\ q.cur = {} /\ q.want = {}
<1>1. PICK n : n = Realm!NoRequest
  OBVIOUS
<1>2. n \in AskedRecords /\ n.cur = {} /\ n.want = {}
  BY <1>1, NoRequestIs DEF Realm!NoRequest
<1>3. PICK q : q = [n EXCEPT !.op = op, !.at = at, !.actor = actor]
  OBVIOUS
<1>4. q \in AskedRecords /\ q.op = op /\ q.at = at /\ q.actor = actor /\ q.cur = {} /\ q.want = {}
  BY <1>2, <1>3 DEF AskedRecords
<1>5. q = Realm!Asked(op, at, actor)
  BY <1>1, <1>3 DEF Realm!Asked
<1>6. QED
  BY <1>4, <1>5

LEMMA PagesKeep ==
    ASSUME RealmInv, NEW w \in Workers, NEW actor \in signedIn, Realm!Pages(w, actor)
    PROVE  RealmInv'
<1>1. actor \in Accounts /\ Realm!Present \subseteq Accounts
  BY DEF RealmInv, RealmType, Realm!Present
<1>2. ASSUME NEW u \in Accounts, NEW on \in BOOLEAN, Realm!SetEnabled(w, actor, u, on)
      PROVE  RealmInv'
  <2>1. PICK q \in AskedRecords :
            /\ q = Realm!Asked(IF on THEN "enable" ELSE "disable", "write", actor)
            /\ q.op = (IF on THEN "enable" ELSE "disable") /\ q.at = "write" /\ q.actor = actor
    BY <1>1, AskedIs
  <2>2. PICK p : p = [q EXCEPT !.on = u]
    OBVIOUS
  <2>3. p \in AskedRecords /\ p.op = q.op /\ p.at = "write" /\ p.actor = actor /\ p.on = u
    BY <2>1, <2>2 DEF AskedRecords
  <2>4. Checked(p) /\ Realm!Begin(w, p)
    BY <1>1, <1>2, <2>1, <2>2, <2>3 DEF Checked, Realm!SetEnabled, Realm!SetEnabledUnguarded
  <2>5. QED
    BY <2>3, <2>4, BeginKeeps
<1>3. ASSUME NEW u \in Accounts, NEW want \in SUBSET Realm!RoleNames,
             Realm!SetRoles(w, actor, u, want) \/ Realm!CreateUser(w, actor, u, want)
      PROVE  RealmInv'
  <2>1. PICK op \in {"set_roles", "create_user"} :
            Realm!Begin(w, [Realm!Asked(op, "read", actor) EXCEPT !.on = u, !.want = want])
    BY <1>3 DEF Realm!SetRoles, Realm!CreateUser
  <2>2. PICK q \in AskedRecords :
            /\ q = Realm!Asked(op, "read", actor)
            /\ q.op = op /\ q.at = "read" /\ q.actor = actor /\ q.cur = {}
    BY <1>1, AskedIs
  <2>3. PICK p : p = [q EXCEPT !.on = u, !.want = want]
    OBVIOUS
  <2>4. p \in AskedRecords /\ p.op = op /\ p.at = "read" /\ p.actor = actor /\ p.cur = {} /\ p.on = u
    BY <2>2, <2>3 DEF AskedRecords, RoleSets
  <2>5. Checked(p) /\ Realm!Begin(w, p)
    BY <1>1, <2>1, <2>2, <2>3, <2>4 DEF Checked
  <2>6. QED
    BY <2>4, <2>5, BeginKeeps
<1>4. ASSUME NEW u \in Accounts, Realm!EndSessions(w, actor, u)
      PROVE  RealmInv'
  <2>1. PICK q \in AskedRecords :
            /\ q = Realm!Asked("end_sessions", "logout", actor)
            /\ q.op = "end_sessions" /\ q.at = "logout" /\ q.actor = actor
    BY <1>1, AskedIs
  <2>2. PICK p : p = [q EXCEPT !.on = u]
    OBVIOUS
  <2>3. p \in AskedRecords /\ p.op = "end_sessions" /\ p.at = "logout" /\ p.actor = actor
    BY <2>1, <2>2 DEF AskedRecords
  <2>4. Checked(p) /\ Realm!Begin(w, p)
    BY <1>1, <1>4, <2>1, <2>2, <2>3 DEF Checked, Realm!EndSessions
  <2>5. QED
    BY <2>3, <2>4, BeginKeeps
<1>5. ASSUME NEW r \in Realm!RoleNames, NEW want \in SUBSET Realm!RoleNames,
             \/ Realm!CreateRole(w, actor, r, want) \/ Realm!UpdateRole(w, actor, r, want)
             \/ Realm!DeleteRole(w, actor, r)
      PROVE  RealmInv'
  <2>1. PICK op \in {"create_role", "update_role", "delete_role"}, set \in SUBSET Realm!RoleNames :
            /\ r # Realm!Identity
            /\ Realm!Begin(w, [Realm!Asked(op, "read", actor) EXCEPT !.role = r, !.want = set])
    <3>1. CASE Realm!CreateRole(w, actor, r, want) \/ Realm!UpdateRole(w, actor, r, want)
      BY <3>1 DEF Realm!CreateRole, Realm!UpdateRole, Realm!RequireEditable
    <3>2. CASE Realm!DeleteRole(w, actor, r)
      <4>1. PICK q \in AskedRecords : q = Realm!Asked("delete_role", "read", actor) /\ q.want = {}
        BY <1>1, AskedIs
      <4>2. [q EXCEPT !.role = r] = [q EXCEPT !.role = r, !.want = {}]
        BY <4>1 DEF AskedRecords
      <4>3. QED
        BY <3>2, <4>1, <4>2 DEF Realm!DeleteRole, Realm!RequireEditable
    <3>3. QED
      BY <1>5, <3>1, <3>2
  <2>2. PICK q \in AskedRecords :
            /\ q = Realm!Asked(op, "read", actor)
            /\ q.op = op /\ q.at = "read" /\ q.actor = actor /\ q.cur = {}
    BY <1>1, AskedIs
  <2>3. PICK p : p = [q EXCEPT !.role = r, !.want = set]
    OBVIOUS
  <2>4. p \in AskedRecords /\ p.op = op /\ p.at = "read" /\ p.actor = actor /\ p.cur = {} /\ p.role = r
    BY <2>2, <2>3 DEF AskedRecords, RoleSets
  <2>5. Checked(p) /\ Realm!Begin(w, p)
    BY <1>1, <2>1, <2>2, <2>3, <2>4 DEF Checked
  <2>6. QED
    BY <2>4, <2>5, BeginKeeps
<1>6. QED
  BY <1>1, <1>2, <1>3, <1>4, <1>5 DEF Realm!Pages

LEMMA ReadRolesKeeps ==
    ASSUME RealmInv, NEW w \in Workers, Realm!ReadRoles(w)
    PROVE  RealmInv'
<1>1. PICK q, cur : q = asking[w] /\ cur = direct[q.on] \cap Realm!Known
  OBVIOUS
<1>2. /\ q \in AskedRecords /\ Checked(q) /\ q.at = "read" /\ q.op = "set_roles" /\ q.on \in Accounts
      /\ UNCHANGED <<account, direct, comp, signedIn, raced, composed>>
  BY <1>1 DEF Realm!ReadRoles, Realm!realm, Realm!Present, RealmInv, RealmType
<1>3. CASE asking' = [asking EXCEPT ![w] = Realm!NoRequest]
  BY <1>2, <1>3, NoRequestIs, RequestReads
<1>4. CASE /\ ~(q.on = q.actor /\ Realm!Identity \in cur \ q.want)
           /\ asking' = [asking EXCEPT ![w].at = "add", ![w].cur = cur]
  <2>1. PICK p : p = [q EXCEPT !.at = "add", !.cur = cur]
    OBVIOUS
  <2>2. cur \in RoleSets
    BY <1>1, <1>2 DEF RealmInv, RealmType, RoleSets
  <2>3. /\ p \in AskedRecords /\ p.at = "add" /\ p.cur = cur /\ p.op = q.op /\ p.on = q.on
        /\ p.actor = q.actor /\ p.want = q.want
    BY <1>2, <2>1, <2>2 DEF AskedRecords
  <2>4. Checked(p)
    BY <1>2, <1>4, <2>3 DEF Checked
  <2>5. asking' = [asking EXCEPT ![w] = p]
    BY <1>1, <1>4, <2>1 DEF RealmInv, RealmType
  <2>6. QED
    BY <1>2, <2>3, <2>4, <2>5, RequestReads
<1>5. QED
  BY <1>1, <1>3, <1>4 DEF Realm!ReadRoles

LEMMA ReadRoleKeeps ==
    ASSUME RealmInv, NEW w \in Workers, Realm!ReadRole(w)
    PROVE  RealmInv'
<1>1. PICK q, cur : q = asking[w] /\ cur = comp[q.role]
  OBVIOUS
<1>2. /\ q \in AskedRecords /\ Checked(q) /\ q.at = "read" /\ q.op = "update_role" /\ q.role \in Realm!Known
      /\ UNCHANGED <<account, direct, comp, signedIn, raced, composed>>
  BY <1>1 DEF Realm!ReadRole, Realm!realm, RealmInv, RealmType
<1>3. CASE asking' = [asking EXCEPT ![w] = Realm!NoRequest]
  BY <1>2, <1>3, NoRequestIs, RequestReads
<1>4. CASE /\ ~ \E m \in q.want \ cur : Realm!Reaches(m, q.role)
           /\ asking' = [asking EXCEPT ![w].at = "members", ![w].cur = cur]
  <2>1. PICK p : p = [q EXCEPT !.at = "members", !.cur = cur]
    OBVIOUS
  <2>2. cur \in RoleSets
    BY <1>1, <1>2 DEF RealmInv, RealmType, RoleSets
  <2>3. /\ p \in AskedRecords /\ p.at = "members" /\ p.cur = cur /\ p.op = q.op /\ p.on = q.on
        /\ p.actor = q.actor /\ p.want = q.want /\ p.role = q.role
    BY <1>2, <2>1, <2>2 DEF AskedRecords
  <2>4. Checked(p) /\ Walked(p)
    BY <1>2, <1>4, <2>3 DEF Checked, Walked, Realm!Reaches
  <2>5. asking' = [asking EXCEPT ![w] = p]
    BY <1>1, <1>4, <2>1 DEF RealmInv, RealmType
  <2>6. QED
    BY <1>2, <2>3, <2>4, <2>5, RequestReads
<1>5. QED
  BY <1>1, <1>3, <1>4 DEF Realm!ReadRole

\* Where a request may go without being checked again.
LEMMA GoesOn ==
    ASSUME RealmInv, NEW w \in Workers,
           NEW at \in {"idle", "logout", "add", "remove", "members", "unmembers"}, Realm!Goto(w, at),
           asking[w].at # "idle",
           at = "add" => asking[w].cur = {},
           at = "remove" => asking[w].at = "add",
           at = "members" => asking[w].op \in {"create_role", "update_role"}
    PROVE  \E p \in AskedRecords :
               /\ asking' = [asking EXCEPT ![w] = p] /\ Checked(p) /\ p.at = at
               /\ at # "idle" => p.op = asking[w].op /\ p.role = asking[w].role /\ p.want = asking[w].want
                                 /\ p.cur = asking[w].cur
<1>1. asking[w] \in AskedRecords /\ Checked(asking[w])
  BY DEF RealmInv, RealmType
<1>2. PICK p \in AskedRecords :
          /\ asking' = [asking EXCEPT ![w] = p]
          /\ \/ at = "idle" /\ p = Realm!NoRequest
             \/ at # "idle" /\ p = [asking[w] EXCEPT !.at = at]
  BY GotoIs
<1>3. CASE at = "idle"
  BY <1>2, <1>3, NoRequestIs
<1>4. CASE at # "idle"
  <2>1. /\ p.at = at /\ p.op = asking[w].op /\ p.role = asking[w].role /\ p.want = asking[w].want
        /\ p.cur = asking[w].cur /\ p.on = asking[w].on /\ p.actor = asking[w].actor
    BY <1>1, <1>2, <1>4 DEF AskedRecords
  <2>2. Checked(p)
    BY <1>1, <1>4, <2>1 DEF Checked
  <2>3. QED
    BY <1>2, <2>1, <2>2
<1>5. QED
  BY <1>3, <1>4

\* What a request asks Keycloak for, when that changes no role.
LEMMA RequestWrites ==
    ASSUME RealmInv, NEW w \in Workers,
           NEW at \in {"idle", "logout", "add", "remove"}, Realm!Goto(w, at),
           asking[w].at # "idle",
           at = "add" => asking[w].cur = {},
           at = "remove" => asking[w].at = "add",
           UNCHANGED <<comp, composed, raced>>,
           account' \in [Accounts -> {"enabled", "disabled", Absent}],
           direct' \in [Accounts -> RoleSets],
           signedIn' \subseteq Accounts,
           Realm!SomebodyRemains'
    PROVE  RealmInv'
<1>1. PICK p \in AskedRecords : asking' = [asking EXCEPT ![w] = p] /\ Checked(p) /\ p.at = at
  BY GoesOn
<1>2. QED
  BY <1>1, RequestMoves

\* A request that changes no account and takes no role from anybody leaves somebody.
LEMMA SomebodyStays ==
    ASSUME RealmInv, UNCHANGED composed,
           \A a \in Accounts : account[a] = "enabled" =>
               account'[a] = "enabled" /\ (Realm!Identity \in direct[a] => Realm!Identity \in direct'[a])
    PROVE  Realm!SomebodyRemains'
BY DEF RealmInv, Realm!SomebodyRemains, Realm!Identity

\* A request that changes one account leaves the one it acts for, if that is another.
LEMMA ActorStays ==
    ASSUME RealmInv, UNCHANGED composed, NEW a \in Accounts, Realm!Authorized(a),
           account'[a] = account[a], direct'[a] = direct[a]
    PROVE  Realm!SomebodyRemains'
BY HeldDirectly DEF Realm!SomebodyRemains, Realm!Identity

LEMMA NewUserKeeps ==
    ASSUME RealmInv, NEW w \in Workers, Realm!NewUser(w)
    PROVE  RealmInv'
<1>1. PICK q : q = asking[w]
  OBVIOUS
<1>2. /\ q.at = "read" /\ q.op = "create_user" /\ account[q.on] = Absent /\ Realm!Goto(w, "add")
      /\ account' = [account EXCEPT ![q.on] = "enabled"]
      /\ UNCHANGED <<direct, comp, signedIn, raced, composed>>
  BY <1>1 DEF Realm!NewUser
<1>3. q.cur = {} /\ q.on \in Accounts
  BY <1>1, <1>2 DEF RealmInv, Checked
<1>4. account' \in [Accounts -> {"enabled", "disabled", Absent}]
  BY <1>2 DEF RealmInv, RealmType
<1>5. Realm!SomebodyRemains'
  <2>1. \A a \in Accounts : account[a] = "enabled" => account'[a] = "enabled" /\ direct'[a] = direct[a]
    BY <1>2, <1>3 DEF RealmInv, RealmType
  <2>2. QED
    BY <1>2, <2>1, SomebodyStays
<1>6. direct' \in [Accounts -> RoleSets] /\ signedIn' \subseteq Accounts
  BY <1>2 DEF RealmInv, RealmType
<1>7. QED
  BY <1>1, <1>2, <1>3, <1>4, <1>5, <1>6, RequestWrites

LEMMA AddRolesKeeps ==
    ASSUME RealmInv, NEW w \in Workers, Realm!AddRoles(w)
    PROVE  RealmInv'
<1>1. PICK q : q = asking[w]
  OBVIOUS
<1>2. PICK at \in {"idle", "remove"} : Realm!Goto(w, at)
  BY DEF Realm!AddRoles
<1>3. /\ q.at = "add" /\ q.op \in {"set_roles", "create_user"}
      /\ direct' = [direct EXCEPT ![q.on] = @ \cup Realm!ToAdd(q)]
      /\ UNCHANGED <<account, comp, signedIn, raced, composed>>
  BY <1>1 DEF Realm!AddRoles
<1>4. q.on \in Accounts /\ Realm!ToAdd(q) \in RoleSets /\ direct[q.on] \in RoleSets
  BY <1>1, <1>3 DEF RealmInv, RealmType, Checked, AskedRecords, RoleSets, Realm!ToAdd
<1>5. direct' \in [Accounts -> RoleSets]
  BY <1>3, <1>4 DEF RealmInv, RealmType, RoleSets
<1>6. Realm!SomebodyRemains'
  <2>1. \A a \in Accounts : direct[a] \subseteq direct'[a]
    BY <1>3, <1>4 DEF RealmInv, RealmType
  <2>2. QED
    BY <1>3, <2>1, SomebodyStays
<1>7. account' \in [Accounts -> {"enabled", "disabled", Absent}] /\ signedIn' \subseteq Accounts
  BY <1>3 DEF RealmInv, RealmType
<1>8. QED
  BY <1>1, <1>2, <1>3, <1>5, <1>6, <1>7, RequestWrites

LEMMA RemoveRolesKeeps ==
    ASSUME RealmInv, NEW w \in Workers, Realm!RemoveRoles(w)
    PROVE  RealmInv'
<1>1. PICK q : q = asking[w]
  OBVIOUS
<1>2. /\ q.at = "remove" /\ q.op = "set_roles" /\ Realm!Authorized(q.actor) /\ Realm!Goto(w, "idle")
      /\ direct' = [direct EXCEPT ![q.on] = @ \ Realm!ToRemove(q)]
      /\ UNCHANGED <<account, comp, signedIn, raced, composed>>
  BY <1>1 DEF Realm!RemoveRoles
<1>3. /\ q.on \in Accounts /\ q.actor \in Accounts /\ direct[q.on] \in RoleSets
      /\ Realm!Identity \in Realm!ToRemove(q) => q.on # q.actor
  BY <1>1, <1>2 DEF RealmInv, RealmType, Checked, Realm!ToRemove
<1>4. direct' \in [Accounts -> RoleSets]
  BY <1>2, <1>3 DEF RealmInv, RealmType, RoleSets
<1>5. Realm!SomebodyRemains'
  <2>1. \A a \in Accounts : direct'[a] = IF a = q.on THEN direct[a] \ Realm!ToRemove(q) ELSE direct[a]
    BY <1>2, <1>3 DEF RealmInv, RealmType
  <2>2. CASE Realm!Identity \in Realm!ToRemove(q)
    BY <1>2, <1>3, <2>1, <2>2, ActorStays
  <2>3. CASE Realm!Identity \notin Realm!ToRemove(q)
    BY <1>2, <2>1, <2>3, SomebodyStays
  <2>4. QED
    BY <2>2, <2>3
<1>6. account' \in [Accounts -> {"enabled", "disabled", Absent}] /\ signedIn' \subseteq Accounts
  BY <1>2 DEF RealmInv, RealmType
<1>7. QED
  BY <1>1, <1>2, <1>4, <1>5, <1>6, RequestWrites

LEMMA WriteEnabledKeeps ==
    ASSUME RealmInv, NEW w \in Workers, Realm!WriteEnabled(w)
    PROVE  RealmInv'
<1>1. PICK q : q = asking[w]
  OBVIOUS
<1>2. PICK at \in {"idle", "logout"} : Realm!Goto(w, at)
  BY DEF Realm!WriteEnabled
<1>3. /\ q.at = "write" /\ Realm!Authorized(q.actor) /\ q.on \in Accounts
      /\ account' = [account EXCEPT ![q.on] = IF q.op = "enable" THEN "enabled" ELSE "disabled"]
      /\ UNCHANGED <<direct, comp, signedIn, raced, composed>>
  BY <1>1 DEF Realm!WriteEnabled, Realm!Present
<1>4. q.actor \in Accounts /\ (q.op # "enable" => q.on # q.actor)
  BY <1>1, <1>3 DEF RealmInv, Checked
<1>5. account' \in [Accounts -> {"enabled", "disabled", Absent}]
  BY <1>3 DEF RealmInv, RealmType
<1>6. Realm!SomebodyRemains'
  <2>1. CASE q.op = "enable"
    <3>1. \A a \in Accounts : account[a] = "enabled" => account'[a] = "enabled"
      BY <1>3, <2>1 DEF RealmInv, RealmType
    <3>2. QED
      BY <1>3, <3>1, SomebodyStays
  <2>2. CASE q.op # "enable"
    <3>1. account'[q.actor] = account[q.actor]
      BY <1>3, <1>4, <2>2 DEF RealmInv, RealmType
    <3>2. QED
      BY <1>3, <1>4, <3>1, ActorStays
  <2>3. QED
    BY <2>1, <2>2
<1>7. direct' \in [Accounts -> RoleSets] /\ signedIn' \subseteq Accounts
  BY <1>3 DEF RealmInv, RealmType
<1>8. QED
  BY <1>1, <1>2, <1>3, <1>5, <1>6, <1>7, RequestWrites

LEMMA EndsKeep ==
    ASSUME RealmInv, NEW w \in Workers, Realm!KeycloakFails(w) \/ Realm!Logout(w)
    PROVE  RealmInv'
<1>1. /\ asking[w].at # "idle" /\ Realm!Goto(w, "idle") /\ signedIn' \subseteq signedIn
      /\ UNCHANGED <<account, direct, comp, raced, composed>>
  BY DEF Realm!KeycloakFails, Realm!Refused, Realm!Logout, Realm!realm
<1>2. /\ account' \in [Accounts -> {"enabled", "disabled", Absent}] /\ direct' \in [Accounts -> RoleSets]
      /\ signedIn' \subseteq Accounts
  BY <1>1 DEF RealmInv, RealmType
<1>3. Realm!SomebodyRemains'
  BY <1>1, SomebodyStays
<1>4. QED
  BY <1>1, <1>2, <1>3, RequestWrites

\* A change of roles by one request: any other past its walk is one that was raced.
LEMMA ComposeKeeps ==
    ASSUME RealmInv, NEW w \in Workers, NEW known \in RoleSets, NEW c \in [known -> SUBSET known],
           Realm!Compose(w, c),
           NEW p \in AskedRecords, Checked(p), asking' = [asking EXCEPT ![w] = p],
           p.at = "members" => \A m \in p.want \ p.cur : p.role \notin Realm!Below(m)',
           UNCHANGED <<account, signedIn>>,
           direct' \in [Accounts -> RoleSets],
           \A a \in Accounts : Realm!Identity \in direct[a] => Realm!Identity \in direct'[a],
           ~raced => \A r \in Realm!Known' : \A m \in comp'[r] : r \notin Realm!Below(m)'
    PROVE  RealmInv'
<1>1. /\ comp' = c
      /\ raced' = (raced \/ \E o \in Workers \ {w} : asking[o].op \in {"create_role", "update_role"})
      /\ composed' = (composed \/ \E r \in known \ {Realm!Identity} : Realm!Identity \in c[r])
  BY DEF Realm!Compose
<1>2. Realm!Known' = known
  BY <1>1 DEF Realm!Known
<1>3. raced \in BOOLEAN /\ composed \in BOOLEAN
  BY DEF RealmInv, RealmType
<1>4. raced' \in BOOLEAN /\ composed' \in BOOLEAN
  BY <1>1, <1>3
<1>5. RealmType'
  <2>1. asking' \in [Workers -> AskedRecords]
    BY DEF RealmInv, RealmType
  <2>2. account' \in [Accounts -> {"enabled", "disabled", Absent}] /\ signedIn' \subseteq Accounts
    BY DEF RealmInv, RealmType
  <2>3. Realm!Known' \subseteq Realm!RoleNames /\ comp' \in [Realm!Known' -> SUBSET Realm!Known']
    BY <1>1, <1>2 DEF RoleSets
  <2>4. QED
    BY <1>4, <2>1, <2>2, <2>3 DEF RealmType, RoleSets, Realm!RoleNames, Realm!Identity, AskedRecords
<1>6. asking'[w] = p /\ \A o \in Workers : o = w \/ asking'[o] = asking[o]
  BY DEF RealmInv, RealmType
<1>7. \A o \in Workers : Checked(asking'[o])
  BY <1>6 DEF RealmInv
<1>8. Plain'
  BY <1>1, <1>2 DEF Plain, Realm!Identity
<1>9. Realm!SomebodyRemains'
  <2>1. composed' \/ (~composed /\ ~composed')
    BY <1>1, <1>3, <1>4
  <2>2. QED
    BY <2>1 DEF RealmInv, Realm!SomebodyRemains, Realm!Identity
<1>10. Realm!NoLoops'
  BY <1>1 DEF Realm!NoLoops
<1>11. raced' \/ \A o \in Workers : asking'[o].at = "members" =>
          \A m \in asking'[o].want \ asking'[o].cur : asking'[o].role \notin Realm!Below(m)'
  <2>1. SUFFICES ASSUME ~raced', NEW o \in Workers, asking'[o].at = "members"
                 PROVE  \A m \in asking'[o].want \ asking'[o].cur : asking'[o].role \notin Realm!Below(m)'
    OBVIOUS
  <2>2. o = w
    <3>1. o = w \/ asking[o].op \notin {"create_role", "update_role"}
      BY <1>1, <2>1
    <3>2. QED
      BY <1>6, <2>1, <3>1 DEF RealmInv, Checked
  <2>3. QED
    BY <1>6, <2>1, <2>2
<1>12. QED
  BY <1>5, <1>7, <1>8, <1>9, <1>10, <1>11 DEF RealmInv, Walked, Checked

LEMMA NewRoleKeeps ==
    ASSUME RealmInv, NEW w \in Workers, Realm!NewRole(w)
    PROVE  RealmInv'
<1>1. PICK q, known : q = asking[w] /\ known = Realm!Known \cup {q.role}
  OBVIOUS
<1>2. PICK c : c = [r \in known |-> IF r = q.role THEN {} ELSE comp[r]]
  OBVIOUS
<1>3. /\ q.at = "read" /\ q.op = "create_role" /\ q.role \notin Realm!Known /\ q.want \subseteq Realm!Known
      /\ Realm!Compose(w, c) /\ Realm!Goto(w, "members")
      /\ UNCHANGED <<account, direct, signedIn>>
  BY <1>1, <1>2 DEF Realm!NewRole
<1>4. q.role \in Realm!RoleNames /\ q.cur = {}
  BY <1>1, <1>3 DEF RealmInv, RealmType, AskedRecords, Checked
<1>5. known \in RoleSets /\ c \in [known -> SUBSET known] /\ comp' = c /\ Realm!Known' = known
  BY <1>1, <1>2, <1>3, <1>4 DEF RealmInv, RealmType, RoleSets, Realm!Compose, Realm!Known
<1>6. PICK p \in AskedRecords :
          /\ asking' = [asking EXCEPT ![w] = p] /\ Checked(p) /\ p.at = "members"
          /\ p.role = q.role /\ p.want = q.want /\ p.cur = {}
  BY <1>1, <1>3, <1>4, GoesOn
<1>7. \A m \in Realm!Known : q.role \notin Realm!Below(m)'
  <2>1. SUFFICES ASSUME NEW m \in Realm!Known, q.role \in Realm!Below(m)'
                 PROVE  FALSE
    OBVIOUS
  <2>2. \A x \in Realm!Known \cap Realm!Known' : comp'[x] \subseteq Realm!Known
    BY <1>1, <1>2, <1>3, <1>5 DEF RealmInv, RealmType
  <2>3. Realm!Closed(Realm!Known)' <=> \A x \in Realm!Known' \cap Realm!Known' : comp'[x] \subseteq Realm!Known'
    BY DEF Realm!Closed
  <2>4. PICK found : found = Realm!Known
    OBVIOUS
  <2>5. Realm!Closed(found)'
    BY <2>2, <2>4 DEF Realm!Closed
  <2>6. QED
    BY <1>3, <2>1, <2>4, <2>5 DEF Realm!Below, Realm!RoleNames, Realm!Identity, RealmInv, RealmType
<1>8. ~raced => \A r \in Realm!Known' : \A m \in comp'[r] : r \notin Realm!Below(m)'
  <2>1. \A x \in Realm!Known' : comp'[x] = {} \/ (x \in Realm!Known /\ comp'[x] \subseteq comp[x])
    BY <1>1, <1>2, <1>5
  <2>2. \A m : Realm!Below(m)' \subseteq Realm!Below(m)
    BY <2>1, BelowShrinks
  <2>3. QED
    BY <2>1, <2>2 DEF RealmInv, Realm!NoLoops
<1>9. direct' \in [Accounts -> RoleSets] /\ \A a \in Accounts : direct'[a] = direct[a]
  BY <1>3 DEF RealmInv, RealmType
<1>10. QED
  BY <1>3, <1>5, <1>6, <1>7, <1>8, <1>9, ComposeKeeps

LEMMA AddMembersKeeps ==
    ASSUME RealmInv, NEW w \in Workers, Realm!AddMembers(w)
    PROVE  RealmInv'
<1>1. PICK q, more : q = asking[w] /\ more = Realm!ToAdd(q)
  OBVIOUS
<1>2. PICK at \in {"idle", "unmembers"} : Realm!Goto(w, at)
  BY DEF Realm!AddMembers
<1>3. PICK c : c = [r \in Realm!Known |-> IF r = q.role THEN comp[r] \cup more ELSE comp[r]]
  OBVIOUS
<1>4. /\ q.at = "members"
      /\ more = {} \/ more \cup {q.role} \subseteq Realm!Known
      /\ Realm!Compose(w, c) /\ UNCHANGED <<account, direct, signedIn>>
  BY <1>1, <1>3 DEF Realm!AddMembers
<1>5. /\ Realm!Known \in RoleSets /\ c \in [Realm!Known -> SUBSET Realm!Known]
      /\ comp' = c /\ Realm!Known' = Realm!Known
  BY <1>3, <1>4 DEF RealmInv, RealmType, RoleSets, Realm!Compose, Realm!Known
<1>6. PICK p \in AskedRecords : asking' = [asking EXCEPT ![w] = p] /\ Checked(p) /\ p.at # "members"
  BY <1>1, <1>2, <1>4, GoesOn
<1>7. ASSUME ~raced
      PROVE  \A r \in Realm!Known' : \A m \in comp'[r] : r \notin Realm!Below(m)'
  <2>1. \A x \in Realm!Known : \A m \in comp[x] : x \notin Realm!Below(m)
    BY <1>7 DEF RealmInv, Realm!NoLoops
  <2>2. CASE q.role \in Realm!Known
    <3>1. \A a \in more : q.role \notin Realm!Below(a)
      BY <1>1, <1>4, <1>7 DEF RealmInv, Walked, Realm!ToAdd
    <3>2. more \in SUBSET Realm!Known
      BY <1>4
    <3>3. QED
      BY <1>3, <1>5, <2>1, <2>2, <3>1, <3>2, NoLoopAdded DEF RealmInv
  <2>3. CASE q.role \notin Realm!Known
    <3>1. \A x \in Realm!Known : comp'[x] = comp[x]
      BY <1>3, <1>5, <2>3
    <3>2. \A m : Realm!Below(m)' \subseteq Realm!Below(m)
      BY <1>5, <3>1, BelowShrinks
    <3>3. QED
      BY <1>5, <2>1, <3>1, <3>2
  <2>4. QED
    BY <2>2, <2>3
<1>8. direct' \in [Accounts -> RoleSets] /\ \A a \in Accounts : direct'[a] = direct[a]
  BY <1>4 DEF RealmInv, RealmType
<1>9. QED
  BY <1>4, <1>5, <1>6, <1>7, <1>8, ComposeKeeps

LEMMA RemoveMembersKeeps ==
    ASSUME RealmInv, NEW w \in Workers, Realm!RemoveMembers(w)
    PROVE  RealmInv'
<1>1. PICK q : q = asking[w]
  OBVIOUS
<1>2. PICK c : c = [comp EXCEPT ![q.role] = @ \ Realm!ToRemove(q)]
  OBVIOUS
<1>3. /\ q.at = "unmembers" /\ q.role \in Realm!Known
      /\ Realm!Compose(w, c) /\ Realm!Goto(w, "idle") /\ UNCHANGED <<account, direct, signedIn>>
  BY <1>1, <1>2 DEF Realm!RemoveMembers
<1>4. /\ Realm!Known \in RoleSets /\ c \in [Realm!Known -> SUBSET Realm!Known]
      /\ comp' = c /\ Realm!Known' = Realm!Known
      /\ \A x \in Realm!Known : c[x] \subseteq comp[x]
  BY <1>2, <1>3 DEF RealmInv, RealmType, RoleSets, Realm!Compose, Realm!Known
<1>5. PICK p \in AskedRecords : asking' = [asking EXCEPT ![w] = p] /\ Checked(p) /\ p.at # "members"
  BY <1>1, <1>3, GoesOn
<1>6. ~raced => \A r \in Realm!Known' : \A m \in comp'[r] : r \notin Realm!Below(m)'
  <2>1. \A m : Realm!Below(m)' \subseteq Realm!Below(m)
    BY <1>4, BelowShrinks
  <2>2. QED
    BY <1>4, <2>1 DEF RealmInv, Realm!NoLoops
<1>7. direct' \in [Accounts -> RoleSets] /\ \A a \in Accounts : direct'[a] = direct[a]
  BY <1>3 DEF RealmInv, RealmType
<1>8. QED
  BY <1>3, <1>4, <1>5, <1>6, <1>7, ComposeKeeps

LEMMA RemoveRoleKeeps ==
    ASSUME RealmInv, NEW w \in Workers, Realm!RemoveRole(w)
    PROVE  RealmInv'
<1>1. PICK q, known : q = asking[w] /\ known = Realm!Known \ {q.role}
  OBVIOUS
<1>2. PICK c : c = [r \in known |-> comp[r] \ {q.role}]
  OBVIOUS
<1>3. /\ q.at = "read" /\ q.op = "delete_role"
      /\ direct' = [a \in Accounts |-> direct[a] \ {q.role}]
      /\ Realm!Compose(w, c) /\ Realm!Goto(w, "idle") /\ UNCHANGED <<account, signedIn>>
  BY <1>1, <1>2 DEF Realm!RemoveRole
<1>4. /\ known \in RoleSets /\ c \in [known -> SUBSET known]
      /\ comp' = c /\ Realm!Known' = known
      /\ \A x \in known : x \in Realm!Known /\ c[x] \subseteq comp[x]
  BY <1>1, <1>2, <1>3 DEF RealmInv, RealmType, RoleSets, Realm!Compose, Realm!Known
<1>5. PICK p \in AskedRecords : asking' = [asking EXCEPT ![w] = p] /\ Checked(p) /\ p.at # "members"
  BY <1>1, <1>3, GoesOn
<1>6. ~raced => \A r \in Realm!Known' : \A m \in comp'[r] : r \notin Realm!Below(m)'
  <2>1. \A m : Realm!Below(m)' \subseteq Realm!Below(m)
    BY <1>4, BelowShrinks
  <2>2. QED
    BY <1>4, <2>1 DEF RealmInv, Realm!NoLoops
<1>7. q.role # Realm!Identity
  BY <1>1, <1>3 DEF RealmInv, Checked
<1>8. direct' \in [Accounts -> RoleSets]
      /\ \A a \in Accounts : Realm!Identity \in direct[a] => Realm!Identity \in direct'[a]
  BY <1>3, <1>7 DEF RealmInv, RealmType, RoleSets
<1>9. QED
  BY <1>3, <1>4, <1>5, <1>6, <1>8, ComposeKeeps

LEMMA RealmSignInKeeps ==
    ASSUME RealmInv, NEW a \in Accounts, Realm!SignIn(a)
    PROVE  RealmInv'
<1>1. signedIn' = signedIn \cup {a} /\ UNCHANGED <<account, direct, comp, asking, raced, composed>>
  BY DEF Realm!SignIn
<1>2. \A r : Realm!Below(r)' = Realm!Below(r)
  BY <1>1 DEF Realm!Below, Realm!Closed, Realm!Known
<1>3. \A q : Walked(q)' <=> \A m \in q.want \ q.cur : q.role \notin Realm!Below(m)'
  BY DEF Walked
<1>4. RealmType'
  BY <1>1 DEF RealmInv, RealmType, Realm!Known
<1>5. Plain' /\ Realm!NoLoops' /\ Realm!SomebodyRemains'
  BY <1>1, <1>2 DEF Plain, Realm!NoLoops, Realm!SomebodyRemains, Realm!Known, RealmInv
<1>6. (raced \/ \A w \in Workers : asking[w].at = "members" => Walked(asking[w]))'
  BY <1>1, <1>2 DEF Walked, RealmInv
<1>7. (\A w \in Workers : Checked(asking[w]))'
  BY <1>1 DEF RealmInv
<1>8. QED
  BY <1>4, <1>5, <1>6, <1>7 DEF RealmInv

LEMMA RealmStays ==
    ASSUME RealmInv, UNCHANGED realm
    PROVE  RealmInv'
<1>1. UNCHANGED <<account, direct, comp, signedIn, asking, raced, composed>>
  BY DEF realm
<1>2. \A r : Realm!Below(r)' = Realm!Below(r)
  BY <1>1 DEF Realm!Below, Realm!Closed, Realm!Known
<1>3. RealmType' /\ Plain' /\ Realm!NoLoops' /\ Realm!SomebodyRemains'
  BY <1>1, <1>2 DEF RealmType, Plain, Realm!NoLoops, Realm!SomebodyRemains, Realm!Known, RealmInv
<1>4. (raced \/ \A w \in Workers : asking[w].at = "members" => Walked(asking[w]))'
  BY <1>1, <1>2 DEF Walked, RealmInv
<1>5. (\A w \in Workers : Checked(asking[w]))'
  BY <1>1 DEF RealmInv
<1>6. QED
  BY <1>3, <1>4, <1>5 DEF RealmInv

LEMMA RealmBegins ==
    ASSUME Realm!Init
    PROVE  RealmInv
<1>1. PICK admins \in (SUBSET Accounts) \ {{}} :
          /\ account = [a \in Accounts |-> IF a \in admins THEN "enabled" ELSE Absent]
          /\ direct = [a \in Accounts |-> IF a \in admins THEN {Realm!Identity} ELSE {}]
          /\ signedIn = admins
  BY DEF Realm!Init
<1>2. /\ comp = [r \in Realm!RoleNames |-> {}] /\ asking = [w \in Workers |-> Realm!NoRequest]
      /\ raced = FALSE /\ composed = FALSE
  BY DEF Realm!Init
<1>3. Realm!Known = Realm!RoleNames /\ \A r \in Realm!Known : comp[r] = {}
  BY <1>2 DEF Realm!Known
<1>4. Realm!Identity \in Realm!RoleNames
  BY DEF Realm!RoleNames
<1>5. RealmType
  <2>1. account \in [Accounts -> {"enabled", "disabled", Absent}] /\ signedIn \subseteq Accounts
    BY <1>1
  <2>2. direct \in [Accounts -> RoleSets]
    BY <1>1, <1>4 DEF RoleSets
  <2>3. asking \in [Workers -> AskedRecords]
    BY <1>2, NoRequestIs
  <2>4. comp \in [Realm!Known -> SUBSET Realm!Known]
    BY <1>2, <1>3
  <2>5. QED
    BY <1>2, <1>3, <2>1, <2>2, <2>3, <2>4 DEF RealmType
<1>6. Realm!SomebodyRemains
  <2>1. PICK a \in admins : a \in Accounts
    OBVIOUS
  <2>2. QED
    BY <1>1, <2>1 DEF Realm!SomebodyRemains, Realm!Identity
<1>7. \A w \in Workers : asking[w] = Realm!NoRequest
  BY <1>2
<1>8. QED
  BY <1>3, <1>5, <1>6, <1>7, NoRequestIs DEF RealmInv, Plain, Realm!NoLoops

LEMMA RealmNext ==
    ASSUME RealmInv, Realm!Next
    PROVE  RealmInv'
<1>1. ASSUME NEW w \in Workers, Realm!Keycloak(w)
      PROVE  RealmInv'
  BY <1>1, EndsKeep, ReadRolesKeeps, NewUserKeeps, AddRolesKeeps, RemoveRolesKeeps, WriteEnabledKeeps,
     NewRoleKeeps, ReadRoleKeeps, AddMembersKeeps, RemoveMembersKeeps, RemoveRoleKeeps DEF Realm!Keycloak
<1>2. QED
  BY <1>1, PagesKeep, RealmSignInKeeps DEF Realm!Next

LEMMA RealmHolds == AccessSpec => [](side = "realm" => RealmInv)
<1>1. AccessInit => (side = "realm" => RealmInv)
  BY RealmBegins DEF AccessInit
<1>2. (side = "realm" => RealmInv) /\ [AccessNext]_<<side, realm, vars>> => (side = "realm" => RealmInv)'
  <2>1. SUFFICES ASSUME side = "realm" => RealmInv, [AccessNext]_<<side, realm, vars>>, side' = "realm"
                 PROVE  RealmInv'
    OBVIOUS
  <2>2. side = "realm" /\ RealmInv
    BY <2>1 DEF AccessNext
  <2>3. CASE UNCHANGED realm
    BY <2>2, <2>3, RealmStays
  <2>4. CASE Realm!Next
    BY <2>2, <2>4, RealmNext
  <2>5. QED
    BY <2>1, <2>2, <2>3, <2>4 DEF AccessNext
<1>3. QED
  BY <1>1, <1>2, PTL DEF AccessSpec

\* Administrators who act on each other at the same time (set_enabled, set_roles, delete_role) leave
\* an enabled account that may manage the realm: who is refused, and who is checked, is enough.
THEOREM SomebodyRemainsAlways == AccessSpec => []SomebodyRemains
<1>1. (side = "realm" => RealmInv) => SomebodyRemains
  BY DEF RealmInv, SomebodyRemains
<1>2. QED
  BY <1>1, RealmHolds, PTL

\* No role contains itself, directly or through another, whatever roles are made, changed and deleted,
\* as long as no two changes of roles are under way together (_reaches in roles_service).
THEOREM NoLoopsAlways == AccessSpec => []NoLoops
<1>1. (side = "realm" => RealmInv) => NoLoops
  BY DEF RealmInv, NoLoops
<1>2. QED
  BY <1>1, RealmHolds, PTL

=============================================================================
