--------------------------- MODULE Notifications ---------------------------
(***************************************************************************)
(* Notifications: what calls for one, what was reported before, and who is *)
(* told. The background pass, the job queue's listener, the recipients an  *)
(* administrator edits and the test messages.                              *)
(*                                                                         *)
(* core/notifications/detect.py, service.py, store.py, delivery.py,        *)
(* model.py, routers/api_notifications.py.                                 *)
(*                                                                         *)
(* Two kinds of event are kept: the edge event `service_unhealthy` with its*)
(* debounce window, and the marker event `update_available` with its two   *)
(* scopes. `backup_overdue` is an edge event without a window,             *)
(* `cert_expiring` a marker event with a scope per node. What a message    *)
(* says, addresses, and whether a delivery succeeds are left out.          *)
(***************************************************************************)
EXTENDS Integers, FiniteSets

CONSTANTS
    Services,       \* modules of the stack
    Addons,         \* installed add-ons
    Recipients,     \* ids of recipients
    Pages,          \* open notification pages
    Versions,       \* versions on offer
    Window,         \* the debounce window, in ticks
    ForgetAfter,    \* when an outage that is over is forgotten, in ticks
    MaxTime,        \* bound on the clock
    MaxEdits,       \* bound on changes of the configuration
    MaxChanges      \* bound on changes of the stack and of offers, jobs and tests

ASSUME NotificationConstants ==
    /\ Window \in Nat /\ ForgetAfter \in Nat /\ Window <= ForgetAfter
    /\ MaxTime \in Nat /\ MaxEdits \in Nat /\ MaxChanges \in Nat

VARIABLES
    health,     \* what Docker says of each service
    offer,      \* the version on offer for the core and each add-on
    busy,       \* a job works on the stack
    now, changes,
    config,     \* notifications.yaml: the recipients there are, and what each receives
    rev,        \* its revision
    page,       \* the revision each open page was loaded with
    seen, up, tests,        \* notifications-state.json
    wake,       \* the loop's event
    pass,       \* where the pass is
    failures,   \* failed jobs about to be reported
    testing,    \* recipients a test is on its way to
    over,       \* history: reported and since then seen to be over
    told,       \* history: when and with what marker each was last reported
    dirty       \* history: a job ended after the last pass began

world == <<health, offer, busy, changes>>
settings == <<config, rev, page>>
remembered == <<seen, up, tests>>
notifyVars == <<health, offer, busy, now, changes, config, rev, page, seen, up, tests,
          wake, pass, failures, testing, over, told, dirty>>

Core == "core"
Updates == {Core} \cup Addons
Keys == Services \cup Updates
EventOf(k) == IF k \in Services THEN "service" ELSE "update"
Events == {"service", "update"}

None == "none"
NotSeen == [active |-> FALSE, marker |-> None, last |-> -1]
NeverTold == [marker |-> None, at |-> -1]
Idle == [at |-> "wait", found |-> {}, holds |-> {}, mark |-> [u \in Updates |-> None],
         new |-> {}, box |-> {}]

\* A recipient that exists receives the events it chose, and none while it is switched off.
Recipient == SUBSET Events

SubscribedTo(event) == {r \in DOMAIN config : event \in config[r]}

-----------------------------------------------------------------------------
(* The stack *)

Change == changes < MaxChanges /\ changes' = changes + 1

\* A service is started, stopped, removed, or switched off with its profile.
Turn(s, h) ==
    /\ Change /\ health[s] # h /\ health' = [health EXCEPT ![s] = h]
    /\ UNCHANGED <<offer, busy, now, settings, remembered, wake, pass, failures, testing, over, told, dirty>>

Offer(u, v) ==
    /\ Change /\ offer[u] # v /\ offer' = [offer EXCEPT ![u] = v]
    /\ UNCHANGED <<health, busy, now, settings, remembered, wake, pass, failures, testing, over, told, dirty>>

JobStarts ==
    /\ Change /\ ~busy /\ busy' = TRUE
    /\ UNCHANGED <<health, offer, now, settings, remembered, wake, pass, failures, testing, over, told, dirty>>

\* on_job_finished: a pass is asked for, and a failed job gets a task of its own.
OnJobFinished(failed) ==
    /\ busy /\ busy' = FALSE
    /\ wake' = TRUE /\ dirty' = TRUE
    /\ failures' = IF failed THEN failures + 1 ELSE failures
    /\ UNCHANGED <<health, offer, changes, now, settings, remembered, pass, testing, over, told>>

\* _report_job
ReportJob ==
    /\ failures > 0 /\ failures' = failures - 1
    /\ UNCHANGED <<world, now, settings, remembered, wake, pass, testing, over, told, dirty>>

Tick ==
    /\ now < MaxTime /\ now' = now + 1
    /\ UNCHANGED <<world, settings, remembered, wake, pass, failures, testing, over, told, dirty>>

-----------------------------------------------------------------------------
(* The pass: _run, run_once *)

\* The event is cleared before the pass; an unusable configuration ends it. `wanted` is what
\* somebody receives.
BeginPass ==
    /\ pass.at = "wait"
    /\ wake' = FALSE /\ dirty' = FALSE
    /\ pass' \in {[Idle EXCEPT !.at = IF SubscribedTo("service") = {} THEN "updates" ELSE "busy"],
                  Idle}
    /\ UNCHANGED <<world, now, settings, remembered, failures, testing, over, told>>

\* stack_is_busy, which is asked before the stack is read. It answers yes if Docker does not.
AskBusy ==
    /\ pass.at = "busy"
    /\ \/ ~busy /\ pass' = [pass EXCEPT !.at = "services"]
       \/ pass' = [pass EXCEPT !.at = "updates"]
    /\ UNCHANGED <<world, now, settings, remembered, wake, failures, testing, over, told, dirty>>

\* service_findings: down is stopped, or gone after a pass saw it deployed.
Down == {s \in Services : health[s] = "stopped" \/ (health[s] = "missing" /\ s \in up)}
UpNow == {s \in Services : health[s] \in {"healthy", "stopped"}}
         \cup {s \in up : health[s] # "off"}

ServicesDown ==
    /\ pass.at = "services"
    /\ pass' = [pass EXCEPT !.at = "updates", !.found = Services, !.holds = Down]
    /\ up' = UpNow
    /\ UNCHANGED <<world, now, settings, seen, tests, wake, failures, testing, over, told, dirty>>

\* updates: the release tags may be out of reach while the add-ons can be read. Not on every
\* pass (_due), and not if nobody receives it.
LookForUpdates ==
    /\ pass.at = "updates"
    /\ \E scope \in (IF SubscribedTo("update") = {} THEN {{}} ELSE {{}, Addons, Updates}) :
          pass' = [pass EXCEPT !.at = "decide", !.found = @ \cup scope,
                               !.holds = @ \cup {u \in scope : offer[u] # None},
                               !.mark = [u \in Updates |-> IF u \in scope THEN offer[u] ELSE None]]
    /\ UNCHANGED <<world, now, settings, remembered, wake, failures, testing, over, told, dirty>>

MarkerOf(k) == IF k \in Services THEN None ELSE pass.mark[k]

\* _outside_window
OutsideWindow(k) == seen[k].last = -1 \/ now - seen[k].last >= Window

\* decide, for one condition that holds.
FiresNoWindow(k) ==
    IF k \in Services THEN ~seen[k].active ELSE seen[k].marker # MarkerOf(k)
Fires(k) ==
    IF k \in Services THEN ~seen[k].active /\ OutsideWindow(k)
    ELSE seen[k].marker # MarkerOf(k)

\* What a finding is complete for and does not hold: the prefix of its scope.
ClearedWithoutScope(k) ==
    \E f \in pass.found : EventOf(f) = EventOf(k) /\ k \notin pass.holds
Cleared(k) == k \in pass.found /\ k \notin pass.holds

Entry(k) ==
    IF k \in pass.holds THEN
        [active |-> TRUE, marker |-> MarkerOf(k), last |-> IF Fires(k) THEN now ELSE seen[k].last]
    ELSE IF ~Cleared(k) THEN seen[k]
    ELSE IF k \in Services /\ seen[k].last # -1 /\ now - seen[k].last <= ForgetAfter
    THEN [seen[k] EXCEPT !.active = FALSE]
    ELSE NotSeen

\* The state is stored before anything is delivered. If it cannot be, the reports go out all the
\* same, and nothing says later that they did.
Decide ==
    /\ pass.at = "decide"
    /\ pass' = [pass EXCEPT !.at = "deliver", !.found = {}, !.holds = {},
                               !.mark = [u \in Updates |-> None],
                               !.new = {k \in pass.holds : Fires(k)}]
    /\ \E stored \in BOOLEAN :
          /\ seen' = IF stored THEN [k \in Keys |-> Entry(k)] ELSE seen
          /\ told' = [k \in Keys |->
                IF k \notin pass'.new THEN told[k]
                ELSE IF stored THEN [marker |-> MarkerOf(k), at |-> now] ELSE NeverTold]
    /\ over' = [k \in Keys |-> k \in pass.found \ pass.holds \/ (over[k] /\ k \notin pass'.new)]
    /\ UNCHANGED <<world, now, settings, up, tests, wake, failures, testing, dirty>>

\* _deliver: the configuration is read again for each condition.
Address(k) ==
    /\ pass.at = "deliver" /\ pass.box = {} /\ k \in pass.new
    /\ pass' = [pass EXCEPT !.new = @ \ {k}, !.box = SubscribedTo(EventOf(k))]
    /\ UNCHANGED <<world, now, settings, remembered, wake, failures, testing, over, told, dirty>>

\* deliver_one, which never raises: one that fails does not hold up the others.
Deliver(r) ==
    /\ pass.at = "deliver" /\ r \in pass.box
    /\ pass' = [pass EXCEPT !.box = @ \ {r}]
    /\ UNCHANGED <<world, now, settings, remembered, wake, failures, testing, over, told, dirty>>

EndPassClearing ==
    /\ pass.at = "deliver" /\ pass.new = {} /\ pass.box = {}
    /\ pass' = Idle /\ wake' = FALSE
    /\ UNCHANGED <<world, now, settings, remembered, failures, testing, over, told, dirty>>
EndPass ==
    /\ pass.at = "deliver" /\ pass.new = {} /\ pass.box = {}
    /\ pass' = Idle
    /\ UNCHANGED <<world, now, settings, remembered, wake, failures, testing, over, told, dirty>>

\* The manager dies and starts again: what is in the files stays, a delivery is lost.
Restart ==
    /\ pass.at # "wait" \/ testing # {} \/ failures > 0 \/ wake
    /\ pass' = Idle /\ failures' = 0 /\ testing' = {} /\ wake' = FALSE /\ dirty' = FALSE
    /\ UNCHANGED <<world, now, settings, remembered, over, told>>

-----------------------------------------------------------------------------
(* The page *)

OpenPage(p) ==
    /\ page[p] # rev /\ page' = [page EXCEPT ![p] = rev]
    /\ UNCHANGED <<world, now, config, rev, remembered, wake, pass, failures, testing, over, told, dirty>>

\* mutate: only for the revision the page was loaded with.
Mutate(p, c) ==
    /\ page[p] = rev /\ rev < MaxEdits
    /\ config' = c /\ rev' = rev + 1
    /\ page' = [page EXCEPT ![p] = rev + 1]

AddRecipient(p, r, d) ==
    /\ r \notin DOMAIN config
    /\ Mutate(p, [q \in DOMAIN config \cup {r} |-> IF q = r THEN d ELSE config[q]])
    /\ UNCHANGED <<world, now, remembered, wake, pass, failures, testing, over, told, dirty>>

UpdateRecipient(p, r, d) ==
    /\ r \in DOMAIN config /\ config[r] # d
    /\ Mutate(p, [config EXCEPT ![r] = d])
    /\ UNCHANGED <<world, now, remembered, wake, pass, failures, testing, over, told, dirty>>

\* What is remembered of its test goes with it.
DeleteRecipient(p, r) ==
    /\ r \in DOMAIN config
    /\ Mutate(p, [q \in DOMAIN config \ {r} |-> config[q]])
    /\ tests' = tests \ {r}
    /\ UNCHANGED <<world, now, seen, up, wake, pass, failures, testing, over, told, dirty>>

\* create_recipient, update_recipient, set_events, delete_recipient
RecipientRequest(p) ==
    \E r \in Recipients :
       \/ DeleteRecipient(p, r)
       \/ \E d \in Recipient : AddRecipient(p, r, d) \/ UpdateRecipient(p, r, d)

\* send_test: the recipient is looked up, the message sent, the outcome remembered.
SendTest(r) ==
    /\ r \in DOMAIN config /\ r \notin testing /\ Change
    /\ testing' = testing \cup {r}
    /\ UNCHANGED <<health, offer, busy, now, settings, remembered, wake, pass, failures, over, told, dirty>>

RememberTest(r) ==
    /\ r \in testing /\ testing' = testing \ {r}
    /\ tests' = tests \cup {r}
    /\ UNCHANGED <<world, now, settings, seen, up, wake, pass, failures, over, told, dirty>>

-----------------------------------------------------------------------------

\* Everybody receives everything; or the last recipient was removed since the pages were opened.
NotifyInit ==
    /\ health = [s \in Services |-> "healthy"]
    /\ offer = [u \in Updates |-> None] /\ busy = FALSE
    /\ now = 0 /\ changes = 0
    /\ rev = 0
    /\ \/ config = [r \in Recipients |-> Events] /\ page = [p \in Pages |-> 0]
       \/ config = [r \in {} |-> Events] /\ page = [p \in Pages |-> -1]
    /\ seen = [k \in Keys |-> NotSeen] /\ up = {} /\ tests = {}
    /\ wake = FALSE /\ pass = Idle /\ failures = 0 /\ testing = {}
    /\ over = [k \in Keys |-> FALSE] /\ told = [k \in Keys |-> NeverTold] /\ dirty = FALSE

NotifyNext ==
    \/ \E s \in Services, h \in {"healthy", "stopped", "missing", "off"} : Turn(s, h)
    \/ \E u \in Updates, v \in Versions \cup {None} : Offer(u, v)
    \/ JobStarts \/ (\E f \in BOOLEAN : OnJobFinished(f)) \/ ReportJob \/ Tick
    \/ BeginPass \/ AskBusy \/ ServicesDown \/ LookForUpdates \/ Decide
    \/ (\E k \in Keys : Address(k)) \/ (\E r \in Recipients : Deliver(r)) \/ EndPass \/ Restart
    \/ \E p \in Pages : OpenPage(p) \/ RecipientRequest(p)
    \/ \E r \in Recipients : SendTest(r) \/ RememberTest(r)

NotifySpec == NotifyInit /\ [][NotifyNext]_notifyVars

-----------------------------------------------------------------------------
(* Properties *)

\* "Each event is reported once per occurrence ... a restart sends nothing twice": between two
\* reports of a service, or of the same version, a pass has seen that it was over, whatever dies,
\* is asked in vain or is not subscribed to in between, if the first could be stored.
ReportedOncePerOccurrence ==
    [][\A k \in Keys :
        (told'[k] # told[k] /\ NeverTold \notin {told[k], told'[k]}
            /\ told'[k].marker = told[k].marker)
            => over[k]]_notifyVars

\* A service that flaps is reported at most once per debounce window, across restarts and
\* although an outage that is over is forgotten at some time, if the first could be stored.
OncePerWindow ==
    [][\A s \in Services :
        (told'[s] # told[s] /\ NeverTold \notin {told[s], told'[s]})
            => told'[s].at - told[s].at >= Window]_notifyVars

\* A job that ends while a pass is reading the stack gets a pass of its own: the loop does not
\* wait for its interval while it has not looked since.
JobEndIsLookedAt == (pass.at = "wait" /\ dirty) => wake

=============================================================================
