------------------------------ MODULE Upgrade ------------------------------
(***************************************************************************)
(* A core upgrade seen from the manager: the check that has to come first, *)
(* what the panel reads out of the runner's output, the way back after a   *)
(* failure, and the images that are removed afterwards.                    *)
(*                                                                         *)
(* core/upgrade.py, core/images.py, core/runner.py, routers/api_upgrade.py,*)
(* the runner's panel in routers/ui.py.                                    *)
(*                                                                         *)
(* papaia-ctl is external: a run goes through six phases and announces     *)
(* each. A release has one image. Who may start when, beside restores,     *)
(* stack actions and jobs, is ControlPlane's; here a start is one step.    *)
(***************************************************************************)
EXTENDS Integers, Sequences, FiniteSets

CONSTANTS
    Newest,         \* releases are 1 .. Newest
    PanelLines,     \* the lines of the runner's output that the panel asks for
    MaxRuns         \* bound on upgrades

ASSUME UpgradeConstants ==
    /\ Newest \in Nat \ {0} /\ PanelLines \in Nat \ {0}
    /\ MaxRuns \in Nat

VARIABLES
    recorded,   \* platform_version of the configuration
    checkout,   \* the release the checkout is on
    local,      \* the images on the host; 0 is one the stack does not name
    stack,      \* the release whose containers are there, 0 if they are removed
    alive,      \* the manager runs
    cached,     \* the last check
    runner,     \* the upgrade runner's container, running or not
    log,        \* what it printed
    poll,       \* a panel that has read the runner's state and not yet its output
    prune,      \* an image cleanup of the manager ("hub") and of the runner
    runs        \* upgrades so far

deployed == <<recorded, checkout, stack>>
upgradeVars == <<recorded, checkout, local, stack, alive, cached,
                 runner, log, poll, prune, runs>>

Releases == 1 .. Newest
Foreign == 0

Order == <<"backup", "stop", "checkout", "migrations", "render", "start">>
Steps == DOMAIN Order

NoCheck == [current |-> 0, target |-> 0, gate |-> "ok"]
NoRunner == [run |-> 0, target |-> 0, image |-> 0, clean |-> FALSE, backup |-> TRUE, step |-> 0,
             open |-> FALSE, state |-> "none"]
NoPoll == [run |-> 0, running |-> FALSE, ok |-> FALSE]
NoPrune == [at |-> "idle", by |-> "none", todo |-> {}, declared |-> {}, used |-> {}, local |-> {},
            raced |-> FALSE]

\* RunnerStatus
IsRunning == runner.state \in {"running", "complete", "cleaning"}
Succeeded == runner.state = "ok"

-----------------------------------------------------------------------------
(* The check *)

\* The version an upgrade starts from.
CurrentVersion == IF recorded # 0 THEN recorded ELSE checkout

NewerThan(vs, v) == {t \in vs : t > v}

\* The tags of the checkout after fetch_tags, which may fail: what it had still counts.
Fetched == {t \in SUBSET Releases : recorded \in t}

\* upgrade-resolve, which is papaia-ctl's: the newest release for 0, or the one asked for if there is
\* such a tag and it is not older. 0 is a refusal.
Resolve(want, ts, current) ==
    LET newer == NewerThan(ts, current)
    IN IF want # 0 THEN IF want \in newer \cup {current} THEN want ELSE 0
       ELSE IF newer = {} THEN current
       ELSE CHOOSE t \in newer : \A o \in newer : o <= t

\* parse_gate_json and Gate: passed by the exit code; a failure is forceable if no add-on is in
\* error.
Gate(code, results) ==
    IF code = 0 THEN "ok" ELSE IF "ERROR" \in results THEN "error" ELSE "incompatible"

\* _evaluate_target asks the gate on a worktree of the target, unless there is nothing newer; its
\* verdict depends on the add-ons.
Verdicts(target, current) ==
    IF target = current THEN {Gate(0, {})}
    ELSE {Gate(code, results) : code \in {0, 2}, results \in SUBSET {"INCOMPATIBLE", "ERROR"}}

\* fetch_tags and local_tags, upgrade-resolve, and the evaluation of the target; the result is
\* cached. A lock puts checks one after the other, so that each is one step, at its end. A check
\* that fails caches nothing, and neither does newer_releases, which fetches for the notifications
\* under the same lock.
RunCheck(want) ==
    /\ alive
    /\ LET current == CurrentVersion
       IN \/ cached' = cached
          \/ \E target \in {Resolve(want, ts, current) : ts \in Fetched} \ {0} :
             \E gate \in Verdicts(target, current) :
                cached' = [current |-> current, target |-> target, gate |-> gate]
    /\ UNCHANGED <<deployed, local, alive, runner, log, poll, prune, runs>>

\* _check_force and _check_gate
GateAllows(force) ==
    IF force THEN cached.gate = "incompatible" ELSE cached.gate = "ok"

\* The container `docker run` starts, with the labels that say what it was started for.
Launch(target, backup, clean) ==
    [NoRunner EXCEPT !.run = runs + 1, !.target = target, !.image = stack, !.clean = clean,
                     !.backup = backup, !.state = "running"]

\* start_upgrade: a finished runner counts. A cleanup on its way is not asked about.
StartUpgrade(force, backup, clean) ==
    /\ alive /\ runner = NoRunner /\ runs < MaxRuns
    /\ cached # NoCheck /\ cached.target # cached.current
    /\ GateAllows(force)
    /\ runs' = runs + 1
    /\ runner' = Launch(cached.target, backup, clean)
    /\ log' = <<>> /\ cached' = NoCheck
    /\ prune' = [prune EXCEPT !["hub"].raced = prune["hub"] # NoPrune]
    /\ UNCHANGED <<deployed, local, alive, poll>>

-----------------------------------------------------------------------------
(* papaia-ctl upgrade *)

Say(lines) == log' = log \o lines

\* The phase that comes next: without a restore point the first is not announced.
NextStep == IF runner.step = 0 /\ ~runner.backup THEN 2 ELSE runner.step + 1

\* A release without migrations says so instead.
Announced(step) == IF Order[step] = "migrations" THEN {"migrations", "nomigrations"} ELSE {Order[step]}

Begin ==
    /\ runner.state = "running" /\ ~runner.open /\ NextStep \in Steps
    /\ \E line \in Announced(NextStep) : Say(<<line>>)
    /\ runner' = [runner EXCEPT !.step = NextStep, !.open = TRUE]
    /\ UNCHANGED <<deployed, local, alive, cached, poll, prune, runs>>

\* What is in the manager's memory goes with its container.
LoseMemory ==
    /\ alive' = FALSE /\ cached' = NoCheck /\ poll' = NoPoll
    /\ prune' = [prune EXCEPT !["hub"] = NoPrune]

KeepMemory == UNCHANGED <<alive, cached, poll, prune>>

\* The phase is over. After the checkout papaia-ctl hands over to the one of the release, which
\* says so in a line that begins like the announcement of the migrations.
Done ==
    /\ runner.state = "running" /\ runner.open
    /\ runner' = [runner EXCEPT !.open = FALSE]
    /\ \/ Order[runner.step] \in {"backup", "migrations"}
          /\ UNCHANGED <<deployed, local, log>> /\ KeepMemory
       \/ Order[runner.step] = "stop" /\ stack' = 0
          /\ UNCHANGED <<recorded, checkout, local, log>> /\ LoseMemory
       \/ Order[runner.step] = "checkout" /\ checkout' = runner.target /\ Say(<<"banner">>)
          /\ UNCHANGED <<recorded, stack, local>> /\ KeepMemory
       \/ Order[runner.step] = "render" /\ recorded' = runner.target
          /\ UNCHANGED <<checkout, stack, local, log>> /\ KeepMemory
       \/ Order[runner.step] = "start"
          /\ stack' = checkout /\ local' = local \cup {checkout} /\ alive' = TRUE
          /\ log' \in {log, Append(log, "provisioning")}
          /\ UNCHANGED <<recorded, checkout, cached, poll, prune>>
    /\ UNCHANGED runs

Moved == checkout = runner.target

\* A run that fails after the move prints the way back; one that is killed, or dies in the
\* hand-over, prints nothing.
Fail ==
    /\ runner.state = "running" /\ (runner.open \/ runner.step < Len(Order))
    /\ runner' = [runner EXCEPT !.state = "failed"]
    /\ log' \in {log, IF Moved /\ runner.step > 3 THEN Append(log, "recovery") ELSE log}
    /\ UNCHANGED <<deployed, local, alive, cached, poll, prune, runs>>

\* The completion marker; the cleanup comes after it, and never changes the exit status.
Complete ==
    /\ runner.state = "running" /\ ~runner.open /\ runner.step = Len(Order)
    /\ runner' = [runner EXCEPT !.state = "complete"]
    /\ Say(<<"complete">>)
    /\ UNCHANGED <<deployed, local, alive, cached, poll, prune, runs>>

-----------------------------------------------------------------------------
(* Images *)

\* What `docker compose config` names for the checkout, what is on the host, and what a container,
\* running or not, was made from.
Declared == {checkout}
LocalImages == local
Used == {stack, runner.image} \ {0}

\* build_report: neither declared nor used, and of a repository the stack declares.
BuildReport(p) == {i \in p.local : i \notin p.declared /\ i \notin p.used /\ i # Foreign}

OpenPrune(w, by) ==
    prune' = [prune EXCEPT ![w] = [NoPrune EXCEPT !.at = "read", !.by = by,
                                    !.todo = {"declared", "local", "used"}]]

\* The three readings are gathered in any order. Nothing is removed if one fails.
ReadImages(w, what) ==
    LET p == prune[w]
    IN /\ p.at = "read" /\ what \in p.todo
       /\ prune' = [prune EXCEPT ![w] =
             [p EXCEPT !.todo = @ \ {what},
                       !.at = IF p.todo = {what} THEN "remove" ELSE "read",
                       !.declared = IF what = "declared" THEN Declared ELSE @,
                       !.local = IF what = "local" THEN LocalImages ELSE @,
                       !.used = IF what = "used" THEN Used ELSE @]]
       /\ UNCHANGED <<deployed, local, alive, cached, runner, log, poll, runs>>

\* `docker image rm` without force: the daemon keeps what a container holds.
RemoveImage(w, i) ==
    LET p == prune[w]
    IN /\ p.at = "remove" /\ i \in BuildReport(p)
       /\ prune' = [prune EXCEPT ![w].local = @ \ {i}]
       /\ local' = IF i \in Used THEN local ELSE local \ {i}
       /\ UNCHANGED <<deployed, alive, cached, runner, log, poll, runs>>

\* prune returns, or could not read something. A page that names images names any of them.
EndPrune(w) ==
    LET p == prune[w]
    IN /\ \/ p.at = "read"
          \/ p.at = "remove" /\ (p.by = "manual" \/ BuildReport(p) = {})
       /\ prune' = [prune EXCEPT ![w] = NoPrune]
       /\ IF w = "runner"
          THEN /\ runner' = [runner EXCEPT !.state = "ok"]
               /\ Say(<<IF p.at = "read" THEN "cleanup_skipped" ELSE "cleanup_finished">>)
          ELSE UNCHANGED <<runner, log>>
       /\ UNCHANGED <<deployed, local, alive, cached, poll, runs>>

\* The shell around papaia-ctl: the cleanup runs after a zero exit only.
RunnerCleansUp ==
    /\ runner.state = "complete"
    /\ IF runner.clean
       THEN /\ runner' = [runner EXCEPT !.state = "cleaning"]
            /\ Say(<<"cleanup">>) /\ OpenPrune("runner", "runner")
       ELSE /\ runner' = [runner EXCEPT !.state = "ok"]
            /\ UNCHANGED <<log, prune>>
    /\ UNCHANGED <<deployed, local, alive, cached, poll, runs>>

\* _require_quiet: a finished runner does not count.
Quiet == ~IsRunning

PruneImages ==
    /\ alive /\ Quiet /\ prune["hub"] = NoPrune
    /\ OpenPrune("hub", "manual")
    /\ UNCHANGED <<deployed, local, alive, cached, runner, log, poll, runs>>

\* clear_upgrade_runner: the outcome is acknowledged. A run that succeeded and was asked to is
\* cleaned up after once more.
ClearAndClean(clean) ==
    /\ alive /\ runner # NoRunner /\ ~IsRunning /\ prune["hub"] = NoPrune
    /\ runner' = NoRunner /\ log' = <<>>
    /\ IF clean THEN OpenPrune("hub", "dismiss") ELSE UNCHANGED prune
    /\ UNCHANGED <<deployed, local, alive, cached, poll, runs>>
ClearAlwaysCleaning == ClearAndClean(runner.clean)
Clear == ClearAndClean(Succeeded /\ runner.clean)

\* The operator takes the way back on the host, and starts the stack.
GoBack ==
    /\ ~IsRunning /\ stack = 0
    /\ checkout' = recorded /\ stack' = recorded /\ local' = local \cup {recorded} /\ alive' = TRUE
    /\ prune' = [prune EXCEPT !["hub"].raced = prune["hub"] # NoPrune]
    /\ UNCHANGED <<recorded, cached, runner, log, poll, runs>>

\* The manager's container comes back while the rest of the stack is down.
ManagerStarts ==
    /\ ~alive /\ ~IsRunning /\ alive' = TRUE
    /\ UNCHANGED <<deployed, local, cached, runner, log, poll, prune, runs>>

-----------------------------------------------------------------------------
(* The panel: find_runner, then runner_log *)

PollStatus ==
    /\ alive /\ runner # NoRunner
    /\ poll' = [run |-> runner.run, running |-> IsRunning, ok |-> Succeeded]
    /\ poll' # poll
    /\ UNCHANGED <<deployed, local, alive, cached, runner, log, prune, runs>>

PanelShown ==
    /\ poll # NoPoll /\ poll' = NoPoll
    /\ UNCHANGED <<deployed, local, alive, cached, runner, log, prune, runs>>

Max2(a, b) == IF a < b THEN b ELSE a
Tail2(l) == SubSeq(l, Max2(1, Len(l) - PanelLines + 1), Len(l))
Shown == Tail2(log)
Lines(l) == {l[i] : i \in DOMAIN l}

\* _phase_match: the migrations have two openings, and the banner is none of them.
MatchByPrefix(k, line) ==
    line = Order[k] \/ (Order[k] = "migrations" /\ line \in {"nomigrations", "banner"})
PhaseMatch(k, line) == line = Order[k] \/ (Order[k] = "migrations" /\ line = "nomigrations")

\* phases_from_log
Seen(l) == {k \in Steps : \E line \in Lines(l) : PhaseMatch(k, line)}
LastSeen(l) == IF Seen(l) = {} THEN 0 ELSE CHOOSE k \in Seen(l) : \A o \in Seen(l) : o <= k
Phase(l, running, k) ==
    IF "complete" \in Lines(l) THEN IF k \in Seen(l) THEN "done" ELSE "skipped"
    ELSE IF k \in Seen(l)
    THEN IF k < LastSeen(l) THEN "done" ELSE IF running THEN "running" ELSE "failed"
    ELSE IF k < LastSeen(l) THEN "skipped" ELSE "pending"

\* _images_phase
ImagesPhase(l, running) ==
    IF "cleanup" \notin Lines(l) THEN IF running THEN "pending" ELSE "skipped"
    ELSE IF "cleanup_skipped" \in Lines(l) THEN "skipped"
    ELSE IF "cleanup_finished" \in Lines(l) THEN "done"
    ELSE IF running THEN "running" ELSE "failed"

\* provisioning_problems: after the start of the stack, or anywhere in a full window without it.
ProvisioningAfterStart(l) ==
    \E s \in DOMAIN l : l[s] = "start" /\ \E i \in s + 1 .. Len(l) : l[i] = "provisioning"
Provisioning(l) ==
    \/ ProvisioningAfterStart(l)
    \/ "start" \notin Lines(l) /\ Len(l) >= PanelLines /\ "provisioning" \in Lines(l)

RecoveryFromLog(l) == "recovery" \in Lines(l)

\* synthetic_recovery: the release the runner was started for, else that of the checkout.
SyntheticRecovery(target) ==
    LET to == IF target # 0 THEN target ELSE checkout
    IN recorded # 0 /\ to # 0 /\ recorded # to

\* What the panel offers as the way back.
RecoveryAsPrinted(l) == RecoveryFromLog(l)
Recovery(l) ==
    \/ RecoveryFromLog(l)
    \/ ~poll.running /\ ~poll.ok /\ SyntheticRecovery(runner.target)

-----------------------------------------------------------------------------

UpgradeInit ==
    /\ recorded = 1 /\ checkout = 1 /\ stack = 1
    /\ local = {Foreign, 1} /\ alive = TRUE
    /\ cached = NoCheck
    /\ runner = NoRunner /\ log = <<>> /\ poll = NoPoll
    /\ prune = [w \in {"hub", "runner"} |-> NoPrune]
    /\ runs = 0

UpgradeRequests ==
    \/ \E want \in {0} \cup Releases : RunCheck(want)
    \/ \E force, backup, clean \in BOOLEAN : StartUpgrade(force, backup, clean)
    \/ PruneImages \/ Clear

UpgradeRun == Begin \/ Done \/ Fail \/ Complete \/ RunnerCleansUp

UpgradeNext ==
    \/ UpgradeRequests \/ UpgradeRun \/ GoBack \/ ManagerStarts
    \/ \E w \in {"hub", "runner"} :
          \/ \E what \in {"declared", "local", "used"} : ReadImages(w, what)
          \/ \E i \in Releases : RemoveImage(w, i)
          \/ EndPrune(w)
    \/ PollStatus \/ PanelShown

UpgradeSpec == UpgradeInit /\ [][UpgradeNext]_upgradeVars

-----------------------------------------------------------------------------
(* Properties *)

\* The panel's reading belongs to the container that is there.
Polled == poll # NoPoll /\ poll.run = runner.run

\* "A phase falsely matched would claim progress that did not happen": whatever part of the output
\* is left in the window, and although the state was read before it, a phase shown as done is over,
\* one shown as running has begun and no later one has, and one shown as failed is where a run that
\* is over stopped; the same of the cleanup of images.
ProgressIsReal ==
    Polled => \A k \in Steps :
        LET shown == Phase(Shown, poll.running, k)
        IN /\ shown = "done" => k < runner.step \/ (k = runner.step /\ ~runner.open)
           /\ shown = "running" => k = runner.step
           /\ shown = "failed" => k = runner.step /\ runner.state = "failed"
           /\ ImagesPhase(Shown, poll.running) = "running" => runner.state = "cleaning"
           /\ ImagesPhase(Shown, poll.running) = "done" => Succeeded /\ runner.clean

\* After a run that moved the checkout and not the configuration the panel offers a way back, also
\* where papaia-ctl died without printing one.
WayBackIsShown ==
    (Polled /\ ~poll.running /\ runner.state = "failed" /\ checkout # recorded) => Recovery(Shown)

\* A provisioning problem of a run that succeeded is reported if its line is in the window,
\* whether or not the line that opens its phase is.
ProvisioningIsReported ==
    (Polled /\ poll.ok /\ "provisioning" \in Lines(Shown)) => Provisioning(Shown)

\* Whatever the panel reads out of the end of the output is so.
PanelIsTrue == ProgressIsReal /\ ProvisioningIsReported

\* No image goes that the stack does not name, that a container holds or that the checkout declares,
\* and a cleanup nobody chose image by image keeps those of the configuration's release too: "the
\* checkout and the configuration may disagree" after a run that failed. A cleanup beside which
\* an upgrade started is the one gap.
NeededImagesStay ==
    [][\A i \in local \ local' :
        /\ i # Foreign /\ i \notin Used
        /\ \E w \in DOMAIN prune :
              /\ i \in prune[w].local \ prune'[w].local
              /\ prune[w].raced \/ (i # checkout /\ (prune[w].by # "manual" => i # recorded))]_upgradeVars

=============================================================================
