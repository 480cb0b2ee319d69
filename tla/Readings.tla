------------------------------ MODULE Readings ------------------------------
(***************************************************************************)
(* The readings every visitor shares: the host's `doctor`, a node's, the   *)
(* nodes' links, Docker's usage, the mail relay's status and a dashboard   *)
(* widget. Each keeps the last result and the run in flight, which whoever *)
(* wants a reading meanwhile waits for. The run belongs to the process and *)
(* not to the request that started it.                                     *)
(*                                                                         *)
(* core/host_health.py, docker_usage.py, mail/status.py, widgets/runtime.py*)
(*                                                                         *)
(* They run on one event loop; all between two awaits is one step. A relay *)
(* that is placed on a node is read from the node's reading, so "node" has *)
(* two readings; all others are looked at one at a time. Time is in steps  *)
(* that keep the order of the code's limits. What a reading says is left   *)
(* out: it is kept when it was begun, whether it is a good one, and in     *)
(* which language it was put into words.                                   *)
(***************************************************************************)
EXTENDS Integers, FiniteSetsExt

CONSTANTS
    Visitors, Langs,
    None,
    Intervals,      \* what the settings allow as refresh interval
    FailureTtl,     \* FAILURE_TTL_SECONDS and its like
    Recheck,        \* RECHECK_MIN_INTERVAL_SECONDS and its like
    MailTtl,        \* STATUS_TTL_SECONDS
    StaleMax,       \* STALE_MAX_SECONDS of a widget
    ShownFor,       \* STALE_AFTER_SECONDS of the host chip
    RunLimit,       \* what run_py_cli gives a doctor
    MaxTime         \* bound on time

VARIABLES
    kind,       \* the reading looked at
    now,
    interval,   \* refresh_seconds of settings.yaml
    cache,      \* the last result under each key
    good,       \* the last good one, of a widget
    run,        \* the task in flight under each key
    report,     \* whether _node_reports has the node's report
    visitor,    \* the requests that wait
    told        \* history: the answers of the last step

vars == <<kind, now, interval, cache, good, run, report, visitor, told>>

Kinds == {"host", "usage", "mail", "widget", "cluster", "node"}
Keys == Kinds \cup Langs

\* A widget is remembered per language, everything else once.
Key(k, lang) == IF k = "widget" THEN lang ELSE k

Away == [at |-> "away"]

-----------------------------------------------------------------------------
(* How long a reading is used *)

\* usage_interval: ten times the interval within limits, but never less than the interval.
UsageInterval == Max({interval, Min({2 * interval, FailureTtl + 2})})

Pace(k) == IF k = "usage" THEN UsageInterval ELSE interval

\* _usable, _fresh, _cluster_fresh and the heads of read and load_node_health.
Limit(k, e, force) ==
    IF force THEN Recheck
    ELSE IF e.status = "ok" THEN Pace(k)
    ELSE Min({FailureTtl, Pace(k)})

\* The mail page makes no difference between good and bad.
MailLimit(force) == IF force THEN Recheck ELSE MailTtl

Usable(k, key, force) ==
    /\ cache[key] # None
    /\ now - cache[key].at < IF k = "mail" THEN MailLimit(force) ELSE Limit(k, cache[key], force)

\* _in_current_language: read again from the raw output, or from the reason of ours. A node's
\* reading is handed out as it was written, and a widget's is its visitor's by its key.
Words(k, e, lang) == IF e.raw /\ k # "node" THEN lang ELSE e.lang

\* What a visitor is told, and whether in his own language.
Answer(k, e, lang) ==
    [k |-> k, from |-> e.from, status |-> e.status, raw |-> e.raw, own |-> Words(k, e, lang) = lang]

-----------------------------------------------------------------------------
(* Runs *)

\* create_task unless one is in flight. The host's run keeps the interval, the mail page's the
\* wish for a re-check, and a node's forgets the last report first.
Start(key, lang, force) ==
    /\ run' = IF run[key] # None THEN run
              ELSE [run EXCEPT ![key] =
                      [from |-> now, lang |-> lang, force |-> force /\ key = "mail", at |-> "work",
                       until |-> IF key = "host" THEN Max({ShownFor, 3 * interval}) ELSE 0]]
    /\ report' = IF key = "node" /\ run[key] = None THEN FALSE ELSE report

NoStart == UNCHANGED <<run, report>>

Served(v, k, e, lang) ==
    /\ told' = {Answer(k, e, lang)}
    /\ UNCHANGED visitor

Wait(v, k, lang) ==
    /\ visitor' = [visitor EXCEPT ![v] = [at |-> "wait", key |-> Key(k, lang), k |-> k, lang |-> lang]]
    /\ told' = {}

\* load_host_health, load_status, load_node_health, read: from the cache, or wait for the run.
Load(v, k, lang, force) ==
    /\ visitor[v] = Away
    /\ k \in {"host", "mail", "node", "widget"}
    /\ k = kind \/ (kind = "node" /\ k = "mail")
    /\ k = "widget" => ~force
    /\ IF Usable(k, Key(k, lang), force)
       THEN Served(v, k, cache[Key(k, lang)], lang) /\ NoStart
       ELSE Wait(v, k, lang) /\ Start(Key(k, lang), lang, force)
    /\ UNCHANGED <<kind, now, interval, cache, good>>

\* load_docker_usage waits only for the first reading and for a re-check.
LoadDockerUsage(v, lang, force) ==
    /\ visitor[v] = Away /\ kind = "usage"
    /\ IF Usable("usage", "usage", force) THEN Served(v, "usage", cache["usage"], lang) /\ NoStart
       ELSE /\ Start("usage", lang, force)
            /\ IF cache["usage"] = None \/ force THEN Wait(v, "usage", lang)
               ELSE Served(v, "usage", cache["usage"], lang)
    /\ UNCHANGED <<kind, now, interval, cache, good>>

\* load_cluster_checks never waits: pending, or the last reading.
LoadClusterChecks(v, lang, force) ==
    /\ visitor[v] = Away /\ kind = "cluster"
    /\ IF Usable("cluster", "cluster", force) THEN NoStart ELSE Start("cluster", lang, force)
    /\ IF cache["cluster"] = None THEN told' = {} /\ UNCHANGED visitor
       ELSE Served(v, "cluster", cache["cluster"], lang)
    /\ UNCHANGED <<kind, now, interval, cache, good>>

\* The chip: ensure_fresh, then cached_host_health.
Chip(v, lang) ==
    /\ visitor[v] = Away /\ kind = "host"
    /\ IF Usable("host", "host", FALSE) THEN NoStart ELSE Start("host", lang, FALSE)
    /\ told' = IF cache["host"] = None \/ now - cache["host"].at > cache["host"].until THEN {}
               ELSE {[Answer("host", cache["host"], lang) EXCEPT !.k = "chip"]}
    /\ UNCHANGED <<kind, now, interval, cache, good, visitor>>

\* A run that ends stores its result and wakes whoever waits for it. He reads the entry that was
\* stored, in his language; a node's or a widget's visitor has the task's own result.
Store(key, e) ==
    LET waiting == {v \in Visitors : visitor[v].at = "wait" /\ visitor[v].key = key}
    IN /\ cache' = [cache EXCEPT ![key] = e]
       /\ told' = {Answer(visitor[v].k, e, visitor[v].lang) : v \in waiting}
       /\ visitor' = [v \in Visitors |-> IF v \in waiting THEN Away ELSE visitor[v]]

\* What a run stores. `raw`: there is output, or a reason in words of ours, to word it again from.
Result(key, status, raw) ==
    [at |-> now, from |-> run[key].from, status |-> status, raw |-> raw, lang |-> run[key].lang,
     until |-> run[key].until]

\* What the output of a command can be read as: parse_doctor and _run words whatever comes, a
\* usage or a status that cannot be read has a reason of ours, and papaia-ctl's own error has not.
ParseDoctor == {<<"ok", TRUE>>, <<"fail", TRUE>>, <<"fail", FALSE>>}
ParseDockerUsage == {<<"ok", TRUE>>, <<"fail", TRUE>>, <<"fail", FALSE>>}
ParseStatus == {<<"ok", TRUE>>, <<"fail", TRUE>>, <<"fail", FALSE>>}
Outcomes(k) ==
    CASE k \in {"host", "cluster"} -> ParseDoctor
      [] k = "usage" -> ParseDockerUsage
      [] k = "mail" -> ParseStatus
      [] OTHER -> {}

\* _measure, _measure_cluster: stored whatever it says, an error or a timeout too.
Measure(k) ==
    /\ k = kind /\ run[k] # None
    /\ \E o \in Outcomes(k) : Store(k, Result(k, o[1], o[2]))
    /\ run' = [run EXCEPT ![k] = None]
    /\ UNCHANGED <<kind, now, interval, good, report>>

\* _measure of a widget: a failure shows the last good reading while that is young enough.
Failed(l) ==
    IF good[l] # None /\ now - good[l].at <= StaleMax
    THEN [Result(l, "stale", FALSE) EXCEPT !.from = good[l].from]
    ELSE Result(l, "fail", FALSE)

MeasureWidget(l) ==
    /\ kind = "widget" /\ run[l] # None
    /\ \/ /\ Store(l, Result(l, "ok", FALSE))
          /\ good' = [good EXCEPT ![l] = Result(l, "ok", FALSE)]
       \/ /\ Store(l, Failed(l))
          /\ UNCHANGED good
    /\ run' = [run EXCEPT ![l] = None]
    /\ UNCHANGED <<kind, now, interval, report>>

\* _measure_node: a report may come with a failure, and a good reading has one. A mail run that
\* waits for the node goes on.
MeasureNode(status, withReport) ==
    /\ kind = "node" /\ run["node"] # None
    /\ status = "ok" => withReport
    /\ Store("node", Result("node", status, FALSE))
    /\ run' = [run EXCEPT !["node"] = None,
                          !["mail"] = IF @ # None /\ @.at = "wait" THEN [@ EXCEPT !.at = "take"] ELSE @]
    /\ report' = withReport
    /\ UNCHANGED <<kind, now, interval, good>>

\* _run_on_node: the node's reading, as any other visitor gets it ...
RunOnNode ==
    LET r == run["mail"]
        usable == Usable("node", "node", r.force)
        begins == ~usable /\ run["node"] = None
    IN /\ kind = "node" /\ r # None /\ r.at = "work"
       /\ run' = [run EXCEPT !["mail"].at = IF usable THEN "take" ELSE "wait",
                             !["node"] = IF begins THEN [r EXCEPT !.from = now, !.force = FALSE] ELSE @]
       /\ report' = (report /\ ~begins)
       /\ told' = {}
       /\ UNCHANGED <<kind, now, interval, cache, good, visitor>>

\* ... then its report, as it is by now.
TakeReport ==
    /\ kind = "node" /\ run["mail"] # None /\ run["mail"].at = "take"
    /\ Store("mail", [Result("mail", IF report THEN "ok" ELSE "fail", TRUE)
                      EXCEPT !.from = cache["node"].from])
    /\ run' = [run EXCEPT !["mail"] = None]
    /\ UNCHANGED <<kind, now, interval, good, report>>

-----------------------------------------------------------------------------
(* Visitors leave, settings change, time passes *)

\* asyncio.shield: a visitor who leaves takes nothing along.
LeaveCancelling(v) ==
    /\ visitor[v] # Away
    /\ visitor' = [visitor EXCEPT ![v] = Away]
    /\ run' = [run EXCEPT ![visitor[v].key] = None]
    /\ told' = {}
    /\ UNCHANGED <<kind, now, interval, cache, good, report>>
Leave(v) ==
    /\ visitor[v] # Away
    /\ visitor' = [visitor EXCEPT ![v] = Away]
    /\ told' = {}
    /\ UNCHANGED <<kind, now, interval, cache, good, run, report>>

SetInterval(i) ==
    /\ kind # "widget" /\ i # interval
    /\ interval' = i /\ told' = {}
    /\ UNCHANGED <<kind, now, cache, good, run, report, visitor>>

\* No run outlasts its limit; of a mail run that asks a node the node's run has the limit.
Tick ==
    /\ now < MaxTime
    /\ \A k \in Keys : run[k] # None =>
          IF kind = "node" /\ k = "mail" THEN run[k].at = "wait" ELSE now - run[k].from < RunLimit
    /\ now' = now + 1 /\ told' = {}
    /\ UNCHANGED <<kind, interval, cache, good, run, report, visitor>>

Init ==
    /\ kind \in Kinds
    /\ now = 0 /\ interval \in Intervals
    /\ cache = [k \in Keys |-> None] /\ good = cache /\ run = cache
    /\ report = FALSE
    /\ visitor = [v \in Visitors |-> Away] /\ told = {}

Next ==
    \/ \E v \in Visitors, lang \in Langs :
          \/ \E force \in BOOLEAN :
                \/ \E k \in Kinds : Load(v, k, lang, force)
                \/ LoadDockerUsage(v, lang, force) \/ LoadClusterChecks(v, lang, force)
          \/ Chip(v, lang)
    \/ \E v \in Visitors : Leave(v)
    \/ \E k \in Kinds : Measure(k)
    \/ \E l \in Langs : MeasureWidget(l)
    \/ \E status \in {"ok", "fail"}, r \in BOOLEAN : MeasureNode(status, r)
    \/ RunOnNode \/ TakeReport
    \/ \E i \in Intervals : SetInterval(i)
    \/ Tick

Spec == Init /\ [][Next]_vars

-----------------------------------------------------------------------------
(* Properties *)

\* What a visitor is told was measured, at the earliest, one run before the time the reading may
\* be kept for: the interval as it is when he asks, a shorter one for a failure, and for a widget's
\* last good figure the time it may be shown as stale and the failure be remembered. Only Docker's
\* usage and the nodes' links answer with something older, and start a run behind it.
Bound(a) ==
    IF a.k = "chip" THEN Max({ShownFor, 3 * Max(Intervals)})
    ELSE IF a.k = "mail" THEN IF kind = "node" THEN MailTtl + Max(Intervals) ELSE MailTtl
    ELSE CASE a.status = "ok" -> interval
           [] a.status = "fail" -> FailureTtl
           [] a.status = "stale" -> StaleMax + FailureTtl
AnswersAreRecent ==
    \A a \in told :
        a.k \notin {"usage", "cluster"} => now - a.from <= Max({Bound(a), Recheck}) + RunLimit

\* "The reading is shared by every account": each is answered in his own language, whoever started
\* the run, unless the words are not the manager's own. A node's reading is the exception.
OwnLanguage ==
    \A a \in told : a.k # "node" => a.own \/ (~a.raw /\ a.status = "fail")

\* "a visitor who closes the tab must not kill the doctor the next one waits for": whoever waits
\* has a run to wait for, and so has a mail run that waits for the node's.
NobodyWaitsInVain ==
    /\ \A v \in Visitors : visitor[v].at = "wait" => run[visitor[v].key] # None
    /\ (run["mail"] # None /\ run["mail"].at = "wait") => run["node"] # None

\* A reading that every visitor shares is nobody's: each who asks is given a recent one, in his own
\* language, by a run that goes on whoever leaves.
ReadingsAreShared == AnswersAreRecent /\ OwnLanguage /\ NobodyWaitsInVain

=============================================================================
