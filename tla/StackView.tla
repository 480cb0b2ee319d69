----------------------------- MODULE StackView -----------------------------
(***************************************************************************)
(* The stack as the pages show it: what Docker runs against what is        *)
(* declared, read by whoever needs it, kept for a few seconds and dropped  *)
(* when the manager itself changed something. A distributed installation   *)
(* asks the core for all nodes instead, one reader at a time, and lists    *)
(* the nodes the same way.                                                 *)
(*                                                                         *)
(* core/services.py, core/nodes.py, the end of _stream_subprocess in       *)
(* core/ctl.py.                                                            *)
(*                                                                         *)
(* `mode` says which of the three readings is looked at: "local" and       *)
(* "cluster" run in threads, "nodes" on the event loop. Docker and the     *)
(* core are external. Modules, roles, ports and names are left out: a      *)
(* container is its state and whether Docker was told to keep it running.  *)
(***************************************************************************)
EXTENDS Integers, FiniteSetsExt

CONSTANTS
    Readers,        \* threads and requests
    Services,       \* the services of one module
    Declared,       \* those the configuration asks for
    Kept,           \* those with the restart policy always or unless-stopped
    None,
    CacheTtl,       \* _CACHE_TTL_SECONDS
    StatusTtl,      \* _STATUS_TTL_SECONDS, _OVERVIEW_TTL_SECONDS
    FailureTtl,     \* _STATUS_FAILURE_TTL_SECONDS
    MaxTime,        \* bound on time
    MaxRuns,        \* bound on runs of papaia-ctl
    MaxMoves        \* bound on containers that change

VARIABLES
    mode,
    now,
    docker,     \* the state of each service's container
    cache,      \* _CACHE, _overview_cache
    failedAt,   \* _STATUS_FAILED_AT
    lock,       \* who holds _STATUS_LOCK
    reader,     \* how far each reader is
    verb,       \* whether a papaia-ctl run works
    changes,    \* runs that ended, each of which dropped the cache
    moves,      \* containers that changed so far
    told        \* history: what the last step answered

vars == <<mode, now, docker, cache, failedAt, lock, reader, verb, changes, moves, told>>

States == {"absent", "created", "starting", "up", "sick", "restarting", "done", "crashed"}
Settled == {"absent", "up", "done", "crashed"}      \* where a container is left alone
Severity == <<"missing", "stopped", "unhealthy", "starting", "unknown", "completed", "healthy">>

-----------------------------------------------------------------------------
(* What a reading says *)

\* derive_health; an absent container is not in Docker's answer.
DeriveHealth(state) ==
    CASE state = "up" -> "healthy"
      [] state = "sick" -> "unhealthy"
      [] state = "starting" -> "starting"
      [] state = "created" -> "starting"
      [] state = "restarting" -> "unhealthy"
      [] state = "done" -> "completed"
      [] state = "crashed" -> "stopped"

Reported(ps) == {s \in Services : ps[s] # "absent"}

\* merge_expected: a declared service Docker does not know is missing; one it runs stays.
MergeExpected(ps) ==
    [s \in Reported(ps) \cup Declared |-> IF s \in Reported(ps) THEN DeriveHealth(ps[s]) ELSE "missing"]

\* apply_restart_policies, with the policies Docker gave for the completed ones.
ApplyRestartPolicies(health, known) ==
    [s \in DOMAIN health |-> IF health[s] = "completed" /\ s \in known \cap Kept THEN "stopped" ELSE health[s]]

\* worst: completed jobs say nothing unless there is nothing else.
Rank(h) == CHOOSE i \in DOMAIN Severity : Severity[i] = h
Worst(values) ==
    LET serving == values \ {"completed"}
    IN IF values = {} THEN "unknown"
       ELSE IF serving = {} THEN "completed"
       ELSE Severity[Min({Rank(h) : h \in serving})]

Overall(health) == Worst({health[s] : s \in DOMAIN health})

-----------------------------------------------------------------------------
(* Readers *)

Idle == [at |-> "idle"]
Go(r, x) == reader' = [reader EXCEPT ![r] = x]

\* Whoever asked after `since` changes is given the reading e.
Answer(e, since) == told' = {[since |-> since, epoch |-> e.epoch, raced |-> e.raced, at |-> e.at]}
Silent == told' = {}

Fresh(ttl) == cache # None /\ now - cache.at < ttl

\* load_snapshot and overview: the cache, or a reading. The cluster's is taken under the lock.
Load(r, fresh) ==
    /\ reader[r] = Idle
    /\ fresh => mode = "nodes"
    /\ IF Fresh(IF mode = "nodes" THEN StatusTtl ELSE CacheTtl) /\ ~fresh
       THEN Answer(cache, changes) /\ UNCHANGED reader
       ELSE /\ Go(r, [at |-> IF mode = "cluster" THEN "lock" ELSE "ask", since |-> changes, t |-> now,
                      ps |-> None, epoch |-> 0, raced |-> FALSE])
            /\ Silent
    /\ UNCHANGED <<mode, now, docker, cache, failedAt, lock, verb, changes, moves>>

\* _load_distributed looks again once it has the lock: at a reading, and at a failure.
TakeLock(r) ==
    /\ reader[r].at = "lock" /\ lock = None
    /\ IF Fresh(StatusTtl) THEN Answer(cache, reader[r].since) /\ Go(r, Idle) /\ UNCHANGED lock
       ELSE IF failedAt # None /\ now - failedAt < FailureTtl THEN Silent /\ Go(r, Idle) /\ UNCHANGED lock
       ELSE lock' = r /\ Silent /\ Go(r, [reader[r] EXCEPT !.at = "ask"])
    /\ UNCHANGED <<mode, now, docker, cache, failedAt, verb, changes, moves>>

\* docker ps, the core's status, node-list: what is there now, and how many changes that knows of.
Ask(r) ==
    /\ reader[r].at = "ask"
    /\ Go(r, [reader[r] EXCEPT !.at = IF mode = "local" THEN "inspect" ELSE "store",
                               !.ps = IF mode = "local" THEN docker ELSE None, !.epoch = changes])
    /\ Silent
    /\ UNCHANGED <<mode, now, docker, cache, failedAt, lock, verb, changes, moves>>

\* query_containers without an answer keeps nothing and says nothing; the core's failure is
\* remembered; a list of nodes that fails twice is an error.
AskFails(r) ==
    /\ reader[r].at = "ask"
    /\ Go(r, Idle) /\ Silent
    /\ failedAt' = IF mode = "cluster" THEN now ELSE failedAt
    /\ lock' = IF lock = r THEN None ELSE lock
    /\ UNCHANGED <<mode, now, docker, cache, verb, changes, moves>>

Entry(r, at, health, known) ==
    [at |-> at, ps |-> reader[r].ps, health |-> health, known |-> known,
     epoch |-> reader[r].epoch, raced |-> reader[r].raced]

Store(r, e) == cache' = e /\ Answer(e, reader[r].since) /\ Go(r, Idle)

\* query_restart_policies: of those that completed, the ones that are still there; or no answer.
\* The snapshot is stored as of the time it was asked for.
Inspect(r) ==
    /\ reader[r].at = "inspect"
    /\ \E known \in {{s \in Services : reader[r].ps[s] = "done" /\ docker[s] # "absent"}, {}} :
          Store(r, Entry(r, reader[r].t, ApplyRestartPolicies(MergeExpected(reader[r].ps), known), known))
    /\ UNCHANGED <<mode, now, docker, failedAt, lock, verb, changes, moves>>

\* The end of _load_distributed and of overview: stored as of now.
Keep(r) ==
    /\ reader[r].at = "store"
    /\ Store(r, Entry(r, now, None, {}))
    /\ failedAt' = IF mode = "cluster" THEN None ELSE failedAt
    /\ lock' = IF lock = r THEN None ELSE lock
    /\ UNCHANGED <<mode, now, docker, verb, changes, moves>>

-----------------------------------------------------------------------------
(* Changes *)

\* A papaia-ctl call on its way: it ends in Invalidate.
Work ==
    /\ ~verb /\ changes < MaxRuns
    /\ verb' = TRUE /\ Silent
    /\ UNCHANGED <<mode, now, docker, cache, failedAt, lock, reader, changes, moves>>

\* The verbs of jobs, on one host or on all nodes.
RunVerb == mode # "nodes" /\ Work

\* A node is added, removed, pinned or sent its bundle.
NodeRequest == mode = "nodes" /\ Work

\* Containers change while a verb works; one may also fail by itself.
Docker(s, state) ==
    /\ mode = "local" /\ docker[s] # state
    /\ verb \/ (state \in {"crashed", "sick"} /\ docker[s] = "up")
    /\ moves < MaxMoves /\ moves' = moves + 1
    /\ docker' = [docker EXCEPT ![s] = state] /\ Silent
    /\ UNCHANGED <<mode, now, cache, failedAt, lock, reader, verb, changes>>

\* Readings on their way when a change is made known.
Overtaken ==
    [r \in Readers |-> IF reader[r].at \in {"inspect", "store"} THEN [reader[r] EXCEPT !.raced = TRUE]
                       ELSE reader[r]]

\* invalidate_snapshot, when the subprocess exits, whatever its code; invalidate_overview after a
\* node was added, removed, pinned or sent its bundle.
InvalidateFailure ==
    /\ verb /\ verb' = FALSE
    /\ failedAt' = None /\ changes' = changes + 1
    /\ reader' = Overtaken /\ Silent
    /\ UNCHANGED <<mode, now, docker, cache, lock, moves>>
Invalidate ==
    /\ verb /\ verb' = FALSE
    /\ cache' = None /\ failedAt' = None /\ changes' = changes + 1
    /\ reader' = Overtaken /\ Silent
    /\ UNCHANGED <<mode, now, docker, lock, moves>>

Tick ==
    /\ now < MaxTime /\ now' = now + 1 /\ Silent
    /\ UNCHANGED <<mode, docker, cache, failedAt, lock, reader, verb, changes, moves>>

Init ==
    /\ mode \in {"local", "cluster", "nodes"}
    /\ now = 0
    /\ docker \in IF mode = "local" THEN [Services -> Settled] ELSE {[s \in Services |-> "up"]}
    /\ cache = None /\ failedAt = None /\ lock = None
    /\ reader = [r \in Readers |-> Idle]
    /\ verb = FALSE /\ changes = 0 /\ moves = 0 /\ told = {}

Next ==
    \/ \E r \in Readers :
          \/ \E fresh \in BOOLEAN : Load(r, fresh)
          \/ TakeLock(r) \/ Ask(r) \/ AskFails(r) \/ Inspect(r) \/ Keep(r)
    \/ RunVerb \/ NodeRequest \/ Invalidate
    \/ \E s \in Services, state \in States : Docker(s, state)
    \/ Tick

Spec == Init /\ [][Next]_vars

-----------------------------------------------------------------------------
(* Properties *)

\* "an add-on that was just started reads as running immediately instead of up to five seconds
\* later": whoever asks after a change is given a reading that knows it. A reading that was on its
\* way when the change was made known is the one gap, and no longer than a reading is kept.
ChangeIsSeen ==
    \A a \in told :
        a.epoch >= a.since \/ (a.raced /\ now - a.at < IF mode = "local" THEN CacheTtl ELSE StatusTtl)

\* A module reads as healthy exactly when something of it serves and every service that is declared
\* or there serves or is a job that may be done, as far as Docker told that it may.
HealthyMeansServing ==
    (cache # None /\ mode = "local") =>
        LET all == Declared \cup Reported(cache.ps)
            fine(s) == cache.ps[s] = "up" \/ (cache.ps[s] = "done" /\ s \notin cache.known \cap Kept)
        IN Overall(cache.health) = "healthy"
           <=> (\E s \in all : cache.ps[s] = "up") /\ (\A s \in all : fine(s))

\* What the pages show of the stack is so: a change the manager made is seen, and a module that
\* reads as healthy serves.
ShownIsSo == ChangeIsSeen /\ HealthyMeansServing

=============================================================================
