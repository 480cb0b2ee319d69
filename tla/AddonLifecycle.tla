--------------------------- MODULE AddonLifecycle ---------------------------
(***************************************************************************)
(* The life of one add-on from one git catalogue: install, start, stop,    *)
(* restart, remove, uninstall, upgrade, roll back, save its configuration; *)
(* the snapshots on disk that carry its versions; installed.yaml (the      *)
(* manager's record) against deployment.yaml (papaia-ctl's registration).  *)
(*                                                                         *)
(* routers/api_addons.py, routers/api_catalogs.py, core/addon_upgrades.py, *)
(* core/snapshots.py, core/catalogs.py.                                    *)
(*                                                                         *)
(* A revision is a commit of the catalogue. A snapshot has the revision in *)
(* its directory name and the commit whose files it holds. papaia-ctl is   *)
(* external. Left out: the values of the .env files, the data of a restore *)
(* point, catalogues that are local directories.                           *)
(***************************************************************************)
EXTENDS Integers, FiniteSets, Sequences, SequencesExt

CONSTANTS
    MaxRev,         \* commits of the catalogue: 1..MaxRev
    VersionOf,      \* the manifest version at each commit
    MAX_SNAPSHOTS,
    MaxQueue,       \* bound on waiting jobs
    Crashes         \* whether the manager may die

ASSUME AddonConstants ==
    /\ MaxRev \in Nat \ {0}
    /\ VersionOf \in [1..MaxRev -> Nat \ {0}]
    /\ MAX_SNAPSHOTS \in Nat \ {0}
    /\ MaxQueue \in Nat
    /\ Crashes \in BOOLEAN

VARIABLES
    head,       \* HEAD of its clone, 0 while it was never cloned
    snaps,      \* the snapshots on disk: what each holds, and how many are newer
    dep,        \* the entry in deployment.yaml
    inst,       \* the entry in installed.yaml
    ctr,        \* its containers: "none", "stopped", "up"
    queue,      \* waiting jobs that were decided on what their request saw
    job,        \* the running job
    pc,         \* where the running job is, "idle" without one
    req,        \* the upgrade-plan or upgrade request on its way
    trouble,    \* history: why files may disagree
    carried     \* history: the manifest version each directory had when it was first written

files == <<snaps, dep, inst>>
vars == <<head, snaps, dep, inst, ctr, queue, job, pc, req, trouble, carried>>

Revs == 1..MaxRev
Absent == -1
Unknown == 0
NoEntry == [commit |-> Absent, version |-> 0, history |-> <<>>]
NotRegistered == [path |-> 0, previous |-> 0, active |-> FALSE]
NoRequest == [op |-> "none", rev |-> 0, version |-> 0, at |-> "none", inst |-> NoEntry]

\* record_installed
Record(commit, version, history) ==
    [commit |-> commit, version |-> version, history |-> history]

OnDisk == DOMAIN snaps

\* manifest_version_of: what papaia-app.yaml of the directory says, 0 when it cannot be read.
ManifestVersion(r) == IF r \in OnDisk THEN VersionOf[snaps[r].holds] ELSE 0

-----------------------------------------------------------------------------
(* Snapshots *)

\* What newer revisions there are, among some.
Newer(all, r, among) == {x \in among : all[x].newer < all[r].newer}

\* Some of the snapshots, in the order of their modification times.
Only(all, some) ==
    [r \in some |-> [holds |-> all[r].holds, newer |-> Cardinality(Newer(all, r, some))]]

\* materialize_snapshot: git archive takes HEAD as it is by then; a directory of that name is
\* swapped out.
Materialized(r) ==
    LET all == [x \in OnDisk \cup {r} |-> IF x = r THEN [holds |-> head, newer |-> -1] ELSE snaps[x]]
    IN Only(all, DOMAIN all)

\* A directory that is written a second time, HEAD having moved on between the reading of the
\* commit it is named after and git archive, may get another version than it carried before.
Archive(r) ==
    /\ snaps' = Materialized(r)
    /\ carried' = [carried EXCEPT ![r] = IF @ = 0 THEN VersionOf[head] ELSE @]
    /\ trouble' = (trouble \cup IF carried[r] \in {0, VersionOf[head]} THEN {} ELSE {"swapped"})

\* prune_snapshots: what is in the list `keep` stays, the newest of the rest fill up to the limit.
\* A directory takes its place in the list twice if it is there twice, and gone as it may be.
Pruned(all, keep) ==
    LET named == {i \in DOMAIN keep : keep[i] # 0}
        kept == {keep[i] : i \in named}
        rest == DOMAIN all \ kept
        filled == {r \in rest : Cardinality(named) + Cardinality(Newer(all, r, rest)) < MAX_SNAPSHOTS}
    IN Only(all, (DOMAIN all \cap kept) \cup filled)

\* prune_after: what deployment.yaml says at this moment stays, and what is under review.
PruneAfterOnlyRegistered(all, d, extra) == Pruned(all, <<d.path, extra>>)
PruneAfter(all, d, extra) == Pruned(all, <<d.path, d.previous, extra>>)

\* next_history
NextHistory(before, commit) ==
    IF before = NoEntry THEN <<>>
    ELSE IF before.commit = commit THEN before.history
    ELSE LET all == <<[commit |-> before.commit, version |-> before.version]>> \o before.history
         IN SubSeq(all, 1, IF MAX_SNAPSHOTS < Len(all) THEN MAX_SNAPSHOTS ELSE Len(all))

\* sync_installed_after_upgrade: installed.yaml follows the registration, not the exit status.
SyncedAlways == Record(job.rev, job.version, NextHistory(job.inst, job.rev))
SyncedAfterUpgrade ==
    IF dep.path # job.rev THEN inst
    ELSE Record(job.rev, job.version, NextHistory(job.inst, job.rev))

\* sync_installed_after_rollback: the commit is that of the newest entry of the history with the
\* version of the directory.
SyncedAfterRollback ==
    LET version == ManifestVersion(dep.path)
        past == job.inst.history
        hits == {i \in DOMAIN past : past[i].version = version}
        first == CHOOSE i \in hits : \A k \in hits : i <= k
    IN IF dep.path \in {0, job.was} THEN inst
       ELSE Record(IF hits = {} THEN Unknown ELSE past[first].commit,
                   version,
                   IF hits = {} THEN past ELSE RemoveAt(past, first))

-----------------------------------------------------------------------------
(* Requests without an await. A job that was decided on what the request saw waits in `queue`.  *)
(* The callback of any other job looks at everything when it runs, so that it makes no          *)
(* difference when it was enqueued: it appears when the worker takes it.                        *)

NewJob(op) == [op |-> op, flag |-> FALSE, rev |-> 0, version |-> 0, inst |-> NoEntry, was |-> 0]
NoJob == NewJob("none")

Enqueue(new) ==
    /\ Len(queue) < MaxQueue
    /\ queue' = Append(queue, new)
    /\ UNCHANGED <<head, snaps, carried, dep, inst, ctr, job, pc, trouble>>

Run(new, step) ==
    /\ pc = "idle"
    /\ job' = new /\ pc' = step
    /\ UNCHANGED <<head, snaps, carried, dep, inst, ctr, queue, req, trouble>>

Install(start) == head # 0 /\ Run([NewJob("install") EXCEPT !.flag = start], "stage")
Start == Run(NewJob("start"), "start")
Stop(cleanUp) == Run([NewJob("stop") EXCEPT !.flag = cleanUp], "stop")
Restart(cleanUp) == Run([NewJob("restart") EXCEPT !.flag = cleanUp], "stop")

\* The new values are written to the bundle; a restart recreates the containers.
SaveConfig(restart) == restart /\ Restart(TRUE)

\* remove looks for the compose file in the request and again in the job.
RequireComposeFile == dep.path # 0 /\ dep.path \in OnDisk
RemoveAddon == RequireComposeFile /\ Run(NewJob("remove"), "stop")

RefreshCatalog == Run(NewJob("refresh"), "refresh")

\* The catalogue whose snapshots go is the one recorded when the request comes in.
Uninstall ==
    /\ Enqueue([NewJob("uninstall") EXCEPT !.flag = inst # NoEntry])
    /\ UNCHANGED req

\* previous_version must exist and its directory too.
Rollback ==
    /\ inst # NoEntry /\ dep.path # 0
    /\ dep.previous # 0 /\ dep.previous \in OnDisk
    /\ Enqueue([NewJob("rollback") EXCEPT !.inst = inst, !.was = dep.path])
    /\ UNCHANGED req

-----------------------------------------------------------------------------
(* upgrade-plan and upgrade: stage the version, ask papaia-ctl for the plan *)

Upgradable == inst # NoEntry /\ dep.path # 0 /\ dep.active

\* _upgradable and the first half of stage_revision: HEAD is read here. `reviewed` is the
\* revision of the plan the operator saw, 0 for none; another HEAD is refused.
StageRequest(op, reviewed) ==
    /\ req = NoRequest
    /\ Upgradable
    /\ head # 0 /\ reviewed \in {0, head}
    /\ req' = [op |-> op, rev |-> head, inst |-> inst, version |-> ManifestVersion(head),
               at |-> IF head \in OnDisk THEN "plan" ELSE "archive"]
    /\ UNCHANGED <<head, snaps, carried, dep, inst, ctr, queue, job, pc, trouble>>

\* The second half: git archive of HEAD into the directory named after what was read.
ArchiveRequest ==
    /\ req.at = "archive"
    /\ \/ /\ Archive(req.rev)
          /\ req' = [req EXCEPT !.at = "plan", !.version = VersionOf[head]]
       \/ /\ req' = NoRequest           \* git or tar failed
          /\ UNCHANGED <<snaps, carried, trouble>>
    /\ UNCHANGED <<head, dep, inst, ctr, queue, job, pc>>

InUse == IF pc \in {"install", "switch"} THEN {job.rev} ELSE {}

\* fetch_plan answered: the plan is shown, and what nothing needs any more is pruned.
PlanAnswered ==
    /\ req.at = "plan" /\ req.op = "plan"
    /\ snaps' = PruneAfter(snaps, dep, req.rev)
    /\ trouble' = (trouble \cup
           IF InUse \subseteq DOMAIN snaps' THEN {} ELSE {"pruned"})
    /\ req' = NoRequest
    /\ UNCHANGED <<head, dep, inst, ctr, queue, job, pc, carried>>

\* The same for an upgrade, which is enqueued unless the add-on runs from that directory.
UpgradeAnswered ==
    /\ req.at = "plan" /\ req.op = "upgrade"
    /\ req.rev # dep.path
    /\ Enqueue([NewJob("upgrade") EXCEPT !.rev = req.rev, !.version = req.version,
                                         !.inst = req.inst, !.was = dep.path])
    /\ req' = NoRequest

\* blocked, in place, a value is missing, papaia-ctl had no plan.
PlanRefused ==
    /\ req.at = "plan"
    /\ req' = NoRequest
    /\ UNCHANGED <<head, snaps, carried, dep, inst, ctr, queue, job, pc, trouble>>

-----------------------------------------------------------------------------
(* Jobs *)

\* An upgrade or a rollback decided on a registration or a record that has moved since.
IsStale(j) == j.op \in {"upgrade", "rollback"} /\ (j.inst # inst \/ j.was # dep.path)

TakeJob ==
    /\ pc = "idle" /\ queue # <<>>
    /\ job' = Head(queue) /\ queue' = Tail(queue)
    /\ pc' = Head(queue).op
    /\ trouble' = (trouble \cup IF IsStale(Head(queue)) THEN {"astray"} ELSE {})
    /\ UNCHANGED <<head, snaps, carried, dep, inst, ctr, req>>

\* The callback returns or raises: the next job may be taken.
Finish == pc' = "idle" /\ job' = NoJob
GoOn(step) == pc' = step /\ UNCHANGED job

Fails ==
    /\ pc \in {"stage", "archive", "stop", "start", "remove", "refresh", "uninstall"}
    /\ Finish
    /\ UNCHANGED <<head, snaps, carried, dep, inst, ctr, queue, req, trouble>>

\* refresh_catalog_clone: fetch, reset, publish. Commits are numbered as the branch moves.
Refresh ==
    /\ pc = "refresh"
    /\ head' \in head..MaxRev
    /\ Finish
    /\ UNCHANGED <<snaps, carried, dep, inst, ctr, queue, req, trouble>>

StageInstall ==
    /\ pc = "stage" /\ head # 0
    /\ job' = [job EXCEPT !.rev = head, !.version = ManifestVersion(head)]
    /\ pc' = IF head \in OnDisk THEN "install" ELSE "archive"
    /\ UNCHANGED <<head, snaps, carried, dep, inst, ctr, queue, req, trouble>>

ArchiveInstall ==
    /\ pc = "archive"
    /\ Archive(job.rev)
    /\ job' = [job EXCEPT !.version = VersionOf[head]] /\ pc' = "install"
    /\ UNCHANGED <<head, dep, inst, ctr, queue, req>>

\* papaia-ctl addon install --path: registers the directory, active. Whether an entry that was
\* there keeps its `previous` is papaia-ctl's.
Registered(r) == {[path |-> r, previous |-> p, active |-> TRUE] : p \in {0, dep.previous} \ {r}}

\* install, its record and the pruning behind it; or papaia-ctl fails, before or after it wrote.
RunInstall ==
    /\ pc = "install"
    /\ \/ /\ job.rev \in OnDisk
          /\ dep' \in Registered(job.rev)
          /\ inst' = Record(job.rev, job.version, NextHistory(inst, job.rev))
          /\ snaps' = PruneAfter(snaps, dep', 0)
          /\ IF job.flag THEN GoOn("start") ELSE Finish
          /\ UNCHANGED trouble
       \/ /\ job.rev \in OnDisk
          /\ dep' \in Registered(job.rev)
          /\ trouble' = trouble \cup {"astray"}
          /\ Finish
          /\ UNCHANGED <<snaps, carried, inst>>
       \/ /\ Finish
          /\ UNCHANGED <<files, trouble>>
    /\ UNCHANGED <<head, ctr, queue, req, carried>>

\* papaia-ctl starts what is registered, active and on disk.
RunStart ==
    /\ pc = "start"
    /\ dep.active /\ dep.path \in OnDisk
    /\ ctr' = "up" /\ Finish
    /\ UNCHANGED <<head, snaps, carried, dep, inst, queue, req, trouble>>

\* stop, the first half of a restart, and the down before a removal.
RunStopWithoutDown ==
    /\ pc = "stop"
    /\ dep.path # 0
    /\ ctr' = IF job.flag THEN "none" ELSE IF ctr = "up" THEN "stopped" ELSE ctr
    /\ CASE job.op = "stop" -> Finish
         [] job.op = "restart" -> GoOn("start")
         [] job.op = "remove" -> GoOn("remove")
    /\ UNCHANGED <<head, snaps, carried, dep, inst, queue, req, trouble>>
RunStop ==
    /\ pc = "stop"
    /\ dep.path # 0
    /\ ctr' = IF job.op = "remove" \/ job.flag THEN "none"
              ELSE IF ctr = "up" THEN "stopped" ELSE ctr
    /\ CASE job.op = "stop" -> Finish
         [] job.op = "restart" -> GoOn("start")
         [] job.op = "remove" -> GoOn("remove")
    /\ UNCHANGED <<head, snaps, carried, dep, inst, queue, req, trouble>>

\* papaia-ctl addon remove: the add-on is marked inactive.
RunRemove ==
    /\ pc = "remove"
    /\ dep' = [dep EXCEPT !.active = FALSE]
    /\ Finish
    /\ UNCHANGED <<head, snaps, carried, inst, ctr, queue, req, trouble>>

\* Without --clean-up it depends on papaia-ctl what is left of the containers.
RunUninstall ==
    /\ pc = "uninstall"
    /\ dep.path # 0
    /\ dep' = NotRegistered
    /\ ctr' \in {"none", ctr}
    /\ inst' = NoEntry
    /\ snaps' = IF job.flag THEN Pruned(snaps, <<>>) ELSE snaps
    /\ Finish
    /\ UNCHANGED <<head, queue, req, trouble, carried>>

\* papaia-ctl addon upgrade looks at the candidate and takes the restore point; or it fails.
BeginUpgrade ==
    /\ pc = "upgrade"
    /\ \/ dep.active /\ job.rev \in OnDisk /\ dep.path # job.rev /\ GoOn("switch")
       \/ GoOn("settle")
    /\ UNCHANGED <<head, snaps, carried, dep, inst, ctr, queue, req, trouble>>

\* It repoints the add-on, or has failed before that.
SwitchUpgrade ==
    /\ pc = "switch"
    /\ dep' \in {dep, [dep EXCEPT !.path = job.rev, !.previous = dep.path]}
    /\ GoOn("settle")
    /\ UNCHANGED <<head, snaps, carried, inst, ctr, queue, req, trouble>>

\* It exits, the containers recreated or not; the finally of the job syncs and prunes.
SettleUpgrade ==
    /\ pc = "settle"
    /\ ctr' \in {ctr, IF ctr = "up" THEN "none" ELSE ctr}
    /\ inst' = SyncedAfterUpgrade
    /\ snaps' = PruneAfter(snaps, dep, 0)
    /\ Finish
    /\ UNCHANGED <<head, dep, queue, req, trouble, carried>>

\* papaia-ctl addon rollback: one step, afterwards there is no earlier version; or it fails.
RunRollback ==
    /\ pc = "rollback"
    /\ \/ /\ dep.previous # 0 /\ dep.previous \in OnDisk
          /\ dep' = [dep EXCEPT !.path = dep.previous, !.previous = 0]
       \/ UNCHANGED dep
    /\ GoOn("unwind")
    /\ UNCHANGED <<head, snaps, carried, inst, ctr, queue, req, trouble>>

SettleRollback ==
    /\ pc = "unwind"
    /\ ctr' \in {ctr, IF ctr = "up" THEN "none" ELSE ctr}
    /\ inst' = SyncedAfterRollback
    /\ snaps' = PruneAfter(snaps, dep, 0)
    /\ Finish
    /\ UNCHANGED <<head, dep, queue, req, trouble, carried>>

\* The manager dies: the queue, the running job and the request are gone, the files stay.
Die ==
    /\ Crashes
    /\ pc # "idle" \/ queue # <<>> \/ req # NoRequest
    /\ queue' = <<>> /\ job' = NoJob /\ pc' = "idle" /\ req' = NoRequest
    /\ trouble' = (trouble \cup IF pc \in {"settle", "unwind"} THEN {"astray"} ELSE {})
    /\ UNCHANGED <<head, snaps, carried, dep, inst, ctr>>

Requests ==
    \/ \E b \in BOOLEAN : Install(b) \/ Stop(b) \/ Restart(b) \/ SaveConfig(b)
    \/ Start \/ RemoveAddon \/ Uninstall \/ Rollback \/ RefreshCatalog
    \/ \E op \in {"plan", "upgrade"}, r \in {0} \cup Revs : StageRequest(op, r)
    \/ ArchiveRequest \/ PlanAnswered \/ UpgradeAnswered \/ PlanRefused

Jobs ==
    \/ TakeJob \/ Fails \/ Refresh
    \/ StageInstall \/ ArchiveInstall \/ RunInstall
    \/ RunStart \/ RunStop \/ RunRemove \/ RunUninstall
    \/ BeginUpgrade \/ SwitchUpgrade \/ SettleUpgrade \/ RunRollback \/ SettleRollback

Init ==
    /\ head = 1
    /\ snaps = [r \in {} |-> {}] /\ dep = NotRegistered /\ inst = NoEntry /\ ctr = "none"
    /\ queue = <<>> /\ job = NoJob /\ pc = "idle" /\ req = NoRequest
    /\ trouble = {} /\ carried = [r \in Revs |-> 0]

Next == Requests \/ Jobs \/ Die

Spec == Init /\ [][Next]_vars

-----------------------------------------------------------------------------
(* Properties *)

\* The state stays within its types: one directory per revision, a history within its limit, a
\* job at a step of its own.
TypeOK ==
    /\ head \in 0..MaxRev
    /\ OnDisk \subseteq Revs
    /\ \A r \in OnDisk : snaps[r].holds \in Revs
    /\ \A r, s \in OnDisk : snaps[r].newer = snaps[s].newer => r = s
    /\ dep \in [path : 0..MaxRev, previous : 0..MaxRev, active : BOOLEAN]
    /\ inst.commit \in {Absent, Unknown} \cup Revs /\ Len(inst.history) <= MAX_SNAPSHOTS
    /\ ctr \in {"none", "stopped", "up"}
    /\ pc = "idle" <=> job = NoJob
    /\ trouble \subseteq {"pruned", "astray", "swapped"}
    /\ carried \in [Revs -> Nat]

\* installed.yaml speaks of the directory deployment.yaml registers whenever no job is at work on
\* either, through upgrades that fail half way and a HEAD that moves at any time. Its version is
\* that of the manifest in the directory; its commit is the one the directory is named after, or,
\* behind a rollback, which looks the version up in the history, unknown (MAX_SNAPSHOTS cut it
\* off) or that of another directory with the same version. It may not only after an install that
\* failed once it had registered, a rollback decided before another job moved the registration, a
\* death between papaia-ctl and the record, or a directory written twice with different versions.
RecordFollowsRegistration ==
    (pc \notin {"settle", "unwind"} /\ {"astray", "swapped"} \cap trouble = {}) =>
        IF dep.path = 0 THEN inst = NoEntry
        ELSE /\ dep.path \in OnDisk => inst.version = ManifestVersion(dep.path)
             /\ \/ inst.commit = dep.path
                \/ /\ dep.previous = 0
                   /\ inst.commit = Unknown \/ carried[inst.commit] = inst.version

\* What stage_revision says of its directories (core/addon_upgrades.py:184): "its name is the
\* commit, so its content is the same". It reads HEAD, and git archive reads HEAD again: a refresh
\* that is done in between leaves another commit in the directory.
NameIsTheCommit == \A r \in OnDisk : snaps[r].holds = r

\* The directory the add-on runs from and the one a rollback goes back to are never pruned, by
\* no sequence of jobs and plans; the one gap is a plan that prunes the candidate of the job that
\* is putting it in place.
VersionsStay ==
    "pruned" \notin trouble => {dep.path, dep.previous} \subseteq {0} \cup OnDisk

\* An add-on that was removed, and for which the page offers neither Stop nor Remove, has no
\* containers left.
InactiveIsDown == dep.path # 0 /\ ~dep.active => ctr = "none"

=============================================================================
