-------------------------- MODULE LifecycleProofs --------------------------
(***************************************************************************)
(* How an add-on and the core change, for every number of commits, of      *)
(* snapshots, of waiting jobs, of releases and of upgrades, whether or not *)
(* the manager may die.                                                    *)
(*                                                                         *)
(* The first part is about the containers and the directories of an        *)
(* add-on. The second is about its record, whatever the versions of the    *)
(* manifest are and however HEAD moves: what installed.yaml says of a      *)
(* commit is what the directory of that name carried.                      *)
(*                                                                         *)
(* The other parts are about the core's upgrade: where a run is between    *)
(* what it has done and what it has recorded, what a cleanup of images     *)
(* knows of that, and what the lines of the output say of the run.         *)
(***************************************************************************)
EXTENDS AddonLifecycle, Upgrade, SequenceTheorems, WellFoundedInduction, TLAPS

-----------------------------------------------------------------------------
(* The shape of the state *)

Entries == [commit : 0..MaxRev, version : Nat]
Entered == [commit : 0..MaxRev, version : Nat, history : Seq(Entries)]
Insts == {NoEntry} \cup Entered
Waiting == {"uninstall", "rollback", "upgrade"}
JobRecords(ops) ==
    [op : ops, flag : BOOLEAN, rev : 0..MaxRev, version : Nat, inst : Insts, was : 0..MaxRev]
AllOps == Waiting \cup {"none", "install", "start", "stop", "restart", "remove", "refresh"}
RequestRecords ==
    [op : {"none", "plan", "upgrade"}, rev : 0..MaxRev, version : Nat,
     at : {"none", "archive", "plan"}, inst : Insts]

\* A directory for some revisions, each with the files of a commit.
Shelf(all) ==
    /\ DOMAIN all \subseteq Revs
    /\ \A r \in DOMAIN all : all[r].holds \in Revs

\* The registration: nothing is said of an add-on that is not registered, and a rollback goes
\* back to another directory.
DepOK ==
    /\ dep \in [path : 0..MaxRev, previous : 0..MaxRev, active : BOOLEAN]
    /\ dep.path = 0 => dep = NotRegistered
    /\ dep.previous # 0 => dep.previous # dep.path

LifecycleType ==
    /\ head \in Revs
    /\ Shelf(snaps)
    /\ DepOK
    /\ inst \in Insts
    /\ queue \in Seq(JobRecords(Waiting))
    /\ job \in JobRecords(AllOps)
    /\ req \in RequestRecords
    /\ req.at = "archive" => req.rev # 0
    /\ pc = "archive" => job.rev # 0
    /\ pc = "stop" => job.op \in {"stop", "restart", "remove"}

\* An upgrade that has passed its checks is one to another directory, which is there.
SwitchIsSound ==
    pc = "switch" =>
        /\ dep.active /\ job.rev # 0 /\ job.rev # dep.path
        /\ "pruned" \notin trouble => job.rev \in OnDisk

\* The inductive invariant of the first part.
LifecycleInv ==
    /\ LifecycleType
    /\ SwitchIsSound
    /\ pc = "remove" => ctr = "none"
    /\ InactiveIsDown
    /\ VersionsStay

-----------------------------------------------------------------------------
(* What is said and what is done of the snapshots and of the history *)

LEMMA Constants == 0..MaxRev = {0} \cup Revs /\ 0 \notin Revs /\ Revs \subseteq Nat /\ VersionOf \in [Revs -> Nat]
BY AddonConstants DEF Revs

\* Only keeps what it is told to keep, as it is.
LEMMA OnlyKeeps ==
    ASSUME NEW all, NEW some
    PROVE  /\ DOMAIN Only(all, some) = some
           /\ \A r \in some : Only(all, some)[r].holds = all[r].holds
BY DEF Only

LEMMA MaterializedIs ==
    ASSUME NEW r
    PROVE  /\ DOMAIN Materialized(r) = OnDisk \cup {r}
           /\ Materialized(r)[r].holds = head
           /\ \A x \in OnDisk \ {r} : Materialized(r)[x].holds = snaps[x].holds
<1> DEFINE all == [x \in OnDisk \cup {r} |-> IF x = r THEN [holds |-> head, newer |-> -1] ELSE snaps[x]]
<1>1. DOMAIN all = OnDisk \cup {r} /\ all[r].holds = head /\ \A x \in OnDisk \ {r} : all[x].holds = snaps[x].holds
  OBVIOUS
<1>2. Materialized(r) = Only(all, DOMAIN all)
  BY DEF Materialized
<1> HIDE DEF all
<1>3. QED
  BY <1>1, <1>2, OnlyKeeps

\* prune_snapshots adds nothing, changes nothing, and keeps what it is told to keep.
LEMMA PrunedIs ==
    ASSUME NEW all, NEW keep
    PROVE  /\ DOMAIN Pruned(all, keep) \subseteq DOMAIN all
           /\ \A r \in DOMAIN Pruned(all, keep) : Pruned(all, keep)[r].holds = all[r].holds
           /\ \A i \in DOMAIN keep : keep[i] # 0 /\ keep[i] \in DOMAIN all => keep[i] \in DOMAIN Pruned(all, keep)
<1> DEFINE named == {i \in DOMAIN keep : keep[i] # 0}
           kept == {keep[i] : i \in named}
           rest == DOMAIN all \ kept
           filled == {r \in rest : Cardinality(named) + Cardinality(Newer(all, r, rest)) < MAX_SNAPSHOTS}
           some == (DOMAIN all \cap kept) \cup filled
<1>1. Pruned(all, keep) = Only(all, some)
  BY DEF Pruned
<1>2. some \subseteq DOMAIN all
  OBVIOUS
<1>3. \A i \in DOMAIN keep : keep[i] # 0 /\ keep[i] \in DOMAIN all => keep[i] \in some
  OBVIOUS
<1> HIDE DEF some
<1>4. QED
  BY <1>1, <1>2, <1>3, OnlyKeeps

LEMMA PruneAfterIs ==
    ASSUME NEW all, NEW d, NEW extra
    PROVE  /\ DOMAIN PruneAfter(all, d, extra) \subseteq DOMAIN all
           /\ \A r \in DOMAIN PruneAfter(all, d, extra) : PruneAfter(all, d, extra)[r].holds = all[r].holds
           /\ \A r \in {d.path, d.previous, extra} \ {0} : r \in DOMAIN all => r \in DOMAIN PruneAfter(all, d, extra)
<1>1. PICK keep : keep = <<d.path, d.previous, extra>>
  OBVIOUS
<1>2. {1, 2, 3} \subseteq DOMAIN keep /\ keep[1] = d.path /\ keep[2] = d.previous /\ keep[3] = extra
  BY <1>1
<1>3. PruneAfter(all, d, extra) = Pruned(all, keep)
  BY <1>1 DEF PruneAfter
<1>4. QED
  BY <1>2, <1>3, PrunedIs

LEMMA ShelfKept ==
    ASSUME NEW all, NEW less, Shelf(all), DOMAIN less \subseteq DOMAIN all,
           \A r \in DOMAIN less : less[r].holds = all[r].holds
    PROVE  Shelf(less)
BY DEF Shelf

LEMMA MaterializedShelf ==
    ASSUME Shelf(snaps), head \in Revs, NEW r \in Revs
    PROVE  Shelf(Materialized(r)) /\ DOMAIN Materialized(r) = OnDisk \cup {r}
<1>1. OnDisk \subseteq Revs /\ \A x \in OnDisk : snaps[x].holds \in Revs
  BY DEF Shelf, OnDisk
<1>2. \A x \in OnDisk \cup {r} : Materialized(r)[x].holds \in Revs
  BY <1>1, MaterializedIs
<1>3. QED
  BY <1>1, <1>2, MaterializedIs DEF Shelf

\* The history stays a history, of whatever entries it was made.
LEMMA HistoryGrows ==
    ASSUME NEW S, NEW before, before.history \in Seq(S), NEW commit,
           before # NoEntry => [commit |-> before.commit, version |-> before.version] \in S
    PROVE  NextHistory(before, commit) \in Seq(S)
<1>1. CASE before = NoEntry
  BY <1>1 DEF NextHistory
<1>2. CASE before # NoEntry /\ before.commit = commit
  BY <1>2 DEF NextHistory
<1>3. CASE before # NoEntry /\ before.commit # commit
  <2> DEFINE e == [commit |-> before.commit, version |-> before.version]
             all == <<e>> \o before.history
             n == IF MAX_SNAPSHOTS < Len(all) THEN MAX_SNAPSHOTS ELSE Len(all)
  <2>1. e \in S
    BY <1>3
  <2> HIDE DEF e
  <2>2. all \in Seq(S)
    BY <2>1, ConcatProperties
  <2> HIDE DEF all
  <2>3. 1 \in 1..Len(all)+1 /\ n \in 0..Len(all)
    BY <2>2, AddonConstants, LenProperties
  <2> HIDE DEF n
  <2>4. SubSeq(all, 1, n) \in Seq(S)
    BY <2>2, <2>3, SubSeqProperties
  <2>5. NextHistory(before, commit) = SubSeq(all, 1, n)
    BY <1>3 DEF NextHistory, all, n, e
  <2>6. QED
    BY <2>4, <2>5
<1>4. QED
  BY <1>1, <1>2, <1>3

LEMMA Smallest ==
    ASSUME NEW hits \in SUBSET Nat, hits # {}
    PROVE  \E i \in hits : \A k \in hits : i <= k
<1>1. PICK R : R = OpToRel(<, Nat)
  OBVIOUS
<1>2. \A x, y \in Nat : <<y, x>> \in R <=> y < x
  BY <1>1 DEF OpToRel
<1>3. IsWellFoundedOn(R, Nat)
  BY <1>1, NatLessThanWellFounded
<1>4. \E i \in hits : \A k \in hits : ~ (<<k, i>> \in R)
  BY <1>3, WFMin
<1>5. PICK i \in hits : \A k \in hits : ~ (<<k, i>> \in R)
  BY <1>4
<1>6. ASSUME NEW k \in hits PROVE i <= k
  <2>1. ~(k < i)
    BY <1>2, <1>5
  <2>2. QED
    BY <2>1
<1>7. QED
  BY <1>6

\* The newest of some entries is one of them.
LEMMA FirstHit ==
    ASSUME NEW S, NEW past \in Seq(S), NEW hits \in SUBSET DOMAIN past, hits # {}
    PROVE  (CHOOSE i \in hits : \A k \in hits : i <= k) \in hits
<1>1. hits \subseteq Nat /\ hits # {}
  BY LenProperties
<1>2. \E i \in hits : \A k \in hits : i <= k
  BY <1>1, Smallest
<1>3. QED
  BY <1>2

LEMMA HistoryShrinks ==
    ASSUME NEW S, NEW past \in Seq(S), NEW i \in DOMAIN past
    PROVE  RemoveAt(past, i) \in Seq(S)
<1>1. i \in 1..Len(past) /\ Len(past) \in Nat
  BY LenProperties
<1>2. SubSeq(past, 1, i - 1) \in Seq(S) /\ SubSeq(past, i + 1, Len(past)) \in Seq(S)
  BY <1>1, SubSeqProperties
<1>3. QED
  BY <1>2, ConcatProperties DEF RemoveAt

-----------------------------------------------------------------------------
(* The containers and the directories *)

LEMMA NewJobIs ==
    ASSUME NEW op \in AllOps
    PROVE  /\ NewJob(op) = [op |-> op, flag |-> FALSE, rev |-> 0, version |-> 0, inst |-> NoEntry, was |-> 0]
           /\ NewJob(op) \in JobRecords(AllOps)
BY Constants DEF NewJob, JobRecords, Insts

LEMMA NoJobIs == NoJob \in JobRecords(AllOps)
BY NewJobIs DEF NoJob, AllOps

LEMMA NoRequestIs == NoRequest \in RequestRecords
BY Constants DEF NoRequest, RequestRecords, Insts

LEMMA ManifestVersionIs ==
    ASSUME Shelf(snaps), NEW r
    PROVE  ManifestVersion(r) \in Nat
BY Constants DEF ManifestVersion, OnDisk, Shelf

\* A step that leaves the files, the containers and what may have gone wrong alone.
LEMMA FilesStay ==
    ASSUME LifecycleInv, UNCHANGED <<snaps, dep, inst, ctr, trouble>>, LifecycleType',
           pc' \notin {"switch", "remove"} \/ UNCHANGED <<pc, job>>
    PROVE  LifecycleInv'
BY DEF LifecycleInv, SwitchIsSound, InactiveIsDown, VersionsStay, OnDisk

LEMMA RequestsKeep ==
    ASSUME LifecycleInv, Requests
    PROVE  LifecycleInv'
<1> USE DEF LifecycleInv
<1>1. ASSUME NEW new, NEW step, Run(new, step), new \in JobRecords(AllOps),
             step \notin {"switch", "remove", "archive"},
             step = "stop" => new.op \in {"stop", "restart", "remove"}
      PROVE  LifecycleInv'
  <2>1. LifecycleType'
    BY <1>1 DEF Run, LifecycleType, DepOK, Shelf
  <2>2. QED
    BY <1>1, <2>1, FilesStay DEF Run
<1>2. ASSUME NEW new, Enqueue(new), new \in JobRecords(Waiting), req' = req \/ req' = NoRequest
      PROVE  LifecycleInv'
  <2>1. queue' \in Seq(JobRecords(Waiting))
    BY <1>2, AppendProperties DEF Enqueue, LifecycleType
  <2>2. req' \in RequestRecords /\ (req'.at = "archive" => req'.rev # 0)
    BY <1>2, NoRequestIs DEF LifecycleType, NoRequest
  <2>3. LifecycleType'
    BY <1>2, <2>1, <2>2 DEF Enqueue, LifecycleType, DepOK, Shelf
  <2>4. QED
    BY <1>2, <2>3, FilesStay DEF Enqueue
<1>3. ASSUME NEW b \in BOOLEAN, Install(b) \/ Stop(b) \/ Restart(b) \/ SaveConfig(b) PROVE LifecycleInv'
  <2>1. [NewJob("install") EXCEPT !.flag = b] \in JobRecords(AllOps)
    BY Constants DEF NewJob, AllOps, JobRecords, Insts
  <2>2. QED
    <3>1. ASSUME NEW op \in {"stop", "restart"}, NEW c \in BOOLEAN,
                 Run([NewJob(op) EXCEPT !.flag = c], "stop")
          PROVE  LifecycleInv'
      <4>1. [NewJob(op) EXCEPT !.flag = c] \in JobRecords(AllOps) /\ [NewJob(op) EXCEPT !.flag = c].op = op
        BY Constants DEF NewJob, AllOps, JobRecords, Insts
      <4>2. QED
        BY <1>1, <3>1, <4>1
    <3>2. CASE Install(b)
      BY <1>1, <2>1, <3>2 DEF Install
    <3>3. QED
      BY <1>3, <3>1, <3>2 DEF Stop, Restart, SaveConfig
<1>4. CASE Start \/ RemoveAddon \/ RefreshCatalog
  <2>1. \A op \in {"start", "remove", "refresh"} : NewJob(op) \in JobRecords(AllOps) /\ NewJob(op).op = op
    BY NewJobIs DEF AllOps
  <2>2. QED
    BY <1>1, <1>4, <2>1 DEF Start, RemoveAddon, RefreshCatalog
<1>5. CASE Uninstall
  <2>1. [NewJob("uninstall") EXCEPT !.flag = inst # NoEntry] \in JobRecords(Waiting)
    BY Constants DEF NewJob, Waiting, JobRecords, Insts
  <2>2. QED
    BY <1>2, <1>5, <2>1 DEF Uninstall
<1>6. CASE Rollback
  <2>1. [NewJob("rollback") EXCEPT !.inst = inst, !.was = dep.path] \in JobRecords(Waiting)
    BY Constants DEF NewJob, Waiting, JobRecords, LifecycleType, DepOK
  <2>2. QED
    BY <1>2, <1>6, <2>1 DEF Rollback
<1>7. ASSUME NEW op \in {"plan", "upgrade"}, NEW r \in {0} \cup Revs, StageRequest(op, r) PROVE LifecycleInv'
  <2>1. ManifestVersion(head) \in Nat
    BY ManifestVersionIs DEF LifecycleType
  <2>2. req' \in RequestRecords /\ req'.rev # 0
    BY <1>7, <2>1, Constants DEF StageRequest, RequestRecords, LifecycleType
  <2>3. LifecycleType'
    BY <1>7, <2>2 DEF StageRequest, LifecycleType, DepOK, Shelf
  <2>4. QED
    BY <1>7, <2>3, FilesStay DEF StageRequest
<1>8. CASE ArchiveRequest
  <2>1. CASE req' = NoRequest /\ UNCHANGED <<snaps, carried, trouble>>
    <3>1. LifecycleType'
      BY <1>8, <2>1, NoRequestIs DEF ArchiveRequest, LifecycleType, DepOK, Shelf, NoRequest
    <3>2. QED
      BY <1>8, <2>1, <3>1, FilesStay DEF ArchiveRequest
  <2>2. CASE Archive(req.rev) /\ req' = [req EXCEPT !.at = "plan", !.version = VersionOf[head]]
    <3>1. req.rev \in Revs /\ req' \in RequestRecords /\ req'.at = "plan"
      BY <1>8, <2>2, Constants DEF ArchiveRequest, Archive, LifecycleType, RequestRecords
    <3>2. DOMAIN snaps' = OnDisk \cup {req.rev} /\ Shelf(snaps')
      BY <2>2, <3>1, MaterializedShelf DEF LifecycleType, Archive
    <3>3. LifecycleType'
      BY <1>8, <3>1, <3>2 DEF ArchiveRequest, Archive, LifecycleType, DepOK
    <3>4. QED
      BY <1>8, <2>2, <3>2, <3>3 DEF ArchiveRequest, Archive, SwitchIsSound, InactiveIsDown, VersionsStay, OnDisk
  <2>3. QED
    BY <1>8, <2>1, <2>2 DEF ArchiveRequest
<1>9. CASE PlanAnswered
  <2>1. /\ snaps' = PruneAfter(snaps, dep, req.rev)
        /\ UNCHANGED <<head, dep, inst, ctr, queue, job, pc>>
        /\ req' = NoRequest
        /\ trouble \subseteq trouble'
        /\ "pruned" \notin trouble' => InUse \subseteq DOMAIN snaps'
    BY <1>9 DEF PlanAnswered
  <2>2. /\ Shelf(snaps')
        /\ \A r \in {dep.path, dep.previous} \ {0} : r \in DOMAIN snaps => r \in DOMAIN snaps'
    BY <2>1, PruneAfterIs, ShelfKept DEF LifecycleType
  <2>3. LifecycleType'
    BY <2>1, <2>2, NoRequestIs DEF LifecycleType, DepOK, NoRequest
  <2>4. SwitchIsSound' /\ VersionsStay'
    BY <2>1, <2>2 DEF SwitchIsSound, VersionsStay, OnDisk, InUse
  <2>5. QED
    BY <2>1, <2>3, <2>4 DEF InactiveIsDown
<1>10. CASE UpgradeAnswered
  <2>1. [NewJob("upgrade") EXCEPT !.rev = req.rev, !.version = req.version,
                                  !.inst = req.inst, !.was = dep.path] \in JobRecords(Waiting)
    BY Constants DEF NewJob, Waiting, JobRecords, LifecycleType, DepOK, RequestRecords
  <2>2. QED
    BY <1>2, <1>10, <2>1 DEF UpgradeAnswered
<1>11. CASE PlanRefused
  <2>1. LifecycleType'
    BY <1>11, NoRequestIs DEF PlanRefused, LifecycleType, DepOK, Shelf, NoRequest
  <2>2. QED
    BY <1>11, <2>1, FilesStay DEF PlanRefused
<1>12. QED
  BY <1>3, <1>4, <1>5, <1>6, <1>7, <1>8, <1>9, <1>10, <1>11 DEF Requests

LEMMA InstsAre ==
    ASSUME NEW x \in Insts
    PROVE  /\ x.history \in Seq(Entries)
           /\ x # NoEntry => x \in Entered /\ [commit |-> x.commit, version |-> x.version] \in Entries
<1>1. <<>> \in Seq(Entries)
  OBVIOUS
<1>2. CASE x = NoEntry
  BY <1>1, <1>2 DEF NoEntry
<1>3. CASE x \in Entered
  BY <1>3 DEF Entered, Entries
<1>4. QED
  BY <1>2, <1>3 DEF Insts

\* What the two syncs record is a record.
LEMMA SyncedUpgradeIs ==
    ASSUME LifecycleInv
    PROVE  SyncedAfterUpgrade \in Insts
<1>1. job.rev \in 0..MaxRev /\ job.version \in Nat /\ job.inst \in Insts /\ inst \in Insts
  BY DEF LifecycleInv, LifecycleType, JobRecords
<1>2. /\ job.inst.history \in Seq(Entries)
      /\ job.inst # NoEntry => [commit |-> job.inst.commit, version |-> job.inst.version] \in Entries
  BY <1>1, InstsAre
<1>3. NextHistory(job.inst, job.rev) \in Seq(Entries)
  BY <1>2, HistoryGrows
<1>4. QED
  BY <1>1, <1>3 DEF SyncedAfterUpgrade, Record, Insts, Entered

LEMMA SyncedRollbackIs ==
    ASSUME LifecycleInv
    PROVE  SyncedAfterRollback \in Insts
<1> DEFINE version == ManifestVersion(dep.path)
           past == job.inst.history
           hits == {i \in DOMAIN past : past[i].version = version}
           first == CHOOSE i \in hits : \A k \in hits : i <= k
           commit == IF hits = {} THEN Unknown ELSE past[first].commit
           history == IF hits = {} THEN past ELSE RemoveAt(past, first)
<1>1. past \in Seq(Entries) /\ inst \in Insts
  <2>1. job.inst \in Insts /\ inst \in Insts
    BY DEF LifecycleInv, LifecycleType, JobRecords
  <2>2. QED
    BY <2>1, InstsAre
<1>2. version \in Nat
  BY ManifestVersionIs DEF LifecycleInv, LifecycleType
<1>3. hits # {} => first \in DOMAIN past
  <2>1. hits \in SUBSET DOMAIN past
    OBVIOUS
  <2> HIDE DEF hits
  <2>2. QED
    BY <1>1, <2>1, FirstHit
<1>4. commit \in 0..MaxRev
  <2> HIDE DEF first, hits, past
  <2>1. hits # {} => past[first] \in Entries
    BY <1>1, <1>3, ElementOfSeq, LenProperties
  <2>2. QED
    BY <2>1, Constants DEF Entries, Unknown
<1>5. history \in Seq(Entries)
  BY <1>1, <1>3, HistoryShrinks
<1>6. SyncedAfterRollback = IF dep.path \in {0, job.was} THEN inst ELSE Record(commit, version, history)
  BY DEF SyncedAfterRollback
<1> HIDE DEF version, commit, history
<1>7. QED
  BY <1>1, <1>2, <1>4, <1>5, <1>6 DEF Record, Insts, Entered

\* What papaia-ctl makes of a registration is a registration.
LEMMA DepMoves ==
    ASSUME DepOK
    PROVE  /\ dep' = [dep EXCEPT !.active = FALSE] =>
                 DepOK' /\ dep'.path = dep.path /\ dep'.previous = dep.previous
           /\ dep' = dep => DepOK'
           /\ \A r \in 0..MaxRev : r # 0 /\ r # dep.path /\ dep.active
                                  /\ dep' = [dep EXCEPT !.path = r, !.previous = dep.path] =>
                 DepOK' /\ dep'.path = r /\ dep'.previous = dep.path /\ dep'.active /\ dep.path # 0
           /\ dep.previous # 0 /\ dep' = [dep EXCEPT !.path = dep.previous, !.previous = 0] =>
                 /\ DepOK' /\ dep'.path = dep.previous /\ dep'.previous = 0
                 /\ dep'.active = dep.active /\ dep.path # 0
<1>1. PICK p, v, a : /\ p \in 0..MaxRev /\ v \in 0..MaxRev /\ a \in BOOLEAN
                     /\ dep = [path |-> p, previous |-> v, active |-> a]
                     /\ dep.path = p /\ dep.previous = v /\ dep.active = a
                     /\ p = 0 => v = 0 /\ a = FALSE
                     /\ v # 0 => v # p
  <2>1. dep = [path |-> dep.path, previous |-> dep.previous, active |-> dep.active]
    BY DEF DepOK
  <2>2. dep.path = 0 => dep.previous = 0 /\ dep.active = FALSE
    BY DEF DepOK, NotRegistered
  <2>3. QED
    BY <2>1, <2>2 DEF DepOK
<1>2. ASSUME NEW q \in 0..MaxRev, NEW w \in 0..MaxRev, NEW b \in BOOLEAN,
             dep' = [path |-> q, previous |-> w, active |-> b],
             q = 0 => w = 0 /\ b = FALSE, w # 0 => w # q
      PROVE  DepOK'
  <2>1. dep' \in [path : 0..MaxRev, previous : 0..MaxRev, active : BOOLEAN] /\ dep'.path = q /\ dep'.previous = w
    BY <1>2
  <2>2. q = 0 => dep' = NotRegistered
    BY <1>2 DEF NotRegistered
  <2>3. QED
    BY <1>2, <2>1, <2>2 DEF DepOK
<1>3. ASSUME dep' = [dep EXCEPT !.active = FALSE]
      PROVE  DepOK' /\ dep'.path = dep.path /\ dep'.previous = dep.previous
  <2>1. dep' = [path |-> p, previous |-> v, active |-> FALSE]
    <3>1. [[path |-> p, previous |-> v, active |-> a] EXCEPT !.active = FALSE]
             = [path |-> p, previous |-> v, active |-> FALSE]
      <4>1. ASSUME NEW x, NEW y
            PROVE  [[path |-> p, previous |-> v, active |-> x] EXCEPT !.active = y]
                      = [path |-> p, previous |-> v, active |-> y]
        OBVIOUS
      <4>2. QED
        BY <4>1, Zenon
    <3>2. dep' = [[path |-> p, previous |-> v, active |-> a] EXCEPT !.active = FALSE]
      BY <1>1, <1>3, Zenon
    <3>3. QED
      BY <3>1, <3>2
  <2>2. DepOK'
    BY <1>1, <1>2, <2>1
  <2>3. QED
    BY <1>1, <2>1, <2>2
<1>4. dep' = dep => DepOK'
  BY DEF DepOK
<1>5. ASSUME NEW r \in 0..MaxRev, r # 0, r # dep.path, dep.active,
             dep' = [dep EXCEPT !.path = r, !.previous = dep.path]
      PROVE  DepOK' /\ dep'.path = r /\ dep'.previous = dep.path /\ dep'.active /\ dep.path # 0
  <2>1. dep' = [path |-> r, previous |-> p, active |-> a]
    BY <1>1, <1>5
  <2>2. DepOK'
    BY <1>1, <1>2, <1>5, <2>1
  <2>3. QED
    BY <1>1, <1>5, <2>1, <2>2
<1>6. ASSUME dep.previous # 0, dep' = [dep EXCEPT !.path = dep.previous, !.previous = 0]
      PROVE  /\ DepOK' /\ dep'.path = dep.previous /\ dep'.previous = 0
             /\ dep'.active = dep.active /\ dep.path # 0
  <2>1. dep' = [path |-> v, previous |-> 0, active |-> a]
    BY <1>1, <1>6
  <2>2. DepOK'
    BY <1>1, <1>2, <1>6, <2>1, Constants
  <2>3. QED
    BY <1>1, <1>6, <2>1, <2>2
<1>7. QED
  BY <1>3, <1>4, <1>5, <1>6

LEMMA JobsKeep ==
    ASSUME LifecycleInv, Jobs
    PROVE  LifecycleInv'
<1> USE DEF LifecycleInv
<1>1. NoJob \in JobRecords(AllOps)
  BY NoJobIs
<1>2. CASE TakeJob
  <2>1. Head(queue) \in JobRecords(Waiting) /\ Tail(queue) \in Seq(JobRecords(Waiting))
    BY <1>2 DEF TakeJob, LifecycleType
  <2>2. Head(queue).op \in Waiting /\ Head(queue) \in JobRecords(AllOps)
    BY <2>1 DEF JobRecords, AllOps
  <2>3. LifecycleType'
    BY <1>2, <2>1, <2>2 DEF TakeJob, LifecycleType, DepOK, Shelf, Waiting
  <2>4. "pruned" \in trouble' <=> "pruned" \in trouble
    BY <1>2 DEF TakeJob
  <2>5. QED
    BY <1>2, <2>2, <2>3, <2>4 DEF TakeJob, SwitchIsSound, InactiveIsDown, VersionsStay, OnDisk, Waiting
<1>3. CASE Fails
  <2>1. LifecycleType'
    BY <1>1, <1>3 DEF Fails, Finish, LifecycleType, DepOK, Shelf
  <2>2. QED
    BY <1>3, <2>1, FilesStay DEF Fails, Finish
<1>4. CASE Refresh
  <2>1. head' \in Revs
    BY <1>4, AddonConstants DEF Refresh, LifecycleType, Revs
  <2>2. LifecycleType'
    BY <1>1, <1>4, <2>1 DEF Refresh, Finish, LifecycleType, DepOK, Shelf
  <2>3. QED
    BY <1>4, <2>2, FilesStay DEF Refresh, Finish
<1>5. CASE StageInstall
  <2>1. ManifestVersion(head) \in Nat
    BY ManifestVersionIs DEF LifecycleType
  <2>2. job' \in JobRecords(AllOps) /\ job'.rev # 0 /\ pc' \in {"install", "archive"}
    BY <1>5, <2>1, Constants DEF StageInstall, LifecycleType, JobRecords
  <2>3. LifecycleType'
    BY <1>5, <2>2 DEF StageInstall, LifecycleType, DepOK, Shelf
  <2>4. QED
    BY <1>5, <2>2, <2>3, FilesStay DEF StageInstall
<1>6. CASE ArchiveInstall
  <2>1. job.rev \in Revs /\ job' \in JobRecords(AllOps) /\ pc' = "install"
    BY <1>6, Constants DEF ArchiveInstall, LifecycleType, JobRecords
  <2>2. DOMAIN snaps' = OnDisk \cup {job.rev} /\ Shelf(snaps')
    BY <1>6, <2>1, MaterializedShelf DEF LifecycleType, ArchiveInstall, Archive
  <2>3. LifecycleType'
    BY <1>6, <2>1, <2>2 DEF ArchiveInstall, Archive, LifecycleType, DepOK
  <2>4. QED
    BY <1>6, <2>1, <2>2, <2>3 DEF ArchiveInstall, Archive, SwitchIsSound, InactiveIsDown, VersionsStay, OnDisk
<1>7. CASE RunInstall
  <2>1. CASE UNCHANGED <<files, trouble>> /\ Finish
    <3>1. LifecycleType'
      BY <1>1, <1>7, <2>1 DEF RunInstall, Finish, LifecycleType, DepOK, Shelf, files
    <3>2. QED
      BY <1>7, <2>1, <3>1, FilesStay DEF RunInstall, Finish, files
  <2>2. ASSUME job.rev \in OnDisk, dep' \in Registered(job.rev), inst' \in Insts,
               snaps' = PruneAfter(snaps, dep', 0) \/ snaps' = snaps,
               "pruned" \in trouble' <=> "pruned" \in trouble,
               job' \in JobRecords(AllOps), pc' \in {"start", "idle"}
        PROVE  LifecycleInv'
    <3>1. job.rev \in Revs
      BY <2>2 DEF LifecycleType, Shelf, OnDisk
    <3>2. PICK p \in {0, dep.previous} \ {job.rev} :
             dep' = [path |-> job.rev, previous |-> p, active |-> TRUE]
      BY <2>2 DEF Registered
    <3>7. DepOK' /\ dep'.path = job.rev /\ dep'.active /\ dep'.previous \in {0, dep.previous}
      <4>1. dep' \in [path : 0..MaxRev, previous : 0..MaxRev, active : BOOLEAN]
        BY <3>1, <3>2, Constants DEF LifecycleType, DepOK
      <4>2. QED
        BY <3>1, <3>2, <4>1, Constants DEF DepOK
    <3>3. Shelf(snaps') /\ \A r \in {dep'.path, dep'.previous} \ {0} : r \in OnDisk => r \in OnDisk'
      BY <2>2, PruneAfterIs, ShelfKept DEF LifecycleType, OnDisk
    <3>4. LifecycleType'
      BY <1>7, <2>2, <3>3, <3>7 DEF RunInstall, LifecycleType
    <3>5. VersionsStay'
      BY <2>2, <3>3, <3>7 DEF VersionsStay
    <3>6. QED
      BY <2>2, <3>4, <3>5, <3>7 DEF SwitchIsSound, InactiveIsDown
  <2>3. Record(job.rev, job.version, NextHistory(inst, job.rev)) \in Insts
    <3>1. job.rev \in 0..MaxRev /\ job.version \in Nat
      BY DEF LifecycleType, JobRecords
    <3>2. inst.history \in Seq(Entries) /\ (inst # NoEntry => [commit |-> inst.commit, version |-> inst.version] \in Entries)
      BY InstsAre DEF LifecycleType
    <3>3. NextHistory(inst, job.rev) \in Seq(Entries)
      BY <3>2, HistoryGrows
    <3>4. QED
      BY <3>1, <3>3 DEF Record, Insts, Entered
  <2>4. QED
    BY <1>1, <1>7, <2>1, <2>2, <2>3 DEF RunInstall, Finish, GoOn, LifecycleType
<1>8. CASE RunStart
  <2>1. LifecycleType'
    BY <1>1, <1>8 DEF RunStart, Finish, LifecycleType, DepOK, Shelf
  <2>2. QED
    BY <1>8, <2>1 DEF RunStart, Finish, SwitchIsSound, InactiveIsDown, VersionsStay, OnDisk
<1>9. CASE RunStop
  <2>1. CASE job.op = "remove" /\ pc' = "remove" /\ job' = job
    <3>1. LifecycleType'
      BY <1>9, <2>1 DEF RunStop, LifecycleType, DepOK, Shelf
    <3>2. QED
      BY <1>9, <2>1, <3>1 DEF RunStop, SwitchIsSound, InactiveIsDown, VersionsStay, OnDisk
  <2>2. CASE pc' \in {"idle", "start"} /\ job' \in JobRecords(AllOps)
    <3>1. LifecycleType'
      BY <1>9, <2>2 DEF RunStop, LifecycleType, DepOK, Shelf
    <3>2. ctr = "none" => ctr' = "none"
      BY <1>9 DEF RunStop
    <3>3. QED
      BY <1>9, <2>2, <3>1, <3>2 DEF RunStop, SwitchIsSound, InactiveIsDown, VersionsStay, OnDisk
  <2>3. job.op \in {"stop", "restart", "remove"}
    BY <1>9 DEF RunStop, LifecycleType
  <2>4. QED
    BY <1>1, <1>9, <2>1, <2>2, <2>3 DEF RunStop, Finish, GoOn, LifecycleType
<1>10. CASE RunRemove
  <2>1. DepOK' /\ dep'.path = dep.path /\ dep'.previous = dep.previous
    BY <1>10, DepMoves DEF RunRemove, LifecycleType
  <2>2. LifecycleType'
    BY <1>1, <1>10, <2>1 DEF RunRemove, Finish, LifecycleType, Shelf
  <2>3. QED
    BY <1>10, <2>1, <2>2 DEF RunRemove, Finish, SwitchIsSound, InactiveIsDown, VersionsStay, OnDisk
<1>11. CASE RunUninstall
  <2>1. DepOK' /\ dep'.path = 0 /\ dep'.previous = 0
    BY <1>11, Constants DEF RunUninstall, DepOK, NotRegistered
  <2>2. Shelf(snaps')
    BY <1>11, PrunedIs, ShelfKept DEF RunUninstall, LifecycleType
  <2>3. LifecycleType'
    BY <1>1, <1>11, <2>1, <2>2 DEF RunUninstall, Finish, LifecycleType, Insts
  <2>4. QED
    BY <1>11, <2>1, <2>3 DEF RunUninstall, Finish, SwitchIsSound, InactiveIsDown, VersionsStay
<1>12. CASE BeginUpgrade
  <2>1. LifecycleType'
    BY <1>12 DEF BeginUpgrade, GoOn, LifecycleType, DepOK, Shelf
  <2>2. job.rev \in OnDisk => job.rev # 0
    BY Constants DEF LifecycleType, Shelf, OnDisk
  <2>3. QED
    BY <1>12, <2>1, <2>2 DEF BeginUpgrade, GoOn, SwitchIsSound, InactiveIsDown, VersionsStay, OnDisk
<1>13. CASE SwitchUpgrade
  <2>1. /\ DepOK'
        /\ dep' = dep \/ (dep'.path = job.rev /\ dep'.previous = dep.path /\ dep'.active /\ dep.path # 0)
    BY <1>13, DepMoves DEF SwitchUpgrade, SwitchIsSound, LifecycleType, JobRecords
  <2>2. LifecycleType'
    BY <1>13, <2>1 DEF SwitchUpgrade, GoOn, LifecycleType, Shelf
  <2>3. QED
    BY <1>13, <2>1, <2>2 DEF SwitchUpgrade, GoOn, SwitchIsSound, InactiveIsDown, VersionsStay, OnDisk
<1>14. CASE RunRollback
  <2>1. DepOK' /\ (dep' = dep \/ (dep'.path = dep.previous /\ dep'.previous = 0 /\ dep'.active = dep.active /\ dep.path # 0))
    BY <1>14, DepMoves DEF RunRollback, LifecycleType
  <2>2. LifecycleType'
    BY <1>14, <2>1 DEF RunRollback, GoOn, LifecycleType, Shelf
  <2>3. QED
    BY <1>14, <2>1, <2>2 DEF RunRollback, GoOn, SwitchIsSound, InactiveIsDown, VersionsStay, OnDisk
<1>15. CASE SettleUpgrade \/ SettleRollback
  <2>1. inst' \in Insts
    BY <1>15, SyncedUpgradeIs, SyncedRollbackIs DEF SettleUpgrade, SettleRollback
  <2>2. Shelf(snaps') /\ \A r \in {dep.path, dep.previous} \ {0} : r \in OnDisk => r \in OnDisk'
    BY <1>15, PruneAfterIs, ShelfKept DEF SettleUpgrade, SettleRollback, LifecycleType, OnDisk
  <2>3. LifecycleType'
    BY <1>1, <1>15, <2>1, <2>2 DEF SettleUpgrade, SettleRollback, Finish, LifecycleType, DepOK
  <2>4. ctr = "none" => ctr' = "none"
    BY <1>15 DEF SettleUpgrade, SettleRollback
  <2>5. QED
    BY <1>15, <2>2, <2>3, <2>4 DEF SettleUpgrade, SettleRollback, Finish, SwitchIsSound, InactiveIsDown, VersionsStay
<1>16. QED
  BY <1>2, <1>3, <1>4, <1>5, <1>6, <1>7, <1>8, <1>9, <1>10, <1>11, <1>12, <1>13, <1>14, <1>15 DEF Jobs

LEMMA DieKeeps ==
    ASSUME LifecycleInv, Die
    PROVE  LifecycleInv'
<1>1. queue' = <<>> /\ <<>> \in Seq(JobRecords(Waiting))
  BY DEF Die
<1>2. LifecycleType'
  BY <1>1, NoJobIs, NoRequestIs DEF Die, LifecycleInv, LifecycleType, DepOK, Shelf, NoRequest
<1>3. pc' = "idle" /\ ("pruned" \in trouble' <=> "pruned" \in trouble)
  BY DEF Die
<1>4. QED
  BY <1>2, <1>3 DEF Die, LifecycleInv, SwitchIsSound, InactiveIsDown, VersionsStay, OnDisk

LEMMA LifecycleInvInit == Init => LifecycleInv
<1> SUFFICES ASSUME Init PROVE LifecycleInv
  OBVIOUS
<1>1. head \in Revs /\ Shelf(snaps) /\ DepOK /\ inst \in Insts /\ queue \in Seq(JobRecords(Waiting))
  BY AddonConstants DEF Init, Revs, Shelf, DepOK, NotRegistered, Insts
<1>2. LifecycleType
  BY <1>1, NoJobIs, NoRequestIs DEF Init, LifecycleType, NoRequest
<1>3. QED
  BY <1>2 DEF Init, LifecycleInv, SwitchIsSound, InactiveIsDown, VersionsStay, NotRegistered

LEMMA LifecycleInvAlways == Spec => []LifecycleInv
<1>1. LifecycleInv /\ UNCHANGED vars => LifecycleInv'
  BY DEF vars, LifecycleInv, LifecycleType, DepOK, Shelf, SwitchIsSound, InactiveIsDown, VersionsStay, OnDisk
<1>2. LifecycleInv /\ [Next]_vars => LifecycleInv'
  BY <1>1, RequestsKeep, JobsKeep, DieKeeps DEF Next
<1>3. QED
  BY <1>2, LifecycleInvInit, PTL DEF Spec

\* The directory the add-on runs from and the one a rollback goes back to are never pruned, as
\* prune_after reads deployment.yaml at the moment it prunes.
THEOREM VersionsStayAlways == Spec => []VersionsStay
BY LifecycleInvAlways, PTL DEF LifecycleInv

\* An add-on that remove has marked inactive has no containers left: the job takes them down
\* first, and nothing starts one that is not active.
THEOREM InactiveIsDownAlways == Spec => []InactiveIsDown
BY LifecycleInvAlways, PTL DEF LifecycleInv

-----------------------------------------------------------------------------
(* The record *)

\* No directory was written a second time with another version in it.
Unswapped == "swapped" \notin trouble

\* The directory of a commit was written with the version.
Carries(r, v) == r \in Revs /\ v # 0 /\ carried[r] = v

\* What is said of a commit that is known is the version its directory carried.
Told(x) == x.commit # Unknown => Carries(x.commit, x.version)
ToldEntries == {e \in Entries : Told(e)}
ToldInsts == {x \in Insts : x = NoEntry \/ (Told(x) /\ x.history \in Seq(ToldEntries))}

\* What a job or a request was given to work with.
ToldJob(j) ==
    /\ j.inst \in ToldInsts
    /\ j.op = "upgrade" => Carries(j.rev, j.version)
ToldJobs == {j \in JobRecords(Waiting) : ToldJob(j)}
ToldRequest ==
    /\ req.inst \in ToldInsts
    /\ req.at = "plan" => Carries(req.rev, req.version)

\* The record has the version of the registered directory; only a rollback takes its commit from
\* the history.
Follows ==
    IF dep.path = 0 THEN inst = NoEntry
    ELSE Carries(dep.path, inst.version) /\ (inst.commit = dep.path \/ dep.previous = 0)

\* Where the running job is, and what it was given.
JobIsTold ==
    /\ ToldJob(job)
    /\ pc \in {"upgrade", "switch", "settle"} => job.op = "upgrade"
    /\ pc \in {"stage", "archive", "install"} => job.op = "install"
    /\ pc = "install" => Carries(job.rev, job.version)

\* The record outside a job that is between papaia-ctl and installed.yaml; and inside one, where
\* the registration can be.
RecordIsOnItsWay ==
    "astray" \notin trouble =>
        /\ pc \notin {"settle", "unwind"} => Follows
        /\ pc = "settle" => Follows \/ dep.path = job.rev
        /\ pc = "rollback" => job.was = dep.path
        /\ pc = "unwind" => IF dep.path \in {0, job.was} THEN Follows
                            ELSE dep.path \in OnDisk /\ dep.previous = 0

\* The inductive invariant of the second part, on top of the first.
RecordInv ==
    /\ carried \in [Revs -> Nat]
    /\ \A r \in OnDisk : VersionOf[snaps[r].holds] = carried[r]
    /\ inst \in ToldInsts
    /\ queue \in Seq(ToldJobs)
    /\ JobIsTold
    /\ ToldRequest
    /\ RecordIsOnItsWay

LEMMA Versions == \A r \in Revs : VersionOf[r] \in Nat /\ VersionOf[r] # 0
BY AddonConstants DEF Revs

LEMMA ManifestTold ==
    ASSUME LifecycleInv, RecordInv, NEW r \in OnDisk
    PROVE  Carries(r, ManifestVersion(r))
<1>1. r \in Revs /\ snaps[r].holds \in Revs
  BY DEF LifecycleInv, LifecycleType, Shelf, OnDisk
<1>2. QED
  BY <1>1, Versions DEF RecordInv, ManifestVersion, Carries

LEMMA NoEntryTold == NoEntry \in ToldInsts
BY DEF ToldInsts, Insts

\* What was told stays told while the directories that were written keep what they carried.
LEMMA ToldStays ==
    ASSUME \A r \in Revs : carried[r] # 0 => carried'[r] = carried[r]
    PROVE  /\ \A r, v : Carries(r, v) => Carries(r, v)'
           /\ ToldInsts \subseteq ToldInsts' /\ NoEntry \in ToldInsts'
           /\ \A j : ToldJob(j) => ToldJob(j)'
           /\ Seq(ToldJobs) \subseteq Seq(ToldJobs')
<1>1. ASSUME NEW r, NEW v, Carries(r, v) PROVE Carries(r, v)'
  BY <1>1 DEF Carries
<1>2. ASSUME NEW x, Told(x) PROVE Told(x)'
  BY <1>1, <1>2 DEF Told
<1>3. ToldEntries \subseteq ToldEntries'
  BY <1>2 DEF ToldEntries
<1>4. Seq(ToldEntries) \subseteq Seq(ToldEntries')
  BY <1>3, SeqMonotonic
<1>5. ToldInsts \subseteq ToldInsts'
  BY <1>2, <1>4 DEF ToldInsts
<1>6. ASSUME NEW j, ToldJob(j) PROVE ToldJob(j)'
  BY <1>1, <1>5, <1>6 DEF ToldJob
<1>7. ToldJobs \subseteq ToldJobs'
  BY <1>6 DEF ToldJobs
<1>8. Seq(ToldJobs) \subseteq Seq(ToldJobs')
  BY <1>7, SeqMonotonic
<1>9. QED
  BY <1>1, <1>5, <1>6, <1>8, NoEntryTold

\* The same of a step that writes no directory.
LEMMA ToldKept ==
    ASSUME RecordInv, carried' = carried
    PROVE  /\ carried' \in [Revs -> Nat]
           /\ \A r, v : Carries(r, v) => Carries(r, v)'
           /\ ToldInsts \subseteq ToldInsts' /\ NoEntry \in ToldInsts'
           /\ \A j : ToldJob(j) => ToldJob(j)'
           /\ Seq(ToldJobs) \subseteq Seq(ToldJobs')
BY ToldStays DEF RecordInv

\* git archive into a directory: it carries the version of what HEAD is by then, and whatever
\* was told of a directory before is still so.
LEMMA ArchiveTells ==
    ASSUME LifecycleInv, RecordInv, NEW r \in Revs, Archive(r), Unswapped'
    PROVE  /\ carried' \in [Revs -> Nat]
           /\ \A x \in Revs : carried[x] # 0 => carried'[x] = carried[x]
           /\ OnDisk \subseteq OnDisk'
           /\ \A x \in OnDisk' : VersionOf[snaps'[x].holds] = carried'[x]
           /\ carried'[r] = VersionOf[head] /\ VersionOf[head] # 0
           /\ trouble' = trouble
<1>1. head \in Revs /\ VersionOf[head] \in Nat /\ VersionOf[head] # 0
  BY Versions DEF LifecycleInv, LifecycleType
<1>2. carried[r] \in {0, VersionOf[head]} /\ trouble' = trouble
  BY DEF Archive, Unswapped
<1>3. /\ carried' \in [Revs -> Nat] /\ carried'[r] = VersionOf[head]
      /\ \A x \in Revs \ {r} : carried'[x] = carried[x]
  BY <1>1, <1>2 DEF Archive, RecordInv
<1>4. PICK new : new = Materialized(r)
  OBVIOUS
<1>5. DOMAIN new = OnDisk \cup {r} /\ new[r].holds = head
      /\ \A x \in OnDisk \ {r} : new[x].holds = snaps[x].holds
  BY <1>4, MaterializedIs
<1>6. snaps' = new /\ OnDisk' = DOMAIN new
  BY <1>4 DEF Archive, OnDisk
<1>7. OnDisk \subseteq Revs
  BY DEF LifecycleInv, LifecycleType, Shelf, OnDisk
<1>8. \A x \in OnDisk' : VersionOf[snaps'[x].holds] = carried'[x]
  <2>1. \A x \in OnDisk \ {r} : x \in Revs /\ VersionOf[snaps'[x].holds] = carried'[x]
    BY <1>3, <1>5, <1>6, <1>7 DEF RecordInv
  <2>2. VersionOf[snaps'[r].holds] = carried'[r]
    BY <1>3, <1>5, <1>6
  <2>3. QED
    BY <1>5, <1>6, <2>1, <2>2
<1>9. QED
  BY <1>1, <1>2, <1>3, <1>5, <1>6, <1>8 DEF Carries

LEMMA ToldHistory ==
    ASSUME NEW x \in ToldInsts
    PROVE  /\ x.history \in Seq(ToldEntries)
           /\ \A c : NextHistory(x, c) \in Seq(ToldEntries)
<1>1. x.history \in Seq(ToldEntries)
  <2>1. <<>> \in Seq(ToldEntries)
    OBVIOUS
  <2>2. CASE x = NoEntry
    BY <2>1, <2>2 DEF NoEntry
  <2>3. QED
    BY <2>2 DEF ToldInsts
<1>2. x # NoEntry => [commit |-> x.commit, version |-> x.version] \in ToldEntries
  <2>1. x # NoEntry => [commit |-> x.commit, version |-> x.version] \in Entries /\ Told(x)
    BY InstsAre DEF ToldInsts
  <2>2. QED
    BY <2>1 DEF ToldEntries, Told
<1>3. QED
  BY <1>1, <1>2, HistoryGrows

LEMMA RecordTold ==
    ASSUME NEW c \in 0..MaxRev, NEW v \in Nat, c # Unknown => Carries(c, v), NEW h \in Seq(ToldEntries)
    PROVE  Record(c, v, h) \in ToldInsts /\ Record(c, v, h).commit = c /\ Record(c, v, h).version = v
<1>1. h \in Seq(Entries)
  BY SeqMonotonic DEF ToldEntries
<1>2. PICK x : x = Record(c, v, h)
  OBVIOUS
<1>3. x \in Entered /\ x.commit = c /\ x.version = v /\ x.history = h
  BY <1>1, <1>2 DEF Record, Entered
<1>4. Told(x)
  BY <1>3 DEF Told
<1>5. QED
  BY <1>2, <1>3, <1>4 DEF ToldInsts, Insts

LEMMA CarriesIs ==
    ASSUME RecordInv, NEW r, NEW v, Carries(r, v)
    PROVE  r \in Revs /\ r \in 0..MaxRev /\ r # Unknown /\ r # 0 /\ v \in Nat
BY Constants DEF RecordInv, Carries, Unknown

\* A record that sync_installed_after_upgrade writes names the directory, or it writes none.
LEMMA UpgradeRecorded ==
    ASSUME RecordInv, job.inst \in ToldInsts, Carries(job.rev, job.version)
    PROVE  /\ SyncedAfterUpgrade \in ToldInsts
           /\ dep.path # job.rev => SyncedAfterUpgrade = inst
           /\ dep.path = job.rev => /\ SyncedAfterUpgrade.commit = dep.path
                                    /\ Carries(dep.path, SyncedAfterUpgrade.version)
<1>1. Record(job.rev, job.version, NextHistory(job.inst, job.rev)) \in ToldInsts
      /\ Record(job.rev, job.version, NextHistory(job.inst, job.rev)).commit = job.rev
      /\ Record(job.rev, job.version, NextHistory(job.inst, job.rev)).version = job.version
  BY ToldHistory, RecordTold, CarriesIs
<1>2. QED
  BY <1>1 DEF SyncedAfterUpgrade, RecordInv

\* A record that sync_installed_after_rollback writes has the version of the directory, and a
\* commit that has it too, or none.
LEMMA RollbackRecorded ==
    ASSUME LifecycleInv, RecordInv, job.inst \in ToldInsts
    PROVE  /\ SyncedAfterRollback \in ToldInsts
           /\ dep.path \in {0, job.was} => SyncedAfterRollback = inst
           /\ dep.path \notin {0, job.was} /\ dep.path \in OnDisk =>
                 Carries(dep.path, SyncedAfterRollback.version)
<1> DEFINE version == ManifestVersion(dep.path)
           past == job.inst.history
           hits == {i \in DOMAIN past : past[i].version = version}
           first == CHOOSE i \in hits : \A k \in hits : i <= k
           commit == IF hits = {} THEN Unknown ELSE past[first].commit
           history == IF hits = {} THEN past ELSE RemoveAt(past, first)
<1>1. past \in Seq(ToldEntries)
  BY ToldHistory
<1>2. version \in Nat /\ (dep.path \in OnDisk => Carries(dep.path, version))
  BY ManifestVersionIs, ManifestTold DEF LifecycleInv, LifecycleType
<1>3. hits # {} => first \in DOMAIN past /\ past[first].version = version
  <2>1. hits \in SUBSET DOMAIN past /\ \A i \in hits : past[i].version = version
    OBVIOUS
  <2> HIDE DEF hits
  <2>2. QED
    BY <1>1, <2>1, FirstHit
<1>4. hits # {} => past[first] \in ToldEntries
  <2> HIDE DEF first, hits, past
  <2>1. QED
    BY <1>1, <1>3, ElementOfSeq, LenProperties
<1>5. history \in Seq(ToldEntries)
  BY <1>1, <1>3, HistoryShrinks
<1>6. SyncedAfterRollback = IF dep.path \in {0, job.was} THEN inst ELSE Record(commit, version, history)
  BY DEF SyncedAfterRollback
<1>7. commit \in 0..MaxRev /\ (commit # Unknown => Carries(commit, version))
  <2>1. CASE hits = {}
    BY <2>1, Constants DEF Unknown
  <2>2. CASE hits # {}
    <3>1. commit = past[first].commit
      BY <2>2
    <3> HIDE DEF first, hits, past, version, commit
    <3>2. past[first].commit \in 0..MaxRev /\ Told(past[first]) /\ past[first].version = version
      BY <1>3, <1>4, <2>2 DEF ToldEntries, Entries
    <3>3. QED
      BY <3>1, <3>2 DEF Told
  <2>3. QED
    BY <2>1, <2>2
<1> HIDE DEF version, commit, history, hits, first, past
<1>8. /\ Record(commit, version, history) \in ToldInsts
      /\ Record(commit, version, history).version = version
  BY <1>2, <1>5, <1>7, RecordTold
<1>9. QED
  BY <1>2, <1>6, <1>8 DEF RecordInv

\* A step that leaves the files and the running job where they are.
LEMMA RecordStays ==
    ASSUME RecordInv, UNCHANGED <<snaps, carried, dep, inst, trouble, job, pc>>,
           queue' \in Seq(ToldJobs), ToldRequest'
    PROVE  RecordInv'
<1>1. JobIsTold'
  BY ToldKept DEF RecordInv, JobIsTold
<1>2. RecordIsOnItsWay'
  BY DEF RecordInv, RecordIsOnItsWay, Follows, Carries, OnDisk
<1>3. QED
  BY <1>1, <1>2, ToldKept DEF RecordInv, OnDisk

LEMMA NoJobTold == NoJob.op = "none" /\ NoJob.inst = NoEntry
BY DEF NoJob, NewJob

LEMMA NoRequestTold == NoRequest.inst = NoEntry /\ NoRequest.at = "none"
BY DEF NoRequest

LEMMA RecordInvRequests ==
    ASSUME LifecycleInv, RecordInv, Requests, Unswapped'
    PROVE  RecordInv'
<1>1. ASSUME NEW new, NEW step, Run(new, step), new.inst = NoEntry, new.op # "upgrade",
             step \in {"stage", "start", "stop", "refresh"}, step = "stage" => new.op = "install"
      PROVE  RecordInv'
  <2>1. carried' = carried
    BY <1>1 DEF Run
  <2>2. JobIsTold' /\ ToldRequest'
    BY <1>1, <2>1, ToldKept DEF Run, RecordInv, JobIsTold, ToldRequest, ToldJob
  <2>3. RecordIsOnItsWay'
    BY <1>1 DEF Run, RecordInv, RecordIsOnItsWay, Follows, Carries
  <2>4. QED
    BY <1>1, <2>1, <2>2, <2>3, ToldKept DEF Run, RecordInv, OnDisk
<1>2. ASSUME NEW new, Enqueue(new), new \in JobRecords(Waiting), ToldJob(new), req' = req \/ req' = NoRequest
      PROVE  RecordInv'
  <2>1. carried' = carried /\ Append(queue, new) \in Seq(ToldJobs)
    BY <1>2, AppendProperties DEF Enqueue, RecordInv, ToldJobs
  <2>2. queue' \in Seq(ToldJobs)
    BY <1>2, <2>1 DEF Enqueue
  <2>3. queue' \in Seq(ToldJobs')
    BY <2>1, <2>2, ToldKept
  <2>4. ToldRequest'
    BY <1>2, <2>1, ToldKept, NoRequestTold DEF RecordInv, ToldRequest
  <2>5. QED
    BY <1>2, <2>1, <2>2, <2>4, RecordStays DEF Enqueue
<1>3. \A op \in AllOps, b \in BOOLEAN : /\ NewJob(op).op = op /\ NewJob(op).inst = NoEntry
                                       /\ [NewJob(op) EXCEPT !.flag = b].op = op
                                       /\ [NewJob(op) EXCEPT !.flag = b].inst = NoEntry
  BY DEF NewJob
<1>4. ASSUME NEW b \in BOOLEAN, Install(b) \/ Stop(b) \/ Restart(b) \/ SaveConfig(b) PROVE RecordInv'
  <2>1. CASE Install(b)
    BY <1>1, <1>3, <2>1 DEF Install, AllOps
  <2>2. CASE Stop(b)
    BY <1>1, <1>3, <2>2 DEF Stop, AllOps
  <2>3. ASSUME NEW c \in BOOLEAN, Restart(c) PROVE RecordInv'
    BY <1>1, <1>3, <2>3 DEF Restart, AllOps
  <2>4. QED
    BY <1>4, <2>1, <2>2, <2>3 DEF SaveConfig
<1>5. CASE Start
  <2>1. NewJob("start").op = "start" /\ NewJob("start").inst = NoEntry
    BY DEF NewJob
  <2>2. QED
    BY <1>1, <1>5, <2>1 DEF Start
<1>6. CASE RemoveAddon
  BY <1>1, <1>3, <1>6 DEF RemoveAddon, AllOps
<1>7. CASE RefreshCatalog
  <2>1. NewJob("refresh").op = "refresh" /\ NewJob("refresh").inst = NoEntry
    BY DEF NewJob
  <2>2. QED
    BY <1>1, <1>7, <2>1 DEF RefreshCatalog
<1>8. CASE Uninstall
  <2>1. PICK new : new = [NewJob("uninstall") EXCEPT !.flag = inst # NoEntry]
    OBVIOUS
  <2>2. new \in JobRecords(Waiting) /\ new.op = "uninstall" /\ new.inst = NoEntry
    BY <2>1, Constants DEF NewJob, Waiting, JobRecords, Insts
  <2>3. ToldJob(new)
    BY <2>2, NoEntryTold DEF ToldJob
  <2>4. QED
    BY <1>2, <1>8, <2>1, <2>2, <2>3 DEF Uninstall
<1>9. CASE Rollback
  <2>1. PICK new : new = [NewJob("rollback") EXCEPT !.inst = inst, !.was = dep.path]
    OBVIOUS
  <2>2. new \in JobRecords(Waiting) /\ new.op = "rollback" /\ new.inst = inst
    BY <2>1, Constants DEF NewJob, Waiting, JobRecords, LifecycleInv, LifecycleType, DepOK
  <2>3. ToldJob(new)
    BY <2>2 DEF RecordInv, ToldJob
  <2>4. QED
    BY <1>2, <1>9, <2>1, <2>2, <2>3 DEF Rollback
<1>10. ASSUME NEW op \in {"plan", "upgrade"}, NEW r \in {0} \cup Revs, StageRequest(op, r) PROVE RecordInv'
  <2>1. head \in OnDisk => Carries(head, ManifestVersion(head))
    BY ManifestTold
  <2>2. UNCHANGED <<snaps, carried, dep, inst, trouble, job, pc, queue>>
    BY <1>10 DEF StageRequest
  <2>3. req'.inst = inst /\ (req'.at = "plan" => Carries(req'.rev, req'.version))
    BY <1>10, <2>1 DEF StageRequest
  <2>4. ToldRequest'
    BY <2>2, <2>3, ToldKept DEF RecordInv, ToldRequest
  <2>5. QED
    BY <2>2, <2>4, RecordStays DEF RecordInv
<1>11. CASE ArchiveRequest
  <2>1. CASE req' = NoRequest /\ UNCHANGED <<snaps, carried, trouble>>
    <3>1. ToldRequest'
      BY <2>1, ToldKept, NoRequestTold DEF ToldRequest
    <3>2. QED
      BY <1>11, <2>1, <3>1, RecordStays DEF RecordInv, ArchiveRequest
  <2>2. CASE Archive(req.rev) /\ req' = [req EXCEPT !.at = "plan", !.version = VersionOf[head]]
    <3>1. req.rev \in Revs /\ req \in RequestRecords
      BY <1>11, Constants DEF ArchiveRequest, LifecycleInv, LifecycleType, RequestRecords
    <3>2. /\ carried' \in [Revs -> Nat]
          /\ \A x \in Revs : carried[x] # 0 => carried'[x] = carried[x]
          /\ OnDisk \subseteq OnDisk'
          /\ \A x \in OnDisk' : VersionOf[snaps'[x].holds] = carried'[x]
          /\ carried'[req.rev] = VersionOf[head] /\ VersionOf[head] # 0
          /\ trouble' = trouble
      BY <2>2, <3>1, ArchiveTells
    <3>3. /\ \A r, v : Carries(r, v) => Carries(r, v)'
          /\ ToldInsts \subseteq ToldInsts'
          /\ \A j : ToldJob(j) => ToldJob(j)'
          /\ Seq(ToldJobs) \subseteq Seq(ToldJobs')
      BY <3>2, ToldStays
    <3>4. req'.inst = req.inst /\ req'.rev = req.rev /\ req'.version = VersionOf[head]
      BY <2>2, <3>1 DEF RequestRecords
    <3>5. ToldRequest'
      BY <3>1, <3>2, <3>3, <3>4 DEF ToldRequest, RecordInv, Carries
    <3>6. UNCHANGED <<dep, inst, queue, job, pc>>
      BY <1>11 DEF ArchiveRequest
    <3>7. JobIsTold'
      BY <3>3, <3>6 DEF JobIsTold, RecordInv
    <3>8. RecordIsOnItsWay'
      BY <3>2, <3>3, <3>6 DEF RecordIsOnItsWay, Follows, RecordInv
    <3>9. QED
      BY <3>2, <3>3, <3>5, <3>6, <3>7, <3>8 DEF RecordInv
  <2>3. QED
    BY <1>11, <2>1, <2>2 DEF ArchiveRequest
<1>12. CASE PlanAnswered
  <2>1. /\ snaps' = PruneAfter(snaps, dep, req.rev)
        /\ UNCHANGED <<carried, dep, inst, queue, job, pc>>
        /\ req' = NoRequest
        /\ "astray" \in trouble' <=> "astray" \in trouble
    BY <1>12 DEF PlanAnswered
  <2>2. /\ \A x \in OnDisk' : x \in OnDisk /\ snaps'[x].holds = snaps[x].holds
        /\ dep.path # 0 /\ dep.path \in OnDisk => dep.path \in OnDisk'
    BY <2>1, PruneAfterIs DEF OnDisk
  <2>3. JobIsTold' /\ ToldRequest'
    BY <2>1, ToldKept, NoRequestTold DEF RecordInv, JobIsTold, ToldRequest
  <2>4. RecordIsOnItsWay'
    BY <2>1, <2>2 DEF RecordInv, RecordIsOnItsWay, Follows, Carries
  <2>5. QED
    BY <2>1, <2>2, <2>3, <2>4, ToldKept DEF RecordInv
<1>13. CASE UpgradeAnswered
  <2>1. PICK new : new = [NewJob("upgrade") EXCEPT !.rev = req.rev, !.version = req.version,
                                                   !.inst = req.inst, !.was = dep.path]
    OBVIOUS
  <2>2. new \in JobRecords(Waiting) /\ new.inst = req.inst /\ new.rev = req.rev /\ new.version = req.version
    BY <2>1, Constants DEF NewJob, Waiting, JobRecords, LifecycleInv, LifecycleType, DepOK, RequestRecords
  <2>3. ToldJob(new)
    BY <1>13, <2>2 DEF UpgradeAnswered, RecordInv, ToldJob, ToldRequest
  <2>4. QED
    BY <1>2, <1>13, <2>1, <2>2, <2>3 DEF UpgradeAnswered
<1>14. CASE PlanRefused
  <2>1. ToldRequest'
    BY <1>14, ToldKept, NoRequestTold DEF PlanRefused, ToldRequest
  <2>2. QED
    BY <1>14, <2>1, RecordStays DEF PlanRefused, RecordInv
<1>15. QED
  BY <1>4, <1>5, <1>6, <1>7, <1>8, <1>9, <1>10, <1>11, <1>12, <1>13, <1>14 DEF Requests

LEMMA RunStopGoesOn ==
    ASSUME LifecycleInv, RunStop
    PROVE  /\ UNCHANGED <<snaps, carried, dep, inst, queue, req, trouble>> /\ pc = "stop"
           /\ pc' \in {"idle", "start", "remove"} /\ (job' = job \/ (job' = NoJob /\ pc' = "idle"))
<1>1. job.op \in {"stop", "restart", "remove"}
  BY DEF RunStop, LifecycleInv, LifecycleType
<1>2. QED
  BY <1>1 DEF RunStop, Finish, GoOn

\* A step that writes no directory leaves the job and the request with what they were told.
LEMMA JobStaysTold ==
    ASSUME RecordInv, carried' = carried, req' = req, job' = job \/ (job' = NoJob /\ pc' = "idle"),
           pc' \in {"upgrade", "switch", "settle"} => pc \in {"upgrade", "switch", "settle"},
           pc' \in {"stage", "archive"} => pc \in {"stage", "archive"},
           pc' = "install" => pc = "install"
    PROVE  JobIsTold' /\ ToldRequest'
<1>1. ToldRequest'
  BY ToldKept DEF RecordInv, ToldRequest
<1>2. CASE job' = job
  <2>1. ToldJob(job)' /\ (Carries(job.rev, job.version) => Carries(job.rev, job.version)')
    <3>1. PICK j : j = job
      OBVIOUS
    <3>2. ToldJob(j)' /\ (Carries(j.rev, j.version) => Carries(j.rev, j.version)')
      BY <3>1, ToldKept DEF RecordInv, JobIsTold
    <3>3. QED
      BY <1>2, <3>1, <3>2
  <2>2. /\ pc' \in {"upgrade", "switch", "settle"} => job'.op = "upgrade"
        /\ pc' \in {"stage", "archive", "install"} => job'.op = "install"
        /\ pc' = "install" => Carries(job.rev, job.version)
    BY <1>2 DEF RecordInv, JobIsTold
  <2>3. QED
    BY <1>1, <1>2, <2>1, <2>2 DEF JobIsTold
<1>3. CASE job' = NoJob /\ pc' = "idle"
  <2>1. job'.op = "none" /\ job'.inst \in ToldInsts'
    BY <1>3, ToldKept, NoJobTold
  <2>2. QED
    BY <1>1, <1>3, <2>1 DEF JobIsTold, ToldJob
<1>4. QED
  BY <1>1, <1>2, <1>3

LEMMA RecordInvJobs ==
    ASSUME LifecycleInv, RecordInv, Jobs, Unswapped'
    PROVE  RecordInv'
\* A step of a job that leaves the snapshots and the registration alone and ends it or goes on.
<1>2. ASSUME UNCHANGED <<snaps, carried, dep, inst, queue, req, trouble>>,
             pc \notin {"settle", "unwind"},
             pc' \in {"idle", "start", "remove"}, job' = job \/ (job' = NoJob /\ pc' = "idle")
      PROVE  RecordInv'
  <2>1. JobIsTold' /\ ToldRequest'
    BY <1>2, JobStaysTold
  <2>2. RecordIsOnItsWay'
    BY <1>2 DEF RecordInv, RecordIsOnItsWay, Follows, Carries
  <2>3. QED
    BY <1>2, <2>1, <2>2, ToldKept DEF RecordInv, OnDisk
<1>3. CASE TakeJob
  <2>1. Head(queue) \in ToldJobs /\ Tail(queue) \in Seq(ToldJobs)
    BY <1>3 DEF TakeJob, RecordInv
  <2>2. Head(queue).op \in Waiting /\ ToldJob(Head(queue))
    BY <2>1 DEF JobRecords, ToldJobs
  <2>3. JobIsTold' /\ ToldRequest'
    BY <1>3, <2>2, ToldKept DEF TakeJob, RecordInv, JobIsTold, Waiting, ToldRequest
  <2>4. RecordIsOnItsWay'
    BY <1>3, <2>2 DEF TakeJob, RecordInv, RecordIsOnItsWay, IsStale, Waiting, Follows, Carries
  <2>5. QED
    BY <1>3, <2>1, <2>3, <2>4, ToldKept DEF TakeJob, RecordInv, OnDisk
<1>4. CASE Fails \/ RunStart \/ RunStop
  BY <1>2, <1>4, RunStopGoesOn DEF Fails, Finish, RunStart
<1>5. CASE Refresh
  BY <1>2, <1>5 DEF Refresh, Finish
<1>6. CASE StageInstall
  <2>1. carried' = carried /\ (head \in OnDisk => Carries(head, ManifestVersion(head)))
    BY <1>6, ManifestTold DEF StageInstall
  <2>2. /\ job'.op = "install" /\ job'.inst = job.inst /\ job'.rev = head
        /\ job'.version = ManifestVersion(head)
    BY <1>6 DEF StageInstall, RecordInv, JobIsTold, LifecycleInv, LifecycleType, JobRecords
  <2>3. pc' = "install" => Carries(job'.rev, job'.version)
    BY <1>6, <2>1, <2>2 DEF StageInstall
  <2>4. JobIsTold' /\ ToldRequest'
    BY <1>6, <2>1, <2>2, <2>3, ToldKept DEF StageInstall, RecordInv, JobIsTold, ToldJob, ToldRequest
  <2>5. RecordIsOnItsWay'
    BY <1>6 DEF StageInstall, RecordInv, RecordIsOnItsWay, Follows, Carries
  <2>6. QED
    BY <1>6, <2>4, <2>5, ToldKept DEF StageInstall, RecordInv, OnDisk
<1>7. CASE ArchiveInstall
  <2>1. job.rev \in Revs /\ Archive(job.rev)
    BY <1>7, Constants DEF ArchiveInstall, LifecycleInv, LifecycleType, JobRecords
  <2>2. /\ carried' \in [Revs -> Nat]
        /\ \A x \in Revs : carried[x] # 0 => carried'[x] = carried[x]
        /\ OnDisk \subseteq OnDisk'
        /\ \A x \in OnDisk' : VersionOf[snaps'[x].holds] = carried'[x]
        /\ carried'[job.rev] = VersionOf[head] /\ VersionOf[head] # 0
        /\ trouble' = trouble
    BY <2>1, ArchiveTells
  <2>3. /\ \A r, v : Carries(r, v) => Carries(r, v)'
        /\ ToldInsts \subseteq ToldInsts'
        /\ Seq(ToldJobs) \subseteq Seq(ToldJobs')
    BY <2>2, ToldStays
  <2>4. job'.op = "install" /\ job'.inst = job.inst /\ job'.rev = job.rev /\ job'.version = VersionOf[head]
    BY <1>7 DEF ArchiveInstall, RecordInv, JobIsTold, LifecycleInv, LifecycleType, JobRecords
  <2>5. JobIsTold' /\ ToldRequest'
    BY <1>7, <2>1, <2>2, <2>3, <2>4 DEF ArchiveInstall, RecordInv, JobIsTold, ToldJob, ToldRequest, Carries
  <2>6. RecordIsOnItsWay'
    BY <1>7, <2>2, <2>3 DEF ArchiveInstall, RecordInv, RecordIsOnItsWay, Follows
  <2>7. QED
    BY <1>7, <2>2, <2>3, <2>5, <2>6 DEF ArchiveInstall, RecordInv
<1>8. CASE RunInstall
  <2>1. /\ JobIsTold' /\ ToldRequest' /\ pc' \in {"idle", "start"}
        /\ queue' \in Seq(ToldJobs') /\ carried' = carried /\ carried' \in [Revs -> Nat]
    <3>1. /\ carried' = carried /\ queue' = queue /\ req' = req /\ pc' \in {"idle", "start"}
          /\ job' = job \/ (job' = NoJob /\ pc' = "idle")
      BY <1>8 DEF RunInstall, Finish, GoOn
    <3>2. QED
      BY <3>1, JobStaysTold, ToldKept DEF RecordInv
  <2>2. CASE UNCHANGED <<files, trouble>>
    <3>1. RecordIsOnItsWay'
      BY <1>8, <2>1, <2>2 DEF RunInstall, RecordInv, RecordIsOnItsWay, Follows, Carries, files
    <3>2. QED
      BY <2>1, <2>2, <3>1, ToldKept DEF RecordInv, OnDisk, files
  <2>3. CASE trouble' = trouble \cup {"astray"} /\ UNCHANGED <<snaps, inst>>
    <3>1. RecordIsOnItsWay'
      BY <2>3 DEF RecordIsOnItsWay
    <3>2. QED
      BY <2>1, <2>3, <3>1, ToldKept DEF RecordInv, OnDisk
  <2>4. CASE /\ job.rev \in OnDisk /\ dep' \in Registered(job.rev)
             /\ inst' = Record(job.rev, job.version, NextHistory(inst, job.rev))
             /\ snaps' = PruneAfter(snaps, dep', 0)
    <3>1. Carries(job.rev, job.version)
      BY <1>8 DEF RunInstall, RecordInv, JobIsTold
    <3>2. dep'.path = job.rev /\ job.rev # 0
      BY <2>4, <3>1, CarriesIs DEF Registered
    <3>3. inst' \in ToldInsts /\ inst'.commit = job.rev /\ inst'.version = job.version
      BY <2>4, <3>1, CarriesIs, RecordTold, ToldHistory DEF RecordInv
    <3>4. RecordIsOnItsWay'
      BY <2>1, <3>1, <3>2, <3>3, ToldKept DEF RecordIsOnItsWay, Follows
    <3>5. \A x \in OnDisk' : x \in OnDisk /\ snaps'[x].holds = snaps[x].holds
      BY <2>4, PruneAfterIs DEF OnDisk
    <3>6. QED
      BY <2>1, <3>3, <3>4, <3>5, ToldKept DEF RecordInv
  <2>5. QED
    BY <1>8, <2>2, <2>3, <2>4 DEF RunInstall
<1>9. CASE RunRemove
  <2>1. dep'.path = dep.path /\ dep'.previous = dep.previous
    BY <1>9, DepMoves DEF RunRemove, LifecycleInv, LifecycleType
  <2>2. JobIsTold' /\ ToldRequest'
    BY <1>9, JobStaysTold DEF RunRemove, Finish
  <2>3. RecordIsOnItsWay'
    BY <1>9, <2>1 DEF RunRemove, Finish, RecordInv, RecordIsOnItsWay, Follows, Carries
  <2>4. QED
    BY <1>9, <2>2, <2>3, ToldKept DEF RunRemove, RecordInv, OnDisk
<1>10. CASE RunUninstall
  <2>1. dep'.path = 0 /\ inst' = NoEntry
    BY <1>10 DEF RunUninstall, NotRegistered
  <2>2. JobIsTold' /\ ToldRequest'
    BY <1>10, JobStaysTold DEF RunUninstall, Finish
  <2>3. RecordIsOnItsWay'
    BY <1>10, <2>1 DEF RunUninstall, Finish, RecordIsOnItsWay, Follows
  <2>4. \A x \in OnDisk' : x \in OnDisk /\ snaps'[x].holds = snaps[x].holds
    BY <1>10, PrunedIs DEF RunUninstall, OnDisk
  <2>5. QED
    BY <1>10, <2>1, <2>2, <2>3, <2>4, ToldKept DEF RunUninstall, RecordInv
<1>11. CASE BeginUpgrade
  <2>1. JobIsTold' /\ ToldRequest'
    BY <1>11, JobStaysTold DEF BeginUpgrade, GoOn
  <2>2. RecordIsOnItsWay'
    BY <1>11 DEF BeginUpgrade, GoOn, RecordInv, RecordIsOnItsWay, Follows, Carries
  <2>3. QED
    BY <1>11, <2>1, <2>2, ToldKept DEF BeginUpgrade, RecordInv, OnDisk
<1>12. CASE SwitchUpgrade
  <2>1. JobIsTold' /\ ToldRequest'
    BY <1>12, JobStaysTold DEF SwitchUpgrade, GoOn
  <2>2. dep' = dep \/ dep'.path = job.rev
    BY <1>12 DEF SwitchUpgrade, LifecycleInv, LifecycleType, DepOK
  <2>3. RecordIsOnItsWay'
    BY <1>12, <2>2 DEF SwitchUpgrade, GoOn, RecordInv, RecordIsOnItsWay, Follows, Carries
  <2>4. QED
    BY <1>12, <2>1, <2>3, ToldKept DEF SwitchUpgrade, RecordInv, OnDisk
<1>13. CASE SettleUpgrade
  <2>1. JobIsTold' /\ ToldRequest' /\ carried' = carried
    BY <1>13, JobStaysTold DEF SettleUpgrade, Finish
  <2>2. job.inst \in ToldInsts /\ Carries(job.rev, job.version)
    BY <1>13 DEF SettleUpgrade, RecordInv, JobIsTold, ToldJob
  <2>3. /\ inst' \in ToldInsts
        /\ dep.path # job.rev => inst' = inst
        /\ dep.path = job.rev => inst'.commit = dep.path /\ Carries(dep.path, inst'.version)
    BY <1>13, <2>2, UpgradeRecorded DEF SettleUpgrade
  <2>4. RecordIsOnItsWay'
    <3>1. dep' = dep /\ pc = "settle" /\ pc' = "idle" /\ trouble' = trouble /\ job.rev # 0
      BY <1>13, <2>2, CarriesIs DEF SettleUpgrade, Finish
    <3>2. "astray" \notin trouble => IF dep.path = job.rev
               THEN inst'.commit = dep.path /\ Carries(dep.path, inst'.version)
               ELSE inst' = inst /\ Follows
      BY <2>3, <3>1 DEF RecordInv, RecordIsOnItsWay
    <3>3. QED
      BY <2>1, <3>1, <3>2, ToldKept DEF RecordIsOnItsWay, Follows
  <2>5. \A x \in OnDisk' : x \in OnDisk /\ snaps'[x].holds = snaps[x].holds
    BY <1>13, PruneAfterIs DEF SettleUpgrade, OnDisk
  <2>6. QED
    BY <1>13, <2>1, <2>3, <2>4, <2>5, ToldKept DEF SettleUpgrade, RecordInv
<1>14. CASE RunRollback
  <2>1. JobIsTold' /\ ToldRequest'
    BY <1>14, JobStaysTold DEF RunRollback, GoOn
  <2>2. \/ dep' = dep
        \/ /\ dep'.path = dep.previous /\ dep'.previous = 0
           /\ dep.previous \in OnDisk /\ dep.previous # 0 /\ dep.previous # dep.path
    BY <1>14 DEF RunRollback, LifecycleInv, LifecycleType, DepOK
  <2>3. RecordIsOnItsWay'
    BY <1>14, <2>2 DEF RunRollback, GoOn, RecordInv, RecordIsOnItsWay, Follows, Carries, OnDisk
  <2>4. QED
    BY <1>14, <2>1, <2>3, ToldKept DEF RunRollback, RecordInv, OnDisk
<1>15. CASE SettleRollback
  <2>1. JobIsTold' /\ ToldRequest' /\ job.inst \in ToldInsts /\ carried' = carried
    BY <1>15, JobStaysTold DEF SettleRollback, Finish, RecordInv, JobIsTold, ToldJob
  <2>2. /\ inst' \in ToldInsts
        /\ dep.path \in {0, job.was} => inst' = inst
        /\ dep.path \notin {0, job.was} /\ dep.path \in OnDisk => Carries(dep.path, inst'.version)
    BY <1>15, <2>1, RollbackRecorded DEF SettleRollback
  <2>3. RecordIsOnItsWay'
    <3>1. dep' = dep /\ pc = "unwind" /\ pc' = "idle" /\ trouble' = trouble
      BY <1>15 DEF SettleRollback, Finish
    <3>2. "astray" \notin trouble => IF dep.path \in {0, job.was} THEN inst' = inst /\ Follows
               ELSE dep.previous = 0 /\ Carries(dep.path, inst'.version)
      BY <2>2, <3>1 DEF RecordInv, RecordIsOnItsWay
    <3>3. QED
      BY <2>1, <3>1, <3>2, ToldKept DEF RecordIsOnItsWay, Follows
  <2>4. \A x \in OnDisk' : x \in OnDisk /\ snaps'[x].holds = snaps[x].holds
    BY <1>15, PruneAfterIs DEF SettleRollback, OnDisk
  <2>5. QED
    BY <1>15, <2>1, <2>2, <2>3, <2>4, ToldKept DEF SettleRollback, RecordInv
<1>16. QED
  BY <1>3, <1>4, <1>5, <1>6, <1>7, <1>8, <1>9, <1>10, <1>11, <1>12, <1>13, <1>14, <1>15 DEF Jobs

LEMMA RecordInvDie ==
    ASSUME RecordInv, Die
    PROVE  RecordInv'
<1>1. queue' \in Seq(ToldJobs') /\ carried' = carried
  BY DEF Die
<1>2. JobIsTold' /\ ToldRequest'
  BY <1>1, ToldKept, NoJobTold, NoRequestTold DEF Die, JobIsTold, ToldJob, ToldRequest
<1>3. RecordIsOnItsWay'
  BY DEF Die, RecordInv, RecordIsOnItsWay, Follows, Carries
<1>4. QED
  BY <1>1, <1>2, <1>3, ToldKept DEF Die, RecordInv, OnDisk

LEMMA RecordInvInit == Init => RecordInv
<1> SUFFICES ASSUME Init PROVE RecordInv
  OBVIOUS
<1>1. OnDisk = {} /\ queue \in Seq(ToldJobs) /\ carried \in [Revs -> Nat]
  BY DEF Init, OnDisk
<1>2. JobIsTold /\ ToldRequest /\ inst \in ToldInsts
  BY NoJobTold, NoRequestTold, NoEntryTold DEF Init, JobIsTold, ToldJob, ToldRequest
<1>3. RecordIsOnItsWay
  BY DEF Init, RecordIsOnItsWay, Follows, NotRegistered
<1>4. QED
  BY <1>1, <1>2, <1>3 DEF RecordInv

LEMMA TroubleGrows ==
    ASSUME Next
    PROVE  trouble \subseteq trouble'
<1>1. CASE Requests
  <2>1. CASE ArchiveRequest \/ PlanAnswered
    BY <2>1 DEF ArchiveRequest, Archive, PlanAnswered
  <2>2. CASE \E b \in BOOLEAN : Install(b) \/ Stop(b) \/ Restart(b) \/ SaveConfig(b)
    BY <2>2 DEF Install, Stop, Restart, SaveConfig, Run
  <2>3. CASE Start \/ RemoveAddon \/ Uninstall \/ Rollback \/ RefreshCatalog
    BY <2>3 DEF Start, RemoveAddon, Uninstall, Rollback, RefreshCatalog, Run, Enqueue
  <2>4. CASE \E op \in {"plan", "upgrade"}, r \in {0} \cup Revs : StageRequest(op, r)
    BY <2>4 DEF StageRequest
  <2>5. CASE UpgradeAnswered \/ PlanRefused
    BY <2>5 DEF UpgradeAnswered, PlanRefused, Enqueue
  <2>6. QED
    BY <1>1, <2>1, <2>2, <2>3, <2>4, <2>5 DEF Requests
<1>2. CASE Jobs
  <2>1. CASE TakeJob \/ Fails \/ Refresh \/ StageInstall
    BY <2>1 DEF TakeJob, Fails, Refresh, StageInstall
  <2>2. CASE ArchiveInstall \/ RunInstall
    BY <2>2 DEF ArchiveInstall, Archive, RunInstall
  <2>3. CASE RunStart \/ RunStop \/ RunRemove \/ RunUninstall
    BY <2>3 DEF RunStart, RunStop, RunRemove, RunUninstall
  <2>4. CASE BeginUpgrade \/ SwitchUpgrade \/ SettleUpgrade \/ RunRollback \/ SettleRollback
    BY <2>4 DEF BeginUpgrade, SwitchUpgrade, SettleUpgrade, RunRollback, SettleRollback
  <2>5. QED
    BY <1>2, <2>1, <2>2, <2>3, <2>4 DEF Jobs
<1>3. CASE Die
  BY <1>3 DEF Die
<1>4. QED
  BY <1>1, <1>2, <1>3 DEF Next

\* What holds of the record while no directory was written twice with different versions.
RecordHolds == Unswapped => RecordInv

LEMMA RecordHoldsStep == LifecycleInv /\ RecordHolds /\ [Next]_vars => RecordHolds'
<1> SUFFICES ASSUME LifecycleInv, RecordHolds, [Next]_vars, Unswapped' PROVE RecordInv'
  BY DEF RecordHolds
<1>1. CASE UNCHANGED vars
  <2>1. RecordInv /\ UNCHANGED <<carried, req, queue>>
    BY <1>1 DEF vars, RecordHolds, Unswapped
  <2>2. ToldRequest' /\ queue' \in Seq(ToldJobs)
    BY <2>1, ToldKept DEF RecordInv, ToldRequest
  <2>3. QED
    BY <1>1, <2>1, <2>2, RecordStays DEF vars
<1>2. CASE Next
  <2>1. trouble \subseteq trouble'
    BY <1>2, TroubleGrows
  <2>2. RecordInv
    BY <2>1 DEF RecordHolds, Unswapped
  <2>3. QED
    BY <1>2, <2>2, RecordInvRequests, RecordInvJobs, RecordInvDie DEF Next
<1>3. QED
  BY <1>1, <1>2

LEMMA RecordTells == LifecycleInv /\ RecordHolds => RecordFollowsRegistration
<1> SUFFICES ASSUME LifecycleInv, RecordInv, pc \notin {"settle", "unwind"}, "astray" \notin trouble, dep.path # 0
             PROVE  /\ dep.path \in OnDisk => inst.version = ManifestVersion(dep.path)
                    /\ \/ inst.commit = dep.path
                       \/ /\ dep.previous = 0
                          /\ inst.commit = Unknown \/ carried[inst.commit] = inst.version
  BY DEF RecordFollowsRegistration, RecordHolds, Unswapped, RecordInv, RecordIsOnItsWay, Follows
<1>1. Carries(dep.path, inst.version) /\ (inst.commit = dep.path \/ dep.previous = 0)
  BY DEF RecordInv, RecordIsOnItsWay, Follows
<1>2. dep.path \in OnDisk => inst.version = ManifestVersion(dep.path)
  BY <1>1, ManifestTold DEF Carries
<1>3. inst # NoEntry
  BY <1>1 DEF Carries, NoEntry
<1>4. inst.commit = Unknown \/ carried[inst.commit] = inst.version
  BY <1>3 DEF RecordInv, ToldInsts, Told, Carries
<1>5. QED
  BY <1>1, <1>2, <1>4

\* installed.yaml has the version of the directory deployment.yaml registers whenever no job is at
\* work on either, and its commit but after a rollback: the two syncs of the jobs read the
\* registration, not the exit status. HEAD may move at any time, and versions may repeat.
THEOREM RecordFollowsRegistrationAlways == Spec => []RecordFollowsRegistration
<1>1. Init => RecordHolds
  BY RecordInvInit DEF RecordHolds
<1>2. QED
  BY <1>1, RecordHoldsStep, RecordTells, LifecycleInvAlways, PTL DEF Spec

-----------------------------------------------------------------------------
(* The core's upgrade: the run                                             *)

Words == {"backup", "stop", "checkout", "migrations", "nomigrations", "render", "start", "banner",
          "provisioning", "recovery", "complete", "cleanup", "cleanup_skipped", "cleanup_finished"}
RunnerStates == {"none", "running", "complete", "cleaning", "ok", "failed"}
Containers == [run : Nat, target : 0..Newest, image : 0..Newest, clean : BOOLEAN, backup : BOOLEAN,
               step : 0..6, open : BOOLEAN, state : RunnerStates]
Checks == [current : 0..Newest, target : 0..Newest, gate : {"ok", "error", "incompatible"}]
Polls == [run : Nat, running : BOOLEAN, ok : BOOLEAN]

\* The shape of the state.
UpgradeTypes ==
    /\ recorded \in Releases /\ checkout \in Releases
    /\ cached \in Checks /\ runner \in Containers /\ poll \in Polls /\ runs \in Nat
    /\ alive \in BOOLEAN /\ stack \in 0..Newest

\* The run has printed its completion marker.
Finished == {"complete", "cleaning", "ok"}

\* Where the run is between what it has done and what it has recorded. A check is of the release
\* that is recorded, because the run stops the manager before it records another.
RunHolds ==
    /\ cached # NoCheck => cached.current = recorded /\ cached.target # 0
    /\ ~alive => cached = NoCheck /\ poll = NoPoll
    /\ runner.state = "none" => runner = NoRunner
    /\ runner.state # "none" => runner.target # 0 /\ runner.run # 0
    /\ runner.run <= runs
    /\ runner.open => runner.step # 0
    /\ runner.state # "none" /\ recorded = runner.target => checkout = recorded
    /\ runner.state = "running" /\ (runner.step > 3 \/ (runner.step = 3 /\ ~runner.open)) => checkout = runner.target
    /\ runner.state = "running" /\ (runner.step > 5 \/ (runner.step = 5 /\ ~runner.open)) => checkout = recorded
    /\ runner.state \in Finished => checkout = recorded /\ runner.step = 6 /\ ~runner.open
    /\ runner.state = "running" /\ (runner.step > 2 \/ (runner.step = 2 /\ ~runner.open))
       /\ (runner.step < 6 \/ runner.open) => ~alive

\* What a panel has read of a container stays so: it does not run again.
PollHolds ==
    /\ poll # NoPoll => poll.run # 0 /\ poll.run <= runs
    /\ Polled /\ ~poll.running => ~IsRunning
    /\ Polled /\ poll.ok => Succeeded

\* What the run and the panel rely on.
RunInv == UpgradeTypes /\ RunHolds /\ PollHolds

\* The phases by their numbers.
LEMMA OrderIs ==
    /\ DOMAIN Order = 1..6 /\ Len(Order) = 6
    /\ Order[1] = "backup" /\ Order[2] = "stop" /\ Order[3] = "checkout"
    /\ Order[4] = "migrations" /\ Order[5] = "render" /\ Order[6] = "start"
BY DEF Order

\* The newest of some releases is one of them.
LEMMA NewestIsOne ==
    ASSUME NEW ts \in SUBSET Releases, ts # {}
    PROVE  (CHOOSE t \in ts : \A o \in ts : o <= t) \in ts
<1>1. Newest \in Nat /\ \A t \in ts : t \in 1..Newest
  BY UpgradeConstants DEF Releases
<1>2. PICK back : back = {d \in Nat : \E t \in ts : d = Newest - t}
  OBVIOUS
<1>3. back \in SUBSET Nat /\ back # {}
  BY <1>1, <1>2
<1>4. PICK d \in back : \A c \in back : d <= c
  BY <1>3, Smallest
<1>5. PICK t \in ts : d = Newest - t
  BY <1>2, <1>4
<1>6. ASSUME NEW o \in ts PROVE o <= t
  <2>1. Newest - o \in back
    BY <1>1, <1>2
  <2>2. d <= Newest - o
    BY <1>4, <2>1
  <2>3. QED
    BY <1>1, <1>5, <2>2
<1>7. QED
  BY <1>5, <1>6

\* What papaia-ctl resolves is a release, or a refusal.
LEMMA ResolveFinds ==
    ASSUME NEW want \in {0} \cup Releases, NEW ts \in SUBSET Releases, NEW current \in Releases
    PROVE  Resolve(want, ts, current) \in {0} \cup Releases
<1> DEFINE newer == NewerThan(ts, current)
<1>1. newer \in SUBSET Releases
  BY DEF NewerThan
<1>2. CASE want # 0
  BY <1>1, <1>2 DEF Resolve
<1>3. CASE want = 0 /\ newer = {}
  BY <1>3 DEF Resolve
<1>4. CASE want = 0 /\ newer # {}
  BY <1>1, <1>4, NewestIsOne DEF Resolve
<1>5. QED
  BY <1>2, <1>3, <1>4

\* A step that touches none of this.
LEMMA RunStays ==
    ASSUME RunInv, UNCHANGED <<deployed, alive, cached, runner, poll, runs>>
    PROVE  RunInv'
<1>1. UpgradeTypes'
  BY DEF RunInv, UpgradeTypes, deployed
<1>2. RunHolds'
  BY DEF RunInv, RunHolds, deployed
<1>3. PollHolds'
  BY DEF RunInv, PollHolds, Polled, IsRunning, Succeeded
<1>4. QED
  BY <1>1, <1>2, <1>3 DEF RunInv

\* A check is of the recorded release, and finds one.
LEMMA RunCheckKeeps ==
    ASSUME RunInv, NEW want \in {0} \cup Releases, RunCheck(want)
    PROVE  RunInv'
<1>1. UpgradeTypes /\ alive /\ UNCHANGED <<recorded, checkout, stack, alive, runner, poll, runs>>
  BY DEF RunInv, RunCheck, deployed
<1>2. CurrentVersion = recorded
  BY <1>1, UpgradeConstants DEF UpgradeTypes, CurrentVersion, Releases
<1>3. cached' \in Checks /\ (cached' # NoCheck => cached'.current = recorded /\ cached'.target # 0)
  <2>1. CASE cached' = cached
    BY <1>1, <2>1 DEF RunInv, RunHolds, UpgradeTypes
  <2>2. ASSUME NEW target \in {Resolve(want, ts, recorded) : ts \in Fetched} \ {0},
               NEW gate \in Verdicts(target, recorded),
               cached' = [current |-> recorded, target |-> target, gate |-> gate]
        PROVE  cached' \in Checks /\ cached'.current = recorded /\ cached'.target # 0
    <3>1. PICK ts \in SUBSET Releases : target = Resolve(want, ts, recorded)
      BY <2>2 DEF Fetched
    <3>2. target \in Releases
      BY <1>1, <2>2, <3>1, ResolveFinds DEF UpgradeTypes
    <3>3. gate \in {"ok", "error", "incompatible"}
      BY <2>2 DEF Verdicts, Gate
    <3>4. target \in 0..Newest /\ recorded \in 0..Newest
      BY <1>1, <3>2, UpgradeConstants DEF UpgradeTypes, Releases
    <3>5. QED
      BY <2>2, <3>3, <3>4 DEF Checks
  <2>3. QED
    BY <1>2, <2>1, <2>2 DEF RunCheck
<1>4. UpgradeTypes'
  BY <1>1, <1>3 DEF UpgradeTypes
<1>5. RunHolds'
  BY <1>1, <1>3 DEF RunInv, RunHolds
<1>6. PollHolds'
  BY <1>1 DEF RunInv, PollHolds, Polled, IsRunning, Succeeded
<1>7. QED
  BY <1>4, <1>5, <1>6 DEF RunInv

\* The container is launched for a release that is not the recorded one.
LEMMA StartUpgradeKeeps ==
    ASSUME RunInv, NEW force \in BOOLEAN, NEW backup \in BOOLEAN, NEW clean \in BOOLEAN,
           StartUpgrade(force, backup, clean)
    PROVE  RunInv'
<1>1. /\ alive /\ runner = NoRunner /\ cached # NoCheck /\ cached.target # cached.current
      /\ runs' = runs + 1 /\ cached' = NoCheck /\ runner' = Launch(cached.target, backup, clean)
      /\ UNCHANGED <<recorded, checkout, stack, alive, poll>>
  BY DEF StartUpgrade, deployed
<1>2. runner' = [run |-> runs + 1, target |-> cached.target, image |-> stack, clean |-> clean,
                 backup |-> backup, step |-> 0, open |-> FALSE, state |-> "running"]
  BY <1>1 DEF Launch, NoRunner
<1>3. UpgradeTypes /\ cached.target \in 0..Newest /\ cached.target # 0 /\ cached.current = recorded
  BY <1>1 DEF RunInv, RunHolds, UpgradeTypes, Checks
<1>4. UpgradeTypes'
  <2>1. runner' \in Containers
    BY <1>2, <1>3 DEF UpgradeTypes, Containers, RunnerStates
  <2>2. NoCheck \in Checks
    BY UpgradeConstants DEF NoCheck, Checks
  <2>3. QED
    BY <1>1, <1>3, <2>1, <2>2 DEF UpgradeTypes
<1>5. RunHolds'
  BY <1>1, <1>2, <1>3 DEF RunHolds, UpgradeTypes, Finished
<1>6. PollHolds'
  <2>1. poll # NoPoll => poll.run # 0 /\ poll.run <= runs /\ poll.run \in Nat
    BY DEF RunInv, PollHolds, UpgradeTypes, Polls
  <2>2. ~Polled'
    BY <1>1, <1>2, <1>3, <2>1 DEF Polled, UpgradeTypes
  <2>3. QED
    BY <1>1, <1>3, <2>1, <2>2 DEF PollHolds, UpgradeTypes
<1>7. QED
  BY <1>4, <1>5, <1>6 DEF RunInv

\* What the run leaves: the check, the panel's reading and the release, while its own record moves.
LEMMA RunnerMoves ==
    ASSUME RunInv, runner' \in Containers, runner'.run = runner.run, runner'.target = runner.target,
           UNCHANGED <<deployed, alive, cached, poll, runs>>,
           runner.state # "none", runner'.state # "none",
           IsRunning' => IsRunning, Succeeded => Succeeded'
    PROVE  UpgradeTypes' /\ PollHolds'
<1>1. UpgradeTypes'
  BY DEF RunInv, UpgradeTypes, deployed
<1>2. PollHolds'
  BY DEF RunInv, PollHolds, Polled
<1>3. QED
  BY <1>1, <1>2

\* A phase begins after the one before it is over.
LEMMA BeginKeeps ==
    ASSUME RunInv, Begin
    PROVE  RunInv'
<1>1. /\ runner.state = "running" /\ ~runner.open /\ NextStep \in 1..6
      /\ UNCHANGED <<deployed, alive, cached, poll, runs>>
  BY OrderIs DEF Begin, Steps
<1>2. runner \in Containers
  BY DEF RunInv, UpgradeTypes
<1>3. PICK r \in Containers : r = [runner EXCEPT !.step = NextStep, !.open = TRUE]
  <2>1. \A k \in 0..6 : [runner EXCEPT !.step = k, !.open = TRUE] \in Containers
    BY <1>2 DEF Containers
  <2>2. NextStep \in 0..6
    BY <1>1
  <2>3. QED
    BY <2>1, <2>2
<1>4. /\ r.step = NextStep /\ r.open /\ r.state = "running" /\ r.run = runner.run /\ r.target = runner.target
  BY <1>1, <1>2, <1>3 DEF Containers
<1>5. runner' = r
  BY <1>3 DEF Begin
<1>6. UpgradeTypes' /\ PollHolds'
  BY <1>1, <1>4, <1>5, RunnerMoves DEF IsRunning, Succeeded
<1>7. runner.step \in 0..6 /\ (NextStep = runner.step + 1 \/ (runner.step = 0 /\ NextStep = 2))
  BY <1>2 DEF NextStep, Containers
<1>8. RunHolds'
  <2>1. UNCHANGED <<recorded, checkout, alive, cached, poll, runs>>
    BY <1>1 DEF deployed
  <2>2. RunHolds
    BY DEF RunInv
  <2>3. QED
    BY <1>1, <1>4, <1>5, <1>7, <2>1, <2>2 DEF RunHolds, Finished
<1>9. QED
  BY <1>6, <1>8 DEF RunInv

\* A run may stop wherever it is.
LEMMA FailKeeps ==
    ASSUME RunInv, Fail
    PROVE  RunInv'
<1>1. runner.state = "running" /\ UNCHANGED <<deployed, alive, cached, poll, runs>>
  BY DEF Fail
<1>2. runner \in Containers
  BY DEF RunInv, UpgradeTypes
<1>3. PICK r \in Containers : r = [runner EXCEPT !.state = "failed"]
  BY <1>2 DEF Containers, RunnerStates
<1>4. /\ r.state = "failed" /\ r.run = runner.run /\ r.target = runner.target
      /\ r.step = runner.step /\ r.open = runner.open
  BY <1>2, <1>3 DEF Containers
<1>5. runner' = r
  BY <1>3 DEF Fail
<1>6. UpgradeTypes' /\ PollHolds'
  BY <1>1, <1>4, <1>5, RunnerMoves DEF IsRunning, Succeeded
<1>7. RunHolds'
  <2>1. UNCHANGED <<recorded, checkout, alive, cached, poll, runs>>
    BY <1>1 DEF deployed
  <2>2. QED
    BY <1>1, <1>4, <1>5, <2>1 DEF RunInv, RunHolds, Finished
<1>8. QED
  BY <1>6, <1>7 DEF RunInv

\* The run that is over goes on through its cleanup to its end.
LEMMA AfterwardsKeeps ==
    ASSUME RunInv, NEW state \in Finished, runner' = [runner EXCEPT !.state = state],
           runner.state \in Finished \/ (runner.state = "running" /\ ~runner.open /\ runner.step = 6),
           runner.state # "ok",
           UNCHANGED <<deployed, alive, cached, poll, runs>>
    PROVE  RunInv'
<1>2. runner \in Containers
  BY DEF RunInv, UpgradeTypes
<1>3. PICK r \in Containers : r = [runner EXCEPT !.state = state]
  BY <1>2 DEF Containers, RunnerStates, Finished
<1>4. /\ r.state = state /\ r.run = runner.run /\ r.target = runner.target
      /\ r.step = runner.step /\ r.open = runner.open
  BY <1>2, <1>3 DEF Containers
<1>5. runner' = r
  BY <1>3
<1>6. UpgradeTypes' /\ PollHolds'
  BY <1>4, <1>5, RunnerMoves DEF IsRunning, Succeeded, Finished
<1>7. RunHolds'
  <2>1. UNCHANGED <<recorded, checkout, alive, cached, poll, runs>>
    BY DEF deployed
  <2>2. RunHolds
    BY DEF RunInv
  <2>3. checkout = recorded /\ runner.step = 6 /\ ~runner.open
    BY <2>2 DEF RunHolds
  <2>4. QED
    BY <1>4, <1>5, <2>1, <2>2, <2>3 DEF RunHolds, Finished
<1>8. QED
  BY <1>6, <1>7 DEF RunInv

LEMMA CompleteKeeps ==
    ASSUME RunInv, Complete
    PROVE  RunInv'
<1>1. "complete" \in Finished
  BY DEF Finished
<1>2. runner.step = 6
  BY OrderIs DEF Complete
<1>3. QED
  BY <1>1, <1>2, AfterwardsKeeps DEF Complete, Finished

LEMMA RunnerCleansUpKeeps ==
    ASSUME RunInv, RunnerCleansUp
    PROVE  RunInv'
<1>1. runner.state = "complete" /\ "complete" \in Finished /\ "cleaning" \in Finished /\ "ok" \in Finished
  BY DEF RunnerCleansUp, Finished
<1>2. \E state \in Finished : runner' = [runner EXCEPT !.state = state]
  BY <1>1 DEF RunnerCleansUp
<1>3. QED
  BY <1>1, <1>2, AfterwardsKeeps DEF RunnerCleansUp

\* After the acknowledgement there is no container, and no reading of one.
LEMMA ClearKeeps ==
    ASSUME RunInv, Clear
    PROVE  RunInv'
<1>1. /\ runner # NoRunner /\ runner' = NoRunner
      /\ UNCHANGED <<recorded, checkout, stack, alive, cached, poll, runs>>
  BY DEF Clear, ClearAndClean, deployed
<1>2. NoRunner = [run |-> 0, target |-> 0, image |-> 0, clean |-> FALSE, backup |-> TRUE, step |-> 0,
                  open |-> FALSE, state |-> "none"]
  BY DEF NoRunner
<1>3. NoRunner \in Containers
  BY <1>2, UpgradeConstants DEF Containers, RunnerStates
<1>4. UpgradeTypes'
  BY <1>1, <1>3 DEF RunInv, UpgradeTypes
<1>5. RunHolds'
  BY <1>1, <1>2 DEF RunInv, RunHolds, UpgradeTypes, Finished
<1>6. PollHolds'
  <2>1. PollHolds
    BY DEF RunInv
  <2>2. ~Polled'
    BY <1>1, <1>2, <2>1 DEF PollHolds, Polled
  <2>3. QED
    BY <1>1, <2>1, <2>2 DEF PollHolds
<1>7. QED
  BY <1>4, <1>5, <1>6 DEF RunInv

\* The way back, and the manager's return: nothing runs, and the checkout is where it was or where
\* the configuration is.
LEMMA HostKeeps ==
    ASSUME RunInv, ~IsRunning, alive', checkout' \in {checkout, recorded}, stack' \in {stack, recorded},
           UNCHANGED <<recorded, cached, runner, poll, runs>>
    PROVE  RunInv'
<1>1. UpgradeTypes'
  BY UpgradeConstants DEF RunInv, UpgradeTypes, Releases
<1>2. RunHolds'
  BY DEF RunInv, RunHolds, IsRunning, Finished
<1>3. PollHolds'
  BY DEF RunInv, PollHolds, Polled, IsRunning, Succeeded
<1>4. QED
  BY <1>1, <1>2, <1>3 DEF RunInv

\* The panel reads what is so.
LEMMA PanelKeeps ==
    ASSUME RunInv, PollStatus \/ PanelShown
    PROVE  RunInv'
<1>1. UNCHANGED <<recorded, checkout, stack, alive, cached, runner, runs>>
  BY DEF PollStatus, PanelShown, deployed
<1>2. CASE PollStatus
  <2>1. /\ alive /\ runner # NoRunner
        /\ poll' = [run |-> runner.run, running |-> IsRunning, ok |-> Succeeded]
    BY <1>2 DEF PollStatus
  <2>2. runner.run \in Nat /\ runner.run # 0 /\ runner.run <= runs
    BY <2>1 DEF RunInv, UpgradeTypes, RunHolds, Containers, RunnerStates
  <2>3. IsRunning \in BOOLEAN /\ Succeeded \in BOOLEAN
    BY DEF IsRunning, Succeeded
  <2>4. poll' \in Polls
    BY <2>1, <2>2, <2>3 DEF Polls
  <2>5. UpgradeTypes'
    BY <1>1, <2>4 DEF RunInv, UpgradeTypes
  <2>6. RunHolds'
    BY <1>1, <2>1 DEF RunInv, RunHolds
  <2>7. poll'.run = runner.run /\ poll'.running = IsRunning /\ poll'.ok = Succeeded
    BY <2>1
  <2>8. IsRunning' = IsRunning /\ Succeeded' = Succeeded
    BY <1>1 DEF IsRunning, Succeeded
  <2>9. PollHolds'
    BY <1>1, <2>2, <2>7, <2>8 DEF PollHolds
  <2>10. QED
    BY <2>5, <2>6, <2>9 DEF RunInv
<1>3. CASE PanelShown
  <2>1. poll' = NoPoll
    BY <1>3 DEF PanelShown
  <2>2. NoPoll \in Polls
    BY DEF NoPoll, Polls
  <2>3. UpgradeTypes'
    BY <1>1, <2>1, <2>2 DEF RunInv, UpgradeTypes
  <2>4. RunHolds'
    BY <1>1, <2>1 DEF RunInv, RunHolds, NoPoll
  <2>5. PollHolds'
    BY <1>1, <2>1 DEF PollHolds, Polled, NoPoll
  <2>6. QED
    BY <2>3, <2>4, <2>5 DEF RunInv
<1>4. QED
  BY <1>2, <1>3

\* The state after a phase of the run is over, but for what the phase itself has done.
LEMMA DoneLeaves ==
    ASSUME RunInv, Done
    PROVE  /\ runner.state = "running" /\ runner.open /\ runner.step \in 1..6 /\ runner.target \in Releases
           /\ runner' \in Containers /\ runner'.state = "running" /\ ~runner'.open
           /\ runner'.step = runner.step /\ runner'.run = runner.run /\ runner'.target = runner.target
           /\ runner'.clean = runner.clean
           /\ runs' = runs
<1>1. runner \in Containers /\ RunHolds
  BY DEF RunInv, UpgradeTypes
<1>2. runner.state = "running" /\ runner.open /\ runs' = runs
  BY DEF Done
<1>3. PICK r \in Containers : r = [runner EXCEPT !.open = FALSE]
  BY <1>1 DEF Containers
<1>4. /\ ~r.open /\ r.state = runner.state /\ r.step = runner.step /\ r.run = runner.run
      /\ r.target = runner.target /\ r.clean = runner.clean
  BY <1>1, <1>3 DEF Containers
<1>5. runner' = r
  BY <1>3 DEF Done
<1>6. runner.step \in 1..6 /\ runner.target \in Releases
  BY <1>1, <1>2, UpgradeConstants DEF RunHolds, Containers, Releases
<1>7. QED
  BY <1>2, <1>4, <1>5, <1>6

\* What each phase does to the deployment: each acts in its place.
LEMMA DoneDoes ==
    ASSUME RunInv, Done
    PROVE  /\ runner.step \in {1, 4} =>
                UNCHANGED <<recorded, checkout, stack, local, log, alive, cached, poll, prune>>
           /\ runner.step = 2 =>
                /\ stack' = 0 /\ alive' = FALSE /\ cached' = NoCheck /\ poll' = NoPoll
                /\ prune' = [prune EXCEPT !["hub"] = NoPrune]
                /\ UNCHANGED <<recorded, checkout, local, log>>
           /\ runner.step = 3 =>
                /\ checkout' = runner.target /\ log' = log \o <<"banner">>
                /\ UNCHANGED <<recorded, stack, local, alive, cached, poll, prune>>
           /\ runner.step = 5 =>
                /\ recorded' = runner.target
                /\ UNCHANGED <<checkout, stack, local, log, alive, cached, poll, prune>>
           /\ runner.step = 6 =>
                /\ stack' = checkout /\ local' = local \cup {checkout} /\ alive' = TRUE
                /\ log' \in {log, Append(log, "provisioning")}
                /\ UNCHANGED <<recorded, checkout, cached, poll, prune>>
<1>1. CASE runner.step \in {1, 4}
  BY <1>1, OrderIs DEF Done, deployed, KeepMemory
<1>2. CASE runner.step = 2
  BY <1>2, OrderIs DEF Done, deployed, LoseMemory
<1>3. CASE runner.step = 3
  BY <1>3, OrderIs DEF Done, deployed, KeepMemory, Say
<1>4. CASE runner.step = 5
  BY <1>4, OrderIs DEF Done, deployed, KeepMemory
<1>5. CASE runner.step = 6
  BY <1>5, OrderIs DEF Done, deployed, KeepMemory
<1>6. CASE runner.step \notin {1, 2, 3, 4, 5, 6}
  BY <1>6
<1>7. QED
  BY <1>1, <1>2, <1>3, <1>4, <1>5, <1>6

\* What the run relies on holds after each of its phases: the manager is down from the stop on, and
\* the release is recorded after the checkout has moved to it.
LEMMA DoneKeeps ==
    ASSUME RunInv, Done
    PROVE  RunInv'
<1>1. /\ runner.state = "running" /\ runner.open /\ runner.step \in 1..6 /\ runner.target \in Releases
      /\ runner' \in Containers /\ runner'.state = "running" /\ ~runner'.open
      /\ runner'.step = runner.step /\ runner'.run = runner.run /\ runner'.target = runner.target
      /\ runs' = runs
  BY DoneLeaves
<1>2. /\ cached \in Checks /\ poll \in Polls /\ recorded \in Releases /\ checkout \in Releases
      /\ stack \in 0..Newest /\ alive \in BOOLEAN /\ runs \in Nat /\ RunHolds
  BY DEF RunInv, UpgradeTypes
<1>3. NoCheck \in Checks /\ NoPoll \in Polls
  BY UpgradeConstants DEF NoCheck, Checks, NoPoll, Polls
<1>4. UpgradeTypes'
  <2>1. checkout \in 0..Newest /\ 0 \in 0..Newest
    BY <1>2, UpgradeConstants DEF Releases
  <2>2. CASE runner.step \in {1, 4}
    BY <1>1, <1>2, <2>2, DoneDoes DEF UpgradeTypes
  <2>3. CASE runner.step = 2
    <3>1. stack' = 0 /\ alive' = FALSE /\ cached' = NoCheck /\ poll' = NoPoll /\ UNCHANGED <<recorded, checkout>>
      BY <2>3, DoneDoes
    <3>2. QED
      BY <1>1, <1>2, <1>3, <2>1, <3>1 DEF UpgradeTypes
  <2>4. CASE runner.step = 3
    BY <1>1, <1>2, <2>4, DoneDoes DEF UpgradeTypes
  <2>5. CASE runner.step = 5
    BY <1>1, <1>2, <2>5, DoneDoes DEF UpgradeTypes
  <2>6. CASE runner.step = 6
    BY <1>1, <1>2, <2>1, <2>6, DoneDoes DEF UpgradeTypes
  <2>7. QED
    BY <1>1, <2>2, <2>3, <2>4, <2>5, <2>6
<1>5. RunHolds'
  <2>0. runner.target \in Nat /\ runner.target # 0
    BY <1>1, UpgradeConstants DEF Releases
  <2>1. CASE runner.step \in {1, 4}
    <3>1. UNCHANGED <<recorded, checkout, alive, cached, poll>>
      BY <2>1, DoneDoes
    <3>2. QED
      BY <1>1, <1>2, <2>1, <3>1 DEF RunHolds, Finished
  <2>2. CASE runner.step = 2
    <3>1. ~alive' /\ cached' = NoCheck /\ poll' = NoPoll /\ UNCHANGED <<recorded, checkout>>
      BY <2>2, DoneDoes
    <3>2. QED
      BY <1>1, <1>2, <2>2, <3>1 DEF RunHolds, Finished
  <2>3. CASE runner.step = 3
    <3>1. checkout' = runner.target /\ UNCHANGED <<recorded, alive, cached, poll>>
      BY <2>3, DoneDoes
    <3>2. QED
      BY <1>1, <1>2, <2>3, <3>1 DEF RunHolds, Finished
  <2>5. CASE runner.step = 5
    <3>1. recorded' = runner.target /\ UNCHANGED <<checkout, alive, cached, poll>>
      BY <2>5, DoneDoes
    <3>2. checkout = runner.target /\ ~alive
      BY <1>1, <1>2, <2>5 DEF RunHolds
    <3>3. cached = NoCheck /\ poll = NoPoll
      BY <1>2, <3>2 DEF RunHolds
    <3>4. QED
      BY <1>1, <1>2, <2>5, <3>1, <3>2, <3>3 DEF RunHolds, Finished
  <2>6. CASE runner.step = 6
    <3>1. alive' /\ UNCHANGED <<recorded, checkout, cached, poll>>
      BY <2>6, DoneDoes
    <3>2. QED
      BY <1>1, <1>2, <2>6, <3>1 DEF RunHolds, Finished
  <2>7. QED
    BY <1>1, <2>1, <2>2, <2>3, <2>5, <2>6
<1>6. PollHolds'
  <2>1. poll' = poll \/ poll' = NoPoll
    <3>1. /\ runner.step = 2 => poll' = NoPoll
          /\ runner.step \in {1, 3, 4, 5, 6} => poll' = poll
      BY DoneDoes
    <3>2. QED
      BY <1>1, <3>1
  <2>2. IsRunning /\ ~Succeeded /\ IsRunning'
    BY <1>1 DEF IsRunning, Succeeded
  <2>3. PollHolds
    BY DEF RunInv
  <2>4. QED
    BY <1>1, <2>1, <2>2, <2>3 DEF PollHolds, Polled
<1>7. QED
  BY <1>4, <1>5, <1>6 DEF RunInv

-----------------------------------------------------------------------------
(* The cleanup of images                                                   *)

Places == {"hub", "runner"}
Readers == {"declared", "local", "used"}
Images == 0..Newest
Prunes == [at : {"idle", "read", "remove"}, by : {"none", "manual", "dismiss", "runner"},
           todo : SUBSET Readers, declared : SUBSET Images, used : SUBSET Images,
           local : SUBSET Images, raced : BOOLEAN]

\* What a cleanup has read of the checkout, c, is so until it is over, unless an upgrade, or the way
\* back, started beside it; and one that nobody chose by hand runs only where c is what the
\* configuration records, r.
ReadingHolds(p, c, r) ==
    /\ p.at = "idle" <=> p = NoPrune
    /\ p.at = "remove" => p.todo = {}
    /\ p.at # "idle" /\ "declared" \notin p.todo /\ ~p.raced => p.declared = {c}
    /\ p.at # "idle" /\ p.by # "manual" /\ ~p.raced => c = r

\* The runner cleans up after its run only, and no run goes on beside a cleanup of the manager that
\* does not know of it.
PruneHolds ==
    /\ prune \in [Places -> Prunes] /\ local \in SUBSET Images
    /\ prune["runner"].at # "idle" => runner.state = "cleaning"
    /\ IsRunning => prune["hub"].at = "idle" \/ prune["hub"].raced
    /\ \A w \in Places : ReadingHolds(prune[w], checkout, recorded)

\* No cleanup, spelled out.
LEMMA NoPruneIs ==
    /\ NoPrune = [at |-> "idle", by |-> "none", todo |-> {}, declared |-> {}, used |-> {},
                  local |-> {}, raced |-> FALSE]
    /\ NoPrune \in Prunes /\ NoPrune.at = "idle" /\ ~NoPrune.raced
    /\ \A c, r : ReadingHolds(NoPrune, c, r)
<1>1. NoPrune = [at |-> "idle", by |-> "none", todo |-> {}, declared |-> {}, used |-> {},
                 local |-> {}, raced |-> FALSE]
  BY DEF NoPrune
<1>2. NoPrune \in Prunes
  BY <1>1 DEF Prunes
<1>3. NoPrune.at = "idle" /\ ~NoPrune.raced
  BY <1>1
<1>4. QED
  BY <1>1, <1>2, <1>3 DEF ReadingHolds

\* A cleanup that is not under way, or that an upgrade started beside, says nothing of the release.
LEMMA RacedHolds ==
    ASSUME NEW p, NEW c, NEW r, NEW c2, NEW r2, ReadingHolds(p, c, r), p.at = "idle" \/ p.raced
    PROVE  ReadingHolds(p, c2, r2)
BY DEF ReadingHolds

\* Marking a cleanup, if there is one.
LEMMA RacedIs ==
    ASSUME NEW p \in Prunes, NEW c, NEW r, NEW c2, NEW r2, ReadingHolds(p, c, r)
    PROVE  LET q == [p EXCEPT !.raced = p # NoPrune]
           IN q \in Prunes /\ (q.at = "idle" \/ q.raced) /\ ReadingHolds(q, c2, r2)
<1>1. CASE p = NoPrune
  <2>1. PICK q : q = [p EXCEPT !.raced = p # NoPrune]
    OBVIOUS
  <2>2. q = [NoPrune EXCEPT !.raced = FALSE]
    BY <1>1, <2>1
  <2>3. q = NoPrune
    BY <2>2 DEF NoPrune
  <2>4. q \in Prunes /\ q.at = "idle" /\ ReadingHolds(q, c2, r2)
    BY <2>3, NoPruneIs
  <2>5. QED
    BY <2>1, <2>4
<1>2. CASE p # NoPrune
  <2>1. PICK q : q = [p EXCEPT !.raced = TRUE]
    OBVIOUS
  <2>2. q = [p EXCEPT !.raced = p # NoPrune]
    BY <1>2, <2>1
  <2>3. /\ q \in Prunes /\ q.raced /\ q.at = p.at /\ q.todo = p.todo
    BY <2>1 DEF Prunes
  <2>4. ReadingHolds(q, c2, r2)
    BY <1>2, <2>3, NoPruneIs DEF ReadingHolds
  <2>5. QED
    BY <2>2, <2>3, <2>4
<1>3. QED
  BY <1>1, <1>2

\* A step that leaves the cleanups as they are,
LEMMA PruneStays ==
    ASSUME PruneHolds, UNCHANGED <<prune, local>>,
           \A w \in Places : ReadingHolds(prune[w], checkout', recorded'),
           prune["runner"].at # "idle" => runner'.state = "cleaning",
           IsRunning' => prune["hub"].at = "idle" \/ prune["hub"].raced
    PROVE  PruneHolds'
<1>1. prune' \in [Places -> Prunes] /\ local' \in SUBSET Images
  BY DEF PruneHolds
<1>2. QED
  BY <1>1 DEF PruneHolds

\* and one that moves one of them.
LEMMA PruneMoves ==
    ASSUME PruneHolds, NEW w \in Places, NEW p \in Prunes, prune' = [prune EXCEPT ![w] = p],
           local' \in SUBSET Images,
           ReadingHolds(p, checkout', recorded'),
           \A v \in Places \ {w} : ReadingHolds(prune[v], checkout', recorded'),
           w = "runner" /\ p.at # "idle" => runner'.state = "cleaning",
           w = "hub" /\ prune["runner"].at # "idle" => runner'.state = "cleaning",
           IsRunning' /\ w = "hub" => p.at = "idle" \/ p.raced,
           IsRunning' /\ w = "runner" => prune["hub"].at = "idle" \/ prune["hub"].raced
    PROVE  PruneHolds'
<1>1. prune \in [Places -> Prunes] /\ "hub" \in Places /\ "runner" \in Places
  BY DEF PruneHolds, Places
<1>2. prune' \in [Places -> Prunes] /\ prune'[w] = p /\ \A v \in Places \ {w} : prune'[v] = prune[v]
  BY <1>1
<1>3. \A v \in Places : ReadingHolds(prune'[v], checkout', recorded')
  BY <1>2
<1>4. prune'["runner"].at # "idle" => runner'.state = "cleaning"
  BY <1>1, <1>2 DEF Places
<1>5. IsRunning' => prune'["hub"].at = "idle" \/ prune'["hub"].raced
  BY <1>1, <1>2 DEF Places
<1>6. QED
  BY <1>2, <1>3, <1>4, <1>5 DEF PruneHolds

\* The cleanups that are there: one record each.
LEMMA PlacesAre ==
    ASSUME PruneHolds
    PROVE  /\ "hub" \in Places /\ "runner" \in Places
           /\ prune["hub"] \in Prunes /\ prune["runner"] \in Prunes
           /\ \A w \in Places : ReadingHolds(prune[w], checkout, recorded)
           /\ runner.state # "cleaning" =>
                \A c, r : ReadingHolds(prune["runner"], c, r)
BY DEF PruneHolds, Places, ReadingHolds

\* An upgrade that starts, or the way back: both mark the cleanup of the manager beside them.
LEMMA MarkedKeeps ==
    ASSUME PruneHolds, runner.state # "cleaning", local' \in SUBSET Images,
           prune' = [prune EXCEPT !["hub"].raced = prune["hub"] # NoPrune]
    PROVE  PruneHolds'
<1>1. PICK q : q = [prune["hub"] EXCEPT !.raced = prune["hub"] # NoPrune]
  OBVIOUS
<1>2. q \in Prunes /\ (q.at = "idle" \/ q.raced) /\ ReadingHolds(q, checkout', recorded')
  BY <1>1, PlacesAre, RacedIs
<1>3. prune' = [prune EXCEPT !["hub"] = q]
  BY <1>1
<1>4. \A v \in Places \ {"hub"} : ReadingHolds(prune[v], checkout', recorded')
  BY PlacesAre DEF Places
<1>5. prune["runner"].at = "idle"
  BY DEF PruneHolds
<1>6. QED
  BY <1>2, <1>3, <1>4, <1>5, PlacesAre, PruneMoves

\* A run in progress: the runner does not clean up, and the manager's cleanup is marked.
LEMMA RunningPrunes ==
    ASSUME PruneHolds, runner.state \in {"running", "complete"}
    PROVE  /\ prune["runner"].at = "idle" /\ (prune["hub"].at = "idle" \/ prune["hub"].raced)
           /\ \A w \in Places : \A c, r : ReadingHolds(prune[w], c, r)
<1>1. prune["runner"].at = "idle" /\ (prune["hub"].at = "idle" \/ prune["hub"].raced)
  BY DEF PruneHolds, IsRunning
<1>2. \A w \in Places : \A c, r : ReadingHolds(prune[w], c, r)
  BY <1>1, PlacesAre, RacedHolds DEF Places
<1>3. QED
  BY <1>1, <1>2

\* The checkout and the configuration move in a run, where no cleanup trusts them.
LEMMA DonePrunes ==
    ASSUME RunInv, PruneHolds, Done
    PROVE  PruneHolds'
<1>1. runner.state = "running" /\ runner.step \in 1..6
  BY DoneLeaves
<1>2. /\ prune["runner"].at = "idle" /\ (prune["hub"].at = "idle" \/ prune["hub"].raced)
      /\ \A w \in Places : \A c, r : ReadingHolds(prune[w], c, r)
  BY <1>1, RunningPrunes
<1>3. local \in SUBSET Images /\ checkout \in Images
  BY UpgradeConstants DEF PruneHolds, RunInv, UpgradeTypes, Images, Releases
<1>4. CASE runner.step = 2
  <2>1. prune' = [prune EXCEPT !["hub"] = NoPrune] /\ local' = local
    BY <1>4, DoneDoes
  <2>2. QED
    BY <1>2, <1>3, <2>1, NoPruneIs, PlacesAre, PruneMoves
<1>5. CASE runner.step # 2
  <2>1. prune' = prune
    <3>1. CASE runner.step \in {1, 4}
      BY <3>1, DoneDoes
    <3>2. CASE runner.step = 3
      BY <3>2, DoneDoes
    <3>3. CASE runner.step = 5
      BY <3>3, DoneDoes
    <3>4. CASE runner.step = 6
      BY <3>4, DoneDoes
    <3>5. QED
      BY <1>1, <1>5, <3>1, <3>2, <3>3, <3>4
  <2>2. local' \in SUBSET Images
    <3>1. CASE runner.step \in {1, 4}
      BY <1>3, <3>1, DoneDoes
    <3>2. CASE runner.step = 3
      BY <1>3, <3>2, DoneDoes
    <3>3. CASE runner.step = 5
      BY <1>3, <3>3, DoneDoes
    <3>4. CASE runner.step = 6
      BY <1>3, <3>4, DoneDoes
    <3>5. QED
      BY <1>1, <1>5, <3>1, <3>2, <3>3, <3>4
  <2>3. prune' \in [Places -> Prunes]
    BY <2>1 DEF PruneHolds
  <2>4. QED
    BY <1>2, <2>1, <2>2, <2>3 DEF PruneHolds
<1>6. QED
  BY <1>4, <1>5

\* A cleanup that opens has read nothing; unless somebody asked for it by hand the release is the
\* recorded one.
LEMMA OpenedIs ==
    ASSUME NEW by \in {"manual", "dismiss", "runner"}, NEW c, NEW r, by # "manual" => c = r
    PROVE  LET p == [NoPrune EXCEPT !.at = "read", !.by = by, !.todo = {"declared", "local", "used"}]
           IN p \in Prunes /\ ReadingHolds(p, c, r)
<1>1. PICK p : p = [NoPrune EXCEPT !.at = "read", !.by = by, !.todo = {"declared", "local", "used"}]
  OBVIOUS
<1>2. p = [at |-> "read", by |-> by, todo |-> {"declared", "local", "used"}, declared |-> {},
           used |-> {}, local |-> {}, raced |-> FALSE]
  BY <1>1 DEF NoPrune
<1>3. p \in Prunes
  BY <1>2 DEF Prunes, Readers
<1>4. p.at = "read" /\ p.by = by /\ "declared" \in p.todo
  BY <1>2
<1>5. ReadingHolds(p, c, r)
  BY <1>4, NoPruneIs DEF ReadingHolds
<1>6. QED
  BY <1>1, <1>3, <1>5

\* Who opens a cleanup: the runner after its run, a person while nothing runs, and the
\* acknowledgement of a run that succeeded. The last two leave the runner's alone.
LEMMA OpenKeeps ==
    ASSUME RunInv, PruneHolds, NEW w \in Places, NEW by \in {"manual", "dismiss", "runner"},
           OpenPrune(w, by), by # "manual" => checkout = recorded,
           UNCHANGED <<deployed, local>>,
           w = "runner" => runner'.state = "cleaning" /\ runner.state = "complete",
           w = "hub" => ~IsRunning /\ ~IsRunning'
    PROVE  PruneHolds'
<1>1. PICK p : p = [NoPrune EXCEPT !.at = "read", !.by = by, !.todo = {"declared", "local", "used"}]
  OBVIOUS
<1>2. p \in Prunes /\ ReadingHolds(p, checkout, recorded)
  BY <1>1, OpenedIs
<1>3. prune' = [prune EXCEPT ![w] = p]
  BY <1>1 DEF OpenPrune
<1>4. UNCHANGED <<checkout, recorded, local>> /\ local \in SUBSET Images
  BY DEF deployed, PruneHolds
<1>5. ReadingHolds(p, checkout', recorded')
      /\ \A v \in Places \ {w} : ReadingHolds(prune[v], checkout', recorded')
  BY <1>2, <1>4, PlacesAre
<1>6. w = "hub" => prune["runner"].at = "idle"
  BY DEF PruneHolds, IsRunning
<1>7. w = "runner" => prune["hub"].at = "idle" \/ prune["hub"].raced
  BY RunningPrunes
<1>8. QED
  BY <1>2, <1>3, <1>4, <1>5, <1>6, <1>7, PruneMoves DEF Places

LEMMA RunnerCleansUpPrunes ==
    ASSUME RunInv, PruneHolds, RunnerCleansUp
    PROVE  PruneHolds'
<1>1. runner.state = "complete" /\ UNCHANGED <<deployed, local>> /\ checkout = recorded
  BY DEF RunnerCleansUp, RunInv, RunHolds, Finished
<1>3. CASE runner.clean
  <2>1. runner' = [runner EXCEPT !.state = "cleaning"] /\ OpenPrune("runner", "runner")
    BY <1>3 DEF RunnerCleansUp
  <2>2. runner'.state = "cleaning"
    BY <2>1 DEF RunInv, UpgradeTypes, Containers
  <2>3. QED
    BY <1>1, <2>1, <2>2, OpenKeeps DEF Places
<1>4. CASE ~runner.clean
  <2>1. runner' = [runner EXCEPT !.state = "ok"] /\ prune' = prune /\ UNCHANGED <<checkout, recorded>>
    BY <1>1, <1>4 DEF RunnerCleansUp, deployed
  <2>2. runner'.state = "ok"
    BY <2>1 DEF RunInv, UpgradeTypes, Containers
  <2>3. ~IsRunning'
    BY <2>2 DEF IsRunning
  <2>4. QED
    BY <1>1, <2>1, <2>3, RunningPrunes, PruneStays
<1>5. QED
  BY <1>3, <1>4

LEMMA PruneImagesPrunes ==
    ASSUME RunInv, PruneHolds, PruneImages
    PROVE  PruneHolds'
<1>1. ~IsRunning /\ ~IsRunning' /\ OpenPrune("hub", "manual") /\ UNCHANGED <<deployed, local>>
  BY DEF PruneImages, Quiet, IsRunning
<1>2. QED
  BY <1>1, OpenKeeps DEF Places

LEMMA ClearPrunes ==
    ASSUME RunInv, PruneHolds, Clear
    PROVE  PruneHolds'
<1>1. /\ ~IsRunning /\ runner' = NoRunner /\ UNCHANGED <<deployed, local>>
      /\ IF Succeeded /\ runner.clean THEN OpenPrune("hub", "dismiss") ELSE UNCHANGED prune
  BY DEF Clear, ClearAndClean
<1>2. ~IsRunning'
  BY <1>1 DEF IsRunning, NoRunner
<1>3. CASE Succeeded /\ runner.clean
  <2>1. checkout = recorded
    BY <1>3 DEF Succeeded, RunInv, RunHolds, Finished
  <2>2. QED
    BY <1>1, <1>2, <1>3, <2>1, OpenKeeps DEF Places
<1>4. CASE ~(Succeeded /\ runner.clean)
  <2>1. UNCHANGED <<prune, local, checkout, recorded>>
    BY <1>1, <1>4 DEF deployed
  <2>2. prune["runner"].at = "idle"
    BY <1>1 DEF PruneHolds, IsRunning
  <2>3. QED
    BY <1>2, <2>1, <2>2, PlacesAre, PruneStays
<1>5. QED
  BY <1>3, <1>4

\* A reading of the checkout is what is there.
LEMMA ReadImagesPrunes ==
    ASSUME RunInv, PruneHolds, NEW w \in Places, NEW what \in Readers, ReadImages(w, what)
    PROVE  PruneHolds'
<1>1. /\ prune[w].at = "read" /\ UNCHANGED <<recorded, checkout, local, runner>>
      /\ prune[w] \in Prunes /\ ReadingHolds(prune[w], checkout, recorded)
      /\ local \in SUBSET Images
  BY PlacesAre DEF ReadImages, deployed, PruneHolds
<1>2. PICK at : at = IF prune[w].todo = {what} THEN "remove" ELSE "read"
  OBVIOUS
<1>3. PICK declared : declared = IF what = "declared" THEN Declared ELSE prune[w].declared
  OBVIOUS
<1>4. PICK images : images = IF what = "local" THEN LocalImages ELSE prune[w].local
  OBVIOUS
<1>5. PICK used : used = IF what = "used" THEN Used ELSE prune[w].used
  OBVIOUS
<1>6. Declared \in SUBSET Images /\ LocalImages \in SUBSET Images /\ Used \in SUBSET Images
  BY <1>1, UpgradeConstants DEF RunInv, UpgradeTypes, Containers, Declared, LocalImages, Used, Images, Releases
<1>7. /\ declared \in SUBSET Images /\ images \in SUBSET Images /\ used \in SUBSET Images
      /\ at \in {"read", "remove"}
  BY <1>1, <1>2, <1>3, <1>4, <1>5, <1>6 DEF Prunes
<1>8. PICK p : p = [prune[w] EXCEPT !.todo = prune[w].todo \ {what}, !.at = at, !.declared = declared,
                                    !.local = images, !.used = used]
  OBVIOUS
<1>9. prune' = [prune EXCEPT ![w] = p]
  BY <1>2, <1>3, <1>4, <1>5, <1>8 DEF ReadImages
<1>10. /\ p \in Prunes /\ p.todo = prune[w].todo \ {what} /\ p.at = at /\ p.declared = declared
       /\ p.raced = prune[w].raced /\ p.by = prune[w].by
  BY <1>1, <1>7, <1>8 DEF Prunes
<1>11. ReadingHolds(p, checkout, recorded)
  <2>1. p.at # "idle" /\ p # NoPrune
    BY <1>7, <1>10, NoPruneIs
  <2>2. p.at = "remove" => p.todo = {}
    BY <1>2, <1>10
  <2>3. "declared" \notin p.todo /\ ~p.raced => p.declared = {checkout}
    BY <1>1, <1>3, <1>10 DEF ReadingHolds, Declared
  <2>4. p.by # "manual" /\ ~p.raced => checkout = recorded
    BY <1>1, <1>10 DEF ReadingHolds
  <2>5. QED
    BY <2>1, <2>2, <2>3, <2>4 DEF ReadingHolds
<1>12. /\ w = "runner" => runner.state = "cleaning"
       /\ prune["runner"].at # "idle" => runner.state = "cleaning"
       /\ IsRunning => prune["hub"].at = "idle" \/ prune["hub"].raced
       /\ IsRunning' = IsRunning
  BY <1>1 DEF PruneHolds, IsRunning
<1>13. IsRunning /\ w = "hub" => p.raced
  BY <1>1, <1>10, <1>12
<1>14. QED
  BY <1>1, <1>9, <1>10, <1>11, <1>12, <1>13, PlacesAre, PruneMoves

LEMMA RemoveImagePrunes ==
    ASSUME RunInv, PruneHolds, NEW w \in Places, NEW i \in Releases, RemoveImage(w, i)
    PROVE  PruneHolds'
<1>1. /\ prune[w].at = "remove" /\ UNCHANGED <<recorded, checkout, runner>>
      /\ prune[w] \in Prunes /\ ReadingHolds(prune[w], checkout, recorded)
      /\ local' \in SUBSET Images
  BY PlacesAre DEF RemoveImage, deployed, PruneHolds
<1>2. PICK p : p = [prune[w] EXCEPT !.local = prune[w].local \ {i}]
  OBVIOUS
<1>3. prune' = [prune EXCEPT ![w] = p]
  BY <1>2 DEF RemoveImage
<1>4. /\ p \in Prunes /\ p.todo = prune[w].todo /\ p.at = "remove" /\ p.declared = prune[w].declared
      /\ p.raced = prune[w].raced /\ p.by = prune[w].by
  BY <1>1, <1>2 DEF Prunes
<1>5. ReadingHolds(p, checkout, recorded)
  BY <1>1, <1>4, NoPruneIs DEF ReadingHolds
<1>6. /\ w = "runner" => runner.state = "cleaning"
      /\ prune["runner"].at # "idle" => runner.state = "cleaning"
      /\ IsRunning => prune["hub"].at = "idle" \/ prune["hub"].raced
      /\ IsRunning' = IsRunning
  BY <1>1 DEF PruneHolds, IsRunning
<1>7. IsRunning /\ w = "hub" => p.raced
  BY <1>1, <1>4, <1>6
<1>8. QED
  BY <1>1, <1>3, <1>4, <1>5, <1>6, <1>7, PlacesAre, PruneMoves

LEMMA EndPruneKeeps ==
    ASSUME RunInv, PruneHolds, NEW w \in Places, EndPrune(w)
    PROVE  RunInv'
<1>1. CASE w = "runner"
  <2>1. runner.state = "cleaning" /\ "cleaning" \in Finished /\ "ok" \in Finished
    BY <1>1 DEF EndPrune, PruneHolds, Finished
  <2>2. runner' = [runner EXCEPT !.state = "ok"] /\ UNCHANGED <<deployed, alive, cached, poll, runs>>
    BY <1>1 DEF EndPrune
  <2>3. QED
    BY <2>1, <2>2, AfterwardsKeeps
<1>2. CASE w # "runner"
  BY <1>2, RunStays DEF EndPrune
<1>3. QED
  BY <1>1, <1>2

LEMMA EndPrunePrunes ==
    ASSUME RunInv, PruneHolds, NEW w \in Places, EndPrune(w)
    PROVE  PruneHolds'
<1>1. /\ prune' = [prune EXCEPT ![w] = NoPrune] /\ UNCHANGED <<recorded, checkout, local>>
      /\ local \in SUBSET Images /\ prune[w].at # "idle"
  BY DEF EndPrune, deployed, PruneHolds
<1>2. CASE w = "runner"
  <2>1. runner' = [runner EXCEPT !.state = "ok"]
    BY <1>2 DEF EndPrune
  <2>2. runner'.state = "ok"
    BY <2>1 DEF RunInv, UpgradeTypes, Containers
  <2>3. ~IsRunning'
    BY <2>2 DEF IsRunning
  <2>4. QED
    BY <1>1, <1>2, <2>3, NoPruneIs, PlacesAre, PruneMoves
<1>3. CASE w = "hub"
  <2>1. runner' = runner
    BY <1>3 DEF EndPrune
  <2>2. prune["runner"].at # "idle" => runner.state = "cleaning"
    BY DEF PruneHolds
  <2>3. QED
    BY <1>1, <1>3, <2>1, <2>2, NoPruneIs, PlacesAre, PruneMoves
<1>4. QED
  BY <1>2, <1>3 DEF Places

\* Steps that touch no image and no release.
LEMMA PruneUntouched ==
    ASSUME RunInv, PruneHolds, UNCHANGED <<deployed, local, prune>>,
           IsRunning' => IsRunning, runner.state = "cleaning" => runner'.state = "cleaning"
    PROVE  PruneHolds'
<1>1. UNCHANGED <<recorded, checkout, local, prune>>
  BY DEF deployed
<1>2. QED
  BY <1>1 DEF PruneHolds

LEMMA RunPrunes ==
    ASSUME RunInv, PruneHolds, Begin \/ Fail \/ Complete
    PROVE  PruneHolds'
<1>1. runner.state = "running" /\ UNCHANGED <<deployed, local, prune>>
  BY DEF Begin, Fail, Complete
<1>2. IsRunning
  BY <1>1 DEF IsRunning
<1>3. QED
  BY <1>1, <1>2, PruneUntouched

LEMMA StartPrunes ==
    ASSUME RunInv, PruneHolds, NEW force \in BOOLEAN, NEW backup \in BOOLEAN, NEW clean \in BOOLEAN,
           StartUpgrade(force, backup, clean)
    PROVE  PruneHolds'
<1>1. /\ runner = NoRunner /\ local' = local
      /\ prune' = [prune EXCEPT !["hub"].raced = prune["hub"] # NoPrune]
  BY DEF StartUpgrade
<1>2. runner.state # "cleaning"
  BY <1>1 DEF NoRunner
<1>3. QED
  BY <1>1, <1>2, MarkedKeeps DEF PruneHolds

LEMMA GoBackKeeps ==
    ASSUME RunInv, PruneHolds, GoBack
    PROVE  RunInv' /\ PruneHolds'
<1>1. /\ ~IsRunning /\ checkout' = recorded /\ stack' = recorded /\ alive'
      /\ local' = local \cup {recorded}
      /\ UNCHANGED <<recorded, cached, runner, poll, runs>>
      /\ prune' = [prune EXCEPT !["hub"].raced = prune["hub"] # NoPrune]
  BY DEF GoBack
<1>2. RunInv'
  BY <1>1, HostKeeps
<1>3. local' \in SUBSET Images
  BY <1>1, UpgradeConstants DEF PruneHolds, RunInv, UpgradeTypes, Images, Releases
<1>4. QED
  BY <1>1, <1>2, <1>3, MarkedKeeps DEF IsRunning

LEMMA RunAndPruneStart == UpgradeInit => RunInv /\ PruneHolds
<1> SUFFICES ASSUME UpgradeInit PROVE RunInv /\ PruneHolds
  OBVIOUS
<1>1. /\ recorded = 1 /\ checkout = 1 /\ stack = 1 /\ local = {0, 1} /\ alive = TRUE
      /\ cached = NoCheck /\ runner = NoRunner /\ poll = NoPoll /\ runs = 0
      /\ prune = [w \in Places |-> NoPrune]
  BY DEF UpgradeInit, Foreign, Places
<1>2. NoCheck \in Checks /\ NoPoll \in Polls /\ NoRunner \in Containers
  BY UpgradeConstants DEF NoCheck, Checks, NoPoll, Polls, NoRunner, Containers, RunnerStates
<1>3. UpgradeTypes
  BY <1>1, <1>2, UpgradeConstants DEF UpgradeTypes, Releases
<1>4. RunHolds
  BY <1>1 DEF RunHolds, NoRunner, Finished
<1>5. PollHolds
  BY <1>1 DEF PollHolds, Polled, NoPoll
<1>6. PruneHolds
  <2>1. prune \in [Places -> Prunes] /\ \A w \in Places : prune[w] = NoPrune
    BY <1>1, NoPruneIs
  <2>2. local \in SUBSET Images
    BY <1>1, UpgradeConstants DEF Images
  <2>3. \A w \in Places : ReadingHolds(prune[w], checkout, recorded)
    BY <2>1, NoPruneIs
  <2>4. prune["runner"].at = "idle" /\ prune["hub"].at = "idle"
    BY <2>1, NoPruneIs DEF Places
  <2>5. QED
    BY <2>1, <2>2, <2>3, <2>4 DEF PruneHolds
<1>7. QED
  BY <1>3, <1>4, <1>5, <1>6 DEF RunInv

\* Everything the manager, the run and the operator do keeps both.
LEMMA RunAndPruneStep ==
    ASSUME RunInv, PruneHolds, [UpgradeNext]_upgradeVars
    PROVE  RunInv' /\ PruneHolds'
<1>1. CASE \E want \in {0} \cup Releases : RunCheck(want)
  <2>1. PICK want \in {0} \cup Releases : RunCheck(want)
    BY <1>1
  <2>2. UNCHANGED <<deployed, local, prune, runner>>
    BY <2>1 DEF RunCheck
  <2>3. QED
    BY <2>1, <2>2, RunCheckKeeps, PruneUntouched DEF IsRunning
<1>2. CASE \E force, backup, clean \in BOOLEAN : StartUpgrade(force, backup, clean)
  BY <1>2, StartUpgradeKeeps, StartPrunes
<1>3. CASE PruneImages
  <2>1. RunInv'
    BY <1>3, RunStays DEF PruneImages
  <2>2. QED
    BY <1>3, <2>1, PruneImagesPrunes
<1>4. CASE Clear
  BY <1>4, ClearKeeps, ClearPrunes
<1>5. CASE Begin
  BY <1>5, BeginKeeps, RunPrunes
<1>6. CASE Done
  BY <1>6, DoneKeeps, DonePrunes
<1>7. CASE Fail
  BY <1>7, FailKeeps, RunPrunes
<1>8. CASE Complete
  BY <1>8, CompleteKeeps, RunPrunes
<1>9. CASE RunnerCleansUp
  BY <1>9, RunnerCleansUpKeeps, RunnerCleansUpPrunes
<1>10. CASE GoBack
  BY <1>10, GoBackKeeps
<1>11. CASE ManagerStarts
  <2>1. /\ ~IsRunning /\ alive' /\ checkout' = checkout /\ stack' = stack
        /\ UNCHANGED <<recorded, cached, runner, poll, runs, local, prune, deployed>>
    BY <1>11 DEF ManagerStarts, deployed
  <2>2. QED
    BY <2>1, HostKeeps, PruneUntouched DEF IsRunning
<1>12. ASSUME NEW w \in Places, NEW what \in Readers, ReadImages(w, what) PROVE RunInv' /\ PruneHolds'
  <2>1. RunInv'
    BY <1>12, RunStays DEF ReadImages
  <2>2. QED
    BY <1>12, <2>1, ReadImagesPrunes
<1>13. ASSUME NEW w \in Places, NEW i \in Releases, RemoveImage(w, i) PROVE RunInv' /\ PruneHolds'
  <2>1. RunInv'
    BY <1>13, RunStays DEF RemoveImage
  <2>2. QED
    BY <1>13, <2>1, RemoveImagePrunes
<1>14. ASSUME NEW w \in Places, EndPrune(w) PROVE RunInv' /\ PruneHolds'
  BY <1>14, EndPruneKeeps, EndPrunePrunes
<1>15. CASE PollStatus \/ PanelShown
  <2>1. UNCHANGED <<deployed, local, prune, runner>>
    BY <1>15 DEF PollStatus, PanelShown
  <2>2. QED
    BY <1>15, <2>1, PanelKeeps, PruneUntouched DEF IsRunning
<1>16. CASE UNCHANGED upgradeVars
  <2>1. UNCHANGED <<deployed, alive, cached, runner, poll, runs, local, prune>>
    BY <1>16 DEF upgradeVars, deployed
  <2>2. QED
    BY <2>1, RunStays, PruneUntouched DEF IsRunning
<1>17. QED
  BY <1>1, <1>2, <1>3, <1>4, <1>5, <1>6, <1>7, <1>8, <1>9, <1>10, <1>11, <1>12, <1>13, <1>14, <1>15,
     <1>16 DEF UpgradeNext, UpgradeRequests, UpgradeRun, Places, Readers

\* After a run that moved the checkout and not the configuration the panel offers a way back: the
\* release it was started for is not the recorded one.
THEOREM WayBackIsShownAlways == UpgradeSpec => []WayBackIsShown
<1>1. RunInv => WayBackIsShown
  <2> SUFFICES ASSUME RunInv, Polled, ~poll.running, runner.state = "failed", checkout # recorded
               PROVE  Recovery(Shown)
    BY DEF WayBackIsShown
  <2>1. recorded # runner.target /\ runner.target # 0 /\ recorded # 0
    BY UpgradeConstants DEF RunInv, RunHolds, UpgradeTypes, Releases
  <2>2. ~poll.ok
    BY DEF RunInv, PollHolds, Succeeded
  <2>3. QED
    BY <2>1, <2>2 DEF Recovery, SyntheticRecovery
<1>2. QED
  BY <1>1, RunAndPruneStart, RunAndPruneStep, PTL DEF UpgradeSpec

\* No image goes that the stack or a container needs, and no cleanup that nobody chose by hand
\* takes one of the recorded release.
THEOREM NeededImagesStayAlways == UpgradeSpec => NeededImagesStay
<1>1. RunInv /\ PruneHolds /\ [UpgradeNext]_upgradeVars =>
         [\A i \in local \ local' :
            /\ i # Foreign /\ i \notin Used
            /\ \E w \in DOMAIN prune :
                  /\ i \in prune[w].local \ prune'[w].local
                  /\ prune[w].raced \/ (i # checkout /\ (prune[w].by # "manual" => i # recorded))]_upgradeVars
  <2> SUFFICES ASSUME RunInv, PruneHolds, [UpgradeNext]_upgradeVars, NEW i \in local \ local'
               PROVE  /\ i # Foreign /\ i \notin Used
                      /\ \E w \in DOMAIN prune :
                            /\ i \in prune[w].local \ prune'[w].local
                            /\ prune[w].raced \/ (i # checkout /\ (prune[w].by # "manual" => i # recorded))
    OBVIOUS
  <2>1. \E w \in Places, j \in Releases : RemoveImage(w, j)
    <3>1. ~(local \subseteq local')
      OBVIOUS
    <3>2. Done => local \subseteq local'
      <4> SUFFICES ASSUME Done PROVE local \subseteq local'
        OBVIOUS
      <4>1. runner.step \in 1..6
        BY DoneLeaves
      <4>2. /\ runner.step \in {1, 2, 3, 4, 5} => local' = local
            /\ runner.step = 6 => local' = local \cup {checkout}
        <5>1. /\ runner.step \in {1, 4} => local' = local
              /\ runner.step = 2 => local' = local
              /\ runner.step = 3 => local' = local
              /\ runner.step = 5 => local' = local
              /\ runner.step = 6 => local' = local \cup {checkout}
          BY DoneDoes
        <5>2. QED
          BY <5>1
      <4>3. QED
        BY <4>1, <4>2
    <3>3. QED
      BY <3>1, <3>2 DEF UpgradeNext, UpgradeRequests, UpgradeRun, Places, upgradeVars, RunCheck,
         StartUpgrade, PruneImages, Clear, ClearAndClean, Begin, Fail, Complete, RunnerCleansUp, GoBack, ManagerStarts, ReadImages, EndPrune,
         PollStatus, PanelShown
  <2>2. PICK w \in Places, j \in Releases : RemoveImage(w, j)
    BY <2>1
  <2>3. /\ prune[w].at = "remove" /\ j \in BuildReport(prune[w]) /\ i = j /\ i \notin Used
        /\ prune' = [prune EXCEPT ![w].local = prune[w].local \ {j}]
    BY <2>2 DEF RemoveImage
  <2>4. prune \in [Places -> Prunes] /\ prune[w] \in Prunes /\ ReadingHolds(prune[w], checkout, recorded)
    BY PlacesAre DEF PruneHolds
  <2>5. prune'[w].local = prune[w].local \ {j}
    BY <2>3, <2>4 DEF Prunes
  <2>6. i \in prune[w].local /\ i \notin prune[w].declared /\ i # Foreign
    BY <2>3 DEF BuildReport
  <2>7. prune[w].raced \/ (i # checkout /\ (prune[w].by # "manual" => i # recorded))
    BY <2>3, <2>4, <2>6 DEF ReadingHolds
  <2>8. QED
    BY <2>3, <2>4, <2>5, <2>6, <2>7
<1>2. QED
  BY <1>1, RunAndPruneStart, RunAndPruneStep, PTL DEF UpgradeSpec, NeededImagesStay

-----------------------------------------------------------------------------
(* The output                                                              *)

\* The lines of the output, in their order, against the run that printed them.
LinesBegun ==
    \A i \in DOMAIN log, k \in Steps : PhaseMatch(k, log[i]) =>
        k <= runner.step /\ (k = runner.step \/ \E j \in i + 1 .. Len(log) : PhaseMatch(runner.step, log[j]))
\* The phase the run is in was announced.
StepSaid == runner.step # 0 => \E i \in DOMAIN log : PhaseMatch(runner.step, log[i])
\* The completion marker comes after every phase, and from a run that is over.
CompletedLast ==
    /\ "complete" \in Lines(log) => runner.state \in Finished
    /\ runner.state \in Finished =>
          \E c \in DOMAIN log : /\ log[c] = "complete"
                                /\ \A i \in DOMAIN log, k \in Steps : PhaseMatch(k, log[i]) => i < c
\* The cleanup is announced where it is asked for, and its end where it succeeded.
CleanupSaid ==
    /\ \A i \in DOMAIN log : log[i] = "cleanup" =>
          /\ runner.clean
          /\ \/ runner.state = "cleaning"
             \/ runner.state = "ok" /\ \E j \in i + 1 .. Len(log) : log[j] \in {"cleanup_skipped", "cleanup_finished"}
    /\ "cleanup_finished" \in Lines(log) => Succeeded
\* A problem of provisioning is the last thing of the last phase.
ProvisioningSaid ==
    \A i \in DOMAIN log : log[i] = "provisioning" =>
        /\ runner.step = 6 /\ ~runner.open
        /\ \A s \in DOMAIN log : log[s] = "start" => s < i

\* The output and the run agree.
LogHolds == log \in Seq(Words) /\ LinesBegun /\ StepSaid /\ CompletedLast /\ CleanupSaid /\ ProvisioningSaid

\* One more line.
Prints(word) == log' = Append(log, word)

\* The lines after one more.
LEMMA Appended ==
    ASSUME log \in Seq(Words), NEW word \in Words, Prints(word)
    PROVE  /\ log' \in Seq(Words) /\ Len(log) \in Nat /\ Len(log') = Len(log) + 1
           /\ DOMAIN log = 1..Len(log) /\ DOMAIN log' = 1..(Len(log) + 1)
           /\ \A i \in 1..Len(log) : log'[i] = log[i]
           /\ log'[Len(log) + 1] = word
BY AppendProperties DEF Prints

\* What is said is one more line.
LEMMA SaidIs ==
    ASSUME log \in Seq(Words), NEW word \in Words, Say(<<word>>)
    PROVE  Prints(word)
BY DEF Say, Prints

\* Which line announces which phase; the rest of the output announces none.
LEMMA Announcements ==
    /\ Steps = 1..6
    /\ \A k \in Steps, word \in Words :
          PhaseMatch(k, word) =>
              word \in {"backup", "stop", "checkout", "migrations", "nomigrations", "render", "start"}
    /\ \A k \in Steps : PhaseMatch(k, "start") <=> k = 6
    /\ \A k \in Steps : \A word \in Announced(k) :
          /\ word \in {"backup", "stop", "checkout", "migrations", "nomigrations", "render", "start"}
          /\ \A j \in Steps : PhaseMatch(j, word) <=> j = k
<1>1. Steps = 1..6
  BY OrderIs DEF Steps
<1>2. \A k \in Steps, word \in Words :
          PhaseMatch(k, word) =>
              word \in {"backup", "stop", "checkout", "migrations", "nomigrations", "render", "start"}
  BY <1>1, OrderIs DEF PhaseMatch
<1>3. \A k \in Steps : PhaseMatch(k, "start") <=> k = 6
  BY <1>1, OrderIs DEF PhaseMatch
<1>4. \A k \in Steps : \A word \in Announced(k) :
          /\ word \in {"backup", "stop", "checkout", "migrations", "nomigrations", "render", "start"}
          /\ \A j \in Steps : PhaseMatch(j, word) <=> j = k
  BY <1>1, OrderIs DEF PhaseMatch, Announced
<1>5. QED
  BY <1>1, <1>2, <1>3, <1>4

\* A run goes on, or does not, without a line that announces a phase.
GoesOn(word) ==
    /\ runner'.step = runner.step /\ runner'.clean = runner.clean
    /\ ~runner.open => ~runner'.open
    /\ word # "complete" => (runner'.state \in Finished <=> runner.state \in Finished)
    /\ \/ runner'.state = runner.state
       \/ runner.state \in {"running", "complete"}
       \/ /\ runner.state = "cleaning" /\ runner'.state = "ok"
          /\ word \in {"cleanup_skipped", "cleanup_finished"}

\* Nothing is printed,
LEMMA SilentStep ==
    ASSUME LogHolds, log' = log, GoesOn("nothing")
    PROVE  LogHolds'
<1>1. /\ log \in Seq(Words) /\ LinesBegun /\ StepSaid /\ CompletedLast /\ CleanupSaid /\ ProvisioningSaid
      /\ runner'.step = runner.step /\ runner'.clean = runner.clean
      /\ ~runner.open => ~runner'.open
      /\ runner'.state \in Finished <=> runner.state \in Finished
      /\ runner'.state = runner.state \/ runner.state \in {"running", "complete"}
  BY DEF LogHolds, GoesOn
<1>2. LinesBegun' /\ StepSaid'
  BY <1>1 DEF LinesBegun, StepSaid
<1>3. CompletedLast'
  BY <1>1 DEF CompletedLast, Lines
<1>4. CleanupSaid'
  BY <1>1 DEF CleanupSaid, Succeeded, Lines
<1>5. ProvisioningSaid'
  BY <1>1 DEF ProvisioningSaid
<1>6. QED
  BY <1>1, <1>2, <1>3, <1>4, <1>5 DEF LogHolds

\* Where a line that announces no phase is printed.
SaidWhere(word) ==
    /\ word = "complete" => runner'.state \in Finished
    /\ word = "cleanup" => runner.clean /\ runner'.state = "cleaning"
    /\ word = "cleanup_finished" => runner'.state = "ok"
    /\ word = "provisioning" => runner.step = 6 /\ ~runner'.open

\* or a line that announces no phase.
LEMMA SilentLine ==
    ASSUME NEW word \in {"banner", "provisioning", "recovery", "complete", "cleanup", "cleanup_skipped",
                         "cleanup_finished"},
           LogHolds, GoesOn(word), Prints(word),
           SaidWhere(word)
    PROVE  LogHolds'
<1>1. /\ log \in Seq(Words) /\ LinesBegun /\ StepSaid /\ CompletedLast /\ CleanupSaid /\ ProvisioningSaid
  BY DEF LogHolds
<1>2. /\ runner'.step = runner.step /\ runner'.clean = runner.clean
      /\ ~runner.open => ~runner'.open
  BY DEF GoesOn
<1>3. word \in Words /\ word # "start" /\ \A k \in Steps : ~PhaseMatch(k, word)
  <2>1. word \in Words
    BY DEF Words
  <2>2. word \notin {"backup", "stop", "checkout", "migrations", "nomigrations", "render", "start"}
    OBVIOUS
  <2>3. QED
    BY <2>1, <2>2, Announcements
<1>4. PICK n \in Nat : n = Len(log)
  BY <1>1, LenProperties
<1>0. log' \in Seq(Words)
  BY <1>1, <1>3, Appended
<1>5. /\ n \in Nat
      /\ Len(log') = n + 1 /\ DOMAIN log = 1..n /\ DOMAIN log' = 1..(n + 1)
      /\ \A i \in 1..n : log'[i] = log[i]
      /\ log'[n + 1] = word
  BY <1>1, <1>3, <1>4, Appended
<1>51. /\ word = "complete" => runner'.state \in Finished
       /\ word = "cleanup" => runner.clean /\ runner'.state = "cleaning"
       /\ word = "cleanup_finished" => runner'.state = "ok"
       /\ word = "provisioning" => runner.step = 6 /\ ~runner'.open
  BY DEF SaidWhere
<1>6. LinesBegun'
  <2> SUFFICES ASSUME NEW i \in DOMAIN log', NEW k \in Steps, PhaseMatch(k, log'[i])
               PROVE  /\ k <= runner.step
                      /\ \/ k = runner.step
                         \/ \E j \in i + 1 .. Len(log') : PhaseMatch(runner.step, log'[j])
    BY <1>2 DEF LinesBegun
  <2>1. i \in 1..n /\ log'[i] = log[i]
    BY <1>3, <1>5
  <2>2. /\ k <= runner.step
        /\ k = runner.step \/ \E j \in i + 1 .. n : PhaseMatch(runner.step, log[j])
    BY <1>1, <1>4, <1>5, <2>1 DEF LinesBegun
  <2>3. \A j \in i + 1 .. n : j \in i + 1 .. n + 1 /\ log'[j] = log[j]
    BY <1>5, <2>1
  <2>4. QED
    BY <1>5, <2>2, <2>3
<1>7. StepSaid'
  BY <1>1, <1>2, <1>5 DEF StepSaid
<1>8. CompletedLast'
  <2>1. CASE word = "complete"
    <3>1. log'[n + 1] = "complete" /\ n + 1 \in DOMAIN log'
      BY <1>5, <2>1
    <3>2. \A i \in DOMAIN log', k \in Steps : PhaseMatch(k, log'[i]) => i < n + 1
      BY <1>3, <1>5
    <3>3. QED
      BY <1>51, <2>1, <3>1, <3>2 DEF CompletedLast
  <2>2. CASE word # "complete"
    <3>1. runner'.state \in Finished <=> runner.state \in Finished
      BY <2>2 DEF GoesOn
    <3>2. "complete" \in Lines(log') => "complete" \in Lines(log)
      BY <1>5, <2>2 DEF Lines
    <3>3. ASSUME NEW c \in DOMAIN log, log[c] = "complete",
                 \A i \in DOMAIN log, k \in Steps : PhaseMatch(k, log[i]) => i < c
          PROVE  /\ c \in DOMAIN log' /\ log'[c] = "complete"
                 /\ \A i \in DOMAIN log', k \in Steps : PhaseMatch(k, log'[i]) => i < c
      BY <1>3, <1>5, <3>3
    <3>4. QED
      BY <1>1, <3>1, <3>2, <3>3 DEF CompletedLast
  <2>3. QED
    BY <2>1, <2>2
<1>9. CleanupSaid'
  <2>1. /\ runner.state \in {"running", "complete"} => \A i \in DOMAIN log : log[i] # "cleanup" /\ log[i] # "cleanup_finished"
        /\ \A i \in DOMAIN log : log[i] = "cleanup_finished" => runner.state = "ok"
        /\ \A i \in DOMAIN log : log[i] = "cleanup" =>
              /\ runner.clean
              /\ \/ runner.state = "cleaning"
                 \/ runner.state = "ok" /\ \E j \in i + 1 .. n : log[j] \in {"cleanup_skipped", "cleanup_finished"}
    BY <1>1, <1>4 DEF CleanupSaid, Lines, Succeeded
  <2>2. ASSUME NEW i \in DOMAIN log', log'[i] = "cleanup"
        PROVE  /\ runner'.clean
               /\ \/ runner'.state = "cleaning"
                  \/ /\ runner'.state = "ok"
                     /\ \E j \in i + 1 .. Len(log') : log'[j] \in {"cleanup_skipped", "cleanup_finished"}
    <3>1. CASE i = n + 1
      BY <1>51, <1>2, <1>5, <2>2, <3>1
    <3>2. CASE i \in 1..n
      <4>1. log[i] = "cleanup" /\ i \in DOMAIN log
        BY <1>5, <2>2, <3>2
      <4>2. runner.clean /\ runner.state \in {"cleaning", "ok"}
        BY <2>1, <4>1
      <4>3. CASE runner.state = "cleaning" /\ runner'.state # "cleaning"
        <5>1. runner'.state = "ok" /\ word \in {"cleanup_skipped", "cleanup_finished"}
          BY <4>3 DEF GoesOn
        <5>2. n + 1 \in i + 1 .. Len(log')
          BY <1>5, <3>2
        <5>3. QED
          BY <1>2, <1>5, <4>2, <5>1, <5>2
      <4>4. CASE runner.state = "ok"
        <5>1. runner'.state = "ok"
          BY <4>4 DEF GoesOn
        <5>2. PICK j \in i + 1 .. n : log[j] \in {"cleanup_skipped", "cleanup_finished"}
          BY <2>1, <4>1, <4>4
        <5>3. j \in i + 1 .. Len(log') /\ log'[j] = log[j]
          BY <1>5, <3>2, <5>2
        <5>4. QED
          BY <1>2, <4>2, <5>1, <5>2, <5>3
      <4>5. QED
        BY <1>2, <4>2, <4>3, <4>4
    <3>3. QED
      BY <1>5, <3>1, <3>2
  <2>3. ASSUME NEW i \in DOMAIN log', log'[i] = "cleanup_finished" PROVE runner'.state = "ok"
    <3>1. CASE i = n + 1
      BY <1>5, <1>51, <2>3, <3>1
    <3>2. CASE i \in 1..n
      <4>1. log[i] = "cleanup_finished" /\ i \in DOMAIN log
        BY <1>5, <2>3, <3>2
      <4>2. runner.state = "ok"
        BY <2>1, <4>1
      <4>3. QED
        BY <4>2 DEF GoesOn
    <3>3. QED
      BY <1>5, <3>1, <3>2
  <2>4. QED
    BY <2>2, <2>3 DEF CleanupSaid, Lines, Succeeded
<1>10. ProvisioningSaid'
  <2> SUFFICES ASSUME NEW i \in DOMAIN log', log'[i] = "provisioning"
               PROVE  /\ runner'.step = 6 /\ ~runner'.open
                      /\ \A s \in DOMAIN log' : log'[s] = "start" => s < i
    BY DEF ProvisioningSaid
  <2>1. \A s \in DOMAIN log' : log'[s] = "start" => s \in DOMAIN log /\ log[s] = "start" /\ s <= n
    BY <1>3, <1>5
  <2>2. CASE i = n + 1
    BY <1>2, <1>5, <1>51, <2>1, <2>2
  <2>3. CASE i \in 1..n
    <3>1. log[i] = "provisioning" /\ i \in DOMAIN log
      BY <1>5, <2>3
    <3>2. QED
      BY <1>1, <1>2, <2>1, <3>1 DEF ProvisioningSaid
  <2>4. QED
    BY <1>5, <2>2, <2>3
<1>11. QED
  BY <1>0, <1>6, <1>7, <1>8, <1>9, <1>10 DEF LogHolds

\* A phase that begins says so, in the last line; there are no lines of what comes later.
LEMMA BeginSays ==
    ASSUME RunInv, LogHolds, Begin
    PROVE  LogHolds'
<1>1. /\ log \in Seq(Words) /\ LinesBegun /\ StepSaid /\ CompletedLast /\ CleanupSaid /\ ProvisioningSaid
  BY DEF LogHolds
<1>2. PICK step \in Steps : step = NextStep
  BY DEF Begin
<1>3. PICK word \in Announced(step) : Say(<<word>>)
  BY <1>2 DEF Begin
<1>4. /\ word \in {"backup", "stop", "checkout", "migrations", "nomigrations", "render", "start"}
      /\ \A j \in Steps : PhaseMatch(j, word) <=> j = step
  BY Announcements
<1>5. word \in Words
  BY <1>4 DEF Words
<1>6. PICK n \in Nat : n = Len(log)
  BY <1>1, LenProperties
<1>7. log' \in Seq(Words)
  BY <1>1, <1>3, <1>5, SaidIs, Appended
<1>8. /\ n \in Nat
      /\ Len(log') = n + 1 /\ DOMAIN log = 1..n /\ DOMAIN log' = 1..(n + 1)
      /\ \A i \in 1..n : log'[i] = log[i]
      /\ log'[n + 1] = word
  BY <1>1, <1>3, <1>5, <1>6, SaidIs, Appended
<1>9. /\ runner.state = "running" /\ ~runner.open
      /\ runner'.state = "running" /\ runner'.step = step /\ runner'.clean = runner.clean
  BY <1>2 DEF Begin, RunInv, UpgradeTypes, Containers
<1>10. runner.step \in 0..6 /\ step \in 1..6 /\ runner.step < step
  BY <1>2, Announcements DEF NextStep, RunInv, UpgradeTypes, Containers
<1>11. LinesBegun'
  <2> SUFFICES ASSUME NEW i \in DOMAIN log', NEW k \in Steps, PhaseMatch(k, log'[i])
               PROVE  /\ k <= step
                      /\ \/ k = step
                         \/ \E j \in i + 1 .. Len(log') : PhaseMatch(step, log'[j])
    BY <1>9 DEF LinesBegun
  <2>1. CASE i = n + 1
    BY <1>4, <1>8, <1>10, <2>1
  <2>2. CASE i \in 1..n
    <3>1. k <= runner.step
      BY <1>1, <1>8, <2>2 DEF LinesBegun
    <3>2. k <= step
      BY <1>10, <3>1, Announcements
    <3>3. n + 1 \in i + 1 .. Len(log') /\ PhaseMatch(step, log'[n + 1])
      BY <1>4, <1>8, <2>2
    <3>4. QED
      BY <3>2, <3>3
  <2>3. QED
    BY <1>8, <2>1, <2>2
<1>12. StepSaid'
  BY <1>4, <1>8, <1>9 DEF StepSaid
<1>13. "complete" \notin Lines(log) /\ \A i \in DOMAIN log : log[i] \notin {"cleanup", "cleanup_finished"}
  BY <1>1, <1>9 DEF CompletedLast, CleanupSaid, Lines, Succeeded, Finished
<1>14. \A i \in DOMAIN log' : log'[i] \notin {"complete", "cleanup", "cleanup_finished"}
  <2>1. \A i \in 1..n : log'[i] \notin {"complete", "cleanup", "cleanup_finished"}
    BY <1>8, <1>13 DEF Lines
  <2>2. word \notin {"complete", "cleanup", "cleanup_finished"}
    BY <1>4
  <2>3. QED
    BY <1>8, <2>1, <2>2
<1>15. CompletedLast' /\ CleanupSaid'
  BY <1>9, <1>14 DEF CompletedLast, CleanupSaid, Lines, Finished
<1>16. ProvisioningSaid'
  <2>1. runner.step # 6
    BY <1>10
  <2>2. \A i \in 1..n : log[i] # "provisioning"
    BY <1>1, <1>8, <2>1 DEF ProvisioningSaid
  <2>3. \A i \in DOMAIN log' : log'[i] # "provisioning"
    BY <1>4, <1>8, <2>2
  <2>4. QED
    BY <2>3 DEF ProvisioningSaid
<1>17. QED
  BY <1>7, <1>11, <1>12, <1>15, <1>16 DEF LogHolds

\* A container that has printed nothing yet, or none.
LEMMA EmptyLog ==
    ASSUME log = <<>>, runner.step = 0, runner.state \notin Finished
    PROVE  LogHolds
<1>1. log \in Seq(Words) /\ DOMAIN log = {}
  BY EmptySeq
<1>2. QED
  BY <1>1 DEF LogHolds, LinesBegun, StepSaid, CompletedLast, CleanupSaid, ProvisioningSaid, Lines

LEMMA FreshLog ==
    ASSUME log' = <<>>, runner'.step = 0, runner'.state \notin Finished
    PROVE  LogHolds'
<1>1. log' \in Seq(Words) /\ DOMAIN log' = {}
  BY EmptySeq
<1>2. QED
  BY <1>1 DEF LogHolds, LinesBegun, StepSaid, CompletedLast, CleanupSaid, ProvisioningSaid, Lines

\* The lines that announce no phase.
LEMMA DoneSays ==
    ASSUME RunInv, LogHolds, Done
    PROVE  LogHolds'
<1>1. /\ runner.state = "running" /\ runner.step \in 1..6 /\ runner'.state = "running" /\ ~runner'.open
      /\ runner'.step = runner.step /\ runner'.clean = runner.clean
  BY DoneLeaves
<1>2. \A word : GoesOn(word)
  BY <1>1 DEF GoesOn
<1>3. log \in Seq(Words) /\ "provisioning" \in Words /\ "banner" \in Words
  BY DEF LogHolds, Words
<1>4. CASE log' = log
  BY <1>2, <1>4, SilentStep
<1>5. CASE runner.step = 6
  <2>1. log' = log \/ Prints("provisioning")
    BY <1>5, DoneDoes DEF Prints
  <2>2. SaidWhere("provisioning")
    BY <1>1, <1>5 DEF SaidWhere
  <2>3. QED
    BY <1>2, <1>4, <2>1, <2>2, SilentLine
<1>6. CASE runner.step = 3
  <2>1. Say(<<"banner">>)
    BY <1>6, DoneDoes DEF Say
  <2>2. Prints("banner")
    BY <1>3, <2>1, SaidIs
  <2>3. SaidWhere("banner")
    BY DEF SaidWhere
  <2>4. QED
    BY <1>2, <2>2, <2>3, SilentLine
<1>7. CASE runner.step \in {1, 2, 4, 5}
  <2>1. /\ runner.step \in {1, 4} => log' = log
        /\ runner.step = 2 => log' = log
        /\ runner.step = 5 => log' = log
    BY DoneDoes
  <2>2. QED
    BY <1>4, <1>7, <2>1
<1>8. QED
  BY <1>1, <1>5, <1>6, <1>7

LEMMA FailSays ==
    ASSUME RunInv, LogHolds, Fail
    PROVE  LogHolds'
<1>1. /\ runner.state = "running" /\ runner'.state = "failed" /\ runner'.open = runner.open
      /\ runner'.step = runner.step /\ runner'.clean = runner.clean
  BY DEF Fail, RunInv, UpgradeTypes, Containers
<1>2. \A word : GoesOn(word)
  BY <1>1 DEF GoesOn, Finished
<1>3. log' = log \/ Prints("recovery")
  BY DEF Fail, Prints
<1>4. SaidWhere("recovery")
  BY DEF SaidWhere
<1>5. QED
  BY <1>2, <1>3, <1>4, SilentStep, SilentLine

LEMMA CompleteSays ==
    ASSUME RunInv, LogHolds, Complete
    PROVE  LogHolds'
<1>1. /\ runner.state = "running" /\ runner'.state = "complete" /\ runner'.open = runner.open
      /\ runner'.step = runner.step /\ runner'.clean = runner.clean
  BY DEF Complete, RunInv, UpgradeTypes, Containers
<1>2. GoesOn("complete") /\ SaidWhere("complete")
  BY <1>1 DEF GoesOn, SaidWhere, Finished
<1>3. Prints("complete")
  BY SaidIs DEF Complete, LogHolds, Words
<1>4. QED
  BY <1>2, <1>3, SilentLine

LEMMA RunnerCleansUpSays ==
    ASSUME RunInv, LogHolds, RunnerCleansUp
    PROVE  LogHolds'
<1>1. runner \in Containers /\ runner.state = "complete"
  BY DEF RunnerCleansUp, RunInv, UpgradeTypes
<1>2. CASE runner.clean
  <2>1. /\ runner'.state = "cleaning" /\ runner'.open = runner.open
        /\ runner'.step = runner.step /\ runner'.clean = runner.clean
    BY <1>1, <1>2 DEF RunnerCleansUp, Containers
  <2>2. GoesOn("cleanup") /\ SaidWhere("cleanup")
    BY <1>1, <1>2, <2>1 DEF GoesOn, SaidWhere, Finished
  <2>3. Prints("cleanup")
    BY <1>2, SaidIs DEF RunnerCleansUp, LogHolds, Words
  <2>4. QED
    BY <2>2, <2>3, SilentLine
<1>3. CASE ~runner.clean
  <2>1. /\ runner'.state = "ok" /\ runner'.open = runner.open /\ log' = log
        /\ runner'.step = runner.step /\ runner'.clean = runner.clean
    BY <1>1, <1>3 DEF RunnerCleansUp, Containers
  <2>2. GoesOn("nothing")
    BY <1>1, <2>1 DEF GoesOn, Finished
  <2>3. QED
    BY <2>1, <2>2, SilentStep
<1>4. QED
  BY <1>2, <1>3

LEMMA EndPruneSays ==
    ASSUME RunInv, PruneHolds, LogHolds, NEW w \in Places, EndPrune(w)
    PROVE  LogHolds'
<1>1. CASE w = "runner"
  <2>1. runner \in Containers /\ runner.state = "cleaning"
    BY <1>1 DEF EndPrune, PruneHolds, RunInv, UpgradeTypes
  <2>2. /\ runner'.state = "ok" /\ runner'.open = runner.open
        /\ runner'.step = runner.step /\ runner'.clean = runner.clean
    BY <1>1, <2>1 DEF EndPrune, Containers
  <2>3. PICK word \in {"cleanup_skipped", "cleanup_finished"} : Say(<<word>>)
    BY <1>1 DEF EndPrune
  <2>4. GoesOn(word) /\ SaidWhere(word)
    BY <2>1, <2>2 DEF GoesOn, SaidWhere, Finished
  <2>5. Prints(word)
    BY <2>3, SaidIs DEF LogHolds, Words
  <2>6. QED
    BY <2>4, <2>5, SilentLine
<1>2. CASE w # "runner"
  <2>1. log' = log /\ runner' = runner
    BY <1>2 DEF EndPrune
  <2>2. GoesOn("nothing")
    BY <2>1 DEF GoesOn
  <2>3. QED
    BY <2>1, <2>2, SilentStep
<1>3. QED
  BY <1>1, <1>2

LEMMA LogStart == UpgradeInit => LogHolds
<1>1. UpgradeInit => log = <<>> /\ runner.step = 0 /\ runner.state \notin Finished
  BY DEF UpgradeInit, NoRunner, Finished
<1>2. QED
  BY <1>1, EmptyLog

LEMMA LogStep ==
    ASSUME RunInv, PruneHolds, LogHolds, [UpgradeNext]_upgradeVars
    PROVE  LogHolds'
<1>1. CASE UNCHANGED <<log, runner>>
  <2>1. GoesOn("nothing")
    BY <1>1 DEF GoesOn
  <2>2. QED
    BY <1>1, <2>1, SilentStep
<1>2. CASE \E force, backup, clean \in BOOLEAN : StartUpgrade(force, backup, clean)
  <2>1. log' = <<>> /\ runner'.step = 0 /\ runner'.state = "running"
    BY <1>2 DEF StartUpgrade, Launch, NoRunner
  <2>2. QED
    BY <2>1, FreshLog DEF Finished
<1>3. CASE Clear
  <2>1. log' = <<>> /\ runner'.step = 0 /\ runner'.state = "none"
    BY <1>3 DEF Clear, ClearAndClean, NoRunner
  <2>2. QED
    BY <2>1, FreshLog DEF Finished
<1>4. CASE Begin
  BY <1>4, BeginSays
<1>5. CASE Done
  BY <1>5, DoneSays
<1>6. CASE Fail
  BY <1>6, FailSays
<1>7. CASE Complete
  BY <1>7, CompleteSays
<1>8. CASE RunnerCleansUp
  BY <1>8, RunnerCleansUpSays
<1>9. ASSUME NEW w \in Places, EndPrune(w) PROVE LogHolds'
  BY <1>9, EndPruneSays
<1>10. CASE \/ \E want \in {0} \cup Releases : RunCheck(want)
            \/ PruneImages \/ GoBack \/ ManagerStarts \/ PollStatus \/ PanelShown
            \/ \E w \in Places : \/ \E what \in Readers : ReadImages(w, what)
                                 \/ \E i \in Releases : RemoveImage(w, i)
            \/ UNCHANGED upgradeVars
  <2>1. UNCHANGED <<log, runner>>
    BY <1>10 DEF RunCheck, PruneImages, GoBack, ManagerStarts, PollStatus, PanelShown, ReadImages,
       RemoveImage, upgradeVars
  <2>2. QED
    BY <1>1, <2>1
<1>11. QED
  BY <1>2, <1>3, <1>4, <1>5, <1>6, <1>7, <1>8, <1>9, <1>10
     DEF UpgradeNext, UpgradeRequests, UpgradeRun, Places, Readers

\* What the panel asks for is the end of the output, all of it if it is no longer than the window.
LEMMA WindowIs ==
    ASSUME log \in Seq(Words)
    PROVE  \E d \in Nat :
              /\ Len(Shown) \in Nat /\ DOMAIN Shown = 1..Len(Shown) /\ Len(log) = d + Len(Shown)
              /\ DOMAIN log = 1..Len(log)
              /\ \A i \in 1..Len(Shown) : Shown[i] = log[d + i]
              /\ d # 0 => Len(Shown) = PanelLines
<1>1. PICK l \in Seq(Words) : l = log
  OBVIOUS
<1>2. Len(l) \in Nat /\ DOMAIN l = 1..Len(l) /\ PanelLines \in Nat \ {0}
  BY LenProperties, UpgradeConstants
<1>3. PICK m \in Int : m = Max2(1, Len(l) - PanelLines + 1)
  <2>1. \A a, b \in Int : Max2(a, b) \in Int
    BY DEF Max2
  <2>2. PICK first \in Int : first = Len(l) - PanelLines + 1
    <3>1. \A a \in Nat, b \in Nat \ {0} : a - b + 1 \in Int
      OBVIOUS
    <3>2. Len(l) \in Nat /\ PanelLines \in Nat \ {0}
      BY <1>2
    <3>3. Len(l) - PanelLines + 1 \in Int
      BY <3>1, <3>2
    <3>4. QED
      BY <3>3
  <2>3. Max2(1, first) \in Int
    BY <2>1
  <2>4. QED
    BY <2>2, <2>3
<1>4. m >= 1 /\ m <= Len(l) + 1 /\ (m # 1 => Len(l) - m + 1 = PanelLines)
  BY <1>2, <1>3 DEF Max2
<1>5. PICK tail : tail = SubSeq(l, m, Len(l))
  OBVIOUS
<1>6. /\ tail \in Seq(Words) /\ Len(tail) = IF m <= Len(l) THEN Len(l) - m + 1 ELSE 0
      /\ \A i \in 1..Len(l) - m + 1 : tail[i] = l[m + i - 1]
  <2>1. m \in 1..Len(l) + 1 /\ Len(l) \in m - 1 .. Len(l)
    BY <1>2, <1>4
  <2>2. QED
    BY <1>2, <1>4, <1>5, <2>1, SubSeqProperties
<1>7. Len(tail) = Len(l) - m + 1 /\ DOMAIN tail = 1..Len(tail)
  BY <1>2, <1>4, <1>6, LenProperties
<1>8. PICK d \in Nat : d = m - 1
  BY <1>4
<1>9. /\ Len(tail) \in Nat /\ Len(l) = d + Len(tail)
      /\ \A i \in 1..Len(tail) : tail[i] = l[d + i]
      /\ d # 0 => Len(tail) = PanelLines
  <2>1. Len(tail) \in Nat /\ Len(l) = d + Len(tail) /\ (d # 0 => Len(tail) = PanelLines)
    BY <1>2, <1>4, <1>7, <1>8
  <2>2. \A i \in 1..Len(l) - m + 1 : tail[i] = l[d + i]
    <3>1. \A i \in 1..Len(l) - m + 1 : m + i - 1 = d + i
      BY <1>2, <1>8
    <3>2. QED
      BY <1>6, <3>1
  <2>3. QED
    BY <1>7, <2>1, <2>2
<1>10. Shown = tail
  BY <1>1, <1>3, <1>5 DEF Shown, Tail2
<1>11. QED
  BY <1>1, <1>2, <1>7, <1>9, <1>10

\* The last phase the panel sees is the last one announced: what is in the window and what is not.
LEMMA LastSeenIs ==
    ASSUME RunInv, LogHolds, NEW k \in Seen(Shown)
    PROVE  runner.step \in Steps /\ LastSeen(Shown) = runner.step /\ k <= runner.step
<1>1. log \in Seq(Words) /\ LinesBegun
  BY DEF LogHolds
<1>2. PICK d \in Nat : /\ Len(Shown) \in Nat /\ DOMAIN Shown = 1..Len(Shown) /\ Len(log) = d + Len(Shown)
                       /\ DOMAIN log = 1..Len(log)
                       /\ \A i \in 1..Len(Shown) : Shown[i] = log[d + i]
  BY <1>1, WindowIs
<1>3. ASSUME NEW o \in Seen(Shown)
      PROVE  o <= runner.step /\ o \in 1..6 /\ \E j \in 1..Len(Shown) : PhaseMatch(runner.step, Shown[j])
  <2>1. PICK i \in 1..Len(Shown) : PhaseMatch(o, Shown[i])
    BY <1>2 DEF Seen, Lines
  <2>2. d + i \in DOMAIN log /\ PhaseMatch(o, log[d + i]) /\ o \in Steps
    BY <1>2, <2>1 DEF Seen
  <2>3. /\ o <= runner.step
        /\ o = runner.step \/ \E j \in d + i + 1 .. Len(log) : PhaseMatch(runner.step, log[j])
    BY <1>1, <2>2 DEF LinesBegun
  <2>4. CASE o = runner.step
    BY <2>1, <2>2, <2>3, <2>4, Announcements
  <2>5. ASSUME NEW j \in d + i + 1 .. Len(log), PhaseMatch(runner.step, log[j])
        PROVE  \E m \in 1..Len(Shown) : PhaseMatch(runner.step, Shown[m])
    <3>1. j - d \in 1..Len(Shown) /\ d + (j - d) = j
      BY <1>2, <2>1
    <3>2. Shown[j - d] = log[j]
      BY <1>2, <3>1
    <3>3. QED
      BY <2>5, <3>1, <3>2
  <2>6. QED
    BY <2>2, <2>3, <2>4, <2>5, Announcements
<1>4. runner.step \in Steps
  <2>1. runner.step \in 0..6
    BY DEF RunInv, UpgradeTypes, Containers
  <2>2. QED
    BY <1>3, <2>1, Announcements
<1>5. runner.step \in Seen(Shown)
  BY <1>2, <1>3, <1>4 DEF Seen, Lines
<1>6. \A o \in Seen(Shown) : o <= runner.step /\ o \in 1..6
  BY <1>3
<1>7. (CHOOSE s \in Seen(Shown) : \A o \in Seen(Shown) : o <= s) = runner.step
  <2>1. \E s \in Seen(Shown) : \A o \in Seen(Shown) : o <= s
    BY <1>5, <1>6
  <2>2. PICK s : s = CHOOSE t \in Seen(Shown) : \A o \in Seen(Shown) : o <= t
    OBVIOUS
  <2>3. s \in Seen(Shown) /\ \A o \in Seen(Shown) : o <= s
    BY <2>1, <2>2
  <2>4. s <= runner.step /\ runner.step <= s /\ s \in Int /\ runner.step \in Int
    BY <1>4, <1>5, <1>6, <2>3, Announcements
  <2>5. QED
    BY <2>2, <2>4
<1>8. QED
  BY <1>3, <1>4, <1>5, <1>7 DEF LastSeen

\* A phase shown as over, running or stopped is so, whatever is left of the output.
LEMMA PhasesAreReal ==
    ASSUME RunInv, LogHolds, Polled, NEW k \in Steps
    PROVE  LET shown == Phase(Shown, poll.running, k)
           IN /\ shown = "done" => k < runner.step \/ (k = runner.step /\ ~runner.open)
              /\ shown = "running" => k = runner.step
              /\ shown = "failed" => k = runner.step /\ runner.state = "failed"
<1>1. log \in Seq(Words) /\ CompletedLast
  BY DEF LogHolds
<1>2. PICK d \in Nat : /\ Len(Shown) \in Nat /\ DOMAIN Shown = 1..Len(Shown) /\ Len(log) = d + Len(Shown)
                       /\ DOMAIN log = 1..Len(log)
                       /\ \A i \in 1..Len(Shown) : Shown[i] = log[d + i]
  BY <1>1, WindowIs
<1>3. PICK shown : shown = Phase(Shown, poll.running, k)
  OBVIOUS
<1>4. k \in 1..6
  BY Announcements
<1>5. CASE "complete" \in Lines(Shown)
  <2>1. "complete" \in Lines(log)
    BY <1>2, <1>5 DEF Lines
  <2>2. runner.step = 6 /\ ~runner.open
    BY <1>1, <2>1 DEF CompletedLast, RunInv, RunHolds
  <2>3. shown \in {"done", "skipped"}
    BY <1>3, <1>5 DEF Phase
  <2>4. QED
    BY <1>3, <1>4, <2>2, <2>3
<1>6. CASE "complete" \notin Lines(Shown) /\ k \in Seen(Shown)
  <2>1. runner.step \in 1..6 /\ LastSeen(Shown) = runner.step /\ k <= runner.step
    BY <1>6, LastSeenIs, Announcements
  <2>2. shown = IF k < runner.step THEN "done" ELSE IF poll.running THEN "running" ELSE "failed"
    BY <1>3, <1>6, <2>1 DEF Phase
  <2>3. runner.state \notin Finished
    <3>1. SUFFICES ASSUME runner.state \in Finished PROVE FALSE
      OBVIOUS
    <3>2. PICK c \in DOMAIN log : /\ log[c] = "complete"
                                  /\ \A i \in DOMAIN log, j \in Steps : PhaseMatch(j, log[i]) => i < c
      BY <1>1, <3>1 DEF CompletedLast
    <3>3. PICK i \in 1..Len(Shown) : PhaseMatch(k, Shown[i])
      BY <1>2, <1>6 DEF Seen, Lines
    <3>4. d + i \in DOMAIN log /\ d + i < c
      BY <1>2, <3>2, <3>3
    <3>5. c - d \in 1..Len(Shown) /\ d + (c - d) = c
      BY <1>2, <3>2, <3>4
    <3>6. Shown[c - d] = "complete"
      BY <1>2, <3>2, <3>5
    <3>7. QED
      BY <1>2, <1>6, <3>5, <3>6 DEF Lines
  <2>4. ~poll.running => runner.state = "failed"
    BY <2>3 DEF RunInv, UpgradeTypes, RunHolds, PollHolds, Polled, IsRunning, Containers, RunnerStates,
       Finished, NoRunner
  <2>5. k < runner.step \/ k = runner.step
    BY <1>4, <2>1
  <2>6. QED
    BY <1>3, <2>2, <2>4, <2>5
<1>7. CASE "complete" \notin Lines(Shown) /\ k \notin Seen(Shown)
  <2>1. shown \in {"done", "running", "failed"} => FALSE
    BY <1>3, <1>7 DEF Phase
  <2>2. QED
    BY <1>3, <2>1
<1>8. QED
  BY <1>5, <1>6, <1>7

\* The cleanup of images is shown as running or done only if it is.
LEMMA ImagesAreReal ==
    ASSUME RunInv, LogHolds, Polled
    PROVE  /\ ImagesPhase(Shown, poll.running) = "running" => runner.state = "cleaning"
           /\ ImagesPhase(Shown, poll.running) = "done" => Succeeded /\ runner.clean
<1>1. log \in Seq(Words) /\ CleanupSaid
  BY DEF LogHolds
<1>2. PICK d \in Nat : /\ Len(Shown) \in Nat /\ DOMAIN Shown = 1..Len(Shown) /\ Len(log) = d + Len(Shown)
                       /\ DOMAIN log = 1..Len(log)
                       /\ \A i \in 1..Len(Shown) : Shown[i] = log[d + i]
  BY <1>1, WindowIs
<1>3. PICK images : images = ImagesPhase(Shown, poll.running)
  OBVIOUS
<1>4. CASE "cleanup" \in Lines(Shown)
  <2>1. PICK i \in 1..Len(Shown) : Shown[i] = "cleanup"
    BY <1>2, <1>4 DEF Lines
  <2>2. d + i \in DOMAIN log /\ log[d + i] = "cleanup"
    BY <1>2, <2>1
  <2>3. /\ runner.clean
        /\ \/ runner.state = "cleaning"
           \/ runner.state = "ok" /\ \E j \in d + i + 1 .. Len(log) : log[j] \in {"cleanup_skipped", "cleanup_finished"}
    BY <1>1, <2>2 DEF CleanupSaid
  <2>4. images = "running" => runner.state = "cleaning"
    <3>1. SUFFICES ASSUME images = "running", runner.state = "ok" PROVE FALSE
      BY <2>3
    <3>2. PICK j \in d + i + 1 .. Len(log) : log[j] \in {"cleanup_skipped", "cleanup_finished"}
      BY <2>3, <3>1
    <3>3. j - d \in 1..Len(Shown) /\ d + (j - d) = j
      BY <1>2, <2>1, <3>2
    <3>4. Shown[j - d] \in {"cleanup_skipped", "cleanup_finished"}
      BY <1>2, <3>2, <3>3
    <3>5. "cleanup_skipped" \in Lines(Shown) \/ "cleanup_finished" \in Lines(Shown)
      BY <1>2, <3>3, <3>4 DEF Lines
    <3>6. QED
      BY <1>3, <1>4, <3>1, <3>5 DEF ImagesPhase
  <2>5. images = "done" => Succeeded
    <3>1. SUFFICES ASSUME images = "done" PROVE Succeeded
      OBVIOUS
    <3>2. "cleanup_finished" \in Lines(Shown)
      BY <1>3, <1>4, <3>1 DEF ImagesPhase
    <3>3. "cleanup_finished" \in Lines(log)
      BY <1>2, <3>2 DEF Lines
    <3>4. QED
      BY <1>1, <3>3 DEF CleanupSaid
  <2>6. QED
    BY <1>3, <2>3, <2>4, <2>5
<1>5. CASE "cleanup" \notin Lines(Shown)
  BY <1>5 DEF ImagesPhase
<1>6. QED
  BY <1>4, <1>5

\* The problem of provisioning is behind the start of the stack, in the window or before it.
LEMMA ProvisioningIsSeen ==
    ASSUME RunInv, LogHolds, "provisioning" \in Lines(Shown)
    PROVE  Provisioning(Shown)
<1>1. log \in Seq(Words) /\ StepSaid /\ ProvisioningSaid
  BY DEF LogHolds
<1>2. PICK d \in Nat : /\ Len(Shown) \in Nat /\ DOMAIN Shown = 1..Len(Shown) /\ Len(log) = d + Len(Shown)
                       /\ DOMAIN log = 1..Len(log)
                       /\ \A i \in 1..Len(Shown) : Shown[i] = log[d + i]
                       /\ d # 0 => Len(Shown) = PanelLines
  BY <1>1, WindowIs
<1>3. PICK i \in 1..Len(Shown) : Shown[i] = "provisioning"
  BY <1>2 DEF Lines
<1>4. d + i \in DOMAIN log /\ log[d + i] = "provisioning"
  BY <1>2, <1>3
<1>5. runner.step = 6 /\ \A s \in DOMAIN log : log[s] = "start" => s < d + i
  BY <1>1, <1>4 DEF ProvisioningSaid
<1>6. PICK s \in DOMAIN log : log[s] = "start"
  <2>1. PICK s \in DOMAIN log : PhaseMatch(6, log[s])
    BY <1>1, <1>5 DEF StepSaid
  <2>2. log[s] = "start"
    BY <2>1, OrderIs DEF PhaseMatch
  <2>3. QED
    BY <2>1, <2>2
<1>7. s < d + i
  BY <1>5, <1>6
<1>8. CASE s > d
  <2>1. s - d \in DOMAIN Shown /\ Shown[s - d] = "start"
    <3>1. s - d \in 1..Len(Shown) /\ d + (s - d) = s
      BY <1>2, <1>6, <1>8
    <3>2. QED
      BY <1>2, <1>6, <3>1
  <2>2. i \in (s - d) + 1 .. Len(Shown)
    BY <1>2, <1>3, <1>6, <1>7, <1>8
  <2>3. QED
    BY <1>3, <2>1, <2>2 DEF Provisioning, ProvisioningAfterStart
<1>9. CASE s <= d
  <2>1. d # 0 /\ Len(Shown) = PanelLines
    BY <1>2, <1>6, <1>9
  <2>2. CASE "start" \notin Lines(Shown)
    BY <2>1, <2>2, <1>2, UpgradeConstants DEF Provisioning
  <2>3. CASE "start" \in Lines(Shown)
    <3>1. PICK t \in 1..Len(Shown) : Shown[t] = "start"
      BY <1>2, <2>3 DEF Lines
    <3>2. d + t \in DOMAIN log /\ log[d + t] = "start"
      BY <1>2, <3>1
    <3>3. t < i
      BY <1>2, <1>3, <1>5, <3>1, <3>2
    <3>4. i \in t + 1 .. Len(Shown) /\ t \in DOMAIN Shown
      BY <1>2, <1>3, <3>1, <3>3
    <3>5. QED
      BY <1>3, <3>1, <3>4 DEF Provisioning, ProvisioningAfterStart
  <2>4. QED
    BY <2>2, <2>3
<1>10. QED
  BY <1>2, <1>6, <1>8, <1>9

\* Whatever the panel reads out of the end of the output is so: for every number of releases and of
\* runs, and however many lines the panel asks for.
THEOREM PanelIsTrueAlways == UpgradeSpec => []PanelIsTrue
<1>1. RunInv /\ LogHolds => PanelIsTrue
  BY PhasesAreReal, ImagesAreReal, ProvisioningIsSeen DEF PanelIsTrue, ProgressIsReal, ProvisioningIsReported
<1>2. UpgradeInit => RunInv /\ PruneHolds /\ LogHolds
  BY RunAndPruneStart, LogStart
<1>3. RunInv /\ PruneHolds /\ LogHolds /\ [UpgradeNext]_upgradeVars => RunInv' /\ PruneHolds' /\ LogHolds'
  BY RunAndPruneStep, LogStep
<1>4. QED
  BY <1>1, <1>2, <1>3, PTL DEF UpgradeSpec

=============================================================================
