--------------------------- MODULE IngestUploads ---------------------------
(***************************************************************************)
(* Uploads staged for embedding: from the first file to the run that reads *)
(* them and the clean-up that removes them.                                *)
(*                                                                         *)
(* core/ingest/uploads.py, runs.py, watcher.py, documents.py,              *)
(* routers/api_ingest.py, the run strip of routers/ui.py.                  *)
(*                                                                         *)
(* All uploads go to one collection, so all runs are runs of one managed   *)
(* job, which reads the upload it was last written for; the ingester, which *)
(* is external, serves what is written at once (whether it accepts it is   *)
(* the matter of IngestCatalog). Other uploads of that collection show as  *)
(* writes of the job. The manager is one event loop: what happens between  *)
(* two awaits is one step, which a kill may still cut in two. Sizes and    *)
(* their limits, owners and names, a selection of some of the files, and   *)
(* runs from the documents folder are left out.                            *)
(***************************************************************************)
EXTENDS Integers, FiniteSets

CONSTANTS
    Uploads,        \* ids of uploads
    Paths,          \* files in an upload
    Starts,         \* requests for a run on their way at the same time
    Saves,          \* files on their way
    Passes,         \* the watcher, and the page that polls a run
    MaxIngests,     \* bound on runs of the ingester
    MaxKills        \* bound on deaths of the manager

VARIABLES
    man,        \* the manifest of each upload
    dir,        \* its staging folder
    old,        \* whether it is past the time limit
    job,        \* the upload whose folder the managed job reads
    runs,       \* the ingester's runs
    start, save, pass,      \* requests and passes under way
    used,       \* ids given out: one is never given again
    kills,
    unread,     \* history: the files no run has embedded as they are
    late        \* history: those stored after a run had read the folder

uploadsVars == <<man, dir, old, job, runs, start, save, pass, used, kills, unread, late>>
history == <<unread, late>>

Runs == 1 .. MaxIngests
None == "none"
Other == "other"

\* No upload is called what stands for one that is not looked at.
ASSUME UploadConstants == MaxIngests \in Nat /\ MaxKills \in Nat /\ Other \notin Uploads

NoManifest == [state |-> "absent", run |-> 0]
Staged == [state |-> "staged", run |-> 0]
NoFolder == [on |-> FALSE, files |-> {}]

\* A run: the upload it reads, and whether a document failed.
NoRun == [status |-> "absent", src |-> None, bad |-> FALSE]

NoStart == [at |-> "idle", up |-> None, run |-> 0]
NoSave == [up |-> None, file |-> None]
NoPass == [at |-> "idle", todo |-> {}, working |-> {}, vain |-> {}]

Present(b) == man[b] # NoManifest

\* _write: every change of a manifest is an activity and starts the time limit again.
WriteManifest(b, m) == man' = [man EXCEPT ![b] = m] /\ old' = [old EXCEPT ![b] = FALSE]

-----------------------------------------------------------------------------
(* Creating and filling *)

\* The folder first, then the manifest.
Create(b) ==
    /\ b \notin used /\ used' = used \cup {b}
    /\ dir' = [dir EXCEPT ![b] = [on |-> TRUE, files |-> {}]]
    /\ WriteManifest(b, Staged)
    /\ UNCHANGED <<job, runs, start, save, pass, kills, history>>

\* save_file up to its first await: the state is looked at here and not again.
BeginSave(i, b, f) ==
    /\ save[i] = NoSave
    /\ Present(b) /\ man[b].state # "embedding" /\ dir[b].on
    /\ save' = [save EXCEPT ![i] = [up |-> b, file |-> f]]
    /\ UNCHANGED <<man, dir, old, job, runs, start, pass, used, kills, history>>

\* os.replace into the folder, then the manifest as it is by now: a folder that was there when
\* the request began goes only together with its manifest.
EndSave(i) ==
    LET b == save[i].up
    IN /\ save[i] # NoSave /\ dir[b].on
       /\ dir' = [dir EXCEPT ![b].files = @ \cup {save[i].file}]
       /\ WriteManifest(b, IF man[b].state = "kept" THEN [man[b] EXCEPT !.state = "staged"] ELSE man[b])
       /\ unread' = [unread EXCEPT ![b] = @ \cup {save[i].file}]
       /\ late' = IF \E r \in Runs : runs[r].src = b /\ runs[r].status # "running"
                  THEN [late EXCEPT ![b] = @ \cup {save[i].file}] ELSE late
       /\ save' = [save EXCEPT ![i] = NoSave]
       /\ UNCHANGED <<job, runs, start, pass, used, kills>>

\* Too large, cut off, or the folder is gone: no file is left.
FailSave(i) ==
    /\ save[i] # NoSave
    /\ save' = [save EXCEPT ![i] = NoSave]
    /\ UNCHANGED <<man, dir, old, job, runs, start, pass, used, kills, history>>

-----------------------------------------------------------------------------
(* Starting a run *)

Active(r) == runs[r].status \in {"running", "read"}
AnyActive == \E r \in Runs : Active(r)

To(s, step) == start' = [start EXCEPT ![s].at = step]
GiveUp(s) == start' = [start EXCEPT ![s] = NoStart]

\* start: _plan. The upload is not being embedded, and there is something in its folder.
Plan(s, b) ==
    /\ start[s] = NoStart
    /\ Present(b) /\ man[b].state # "embedding"
    /\ dir[b].on /\ dir[b].files # {}
    /\ start' = [start EXCEPT ![s] = [at |-> "ask", up |-> b, run |-> 0]]
    /\ UNCHANGED <<man, dir, old, job, runs, save, pass, used, kills, history>>

\* supports_update_without_delete, refuse_while_blocked, _refuse_while_running; then the upsert
\* of the managed job.
Upsert(s) ==
    /\ start[s].at = "ask"
    /\ \/ ~AnyActive /\ job' = start[s].up /\ To(s, "load")
       \/ GiveUp(s) /\ UNCHANGED job
    /\ UNCHANGED <<man, dir, old, runs, save, pass, used, kills, history>>

\* The same, for an upload that is not one of Uploads.
UpsertOther ==
    /\ ~AnyActive
    /\ job # Other /\ job' = Other
    /\ UNCHANGED <<man, dir, old, runs, start, save, pass, used, kills, history>>

ServedAsWritten(s) == job = start[s].up

\* _load: the ingester must serve the path that was written. If it does not, or does not answer,
\* the old definition comes back unless somebody wrote another one since.
Load(s) ==
    /\ start[s].at = "load"
    /\ \/ ServedAsWritten(s) /\ To(s, "run") /\ UNCHANGED job
       \/ GiveUp(s) /\ job' = IF job = start[s].up THEN None ELSE job
    /\ UNCHANGED <<man, dir, old, runs, save, pass, used, kills, history>>

\* The ingester starts a run of what it serves, or answers 409.
AskRun(s) ==
    /\ start[s].at = "run"
    /\ \/ /\ ~AnyActive /\ job # None
          /\ \E r \in Runs :
                /\ runs[r] = NoRun /\ \A q \in 1 .. r - 1 : runs[q] # NoRun
                /\ runs' = [runs EXCEPT ![r] = [NoRun EXCEPT !.status = "running", !.src = job]]
                /\ start' = [start EXCEPT ![s].at = "mark", ![s].run = r]
       \/ GiveUp(s) /\ UNCHANGED runs
    /\ UNCHANGED <<man, dir, old, job, save, pass, used, kills, history>>

\* The answer arrives: mark_embedding, which needs the manifest.
MarkEmbeddingQuietly(s) ==
    /\ start[s].at = "mark"
    /\ man' = IF Present(start[s].up)
              THEN [man EXCEPT ![start[s].up] = [state |-> "embedding", run |-> start[s].run]]
              ELSE man
    /\ GiveUp(s)
    /\ UNCHANGED <<dir, old, job, runs, save, pass, used, kills, history>>
MarkEmbedding(s) ==
    /\ start[s].at = "mark"
    /\ IF Present(start[s].up)
       THEN WriteManifest(start[s].up, [state |-> "embedding", run |-> start[s].run])
       ELSE UNCHANGED <<man, old>>
    /\ GiveUp(s)
    /\ UNCHANGED <<dir, job, runs, save, pass, used, kills, history>>

-----------------------------------------------------------------------------
(* The ingester *)

\* It reads what is in the folder; some documents may fail.
ReadFolder(r) ==
    /\ runs[r].status = "running"
    /\ LET b == runs[r].src
           there == IF b = Other THEN {} ELSE dir[b].files
       IN \E ok \in SUBSET there :
             /\ runs' = [runs EXCEPT ![r].status = "read", ![r].bad = ok # there]
             /\ unread' = IF b = Other THEN unread ELSE [unread EXCEPT ![b] = @ \ ok]
             /\ late' = IF b = Other THEN late ELSE [late EXCEPT ![b] = @ \ ok]
    /\ UNCHANGED <<man, dir, old, job, start, save, pass, used, kills>>

\* success, with or without failed documents; failed, interrupted or aborted.
EndRun(r) ==
    /\ Active(r)
    /\ \E st \in {"failed"} \cup (IF runs[r].status = "read" THEN {"success"} ELSE {}) :
          runs' = [runs EXCEPT ![r].status = st]
    /\ UNCHANGED <<man, dir, old, job, start, save, pass, used, kills, history>>

\* Its history is cleared, or it starts over: the run is unknown.
ForgetRun(r) ==
    /\ runs[r] # NoRun /\ runs[r].status # "forgotten"
    /\ runs' = [runs EXCEPT ![r].status = "forgotten"]
    /\ UNCHANGED <<man, dir, old, job, start, save, pass, used, kills, history>>

\* RunView.clean
CleanDespiteFailures(r) == runs[r].status = "success"
Clean(r) == runs[r].status = "success" /\ ~runs[r].bad

-----------------------------------------------------------------------------
(* Removing *)

\* remove: the files, then the manifest.
RemoveUpload(b) ==
    /\ dir' = [dir EXCEPT ![b] = NoFolder]
    /\ man' = [man EXCEPT ![b] = NoManifest]
    /\ old' = [old EXCEPT ![b] = FALSE]

\* The files cannot be removed, or not all of them: the manifest stays.
RemoveFails(b) ==
    /\ dir[b].on
    /\ \E rest \in SUBSET dir[b].files : dir' = [dir EXCEPT ![b].files = rest]
    /\ UNCHANGED <<man, old>>

Discard(b) ==
    /\ Present(b) /\ man[b].state # "embedding"
    /\ RemoveUpload(b) \/ RemoveFails(b)
    /\ UNCHANGED <<job, runs, start, save, pass, used, kills, history>>

\* reconcile: the uploads to ask about, with their runs, are collected once.
BeginPass(p) ==
    /\ pass[p].at = "idle"
    /\ pass' = [pass EXCEPT ![p] =
          [at |-> "ask", working |-> {}, vain |-> {},
           todo |-> {<<b, man[b].run>> : b \in {u \in Uploads : man[u].state = "embedding"}}]]
    /\ UNCHANGED <<man, dir, old, job, runs, start, save, used, kills, history>>

\* _settle, for one of them. An ingester that does not know the run keeps the files.
SettleKnown(b, r) ==
    IF runs[r].status = "forgotten" THEN UNCHANGED <<man, old, dir>>
    ELSE IF Clean(r) THEN RemoveUpload(b)
    ELSE WriteManifest(b, [man[b] EXCEPT !.state = "kept"]) /\ UNCHANGED dir
Settle(b, r) ==
    IF Clean(r) THEN RemoveUpload(b)
    ELSE WriteManifest(b, [man[b] EXCEPT !.state = "kept"]) /\ UNCHANGED dir

AskAbout(p) ==
    /\ pass[p].at = "ask"
    /\ \E t \in pass[p].todo :
          LET b == t[1]
              r == t[2]
              next == [pass[p] EXCEPT !.todo = @ \ {t}]
          IN \/ /\ Active(r)
                /\ pass' = [pass EXCEPT ![p] = [next EXCEPT !.working = @ \cup {b}]]
                /\ UNCHANGED <<man, old, dir>>
             \/ /\ ~Active(r) /\ Present(b)
                /\ pass' = [pass EXCEPT ![p] = next]
                /\ Settle(b, r)
             \/ /\ ~Active(r) /\ ~Present(b)
                /\ pass' = [pass EXCEPT ![p] = next]
                /\ UNCHANGED <<man, old, dir>>
    /\ UNCHANGED <<job, runs, start, save, used, kills, history>>

\* The ingester cannot be reached, for one of them; or the removal fails.
AskInVain(p) ==
    /\ pass[p].at = "ask"
    /\ \E t \in pass[p].todo :
          /\ pass' = [pass EXCEPT ![p].todo = @ \ {t}, ![p].vain = @ \cup {t[1]}]
          /\ \/ UNCHANGED <<man, old, dir>>
             \/ Present(t[1]) /\ Clean(t[2]) /\ RemoveFails(t[1])
    /\ UNCHANGED <<job, runs, start, save, used, kills, history>>

\* The rest of the pass, after the last answer: the time limit, folders without a manifest,
\* manifests without a folder.
Expired(p) == {b \in Uploads : Present(b) /\ old[b] /\ b \notin pass[p].working}
Unrecorded == {b \in Uploads : dir[b].on /\ ~Present(b) /\ old[b]}
Dropped(p) ==
    {b \in Uploads : Present(b) /\ b \notin Expired(p) /\ man[b].state # "embedding" /\ ~dir[b].on}

EndPass(p) ==
    /\ pass[p].at = "ask" /\ pass[p].todo = {}
    /\ \E stuck \in SUBSET {b \in Expired(p) : dir[b].on} :
          LET go == (Expired(p) \ stuck) \cup Unrecorded
          IN /\ dir' = [b \in Uploads |-> IF b \in go THEN NoFolder ELSE dir[b]]
             /\ man' = [b \in Uploads |-> IF b \in go \cup Dropped(p) THEN NoManifest ELSE man[b]]
             /\ old' = [b \in Uploads |-> old[b] /\ b \notin go \cup Dropped(p)]
    /\ pass' = [pass EXCEPT ![p] = NoPass]
    /\ UNCHANGED <<job, runs, start, save, used, kills, history>>

-----------------------------------------------------------------------------
(* Time, and death *)

\* The limit is hours, a pass takes seconds: what is touched in a pass is not old in it.
Age(b) ==
    /\ \A p \in Passes : pass[p].at = "idle"
    /\ ~old[b] /\ (Present(b) \/ dir[b].on)
    /\ old' = [old EXCEPT ![b] = TRUE]
    /\ UNCHANGED <<man, dir, job, runs, start, save, pass, used, kills, history>>

Killed ==
    /\ kills < MaxKills /\ kills' = kills + 1
    /\ start' = [s \in Starts |-> NoStart]
    /\ save' = [i \in Saves |-> NoSave]
    /\ pass' = [p \in Passes |-> NoPass]
    /\ UNCHANGED <<job, runs, history>>

DieAnywhere == Killed /\ UNCHANGED <<man, dir, old, used>>

\* Between the folder and the manifest of a new upload.
DieCreating(b) ==
    /\ b \notin used /\ used' = used \cup {b}
    /\ dir' = [dir EXCEPT ![b] = [on |-> TRUE, files |-> {}]]
    /\ Killed
    /\ UNCHANGED <<man, old>>

\* Between the files and the manifest of one that is discarded.
DieRemoving(b) ==
    /\ Present(b) /\ man[b].state # "embedding" /\ dir[b].on
    /\ dir' = [dir EXCEPT ![b] = NoFolder]
    /\ Killed
    /\ UNCHANGED <<man, old, used>>

-----------------------------------------------------------------------------

UploadsInit ==
    /\ man = [b \in Uploads |-> NoManifest]
    /\ dir = [b \in Uploads |-> NoFolder]
    /\ old = [b \in Uploads |-> FALSE]
    /\ job = None
    /\ runs = [r \in Runs |-> NoRun]
    /\ start = [s \in Starts |-> NoStart]
    /\ save = [i \in Saves |-> NoSave]
    /\ pass = [p \in Passes |-> NoPass]
    /\ used = {} /\ kills = 0
    /\ unread = [b \in Uploads |-> {}] /\ late = [b \in Uploads |-> {}]

StartStep(s) ==
    \/ \E b \in Uploads : Plan(s, b)
    \/ Upsert(s) \/ Load(s) \/ AskRun(s) \/ MarkEmbedding(s)

UploadsNext ==
    \/ \E b \in Uploads : Create(b) \/ Discard(b) \/ Age(b) \/ DieCreating(b) \/ DieRemoving(b)
    \/ \E i \in Saves : EndSave(i) \/ FailSave(i) \/ \E b \in Uploads, f \in Paths : BeginSave(i, b, f)
    \/ UpsertOther \/ \E s \in Starts : StartStep(s)
    \/ \E r \in Runs : ReadFolder(r) \/ EndRun(r) \/ ForgetRun(r)
    \/ \E p \in Passes : BeginPass(p) \/ AskAbout(p) \/ AskInVain(p) \/ EndPass(p)
    \/ DieAnywhere

UploadsSpec == UploadsInit /\ [][UploadsNext]_uploadsVars

\* The watcher never stops for good: it starts pass after pass, and a pass goes through its
\* uploads one by one. The ingester is asked in vain now and then, not for ever. Time passes.
FairSpec ==
    /\ UploadsSpec
    /\ \A p \in Passes :
          /\ WF_uploadsVars(BeginPass(p))
          /\ WF_uploadsVars(EndPass(p)) /\ WF_uploadsVars(AskAbout(p) \/ AskInVain(p)) /\ SF_uploadsVars(AskAbout(p))
    /\ \A b \in Uploads : SF_uploadsVars(Age(b))

-----------------------------------------------------------------------------
(* Properties *)

\* What a pass removes because its run ended well has been embedded, every file as it is now. Two
\* gaps are left, and no other: a file stored after the run had read the folder, by a request that
\* found the upload not yet marked, and a run that reads another upload because a second start
\* wrote the job between the check of the first and its run.
ConsumedWasEmbedded ==
    [][\A p \in Passes, b \in Uploads :
        (pass[p].at = "ask" /\ pass'[p].todo # pass[p].todo /\ Present(b) /\ man'[b] = NoManifest) =>
            \/ unread[b] \cap dir[b].files \subseteq late[b]
            \/ \E t \in pass[p].todo : t[1] = b /\ runs[t[2]].src # b]_uploadsVars

\* The time limit spares an upload whose run is working, also one that was marked after the pass
\* had collected what to ask about; only an ingester that was asked in vain leaves it unprotected.
LimitSparesWorkingRun ==
    [][\A p \in Passes, b \in Uploads :
        (pass[p].at = "ask" /\ pass'[p].at = "idle" /\ man'[b] = NoManifest
            /\ man[b].state = "embedding" /\ Active(man[b].run)) => b \in pass[p].vain]_uploadsVars

\* An upload whose run is over, or unknown, is settled: removed or kept with a reason.
RunsAreSettled ==
    \A b \in Uploads, r \in Runs :
        LET marked == man[b] = [state |-> "embedding", run |-> r]
        IN (marked /\ ~Active(r)) ~> ~marked

\* Files that no record knows, which a kill between two steps leaves, are removed.
NothingForgotten == \A b \in Uploads : (dir[b].on /\ ~Present(b)) ~> ~dir[b].on

\* Nothing stays for ever: a run that ended is taken note of, and what a kill left behind goes.
UploadsAreSettled == RunsAreSettled /\ NothingForgotten

=============================================================================
