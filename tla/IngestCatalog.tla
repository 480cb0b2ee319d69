--------------------------- MODULE IngestCatalog ---------------------------
(***************************************************************************)
(* The job catalogue of the ingester as the manager edits it: jobs.yaml,   *)
(* the connections and the credentials its jobs refer to, and what the     *)
(* ingester makes of them. Save, enable, delete, replace the file, embed,  *)
(* run, clean up leftovers, add and delete connections and credentials.    *)
(*                                                                         *)
(* core/ingest/jobs_service.py, catalog.py, catalog_load.py, jobspec.py,   *)
(* secrets.py, client.py, core/vectordb/*.py, routers/api_ingest_jobs.py,  *)
(* routers/api_connections.py.                                             *)
(*                                                                         *)
(* The ingester is external. All jobs write to one collection, with labels *)
(* of their own and one model, so that the connection is what two jobs can *)
(* disagree on. A request is suspended whenever it asks the ingester; all  *)
(* that happens between two questions is one step. Left out: the `defaults`*)
(* section, the fields of a job no rule compares, api-keys, dry runs.      *)
(***************************************************************************)
EXTENDS Integers, Sequences, SequencesExt

CONSTANTS
    Ids,            \* job ids
    Managed,        \* those that belong to the Embedding page
    Conns,          \* connection names
    Default,        \* the one that cannot be deleted
    Slots,          \* requests on their way at the same time
    MaxRequests     \* bound on requests and on writes of other programs

VARIABLES
    file,       \* jobs.yaml: a sequence of entries
    conns,      \* the names in connections.yaml
    cred,       \* whether the credential is in secrets.yaml
    served,     \* the jobs the ingester serves
    running,    \* the jobs of which a run is working
    hist,       \* the jobs with finished runs in the history
    data,       \* the jobs with content in the collection
    req,        \* the request in each slot
    asked,      \* requests and foreign writes so far
    left,       \* history: jobs without their connection since a file was written unchecked
    gone        \* history: deleted jobs whose runs were deleted with them

store == <<conns, cred>>
ingester == <<served, running, hist, data>>
vars == <<file, conns, cred, served, running, hist, data, req, asked, left, gone>>

\* A job as far as rules look at it: `sec` if its source refers to the credential.
Entries == [id : Ids, conn : Conns, on : BOOLEAN, sec : BOOLEAN]

IdsOf(f) == {f[i].id : i \in DOMAIN f}
Find(f, j) == CHOOSE i \in DOMAIN f : f[i].id = j
Entry(f, j) == f[Find(f, j)]
Has(f, j) == j \in IdsOf(f)

\* A new job goes to the end, a changed one keeps its place.
EtagOf(f, j) == IF Has(f, j) THEN <<Entry(f, j)>> ELSE <<>>
Put(f, e) == IF Has(f, e.id) THEN [f EXCEPT ![Find(f, e.id)] = e] ELSE Append(f, e)
Without(f, j) == IF Has(f, j) THEN RemoveAt(f, Find(f, j)) ELSE f

-----------------------------------------------------------------------------
(* The rules *)

\* check_job: what is wrong with each job by itself.
CheckJobs(f, cn) == {f[i].id : i \in {k \in DOMAIN f : f[k].conn \notin cn}}

\* _cross_job: of two enabled jobs that disagree the later one is blamed.
CrossJob(f) ==
    LET on == {i \in DOMAIN f : f[i].on}
    IN {f[i].id : i \in {k \in on : f[k].conn # f[Min(on)].conn}}

CheckCatalog(f, cn) == CheckJobs(f, cn) \cup CrossJob(f)

CheckOne(f, j, cn) == CheckCatalog(f, cn) \cap {j}

\* catalog_problems, of the Embedding page: every other enabled job is compared.
CatalogProblems(f, j, cn) ==
    Entry(f, j).conn \notin cn
    \/ \E i \in DOMAIN f : f[i].id # j /\ f[i].on /\ f[i].conn # Entry(f, j).conn

\* The ingester's own verdict: the same, and it knows which credentials exist.
Refused(f) ==
    CheckCatalog(f, conns) \cup {f[i].id : i \in {k \in DOMAIN f : f[k].sec /\ ~cred}}

\* It takes a catalogue as a whole or not at all, but for a restart.
Loaded == IF Refused(file) = {} THEN Range(file) ELSE served

Serves(j) == \E e \in served : e.id = j

\* The jobs of a file whose connection is not there.
Lost(f, cn) == {j \in IdsOf(f) : Entry(f, j).conn \notin cn}

-----------------------------------------------------------------------------
(* Requests *)

Idle == [op |-> "none", id |-> "none", at |-> "idle", new |-> <<>>, etag |-> <<>>,
         before |-> <<>>, after |-> <<>>, bad |-> {}, flag |-> FALSE, raced |-> FALSE]

Count == asked < MaxRequests /\ asked' = asked + 1

Open(s, r) ==
    /\ req[s] = Idle /\ Count
    /\ req' = [req EXCEPT ![s] = r]

Move(s, step) == req' = [req EXCEPT ![s].at = step]
Close(s) == req' = [req EXCEPT ![s] = Idle]

\* Where a request to delete or to clean up has seen that the file has no such job.
Looked(r) == r.op = "orphan" \/ (r.op = "delete" /\ r.at # "running")

\* Jobs that come into the file while a request that found them missing is on its way.
Marked(r, f) ==
    [s \in Slots |->
        IF Looked(r[s]) /\ Has(f, r[s].id) THEN [r[s] EXCEPT !.raced = TRUE] ELSE r[s]]

\* The file has new content, and the requests are r.
Written(r, f) ==
    /\ file' = f
    /\ req' = Marked(r, f)
    /\ gone' = gone \ IdsOf(f)

\* Either one job was changed, and the rules were asked right before whether its connection is
\* there; or the file as a whole, and nobody looked.
Checked(r, f) == Written(r, f) /\ left' = left \cap Lost(f, conns)
Unchecked(r, f) == Written(r, f) /\ left' = Lost(f, conns)

\* The request keeps the file as it was and as it is, and asks the ingester to reload.
Wrote(s, f) == [req EXCEPT ![s].at = "reload", ![s].before = file, ![s].after = f]

\* swap: the new content, if the file still has the one it was read or written with.
Swap(current, expected, new) == IF current = expected THEN new ELSE current

\* The request ends without a change to any file.
End(s) == Close(s) /\ UNCHANGED <<file, left, gone>>

\* _candidate and the local half of _problems. `etag` is the entry the editor was opened with.
Save(s, e, create) ==
    /\ e.id \notin Managed
    /\ create => ~Has(file, e.id)
    /\ CheckOne(Put(file, e), e.id, conns) = {}
    /\ Open(s, [Idle EXCEPT !.op = "save", !.id = e.id, !.at = "ask", !.new = <<e>>,
                            !.flag = create, !.before = Put(file, e),
                            !.etag = IF create THEN <<>> ELSE EtagOf(file, e.id)])
    /\ UNCHANGED <<file, store, ingester, left, gone>>

\* put_job on what the file has become.
PutJob(s) ==
    LET e == req[s].new[1]
    IN IF \/ req[s].flag /\ Has(file, e.id)
          \/ ~req[s].flag /\ (~Has(file, e.id) \/ EtagOf(file, e.id) # req[s].etag)
          \/ CheckOne(Put(file, e), e.id, conns) # {}
       THEN End(s)
       ELSE Checked(Wrote(s, Put(file, e)), Put(file, e))

\* _ask_ingester answers for this job only; an ingester that cannot be asked has no objection.
Asked(s) ==
    /\ req[s].at = "ask"
    /\ \/ req[s].id \notin Refused(req[s].before) /\ PutJob(s)
       \/ req[s].id \in Refused(req[s].before) /\ End(s)
       \/ PutJob(s)
       \/ End(s)                     \* the folder does not accept the change
    /\ UNCHANGED <<store, ingester, asked>>

\* set_enabled: no question before the write; only enabling is checked.
SetEnabled(s, j, on) ==
    LET f == Put(file, [Entry(file, j) EXCEPT !.on = on])
    IN /\ req[s] = Idle /\ Count
       /\ Has(file, j) /\ j \notin Managed
       /\ on => CheckOne(f, j, conns) = {}
       /\ Checked([req EXCEPT ![s] =
             [Idle EXCEPT !.op = "save", !.id = j, !.at = "reload", !.new = <<Entry(f, j)>>,
                          !.before = file, !.after = f]], f)
       /\ UNCHANGED <<store, ingester>>

\* The middle of EmbeddingService.start: upsert of the managed job. Whether its run still works
\* was asked before that, so it may work again by now.
Embed(s, e) ==
    LET f == Put(file, e)
    IN /\ req[s] = Idle /\ Count
       /\ e.id \in Managed /\ e.on /\ ~e.sec
       /\ ~CatalogProblems(f, e.id, conns)
       /\ Checked([req EXCEPT ![s] =
             [Idle EXCEPT !.op = "embed", !.id = e.id, !.at = "reload", !.new = <<e>>,
                          !.before = file, !.after = f]], f)
       /\ UNCHANGED <<store, ingester>>

-----------------------------------------------------------------------------
(* reload_and_verify, and the way back *)

\* restore: the whole previous file, if the file is still the one that was written and can be
\* written. What it brings back may name a connection that was deleted since.
RestoreBlindly(s) ==
    /\ file' = req[s].before
    /\ Close(s) /\ UNCHANGED <<left, gone>>
Restore(s) ==
    \/ Unchecked([req EXCEPT ![s] = Idle], Swap(file, req[s].after, req[s].before))
    \/ End(s)

\* The ingester reads the file: it answers what is wrong, or cannot be reached, or fails. A job
\* saved and not checked stays; an embedding that cannot go on is undone.
Reload(s) ==
    /\ req[s].at = "reload" /\ req[s].op \in {"save", "embed"}
    /\ \/ /\ served' = Loaded
          /\ req' = [req EXCEPT ![s].at = "verify", ![s].bad = Refused(file)]
          /\ UNCHANGED <<file, left, gone>>
       \/ /\ IF req[s].op = "save" THEN End(s) ELSE Restore(s)
          /\ UNCHANGED served
       \/ Restore(s) /\ UNCHANGED served
    /\ UNCHANGED <<store, running, hist, data, asked>>

\* The job as the ingester serves it now, against what was written. Problems of other jobs are
\* put up with by the Jobs page, not by the Embedding page, which then asks for a run.
Verify(s) ==
    LET mine == req[s].id \in req[s].bad
        match == req[s].new[1] \in served
    IN /\ req[s].at = "verify"
       /\ \/ IF ~mine /\ match THEN
                IF req[s].op = "save" THEN End(s)
                ELSE Move(s, "start") /\ UNCHANGED <<file, left, gone>>
             ELSE IF ~mine /\ req[s].bad # {} /\ req[s].op = "save" THEN End(s)
             ELSE Restore(s)
          \/ IF req[s].op = "save" THEN End(s) ELSE Restore(s)
          \/ Restore(s)
       /\ UNCHANGED <<store, ingester, asked>>

-----------------------------------------------------------------------------
(* Deleting a job, its runs, its content *)

Delete(s, j, purge) ==
    /\ Has(file, j)
    /\ Open(s, [Idle EXCEPT !.op = "delete", !.id = j, !.at = "running", !.flag = purge,
                            !.etag = EtagOf(file, j)])
    /\ UNCHANGED <<file, store, ingester, left, gone>>

\* _refuse_while_running, which lets a request through when the ingester cannot be asked; then
\* remove_job, with the etag.
RemoveJob(s) ==
    /\ req[s].at = "running" /\ req[s].op = "delete"
    /\ \/ EtagOf(file, req[s].id) = req[s].etag
          /\ Checked(Wrote(s, Without(file, req[s].id)), Without(file, req[s].id))
       \/ End(s)
    /\ UNCHANGED <<store, ingester, asked>>

ReloadAfterRemove(s) ==
    /\ req[s].at = "reload" /\ req[s].op = "delete"
    /\ \/ served' = Loaded /\ Move(s, "letgo")
       \/ UNCHANGED served /\ Close(s)
    /\ UNCHANGED <<file, store, running, hist, data, asked, left, gone>>

\* _delete_history_of_removed: the runs stay while the ingester still serves the job, or cannot
\* be asked.
LetGo(s) ==
    /\ req[s].at = "letgo"
    /\ \/ ~Serves(req[s].id) /\ Move(s, "runs")
       \/ IF req[s].flag THEN Move(s, "orphans") ELSE Close(s)
    /\ UNCHANGED <<file, store, ingester, asked, left, gone>>

\* delete_runs of the ingester: finished runs go, one that works is kept.
RunsGo(s) ==
    /\ req[s].at = "runs"
    /\ \/ /\ hist' = hist \ {req[s].id}
          /\ gone' = IF req[s].id \in running \/ req[s].raced THEN gone
                     ELSE gone \cup {req[s].id}
       \/ UNCHANGED <<hist, gone>>
    /\ IF req[s].flag THEN Move(s, "orphans") ELSE Close(s)
    /\ UNCHANGED <<file, store, served, running, data, asked, left>>

\* What the ingester has content of and serves no job for.
Orphans(s) ==
    /\ req[s].at = "orphans"
    /\ \/ req[s].id \in data /\ ~Serves(req[s].id) /\ Move(s, "purge")
       \/ Close(s)
    /\ UNCHANGED <<file, store, ingester, asked, left, gone>>

\* delete_orphan: not while the job is in the file, not while it works.
DeleteOrphanBlindly(s, j) ==
    /\ Open(s, [Idle EXCEPT !.op = "orphan", !.id = j, !.at = "look"])
    /\ UNCHANGED <<file, store, ingester, left, gone>>
DeleteOrphan(s, j) ==
    /\ ~Has(file, j)
    /\ Open(s, [Idle EXCEPT !.op = "orphan", !.id = j, !.at = "look"])
    /\ UNCHANGED <<file, store, ingester, left, gone>>

OrphanRunning(s) ==
    /\ req[s].at = "look"
    /\ Move(s, "purge") \/ Close(s)
    /\ UNCHANGED <<file, store, ingester, asked, left, gone>>

\* The ingester answers 409 for a job of its catalogue.
Purge(s) ==
    /\ req[s].at = "purge"
    /\ data' = IF Serves(req[s].id) THEN data ELSE data \ {req[s].id}
    /\ Close(s)
    /\ UNCHANGED <<file, store, served, running, hist, asked, left, gone>>

\* delete_runs of the Runs page, for any id.
DeleteRuns(j) ==
    /\ j \in hist /\ Count
    /\ hist' = hist \ {j}
    /\ UNCHANGED <<file, store, served, running, data, req, left, gone>>

-----------------------------------------------------------------------------
(* The raw editor *)

\* The text as typed, against the revision of the page.
ReplaceRaw(s, f) ==
    /\ Open(s, [Idle EXCEPT !.op = "raw", !.at = "rawask", !.new = f, !.before = file])
    /\ UNCHANGED <<file, store, ingester, left, gone>>

\* JobsFileRepository.replace_raw: only the revision of jobs.yaml is compared.
ReplaceText(s) == file = req[s].before /\ Unchecked(Wrote(s, req[s].new), req[s].new)

RawWrite(s) ==
    /\ req[s].at = "rawwrite"
    /\ ReplaceText(s) \/ End(s)
    /\ UNCHANGED <<store, ingester, asked>>

\* validate_raw: the ingester's verdict, which is awaited before the write; or the manager's own
\* rules if it cannot be asked, which are not.
RawAsked(s) ==
    /\ req[s].at = "rawask"
    /\ \/ Refused(req[s].new) = {} /\ Move(s, "rawwrite") /\ UNCHANGED <<file, left, gone>>
       \/ CheckCatalog(req[s].new, conns) = {} /\ ReplaceText(s)
       \/ End(s)
    /\ UNCHANGED <<store, ingester, asked>>

RawReload(s) ==
    /\ req[s].at = "reload" /\ req[s].op = "raw"
    /\ served' \in {Loaded, served}
    /\ Close(s)
    /\ UNCHANGED <<file, store, running, hist, data, asked, left, gone>>

-----------------------------------------------------------------------------
(* Running *)

\* run_now looks at the job as it is served, then at the runners; the run is asked for last.
RunNow(s, j) ==
    /\ \E e \in served : e.id = j /\ e.on
    /\ Open(s, [Idle EXCEPT !.op = "run", !.id = j, !.at = "start"])
    /\ UNCHANGED <<file, store, ingester, left, gone>>

\* The ingester starts a run of a job it serves, one at a time.
StartRun(s) ==
    /\ req[s].at = "start"
    /\ running' = IF Serves(req[s].id) THEN running \cup {req[s].id} ELSE running
    /\ Close(s)
    /\ UNCHANGED <<file, store, served, hist, data, asked, left, gone>>

\* The ingester's own timetable, and its interface.
ScheduledRun(j) ==
    /\ j \notin running /\ \E e \in served : e.id = j /\ e.on
    /\ Count
    /\ running' = running \cup {j}
    /\ UNCHANGED <<file, store, served, hist, data, req, left, gone>>

\* A run ends by itself, or is aborted before it wrote anything.
RunEnds(j) ==
    /\ j \in running
    /\ running' = running \ {j}
    /\ hist' = hist \cup {j}
    /\ data' \in {data, data \cup {j}}
    /\ UNCHANGED <<file, store, served, req, asked, left, gone>>

-----------------------------------------------------------------------------
(* Connections and credentials: each is one step. Only set_credential asks *)
(* the ingester: before, what it can do, and after, to reload, which it    *)
(* does by itself as well (Poll).                                          *)

\* IngestFileRepository.update and SecretsRepository._update: the change is made on what the
\* file has now, again if that changed meanwhile; one that is refused changes nothing.
UpdateConnections(cn) == conns' = cn /\ UNCHANGED cred
UpdateSecrets(c) == cred' = c /\ UNCHANGED conns

CreateConnection(c) ==
    /\ Count
    /\ c \notin conns
    /\ UpdateConnections(conns \cup {c})
    /\ left' = left \cap Lost(file, conns')
    /\ UNCHANGED <<file, ingester, req, gone>>

\* jobs_using: every job of the file counts, enabled or not.
UsedByEnabled == {file[i].conn : i \in {k \in DOMAIN file : file[k].on}}
JobsUsing == {file[i].conn : i \in DOMAIN file}

DeleteConnection(c) ==
    /\ Count
    /\ c # Default /\ c \in conns
    /\ c \notin JobsUsing
    /\ UpdateConnections(conns \ {c})
    /\ UNCHANGED <<file, ingester, req, left, gone>>

SetCredential ==
    /\ Count
    /\ ~cred /\ UpdateSecrets(TRUE)
    /\ UNCHANGED <<file, ingester, req, left, gone>>

\* ensure_default, on the next page and at the start. reset_default has the same effect.
EnsureDefault ==
    /\ Default \notin conns
    /\ UpdateConnections(conns \cup {Default})
    /\ left' = left \cap Lost(file, conns')
    /\ UNCHANGED <<file, ingester, req, asked, gone>>

\* references: every job counts.
References == {file[i].id : i \in {k \in DOMAIN file : file[k].sec}}

DeleteCredential ==
    /\ Count
    /\ cred /\ References = {}
    /\ UpdateSecrets(FALSE)
    /\ UNCHANGED <<file, ingester, req, left, gone>>

-----------------------------------------------------------------------------
(* What the manager does not control *)

\* The ingester reads the file every 30 seconds.
Poll ==
    /\ served # Loaded /\ served' = Loaded
    /\ UNCHANGED <<file, store, running, hist, data, req, asked, left, gone>>

\* After a restart it serves what is valid and drops the rest; runs are gone.
IngesterRestarts ==
    LET bad == Refused(file)
    IN /\ served' = {e \in Range(file) : e.id \notin bad}
       /\ running' = {}
       /\ hist' = hist \cup running
       /\ UNCHANGED <<file, store, data, req, asked, left, gone>>

\* The ingester's interface, or an editor on the host.
ForeignWrite(f) ==
    /\ Count
    /\ f # file /\ Unchecked(req, f)
    /\ UNCHANGED <<store, ingester>>

Die ==
    /\ \E s \in Slots : req[s] # Idle
    /\ req' = [s \in Slots |-> Idle]
    /\ UNCHANGED <<file, store, ingester, asked, left, gone>>

\* A text typed into the raw editor or by a foreign hand: one entry put in or taken out.
Texts == {Put(file, e) : e \in Entries} \cup {Without(file, j) : j \in Ids}

Continue(s) ==
    \/ Asked(s) \/ Reload(s) \/ Verify(s)
    \/ RemoveJob(s) \/ ReloadAfterRemove(s) \/ LetGo(s) \/ RunsGo(s) \/ Orphans(s)
    \/ OrphanRunning(s) \/ Purge(s) \/ RawAsked(s) \/ RawWrite(s) \/ RawReload(s) \/ StartRun(s)

Request(s) ==
    \/ \E e \in Entries : (\E create \in BOOLEAN : Save(s, e, create)) \/ Embed(s, e)
    \/ \E j \in Ids :
          \/ \E b \in BOOLEAN : SetEnabled(s, j, b) \/ Delete(s, j, b)
          \/ DeleteOrphan(s, j) \/ RunNow(s, j)
    \/ \E f \in Texts : ReplaceRaw(s, f)

ConnectionRequest ==
    EnsureDefault \/ \E c \in Conns : CreateConnection(c) \/ DeleteConnection(c)

CredentialRequest == SetCredential \/ DeleteCredential

\* A catalogue of enabled jobs that have run, of which the ingester serves what it accepts.
Init ==
    /\ conns \in {Conns, Conns \ {Default}} /\ cred = FALSE
    /\ file \in {<<>>} \cup {<<e>> : e \in Entries} \cup {<<e, d>> : e, d \in Entries}
    /\ \A i \in DOMAIN file : file[i].on /\ (file[i].id \in Managed => file[i].conn = Default /\ ~file[i].sec)
    /\ \A i, k \in DOMAIN file : file[i].id = file[k].id => i = k
    /\ CheckCatalog(file, conns) = {}
    /\ served = {e \in Range(file) : e.id \notin Refused(file)}
    /\ running = {} /\ hist = IdsOf(file) /\ data = IdsOf(file)
    /\ req = [s \in Slots |-> Idle] /\ asked = 0
    /\ left = {} /\ gone = {}

Next ==
    \/ \E s \in Slots : Request(s) \/ Continue(s)
    \/ \E j \in Ids : ScheduledRun(j) \/ RunEnds(j) \/ DeleteRuns(j)
    \/ ConnectionRequest \/ CredentialRequest
    \/ Poll \/ IngesterRestarts \/ Die
    \/ \E f \in Texts : ForeignWrite(f)

Spec == Init /\ [][Next]_vars

-----------------------------------------------------------------------------
(* Properties *)

\* An edit of one job, and the way back from it after the ingester refused it, leaves every other
\* job as it is at that moment, edits of others that came in between included.
OneJobOnly ==
    (\E s \in Slots : req[s].at # req'[s].at /\ "raw" \notin {req[s].op, req'[s].op})
    => \E j \in Ids : Without(file, j) = Without(file', j)
OnlyItsOwnJob == [][OneJobOnly]_vars

\* Every job of the file names a connection that exists, enabled or not, although jobs and
\* connections are two files and a connection may go while a save asks the ingester. Three writes
\* do not look at the connections: the way back, a hand on the host, and the raw editor, which
\* writes on the verdict of a moment ago. What one of them leaves without its connection counts
\* until it is changed, or the connection is there again.
JobsKeepTheirConnection ==
    \A i \in DOMAIN file : file[i].conn \in conns \/ file[i].id \in left

\* The runs of a deleted job, once deleted, stay deleted: no run of it that was started before
\* can write its history afterwards.
DeletedLeavesNoRuns == gone \cap hist = {}

\* Two files and the ingester's history stay consistent with each other: no job of the catalogue
\* has lost its connection, and no run outlives the job it was deleted with.
CatalogHolds == JobsKeepTheirConnection /\ DeletedLeavesNoRuns

\* replace_raw: "if it would load". The text was judged before the write, and one of its
\* connections may have gone since.
TypedTextWouldLoad ==
    [][\A s \in Slots : req[s].op = "raw" /\ req[s].at # "reload" /\ req'[s].at = "reload" =>
          CheckCatalog(file', conns) = {}]_vars

\* Content is cleaned up only for a job that is not in the file: the ingester may have dropped it
\* and will take it again. A job that came into the file after the request looked is the one gap.
PurgeIsSafe ==
    \A j \in data \ data' : Has(file, j) => \E s \in Slots : req[s].id = j /\ req[s].raced
PurgeSparesTheFile == [][PurgeIsSafe]_vars

=============================================================================
