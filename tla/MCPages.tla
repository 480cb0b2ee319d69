------------------------------ MODULE MCPages ------------------------------
(***************************************************************************)
(* Instances for TLC of the modules behind single pages, where requests    *)
(* meet each other and no job: the ingest catalogue (IngestCatalog), the   *)
(* readings (Readings), the stack as it is shown (StackView), a job's log  *)
(* (CtlStream) and the manager's own files (ManagerFiles). In the model    *)
(* they share no variable, so a step of one never changes what another can *)
(* do, and it is enough to look at the behaviours of each: the first state *)
(* says whose they are. Variables of the others hold Nothing, and the      *)
(* catalogue is empty.                                                     *)
(***************************************************************************)
EXTENDS IngestCatalog, TLC

CONSTANT Nothing
CONSTANTS Visitors, Langs, Intervals, FailureTtl, Recheck, MailTtl, StaleMax, ShownFor, RunLimit,
          ReadingTime
CONSTANTS Readers, Services, Declared, Kept, CacheTtl, StatusTtl, MaxRuns, MaxMoves, StackTime
CONSTANTS MaxLine, Chunk, MaxOutput
CONSTANTS Editors, Names, Logos, Widgets, Users, Locales, MaxTiles, MaxSteps, AuditTime

VARIABLES side, now, cache, told
VARIABLES kind, interval, good, run, report, visitor
VARIABLES mode, docker, failedAt, lock, reader, verb, changes, moves
VARIABLES output, read, pending, from, dropping, lines, at
VARIABLES part, steps, settings, logos, hurt, page, tiles, prefs, cached, lost, log, pruned,
          silent

doctor == <<kind, interval, good, run, report, visitor>>
stack == <<mode, docker, failedAt, lock, reader, verb, changes, moves>>
ctl == <<output, read, pending, from, dropping, lines, at>>
files == <<part, steps, settings, logos, hurt, page, tiles, prefs, cached, lost, log, pruned,
           silent>>
shared == <<now, cache, told>>
pageVars == <<side, shared, vars, doctor, stack, ctl, files>>

Doctor == INSTANCE Readings WITH None <- Nothing, MaxTime <- ReadingTime
Stack == INSTANCE StackView WITH None <- Nothing, MaxTime <- StackTime
Ctl == INSTANCE CtlStream
Files == INSTANCE ManagerFiles WITH None <- Nothing, MaxTime <- AuditTime

\* Nothing is not a run, and a language is not a reading. A re-check is refused for a shorter time
\* than the mail page's reading is kept, and than the longest interval the settings allow.
ASSUME ReadingsAssumption ==
    /\ {FailureTtl, Recheck, MailTtl, StaleMax, ShownFor, RunLimit} \subseteq Nat
    /\ Intervals \subseteq Nat
    /\ \E m \in Intervals : Recheck <= m /\ \A i \in Intervals : i <= m
    /\ Recheck <= MailTtl
    /\ Langs \cap Doctor!Kinds = {}
    /\ Nothing \notin [from : Nat, lang : Langs, force : BOOLEAN, at : {"work", "wait", "take"}, until : Nat]

\* A snapshot is kept no longer than a status of all nodes, and what is declared is a service.
ASSUME StackAssumption ==
    CacheTtl \in Nat /\ StatusTtl \in Nat /\ CacheTtl <= StatusTtl /\ Declared \subseteq Services

\* A line and a chunk have a length, a dashboard a number of tiles, and the log a last day.
ASSUME StreamAssumption == MaxLine \in Nat /\ Chunk \in Nat
ASSUME FilesAssumption == MaxTiles \in Nat /\ AuditTime \in Nat

\* There is a job to speak of, and no job is called what stands for none.
ASSUME CatalogAssumption == Ids # {} /\ "none" \notin Ids

NoCatalog ==
    /\ file = <<>> /\ conns = Conns /\ cred = FALSE /\ served = {}
    /\ running = {} /\ hist = {} /\ data = {}
    /\ req = [p \in Slots |-> Idle] /\ asked = 0 /\ left = {} /\ gone = {}
NoDoctor ==
    /\ kind = Nothing /\ interval = Nothing /\ good = Nothing /\ run = Nothing
    /\ report = Nothing /\ visitor = Nothing
NoStack ==
    /\ mode = Nothing /\ docker = Nothing /\ failedAt = Nothing /\ lock = Nothing
    /\ reader = Nothing /\ verb = Nothing /\ changes = Nothing /\ moves = Nothing
NoCtl ==
    /\ output = Nothing /\ read = Nothing /\ pending = Nothing /\ from = Nothing
    /\ dropping = Nothing /\ lines = Nothing /\ at = Nothing
NoFiles ==
    /\ part = Nothing /\ steps = Nothing /\ settings = Nothing /\ logos = Nothing
    /\ hurt = Nothing /\ page = Nothing /\ tiles = Nothing /\ prefs = Nothing
    /\ cached = Nothing /\ lost = Nothing /\ log = Nothing /\ pruned = Nothing
    /\ silent = Nothing

PagesInit ==
    \/ /\ side = "catalog" /\ Init /\ NoDoctor /\ NoStack /\ NoCtl /\ NoFiles
       /\ now = Nothing /\ cache = Nothing /\ told = Nothing
    \/ side = "doctor" /\ Doctor!Init /\ NoCatalog /\ NoStack /\ NoCtl /\ NoFiles
    \/ side = "stack" /\ Stack!Init /\ NoCatalog /\ NoDoctor /\ NoCtl /\ NoFiles
    \/ /\ side = "ctl" /\ Ctl!Init /\ NoCatalog /\ NoDoctor /\ NoStack /\ NoFiles
       /\ now = Nothing /\ cache = Nothing /\ told = Nothing
    \/ /\ side = "files" /\ Files!Init /\ NoCatalog /\ NoDoctor /\ NoStack /\ NoCtl
       /\ cache = Nothing /\ told = Nothing

PagesNext ==
    \/ side = "catalog" /\ Next /\ UNCHANGED <<side, shared, doctor, stack, ctl, files>>
    \/ side = "doctor" /\ Doctor!Next /\ UNCHANGED <<side, vars, stack, ctl, files>>
    \/ side = "stack" /\ Stack!Next /\ UNCHANGED <<side, vars, doctor, ctl, files>>
    \/ side = "ctl" /\ Ctl!Next /\ UNCHANGED <<side, shared, vars, doctor, stack, files>>
    \/ side = "files" /\ Files!Next /\ UNCHANGED <<side, cache, told, vars, doctor, stack, ctl>>

PagesSpec == PagesInit /\ [][PagesNext]_pageVars

\* None of the modules names a person or a language; the same people stand behind every page, so
\* one permutation moves Slots, Visitors, Readers, Editors and Users alike.
Symmetry == Permutations(Visitors) \cup Permutations(Langs)

\* The properties of the instances, under their names there.
ReadingsAreShared == side = "doctor" => Doctor!ReadingsAreShared
ShownIsSo == side = "stack" => Stack!ShownIsSo
LinesSurviveChunking == side = "ctl" => Ctl!LinesSurviveChunking
FilesHold == side = "files" => Files!FilesHold
GapsAreDocumented == side = "files" => Files!GapsAreDocumented

=============================================================================
