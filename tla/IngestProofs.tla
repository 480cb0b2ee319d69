---------------------------- MODULE IngestProofs ----------------------------
(***************************************************************************)
(* What becomes of the jobs of the ingester and of the uploads it embeds,  *)
(* for every set of jobs, connections, requests, uploads and files.        *)
(*                                                                         *)
(*   - A request that edits the ingest catalogue carries what it will put  *)
(*     back (Carries), and what it has found missing is missing, unless a  *)
(*     write has come in between and marked it (Missing). With that a job  *)
(*     keeps its connection, others' jobs are left alone, and what was     *)
(*     deleted stays deleted (CatalogInv).                                 *)
(*   - The time limit spares an upload whose run is working because a pass *)
(*     has asked about every marked upload that is old (AskedAbout), and   *)
(*     what a pass consumes is embedded because a run that read its folder *)
(*     without a failure leaves only what came late (ReadIsRead). Both     *)
(*     need that the run a manifest names was started (MarkedRunIs).       *)
(***************************************************************************)
EXTENDS MCPages, IngestUploads, SequenceTheorems, TLAPS

-----------------------------------------------------------------------------
(* Sequences.                                                              *)

LEMMA RemoveAtRemoves ==
    ASSUME NEW S, NEW f \in Seq(S), NEW n \in 1..Len(f)
    PROVE  /\ RemoveAt(f, n) \in Seq(S)
           /\ Len(RemoveAt(f, n)) = Len(f) - 1
           /\ \A i \in 1..(Len(f) - 1) : RemoveAt(f, n)[i] = IF i < n THEN f[i] ELSE f[i + 1]
<1>1. PICK m \in Nat : m = Len(f)
  OBVIOUS
<1>2. n \in Nat /\ 1 <= n /\ n <= m /\ \A i \in 1..m : f[i] \in S
  BY <1>1
<1>3. PICK a : a = SubSeq(f, 1, n - 1)
  OBVIOUS
<1>4. PICK b : b = SubSeq(f, n + 1, m)
  OBVIOUS
<1>5. a \in Seq(S) /\ Len(a) = n - 1 /\ \A i \in 1..(n - 1) : a[i] = f[i]
  <2>1. 1 \in Int /\ n - 1 \in Int /\ \A i \in 1..(n - 1) : f[i] \in S
    BY <1>2
  <2>2. /\ a \in Seq(S) /\ Len(a) = (IF 1 <= n - 1 THEN (n - 1) - 1 + 1 ELSE 0)
        /\ \A i \in 1..((n - 1) - 1 + 1) : a[i] = f[1 + i - 1]
    BY <1>3, <2>1, SubSeqProperties
  <2>3. Len(a) = n - 1
    BY <1>2, <2>2
  <2>4. \A i \in 1..(n - 1) : a[i] = f[i]
    BY <1>2, <2>2
  <2>5. QED
    BY <2>2, <2>3, <2>4
<1>6. b \in Seq(S) /\ Len(b) = m - n /\ \A i \in 1..(m - n) : b[i] = f[i + n]
  <2>1. n + 1 \in Int /\ m \in Int /\ \A i \in (n + 1)..m : f[i] \in S
    BY <1>2
  <2>2. /\ b \in Seq(S) /\ Len(b) = (IF n + 1 <= m THEN m - (n + 1) + 1 ELSE 0)
        /\ \A i \in 1..(m - (n + 1) + 1) : b[i] = f[(n + 1) + i - 1]
    BY <1>4, <2>1, SubSeqProperties
  <2>3. Len(b) = m - n
    BY <1>2, <2>2
  <2>4. \A i \in 1..(m - n) : b[i] = f[i + n]
    <3> SUFFICES ASSUME NEW i \in 1..(m - n) PROVE b[i] = f[i + n]
      OBVIOUS
    <3>1. i \in 1..(m - (n + 1) + 1) /\ (n + 1) + i - 1 = i + n
      BY <1>2
    <3>2. QED
      BY <2>2, <3>1
  <2>5. QED
    BY <2>2, <2>3, <2>4
<1>7. PICK g : g = a \o b
  OBVIOUS
<1>8. g \in Seq(S) /\ Len(g) = m - 1
  <2>1. a \in Seq(S) /\ b \in Seq(S)
    BY <1>5, <1>6
  <2>2. g \in Seq(S) /\ Len(g) = Len(a) + Len(b)
    BY <1>7, <2>1, ConcatProperties
  <2>3. QED
    BY <1>2, <1>5, <1>6, <2>2
<1>9. ASSUME NEW i \in 1..(m - 1)
      PROVE  g[i] = IF i < n THEN f[i] ELSE f[i + 1]
  <2>1. a \in Seq(S) /\ b \in Seq(S)
    BY <1>5, <1>6
  <2>2. g[i] = IF i <= Len(a) THEN a[i] ELSE b[i - Len(a)]
    <3>1. i \in 1..(Len(a) + Len(b))
      BY <1>2, <1>5, <1>6
    <3>2. QED
      BY <1>7, <2>1, <3>1, ConcatProperties
  <2>3. CASE i < n
    BY <1>2, <1>5, <2>2, <2>3
  <2>4. CASE ~(i < n)
    <3>1. g[i] = b[i - (n - 1)]
      BY <1>2, <1>5, <2>2, <2>4
    <3>2. i - (n - 1) \in 1..(m - n) /\ (i - (n - 1)) + n = i + 1
      BY <1>2, <2>4
    <3>3. QED
      BY <1>6, <2>4, <3>1, <3>2
  <2>5. QED
    BY <2>3, <2>4
<1>10. RemoveAt(f, n) = g
  BY <1>1, <1>3, <1>4, <1>7 DEF RemoveAt
<1>11. QED
  BY <1>1, <1>8, <1>9, <1>10

\* Sequences are equal that have the same elements.
LEMMA SameSequence ==
    ASSUME NEW S, NEW f \in Seq(S), NEW g \in Seq(S), Len(f) = Len(g), \A i \in 1..Len(f) : f[i] = g[i]
    PROVE  f = g
OBVIOUS

-----------------------------------------------------------------------------
(* The catalogue of the ingester.                                          *)

\* A file whose jobs have ids of their own.
Unique(f) == \A i, k \in DOMAIN f : f[i].id = f[k].id => i = k
Catalogs == {f \in Seq(Entries) : Unique(f)}

LEMMA FindFinds ==
    ASSUME NEW f \in Catalogs, NEW j, Has(f, j)
    PROVE  /\ Find(f, j) \in DOMAIN f /\ f[Find(f, j)].id = j
           /\ Entry(f, j) \in Entries /\ Entry(f, j).id = j
           /\ \A i \in DOMAIN f : f[i].id = j => i = Find(f, j)
<1>1. Find(f, j) \in DOMAIN f /\ f[Find(f, j)].id = j
  BY DEF Has, IdsOf, Find
<1>2. f \in Seq(Entries) /\ Unique(f)
  BY DEF Catalogs
<1>3. f[Find(f, j)] \in Entries
  BY <1>1, <1>2
<1>4. QED
  BY <1>1, <1>2, <1>3 DEF Entry, Unique

\* A job that is put has its place to itself, and no other job notices.
LEMMA PutPuts ==
    ASSUME NEW f \in Catalogs, NEW e \in Entries
    PROVE  /\ Put(f, e) \in Catalogs
           /\ IdsOf(Put(f, e)) = IdsOf(f) \cup {e.id}
           /\ \A i \in DOMAIN Put(f, e) :
                 \/ Put(f, e)[i] = e
                 \/ Put(f, e)[i].id # e.id /\ \E k \in DOMAIN f : f[k] = Put(f, e)[i]
           /\ Without(Put(f, e), e.id) = Without(f, e.id)
           /\ Has(Put(f, e), e.id) /\ Entry(Put(f, e), e.id) = e
<1> DEFINE g == Put(f, e)
<1>1. f \in Seq(Entries) /\ Unique(f)
  BY DEF Catalogs
<1>2. CASE Has(f, e.id)
  <2> DEFINE n == Find(f, e.id)
  <2>1. n \in DOMAIN f /\ f[n].id = e.id /\ \A i \in DOMAIN f : f[i].id = e.id => i = n
    BY <1>2, FindFinds
  <2>2. g = [f EXCEPT ![n] = e]
    BY <1>2 DEF Put
  <2>3. g \in Seq(Entries) /\ DOMAIN g = DOMAIN f /\ g[n] = e /\ \A i \in DOMAIN f \ {n} : g[i] = f[i]
    BY <1>1, <2>1, <2>2
  <2>4. Unique(g)
    BY <1>1, <2>1, <2>3 DEF Unique
  <2>5. IdsOf(g) = IdsOf(f) \cup {e.id}
    BY <2>1, <2>3 DEF IdsOf
  <2>6. Has(g, e.id) /\ g \in Catalogs
    BY <2>3, <2>4, <2>5 DEF Has, Catalogs
  <2>7. Find(g, e.id) = n
    BY <2>1, <2>3, <2>6, FindFinds
  <2>8. RemoveAt(g, n) = RemoveAt(f, n)
    <3>1. n \in 1..Len(f) /\ n \in 1..Len(g) /\ Len(g) = Len(f) /\ DOMAIN f = 1..Len(f) /\ Len(f) \in Nat
      BY <1>1, <2>1, <2>3
    <3>2. \A i \in 1..(Len(f) - 1) : (IF i < n THEN g[i] ELSE g[i + 1]) = (IF i < n THEN f[i] ELSE f[i + 1])
      BY <2>3, <3>1
    <3>3. \A i \in 1..(Len(f) - 1) : RemoveAt(g, n)[i] = RemoveAt(f, n)[i]
      BY <1>1, <2>3, <3>1, <3>2, RemoveAtRemoves
    <3>4. /\ RemoveAt(f, n) \in Seq(Entries) /\ RemoveAt(g, n) \in Seq(Entries)
          /\ Len(RemoveAt(f, n)) = Len(f) - 1 /\ Len(RemoveAt(g, n)) = Len(f) - 1
      BY <1>1, <2>3, <3>1, RemoveAtRemoves
    <3>5. QED
      BY <3>3, <3>4, SameSequence
  <2>9. Without(g, e.id) = Without(f, e.id)
    BY <1>2, <2>6, <2>7, <2>8 DEF Without
  <2>10. QED
    BY <2>1, <2>3, <2>5, <2>6, <2>7, <2>9 DEF Entry
<1>3. CASE ~Has(f, e.id)
  <2> DEFINE n == Len(f) + 1
  <2>1. g = Append(f, e)
    BY <1>3 DEF Put
  <2>2. /\ g \in Seq(Entries) /\ Len(g) = n /\ DOMAIN g = DOMAIN f \cup {n} /\ n \notin DOMAIN f /\ n \in Nat
        /\ g[n] = e /\ \A i \in DOMAIN f : g[i] = f[i]
    BY <1>1, <2>1
  <2>3. \A i \in DOMAIN f : f[i].id # e.id
    BY <1>3 DEF Has, IdsOf
  <2>4. Unique(g)
    BY <1>1, <2>2, <2>3 DEF Unique
  <2>5. IdsOf(g) = IdsOf(f) \cup {e.id}
    BY <2>2 DEF IdsOf
  <2>6. Has(g, e.id) /\ g \in Catalogs
    BY <2>2, <2>4, <2>5 DEF Has, Catalogs
  <2>7. Find(g, e.id) = n
    BY <2>2, <2>3, <2>6, FindFinds
  <2>8. RemoveAt(g, n) = f
    <3>1. SubSeq(g, 1, n - 1) = f
      BY <1>1, <2>2
    <3>2. SubSeq(g, n + 1, Len(g)) = <<>>
      BY <1>1, <2>2
    <3>3. f \o <<>> = f
      BY <1>1
    <3>4. QED
      BY <3>1, <3>2, <3>3 DEF RemoveAt
  <2>9. Without(g, e.id) = Without(f, e.id)
    BY <1>3, <2>6, <2>7, <2>8 DEF Without
  <2>10. QED
    BY <2>2, <2>3, <2>5, <2>6, <2>7, <2>9 DEF Entry
<1>4. QED
  BY <1>2, <1>3

LEMMA WithoutRemoves ==
    ASSUME NEW f \in Catalogs, NEW j
    PROVE  /\ Without(f, j) \in Catalogs
           /\ IdsOf(Without(f, j)) = IdsOf(f) \ {j}
           /\ \A i \in DOMAIN Without(f, j) : \E k \in DOMAIN f : f[k] = Without(f, j)[i]
           /\ Without(Without(f, j), j) = Without(f, j)
<1> DEFINE g == Without(f, j)
<1>1. f \in Seq(Entries) /\ Unique(f)
  BY DEF Catalogs
<1>2. CASE Has(f, j)
  <2> DEFINE n == Find(f, j)
  <2>1. n \in 1..Len(f) /\ f[n].id = j /\ \A i \in DOMAIN f : f[i].id = j => i = n
    BY <1>1, <1>2, FindFinds
  <2>2. g = RemoveAt(f, n)
    BY <1>2 DEF Without
  <2>3. Len(f) \in Nat /\ n \in Nat /\ DOMAIN f = 1..Len(f)
    BY <1>1, <2>1
  <2>4. /\ RemoveAt(f, n) \in Seq(Entries) /\ Len(RemoveAt(f, n)) = Len(f) - 1
        /\ \A i \in 1..(Len(f) - 1) : RemoveAt(f, n)[i] = IF i < n THEN f[i] ELSE f[i + 1]
    BY <1>1, <2>1, RemoveAtRemoves
  <2>5. g \in Seq(Entries) /\ Len(g) = Len(f) - 1 /\ DOMAIN g = 1..(Len(f) - 1)
    BY <2>2, <2>4
  <2>6. \A i \in 1..(Len(f) - 1) : g[i] = IF i < n THEN f[i] ELSE f[i + 1]
    BY <2>2, <2>4
  <2>7. \A i \in DOMAIN g : \E k \in DOMAIN f : k # n /\ f[k] = g[i]
    BY <2>1, <2>3, <2>5, <2>6
  <2>8. \A k \in DOMAIN f : k # n => \E i \in DOMAIN g : f[k] = g[i]
    <3> SUFFICES ASSUME NEW k \in DOMAIN f, k # n PROVE \E i \in DOMAIN g : f[k] = g[i]
      OBVIOUS
    <3>1. CASE k < n
      BY <2>1, <2>3, <2>5, <2>6, <3>1
    <3>2. CASE k > n
      <4>1. k - 1 \in DOMAIN g /\ ~(k - 1 < n) /\ (k - 1) + 1 = k
        BY <2>1, <2>3, <2>5, <2>6, <3>2
      <4>2. QED
        BY <2>5, <2>6, <4>1
    <3>3. QED
      BY <2>1, <2>3, <3>1, <3>2
  <2>9. Unique(g)
    <3> SUFFICES ASSUME NEW i \in DOMAIN g, NEW k \in DOMAIN g, g[i].id = g[k].id PROVE i = k
      BY DEF Unique
    <3> DEFINE a == IF i < n THEN i ELSE i + 1
               b == IF k < n THEN k ELSE k + 1
    <3>1. a \in DOMAIN f /\ b \in DOMAIN f /\ g[i] = f[a] /\ g[k] = f[b]
      BY <2>1, <2>3, <2>5, <2>6
    <3>2. a = b
      BY <1>1, <3>1 DEF Unique
    <3>3. QED
      BY <2>1, <2>3, <2>5, <2>6, <3>2
  <2>10. IdsOf(g) = IdsOf(f) \ {j}
    BY <2>1, <2>7, <2>8 DEF IdsOf
  <2>11. Without(g, j) = g
    BY <2>10 DEF Without, Has
  <2>12. QED
    BY <2>5, <2>6, <2>7, <2>9, <2>10, <2>11 DEF Catalogs
<1>3. CASE ~Has(f, j)
  BY <1>3 DEF Without, Has
<1>4. QED
  BY <1>2, <1>3

LEMMA TextsAreCatalogs == ASSUME file \in Catalogs PROVE Texts \subseteq Catalogs
BY PutPuts, WithoutRemoves DEF Texts

LEMMA RefusedAreIds == ASSUME NEW f \in Catalogs PROVE Refused(f) \subseteq Ids
<1>1. ASSUME NEW i \in DOMAIN f PROVE f[i].id \in Ids
  <2>1. f[i] \in Entries
    BY DEF Catalogs
  <2>2. QED
    BY <2>1 DEF Entries
<1>2. QED
  BY <1>1 DEF Refused, CheckCatalog, CheckJobs, CrossJob

\* A job that was checked by itself names a connection that is there.
LEMMA CheckedConnects ==
    ASSUME NEW f, NEW cn, NEW i \in DOMAIN f, f[i].id \notin CheckJobs(f, cn)
    PROVE  f[i].conn \in cn
BY DEF CheckJobs

Ops == {"none", "save", "embed", "delete", "orphan", "raw", "run"}
Stages == {"idle", "ask", "reload", "verify", "start", "running", "letgo", "runs", "orphans", "purge",
           "look", "rawask", "rawwrite"}
Asks == [op : Ops, id : Ids \cup {"none"}, at : Stages, new : Seq(Entries), etag : Seq(Entries),
         before : Seq(Entries), after : Seq(Entries), bad : SUBSET Ids, flag : BOOLEAN, raced : BOOLEAN]

CatalogTypes == file \in Catalogs /\ req \in [Slots -> Asks]

\* What a request carries for what it will do: a job with its id, a file as it was before one job
\* was changed, a catalogue as typed in; and whose steps its steps are.
Carries(r) ==
    /\ r.op \in {"save", "embed", "delete"} => r.id \in Ids
    /\ r.op \in {"save", "embed"} /\ r.at \in {"reload", "verify"}
       => r.before \in Catalogs /\ r.after \in Catalogs /\ Without(r.before, r.id) = Without(r.after, r.id)
    /\ r.at = "ask" => r.op = "save" /\ r.new[1] \in Entries /\ r.new[1].id = r.id
    /\ r.at = "verify" => r.op \in {"save", "embed"}
    /\ r.at \in {"letgo", "runs", "orphans"} => r.op = "delete"
    /\ r.at = "look" => r.op = "orphan"
    /\ r.at = "purge" => r.op \in {"delete", "orphan"}
    /\ r.at \in {"rawask", "rawwrite"} => r.op = "raw" /\ r.new \in Catalogs

\* What a request has found missing is missing, unless it came into the file since.
Missing(r) == Looked(r) /\ ~r.raced => ~Has(file, r.id) /\ (r.at = "runs" => ~Serves(r.id))

RequestsInv == \A p \in Slots : Carries(req[p]) /\ Missing(req[p])
GoneInv == \A j \in gone : j \notin hist /\ j \notin running /\ ~Serves(j) /\ ~Has(file, j)

CatalogInv == CatalogTypes /\ RequestsInv /\ GoneInv /\ JobsKeepTheirConnection

\* What a step has to keep, and what it may not do.
Keeps == CatalogInv' /\ OneJobOnly /\ PurgeIsSafe

\* What the ingester serves comes from what it served and from the file.
FromTheFile == \A e \in served' : e \in served \/ Has(file, e.id)

LEMMA LoadedIsFromTheFile == ASSUME served' \in {Loaded, served} PROVE FromTheFile
BY DEF Loaded, FromTheFile, Has, IdsOf, Range

LEMMA Quiet ==
    ASSUME CatalogInv, file' = file, FromTheFile,
           req' \in [Slots -> Asks],
           \A p \in Slots : Carries(req'[p]),
           \A p \in Slots : \/ Looked(req'[p]) => req'[p].raced
                            \/ /\ ~Has(file, req'[p].id)
                               /\ req'[p].at = "runs" => ~Serves(req'[p].id)
    PROVE  CatalogTypes' /\ RequestsInv'
<1>1. CatalogTypes'
  BY DEF CatalogInv, CatalogTypes
<1>2. ASSUME NEW p \in Slots, Looked(req'[p]), ~req'[p].raced
      PROVE  ~Has(file', req'[p].id) /\ (req'[p].at = "runs" => ~Serves(req[p].id)')
  <2>1. ~Has(file, req'[p].id) /\ (req'[p].at = "runs" => ~Serves(req'[p].id))
    BY <1>2
  <2>2. req'[p].at = "runs" => ~Serves(req[p].id)'
    BY <2>1 DEF FromTheFile, Serves
  <2>3. QED
    BY <2>1, <2>2
<1>3. QED
  BY <1>1, <1>2 DEF RequestsInv, Missing

LEMMA SlotMoves ==
    ASSUME CatalogInv, file' = file, FromTheFile, NEW s \in Slots, NEW r \in Asks,
           req' = [req EXCEPT ![s] = r], Carries(r), Missing(r)
    PROVE  CatalogTypes' /\ RequestsInv'
<1>1. req' \in [Slots -> Asks] /\ \A p \in Slots : req'[p] = r \/ req'[p] = req[p]
  BY DEF CatalogInv, CatalogTypes
<1>2. \A p \in Slots : Carries(req'[p]) /\ Missing(req[p])
  BY <1>1 DEF CatalogInv, RequestsInv
<1>3. \A p \in Slots : \/ Looked(req'[p]) => req'[p].raced
                       \/ /\ ~Has(file, req'[p].id)
                          /\ req'[p].at = "runs" => ~Serves(req'[p].id)
  BY <1>1, <1>2 DEF Missing
<1>4. QED
  BY <1>1, <1>2, <1>3, Quiet

LEMMA RequestsStay ==
    ASSUME CatalogInv, file' = file, FromTheFile, req' = req
    PROVE  CatalogTypes' /\ RequestsInv'
<1>1. req' \in [Slots -> Asks] /\ \A p \in Slots : Carries(req'[p]) /\ Missing(req[p])
  BY DEF CatalogInv, CatalogTypes, RequestsInv
<1>2. \A p \in Slots : \/ Looked(req'[p]) => req'[p].raced
                       \/ /\ ~Has(file, req'[p].id)
                          /\ req'[p].at = "runs" => ~Serves(req'[p].id)
  BY <1>1 DEF Missing
<1>3. QED
  BY <1>1, <1>2, Quiet

\* A write tells the requests on their way that what they found missing is there.
LEMMA FileMoves ==
    ASSUME CatalogInv, NEW f \in Catalogs, file' = f, served' = served,
           NEW q \in [Slots -> Asks], req' = Marked(q, f),
           \A p \in Slots : Carries(q[p]) /\ (q[p] = req[p] \/ q[p].at # "runs")
    PROVE  /\ CatalogTypes' /\ RequestsInv'
           /\ \A p \in Slots : req'[p].at = q[p].at /\ req'[p].op = q[p].op
<1>1. ASSUME NEW p \in Slots
      PROVE  /\ req'[p] \in Asks
             /\ req'[p].at = q[p].at /\ req'[p].op = q[p].op /\ req'[p].id = q[p].id
             /\ req'[p].new = q[p].new /\ req'[p].before = q[p].before /\ req'[p].after = q[p].after
             /\ q[p].raced => req'[p].raced
             /\ Looked(q[p]) /\ Has(f, q[p].id) => req'[p].raced
  <2>1. req'[p] = IF Looked(q[p]) /\ Has(f, q[p].id) THEN [q[p] EXCEPT !.raced = TRUE] ELSE q[p]
    BY DEF Marked
  <2>2. q[p] \in Asks
    OBVIOUS
  <2>3. CASE Looked(q[p]) /\ Has(f, q[p].id)
    <3>1. PICK r : r = [q[p] EXCEPT !.raced = TRUE]
      OBVIOUS
    <3>2. /\ r \in Asks /\ r.at = q[p].at /\ r.op = q[p].op /\ r.id = q[p].id /\ r.new = q[p].new
          /\ r.before = q[p].before /\ r.after = q[p].after
      BY <2>2, <3>1 DEF Asks
    <3>3. r.raced = TRUE
      BY <2>2, <3>1 DEF Asks
    <3>4. req'[p] = r
      BY <2>1, <2>3, <3>1
    <3>5. QED
      BY <3>2, <3>3, <3>4, Zenon
  <2>4. CASE ~(Looked(q[p]) /\ Has(f, q[p].id))
    <3>1. req'[p] = q[p]
      BY <2>1, <2>4
    <3>2. QED
      BY <2>2, <2>4, <3>1, Zenon
  <2>5. QED
    BY <2>3, <2>4
<1>2. CatalogTypes'
  <2>1. req' \in [Slots -> Asks]
    <3>1. req' = [p \in Slots |-> req'[p]]
      BY DEF Marked
    <3>2. QED
      BY <1>1, <3>1
  <2>2. QED
    BY <2>1 DEF CatalogTypes
<1>3. ASSUME NEW p \in Slots
      PROVE  Carries(req[p])'
  <2>1. Carries(q[p])
    OBVIOUS
  <2>2. /\ req'[p].at = q[p].at /\ req'[p].op = q[p].op /\ req'[p].id = q[p].id
        /\ req'[p].new = q[p].new /\ req'[p].before = q[p].before /\ req'[p].after = q[p].after
    BY <1>1
  <2>3. QED
    BY <2>1, <2>2, Zenon DEF Carries
<1>4. ASSUME NEW p \in Slots, Looked(req'[p]), ~req'[p].raced
      PROVE  ~Has(f, req'[p].id) /\ (req'[p].at = "runs" => ~Serves(req[p].id)')
  <2>1. req'[p].at = q[p].at /\ req'[p].op = q[p].op /\ req'[p].id = q[p].id /\ ~q[p].raced
    BY <1>1, <1>4
  <2>2. Looked(q[p]) /\ ~Has(f, q[p].id)
    BY <1>1, <1>4, <2>1 DEF Looked
  <2>3. q[p].at = "runs" => ~Serves(q[p].id)
    <3>1. Missing(req[p])
      BY DEF CatalogInv, RequestsInv
    <3>2. QED
      BY <2>1, <2>2, <3>1 DEF Missing
  <2>4. QED
    BY <2>1, <2>2, <2>3 DEF Serves
<1>5. RequestsInv'
  BY <1>3, <1>4 DEF RequestsInv, Missing
<1>6. QED
  BY <1>1, <1>2, <1>5

LEMMA GoneStays ==
    ASSUME CatalogInv, FromTheFile, gone' \subseteq gone, hist' \subseteq hist \cup running,
           \A j \in running' : j \in running \/ Serves(j),
           \A j \in gone' : Has(file', j) => Has(file, j)
    PROVE  GoneInv'
BY DEF CatalogInv, GoneInv, FromTheFile, Serves

\* Lost names the jobs of a file whose connection is not there.
LEMMA LostIs ==
    ASSUME NEW f \in Catalogs, NEW cn, NEW i \in DOMAIN f
    PROVE  f[i].conn \in cn \/ f[i].id \in Lost(f, cn)
<1>1. Has(f, f[i].id)
  BY DEF Has, IdsOf
<1>2. Entry(f, f[i].id) = f[i]
  BY <1>1, FindFinds DEF Entry
<1>3. QED
  BY <1>1, <1>2 DEF Has, Lost

LEMMA ConnectionsStay ==
    ASSUME CatalogInv, file' = file, conns \subseteq conns',
           left' = left \/ left' = left \cap Lost(file, conns')
    PROVE  JobsKeepTheirConnection'
<1>1. file \in Catalogs
  BY DEF CatalogInv, CatalogTypes
<1>2. ASSUME NEW i \in DOMAIN file
      PROVE  file[i].conn \in conns' \/ file[i].id \in left'
  <2>1. file[i].conn \in conns \/ file[i].id \in left
    BY DEF CatalogInv, JobsKeepTheirConnection
  <2>2. file[i].conn \in conns' \/ file[i].id \in Lost(file, conns')
    BY <1>1, LostIs
  <2>3. QED
    BY <2>1, <2>2
<1>3. QED
  BY <1>2 DEF JobsKeepTheirConnection

LEMMA OneJob ==
    ASSUME NEW j \in Ids, Without(file, j) = Without(file', j)
    PROVE  OneJobOnly
BY DEF OneJobOnly

LEMMA NoJob == ASSUME file' = file PROVE OneJobOnly
BY CatalogAssumption DEF OneJobOnly

LEMMA NothingGoes == ASSUME data \subseteq data' PROVE PurgeIsSafe
BY DEF PurgeIsSafe

\* What a request changes that only asks: nothing of the files, and of the ingester what it does
\* with its own jobs.
Still ==
    /\ UNCHANGED <<file, gone>> /\ conns \subseteq conns' /\ FromTheFile
    /\ left' = left \/ left' = left \cap Lost(file, conns')
    /\ hist' \subseteq hist \cup running /\ \A j \in running' : j \in running \/ Serves(j)
    /\ data \subseteq data'

LEMMA OneRequest ==
    ASSUME CatalogInv, Still, NEW s \in Slots, NEW r \in Asks, req' = [req EXCEPT ![s] = r],
           Carries(r), Missing(r)
    PROVE  Keeps
<1>1. CatalogTypes' /\ RequestsInv'
  BY SlotMoves DEF Still
<1>2. GoneInv' /\ JobsKeepTheirConnection'
  BY GoneStays, ConnectionsStay DEF Still
<1>3. OneJobOnly /\ PurgeIsSafe
  BY NoJob, NothingGoes DEF Still
<1>4. QED
  BY <1>1, <1>2, <1>3 DEF Keeps, CatalogInv

LEMMA NoRequest ==
    ASSUME CatalogInv, Still, req' = req
    PROVE  Keeps
<1>1. CatalogTypes' /\ RequestsInv'
  BY RequestsStay DEF Still
<1>2. GoneInv' /\ JobsKeepTheirConnection'
  BY GoneStays, ConnectionsStay DEF Still
<1>3. OneJobOnly /\ PurgeIsSafe
  BY NoJob, NothingGoes DEF Still
<1>4. QED
  BY <1>1, <1>2, <1>3 DEF Keeps, CatalogInv

LEMMA AllStands == UNCHANGED <<file, store, ingester, left, gone>> => Still
BY DEF Still, store, ingester, FromTheFile

LEMMA IdleIsHarmless == Idle \in Asks /\ Carries(Idle) /\ ~Looked(Idle) /\ Idle.op = "none" /\ Idle.at = "idle"
<1>1. Idle \in Asks
  BY DEF Idle, Asks, Ops, Stages
<1>2. QED
  BY <1>1 DEF Idle, Carries, Looked

LEMMA Closes == ASSUME CatalogInv, Still, NEW s \in Slots, Close(s) PROVE Keeps
BY IdleIsHarmless, OneRequest DEF Close, Missing

\* A request that goes on.
LEMMA GoesOn ==
    ASSUME CatalogTypes, NEW s \in Slots, NEW x \in Stages
    PROVE  \E r \in Asks :
              /\ r = [req[s] EXCEPT !.at = x]
              /\ r.at = x /\ r.op = req[s].op /\ r.id = req[s].id /\ r.new = req[s].new
              /\ r.before = req[s].before /\ r.after = req[s].after
              /\ (r.raced => req[s].raced) /\ (req[s].raced => r.raced)
<1>1. PICK r : r = [req[s] EXCEPT !.at = x]
  OBVIOUS
<1>2. req[s] \in Asks
  BY DEF CatalogTypes
<1>3. r \in Asks /\ r.at = x /\ r.op = req[s].op /\ r.id = req[s].id /\ r.new = req[s].new
  BY <1>1, <1>2 DEF Asks
<1>4. r.before = req[s].before /\ r.after = req[s].after /\ r.raced = req[s].raced
  BY <1>1, <1>2 DEF Asks
<1>5. QED
  BY <1>1, <1>3, <1>4, Zenon

LEMMA Moves ==
    ASSUME CatalogInv, Still, NEW s \in Slots,
           NEW x \in {"start", "letgo", "runs", "orphans", "purge", "rawwrite"},
           Move(s, x), req[s].at # "running",
           x = "rawwrite" => req[s].at = "rawask",
           x \in {"letgo", "runs", "orphans"} => req[s].op = "delete",
           x = "purge" => req[s].op \in {"delete", "orphan"},
           x = "runs" => ~Serves(req[s].id)
    PROVE  Keeps
<1>1. CatalogTypes /\ x \in Stages /\ Carries(req[s]) /\ Missing(req[s])
  BY DEF CatalogInv, RequestsInv, Stages
<1>2. PICK r \in Asks :
              /\ r = [req[s] EXCEPT !.at = x]
              /\ r.at = x /\ r.op = req[s].op /\ r.id = req[s].id /\ r.new = req[s].new
              /\ r.before = req[s].before /\ r.after = req[s].after
              /\ (r.raced => req[s].raced) /\ (req[s].raced => r.raced)
  BY <1>1, GoesOn
<1>3. Carries(r)
  BY <1>1, <1>2 DEF Carries
<1>4. Missing(r)
  BY <1>1, <1>2 DEF Missing, Looked
<1>5. req' = [req EXCEPT ![s] = r]
  BY <1>2 DEF Move
<1>6. QED
  BY <1>3, <1>4, <1>5, OneRequest

LEMMA LooksOn ==
    ASSUME CatalogInv, NEW s \in Slots, LetGo(s) \/ Orphans(s) \/ OrphanRunning(s)
    PROVE  Keeps
<1>1. Carries(req[s])
  BY DEF CatalogInv, RequestsInv
<1>2. Still
  BY AllStands DEF LetGo, Orphans, OrphanRunning
<1>3. CASE Close(s)
  BY <1>2, <1>3, Closes
<1>4. CASE LetGo(s) /\ ~Close(s)
  <2>1. req[s].at = "letgo" /\ req[s].op = "delete"
    BY <1>1, <1>4 DEF LetGo, Carries
  <2>2. (~Serves(req[s].id) /\ Move(s, "runs")) \/ Move(s, "orphans")
    BY <1>4 DEF LetGo
  <2>3. QED
    BY <1>2, <2>1, <2>2, Moves
<1>5. CASE Orphans(s) /\ ~Close(s)
  <2>1. req[s].at = "orphans" /\ req[s].op = "delete" /\ Move(s, "purge")
    BY <1>1, <1>5 DEF Orphans, Carries
  <2>2. QED
    BY <1>2, <2>1, Moves
<1>6. CASE OrphanRunning(s) /\ ~Close(s)
  <2>1. req[s].at = "look" /\ req[s].op = "orphan" /\ Move(s, "purge")
    BY <1>1, <1>6 DEF OrphanRunning, Carries
  <2>2. QED
    BY <1>2, <2>1, Moves
<1>7. QED
  BY <1>3, <1>4, <1>5, <1>6

LEMMA ReloadAfterRemoveHolds ==
    ASSUME CatalogInv, NEW s \in Slots, ReloadAfterRemove(s)
    PROVE  Keeps
<1>1. /\ req[s].at = "reload" /\ req[s].op = "delete" /\ served' \in {Loaded, served}
      /\ UNCHANGED <<file, conns, left, gone, running, hist, data>>
      /\ Move(s, "letgo") \/ Close(s)
  BY DEF ReloadAfterRemove, store
<1>2. Still
  BY <1>1, LoadedIsFromTheFile DEF Still
<1>3. QED
  BY <1>1, <1>2, Moves, Closes

LEMMA RawReloadHolds ==
    ASSUME CatalogInv, NEW s \in Slots, RawReload(s)
    PROVE  Keeps
<1>1. /\ served' \in {Loaded, served} /\ Close(s)
      /\ UNCHANGED <<file, conns, left, gone, running, hist, data>>
  BY DEF RawReload, store
<1>2. Still
  BY <1>1, LoadedIsFromTheFile DEF Still
<1>3. QED
  BY <1>1, <1>2, Closes

LEMMA StartRunHolds ==
    ASSUME CatalogInv, NEW s \in Slots, StartRun(s)
    PROVE  Keeps
<1>1. Close(s) /\ UNCHANGED <<file, conns, left, gone, served, hist, data>>
  BY DEF StartRun, store
<1>2. Still
  BY <1>1 DEF Still, StartRun, FromTheFile
<1>3. QED
  BY <1>1, <1>2, Closes

\* The runs of a deleted job go: no run of it works, it is neither served nor in the file, unless
\* it came into the file since.
LEMMA RunsGoHolds ==
    ASSUME CatalogInv, NEW s \in Slots, RunsGo(s)
    PROVE  Keeps
<1>1. /\ req[s].at = "runs" /\ UNCHANGED <<file, conns, left, served, running, data>>
      /\ hist' \subseteq hist
      /\ Move(s, "orphans") \/ Close(s)
  BY DEF RunsGo, store
<1>2. Carries(req[s]) /\ Missing(req[s])
  BY DEF CatalogInv, RequestsInv
<1>3. req[s].op = "delete"
  BY <1>1, <1>2 DEF Carries
<1>4. FromTheFile
  BY <1>1 DEF FromTheFile
<1>5. CatalogTypes' /\ RequestsInv'
  <2>1. CASE Close(s)
    BY <1>1, <1>4, <2>1, IdleIsHarmless, SlotMoves DEF Close, Missing
  <2>2. CASE Move(s, "orphans")
    <3>1. CatalogTypes /\ "orphans" \in Stages
      BY DEF CatalogInv, Stages
    <3>2. PICK r \in Asks :
              /\ r = [req[s] EXCEPT !.at = "orphans"]
              /\ r.at = "orphans" /\ r.op = req[s].op /\ r.id = req[s].id /\ r.new = req[s].new
              /\ r.before = req[s].before /\ r.after = req[s].after
              /\ (r.raced => req[s].raced) /\ (req[s].raced => r.raced)
      BY <3>1, GoesOn
    <3>3. Carries(r)
      BY <1>2, <1>3, <3>2 DEF Carries
    <3>4. Missing(r)
      BY <1>1, <1>2, <3>2 DEF Missing, Looked
    <3>5. req' = [req EXCEPT ![s] = r]
      BY <2>2, <3>2 DEF Move
    <3>6. QED
      BY <1>1, <1>4, <3>3, <3>4, <3>5, SlotMoves
  <2>3. QED
    BY <1>1, <2>1, <2>2
<1>6. GoneInv'
  <2>1. CASE gone' = gone
    BY <1>1, <1>4, <2>1, GoneStays
  <2>2. CASE /\ hist' = hist \ {req[s].id} /\ gone' = gone \cup {req[s].id}
             /\ req[s].id \notin running /\ ~req[s].raced
    <3>1. ~Has(file, req[s].id) /\ ~Serves(req[s].id)
      BY <1>1, <1>2, <1>3, <2>2 DEF Missing, Looked
    <3>2. GoneInv
      BY DEF CatalogInv
    <3>3. QED
      BY <1>1, <2>2, <3>1, <3>2 DEF GoneInv, Serves
  <2>3. QED
    BY <2>1, <2>2 DEF RunsGo
<1>7. QED
  BY <1>1, <1>5, <1>6, ConnectionsStay, NoJob, NothingGoes DEF Keeps, CatalogInv

\* Content goes only of a job that was missing when the request looked.
LEMMA PurgeHolds ==
    ASSUME CatalogInv, NEW s \in Slots, Purge(s)
    PROVE  Keeps
<1>1. /\ req[s].at = "purge" /\ UNCHANGED <<file, conns, left, gone, served, running, hist>>
      /\ Close(s) /\ data \ data' \subseteq {req[s].id}
  BY DEF Purge, store
<1>2. Carries(req[s]) /\ Missing(req[s])
  BY DEF CatalogInv, RequestsInv
<1>3. Looked(req[s])
  BY <1>1, <1>2 DEF Carries, Looked
<1>4. PurgeIsSafe
  <2>1. Has(file, req[s].id) => req[s].raced
    BY <1>2, <1>3 DEF Missing
  <2>2. QED
    BY <1>1, <2>1, Zenon DEF PurgeIsSafe
<1>5. FromTheFile
  BY <1>1 DEF FromTheFile
<1>6. CatalogTypes' /\ RequestsInv'
  BY <1>1, <1>5, IdleIsHarmless, SlotMoves DEF Close, Missing
<1>7. GoneInv' /\ JobsKeepTheirConnection' /\ OneJobOnly
  BY <1>1, <1>5, GoneStays, ConnectionsStay, NoJob
<1>8. QED
  BY <1>4, <1>6, <1>7 DEF Keeps, CatalogInv

-----------------------------------------------------------------------------
(* Steps that change the file.                                             *)

LEMMA FileStep ==
    ASSUME CatalogInv, NEW f \in Catalogs, file' = f, UNCHANGED <<served, running, hist, data, conns>>,
           NEW q \in [Slots -> Asks], req' = Marked(q, f),
           \A p \in Slots : Carries(q[p]) /\ (q[p] = req[p] \/ q[p].at # "runs"),
           gone' \subseteq gone, \A j \in gone' : Has(f, j) => Has(file, j),
           \A i \in DOMAIN f : f[i].conn \in conns \/ f[i].id \in left',
           OneJobOnly
    PROVE  Keeps
<1>1. CatalogTypes' /\ RequestsInv'
  BY FileMoves
<1>2. FromTheFile
  BY DEF FromTheFile
<1>3. GoneInv'
  BY <1>2, GoneStays
<1>4. JobsKeepTheirConnection'
  BY DEF JobsKeepTheirConnection
<1>5. PurgeIsSafe
  BY NothingGoes
<1>6. QED
  BY <1>1, <1>3, <1>4, <1>5 DEF Keeps, CatalogInv

\* Who looked at what was changed leaves no other job without its connection, and who did not
\* look leaves those that `left` names.
LEMMA LeftIs ==
    ASSUME NEW f \in Catalogs, NEW q,
           \/ Unchecked(q, f)
           \/ Checked(q, f) /\ \A i \in DOMAIN f : f[i].conn \in conns \/ f[i].id \in left
    PROVE  \A i \in DOMAIN f : f[i].conn \in conns \/ f[i].id \in left'
<1>1. \A i \in DOMAIN f : f[i].conn \in conns \/ f[i].id \in Lost(f, conns)
  BY LostIs
<1>2. QED
  BY <1>1 DEF Checked, Unchecked

\* The request that writes, and what it keeps of the file as it was.
LEMMA WriteHolds ==
    ASSUME CatalogInv, NEW s \in Slots, NEW f \in Catalogs, Written(Wrote(s, f), f),
           UNCHANGED <<store, ingester>>,
           \/ req[s].op = "raw"
           \/ req[s].op \in {"save", "delete"} /\ Without(file, req[s].id) = Without(f, req[s].id),
           \A i \in DOMAIN f : f[i].conn \in conns \/ f[i].id \in left'
    PROVE  Keeps
<1>1. file \in Catalogs /\ req \in [Slots -> Asks] /\ req[s] \in Asks
  BY DEF CatalogInv, CatalogTypes
<1>2. \A p \in Slots : Carries(req[p])
  BY DEF CatalogInv, RequestsInv
<1>3. PICK r : r = [req[s] EXCEPT !.at = "reload", !.before = file, !.after = f]
  OBVIOUS
<1>4. file \in Seq(Entries) /\ f \in Seq(Entries)
  BY <1>1 DEF Catalogs
<1>5. r \in Asks /\ r.at = "reload" /\ r.op = req[s].op /\ r.id = req[s].id
  BY <1>1, <1>3, <1>4 DEF Asks, Stages
<1>6. r.before = file /\ r.after = f
  BY <1>1, <1>3 DEF Asks
<1>7. PICK q \in [Slots -> Asks] : q = [req EXCEPT ![s] = r]
  BY <1>1, <1>5
<1>8. req' = Marked(q, f)
  <2>1. q = [req EXCEPT ![s].at = "reload", ![s].before = file, ![s].after = f]
    BY <1>1, <1>3, <1>7
  <2>2. QED
    BY <2>1 DEF Written, Wrote
<1>9. Carries(r)
  BY <1>1, <1>2, <1>5, <1>6 DEF Carries
<1>10. \A p \in Slots : Carries(q[p]) /\ (q[p] = req[p] \/ q[p].at # "runs")
  BY <1>1, <1>2, <1>5, <1>7, <1>9
<1>11. file' = f /\ gone' = gone \ IdsOf(f) /\ UNCHANGED <<served, running, hist, data, conns>>
  BY DEF Written, store, ingester
<1>12. OneJobOnly
  <2>1. CASE req[s].op = "raw"
    <3>1. \A p \in Slots : req'[p].at = q[p].at /\ req'[p].op = q[p].op
      BY <1>8, <1>10, <1>11, FileMoves
    <3>2. \A p \in Slots : p # s => q[p] = req[p]
      BY <1>1, <1>7
    <3>3. \A p \in Slots : req[p].at # req'[p].at => p = s
      BY <3>1, <3>2
    <3>4. QED
      BY <2>1, <3>3 DEF OneJobOnly
  <2>2. CASE req[s].op \in {"save", "delete"} /\ Without(file, req[s].id) = Without(f, req[s].id)
    <3>1. req[s].id \in Ids
      BY <1>2, <2>2 DEF Carries
    <3>2. QED
      BY <1>11, <2>2, <3>1, OneJob
  <2>3. QED
    BY <2>1, <2>2
<1>13. QED
  BY <1>8, <1>10, <1>11, <1>12, FileStep DEF Has

\* What is put in keeps the connections, if the job's own is there.
LEMMA PutConnects ==
    ASSUME CatalogInv, NEW e \in Entries, e.conn \in conns \/ e.id \in left,
           NEW i \in DOMAIN Put(file, e)
    PROVE  Put(file, e)[i].conn \in conns \/ Put(file, e)[i].id \in left
<1>1. file \in Catalogs
  BY DEF CatalogInv, CatalogTypes
<1>2. Put(file, e)[i] = e \/ \E k \in DOMAIN file : file[k] = Put(file, e)[i]
  BY <1>1, PutPuts
<1>3. QED
  BY <1>2 DEF CatalogInv, JobsKeepTheirConnection

\* A job that was checked as part of the new file has its connection.
LEMMA CheckedIn ==
    ASSUME NEW f \in Catalogs, NEW e \in Entries, NEW cn, CheckOne(Put(f, e), e.id, cn) = {}
    PROVE  e.conn \in cn
<1>1. Has(Put(f, e), e.id) /\ Entry(Put(f, e), e.id) = e /\ Put(f, e) \in Catalogs
  BY PutPuts
<1>2. PICK i \in DOMAIN Put(f, e) : Put(f, e)[i] = e
  BY <1>1, FindFinds DEF Entry
<1>3. e.id \notin CheckJobs(Put(f, e), cn)
  BY DEF CheckOne, CheckCatalog
<1>4. QED
  BY <1>2, <1>3, CheckedConnects

LEMMA AskedHolds ==
    ASSUME CatalogInv, NEW s \in Slots, Asked(s)
    PROVE  Keeps
<1>1. file \in Catalogs /\ req[s].at = "ask" /\ UNCHANGED <<store, ingester>>
  BY DEF CatalogInv, CatalogTypes, Asked
<1>2. Carries(req[s])
  BY DEF CatalogInv, RequestsInv
<1>3. PICK e : e = req[s].new[1] /\ e \in Entries /\ e.id = req[s].id /\ req[s].op = "save"
  BY <1>1, <1>2 DEF Carries
<1>4. CASE End(s)
  <2>1. Close(s) /\ Still
    BY <1>1, <1>4, AllStands DEF End
  <2>2. QED
    BY <2>1, Closes
<1>5. CASE Checked(Wrote(s, Put(file, e)), Put(file, e)) /\ CheckOne(Put(file, e), e.id, conns) = {}
  <2>1. e.conn \in conns
    BY <1>1, <1>3, <1>5, CheckedIn
  <2>2. Put(file, e) \in Catalogs /\ Without(file, req[s].id) = Without(Put(file, e), req[s].id)
    BY <1>1, <1>3, PutPuts
  <2>3. \A i \in DOMAIN Put(file, e) : Put(file, e)[i].conn \in conns \/ Put(file, e)[i].id \in left
    BY <1>3, <2>1, PutConnects
  <2>4. \A i \in DOMAIN Put(file, e) : Put(file, e)[i].conn \in conns \/ Put(file, e)[i].id \in left'
    BY <1>5, <2>2, <2>3, LeftIs
  <2>5. Written(Wrote(s, Put(file, e)), Put(file, e))
    BY <1>5 DEF Checked
  <2>6. QED
    BY <1>1, <1>3, <2>2, <2>4, <2>5, WriteHolds
<1>6. QED
  BY <1>3, <1>4, <1>5 DEF Asked, PutJob

LEMMA RemoveJobHolds ==
    ASSUME CatalogInv, NEW s \in Slots, RemoveJob(s)
    PROVE  Keeps
<1>1. file \in Catalogs /\ req[s].op = "delete" /\ UNCHANGED <<store, ingester>>
  BY DEF CatalogInv, CatalogTypes, RemoveJob
<1>2. CASE End(s)
  <2>1. Close(s) /\ Still
    BY <1>1, <1>2, AllStands DEF End
  <2>2. QED
    BY <2>1, Closes
<1>3. CASE Checked(Wrote(s, Without(file, req[s].id)), Without(file, req[s].id))
  <2> DEFINE f == Without(file, req[s].id)
  <2>1. f \in Catalogs /\ Without(file, req[s].id) = Without(f, req[s].id)
    BY <1>1, WithoutRemoves
  <2>2. \A i \in DOMAIN f : \E k \in DOMAIN file : file[k] = f[i]
    BY <1>1, WithoutRemoves
  <2>3. \A i \in DOMAIN f : f[i].conn \in conns \/ f[i].id \in left
    BY <2>2 DEF CatalogInv, JobsKeepTheirConnection
  <2>4. \A i \in DOMAIN f : f[i].conn \in conns \/ f[i].id \in left'
    BY <1>3, <2>1, <2>3, LeftIs
  <2>5. Written(Wrote(s, f), f)
    BY <1>3 DEF Checked
  <2>6. QED
    BY <1>1, <2>1, <2>4, <2>5, WriteHolds
<1>4. QED
  BY <1>2, <1>3 DEF RemoveJob

\* The text as typed: what it leaves without a connection, `left` names.
LEMMA RawWritten ==
    ASSUME CatalogInv, NEW s \in Slots, req[s].at \in {"rawask", "rawwrite"}, ReplaceText(s),
           UNCHANGED <<store, ingester>>
    PROVE  Keeps
<1>1. req[s].op = "raw" /\ req[s].new \in Catalogs
  BY DEF CatalogInv, RequestsInv, Carries
<1>2. PICK f : f = req[s].new
  OBVIOUS
<1>3. Unchecked(Wrote(s, f), f)
  BY <1>2 DEF ReplaceText
<1>4. \A i \in DOMAIN f : f[i].conn \in conns \/ f[i].id \in left'
  BY <1>1, <1>2, <1>3, LeftIs
<1>5. Written(Wrote(s, f), f)
  BY <1>3 DEF Unchecked
<1>6. QED
  BY <1>1, <1>2, <1>4, <1>5, WriteHolds

LEMMA RawHolds ==
    ASSUME CatalogInv, NEW s \in Slots, RawAsked(s) \/ RawWrite(s)
    PROVE  Keeps
<1>1. req[s].at \in {"rawask", "rawwrite"} /\ UNCHANGED <<store, ingester>>
  BY DEF RawAsked, RawWrite
<1>2. CASE End(s)
  <2>1. Close(s) /\ Still
    BY <1>1, <1>2, AllStands DEF End
  <2>2. QED
    BY <2>1, Closes
<1>3. CASE req[s].at = "rawask" /\ Move(s, "rawwrite") /\ UNCHANGED <<file, left, gone>>
  <2>1. Still
    BY <1>1, <1>3, AllStands
  <2>2. QED
    BY <1>3, <2>1, Moves
<1>4. CASE ReplaceText(s)
  BY <1>1, <1>4, RawWritten
<1>5. QED
  BY <1>2, <1>3, <1>4 DEF RawAsked, RawWrite

\* The way back changes the job of the request and no other.
LEMMA RestoreHolds ==
    ASSUME CatalogInv, NEW s \in Slots, Restore(s),
           UNCHANGED <<conns, served, running, hist, data>>,
           req[s].op \in {"save", "embed"}, req[s].at \in {"reload", "verify"}
    PROVE  Keeps
<1>1. file \in Catalogs /\ req \in [Slots -> Asks]
  BY DEF CatalogInv, CatalogTypes
<1>2. \A p \in Slots : Carries(req[p])
  BY DEF CatalogInv, RequestsInv
<1> SUFFICES ASSUME ~End(s) PROVE Keeps
  <2>1. CASE End(s)
    <3>1. Close(s) /\ Still
      BY <2>1 DEF End, Still, FromTheFile
    <3>2. QED
      BY <3>1, Closes
  <2>2. QED
    BY <2>1
<1>3. /\ req[s].id \in Ids /\ req[s].before \in Catalogs
      /\ Without(req[s].before, req[s].id) = Without(req[s].after, req[s].id)
  BY <1>2 DEF Carries
<1>4. PICK f : f = Swap(file, req[s].after, req[s].before)
  OBVIOUS
<1>5. f \in Catalogs /\ Without(file, req[s].id) = Without(f, req[s].id)
  BY <1>1, <1>3, <1>4 DEF Swap
<1>6. Unchecked([req EXCEPT ![s] = Idle], f)
  BY <1>4 DEF Restore
<1>7. PICK q \in [Slots -> Asks] : q = [req EXCEPT ![s] = Idle]
  BY <1>1, IdleIsHarmless
<1>8. \A p \in Slots : Carries(q[p]) /\ (q[p] = req[p] \/ q[p].at # "runs")
  BY <1>1, <1>2, <1>7, IdleIsHarmless
<1>9. \A i \in DOMAIN f : f[i].conn \in conns \/ f[i].id \in left'
  BY <1>5, <1>6, LeftIs
<1>10. file' = f /\ gone' = gone \ IdsOf(f) /\ req' = Marked(q, f)
  BY <1>6, <1>7 DEF Unchecked, Written
<1>11. OneJobOnly
  BY <1>3, <1>5, <1>10, OneJob
<1>12. QED
  BY <1>5, <1>8, <1>9, <1>10, <1>11, FileStep DEF Has

LEMMA ReloadHolds ==
    ASSUME CatalogInv, NEW s \in Slots, Reload(s)
    PROVE  Keeps
<1>1. /\ req[s].at = "reload" /\ req[s].op \in {"save", "embed"}
      /\ UNCHANGED <<conns, running, hist, data>>
  BY DEF Reload, store
<1>2. CASE End(s) /\ UNCHANGED served
  <2>1. Close(s) /\ Still
    BY <1>1, <1>2 DEF End, Still, FromTheFile
  <2>2. QED
    BY <2>1, Closes
<1>3. CASE Restore(s) /\ UNCHANGED served
  BY <1>1, <1>3, RestoreHolds
<1>4. CASE /\ served' = Loaded /\ UNCHANGED <<file, left, gone>>
           /\ req' = [req EXCEPT ![s].at = "verify", ![s].bad = Refused(file)]
  <2>1. file \in Catalogs /\ req \in [Slots -> Asks] /\ req[s] \in Asks /\ Carries(req[s])
    BY DEF CatalogInv, CatalogTypes, RequestsInv
  <2>2. PICK r : r = [req[s] EXCEPT !.at = "verify", !.bad = Refused(file)]
    OBVIOUS
  <2>3. Refused(file) \in SUBSET Ids
    BY <2>1, RefusedAreIds
  <2>4. r \in Asks /\ r.at = "verify" /\ r.op = req[s].op /\ r.id = req[s].id
    BY <2>1, <2>2, <2>3 DEF Asks, Stages
  <2>5. r.before = req[s].before /\ r.after = req[s].after
    BY <2>1, <2>2 DEF Asks
  <2>6. req' = [req EXCEPT ![s] = r]
    BY <1>4, <2>1, <2>2
  <2>7. Carries(r)
    BY <1>1, <2>1, <2>4, <2>5 DEF Carries
  <2>8. Missing(r)
    BY <1>1, <2>4 DEF Missing, Looked
  <2>9. Still
    BY <1>1, <1>4, LoadedIsFromTheFile DEF Still
  <2>10. QED
    BY <2>4, <2>6, <2>7, <2>8, <2>9, OneRequest
<1>5. QED
  BY <1>2, <1>3, <1>4 DEF Reload

LEMMA VerifyHolds ==
    ASSUME CatalogInv, NEW s \in Slots, Verify(s)
    PROVE  Keeps
<1>1. req[s].at = "verify" /\ UNCHANGED <<store, ingester>>
  BY DEF Verify
<1>2. req[s].op \in {"save", "embed"}
  BY <1>1 DEF CatalogInv, RequestsInv, Carries
<1>3. CASE End(s)
  <2>1. Close(s) /\ Still
    BY <1>1, <1>3, AllStands DEF End
  <2>2. QED
    BY <2>1, Closes
<1>4. CASE Move(s, "start") /\ UNCHANGED <<file, left, gone>>
  <2>1. Still
    BY <1>1, <1>4, AllStands
  <2>2. QED
    BY <1>1, <1>4, <2>1, Moves
<1>5. CASE Restore(s)
  BY <1>1, <1>2, <1>5, RestoreHolds DEF store, ingester
<1>6. QED
  BY <1>3, <1>4, <1>5 DEF Verify

\* A request that writes at once what it was given.
LEMMA WritesAtOnce ==
    ASSUME CatalogInv, NEW s \in Slots, NEW e \in Entries, NEW o \in {"save", "embed"},
           Checked([req EXCEPT ![s] = [Idle EXCEPT !.op = o, !.id = e.id, !.at = "reload",
                       !.new = <<e>>, !.before = file, !.after = Put(file, e)]], Put(file, e)),
           UNCHANGED <<store, ingester>>,
           e.conn \in conns \/ e.id \in left
    PROVE  Keeps
<1>1. file \in Catalogs /\ req \in [Slots -> Asks] /\ \A p \in Slots : Carries(req[p])
  BY DEF CatalogInv, CatalogTypes, RequestsInv
<1>2. PICK f : f = Put(file, e)
  OBVIOUS
<1>3. f \in Catalogs /\ Without(file, e.id) = Without(f, e.id) /\ e.id \in Ids
  BY <1>1, <1>2, PutPuts DEF Entries
<1>4. PICK r : r = [Idle EXCEPT !.op = o, !.id = e.id, !.at = "reload", !.new = <<e>>, !.before = file, !.after = f]
  OBVIOUS
<1>5. r = [op |-> o, id |-> e.id, at |-> "reload", new |-> <<e>>, etag |-> <<>>,
           before |-> file, after |-> f, bad |-> {}, flag |-> FALSE, raced |-> FALSE]
  BY <1>4 DEF Idle
<1>6. r \in Asks
  <2>1. file \in Seq(Entries) /\ f \in Seq(Entries) /\ <<e>> \in Seq(Entries) /\ <<>> \in Seq(Entries)
    BY <1>1, <1>3 DEF Catalogs
  <2>2. QED
    BY <1>3, <1>5, <2>1 DEF Asks, Ops, Stages
<1>7. Carries(r)
  BY <1>1, <1>3, <1>5 DEF Carries
<1>8. PICK q \in [Slots -> Asks] : q = [req EXCEPT ![s] = r]
  BY <1>1, <1>6
<1>9. \A p \in Slots : Carries(q[p]) /\ (q[p] = req[p] \/ q[p].at # "runs")
  BY <1>1, <1>5, <1>7, <1>8
<1>10. Checked(q, f)
  BY <1>2, <1>4, <1>8
<1>11. \A i \in DOMAIN f : f[i].conn \in conns \/ f[i].id \in left'
  <2>1. \A i \in DOMAIN f : f[i].conn \in conns \/ f[i].id \in left
    BY <1>2, PutConnects
  <2>2. QED
    BY <1>3, <1>10, <2>1, LeftIs
<1>12. /\ file' = f /\ req' = Marked(q, f) /\ gone' = gone \ IdsOf(f)
       /\ UNCHANGED <<served, running, hist, data, conns>>
  BY <1>10 DEF Checked, Written, store, ingester
<1>13. OneJobOnly
  BY <1>3, <1>12, OneJob
<1>14. QED
  BY <1>3, <1>9, <1>11, <1>12, <1>13, FileStep DEF Has

LEMMA SetEnabledHolds ==
    ASSUME CatalogInv, NEW s \in Slots, NEW j \in Ids, NEW on \in BOOLEAN, SetEnabled(s, j, on)
    PROVE  Keeps
<1>1. file \in Catalogs /\ Has(file, j)
  BY DEF CatalogInv, CatalogTypes, SetEnabled
<1>2. PICK e : e = [Entry(file, j) EXCEPT !.on = on]
  OBVIOUS
<1>3. Entry(file, j) \in Entries /\ Entry(file, j).id = j
  BY <1>1, FindFinds
<1>4. e \in Entries /\ e.id = j /\ e.conn = Entry(file, j).conn
  BY <1>2, <1>3 DEF Entries
<1>5. e.conn \in conns \/ e.id \in left
  <2>1. PICK i \in DOMAIN file : file[i] = Entry(file, j)
    BY <1>1, FindFinds DEF Entry
  <2>2. QED
    BY <1>3, <1>4, <2>1 DEF CatalogInv, JobsKeepTheirConnection
<1>6. Entry(Put(file, e), j) = e
  BY <1>1, <1>4, PutPuts
<1>7. /\ Checked([req EXCEPT ![s] = [Idle EXCEPT !.op = "save", !.id = e.id, !.at = "reload",
                    !.new = <<e>>, !.before = file, !.after = Put(file, e)]], Put(file, e))
      /\ UNCHANGED <<store, ingester>>
  BY <1>2, <1>4, <1>6 DEF SetEnabled
<1>8. QED
  BY <1>4, <1>5, <1>7, WritesAtOnce

LEMMA EmbedHolds ==
    ASSUME CatalogInv, NEW s \in Slots, NEW e \in Entries, Embed(s, e)
    PROVE  Keeps
<1>1. file \in Catalogs
  BY DEF CatalogInv, CatalogTypes
<1>2. Entry(Put(file, e), e.id) = e
  BY <1>1, PutPuts
<1>3. e.conn \in conns
  BY <1>2 DEF Embed, CatalogProblems
<1>4. /\ Checked([req EXCEPT ![s] = [Idle EXCEPT !.op = "embed", !.id = e.id, !.at = "reload",
                    !.new = <<e>>, !.before = file, !.after = Put(file, e)]], Put(file, e))
      /\ UNCHANGED <<store, ingester>>
  BY DEF Embed
<1>5. QED
  BY <1>3, <1>4, WritesAtOnce

-----------------------------------------------------------------------------
(* Steps that change neither the file nor a request further than its start. *)

LEMMA Opens ==
    ASSUME CatalogInv, NEW s \in Slots, NEW r \in Asks, Open(s, r), Carries(r), Missing(r),
           UNCHANGED <<file, store, ingester, left, gone>>
    PROVE  Keeps
BY AllStands, OneRequest DEF Open

LEMMA SaveHolds ==
    ASSUME CatalogInv, NEW s \in Slots, NEW e \in Entries, NEW create \in BOOLEAN, Save(s, e, create)
    PROVE  Keeps
<1>1. file \in Catalogs
  BY DEF CatalogInv, CatalogTypes
<1>2. PICK r : r = [Idle EXCEPT !.op = "save", !.id = e.id, !.at = "ask", !.new = <<e>>,
                          !.flag = create, !.before = Put(file, e),
                          !.etag = IF create THEN <<>> ELSE EtagOf(file, e.id)]
  OBVIOUS
<1>3. PICK tag : tag = IF create THEN <<>> ELSE EtagOf(file, e.id)
  OBVIOUS
<1>4. r = [op |-> "save", id |-> e.id, at |-> "ask", new |-> <<e>>, etag |-> tag,
           before |-> Put(file, e), after |-> <<>>, bad |-> {}, flag |-> create, raced |-> FALSE]
  BY <1>2, <1>3 DEF Idle
<1>5. tag \in Seq(Entries)
  <2>1. EtagOf(file, e.id) \in Seq(Entries)
    BY <1>1, FindFinds DEF EtagOf
  <2>2. QED
    BY <1>3, <2>1
<1>6. Put(file, e) \in Seq(Entries) /\ <<e>> \in Seq(Entries) /\ <<>> \in Seq(Entries) /\ e.id \in Ids
  <2>1. Put(file, e) \in Catalogs
    BY <1>1, PutPuts
  <2>2. e.id \in Ids
    BY DEF Entries
  <2>3. QED
    BY <2>1, <2>2 DEF Catalogs
<1>7. r \in Asks
  BY <1>4, <1>5, <1>6 DEF Asks, Ops, Stages
<1>8. Carries(r) /\ Missing(r)
  BY <1>4, <1>6 DEF Carries, Missing, Looked
<1>9. Open(s, r) /\ UNCHANGED <<file, store, ingester, left, gone>>
  BY <1>2 DEF Save
<1>10. QED
  BY <1>7, <1>8, <1>9, Opens

LEMMA DeleteHolds ==
    ASSUME CatalogInv, NEW s \in Slots, NEW j \in Ids, NEW purge \in BOOLEAN, Delete(s, j, purge)
    PROVE  Keeps
<1>1. file \in Catalogs
  BY DEF CatalogInv, CatalogTypes
<1>2. PICK r : r = [Idle EXCEPT !.op = "delete", !.id = j, !.at = "running", !.flag = purge,
                                !.etag = EtagOf(file, j)]
  OBVIOUS
<1>3. PICK tag : tag = EtagOf(file, j)
  OBVIOUS
<1>4. r = [op |-> "delete", id |-> j, at |-> "running", new |-> <<>>, etag |-> tag,
           before |-> <<>>, after |-> <<>>, bad |-> {}, flag |-> purge, raced |-> FALSE]
  BY <1>2, <1>3 DEF Idle
<1>5. tag \in Seq(Entries) /\ <<>> \in Seq(Entries)
  BY <1>1, <1>3, FindFinds DEF EtagOf
<1>6. r \in Asks
  BY <1>4, <1>5 DEF Asks, Ops, Stages
<1>7. Carries(r) /\ Missing(r)
  BY <1>4 DEF Carries, Missing, Looked
<1>8. Open(s, r) /\ UNCHANGED <<file, store, ingester, left, gone>>
  BY <1>2 DEF Delete
<1>9. QED
  BY <1>6, <1>7, <1>8, Opens

LEMMA DeleteOrphanHolds ==
    ASSUME CatalogInv, NEW s \in Slots, NEW j \in Ids, DeleteOrphan(s, j)
    PROVE  Keeps
<1>1. PICK r : r = [Idle EXCEPT !.op = "orphan", !.id = j, !.at = "look"]
  OBVIOUS
<1>2. r = [op |-> "orphan", id |-> j, at |-> "look", new |-> <<>>, etag |-> <<>>,
           before |-> <<>>, after |-> <<>>, bad |-> {}, flag |-> FALSE, raced |-> FALSE]
  BY <1>1 DEF Idle
<1>3. r \in Asks
  BY <1>2 DEF Asks, Ops, Stages
<1>4. ~Has(file, j) /\ Open(s, r) /\ UNCHANGED <<file, store, ingester, left, gone>>
  BY <1>1 DEF DeleteOrphan
<1>5. Carries(r) /\ Missing(r)
  BY <1>2, <1>4 DEF Carries, Missing
<1>6. QED
  BY <1>3, <1>4, <1>5, Opens

LEMMA RunNowHolds ==
    ASSUME CatalogInv, NEW s \in Slots, NEW j \in Ids, RunNow(s, j)
    PROVE  Keeps
<1>1. PICK r : r = [Idle EXCEPT !.op = "run", !.id = j, !.at = "start"]
  OBVIOUS
<1>2. r = [op |-> "run", id |-> j, at |-> "start", new |-> <<>>, etag |-> <<>>,
           before |-> <<>>, after |-> <<>>, bad |-> {}, flag |-> FALSE, raced |-> FALSE]
  BY <1>1 DEF Idle
<1>3. r \in Asks
  BY <1>2 DEF Asks, Ops, Stages
<1>4. Carries(r) /\ Missing(r)
  BY <1>2 DEF Carries, Missing, Looked
<1>5. Open(s, r) /\ UNCHANGED <<file, store, ingester, left, gone>>
  BY <1>1 DEF RunNow
<1>6. QED
  BY <1>3, <1>4, <1>5, Opens

LEMMA ReplaceRawHolds ==
    ASSUME CatalogInv, NEW s \in Slots, NEW f \in Texts, ReplaceRaw(s, f)
    PROVE  Keeps
<1>1. file \in Catalogs /\ f \in Catalogs
  BY TextsAreCatalogs DEF CatalogInv, CatalogTypes
<1>2. PICK r : r = [Idle EXCEPT !.op = "raw", !.at = "rawask", !.new = f, !.before = file]
  OBVIOUS
<1>3. r = [op |-> "raw", id |-> "none", at |-> "rawask", new |-> f, etag |-> <<>>,
           before |-> file, after |-> <<>>, bad |-> {}, flag |-> FALSE, raced |-> FALSE]
  BY <1>2 DEF Idle
<1>4. r \in Asks
  BY <1>1, <1>3 DEF Asks, Ops, Stages, Catalogs
<1>5. Carries(r) /\ Missing(r)
  BY <1>1, <1>3 DEF Carries, Missing, Looked
<1>6. Open(s, r) /\ UNCHANGED <<file, store, ingester, left, gone>>
  BY <1>2 DEF ReplaceRaw
<1>7. QED
  BY <1>4, <1>5, <1>6, Opens

LEMMA RunsComeAndGo ==
    ASSUME CatalogInv, NEW j, ScheduledRun(j) \/ RunEnds(j) \/ DeleteRuns(j)
    PROVE  Keeps
<1>1. /\ UNCHANGED <<file, conns, served, left, gone, req>> /\ data \subseteq data'
      /\ hist' \subseteq hist \cup running
  BY DEF ScheduledRun, RunEnds, DeleteRuns, store
<1>2. \A i \in running' : i \in running \/ Serves(i)
  BY DEF ScheduledRun, RunEnds, DeleteRuns, Serves
<1>3. Still
  BY <1>1, <1>2 DEF Still, FromTheFile
<1>4. QED
  BY <1>1, <1>3, NoRequest

\* A connection goes only when no job names it.
LEMMA ConnectionsChange ==
    ASSUME CatalogInv, ConnectionRequest
    PROVE  Keeps
<1>1. UNCHANGED <<file, ingester, req, gone>>
  BY DEF ConnectionRequest, EnsureDefault, CreateConnection, DeleteConnection
<1>2. CASE conns \subseteq conns' /\ (left' = left \/ left' = left \cap Lost(file, conns'))
  <2>1. Still
    BY <1>1, <1>2 DEF Still, ingester, FromTheFile
  <2>2. QED
    BY <1>1, <2>1, NoRequest
<1>3. ASSUME NEW c \in Conns, DeleteConnection(c)
      PROVE  Keeps
  <2>1. c \notin JobsUsing /\ conns' = conns \ {c} /\ left' = left
    BY <1>3 DEF DeleteConnection, UpdateConnections
  <2>2. JobsKeepTheirConnection'
    BY <1>1, <2>1 DEF CatalogInv, JobsKeepTheirConnection, JobsUsing
  <2>3. FromTheFile
    BY <1>1 DEF ingester, FromTheFile
  <2>4. CatalogTypes' /\ RequestsInv'
    BY <1>1, <2>3, RequestsStay
  <2>5. GoneInv' /\ OneJobOnly /\ PurgeIsSafe
    BY <1>1, <2>3, GoneStays, NoJob, NothingGoes DEF ingester
  <2>6. QED
    BY <2>2, <2>4, <2>5 DEF Keeps, CatalogInv
<1>4. QED
  BY <1>2, <1>3 DEF ConnectionRequest, EnsureDefault, CreateConnection, UpdateConnections

LEMMA CredentialChanges ==
    ASSUME CatalogInv, CredentialRequest
    PROVE  Keeps
<1>1. /\ UNCHANGED <<file, conns, running, hist, data, req, left, gone>>
      /\ served' \in {Loaded, served}
  BY DEF CredentialRequest, SetCredential, DeleteCredential, UpdateSecrets, ingester
<1>2. Still
  BY <1>1, LoadedIsFromTheFile DEF Still
<1>3. QED
  BY <1>1, <1>2, NoRequest

LEMMA IngesterHolds ==
    ASSUME CatalogInv, Poll \/ IngesterRestarts
    PROVE  Keeps
<1>1. CASE Poll
  <2>1. Still /\ req' = req
    BY <1>1, LoadedIsFromTheFile DEF Poll, Still, store
  <2>2. QED
    BY <2>1, NoRequest
<1>2. CASE IngesterRestarts
  <2>1. \A e \in served' : Has(file, e.id)
    BY <1>2 DEF IngesterRestarts, Has, IdsOf, Range
  <2>2. Still /\ req' = req
    BY <1>2, <2>1 DEF IngesterRestarts, Still, store, FromTheFile
  <2>3. QED
    BY <2>2, NoRequest
<1>3. QED
  BY <1>1, <1>2

LEMMA ManagerDies ==
    ASSUME CatalogInv, Die
    PROVE  Keeps
<1>1. req' = [p \in Slots |-> Idle] /\ UNCHANGED <<file, store, ingester, left, gone>>
  BY DEF Die
<1>2. Still
  BY <1>1, AllStands
<1>3. CatalogTypes' /\ RequestsInv'
  <2>1. req' \in [Slots -> Asks] /\ \A p \in Slots : req'[p] = Idle
    BY <1>1, IdleIsHarmless
  <2>2. \A p \in Slots : Carries(req'[p]) /\ ~Looked(req'[p])
    BY <2>1, IdleIsHarmless
  <2>3. QED
    BY <1>2, <2>1, <2>2, Quiet DEF Still
<1>4. GoneInv' /\ JobsKeepTheirConnection' /\ OneJobOnly /\ PurgeIsSafe
  BY <1>2, GoneStays, ConnectionsStay, NoJob, NothingGoes, <1>1 DEF Still, store
<1>5. QED
  BY <1>3, <1>4 DEF Keeps, CatalogInv

LEMMA ForeignWriteHolds ==
    ASSUME CatalogInv, NEW f \in Texts, ForeignWrite(f)
    PROVE  Keeps
<1>1. file \in Catalogs /\ f \in Catalogs /\ req \in [Slots -> Asks] /\ \A p \in Slots : Carries(req[p])
  BY TextsAreCatalogs DEF CatalogInv, CatalogTypes, RequestsInv
<1>2. /\ file' = f /\ req' = Marked(req, f) /\ gone' = gone \ IdsOf(f)
      /\ UNCHANGED <<served, running, hist, data, conns>>
  BY DEF ForeignWrite, Unchecked, Written, store, ingester
<1>3. \A i \in DOMAIN f : f[i].conn \in conns \/ f[i].id \in left'
  BY <1>1, LeftIs DEF ForeignWrite
<1>4. OneJobOnly
  <2>1. CASE \E e \in Entries : f = Put(file, e)
    <3>1. PICK e \in Entries : f = Put(file, e)
      BY <2>1
    <3>2. e.id \in Ids /\ Without(file, e.id) = Without(f, e.id)
      BY <1>1, <3>1, PutPuts DEF Entries
    <3>3. QED
      BY <1>2, <3>2, OneJob
  <2>2. CASE \E j \in Ids : f = Without(file, j)
    BY <1>1, <1>2, <2>2, WithoutRemoves, OneJob
  <2>3. QED
    BY <2>1, <2>2 DEF Texts
<1>5. QED
  BY <1>1, <1>2, <1>3, <1>4, FileStep DEF Has

LEMMA CatalogNext == ASSUME CatalogInv, Next PROVE Keeps
<1>1. ASSUME NEW s \in Slots, Request(s)
      PROVE  Keeps
  <2>1. CASE \E e \in Entries : (\E create \in BOOLEAN : Save(s, e, create)) \/ Embed(s, e)
    BY <2>1, SaveHolds, EmbedHolds
  <2>2. CASE \E j \in Ids : \E b \in BOOLEAN : SetEnabled(s, j, b) \/ Delete(s, j, b)
    BY <2>2, SetEnabledHolds, DeleteHolds
  <2>3. CASE \E j \in Ids : DeleteOrphan(s, j) \/ RunNow(s, j)
    BY <2>3, DeleteOrphanHolds, RunNowHolds
  <2>4. CASE \E f \in Texts : ReplaceRaw(s, f)
    BY <2>4, ReplaceRawHolds
  <2>5. QED
    BY <1>1, <2>1, <2>2, <2>3, <2>4 DEF Request
<1>2. ASSUME NEW s \in Slots, Continue(s)
      PROVE  Keeps
  BY <1>2, AskedHolds, ReloadHolds, VerifyHolds, RemoveJobHolds, ReloadAfterRemoveHolds, LooksOn,
     RunsGoHolds, PurgeHolds, RawHolds, RawReloadHolds, StartRunHolds DEF Continue
<1>3. QED
  BY <1>1, <1>2, RunsComeAndGo, ConnectionsChange, CredentialChanges, IngesterHolds, ManagerDies,
     ForeignWriteHolds DEF Next

LEMMA CatalogStutters == ASSUME CatalogInv, UNCHANGED vars PROVE Keeps
<1>1. Still /\ req' = req
  BY AllStands DEF vars, store, ingester
<1>2. QED
  BY <1>1, NoRequest

LEMMA NobodyIsOnTheWay ==
    ASSUME file \in Catalogs, req = [p \in Slots |-> Idle], gone = {},
           \A i \in DOMAIN file : file[i].conn \in conns
    PROVE  CatalogInv
<1>1. CatalogTypes
  BY IdleIsHarmless DEF CatalogTypes
<1>2. RequestsInv
  BY IdleIsHarmless DEF RequestsInv, Missing
<1>3. QED
  BY <1>1, <1>2 DEF CatalogInv, GoneInv, JobsKeepTheirConnection

LEMMA CatalogInit == PagesInit => CatalogInv
<1>1. CASE Init
  <2>1. file \in Seq(Entries)
    <3>1. CASE file = <<>>
      BY <3>1
    <3>2. CASE \E e \in Entries : file = <<e>>
      BY <3>2
    <3>3. CASE \E e, d \in Entries : file = <<e, d>>
      BY <3>3
    <3>4. QED
      BY <1>1, <3>1, <3>2, <3>3 DEF Init
  <2>2. file \in Catalogs
    BY <1>1, <2>1 DEF Init, Catalogs, Unique
  <2>3. \A i \in DOMAIN file : file[i].conn \in conns
    BY <1>1, CheckedConnects DEF Init, CheckCatalog
  <2>4. QED
    BY <1>1, <2>2, <2>3, NobodyIsOnTheWay DEF Init
<1>2. CASE NoCatalog
  <2>1. file \in Catalogs /\ \A i \in DOMAIN file : file[i].conn \in conns
    BY <1>2 DEF NoCatalog, Catalogs, Unique
  <2>2. QED
    BY <1>2, <2>1, NobodyIsOnTheWay DEF NoCatalog
<1>3. QED
  BY <1>1, <1>2 DEF PagesInit

LEMMA CatalogStep == ASSUME CatalogInv, [PagesNext]_pageVars PROVE Keeps
<1>1. Next \/ UNCHANGED vars
  BY DEF PagesNext, pageVars
<1>2. QED
  BY <1>1, CatalogNext, CatalogStutters

\* Two editors, an ingester that refuses, polls and restarts, connections that go, and a file that
\* others edit: no job loses its connection but by the three writes that do not look at the
\* connections (the way back, a hand on the host, the raw editor), and no run outlives its job.
THEOREM CatalogHoldsAlways == PagesSpec => []CatalogHolds
<1>1. PagesInit => CatalogInv
  BY CatalogInit
<1>2. CatalogInv /\ [PagesNext]_pageVars => CatalogInv'
  BY CatalogStep DEF Keeps
<1>3. CatalogInv => CatalogHolds
  BY DEF CatalogInv, CatalogHolds, GoneInv, DeletedLeavesNoRuns
<1>4. QED
  BY <1>1, <1>2, <1>3, PTL DEF PagesSpec

\* An edit of one job, and the way back from it, leaves every other job as it is at that moment.
THEOREM OnlyItsOwnJobAlways == PagesSpec => OnlyItsOwnJob
<1>1. PagesInit => CatalogInv
  BY CatalogInit
<1>2. CatalogInv /\ [PagesNext]_pageVars => CatalogInv' /\ [OneJobOnly]_vars
  BY CatalogStep DEF Keeps
<1>3. QED
  BY <1>1, <1>2, PTL DEF PagesSpec, OnlyItsOwnJob

\* Content is cleaned up only for a job that was not in the file when the request looked.
THEOREM PurgeSparesTheFileAlways == PagesSpec => PurgeSparesTheFile
<1>1. PagesInit => CatalogInv
  BY CatalogInit
<1>2. CatalogInv /\ [PagesNext]_pageVars => CatalogInv' /\ [PurgeIsSafe]_vars
  BY CatalogStep DEF Keeps
<1>3. QED
  BY <1>1, <1>2, PTL DEF PagesSpec, PurgeSparesTheFile

-----------------------------------------------------------------------------
(* Uploads staged for embedding.                                           *)

Manifests == [state : {"absent", "staged", "embedding", "kept"}, run : 0..MaxIngests]
Folders == [on : BOOLEAN, files : SUBSET Paths]
Ingests == [status : {"absent", "running", "read", "success", "failed", "forgotten"},
            src : Uploads \cup {None, Other}, bad : BOOLEAN]
RunRequests == [at : {"idle", "ask", "load", "run", "mark"}, up : Uploads \cup {None}, run : 0..MaxIngests]
Sweeps == [at : {"idle", "ask"}, todo : SUBSET (Uploads \X Runs), working : SUBSET Uploads,
           vain : SUBSET Uploads]

UploadTypes ==
    /\ man \in [Uploads -> Manifests] /\ dir \in [Uploads -> Folders] /\ old \in [Uploads -> BOOLEAN]
    /\ job \in Uploads \cup {None, Other} /\ runs \in [Runs -> Ingests]
    /\ start \in [Starts -> RunRequests] /\ pass \in [Passes -> Sweeps]
    /\ save \in [Saves -> [up : Uploads, file : Paths] \cup {NoSave}]
    /\ unread \in [Uploads -> SUBSET Paths] /\ late \in [Uploads -> SUBSET Paths]

\* A number in a manifest, or on its way there, is that of a run the ingester did start.
MarkedRunIs ==
    /\ \A b \in Uploads :
          man[b].state = "embedding" => man[b].run \in Runs /\ runs[man[b].run].status # "absent"
    /\ \A s \in Starts :
          start[s].at = "mark" => start[s].run \in Runs /\ runs[start[s].run].status # "absent"

\* An old upload whose run is working is one the pass has asked about, or still will: what was
\* marked after the pass had collected is not old.
AskedAbout ==
    \A p \in Passes, b \in Uploads :
        pass[p].at = "ask" /\ man[b].state = "embedding" /\ Active(man[b].run) /\ old[b] =>
            b \in pass[p].working \cup pass[p].vain \/ <<b, man[b].run>> \in pass[p].todo

\* A run that read its folder without a failure has embedded all there is but what came late.
HasRead(r) == runs[r].status \in {"read", "success"} /\ ~runs[r].bad
ReadIsRead ==
    \A r \in Runs, b \in Uploads :
        runs[r].src = b /\ HasRead(r) => unread[b] \cap dir[b].files \subseteq late[b]

UploadInv == UploadTypes /\ MarkedRunIs /\ AskedAbout /\ ReadIsRead

LEMMA MarksStay ==
    ASSUME MarkedRunIs,
           \A r \in Runs : runs[r].status # "absent" => runs'[r].status # "absent",
           \A b \in Uploads : man'[b].state = "embedding" =>
              \/ man'[b] = man[b]
              \/ man'[b].run \in Runs /\ runs'[man'[b].run].status # "absent",
           \A s \in Starts : start'[s].at = "mark" =>
              \/ start'[s] = start[s]
              \/ start'[s].run \in Runs /\ runs'[start'[s].run].status # "absent"
    PROVE  MarkedRunIs'
BY DEF MarkedRunIs

LEMMA AskedStays ==
    ASSUME AskedAbout,
           \A b \in Uploads :
              man'[b].state = "embedding" /\ runs'[man'[b].run].status \in {"running", "read"} /\ old'[b] =>
                 man'[b] = man[b] /\ Active(man[b].run) /\ old[b],
           \A p \in Passes : pass'[p].at = "ask" => pass'[p] = pass[p]
    PROVE  AskedAbout'
BY DEF AskedAbout, Active

LEMMA ReadStays ==
    ASSUME ReadIsRead,
           \A r \in Runs : runs'[r].status \in {"read", "success"} /\ ~runs'[r].bad =>
              HasRead(r) /\ runs'[r].src = runs[r].src,
           \A b \in Uploads : (unread'[b] \cap dir'[b].files) \ late'[b] \subseteq (unread[b] \cap dir[b].files) \ late[b]
    PROVE  ReadIsRead'
BY DEF ReadIsRead, HasRead

LEMMA UploadInvInit == ASSUME UploadsInit PROVE UploadInv
<1> USE DEF UploadsInit
<1>1. 0 \in 0..MaxIngests
  BY UploadConstants
<1>2. UploadTypes
  BY <1>1 DEF UploadTypes, NoManifest, NoFolder, NoRun, NoStart, NoSave, NoPass, Manifests, Folders,
              Ingests, RunRequests, Sweeps
<1>3. MarkedRunIs
  BY DEF MarkedRunIs, NoManifest, NoStart
<1>4. AskedAbout
  BY DEF AskedAbout, NoPass
<1>5. ReadIsRead
  BY DEF ReadIsRead, HasRead, NoRun
<1>6. QED
  BY <1>2, <1>3, <1>4, <1>5 DEF UploadInv

\* Steps that write no manifest, no folder and no run: the requests', and the deaths in between.
LEMMA RequestsKeep ==
    ASSUME UploadInv, UploadTypes', UNCHANGED <<man, dir, old, runs, pass, unread, late>>,
           \A s \in Starts : start'[s].at = "mark" => start'[s] = start[s]
    PROVE  UploadInv'
<1>1. MarkedRunIs'
  BY MarksStay DEF UploadInv
<1>2. AskedAbout'
  BY AskedStays DEF UploadInv, Active
<1>3. ReadIsRead'
  BY ReadStays DEF UploadInv, HasRead
<1>4. QED
  BY <1>1, <1>2, <1>3 DEF UploadInv

LEMMA StartKeeps ==
    ASSUME UploadInv, NEW s \in Starts, StartStep(s)
    PROVE  UploadInv'
<1>1. UploadTypes
  BY DEF UploadInv
<1>2. start[s] \in RunRequests /\ NoStart \in RunRequests
  BY <1>1, UploadConstants DEF UploadTypes, RunRequests, NoStart
<1>3. ASSUME NEW b \in Uploads, Plan(s, b)
      PROVE  UploadInv'
  <2>1. [at |-> "ask", up |-> b, run |-> 0] \in RunRequests
    BY UploadConstants DEF RunRequests
  <2>2. UploadTypes'
    BY <1>1, <1>3, <2>1 DEF UploadTypes, Plan, history
  <2>3. \A q \in Starts : start'[q].at = "mark" => start'[q] = start[q]
    BY <1>1, <1>3 DEF UploadTypes, Plan
  <2>4. QED
    BY <1>3, <2>2, <2>3, RequestsKeep DEF Plan, history
<1>4. \A step \in {"load", "run"} :
         (To(s, step) \/ GiveUp(s)) =>
            /\ start' \in [Starts -> RunRequests]
            /\ \A q \in Starts : start'[q].at = "mark" => start'[q] = start[q]
  <2> SUFFICES ASSUME NEW step \in {"load", "run"}, To(s, step) \/ GiveUp(s)
               PROVE  /\ start' \in [Starts -> RunRequests]
                      /\ \A q \in Starts : start'[q].at = "mark" => start'[q] = start[q]
    OBVIOUS
  <2>1. PICK n : n = [start[s] EXCEPT !.at = step]
    OBVIOUS
  <2>2. n \in RunRequests /\ n.at = step
    BY <1>2, <2>1 DEF RunRequests
  <2>3. PICK next \in {n, NoStart} : start' = [start EXCEPT ![s] = next]
    BY <1>1, <2>1 DEF UploadTypes, To, GiveUp
  <2>4. next \in RunRequests /\ next.at # "mark"
    BY <1>2, <2>2 DEF NoStart
  <2>5. QED
    BY <1>1, <2>3, <2>4 DEF UploadTypes
<1>5. CASE Upsert(s)
  <2>1. UploadTypes'
    BY <1>1, <1>2, <1>4, <1>5 DEF UploadTypes, Upsert, history, RunRequests
  <2>2. QED
    BY <1>4, <1>5, <2>1, RequestsKeep DEF Upsert, history
<1>6. CASE Load(s)
  <2>1. UploadTypes'
    BY <1>1, <1>2, <1>4, <1>6 DEF UploadTypes, Load, history, RunRequests
  <2>2. QED
    BY <1>4, <1>6, <2>1, RequestsKeep DEF Load, history
<1>7. CASE AskRun(s)
  <2>1. CASE GiveUp(s) /\ UNCHANGED runs
    <3>1. UploadTypes'
      BY <1>1, <1>4, <1>7, <2>1 DEF UploadTypes, AskRun, history
    <3>2. QED
      BY <1>4, <1>7, <2>1, <3>1, RequestsKeep DEF AskRun, history
  <2>2. ASSUME NEW r \in Runs, runs[r] = NoRun, job # None,
               runs' = [runs EXCEPT ![r] = [NoRun EXCEPT !.status = "running", !.src = job]],
               start' = [start EXCEPT ![s].at = "mark", ![s].run = r]
        PROVE  UploadInv'
    <3> DEFINE fresh == [status |-> "running", src |-> job, bad |-> FALSE]
                demand == [at |-> "mark", up |-> start[s].up, run |-> r]
    <3>1. runs' = [runs EXCEPT ![r] = fresh] /\ fresh \in Ingests
      <4>1. PICK n : n = [NoRun EXCEPT !.status = "running", !.src = job]
        OBVIOUS
      <4>2. NoRun \in Ingests /\ job \in Uploads \cup {None, Other}
        BY <1>1 DEF UploadTypes, NoRun, Ingests
      <4>3. n \in Ingests
        BY <4>1, <4>2 DEF Ingests
      <4>4. n.status = "running" /\ n.src = job /\ n.bad = FALSE
        BY <4>1, <4>2 DEF Ingests, NoRun
      <4>5. n = fresh
        BY <4>3, <4>4 DEF Ingests
      <4>6. QED
        BY <2>2, <4>1, <4>3, <4>5
    <3>2. start' = [start EXCEPT ![s] = demand] /\ demand \in RunRequests
      <4>1. PICK n : n = [start[s] EXCEPT !.at = "mark", !.run = r]
        OBVIOUS
      <4>2. r \in 0..MaxIngests
        BY UploadConstants DEF Runs
      <4>3. n \in RunRequests
        BY <1>2, <4>1, <4>2 DEF RunRequests
      <4>4. n.at = "mark" /\ n.up = start[s].up /\ n.run = r
        BY <1>2, <4>1 DEF RunRequests
      <4>5. n = demand
        BY <4>3, <4>4 DEF RunRequests
      <4>6. start' = [start EXCEPT ![s] = n]
        BY <1>1, <2>2, <4>1 DEF UploadTypes
      <4>7. QED
        BY <4>3, <4>5, <4>6
    <3>3. UNCHANGED <<man, dir, old, job, save, pass, unread, late>>
      BY <1>7 DEF AskRun, history
    <3>4. \A q \in Runs : runs'[q] = IF q = r THEN fresh ELSE runs[q]
      BY <1>1, <3>1 DEF UploadTypes
    <3>5. \A q \in Starts : start'[q] = IF q = s THEN demand ELSE start[q]
      BY <1>1, <3>2 DEF UploadTypes
    <3>6. UploadTypes'
      BY <1>1, <3>1, <3>2, <3>3 DEF UploadTypes
    <3>7. MarkedRunIs'
      BY <3>3, <3>4, <3>5, MarksStay DEF UploadInv
    <3>8. runs[r].status = "absent"
      BY <2>2 DEF NoRun
    <3>9. AskedAbout'
      <4>1. \A b \in Uploads : man[b].state = "embedding" => man[b].run \in Runs /\ man[b].run # r
        BY <3>8 DEF UploadInv, MarkedRunIs
      <4>2. QED
        BY <3>3, <3>4, <4>1, AskedStays DEF UploadInv, Active
    <3>10. ReadIsRead'
      BY <3>3, <3>4, ReadStays DEF UploadInv, HasRead
    <3>11. QED
      BY <3>6, <3>7, <3>9, <3>10 DEF UploadInv
  <2>3. QED
    BY <1>7, <2>1, <2>2 DEF AskRun
<1>8. CASE MarkEmbedding(s)
  <2> DEFINE up == start[s].up
             marked == [state |-> "embedding", run |-> start[s].run]
  <2>1. UNCHANGED <<dir, job, runs, save, pass, unread, late>> /\ start' = [start EXCEPT ![s] = NoStart]
    BY <1>8 DEF MarkEmbedding, GiveUp, history
  <2>2. start[s].run \in Runs /\ runs[start[s].run].status # "absent"
    BY <1>8 DEF MarkEmbedding, UploadInv, MarkedRunIs
  <2>3. marked \in Manifests
    BY <2>2 DEF Manifests, Runs
  <2>4. \/ man' = [man EXCEPT ![up] = marked] /\ old' = [old EXCEPT ![up] = FALSE]
        \/ UNCHANGED <<man, old>>
    BY <1>8 DEF MarkEmbedding, WriteManifest
  <2>5. UploadTypes'
    BY <1>1, <1>2, <2>1, <2>3, <2>4 DEF UploadTypes
  <2>6. \A b \in Uploads :
           \/ man'[b] = man[b] /\ old'[b] = old[b]
           \/ man'[b] = marked /\ old'[b] = FALSE
    <3>1. CASE UNCHANGED <<man, old>>
      BY <3>1
    <3>2. CASE man' = [man EXCEPT ![up] = marked] /\ old' = [old EXCEPT ![up] = FALSE]
      <4>1. \A b \in Uploads : man'[b] = IF b = up THEN marked ELSE man[b]
        BY <1>1, <3>2 DEF UploadTypes
      <4>2. \A b \in Uploads : old'[b] = IF b = up THEN FALSE ELSE old[b]
        BY <1>1, <3>2 DEF UploadTypes
      <4>3. QED
        BY <4>1, <4>2
    <3>3. QED
      BY <2>4, <3>1, <3>2
  <2>7. MarkedRunIs'
    <3>1. \A q \in Starts : start'[q] = start[q] \/ start'[q] = NoStart
      BY <1>1, <2>1 DEF UploadTypes
    <3>2. \A b \in Uploads : man'[b] = man[b] \/ (man'[b].run \in Runs /\ runs'[man'[b].run].status # "absent")
      BY <2>1, <2>2, <2>6
    <3>3. QED
      BY <2>1, <3>1, <3>2, MarksStay DEF UploadInv, NoStart
  <2>8. AskedAbout'
    BY <2>1, <2>6, AskedStays DEF UploadInv, Active
  <2>9. ReadIsRead'
    BY <2>1, ReadStays DEF UploadInv, HasRead
  <2>10. QED
    BY <2>5, <2>7, <2>8, <2>9 DEF UploadInv
<1>9. QED
  BY <1>3, <1>5, <1>6, <1>7, <1>8 DEF StartStep

\* The ingester: a run that has ended is never working again.
LEMMA IngesterKeeps ==
    ASSUME UploadInv, NEW r \in Runs, ReadFolder(r) \/ EndRun(r) \/ ForgetRun(r)
    PROVE  UploadInv'
<1>1. UploadTypes
  BY DEF UploadInv
<1>2. runs[r] \in Ingests
  BY <1>1 DEF UploadTypes
<1>3. UNCHANGED <<man, dir, old, job, start, save, pass>>
  BY DEF ReadFolder, EndRun, ForgetRun, history
<1>4. CASE ReadFolder(r)
  <2> DEFINE b == runs[r].src
             there == IF b = Other THEN {} ELSE dir[b].files
  <2>1. PICK ok \in SUBSET there :
            /\ runs' = [runs EXCEPT ![r].status = "read", ![r].bad = ok # there]
            /\ unread' = IF b = Other THEN unread ELSE [unread EXCEPT ![b] = @ \ ok]
            /\ late' = IF b = Other THEN late ELSE [late EXCEPT ![b] = @ \ ok]
    BY <1>4 DEF ReadFolder
  <2>2. PICK n : n = [runs[r] EXCEPT !.status = "read", !.bad = ok # there]
    OBVIOUS
  <2>3. n \in Ingests /\ n.status = "read" /\ n.src = b /\ n.bad = (ok # there)
    BY <1>2, <2>2 DEF Ingests
  <2>4. runs' = [runs EXCEPT ![r] = n]
    BY <1>1, <2>1, <2>2 DEF UploadTypes
  <2>5. \A q \in Runs : runs'[q] = IF q = r THEN n ELSE runs[q]
    BY <1>1, <2>4 DEF UploadTypes
  <2>6. \A u \in Uploads : unread'[u] = IF u = b THEN unread[u] \ ok ELSE unread[u]
    BY <1>1, <2>1, UploadConstants DEF UploadTypes
  <2>7. \A u \in Uploads : late'[u] = IF u = b THEN late[u] \ ok ELSE late[u]
    BY <1>1, <2>1, UploadConstants DEF UploadTypes
  <2>8. UploadTypes'
    <3>1. runs' \in [Runs -> Ingests]
      BY <1>1, <2>3, <2>4 DEF UploadTypes
    <3>2. unread' \in [Uploads -> SUBSET Paths] /\ late' \in [Uploads -> SUBSET Paths]
      BY <1>1, <2>1 DEF UploadTypes
    <3>3. QED
      BY <1>1, <1>3, <3>1, <3>2 DEF UploadTypes
  <2>9. runs[r].status = "running"
    BY <1>4 DEF ReadFolder
  <2>10. MarkedRunIs'
    BY <1>3, <2>3, <2>5, MarksStay DEF UploadInv
  <2>11. AskedAbout'
    <3>1. \A q \in Runs : runs'[q].status \in {"running", "read"} => Active(q)
      BY <2>5, <2>9 DEF Active
    <3>2. \A u \in Uploads : man[u].state = "embedding" => man[u].run \in Runs
      BY DEF UploadInv, MarkedRunIs
    <3>3. QED
      BY <1>3, <3>1, <3>2, AskedStays DEF UploadInv
  <2>12. ReadIsRead'
    <3> SUFFICES ASSUME NEW q \in Runs, NEW u \in Uploads, runs'[q].src = u,
                        runs'[q].status \in {"read", "success"}, runs'[q].bad = FALSE
                 PROVE  unread'[u] \cap dir'[u].files \subseteq late'[u]
      <4>1. \A q \in Runs : runs'[q].bad \in BOOLEAN
        BY <2>8 DEF UploadTypes, Ingests
      <4>2. QED
        BY <4>1 DEF ReadIsRead, HasRead
    <3>1. CASE q = r
      <4>1. u = b /\ b # Other /\ ok = there /\ there = dir[u].files
        BY <2>3, <2>5, <3>1, UploadConstants
      <4>2. QED
        BY <1>3, <2>6, <4>1
    <3>2. CASE q # r
      <4>1. runs[q].bad = FALSE /\ runs[q].status \in {"read", "success"} /\ runs[q].src = u
        BY <2>5, <3>2
      <4>2. unread[u] \cap dir[u].files \subseteq late[u]
        BY <4>1 DEF UploadInv, ReadIsRead, HasRead
      <4>3. QED
        BY <1>3, <2>6, <2>7, <4>2
    <3>3. QED
      BY <3>1, <3>2
  <2>13. QED
    BY <2>8, <2>10, <2>11, <2>12 DEF UploadInv
<1>5. CASE EndRun(r) \/ ForgetRun(r)
  <2>1. PICK st \in {"failed", "success", "forgotten"} :
            /\ runs' = [runs EXCEPT ![r].status = st]
            /\ st = "success" => runs[r].status = "read"
    BY <1>5 DEF EndRun, ForgetRun
  <2>2. PICK n : n = [runs[r] EXCEPT !.status = st]
    OBVIOUS
  <2>3. n \in Ingests /\ n.status = st /\ n.src = runs[r].src /\ n.bad = runs[r].bad
    BY <1>2, <2>2 DEF Ingests
  <2>4. runs' = [runs EXCEPT ![r] = n]
    BY <1>1, <2>1, <2>2 DEF UploadTypes
  <2>5. \A q \in Runs : runs'[q] = IF q = r THEN n ELSE runs[q]
    BY <1>1, <2>4 DEF UploadTypes
  <2>6. UNCHANGED <<unread, late>>
    BY <1>5 DEF EndRun, ForgetRun, history
  <2>7. UploadTypes'
    BY <1>1, <1>3, <2>3, <2>4, <2>6 DEF UploadTypes
  <2>8. MarkedRunIs'
    BY <1>3, <2>3, <2>5, MarksStay DEF UploadInv
  <2>9. AskedAbout'
    <3>1. \A q \in Runs : runs'[q].status \in {"running", "read"} => Active(q)
      BY <2>3, <2>5 DEF Active
    <3>2. \A u \in Uploads : man[u].state = "embedding" => man[u].run \in Runs
      BY DEF UploadInv, MarkedRunIs
    <3>3. QED
      BY <1>3, <3>1, <3>2, AskedStays DEF UploadInv
  <2>10. ReadIsRead'
    <3>1. \A q \in Runs : runs'[q].status \in {"read", "success"} /\ ~runs'[q].bad =>
             HasRead(q) /\ runs'[q].src = runs[q].src
      BY <2>1, <2>3, <2>5 DEF HasRead
    <3>2. QED
      BY <1>3, <2>6, <3>1, ReadStays DEF UploadInv
  <2>11. QED
    BY <2>7, <2>8, <2>9, <2>10 DEF UploadInv
<1>6. QED
  BY <1>4, <1>5

\* A manifest that is written starts the time limit again, and the run in it is one that was there.
LEMMA FoldersKeep ==
    ASSUME UploadInv, UploadTypes', UNCHANGED <<runs, start>>,
           \A u \in Uploads :
              man'[u].state = "embedding" =>
                 man[u].state = "embedding" /\ man'[u].run = man[u].run /\ (old'[u] => old[u]),
           \A u \in Uploads :
              (unread'[u] \cap dir'[u].files) \ late'[u] \subseteq (unread[u] \cap dir[u].files) \ late[u],
           \A p \in Passes : pass'[p].at = "ask" => pass'[p] = pass[p]
    PROVE  UploadInv'
<1>1. MarkedRunIs'
  BY DEF UploadInv, MarkedRunIs
<1>2. AskedAbout'
  BY DEF UploadInv, AskedAbout, Active
<1>3. ReadIsRead'
  BY ReadStays DEF UploadInv, HasRead
<1>4. QED
  BY <1>1, <1>2, <1>3 DEF UploadInv

LEMMA RemovalIs ==
    ASSUME UploadTypes, NEW b \in Uploads, RemoveUpload(b) \/ RemoveFails(b)
    PROVE  /\ man' \in [Uploads -> Manifests] /\ dir' \in [Uploads -> Folders]
           /\ old' \in [Uploads -> BOOLEAN]
           /\ \A u \in Uploads : man'[u].state = "embedding" => man'[u] = man[u] /\ (old'[u] => old[u])
           /\ \A u \in Uploads : dir'[u].files \subseteq dir[u].files
<1>1. NoManifest \in Manifests /\ NoFolder \in Folders /\ NoManifest.state # "embedding" /\ NoFolder.files = {}
  BY UploadConstants DEF NoManifest, NoFolder, Manifests, Folders
<1>2. CASE RemoveUpload(b)
  <2>1. \A u \in Uploads : man'[u] = IF u = b THEN NoManifest ELSE man[u]
    BY <1>2 DEF RemoveUpload, UploadTypes
  <2>2. \A u \in Uploads : old'[u] = IF u = b THEN FALSE ELSE old[u]
    BY <1>2 DEF RemoveUpload, UploadTypes
  <2>3. \A u \in Uploads : dir'[u] = IF u = b THEN NoFolder ELSE dir[u]
    BY <1>2 DEF RemoveUpload, UploadTypes
  <2>4. man' \in [Uploads -> Manifests] /\ dir' \in [Uploads -> Folders] /\ old' \in [Uploads -> BOOLEAN]
    BY <1>1, <1>2 DEF RemoveUpload, UploadTypes
  <2>5. QED
    BY <1>1, <2>1, <2>2, <2>3, <2>4
<1>3. CASE RemoveFails(b)
  <2>1. PICK rest \in SUBSET dir[b].files : dir' = [dir EXCEPT ![b].files = rest]
    BY <1>3 DEF RemoveFails
  <2>2. UNCHANGED <<man, old>>
    BY <1>3 DEF RemoveFails
  <2>3. PICK n : n = [dir[b] EXCEPT !.files = rest]
    OBVIOUS
  <2>4. dir[b] \in Folders
    BY DEF UploadTypes
  <2>5. n \in Folders /\ n.files = rest
    BY <2>3, <2>4 DEF Folders
  <2>6. dir' = [dir EXCEPT ![b] = n]
    BY <2>1, <2>3 DEF UploadTypes
  <2>7. \A u \in Uploads : dir'[u] = IF u = b THEN n ELSE dir[u]
    BY <2>6 DEF UploadTypes
  <2>8. dir' \in [Uploads -> Folders]
    BY <2>5, <2>6 DEF UploadTypes
  <2>9. QED
    BY <2>2, <2>5, <2>7, <2>8 DEF UploadTypes
<1>4. QED
  BY <1>2, <1>3

LEMMA WrittenIs ==
    ASSUME UploadTypes, NEW b \in Uploads, NEW m \in Manifests, WriteManifest(b, m),
           m.state = "embedding" => m = man[b]
    PROVE  /\ man' \in [Uploads -> Manifests] /\ old' \in [Uploads -> BOOLEAN]
           /\ \A u \in Uploads : man'[u].state = "embedding" => man'[u] = man[u] /\ (old'[u] => old[u])
<1>1. \A u \in Uploads : man'[u] = IF u = b THEN m ELSE man[u]
  BY DEF WriteManifest, UploadTypes
<1>2. \A u \in Uploads : old'[u] = IF u = b THEN FALSE ELSE old[u]
  BY DEF WriteManifest, UploadTypes
<1>3. man' \in [Uploads -> Manifests] /\ old' \in [Uploads -> BOOLEAN]
  BY DEF WriteManifest, UploadTypes
<1>4. QED
  BY <1>1, <1>2, <1>3

LEMMA UploadKeeps ==
    ASSUME UploadInv, NEW b \in Uploads, Create(b) \/ Discard(b) \/ Age(b)
    PROVE  UploadInv'
<1>1. UploadTypes
  BY DEF UploadInv
<1>2. CASE Create(b)
  <2> DEFINE empty == [on |-> TRUE, files |-> {}]
  <2>1. Staged \in Manifests /\ Staged.state # "embedding" /\ empty \in Folders /\ empty.files = {}
    BY UploadConstants DEF Staged, Manifests, Folders
  <2>2. /\ man' \in [Uploads -> Manifests] /\ old' \in [Uploads -> BOOLEAN]
        /\ \A u \in Uploads : man'[u].state = "embedding" => man'[u] = man[u] /\ (old'[u] => old[u])
    <3>1. WriteManifest(b, Staged)
      BY <1>2 DEF Create
    <3>2. QED
      BY <1>1, <2>1, <3>1, WrittenIs
  <2>3. \A u \in Uploads : dir'[u] = IF u = b THEN empty ELSE dir[u]
    BY <1>1, <1>2 DEF Create, UploadTypes
  <2>4. dir' \in [Uploads -> Folders]
    BY <1>1, <1>2, <2>1 DEF Create, UploadTypes
  <2>5. UNCHANGED <<job, runs, start, save, pass, unread, late>>
    BY <1>2 DEF Create, history
  <2>6. UploadTypes'
    BY <1>1, <2>2, <2>4, <2>5 DEF UploadTypes
  <2>7. \A u \in Uploads : dir'[u].files \subseteq dir[u].files
    BY <2>1, <2>3
  <2>8. QED
    BY <2>2, <2>5, <2>6, <2>7, FoldersKeep
<1>3. CASE Discard(b)
  <2>1. RemoveUpload(b) \/ RemoveFails(b)
    BY <1>3 DEF Discard
  <2>2. UNCHANGED <<job, runs, start, save, pass, unread, late>>
    BY <1>3 DEF Discard, history
  <2>3. /\ man' \in [Uploads -> Manifests] /\ dir' \in [Uploads -> Folders]
        /\ old' \in [Uploads -> BOOLEAN]
        /\ \A u \in Uploads : man'[u].state = "embedding" => man'[u] = man[u] /\ (old'[u] => old[u])
        /\ \A u \in Uploads : dir'[u].files \subseteq dir[u].files
    BY <1>1, <2>1, RemovalIs
  <2>4. UploadTypes'
    BY <1>1, <2>2, <2>3 DEF UploadTypes
  <2>5. QED
    BY <2>2, <2>3, <2>4, FoldersKeep
<1>4. CASE Age(b)
  <2>1. UNCHANGED <<man, dir, job, runs, start, save, pass, unread, late>>
    BY <1>4 DEF Age, history
  <2>2. old' \in [Uploads -> BOOLEAN]
    BY <1>1, <1>4 DEF Age, UploadTypes
  <2>3. UploadTypes'
    BY <1>1, <2>1, <2>2 DEF UploadTypes
  <2>4. MarkedRunIs'
    BY <2>1, MarksStay DEF UploadInv
  <2>5. AskedAbout'
    BY <1>4, <2>1 DEF Age, AskedAbout
  <2>6. ReadIsRead'
    BY <2>1, ReadStays DEF UploadInv, HasRead
  <2>7. QED
    BY <2>3, <2>4, <2>5, <2>6 DEF UploadInv
<1>5. QED
  BY <1>2, <1>3, <1>4

\* A file that comes after a run has read the folder is one that came late.
LEMMA SaveKeeps ==
    ASSUME UploadInv, NEW i \in Saves,
           EndSave(i) \/ FailSave(i) \/ \E b \in Uploads, f \in Paths : BeginSave(i, b, f)
    PROVE  UploadInv'
<1>1. UploadTypes
  BY DEF UploadInv
<1>2. CASE FailSave(i) \/ \E b \in Uploads, f \in Paths : BeginSave(i, b, f)
  <2>1. UNCHANGED <<man, dir, old, job, runs, start, pass, unread, late>>
    BY <1>2 DEF FailSave, BeginSave, history
  <2>2. save' \in [Saves -> [up : Uploads, file : Paths] \cup {NoSave}]
    <3>1. CASE FailSave(i)
      BY <1>1, <3>1 DEF FailSave, UploadTypes
    <3>2. CASE \E b \in Uploads, f \in Paths : BeginSave(i, b, f)
      <4>1. PICK b \in Uploads, f \in Paths : save' = [save EXCEPT ![i] = [up |-> b, file |-> f]]
        BY <3>2 DEF BeginSave
      <4>2. [up |-> b, file |-> f] \in [up : Uploads, file : Paths]
        OBVIOUS
      <4>3. QED
        BY <1>1, <4>1, <4>2 DEF UploadTypes
    <3>3. QED
      BY <1>2, <3>1, <3>2
  <2>3. UploadTypes'
    BY <1>1, <2>1, <2>2 DEF UploadTypes
  <2>4. QED
    BY <2>1, <2>3, RequestsKeep
<1>3. CASE EndSave(i)
  <2> DEFINE b == save[i].up
             f == save[i].file
             m == IF man[b].state = "kept" THEN [man[b] EXCEPT !.state = "staged"] ELSE man[b]
             tardy == \E r \in Runs : runs[r].src = b /\ runs[r].status # "running"
  <2>1. b \in Uploads /\ f \in Paths
    BY <1>1, <1>3 DEF EndSave, UploadTypes
  <2>2. dir[b] \in Folders /\ man[b] \in Manifests
    BY <1>1, <2>1 DEF UploadTypes
  <2>3. m \in Manifests /\ (m.state = "embedding" => m = man[b])
    BY <2>2 DEF Manifests
  <2>4. WriteManifest(b, m)
    BY <1>3 DEF EndSave
  <2>5. /\ man' \in [Uploads -> Manifests] /\ old' \in [Uploads -> BOOLEAN]
        /\ \A u \in Uploads : man'[u].state = "embedding" => man'[u] = man[u] /\ (old'[u] => old[u])
    BY <1>1, <2>1, <2>3, <2>4, WrittenIs
  <2>6. PICK n : n = [dir[b] EXCEPT !.files = @ \cup {f}]
    OBVIOUS
  <2>7. n \in Folders /\ n.files = dir[b].files \cup {f}
    BY <2>1, <2>2, <2>6 DEF Folders
  <2>8. dir' = [dir EXCEPT ![b] = n]
    BY <1>1, <1>3, <2>1, <2>6 DEF EndSave, UploadTypes
  <2>9. \A u \in Uploads : dir'[u] = IF u = b THEN n ELSE dir[u]
    BY <1>1, <2>8 DEF UploadTypes
  <2>10. \A u \in Uploads : unread'[u] = IF u = b THEN unread[u] \cup {f} ELSE unread[u]
    BY <1>1, <1>3 DEF EndSave, UploadTypes
  <2>11. \A u \in Uploads : late'[u] = IF u = b /\ tardy THEN late[u] \cup {f} ELSE late[u]
    BY <1>1, <1>3 DEF EndSave, UploadTypes
  <2>12. UNCHANGED <<job, runs, start, pass>>
    BY <1>3 DEF EndSave
  <2>13. UploadTypes'
    <3>1. dir' \in [Uploads -> Folders]
      BY <1>1, <2>7, <2>8 DEF UploadTypes
    <3>2. unread' \in [Uploads -> SUBSET Paths] /\ late' \in [Uploads -> SUBSET Paths]
      BY <1>1, <1>3, <2>1 DEF EndSave, UploadTypes
    <3>3. save' \in [Saves -> [up : Uploads, file : Paths] \cup {NoSave}]
      BY <1>1, <1>3 DEF EndSave, UploadTypes
    <3>4. QED
      BY <1>1, <2>5, <2>12, <3>1, <3>2, <3>3 DEF UploadTypes
  <2>14. MarkedRunIs'
    BY <2>5, <2>12, MarksStay DEF UploadInv
  <2>15. AskedAbout'
    BY <2>5, <2>12, AskedStays DEF UploadInv, Active
  <2>16. ReadIsRead'
    <3> SUFFICES ASSUME NEW r \in Runs, NEW u \in Uploads, runs[r].src = u, HasRead(r)
                 PROVE  unread'[u] \cap dir'[u].files \subseteq late'[u]
      BY <2>12 DEF ReadIsRead, HasRead
    <3>1. unread[u] \cap dir[u].files \subseteq late[u]
      BY DEF UploadInv, ReadIsRead
    <3>2. CASE u = b
      <4>1. tardy
        BY <3>2 DEF HasRead
      <4>2. QED
        BY <2>7, <2>9, <2>10, <2>11, <3>1, <3>2, <4>1
    <3>3. CASE u # b
      BY <2>9, <2>10, <2>11, <3>1, <3>3
    <3>4. QED
      BY <3>2, <3>3
  <2>17. QED
    BY <2>13, <2>14, <2>15, <2>16 DEF UploadInv
<1>4. QED
  BY <1>2, <1>3

LEMMA DeathKeeps ==
    ASSUME UploadInv,
           DieAnywhere \/ \E b \in Uploads : DieCreating(b) \/ DieRemoving(b)
    PROVE  UploadInv'
<1>1. UploadTypes
  BY DEF UploadInv
<1>2. Killed /\ UNCHANGED <<man, old>>
  BY DEF DieAnywhere, DieCreating, DieRemoving
<1>3. UNCHANGED <<job, runs, unread, late>>
  BY <1>2 DEF Killed, history
<1>4. dir' \in [Uploads -> Folders] /\ \A u \in Uploads : dir'[u].files \subseteq dir[u].files
  <2>1. CASE DieAnywhere
    BY <1>1, <2>1 DEF DieAnywhere, UploadTypes
  <2>2. ASSUME NEW b \in Uploads, NEW empty \in Folders, empty.files = {}, dir' = [dir EXCEPT ![b] = empty]
        PROVE  dir' \in [Uploads -> Folders] /\ \A u \in Uploads : dir'[u].files \subseteq dir[u].files
    <3>1. \A u \in Uploads : dir'[u] = IF u = b THEN empty ELSE dir[u]
      BY <1>1, <2>2 DEF UploadTypes
    <3>2. dir' \in [Uploads -> Folders]
      BY <1>1, <2>2 DEF UploadTypes
    <3>3. QED
      BY <2>2, <3>1, <3>2
  <2>3. [on |-> TRUE, files |-> {}] \in Folders /\ NoFolder \in Folders /\ NoFolder.files = {}
    BY DEF Folders, NoFolder
  <2>4. CASE \E b \in Uploads : DieCreating(b) \/ DieRemoving(b)
    <3>1. PICK b \in Uploads : dir' = [dir EXCEPT ![b] = [on |-> TRUE, files |-> {}]] \/ dir' = [dir EXCEPT ![b] = NoFolder]
      BY <2>4 DEF DieCreating, DieRemoving
    <3>2. QED
      BY <2>2, <2>3, <3>1
  <2>5. QED
    BY <2>1, <2>4
<1>5. NoStart \in RunRequests /\ NoPass \in Sweeps /\ NoStart.at # "mark" /\ NoPass.at # "ask"
  BY UploadConstants DEF NoStart, NoPass, RunRequests, Sweeps
<1>6. /\ start' \in [Starts -> RunRequests] /\ \A s \in Starts : start'[s] = NoStart
      /\ pass' \in [Passes -> Sweeps] /\ \A p \in Passes : pass'[p] = NoPass
      /\ save' \in [Saves -> [up : Uploads, file : Paths] \cup {NoSave}]
  BY <1>2, <1>5 DEF Killed
<1>7. UploadTypes'
  BY <1>1, <1>2, <1>3, <1>4, <1>6 DEF UploadTypes
<1>8. MarkedRunIs'
  BY <1>2, <1>3, <1>5, <1>6, MarksStay DEF UploadInv
<1>9. AskedAbout'
  BY <1>5, <1>6 DEF AskedAbout
<1>10. ReadIsRead'
  BY <1>3, <1>4, ReadStays DEF UploadInv, HasRead
<1>11. QED
  BY <1>7, <1>8, <1>9, <1>10 DEF UploadInv

-----------------------------------------------------------------------------
(* The passes.                                                             *)

\* What one pass does next is a record that says which uploads it still asks about, and which it
\* leaves alone.
LEMMA SweepIs ==
    ASSUME UploadTypes, NEW p \in Passes, NEW n \in Sweeps, pass' = [pass EXCEPT ![p] = n]
    PROVE  pass' \in [Passes -> Sweeps] /\ \A q \in Passes : pass'[q] = IF q = p THEN n ELSE pass[q]
BY DEF UploadTypes

LEMMA BeginPassKeeps ==
    ASSUME UploadInv, NEW p \in Passes, BeginPass(p)
    PROVE  UploadInv'
<1> DEFINE marked == {u \in Uploads : man[u].state = "embedding"}
           asks == {<<b, man[b].run>> : b \in marked}
           n == [at |-> "ask", working |-> {}, vain |-> {}, todo |-> asks]
<1>1. UploadTypes /\ MarkedRunIs
  BY DEF UploadInv
<1>2. asks \in SUBSET (Uploads \X Runs)
  BY <1>1 DEF MarkedRunIs
<1>3. n \in Sweeps
  BY <1>2 DEF Sweeps
<1>4. UNCHANGED <<man, dir, old, job, runs, start, save, unread, late>> /\ pass' = [pass EXCEPT ![p] = n]
  BY DEF BeginPass, history
<1>5. pass' \in [Passes -> Sweeps] /\ \A q \in Passes : pass'[q] = IF q = p THEN n ELSE pass[q]
  BY <1>1, <1>3, <1>4, SweepIs
<1>6. UploadTypes'
  BY <1>1, <1>4, <1>5 DEF UploadTypes
<1>7. MarkedRunIs'
  BY <1>1, <1>4, MarksStay
<1>8. AskedAbout'
  <2> SUFFICES ASSUME NEW q \in Passes, NEW b \in Uploads, pass'[q].at = "ask", man[b].state = "embedding",
                      Active(man[b].run), old[b]
               PROVE  b \in pass'[q].working \cup pass'[q].vain \/ <<b, man[b].run>> \in pass'[q].todo
    BY <1>4 DEF AskedAbout, Active
  <2>1. CASE q = p
    BY <1>5, <2>1
  <2>2. CASE q # p
    BY <1>5, <2>2 DEF UploadInv, AskedAbout
  <2>3. QED
    BY <2>1, <2>2
<1>9. ReadIsRead'
  BY <1>4, ReadStays DEF UploadInv, HasRead
<1>10. QED
  BY <1>6, <1>7, <1>8, <1>9 DEF UploadInv

\* The answer about t: what a pass that was s knows with it, n, and what becomes of the upload.
Answered(n, s, t) ==
    \/ /\ Active(t[2]) /\ UNCHANGED <<man, old, dir>>
       /\ n = [[s EXCEPT !.todo = @ \ {t}] EXCEPT !.working = @ \cup {t[1]}]
    \/ /\ ~Active(t[2]) /\ (Settle(t[1], t[2]) \/ (~Present(t[1]) /\ UNCHANGED <<man, old, dir>>))
       /\ n = [s EXCEPT !.todo = @ \ {t}]
    \/ /\ UNCHANGED <<man, old, dir>> \/ RemoveFails(t[1])
       /\ n = [s EXCEPT !.todo = @ \ {t}, !.vain = @ \cup {t[1]}]

\* What was asked about, t, was working, could not be asked about, or is not marked any more; a
\* manifest that is written, or removed, starts the time limit again.
LEMMA AnswersKeep ==
    ASSUME UploadInv, NEW p \in Passes, AskAbout(p) \/ AskInVain(p)
    PROVE  UploadInv'
<1>1. UploadTypes
  BY DEF UploadInv
<1>2. pass[p] \in Sweeps /\ pass[p].at = "ask"
  BY <1>1 DEF UploadTypes, AskAbout, AskInVain
<1>3. UNCHANGED <<job, runs, start, save, unread, late>>
  BY DEF AskAbout, AskInVain, history
<1>4. PICK t \in pass[p].todo : \E n : pass' = [pass EXCEPT ![p] = n] /\ Answered(n, pass[p], t)
  <2>1. CASE AskAbout(p)
    <3>1. PICK t \in pass[p].todo :
             LET next == [pass[p] EXCEPT !.todo = @ \ {t}]
             IN \/ /\ Active(t[2]) /\ UNCHANGED <<man, old, dir>>
                   /\ pass' = [pass EXCEPT ![p] = [next EXCEPT !.working = @ \cup {t[1]}]]
                \/ /\ ~Active(t[2]) /\ (Settle(t[1], t[2]) \/ (~Present(t[1]) /\ UNCHANGED <<man, old, dir>>))
                   /\ pass' = [pass EXCEPT ![p] = next]
      BY <2>1 DEF AskAbout
    <3>2. CASE Active(t[2])
      <4>1. PICK n : n = [[pass[p] EXCEPT !.todo = @ \ {t}] EXCEPT !.working = @ \cup {t[1]}]
        OBVIOUS
      <4>2. QED
        BY <3>1, <3>2, <4>1 DEF Answered
    <3>3. CASE ~Active(t[2])
      <4>1. PICK n : n = [pass[p] EXCEPT !.todo = @ \ {t}]
        OBVIOUS
      <4>2. QED
        BY <3>1, <3>3, <4>1 DEF Answered
    <3>4. QED
      BY <3>2, <3>3
  <2>2. CASE AskInVain(p)
    <3>1. PICK t \in pass[p].todo :
             /\ pass' = [pass EXCEPT ![p].todo = @ \ {t}, ![p].vain = @ \cup {t[1]}]
             /\ UNCHANGED <<man, old, dir>> \/ RemoveFails(t[1])
      BY <2>2 DEF AskInVain
    <3>2. pass' = [pass EXCEPT ![p] = [pass[p] EXCEPT !.todo = @ \ {t}, !.vain = @ \cup {t[1]}]]
      BY <1>1, <3>1 DEF UploadTypes
    <3>3. PICK n : n = [pass[p] EXCEPT !.todo = @ \ {t}, !.vain = @ \cup {t[1]}]
      OBVIOUS
    <3>4. QED
      BY <3>1, <3>2, <3>3 DEF Answered
  <2>3. QED
    BY <2>1, <2>2
<1>5. PICK n : pass' = [pass EXCEPT ![p] = n] /\ Answered(n, pass[p], t)
  BY <1>4
<1>6. t \in Uploads \X Runs
  BY <1>2 DEF Sweeps
<1>7. PICK b \in Uploads, r \in Runs : t = <<b, r>> /\ t[1] = b /\ t[2] = r
  BY <1>6
<1>8. /\ n \in Sweeps /\ n.at = "ask" /\ n.todo = pass[p].todo \ {t}
      /\ pass[p].working \cup pass[p].vain \subseteq n.working \cup n.vain
      /\ Active(r) => b \in n.working \cup n.vain
  <2>1. pass[p] \in Sweeps /\ pass[p].at = "ask" /\ b \in Uploads /\ t \in pass[p].todo
    BY <1>2, <1>5, <1>7
  <2>2. CASE Active(r) /\ n = [[pass[p] EXCEPT !.todo = @ \ {t}] EXCEPT !.working = @ \cup {b}]
    <3>1. PICK m : m = [pass[p] EXCEPT !.todo = @ \ {t}]
      OBVIOUS
    <3>2. m \in Sweeps /\ m.at = "ask" /\ m.todo = pass[p].todo \ {t} /\ m.working = pass[p].working /\ m.vain = pass[p].vain
      BY <2>1, <3>1 DEF Sweeps
    <3>3. n = [m EXCEPT !.working = @ \cup {b}]
      BY <2>2, <3>1
    <3>4. n \in Sweeps /\ n.at = "ask" /\ n.todo = m.todo /\ n.working = m.working \cup {b} /\ n.vain = m.vain
      BY <2>1, <3>2, <3>3 DEF Sweeps
    <3>5. QED
      BY <3>2, <3>4
  <2>3. CASE ~Active(r) /\ n = [pass[p] EXCEPT !.todo = @ \ {t}]
    <3>1. n \in Sweeps /\ n.at = "ask" /\ n.todo = pass[p].todo \ {t} /\ n.working = pass[p].working /\ n.vain = pass[p].vain
      BY <2>1, <2>3 DEF Sweeps
    <3>2. QED
      BY <2>3, <3>1
  <2>4. CASE n = [pass[p] EXCEPT !.todo = @ \ {t}, !.vain = @ \cup {b}]
    <3>1. n \in Sweeps /\ n.at = "ask" /\ n.todo = pass[p].todo \ {t} /\ n.working = pass[p].working /\ n.vain = pass[p].vain \cup {b}
      BY <2>1, <2>4 DEF Sweeps
    <3>2. QED
      BY <3>1
  <2>5. QED
    BY <1>5, <1>7, <2>2, <2>3, <2>4 DEF Answered
<1>9. pass' \in [Passes -> Sweeps] /\ \A q \in Passes : pass'[q] = IF q = p THEN n ELSE pass[q]
  BY <1>1, <1>5, <1>8, SweepIs
<1>10. /\ man' \in [Uploads -> Manifests] /\ dir' \in [Uploads -> Folders] /\ old' \in [Uploads -> BOOLEAN]
       /\ \A u \in Uploads : man'[u].state = "embedding" => man'[u] = man[u] /\ (old'[u] => old[u])
       /\ \A u \in Uploads : dir'[u].files \subseteq dir[u].files
  <2>1. CASE UNCHANGED <<man, old, dir>>
    BY <1>1, <2>1 DEF UploadTypes
  <2>2. CASE RemoveUpload(b) \/ RemoveFails(b)
    BY <1>1, <2>2, RemovalIs
  <2>3. CASE WriteManifest(b, [man[b] EXCEPT !.state = "kept"]) /\ UNCHANGED dir
    <3>1. PICK m : m = [man[b] EXCEPT !.state = "kept"]
      OBVIOUS
    <3>2. man[b] \in Manifests
      BY <1>1 DEF UploadTypes
    <3>3. m \in Manifests /\ m.state = "kept"
      BY <3>1, <3>2 DEF Manifests
    <3>4. WriteManifest(b, m)
      BY <2>3, <3>1
    <3>5. QED
      BY <1>1, <2>3, <3>3, <3>4, WrittenIs DEF UploadTypes
  <2>4. QED
    BY <1>5, <1>7, <2>1, <2>2, <2>3 DEF Answered, Settle
<1>11. UploadTypes'
  BY <1>1, <1>3, <1>9, <1>10 DEF UploadTypes
<1>12. MarkedRunIs'
  BY <1>3, <1>10, MarksStay DEF UploadInv
<1>13. AskedAbout'
  <2> SUFFICES ASSUME NEW q \in Passes, NEW u \in Uploads, pass'[q].at = "ask", man'[u].state = "embedding",
                      Active(man'[u].run), old'[u]
               PROVE  u \in pass'[q].working \cup pass'[q].vain \/ <<u, man'[u].run>> \in pass'[q].todo
    BY <1>3 DEF AskedAbout, Active
  <2>1. man'[u] = man[u] /\ old[u]
    BY <1>10
  <2>2. pass[q].at = "ask" => u \in pass[q].working \cup pass[q].vain \/ <<u, man[u].run>> \in pass[q].todo
    BY <2>1 DEF UploadInv, AskedAbout
  <2>3. CASE q # p
    BY <1>9, <2>1, <2>2, <2>3
  <2>4. CASE q = p
    <3>1. u \in pass[p].working \cup pass[p].vain \/ <<u, man[u].run>> \in pass[p].todo
      BY <1>2, <2>2, <2>4
    <3>2. CASE <<u, man[u].run>> # t
      BY <1>8, <1>9, <2>1, <2>4, <3>1, <3>2
    <3>3. CASE <<u, man[u].run>> = t
      <4>1. u = b /\ man[u].run = r /\ Active(r)
        BY <1>7, <2>1, <3>3
      <4>2. b \in n.working \cup n.vain
        BY <1>8, <4>1
      <4>3. QED
        BY <1>9, <2>4, <4>1, <4>2
    <3>4. QED
      BY <3>2, <3>3
  <2>5. QED
    BY <2>3, <2>4
<1>14. ReadIsRead'
  BY <1>3, <1>10, ReadStays DEF UploadInv, HasRead
<1>15. QED
  BY <1>11, <1>12, <1>13, <1>14 DEF UploadInv

LEMMA EndPassKeeps ==
    ASSUME UploadInv, NEW p \in Passes, EndPass(p)
    PROVE  UploadInv'
<1>1. UploadTypes
  BY DEF UploadInv
<1>2. UNCHANGED <<job, runs, start, save, unread, late>> /\ pass' = [pass EXCEPT ![p] = NoPass]
  BY DEF EndPass, history
<1>3. NoPass \in Sweeps /\ NoPass.at # "ask"
  BY DEF NoPass, Sweeps
<1>4. pass' \in [Passes -> Sweeps] /\ \A q \in Passes : pass'[q] = IF q = p THEN NoPass ELSE pass[q]
  BY <1>1, <1>2, <1>3, SweepIs
<1>5. PICK go, lose :
         /\ dir' = [b \in Uploads |-> IF b \in go THEN NoFolder ELSE dir[b]]
         /\ man' = [b \in Uploads |-> IF b \in lose THEN NoManifest ELSE man[b]]
         /\ old' = [b \in Uploads |-> old[b] /\ b \notin lose]
  <2>1. PICK stuck : LET go == (Expired(p) \ stuck) \cup Unrecorded
                     IN /\ dir' = [b \in Uploads |-> IF b \in go THEN NoFolder ELSE dir[b]]
                        /\ man' = [b \in Uploads |-> IF b \in go \cup Dropped(p) THEN NoManifest ELSE man[b]]
                        /\ old' = [b \in Uploads |-> old[b] /\ b \notin go \cup Dropped(p)]
    BY DEF EndPass
  <2>2. PICK go, lose : go = (Expired(p) \ stuck) \cup Unrecorded /\ lose = go \cup Dropped(p)
    OBVIOUS
  <2>3. QED
    BY <2>1, <2>2
<1>6. NoManifest \in Manifests /\ NoFolder \in Folders /\ NoManifest.state # "embedding" /\ NoFolder.files = {}
  BY UploadConstants DEF NoManifest, NoFolder, Manifests, Folders
<1>7. UploadTypes'
  BY <1>1, <1>2, <1>4, <1>5, <1>6 DEF UploadTypes
<1>8. \A u \in Uploads : man'[u].state = "embedding" => man'[u] = man[u] /\ (old'[u] => old[u])
  BY <1>5, <1>6
<1>9. \A u \in Uploads : dir'[u].files \subseteq dir[u].files
  BY <1>5, <1>6
<1>10. \A q \in Passes : pass'[q].at = "ask" => pass'[q] = pass[q]
  BY <1>3, <1>4
<1>11. QED
  BY <1>2, <1>7, <1>8, <1>9, <1>10, FoldersKeep

LEMMA UploadInvNext == ASSUME UploadInv, [UploadsNext]_uploadsVars PROVE UploadInv'
<1>1. CASE UNCHANGED uploadsVars
  BY <1>1 DEF uploadsVars, UploadInv, UploadTypes, MarkedRunIs, AskedAbout, ReadIsRead, Active, HasRead
<1>2. ASSUME NEW b \in Uploads, Create(b) \/ Discard(b) \/ Age(b) \/ DieCreating(b) \/ DieRemoving(b)
      PROVE  UploadInv'
  BY <1>2, UploadKeeps, DeathKeeps
<1>3. ASSUME NEW i \in Saves,
             EndSave(i) \/ FailSave(i) \/ \E b \in Uploads, f \in Paths : BeginSave(i, b, f)
      PROVE  UploadInv'
  BY <1>3, SaveKeeps
<1>4. CASE UpsertOther
  <2>1. UNCHANGED <<man, dir, old, runs, start, save, pass, unread, late>> /\ job' = Other
    BY <1>4 DEF UpsertOther, history
  <2>2. UploadTypes'
    BY <2>1 DEF UploadInv, UploadTypes
  <2>3. QED
    BY <2>1, <2>2, RequestsKeep
<1>5. ASSUME NEW s \in Starts, StartStep(s)
      PROVE  UploadInv'
  BY <1>5, StartKeeps
<1>6. ASSUME NEW r \in Runs, ReadFolder(r) \/ EndRun(r) \/ ForgetRun(r)
      PROVE  UploadInv'
  BY <1>6, IngesterKeeps
<1>7. ASSUME NEW p \in Passes, BeginPass(p) \/ AskAbout(p) \/ AskInVain(p) \/ EndPass(p)
      PROVE  UploadInv'
  BY <1>7, BeginPassKeeps, AnswersKeep, EndPassKeeps
<1>8. CASE DieAnywhere
  BY <1>8, DeathKeeps
<1>9. QED
  BY <1>1, <1>2, <1>3, <1>4, <1>5, <1>6, <1>7, <1>8 DEF UploadsNext

\* Only the end of a pass, and a death, take a pass from its questions to rest.
LEMMA RestIs ==
    ASSUME UploadTypes, UploadsNext, NEW p \in Passes, pass[p].at = "ask", pass'[p].at # "ask"
    PROVE  EndPass(p) \/ UNCHANGED man
<1>1. pass[p] \in Sweeps
  BY DEF UploadTypes
<1>2. ASSUME NEW q \in Passes, NEW n, pass' = [pass EXCEPT ![q] = n], n.at = "ask" \/ q # p
      PROVE  FALSE
  BY <1>2 DEF UploadTypes
<1>3. ASSUME NEW q \in Passes, BeginPass(q)
      PROVE  FALSE
  <2>1. PICK asks : pass' = [pass EXCEPT ![q] = [at |-> "ask", working |-> {}, vain |-> {}, todo |-> asks]]
    BY <1>3 DEF BeginPass
  <2>2. QED
    BY <1>2, <2>1
<1>4. ASSUME NEW q \in Passes, AskAbout(q)
      PROVE  FALSE
  <2>1. PICK t \in pass[q].todo :
           \/ pass' = [pass EXCEPT ![q] = [[pass[q] EXCEPT !.todo = @ \ {t}] EXCEPT !.working = @ \cup {t[1]}]]
           \/ pass' = [pass EXCEPT ![q] = [pass[q] EXCEPT !.todo = @ \ {t}]]
    BY <1>4 DEF AskAbout
  <2>2. PICK m : m = [pass[q] EXCEPT !.todo = @ \ {t}]
    OBVIOUS
  <2>3. PICK n : n = [m EXCEPT !.working = @ \cup {t[1]}]
    OBVIOUS
  <2>4. q = p => m.at = "ask" /\ n.at = "ask"
    BY <1>1, <2>2, <2>3 DEF Sweeps
  <2>5. pass' = [pass EXCEPT ![q] = m] \/ pass' = [pass EXCEPT ![q] = n]
    BY <2>1, <2>2, <2>3
  <2>6. QED
    BY <1>2, <2>4, <2>5
<1>5. ASSUME NEW q \in Passes, AskInVain(q)
      PROVE  FALSE
  <2>1. PICK t \in pass[q].todo :
           pass' = [pass EXCEPT ![q].todo = @ \ {t}, ![q].vain = @ \cup {t[1]}]
    BY <1>5 DEF AskInVain
  <2>2. pass'[p].at = pass[p].at
    BY <1>1, <2>1 DEF UploadTypes, Sweeps
  <2>3. QED
    BY <2>2
<1>6. ASSUME NEW q \in Passes, EndPass(q)
      PROVE  EndPass(p)
  <2>1. pass' = [pass EXCEPT ![q] = NoPass]
    BY <1>6 DEF EndPass
  <2>2. q = p
    BY <1>2, <2>1
  <2>3. QED
    BY <1>6, <2>2
<1>7. ASSUME NEW s \in Starts, StartStep(s)
      PROVE  UNCHANGED pass
  BY <1>7 DEF StartStep, Plan, Upsert, Load, AskRun, MarkEmbedding
<1>8. ASSUME NEW b \in Uploads, Create(b) \/ Discard(b) \/ Age(b) \/ DieCreating(b) \/ DieRemoving(b)
      PROVE  UNCHANGED pass \/ UNCHANGED man
  BY <1>8 DEF Create, Discard, Age, DieCreating, DieRemoving
<1>9. ASSUME NEW i \in Saves,
             EndSave(i) \/ FailSave(i) \/ \E b \in Uploads, f \in Paths : BeginSave(i, b, f)
      PROVE  UNCHANGED pass
  BY <1>9 DEF EndSave, FailSave, BeginSave
<1>10. ASSUME NEW r \in Runs, ReadFolder(r) \/ EndRun(r) \/ ForgetRun(r)
       PROVE  UNCHANGED pass
  BY <1>10 DEF ReadFolder, EndRun, ForgetRun
<1>11. UpsertOther => UNCHANGED pass
  BY DEF UpsertOther
<1>12. DieAnywhere => UNCHANGED man
  BY DEF DieAnywhere
<1>13. QED
  BY <1>3, <1>4, <1>5, <1>6, <1>7, <1>8, <1>9, <1>10, <1>11, <1>12 DEF UploadsNext

\* Only an answer about an upload that is consumed takes its manifest while it changes what is
\* still to be asked about.
LEMMA RemovalHasReason ==
    ASSUME UploadTypes, UploadsNext, NEW p \in Passes, NEW b \in Uploads,
           pass[p].at = "ask", pass'[p].todo # pass[p].todo, Present(b), man'[b] = NoManifest
    PROVE  \E t \in pass[p].todo : t[1] = b /\ Clean(t[2])
<1>1. ~UNCHANGED man /\ ~UNCHANGED pass
  BY DEF Present
<1>2. ASSUME NEW q \in Passes, NEW n, pass' = [pass EXCEPT ![q] = n]
      PROVE  q = p
  BY <1>2 DEF UploadTypes
<1>3. ASSUME NEW q \in Passes, AskAbout(q)
      PROVE  \E t \in pass[p].todo : t[1] = b /\ Clean(t[2])
  <2>1. PICK t \in pass[q].todo : Settle(t[1], t[2]) /\ \E n : pass' = [pass EXCEPT ![q] = n]
    BY <1>1, <1>3 DEF AskAbout
  <2>2. q = p
    BY <1>2, <2>1
  <2>3. CASE Clean(t[2])
    <3>1. man' = [man EXCEPT ![t[1]] = NoManifest]
      BY <2>1, <2>3 DEF Settle, RemoveUpload
    <3>2. t[1] = b
      BY <3>1 DEF UploadTypes, Present
    <3>3. QED
      BY <2>2, <2>3, <3>2
  <2>4. CASE ~Clean(t[2])
    <3>1. PICK m : m = [man[t[1]] EXCEPT !.state = "kept"]
      OBVIOUS
    <3>2. man' = [man EXCEPT ![t[1]] = m]
      BY <2>1, <2>4, <3>1 DEF Settle, WriteManifest
    <3>3. t[1] \in Uploads /\ man[t[1]] \in Manifests
      BY <2>1 DEF UploadTypes, Sweeps
    <3>4. m # NoManifest
      BY <3>1, <3>3 DEF Manifests, NoManifest
    <3>5. man'[b] # NoManifest
      BY <3>2, <3>4 DEF UploadTypes, Present
    <3>6. QED
      BY <3>5
  <2>5. QED
    BY <2>3, <2>4
<1>4. ASSUME NEW q \in Passes, AskInVain(q)
      PROVE  FALSE
  BY <1>1, <1>4 DEF AskInVain, RemoveFails
<1>5. ASSUME NEW q \in Passes, BeginPass(q)
      PROVE  FALSE
  BY <1>1, <1>5 DEF BeginPass
<1>6. ASSUME NEW q \in Passes, EndPass(q)
      PROVE  FALSE
  <2>1. pass' = [pass EXCEPT ![q] = NoPass] /\ pass[q].todo = {}
    BY <1>6 DEF EndPass
  <2>2. q = p
    BY <1>2, <2>1
  <2>3. pass'[p].todo = {}
    BY <2>1, <2>2 DEF UploadTypes, NoPass
  <2>4. QED
    BY <2>1, <2>2, <2>3
<1>7. ASSUME NEW s \in Starts, StartStep(s)
      PROVE  UNCHANGED pass
  BY <1>7 DEF StartStep, Plan, Upsert, Load, AskRun, MarkEmbedding
<1>8. ASSUME NEW u \in Uploads, Create(u) \/ Discard(u) \/ Age(u) \/ DieCreating(u) \/ DieRemoving(u)
      PROVE  UNCHANGED pass \/ UNCHANGED man
  BY <1>8 DEF Create, Discard, Age, DieCreating, DieRemoving
<1>9. ASSUME NEW i \in Saves,
             EndSave(i) \/ FailSave(i) \/ \E u \in Uploads, f \in Paths : BeginSave(i, u, f)
      PROVE  UNCHANGED pass
  BY <1>9 DEF EndSave, FailSave, BeginSave
<1>10. ASSUME NEW r \in Runs, ReadFolder(r) \/ EndRun(r) \/ ForgetRun(r)
       PROVE  UNCHANGED pass
  BY <1>10 DEF ReadFolder, EndRun, ForgetRun
<1>11. UpsertOther => UNCHANGED pass
  BY DEF UpsertOther
<1>12. DieAnywhere => UNCHANGED man
  BY DEF DieAnywhere
<1>13. QED
  BY <1>1, <1>3, <1>4, <1>5, <1>6, <1>7, <1>8, <1>9, <1>10, <1>11, <1>12 DEF UploadsNext

THEOREM UploadInvAlways == UploadsSpec => []UploadInv
<1>1. UploadsInit => UploadInv
  BY UploadInvInit
<1>2. UploadInv /\ [UploadsNext]_uploadsVars => UploadInv'
  BY UploadInvNext
<1>3. QED
  BY <1>1, <1>2, PTL DEF UploadsSpec

\* An upload that the pass removes because it is too old is not one whose run is working: the pass
\* has asked about it, or it was marked since, and then it is not old (AskedAbout).
THEOREM LimitSparesWorkingRunAlways == UploadsSpec => LimitSparesWorkingRun
<1> DEFINE Spared == \A p \in Passes, b \in Uploads :
               (pass[p].at = "ask" /\ pass'[p].at = "idle" /\ man'[b] = NoManifest
                   /\ man[b].state = "embedding" /\ Active(man[b].run)) => b \in pass[p].vain
<1>1. UploadInv /\ [UploadsNext]_uploadsVars => [Spared]_uploadsVars
  <2> SUFFICES ASSUME UploadInv, UploadsNext, NEW p \in Passes, NEW b \in Uploads,
                      pass[p].at = "ask", pass'[p].at = "idle", man'[b] = NoManifest,
                      man[b].state = "embedding", Active(man[b].run)
               PROVE  b \in pass[p].vain
    OBVIOUS
  <2>1. ~UNCHANGED man
    BY DEF NoManifest
  <2>2. EndPass(p)
    BY <2>1, RestIs DEF UploadInv
  <2>3. b \in Expired(p)
    <3>1. PICK stuck : man' = [u \in Uploads |->
                          IF u \in ((Expired(p) \ stuck) \cup Unrecorded) \cup Dropped(p) THEN NoManifest ELSE man[u]]
      BY <2>2 DEF EndPass
    <3>2. b \notin Unrecorded /\ b \notin Dropped(p)
      BY DEF Unrecorded, Dropped, Present, NoManifest
    <3>3. man[b] # NoManifest
      BY DEF NoManifest
    <3>4. QED
      BY <3>1, <3>2, <3>3
  <2>4. old[b] /\ b \notin pass[p].working /\ pass[p].todo = {}
    BY <2>2, <2>3 DEF Expired, EndPass
  <2>5. QED
    BY <2>4 DEF UploadInv, AskedAbout
<1>2. QED
  BY <1>1, UploadInvAlways, PTL DEF LimitSparesWorkingRun, UploadsSpec

\* What a pass consumes was read without a failure by the run it asked about. If that run is one of
\* this upload, what is not embedded came after it had read the folder (ReadIsRead).
THEOREM ConsumedWasEmbeddedAlways == UploadsSpec => ConsumedWasEmbedded
<1> DEFINE Embedded == \A p \in Passes, b \in Uploads :
               (pass[p].at = "ask" /\ pass'[p].todo # pass[p].todo /\ Present(b) /\ man'[b] = NoManifest) =>
                   \/ unread[b] \cap dir[b].files \subseteq late[b]
                   \/ \E t \in pass[p].todo : t[1] = b /\ runs[t[2]].src # b
<1>1. UploadInv /\ [UploadsNext]_uploadsVars => [Embedded]_uploadsVars
  <2> SUFFICES ASSUME UploadInv, UploadsNext, NEW p \in Passes, NEW b \in Uploads,
                      pass[p].at = "ask", pass'[p].todo # pass[p].todo, Present(b), man'[b] = NoManifest,
                      \A t \in pass[p].todo : t[1] = b => runs[t[2]].src = b
               PROVE  unread[b] \cap dir[b].files \subseteq late[b]
    OBVIOUS
  <2>1. PICK t \in pass[p].todo : t[1] = b /\ Clean(t[2])
    BY RemovalHasReason DEF UploadInv
  <2>2. t[2] \in Runs /\ runs[t[2]].src = b
    BY <2>1 DEF UploadInv, UploadTypes, Sweeps
  <2>3. HasRead(t[2])
    BY <2>1 DEF Clean, HasRead
  <2>4. QED
    BY <2>2, <2>3 DEF UploadInv, ReadIsRead
<1>2. QED
  BY <1>1, UploadInvAlways, PTL DEF ConsumedWasEmbedded, UploadsSpec

=============================================================================
