---------------------------- MODULE PagesProofs ----------------------------
(***************************************************************************)
(* Requests that meet each other behind single pages, for every set of     *)
(* visitors, readers and languages, every output and every file.            *)
(*                                                                         *)
(*   - The date of a prune is not after its entry in the audit log, so    *)
(*     that whoever removes the entry accounts for a later date itself     *)
(*     (PruneInv).                                                         *)
(*   - A shared reading is as old as its page allows because its entry is, *)
(*     because the run that stores it was begun in time, and because the   *)
(*     last good reading it may fall back to is of a run that was in time  *)
(*     (DoctorInv: CacheInv, RunInv, GoodInv, and what waiters will get).  *)
(*   - What a reader shows of the stack follows from what it has read so   *)
(*     far (ReadersInv), and the snapshot that is kept from what one of    *)
(*     them had read (KeptInv).                                            *)
(*   - The lines of a job's log are those of its whole output, however it  *)
(*     is cut into chunks, because what was yielded so far is what the     *)
(*     bytes that were used up make, and what is pending is the rest       *)
(*     (CtlInv).                                                           *)
(*   - The settings never name a logo that is not there (SettingsInv), a   *)
(*     preference that is cached is the one in the file unless a write was *)
(*     lost (PrefsInv), and the tiles have ids of their own, whatever was  *)
(*     written by hand (TilesInv, GivenAreApart).                          *)
(***************************************************************************)
EXTENDS IngestProofs, NaturalsInduction, WellFoundedInduction, FiniteSetTheorems

-----------------------------------------------------------------------------
(* Induction, with a set for the formula: no theorem here takes an         *)
(* operator as a parameter.                                                *)

LEMMA SmallestNumber ==
    ASSUME NEW hits \in SUBSET Nat, hits # {}
    PROVE  \E i \in hits : \A k \in hits : i <= k
<1>1. PICK R : R = OpToRel(<, Nat)
  OBVIOUS
<1>2. \A x, y \in Nat : <<y, x>> \in R <=> y < x
  BY <1>1 DEF OpToRel
<1>3. IsWellFoundedOn(R, Nat)
  BY <1>1, NatLessThanWellFounded
<1>4. PICK i \in hits : \A k \in hits : ~ (<<k, i>> \in R)
  BY <1>3, WFMin
<1>5. ASSUME NEW k \in hits PROVE i <= k
  <2>1. ~(k < i)
    BY <1>2, <1>4
  <2>2. QED
    BY <2>1
<1>6. QED
  BY <1>5

\* What holds of a number, and of the next whenever it holds of one, holds of all that follow.
LEMMA UpTo ==
    ASSUME NEW a \in Nat, NEW z \in Nat, NEW holds \in SUBSET Nat,
           a \in holds, \A n \in Nat : a <= n /\ n < z /\ n \in holds => n + 1 \in holds
    PROVE  \A n \in Nat : a <= n /\ n <= z => n \in holds
<1> DEFINE bad == {n \in Nat : a <= n /\ n <= z /\ n \notin holds}
<1>1. SUFFICES ASSUME bad # {} PROVE FALSE
  OBVIOUS
<1>2. PICK n \in bad : \A k \in bad : n <= k
  <2>1. bad \in SUBSET Nat
    OBVIOUS
  <2> HIDE DEF bad
  <2>2. QED
    BY <1>1, <2>1, SmallestNumber
<1>3. n \in Nat /\ a < n /\ n <= z /\ n \notin holds
  OBVIOUS
<1>4. n - 1 \in Nat /\ a <= n - 1 /\ n - 1 < z /\ n - 1 \notin bad
  BY <1>2, <1>3
<1>5. n - 1 \in holds
  BY <1>4
<1>6. n \in holds
  BY <1>3, <1>4, <1>5
<1>7. QED
  BY <1>3, <1>6

-----------------------------------------------------------------------------
(* Sequences.                                                              *)

LEMMA PrefixIs ==
    ASSUME NEW S, NEW s \in Seq(S), NEW t \in Seq(S)
    PROVE  IsPrefix(s, t) <=> Len(s) <= Len(t) /\ \A i \in 1..Len(s) : s[i] = t[i]
<1>1. PICK m \in Nat : m = Len(s)
  OBVIOUS
<1>2. CASE m <= Len(t)
  <2>1. PICK a : a = SubSeq(s, 1, m)
    OBVIOUS
  <2>2. PICK b : b = SubSeq(t, 1, m)
    OBVIOUS
  <2>3. a \in Seq(S) /\ Len(a) = m /\ \A i \in 1..m : a[i] = s[i]
    BY <1>1, <2>1, SubSeqProperties
  <2>4. b \in Seq(S) /\ Len(b) = m /\ \A i \in 1..m : b[i] = t[i]
    BY <1>1, <1>2, <2>2, SubSeqProperties
  <2>5. a = b <=> \A i \in 1..m : s[i] = t[i]
    BY <2>3, <2>4
  <2>6. QED
    BY <1>1, <1>2, <2>1, <2>2, <2>5 DEF IsPrefix
<1>3. CASE ~(m <= Len(t))
  BY <1>1, <1>3 DEF IsPrefix
<1>4. QED
  BY <1>2, <1>3

LEMMA PrefixSelf == ASSUME NEW S, NEW s \in Seq(S) PROVE IsPrefix(s, s)
BY PrefixIs

LEMMA PrefixOfLonger ==
    ASSUME NEW S, NEW s \in Seq(S), NEW t \in Seq(S), NEW e \in S, IsPrefix(s, t)
    PROVE  IsPrefix(s, Append(t, e))
<1>1. PICK u : u = Append(t, e)
  OBVIOUS
<1>2. u \in Seq(S) /\ Len(u) = Len(t) + 1 /\ \A i \in 1..Len(t) : u[i] = t[i]
  BY <1>1, AppendProperties
<1>3. Len(s) <= Len(t) /\ \A i \in 1..Len(s) : s[i] = t[i]
  BY PrefixIs
<1>4. Len(s) <= Len(u) /\ \A i \in 1..Len(s) : s[i] = u[i]
  BY <1>2, <1>3
<1>5. QED
  BY <1>1, <1>2, <1>4, PrefixIs

-----------------------------------------------------------------------------
(* A prune of the audit log.                                               *)

USE DEF Files!audit

\* A prune's date is not after its entry, so whoever removes the entry removes up to a later date;
\* what a prune removed can be read.
PruneInv ==
    /\ now \in Nat
    /\ \A line \in log : line.ts # Nothing => line.ts \in Nat
    /\ \A line \in log : \A cutoff \in line.before : cutoff \in Nat /\ line.ts \in Nat /\ cutoff <= line.ts
    /\ \A line \in pruned : line.ts \in Nat
    /\ silent \subseteq Nat
    /\ Files!GapsAreDocumented

\* The dates that are accounted for.
Dates == silent \cup UNION {line.before : line \in log}

\* A prune leaves its own date, and every earlier one that it does not take is before its own.
LEMMA PruneHolds ==
    ASSUME PruneInv, NEW cutoff \in 0..AuditTime, Files!Prune(cutoff)
    PROVE  PruneInv'
<1>1. cutoff \in Nat /\ cutoff <= now /\ now' = now /\ now \in Nat
  BY FilesAssumption DEF Files!Prune, Files!InThePast, PruneInv
<1> DEFINE removed == Files!PruneBefore(cutoff)
<1>3. pruned' = pruned \cup removed /\ \A line \in removed : line.ts \in Nat /\ line.ts # Nothing /\ line.ts < cutoff
  BY DEF Files!Prune, Files!PruneBefore, Files!Old, PruneInv
<1> DEFINE entry == [ts |-> now, before |-> {cutoff}]
<1>5. \A line \in log' : line \in log \ removed \/ line = entry \/ (line.before = {} /\ line.ts = Nothing)
  <2>1. log' \subseteq (log \ removed) \cup {entry, Files!Unreadable}
    BY DEF Files!Prune
  <2>2. Files!Unreadable.before = {} /\ Files!Unreadable.ts = Nothing
    BY DEF Files!Unreadable
  <2>3. QED
    BY <2>1, <2>2
<1>6. log \ removed \subseteq log'
  BY DEF Files!Prune
<1>7. cutoff \in Dates' /\ silent \subseteq silent' /\ silent' \subseteq silent \cup {cutoff}
  <2>1. CASE log' = (log \ removed) \cup {entry} /\ UNCHANGED silent
    <3>1. entry \in log' /\ cutoff \in entry.before
      BY <2>1
    <3>2. QED
      BY <2>1, <3>1 DEF Dates
  <2>2. CASE silent' = silent \cup {cutoff}
    BY <2>2 DEF Dates
  <2>3. QED
    BY <2>1, <2>2 DEF Files!Prune
<1>8. \A line \in log' : /\ line.ts # Nothing => line.ts \in Nat
                        /\ \A c \in line.before : c \in Nat /\ line.ts \in Nat /\ c <= line.ts
  <2> SUFFICES ASSUME NEW line \in log'
               PROVE  /\ line.ts # Nothing => line.ts \in Nat
                      /\ \A c \in line.before : c \in Nat /\ line.ts \in Nat /\ c <= line.ts
    OBVIOUS
  <2>1. CASE line \in log
    BY <2>1 DEF PruneInv
  <2>2. CASE line = entry
    <3>1. line.ts = now /\ line.before = {cutoff}
      BY <2>2
    <3>2. QED
      BY <1>1, <3>1
  <2>3. CASE line.before = {} /\ line.ts = Nothing
    BY <2>3
  <2>4. QED
    BY <1>5, <2>1, <2>2, <2>3
<1>9. ASSUME NEW line \in pruned'
      PROVE  line.ts \in Nat /\ line.ts # Nothing /\ \E c \in Dates' : line.ts < c
  <2>1. CASE line \in removed
    BY <1>3, <1>7, <2>1
  <2>2. CASE line \in pruned
    <3>1. line.ts \in Nat /\ line.ts # Nothing
      BY <2>2 DEF PruneInv, Files!GapsAreDocumented
    <3>2. PICK c \in Dates : line.ts < c
      BY <2>2 DEF PruneInv, Files!GapsAreDocumented, Dates
    <3>3. CASE c \in Dates'
      BY <3>1, <3>2, <3>3
    <3>4. CASE c \notin Dates'
      <4>1. PICK e \in log : c \in e.before
        BY <1>7, <3>4 DEF Dates
      <4>2. e \in removed
        BY <1>6, <3>4, <4>1 DEF Dates
      <4>3. c \in Nat /\ e.ts \in Nat /\ c <= e.ts /\ e.ts < cutoff
        BY <1>3, <4>1, <4>2 DEF PruneInv
      <4>4. line.ts < cutoff
        BY <1>1, <3>1, <3>2, <4>3
      <4>5. QED
        BY <1>7, <3>1, <4>4
    <3>5. QED
      BY <3>3, <3>4
  <2>3. QED
    BY <1>3, <2>1, <2>2
<1>10. silent' \subseteq Nat
  BY <1>1, <1>7 DEF PruneInv
<1>11. QED
  BY <1>1, <1>8, <1>9, <1>10 DEF PruneInv, Files!GapsAreDocumented, Dates

LEMMA PruneStep ==
    ASSUME PruneInv, Files!Next
    PROVE  PruneInv'
<1>1. ASSUME UNCHANGED <<log, pruned, silent>>, now' \in Nat
      PROVE  PruneInv'
  BY <1>1 DEF PruneInv, Files!GapsAreDocumented
<1>2. ASSUME Files!WriteAuditEntry
      PROVE  PruneInv'
  <2>1. PICK line \in {[ts |-> now, before |-> {}], Files!Unreadable} : log' = log \cup {line}
    BY <1>2 DEF Files!WriteAuditEntry
  <2>2. line.before = {} /\ (line.ts = now \/ line.ts = Nothing)
    BY DEF Files!Unreadable
  <2>3. UNCHANGED <<now, pruned, silent>> /\ now \in Nat
    BY <1>2 DEF Files!WriteAuditEntry, PruneInv
  <2>4. Dates \subseteq Dates'
    BY <2>1, <2>3 DEF Dates
  <2>5. Files!GapsAreDocumented'
    BY <2>3, <2>4 DEF PruneInv, Files!GapsAreDocumented, Dates
  <2>6. QED
    BY <2>1, <2>2, <2>3, <2>5 DEF PruneInv
<1>3. ASSUME NEW t \in 0..AuditTime, Files!SetClock(t)
      PROVE  PruneInv'
  BY <1>1, <1>3, FilesAssumption DEF Files!SetClock
<1>4. ASSUME NEW cutoff \in 0..AuditTime, Files!Prune(cutoff)
      PROVE  PruneInv'
  BY <1>4, PruneHolds
<1>5. now \in Nat
  BY DEF PruneInv
<1>6. QED
  BY <1>1, <1>2, <1>3, <1>4, <1>5
     DEF Files!Next, Files!Open, Files!DeleteLogo, Files!ResetBranding, Files!DropLogo,
         Files!PutBranding, Files!UploadLogo, Files!SaveTiles, Files!HandWrite, Files!StoredLocale,
         Files!SetLocale, Files!HandChoose, Files!Die

\* Every gap that prunes have made in the audit log is documented in it, whatever later prunes
\* remove, and however the clock is set, unless the entry of a prune was not written.
THEOREM GapsAreDocumentedAlways == PagesSpec => []GapsAreDocumented
<1> DEFINE I == side = "files" => PruneInv
<1>1. PagesInit => I
  BY DEF PagesInit, Files!Init, PruneInv, Files!GapsAreDocumented
<1>2. I /\ [PagesNext]_pageVars => I'
  <2> SUFFICES ASSUME I, [PagesNext]_pageVars
               PROVE  I'
    OBVIOUS
  <2>1. CASE UNCHANGED pageVars
    BY <2>1 DEF pageVars, files, shared, PruneInv, Files!GapsAreDocumented
  <2>2. CASE side = "files" /\ Files!Next /\ UNCHANGED <<side, cache, told, vars, doctor, stack, ctl>>
    BY <2>2, PruneStep
  <2>3. CASE side # "files" /\ PagesNext
    BY <2>3 DEF PagesNext
  <2>4. QED
    BY <2>1, <2>2, <2>3 DEF PagesNext
<1>3. I => GapsAreDocumented
  BY DEF PruneInv, GapsAreDocumented
<1>4. QED
  BY <1>1, <1>2, <1>3, PTL DEF PagesSpec

-----------------------------------------------------------------------------
(* The readings every visitor shares.                                      *)

USE DEF Doctor!Kinds, Doctor!Keys

Longest == Doctor!Max(Intervals)

Reading ==
    [at : Nat, from : Nat, status : {"ok", "fail", "stale"}, raw : BOOLEAN, lang : Langs, until : Nat]
Task == [from : Nat, lang : Langs, force : BOOLEAN, at : {"work", "wait", "take"}, until : Nat]
Waiting == [at : {"wait"}, key : Doctor!Keys, k : Doctor!Kinds, lang : Langs]

DoctorTypes ==
    /\ kind \in Doctor!Kinds /\ now \in Nat /\ interval \in Intervals
    /\ cache \in [Doctor!Keys -> Reading \cup {Nothing}]
    /\ good \in [Doctor!Keys -> Reading \cup {Nothing}]
    /\ run \in [Doctor!Keys -> Task \cup {Nothing}]
    /\ visitor \in [Visitors -> Waiting \cup {Doctor!Away}]

\* How much older than its entry a reading may be: a mail reading may stand on a node's.
Span(key, e) ==
    IF key = "mail" /\ kind = "node" THEN Longest + RunLimit
    ELSE IF e.status = "stale" THEN StaleMax + RunLimit
    ELSE RunLimit

\* An entry under a key: how old it is, whose words it has, how long the chip shows it.
EntryHolds(key, e) ==
    /\ e \in Reading
    /\ e.at <= now /\ e.at - e.from <= Span(key, e)
    /\ key \in Langs => e.lang = key
    /\ key \in {"host", "usage", "mail", "cluster"} => e.raw \/ e.status = "fail"
    /\ key \in Doctor!Kinds => e.status # "stale"
    /\ key = "host" => e.until <= ShownFor \/ e.until <= 3 * Longest

\* A run under a key. A mail run that is about to take a node's report has a recent one to take.
RunHolds(key, r) ==
    /\ r.from <= now
    /\ (key # "mail" \/ kind # "node") => now - r.from <= RunLimit /\ r.at = "work"
    /\ key \in Langs => r.lang = key
    /\ key = "host" => r.until <= ShownFor \/ r.until <= 3 * Longest
    /\ r.at = "take" => EntryHolds("node", cache["node"]) /\ now - cache["node"].at <= Longest
    /\ r.at = "wait" => run["node"] # Nothing

CacheInv == \A key \in Doctor!Keys : cache[key] # Nothing => EntryHolds(key, cache[key])
GoodInv ==
    \A l \in Langs : good[l] # Nothing => good[l].at <= now /\ good[l].at - good[l].from <= RunLimit
RunInv == \A key \in Doctor!Keys : run[key] # Nothing => RunHolds(key, run[key])
WaitInv ==
    \A v \in Visitors : visitor[v].at = "wait" =>
        visitor[v].key = Doctor!Key(visitor[v].k, visitor[v].lang) /\ run[visitor[v].key] # Nothing

\* An answer as the two properties want it.
Told(a) ==
    /\ a.k \notin {"usage", "cluster"} =>
          now - a.from <= Doctor!Max({Doctor!Bound(a), Recheck}) + RunLimit
    /\ a.k # "node" => a.own \/ (~a.raw /\ a.status = "fail")
ToldInv == \A a \in told : Told(a)

DoctorInv == DoctorTypes /\ CacheInv /\ GoodInv /\ RunInv /\ WaitInv /\ ToldInv

LEMMA MaxOfTwo ==
    ASSUME NEW a \in Int, NEW b \in Int
    PROVE  Doctor!Max({a, b}) = IF a >= b THEN a ELSE b
BY DEF Doctor!Max

LEMMA MinOfTwo ==
    ASSUME NEW a \in Int, NEW b \in Int
    PROVE  Doctor!Min({a, b}) = IF a <= b THEN a ELSE b
BY DEF Doctor!Min

LEMMA LongestIsLongest ==
    Longest \in Intervals /\ Longest \in Nat /\ Recheck <= Longest /\ \A i \in Intervals : i <= Longest
<1>1. PICK m \in Intervals : Recheck <= m /\ \A i \in Intervals : i <= m
  BY ReadingsAssumption
<1>2. \A i \in Intervals : i \in Nat
  BY ReadingsAssumption
<1>3. \A i \in Intervals : m >= i
  BY <1>1, <1>2
<1>4. Longest \in Intervals /\ \A i \in Intervals : Longest >= i
  BY <1>3 DEF Longest, Doctor!Max
<1>5. Recheck \in Nat
  BY ReadingsAssumption
<1>6. QED
  BY <1>1, <1>2, <1>4, <1>5

\* What is told of an entry, by how old it is.
LEMMA EntryIsTold ==
    ASSUME DoctorTypes, NEW k \in Doctor!Kinds, NEW lang \in Langs, NEW e,
           EntryHolds(Doctor!Key(k, lang), e),
           \/ k \in {"usage", "cluster"}
           \/ e.at = now
           \/ k # "widget" /\ now - e.at < Recheck
           \/ k = "mail" /\ now - e.at < MailTtl
           \/ /\ k \notin {"mail", "usage", "cluster"} /\ now - e.at < interval
              /\ e.status = "ok" \/ now - e.at < FailureTtl
    PROVE  Told(Doctor!Answer(k, e, lang))
<1> DEFINE a == Doctor!Answer(k, e, lang)
           key == Doctor!Key(k, lang)
<1>1. a = [k |-> k, from |-> e.from, status |-> e.status, raw |-> e.raw,
           own |-> Doctor!Words(k, e, lang) = lang]
  BY DEF Doctor!Answer
<1>2. (k = "widget" /\ key = lang) \/ (k # "widget" /\ key = k)
  BY DEF Doctor!Key
<1>3. k # "node" => a.own \/ (~a.raw /\ a.status = "fail")
  <2>0. Doctor!Words(k, e, lang) = lang => a.own
    <3>1. ASSUME Doctor!Words(k, e, lang) = lang
          PROVE  a = [k |-> k, from |-> e.from, status |-> e.status, raw |-> e.raw, own |-> TRUE]
      BY <1>1, <3>1, Zenon
    <3>2. QED
      BY <3>1
  <2>1. CASE e.raw /\ k # "node"
    BY <2>0, <2>1 DEF Doctor!Words
  <2>2. CASE ~e.raw /\ k = "widget"
    <3>1. e.lang = lang
      BY <1>2, <2>2 DEF EntryHolds
    <3>2. QED
      BY <2>0, <2>2, <3>1 DEF Doctor!Words
  <2>3. CASE ~e.raw /\ k \in {"host", "usage", "mail", "cluster"}
    <3>1. e.status = "fail"
      BY <1>2, <2>3 DEF EntryHolds
    <3>2. QED
      BY <1>1, <2>3, <3>1
  <2>4. QED
    BY <2>1, <2>2, <2>3
<1>4. ASSUME k \notin {"usage", "cluster"}
      PROVE  now - e.from <= Doctor!Max({Doctor!Bound(a), Recheck}) + RunLimit
  <2>1. /\ now \in Nat /\ interval \in Nat /\ Recheck \in Nat /\ MailTtl \in Nat /\ RunLimit \in Nat
        /\ StaleMax \in Nat /\ FailureTtl \in Nat /\ e.at \in Nat /\ e.from \in Nat
        /\ e.status \in {"ok", "fail", "stale"} /\ Longest \in Nat /\ Recheck <= Longest
        /\ Recheck <= MailTtl
    BY ReadingsAssumption, LongestIsLongest DEF DoctorTypes, EntryHolds, Reading
  <2>2. (k # "chip" /\ key \notin Langs) \/ (key \in Langs /\ k = "widget")
    BY <1>2, ReadingsAssumption
  <2>3. CASE k = "mail" /\ kind = "node"
    <3>1. Doctor!Bound(a) = MailTtl + Longest
      BY <1>1, <2>3 DEF Doctor!Bound, Longest
    <3>2. e.at - e.from <= Longest + RunLimit
      BY <1>2, <2>3 DEF EntryHolds, Span
    <3>3. now - e.at <= MailTtl
      BY <2>1, <2>3
    <3>4. Doctor!Max({Doctor!Bound(a), Recheck}) >= MailTtl + Longest
      BY <2>1, <3>1, MaxOfTwo
    <3>5. Doctor!Max({Doctor!Bound(a), Recheck}) \in Int
      BY <2>1, <3>1, MaxOfTwo
    <3>6. QED
      BY <2>1, <3>2, <3>3, <3>4, <3>5
  <2>4. CASE k = "mail" /\ kind # "node"
    <3>1. Doctor!Bound(a) = MailTtl
      BY <1>1, <2>4 DEF Doctor!Bound
    <3>2. e.at - e.from <= RunLimit
      BY <1>2, <2>4 DEF EntryHolds, Span
    <3>3. QED
      BY <2>1, <2>4, <3>1, <3>2, MaxOfTwo
  <2>5. CASE k # "mail" /\ e.status = "stale"
    <3>1. Doctor!Bound(a) = StaleMax + FailureTtl
      BY <1>1, <2>5 DEF Doctor!Bound
    <3>2. e.at - e.from <= StaleMax + RunLimit
      BY <1>2, <2>2, <2>5, ReadingsAssumption DEF EntryHolds, Span
    <3>3. k = "widget"
      BY <1>2, <2>5 DEF EntryHolds
    <3>4. now - e.at <= FailureTtl
      BY <1>4, <2>1, <2>5, <3>3
    <3>5. QED
      BY <2>1, <3>1, <3>2, <3>4, MaxOfTwo
  <2>6. CASE k # "mail" /\ e.status # "stale"
    <3>1. Doctor!Bound(a) = IF e.status = "ok" THEN interval ELSE FailureTtl
      BY <1>1, <2>1, <2>6 DEF Doctor!Bound
    <3>2. e.at - e.from <= RunLimit
      BY <1>2, <2>2, <2>6, ReadingsAssumption DEF EntryHolds, Span
    <3>3. QED
      BY <1>4, <2>1, <2>6, <3>1, <3>2, MaxOfTwo
  <2>7. QED
    BY <2>3, <2>4, <2>5, <2>6
<1>5. QED
  BY <1>1, <1>3, <1>4 DEF Told

\* Of the parts of the invariant, what a step that leaves the entries alone keeps.
LEMMA EntriesKept ==
    ASSUME DoctorInv, UNCHANGED <<kind, now, interval, cache, good>>
    PROVE  CacheInv' /\ GoodInv'
BY DEF DoctorInv, CacheInv, GoodInv, EntryHolds, Span, Longest

LEMMA RunsKept ==
    ASSUME RunInv, UNCHANGED <<kind, now, interval, cache, run>>
    PROVE  RunInv'
BY DEF RunInv, RunHolds, EntryHolds, Span

\* Visitors that wait go on waiting as long as no run is taken from them; one may join them.
LEMMA WaitersKept ==
    ASSUME DoctorTypes, WaitInv,
           \A key \in Doctor!Keys : run[key] # Nothing => run'[key] # Nothing,
           \/ UNCHANGED visitor
           \/ \E v \in Visitors : visitor' = [visitor EXCEPT ![v] = Doctor!Away]
           \/ \E v \in Visitors, k \in Doctor!Kinds, lang \in Langs :
                 /\ visitor' = [visitor EXCEPT ![v] = [at |-> "wait", key |-> Doctor!Key(k, lang),
                                                       k |-> k, lang |-> lang]]
                 /\ run'[Doctor!Key(k, lang)] # Nothing
    PROVE  WaitInv' /\ visitor' \in [Visitors -> Waiting \cup {Doctor!Away}]
<1>1. \A v \in Visitors : visitor[v] \in Waiting \cup {Doctor!Away}
  BY DEF DoctorTypes
<1>2. \A v \in Visitors : visitor[v].at = "wait" => visitor[v].key \in Doctor!Keys
  BY <1>1 DEF Waiting, Doctor!Away
<1>3. CASE UNCHANGED visitor
  BY <1>2, <1>3 DEF WaitInv, DoctorTypes
<1>4. ASSUME NEW v \in Visitors, visitor' = [visitor EXCEPT ![v] = Doctor!Away]
      PROVE  WaitInv' /\ visitor' \in [Visitors -> Waiting \cup {Doctor!Away}]
  <2>1. /\ visitor' \in [Visitors -> Waiting \cup {Doctor!Away}]
        /\ visitor'[v] = Doctor!Away
        /\ \A u \in Visitors \ {v} : visitor'[u] = visitor[u]
    BY <1>4 DEF DoctorTypes
  <2>2. QED
    <3> SUFFICES ASSUME NEW u \in Visitors, visitor'[u].at = "wait"
                 PROVE  visitor'[u].key = Doctor!Key(visitor'[u].k, visitor'[u].lang)
                        /\ run'[visitor'[u].key] # Nothing
      BY <2>1 DEF WaitInv
    <3>1. u # v
      BY <2>1 DEF Doctor!Away
    <3>2. QED
      BY <1>2, <2>1, <3>1 DEF WaitInv
<1>5. ASSUME NEW v \in Visitors, NEW k \in Doctor!Kinds, NEW lang \in Langs,
             visitor' = [visitor EXCEPT ![v] = [at |-> "wait", key |-> Doctor!Key(k, lang),
                                                k |-> k, lang |-> lang]],
             run'[Doctor!Key(k, lang)] # Nothing
      PROVE  WaitInv' /\ visitor' \in [Visitors -> Waiting \cup {Doctor!Away}]
  <2> DEFINE w == [at |-> "wait", key |-> Doctor!Key(k, lang), k |-> k, lang |-> lang]
  <2>1. w \in Waiting
    BY DEF Waiting, Doctor!Key
  <2>2. /\ visitor' \in [Visitors -> Waiting \cup {Doctor!Away}]
        /\ visitor'[v] = w
        /\ \A u \in Visitors \ {v} : visitor'[u] = visitor[u]
    BY <1>5, <2>1 DEF DoctorTypes
  <2>3. QED
    BY <1>2, <1>5, <2>2 DEF WaitInv
<1>6. QED
  BY <1>3, <1>4, <1>5

LEMMA ToldKept ==
    ASSUME UNCHANGED <<kind, now, interval>>, \A a \in told' : Told(a)
    PROVE  ToldInv'
BY DEF ToldInv, Told, Doctor!Bound

LEMMA StartHolds ==
    ASSUME DoctorInv, NEW key \in Doctor!Keys, NEW lang \in Langs, NEW force \in BOOLEAN,
           key \in Langs => lang = key,
           Doctor!Start(key, lang, force), UNCHANGED <<kind, now, interval, cache>>
    PROVE  /\ run' \in [Doctor!Keys -> Task \cup {Nothing}] /\ RunInv'
           /\ run'[key] # Nothing
           /\ \A k \in Doctor!Keys : run[k] # Nothing => run'[k] # Nothing
<1>1. run \in [Doctor!Keys -> Task \cup {Nothing}] /\ RunInv
  BY DEF DoctorInv, DoctorTypes
<1>2. CASE run[key] # Nothing
  <2>1. run' = run
    BY <1>2 DEF Doctor!Start
  <2>2. RunInv'
    BY <1>1, <2>1, RunsKept
  <2>3. QED
    BY <1>1, <1>2, <2>1, <2>2
<1>3. CASE run[key] = Nothing
  <2>1. PICK r : /\ r = [from |-> now, lang |-> lang, force |-> force /\ key = "mail", at |-> "work",
                         until |-> IF key = "host" THEN Doctor!Max({ShownFor, 3 * interval}) ELSE 0]
                 /\ run' = [run EXCEPT ![key] = r]
    BY <1>3 DEF Doctor!Start
  <2>2. /\ now \in Nat /\ interval \in Nat /\ interval <= Longest /\ ShownFor \in Nat /\ Longest \in Nat
        /\ RunLimit \in Nat
    BY ReadingsAssumption, LongestIsLongest DEF DoctorInv, DoctorTypes
  <2>3. r.until \in Nat /\ (r.until <= ShownFor \/ r.until <= 3 * Longest)
    BY <2>1, <2>2, MaxOfTwo
  <2>4. r \in Task
    <3>1. PICK f \in BOOLEAN :
            r = [from |-> now, lang |-> lang, force |-> f, at |-> "work", until |-> r.until]
      <4>1. CASE force /\ key = "mail"
        BY <2>1, <4>1
      <4>2. CASE ~(force /\ key = "mail")
        BY <2>1, <4>2
      <4>3. QED
        BY <4>1, <4>2
    <3>2. QED
      BY <2>2, <2>3, <3>1 DEF Task
  <2>5. RunHolds(key, r)
    BY <2>1, <2>2, <2>3 DEF RunHolds
  <2>6. r # Nothing
    BY <2>4, ReadingsAssumption DEF Task
  <2>7. /\ run' \in [Doctor!Keys -> Task \cup {Nothing}]
        /\ run'[key] = r
        /\ \A k \in Doctor!Keys \ {key} : run'[k] = run[k]
    BY <1>1, <2>1, <2>4
  <2>8. \A k \in Doctor!Keys : run[k] # Nothing => run'[k] # Nothing
    BY <1>3, <2>7
  <2>9. RunInv'
    <3> SUFFICES ASSUME NEW k \in Doctor!Keys, run'[k] # Nothing
                 PROVE  RunHolds(k, run[k])'
      BY DEF RunInv
    <3>1. RunHolds(k, run'[k])
      BY <1>1, <2>5, <2>7 DEF RunInv
    <3>2. QED
      BY <2>8, <3>1 DEF RunHolds, EntryHolds, Span
  <2>10. QED
    BY <2>6, <2>7, <2>8, <2>9
<1>4. QED
  BY <1>2, <1>3

\* A run that ends: what it stores is under its key, and whoever waited there has been told.
LEMMA StoreHolds ==
    ASSUME DoctorInv, NEW key \in Doctor!Keys, NEW e, EntryHolds(key, e), e.at = now,
           Doctor!Store(key, e), UNCHANGED <<kind, now, interval>>
    PROVE  /\ cache' \in [Doctor!Keys -> Reading \cup {Nothing}] /\ CacheInv'
           /\ cache' = [cache EXCEPT ![key] = e]
           /\ ToldInv'
           /\ visitor' \in [Visitors -> Waiting \cup {Doctor!Away}]
           /\ \A v \in Visitors : visitor'[v].at = "wait" =>
                 visitor'[v] = visitor[v] /\ visitor[v].key # key
<1>1. /\ cache \in [Doctor!Keys -> Reading \cup {Nothing}] /\ CacheInv
      /\ \A v \in Visitors : visitor[v] \in Waiting \cup {Doctor!Away}
      /\ WaitInv /\ DoctorTypes
  BY DEF DoctorInv, DoctorTypes
<1>2. cache' = [cache EXCEPT ![key] = e]
  BY DEF Doctor!Store
<1>3. e \in Reading
  BY DEF EntryHolds
<1>4. /\ cache' \in [Doctor!Keys -> Reading \cup {Nothing}]
      /\ cache'[key] = e
      /\ \A k \in Doctor!Keys \ {key} : cache'[k] = cache[k]
  BY <1>1, <1>2, <1>3
<1>5. CacheInv'
  <2> SUFFICES ASSUME NEW k \in Doctor!Keys, cache'[k] # Nothing
               PROVE  EntryHolds(k, cache[k])'
    BY DEF CacheInv
  <2>1. EntryHolds(k, cache'[k])
    BY <1>1, <1>4 DEF CacheInv
  <2>2. QED
    BY <2>1 DEF EntryHolds, Span
<1>6. \A a \in told' : Told(a)
  <2> SUFFICES ASSUME NEW v \in Visitors, visitor[v].at = "wait", visitor[v].key = key
               PROVE  Told(Doctor!Answer(visitor[v].k, e, visitor[v].lang))
    BY DEF Doctor!Store
  <2>1. visitor[v].k \in Doctor!Kinds /\ visitor[v].lang \in Langs
    BY <1>1 DEF Waiting, Doctor!Away
  <2>2. key = Doctor!Key(visitor[v].k, visitor[v].lang)
    BY <1>1 DEF WaitInv
  <2>3. QED
    BY <1>1, <2>1, <2>2, EntryIsTold
<1>7. visitor' \in [Visitors -> Waiting \cup {Doctor!Away}]
  BY <1>1 DEF Doctor!Store
<1>8. \A v \in Visitors : visitor'[v].at = "wait" => visitor'[v] = visitor[v] /\ visitor[v].key # key
  BY <1>1 DEF Doctor!Store, Doctor!Away
<1>9. QED
  BY <1>2, <1>4, <1>5, <1>6, <1>7, <1>8, ToldKept

\* A step in which visitors are answered from what is there, or begin or end to wait.
LEMMA AnsweringHolds ==
    ASSUME DoctorInv, UNCHANGED <<kind, now, interval, cache, good>>,
           run' \in [Doctor!Keys -> Task \cup {Nothing}], RunInv',
           \A key \in Doctor!Keys : run[key] # Nothing => run'[key] # Nothing,
           \/ UNCHANGED visitor
           \/ \E v \in Visitors : visitor' = [visitor EXCEPT ![v] = Doctor!Away]
           \/ \E v \in Visitors, k \in Doctor!Kinds, lang \in Langs :
                 /\ visitor' = [visitor EXCEPT ![v] = [at |-> "wait", key |-> Doctor!Key(k, lang),
                                                       k |-> k, lang |-> lang]]
                 /\ run'[Doctor!Key(k, lang)] # Nothing,
           \A a \in told' : Told(a)
    PROVE  DoctorInv'
<1>1. DoctorTypes /\ WaitInv
  BY DEF DoctorInv
<1>2. CacheInv' /\ GoodInv'
  BY EntriesKept
<1>3. WaitInv' /\ visitor' \in [Visitors -> Waiting \cup {Doctor!Away}]
  BY <1>1, WaitersKept
<1>4. ToldInv'
  BY ToldKept
<1>5. DoctorTypes'
  BY <1>1, <1>3 DEF DoctorTypes
<1>6. QED
  BY <1>2, <1>3, <1>4, <1>5 DEF DoctorInv

\* An entry that is used is young enough to be told.
LEMMA UsableIsTold ==
    ASSUME DoctorInv, NEW k \in Doctor!Kinds, NEW lang \in Langs, NEW force \in BOOLEAN,
           k = "widget" => ~force, Doctor!Usable(k, Doctor!Key(k, lang), force)
    PROVE  Told(Doctor!Answer(k, cache[Doctor!Key(k, lang)], lang))
<1> DEFINE key == Doctor!Key(k, lang)
           e == cache[key]
<1>1. key \in Doctor!Keys
  BY DEF Doctor!Key
<1>2. EntryHolds(key, e) /\ DoctorTypes
  BY <1>1 DEF DoctorInv, CacheInv, Doctor!Usable
<1>3. now - e.at < IF k = "mail" THEN Doctor!MailLimit(force) ELSE Doctor!Limit(k, e, force)
  BY DEF Doctor!Usable
<1>4. interval \in Nat /\ FailureTtl \in Nat /\ now \in Nat /\ e.at \in Nat
  BY <1>2, ReadingsAssumption DEF DoctorTypes, EntryHolds, Reading
<1>5. CASE k = "mail"
  BY <1>2, <1>3, <1>5, EntryIsTold DEF Doctor!MailLimit
<1>6. CASE k \notin {"mail", "usage", "cluster"} /\ force
  <2>1. now - e.at < Recheck
    BY <1>3, <1>6 DEF Doctor!Limit
  <2>2. QED
    BY <1>2, <1>6, <2>1, EntryIsTold
<1>7. CASE k \notin {"mail", "usage", "cluster"} /\ ~force
  <2>1. Doctor!Limit(k, e, force) = IF e.status = "ok" THEN interval ELSE Doctor!Min({FailureTtl, interval})
    BY <1>7 DEF Doctor!Limit, Doctor!Pace
  <2>2. now - e.at < interval /\ (e.status = "ok" \/ now - e.at < FailureTtl)
    BY <1>3, <1>4, <1>7, <2>1, MinOfTwo
  <2>3. QED
    BY <1>2, <1>7, <2>2, EntryIsTold
<1>8. CASE k \in {"usage", "cluster"}
  BY <1>2, <1>8, EntryIsTold
<1>9. QED
  BY <1>5, <1>6, <1>7, <1>8

LEMMA RunsStand ==
    ASSUME DoctorInv, UNCHANGED <<kind, now, interval, cache, run>>
    PROVE  /\ run' \in [Doctor!Keys -> Task \cup {Nothing}] /\ RunInv'
           /\ \A key \in Doctor!Keys : run[key] # Nothing => run'[key] # Nothing
<1>1. run \in [Doctor!Keys -> Task \cup {Nothing}] /\ RunInv
  BY DEF DoctorInv, DoctorTypes
<1>2. RunInv'
  BY <1>1, RunsKept
<1>3. QED
  BY <1>1, <1>2

LEMMA LoadHolds ==
    ASSUME DoctorInv, NEW v \in Visitors, NEW k \in Doctor!Kinds, NEW lang \in Langs, NEW force \in BOOLEAN,
           Doctor!Load(v, k, lang, force)
    PROVE  DoctorInv'
<1> DEFINE key == Doctor!Key(k, lang)
<1>1. key \in Doctor!Keys /\ (key \in Langs => lang = key)
  BY ReadingsAssumption DEF Doctor!Key
<1>2. UNCHANGED <<kind, now, interval, cache, good>>
  BY DEF Doctor!Load
<1>3. CASE Doctor!Usable(k, key, force)
  <2>1. told' = {Doctor!Answer(k, cache[key], lang)} /\ UNCHANGED <<visitor, run>>
    BY <1>3 DEF Doctor!Load, Doctor!Served, Doctor!NoStart
  <2>2. Told(Doctor!Answer(k, cache[key], lang))
    <3>1. k = "widget" => ~force
      BY DEF Doctor!Load
    <3>2. QED
      BY <1>3, <3>1, UsableIsTold
  <2>3. QED
    BY <1>2, <2>1, <2>2, RunsStand, AnsweringHolds
<1>4. CASE ~Doctor!Usable(k, key, force)
  <2>1. Doctor!Start(key, lang, force)
    BY <1>4 DEF Doctor!Load
  <2>2. /\ told' = {}
        /\ visitor' = [visitor EXCEPT ![v] = [at |-> "wait", key |-> key, k |-> k, lang |-> lang]]
    BY <1>4 DEF Doctor!Load, Doctor!Wait
  <2>3. /\ run' \in [Doctor!Keys -> Task \cup {Nothing}] /\ RunInv' /\ run'[key] # Nothing
        /\ \A i \in Doctor!Keys : run[i] # Nothing => run'[i] # Nothing
    BY <1>1, <1>2, <2>1, StartHolds
  <2>4. QED
    BY <1>2, <2>2, <2>3, AnsweringHolds
<1>5. QED
  BY <1>3, <1>4

LEMMA LoadDockerUsageHolds ==
    ASSUME DoctorInv, NEW v \in Visitors, NEW lang \in Langs, NEW force \in BOOLEAN,
           Doctor!LoadDockerUsage(v, lang, force)
    PROVE  DoctorInv'
<1>1. Doctor!Key("usage", lang) = "usage" /\ "usage" \in Doctor!Keys /\ "usage" \notin Langs
  BY ReadingsAssumption DEF Doctor!Key
<1>2. UNCHANGED <<kind, now, interval, cache, good>>
  BY DEF Doctor!LoadDockerUsage
<1>3. ASSUME cache["usage"] # Nothing
      PROVE  Told(Doctor!Answer("usage", cache["usage"], lang))
  <2>1. DoctorTypes /\ EntryHolds("usage", cache["usage"])
    BY <1>1, <1>3 DEF DoctorInv, CacheInv
  <2>2. QED
    BY <1>1, <2>1, EntryIsTold
<1>4. CASE Doctor!Usable("usage", "usage", force)
  <2>1. /\ told' = {Doctor!Answer("usage", cache["usage"], lang)} /\ UNCHANGED <<visitor, run>>
        /\ cache["usage"] # Nothing
    BY <1>4 DEF Doctor!LoadDockerUsage, Doctor!Served, Doctor!NoStart, Doctor!Usable
  <2>2. QED
    BY <1>2, <1>3, <2>1, RunsStand, AnsweringHolds
<1>5. CASE ~Doctor!Usable("usage", "usage", force)
  <2>1. Doctor!Start("usage", lang, force)
    BY <1>5 DEF Doctor!LoadDockerUsage
  <2>2. /\ run' \in [Doctor!Keys -> Task \cup {Nothing}] /\ RunInv' /\ run'["usage"] # Nothing
        /\ \A i \in Doctor!Keys : run[i] # Nothing => run'[i] # Nothing
    BY <1>1, <1>2, <2>1, StartHolds
  <2>3. CASE cache["usage"] = Nothing \/ force
    <3>1. /\ told' = {}
          /\ visitor' = [visitor EXCEPT ![v] = [at |-> "wait", key |-> Doctor!Key("usage", lang),
                                                k |-> "usage", lang |-> lang]]
      BY <1>5, <2>3 DEF Doctor!LoadDockerUsage, Doctor!Wait
    <3>2. QED
      BY <1>1, <1>2, <2>2, <3>1, AnsweringHolds
  <2>4. CASE ~(cache["usage"] = Nothing \/ force)
    <3>1. told' = {Doctor!Answer("usage", cache["usage"], lang)} /\ UNCHANGED visitor
      BY <1>5, <2>4 DEF Doctor!LoadDockerUsage, Doctor!Served
    <3>2. QED
      BY <1>2, <1>3, <2>2, <2>4, <3>1, AnsweringHolds
  <2>5. QED
    BY <2>3, <2>4
<1>6. QED
  BY <1>4, <1>5

LEMMA LoadClusterChecksHolds ==
    ASSUME DoctorInv, NEW v \in Visitors, NEW lang \in Langs, NEW force \in BOOLEAN,
           Doctor!LoadClusterChecks(v, lang, force)
    PROVE  DoctorInv'
<1>1. Doctor!Key("cluster", lang) = "cluster" /\ "cluster" \in Doctor!Keys /\ "cluster" \notin Langs
  BY ReadingsAssumption DEF Doctor!Key
<1>2. UNCHANGED <<kind, now, interval, cache, good, visitor>>
  BY DEF Doctor!LoadClusterChecks, Doctor!Served
<1>3. \A a \in told' : Told(a)
  <2>1. ASSUME cache["cluster"] # Nothing
        PROVE  Told(Doctor!Answer("cluster", cache["cluster"], lang))
    <3>1. DoctorTypes /\ EntryHolds("cluster", cache["cluster"])
      BY <1>1, <2>1 DEF DoctorInv, CacheInv
    <3>2. QED
      BY <1>1, <3>1, EntryIsTold
  <2>2. QED
    BY <2>1 DEF Doctor!LoadClusterChecks, Doctor!Served
<1>4. /\ run' \in [Doctor!Keys -> Task \cup {Nothing}] /\ RunInv'
      /\ \A i \in Doctor!Keys : run[i] # Nothing => run'[i] # Nothing
  <2>1. CASE Doctor!Start("cluster", lang, force)
    BY <1>1, <1>2, <2>1, StartHolds
  <2>2. CASE Doctor!NoStart
    BY <1>2, <2>2, RunsStand DEF Doctor!NoStart
  <2>3. QED
    BY <2>1, <2>2 DEF Doctor!LoadClusterChecks
<1>5. QED
  BY <1>2, <1>3, <1>4, AnsweringHolds

LEMMA ChipHolds ==
    ASSUME DoctorInv, NEW v \in Visitors, NEW lang \in Langs, Doctor!Chip(v, lang)
    PROVE  DoctorInv'
<1>1. "host" \in Doctor!Keys /\ "host" \notin Langs /\ FALSE \in BOOLEAN
  BY ReadingsAssumption
<1>2. UNCHANGED <<kind, now, interval, cache, good, visitor>>
  BY DEF Doctor!Chip
<1>3. \A a \in told' : Told(a)
  <2> DEFINE e == cache["host"]
             b == Doctor!Answer("host", e, lang)
             a == [b EXCEPT !.k = "chip"]
  <2>1. CASE e = Nothing \/ now - e.at > e.until
    BY <2>1 DEF Doctor!Chip
  <2>2. CASE ~(e = Nothing \/ now - e.at > e.until)
    <3>1. told' = {a}
      BY <2>2 DEF Doctor!Chip
    <3>2. EntryHolds("host", e)
      BY <1>1, <2>2 DEF DoctorInv, CacheInv
    <3>3. /\ now \in Nat /\ e.at \in Nat /\ e.from \in Nat /\ e.until \in Nat /\ ShownFor \in Nat
          /\ Longest \in Nat /\ Recheck \in Nat /\ RunLimit \in Nat
      BY <3>2, ReadingsAssumption, LongestIsLongest DEF DoctorInv, DoctorTypes, EntryHolds, Reading
    <3>4. /\ a.k = "chip" /\ a.from = e.from /\ a.status = e.status /\ a.raw = e.raw
          /\ a.own = b.own
      BY DEF Doctor!Answer
    <3>5. a.own \/ (~a.raw /\ a.status = "fail")
      <4>1. CASE e.raw
        <5>1. b = [k |-> "host", from |-> e.from, status |-> e.status, raw |-> e.raw, own |-> TRUE]
          <6>1. Doctor!Words("host", e, lang) = lang
            BY <4>1 DEF Doctor!Words
          <6>2. QED
            BY <6>1, Zenon DEF Doctor!Answer
        <5>2. QED
          BY <3>4, <5>1
      <4>2. CASE ~e.raw
        <5>1. e.status = "fail"
          BY <3>2, <4>2 DEF EntryHolds
        <5>2. QED
          BY <3>4, <4>2, <5>1
      <4>3. QED
        BY <4>1, <4>2
    <3>6. now - a.from <= Doctor!Max({Doctor!Bound(a), Recheck}) + RunLimit
      <4>1. Doctor!Bound(a) = Doctor!Max({ShownFor, 3 * Longest})
        BY <3>4 DEF Doctor!Bound, Longest
      <4>2. e.at - e.from <= RunLimit
        BY <3>2 DEF EntryHolds, Span
      <4>3. e.until <= Doctor!Bound(a) /\ Doctor!Bound(a) \in Nat
        BY <3>2, <3>3, <4>1, MaxOfTwo DEF EntryHolds
      <4>4. /\ Doctor!Max({Doctor!Bound(a), Recheck}) >= Doctor!Bound(a)
            /\ Doctor!Max({Doctor!Bound(a), Recheck}) \in Nat
        BY <3>3, <4>3, MaxOfTwo
      <4>5. now - e.at <= e.until
        BY <2>2, <3>3
      <4>6. now - e.from <= Doctor!Bound(a) + RunLimit
        BY <3>3, <4>2, <4>3, <4>5
      <4>7. QED
        BY <3>3, <3>4, <4>3, <4>4, <4>6
    <3>7. QED
      BY <3>1, <3>5, <3>6 DEF Told
  <2>3. QED
    BY <2>1, <2>2
<1>4. /\ run' \in [Doctor!Keys -> Task \cup {Nothing}] /\ RunInv'
      /\ \A i \in Doctor!Keys : run[i] # Nothing => run'[i] # Nothing
  <2>1. CASE Doctor!Start("host", lang, FALSE)
    BY <1>1, <1>2, <2>1, StartHolds
  <2>2. CASE Doctor!NoStart
    BY <1>2, <2>2, RunsStand DEF Doctor!NoStart
  <2>3. QED
    BY <2>1, <2>2 DEF Doctor!Chip
<1>5. QED
  BY <1>2, <1>3, <1>4, AnsweringHolds

LEMMA LeaveHolds ==
    ASSUME DoctorInv, NEW v \in Visitors, Doctor!Leave(v)
    PROVE  DoctorInv'
<1>1. /\ UNCHANGED <<kind, now, interval, cache, good, run>> /\ told' = {}
      /\ visitor' = [visitor EXCEPT ![v] = Doctor!Away]
  BY DEF Doctor!Leave
<1>2. QED
  BY <1>1, RunsStand, AnsweringHolds

LEMMA SetIntervalHolds ==
    ASSUME DoctorInv, NEW i \in Intervals, Doctor!SetInterval(i)
    PROVE  DoctorInv'
<1>1. UNCHANGED <<kind, now, cache, good, run, visitor>> /\ told' = {} /\ interval' = i
  BY DEF Doctor!SetInterval
<1>2. DoctorTypes'
  BY <1>1 DEF DoctorInv, DoctorTypes
<1>3. CacheInv' /\ GoodInv'
  BY <1>1 DEF DoctorInv, CacheInv, GoodInv, EntryHolds, Span
<1>4. RunInv'
  BY <1>1 DEF DoctorInv, RunInv, RunHolds, EntryHolds, Span
<1>5. WaitInv'
  BY <1>1 DEF DoctorInv, WaitInv
<1>6. ToldInv'
  BY <1>1 DEF ToldInv
<1>7. QED
  BY <1>2, <1>3, <1>4, <1>5, <1>6 DEF DoctorInv

\* No run outlasts its limit, and no time passes before a mail run takes the report it found.
LEMMA DoctorTickHolds ==
    ASSUME DoctorInv, Doctor!Tick
    PROVE  DoctorInv'
<1>1. UNCHANGED <<kind, interval, cache, good, run, visitor>> /\ told' = {} /\ now' = now + 1
  BY DEF Doctor!Tick
<1>2. DoctorTypes /\ now \in Nat /\ RunLimit \in Nat
  BY ReadingsAssumption DEF DoctorInv, DoctorTypes
<1>3. DoctorTypes'
  BY <1>1, <1>2 DEF DoctorTypes
<1>4. CacheInv'
  <2> SUFFICES ASSUME NEW key \in Doctor!Keys, cache[key] # Nothing
               PROVE  EntryHolds(key, cache[key])'
    BY <1>1 DEF CacheInv
  <2>1. EntryHolds(key, cache[key])
    BY DEF DoctorInv, CacheInv
  <2>2. cache[key].at \in Nat
    BY <2>1 DEF EntryHolds, Reading
  <2>3. QED
    BY <1>1, <1>2, <2>1, <2>2 DEF EntryHolds, Span
<1>5. GoodInv'
  <2> SUFFICES ASSUME NEW l \in Langs, good[l] # Nothing
               PROVE  good[l].at <= now + 1 /\ good[l].at - good[l].from <= RunLimit
    BY <1>1 DEF GoodInv
  <2>1. good[l].at \in Nat
    BY <1>2 DEF DoctorTypes, Reading
  <2>2. QED
    BY <1>2, <2>1 DEF DoctorInv, GoodInv
<1>6. RunInv'
  <2> SUFFICES ASSUME NEW key \in Doctor!Keys, run[key] # Nothing
               PROVE  RunHolds(key, run[key])'
    BY <1>1 DEF RunInv
  <2> DEFINE r == run[key]
  <2>1. RunHolds(key, r) /\ r.from \in Nat
    BY <1>2 DEF DoctorInv, RunInv, DoctorTypes, Task
  <2>2. IF kind = "node" /\ key = "mail" THEN r.at = "wait" ELSE now - r.from < RunLimit
    BY DEF Doctor!Tick
  <2>3. QED
    BY <1>1, <1>2, <2>1, <2>2 DEF RunHolds
<1>7. WaitInv'
  BY <1>1 DEF DoctorInv, WaitInv
<1>8. ToldInv'
  BY <1>1 DEF ToldInv
<1>9. QED
  BY <1>3, <1>4, <1>5, <1>6, <1>7, <1>8 DEF DoctorInv

\* A run of anything but a node ends.
LEMMA EndHolds ==
    ASSUME DoctorInv, NEW key \in Doctor!Keys \ {"node"}, NEW e, EntryHolds(key, e), e.at = now,
           Doctor!Store(key, e), run' = [run EXCEPT ![key] = Nothing],
           UNCHANGED <<kind, now, interval>>,
           good' \in [Doctor!Keys -> Reading \cup {Nothing}], GoodInv'
    PROVE  DoctorInv'
<1>1. /\ cache' \in [Doctor!Keys -> Reading \cup {Nothing}] /\ CacheInv'
      /\ cache' = [cache EXCEPT ![key] = e]
      /\ ToldInv'
      /\ visitor' \in [Visitors -> Waiting \cup {Doctor!Away}]
      /\ \A v \in Visitors : visitor'[v].at = "wait" => visitor'[v] = visitor[v] /\ visitor[v].key # key
  BY StoreHolds
<1>2. /\ run \in [Doctor!Keys -> Task \cup {Nothing}] /\ RunInv /\ WaitInv /\ DoctorTypes
  BY DEF DoctorInv, DoctorTypes
<1>3. /\ run' \in [Doctor!Keys -> Task \cup {Nothing}]
      /\ run'[key] = Nothing
      /\ \A k \in Doctor!Keys \ {key} : run'[k] = run[k]
  BY <1>2
<1>4. RunInv'
  <2> SUFFICES ASSUME NEW k \in Doctor!Keys, run'[k] # Nothing
               PROVE  RunHolds(k, run[k])'
    BY DEF RunInv
  <2>1. RunHolds(k, run'[k])
    BY <1>2, <1>3 DEF RunInv
  <2>2. cache'["node"] = cache["node"] /\ run'["node"] = run["node"]
    BY <1>1, <1>2, <1>3 DEF DoctorTypes
  <2>3. QED
    BY <2>1, <2>2 DEF RunHolds, EntryHolds, Span
<1>5. WaitInv'
  <2> SUFFICES ASSUME NEW v \in Visitors, visitor'[v].at = "wait"
               PROVE  visitor'[v].key = Doctor!Key(visitor'[v].k, visitor'[v].lang)
                      /\ run'[visitor'[v].key] # Nothing
    BY DEF WaitInv
  <2>1. visitor'[v] = visitor[v] /\ visitor[v].key # key
    BY <1>1
  <2>2. visitor[v].key \in Doctor!Keys
    BY <1>1, <2>1 DEF Waiting, Doctor!Away
  <2>3. QED
    BY <1>2, <1>3, <2>1, <2>2 DEF WaitInv
<1>6. DoctorTypes'
  BY <1>1, <1>2, <1>3 DEF DoctorTypes
<1>7. QED
  BY <1>1, <1>4, <1>5, <1>6 DEF DoctorInv

\* What a run can store that is not a mail run on a node.
LEMMA ResultHolds ==
    ASSUME DoctorInv, NEW key \in Doctor!Keys, run[key] # Nothing, key # "mail" \/ kind # "node",
           NEW status \in {"ok", "fail"}, NEW raw \in BOOLEAN,
           key \in {"host", "usage", "mail", "cluster"} => raw \/ status = "fail"
    PROVE  EntryHolds(key, Doctor!Result(key, status, raw)) /\ Doctor!Result(key, status, raw).at = now
<1> DEFINE e == Doctor!Result(key, status, raw)
<1>1. e = [at |-> now, from |-> run[key].from, status |-> status, raw |-> raw, lang |-> run[key].lang,
           until |-> run[key].until]
  BY DEF Doctor!Result
<1>2. RunHolds(key, run[key]) /\ run[key] \in Task /\ now \in Nat
  BY DEF DoctorInv, DoctorTypes, RunInv
<1>3. e \in Reading
  BY <1>1, <1>2 DEF Task, Reading
<1>4. e.at - e.from <= Span(key, e)
  BY <1>1, <1>2 DEF RunHolds, Span
<1>5. QED
  BY <1>1, <1>2, <1>3, <1>4 DEF EntryHolds, RunHolds

LEMMA MeasureHolds ==
    ASSUME DoctorInv, NEW k \in Doctor!Kinds, Doctor!Measure(k)
    PROVE  DoctorInv'
<1>1. k = kind /\ run[k] # Nothing /\ UNCHANGED <<kind, now, interval, good>>
  BY DEF Doctor!Measure
<1>2. run' = [run EXCEPT ![k] = Nothing]
  BY DEF Doctor!Measure
<1>3. PICK o \in Doctor!Outcomes(k) : Doctor!Store(k, Doctor!Result(k, o[1], o[2]))
  BY DEF Doctor!Measure
<1>4. k \in {"host", "usage", "mail", "cluster"} /\ o \in {<<"ok", TRUE>>, <<"fail", TRUE>>, <<"fail", FALSE>>}
  BY DEF Doctor!Outcomes, Doctor!ParseDoctor, Doctor!ParseDockerUsage, Doctor!ParseStatus
<1>5. PICK status \in {"ok", "fail"}, raw \in BOOLEAN :
        /\ o = <<status, raw>>
        /\ raw \/ status = "fail"
  BY <1>4
<1>6. Doctor!Store(k, Doctor!Result(k, status, raw))
  BY <1>3, <1>5
<1>7. EntryHolds(k, Doctor!Result(k, status, raw)) /\ Doctor!Result(k, status, raw).at = now
  BY <1>1, <1>4, <1>5, ResultHolds
<1>8. good' \in [Doctor!Keys -> Reading \cup {Nothing}] /\ GoodInv'
  BY <1>1 DEF DoctorInv, DoctorTypes, GoodInv
<1>9. k \in Doctor!Keys \ {"node"}
  BY <1>4
<1>10. QED
  BY <1>1, <1>2, <1>6, <1>7, <1>8, <1>9, EndHolds

LEMMA MeasureWidgetHolds ==
    ASSUME DoctorInv, NEW l \in Langs, Doctor!MeasureWidget(l)
    PROVE  DoctorInv'
<1>1. /\ kind = "widget" /\ run[l] # Nothing /\ UNCHANGED <<kind, now, interval>>
      /\ run' = [run EXCEPT ![l] = Nothing]
  BY DEF Doctor!MeasureWidget
<1>2. l \in Doctor!Keys \ {"node"} /\ l \notin Doctor!Kinds
  BY ReadingsAssumption
<1>3. DoctorTypes /\ GoodInv /\ now \in Nat
  BY DEF DoctorInv, DoctorTypes
<1>4. CASE Doctor!Store(l, Doctor!Result(l, "ok", FALSE)) /\ good' = [good EXCEPT ![l] = Doctor!Result(l, "ok", FALSE)]
  <2>1. PICK e : e = Doctor!Result(l, "ok", FALSE)
    OBVIOUS
  <2>2. EntryHolds(l, e) /\ e.at = now
    BY <1>1, <1>2, <2>1, ResultHolds
  <2>3. e \in Reading /\ e.at - e.from <= RunLimit
    <3>1. e.status = "ok"
      BY <2>1 DEF Doctor!Result
    <3>2. QED
      BY <1>1, <2>2, <3>1 DEF EntryHolds, Span
  <2>4. /\ good' \in [Doctor!Keys -> Reading \cup {Nothing}]
        /\ good'[l] = e
        /\ \A i \in Langs \ {l} : good'[i] = good[i]
    BY <1>3, <1>4, <2>1, <2>3 DEF DoctorTypes
  <2>5. GoodInv'
    <3> SUFFICES ASSUME NEW i \in Langs, good'[i] # Nothing
                 PROVE  good'[i].at <= now' /\ good'[i].at - good'[i].from <= RunLimit
      BY DEF GoodInv
    <3>1. CASE i = l
      <4>1. good'[i] = e /\ e.at = now
        BY <2>2, <2>4, <3>1
      <4>2. good'[i].at <= now'
        <5>1. now' = now /\ now \in Nat
          BY <1>1, <1>3
        <5>2. QED
          BY <4>1, <5>1
      <4>3. good'[i].at - good'[i].from <= RunLimit
        BY <2>3, <2>4, <3>1
      <4>4. QED
        BY <4>2, <4>3
    <3>2. CASE i # l
      BY <1>1, <1>3, <2>4, <3>2 DEF GoodInv
    <3>3. QED
      BY <3>1, <3>2
  <2>6. QED
    BY <1>1, <1>2, <1>4, <2>1, <2>2, <2>4, <2>5, EndHolds
<1>5. CASE Doctor!Store(l, Doctor!Failed(l)) /\ UNCHANGED good
  <2> DEFINE e == Doctor!Failed(l)
  <2>1. EntryHolds(l, e) /\ e.at = now
    <3>1. CASE good[l] # Nothing /\ now - good[l].at <= StaleMax
      <4>1. e = [at |-> now, from |-> good[l].from, status |-> "stale", raw |-> FALSE,
                 lang |-> run[l].lang, until |-> run[l].until]
        BY <3>1 DEF Doctor!Failed, Doctor!Result
      <4>2. RunHolds(l, run[l]) /\ run[l] \in Task /\ good[l] \in Reading
        BY <1>1, <1>2, <1>3, <3>1 DEF DoctorInv, DoctorTypes, RunInv
      <4>3. good[l].at - good[l].from <= RunLimit
        BY <1>3, <3>1 DEF GoodInv
      <4>4. e \in Reading
        BY <1>3, <4>1, <4>2 DEF Reading, Task
      <4>5. StaleMax \in Nat /\ RunLimit \in Nat /\ good[l].at \in Nat /\ good[l].from \in Nat
        BY <4>2, ReadingsAssumption DEF Reading
      <4>6. now - good[l].from <= StaleMax + RunLimit
        BY <1>3, <3>1, <4>3, <4>5
      <4>7. e.at - e.from <= Span(l, e)
        BY <1>1, <4>1, <4>6 DEF Span
      <4>8. QED
        BY <1>2, <1>3, <4>1, <4>2, <4>4, <4>7 DEF EntryHolds, RunHolds
    <3>2. CASE ~(good[l] # Nothing /\ now - good[l].at <= StaleMax)
      <4>1. e = Doctor!Result(l, "fail", FALSE)
        BY <3>2 DEF Doctor!Failed
      <4>2. QED
        BY <1>1, <1>2, <4>1, ResultHolds
    <3>3. QED
      BY <3>1, <3>2
  <2>2. good' \in [Doctor!Keys -> Reading \cup {Nothing}] /\ GoodInv'
    BY <1>1, <1>3, <1>5 DEF DoctorTypes, GoodInv
  <2>3. QED
    BY <1>1, <1>2, <1>5, <2>1, <2>2, EndHolds
<1>6. QED
  BY <1>4, <1>5 DEF Doctor!MeasureWidget

\* The run of a node ends, and a mail run that waits for it goes on with what it stored.
LEMMA MeasureNodeHolds ==
    ASSUME DoctorInv, NEW status \in {"ok", "fail"}, NEW withReport, Doctor!MeasureNode(status, withReport)
    PROVE  DoctorInv'
<1> DEFINE e == Doctor!Result("node", status, FALSE)
           m == run["mail"]
           w == m # Nothing /\ m.at = "wait"
<1>1. /\ kind = "node" /\ run["node"] # Nothing /\ UNCHANGED <<kind, now, interval, good>>
      /\ Doctor!Store("node", e)
  BY DEF Doctor!MeasureNode
<1>2. /\ run \in [Doctor!Keys -> Task \cup {Nothing}] /\ RunInv /\ WaitInv /\ DoctorTypes
      /\ now \in Nat /\ Longest \in Nat
  BY LongestIsLongest DEF DoctorInv, DoctorTypes
<1>3. EntryHolds("node", e) /\ e.at = now
  BY <1>1, ResultHolds
<1>4. /\ cache' \in [Doctor!Keys -> Reading \cup {Nothing}] /\ CacheInv'
      /\ cache' = [cache EXCEPT !["node"] = e]
      /\ ToldInv'
      /\ visitor' \in [Visitors -> Waiting \cup {Doctor!Away}]
      /\ \A v \in Visitors : visitor'[v].at = "wait" => visitor'[v] = visitor[v] /\ visitor[v].key # "node"
  BY <1>1, <1>3, StoreHolds
<1>5. PICK n : /\ n = IF w THEN [m EXCEPT !.at = "take"] ELSE m
               /\ run' = [run EXCEPT !["node"] = Nothing, !["mail"] = n]
  BY <1>2 DEF Doctor!MeasureNode
<1>6. n \in Task \cup {Nothing} /\ (m # Nothing => n # Nothing)
  <2>1. CASE w
    <3>1. m \in Task
      BY <1>2, <2>1
    <3>2. n = [m EXCEPT !.at = "take"]
      BY <1>5, <2>1
    <3>3. n \in Task
      BY <3>1, <3>2 DEF Task
    <3>4. QED
      BY <3>3, ReadingsAssumption DEF Task
  <2>2. CASE ~w
    BY <1>2, <1>5, <2>2
  <2>3. QED
    BY <2>1, <2>2
<1>7. /\ run' \in [Doctor!Keys -> Task \cup {Nothing}]
      /\ run'["node"] = Nothing /\ run'["mail"] = n
      /\ \A k \in Doctor!Keys \ {"node", "mail"} : run'[k] = run[k]
  BY <1>2, <1>5, <1>6
<1>8. cache'["node"] = e
  BY <1>2, <1>4 DEF DoctorTypes
<1>9. RunInv'
  <2> SUFFICES ASSUME NEW k \in Doctor!Keys, run'[k] # Nothing
               PROVE  RunHolds(k, run[k])'
    BY DEF RunInv
  <2>1. CASE k = "mail"
    <3>1. m # Nothing
      BY <1>5, <1>7, <2>1
    <3>2. RunHolds("mail", m) /\ m \in Task
      BY <1>2, <3>1 DEF RunInv
    <3>3. n.from = m.from /\ n.at # "wait"
      <4>1. CASE w
        BY <1>5, <3>2, <4>1 DEF Task
      <4>2. CASE ~w
        BY <1>5, <3>1, <4>2
      <4>3. QED
        BY <4>1, <4>2
    <3>4. EntryHolds("node", cache["node"])' /\ now' - cache'["node"].at <= Longest
      <4>1. EntryHolds("node", cache["node"])'
        BY <1>1, <1>3, <1>8 DEF EntryHolds, Span
      <4>2. cache'["node"].at = now /\ now' = now
        BY <1>1, <1>3, <1>8
      <4>3. QED
        BY <1>2, <4>1, <4>2
    <3>5. "mail" \notin Langs
      BY ReadingsAssumption
    <3>6. QED
      BY <1>1, <1>7, <2>1, <3>2, <3>3, <3>4, <3>5 DEF RunHolds
  <2>2. CASE k # "mail"
    <3>1. run'[k] = run[k] /\ RunHolds(k, run[k]) /\ run[k].at = "work"
      BY <1>2, <1>7, <2>2 DEF RunInv, RunHolds
    <3>2. QED
      BY <1>1, <3>1 DEF RunHolds
  <2>3. QED
    BY <2>1, <2>2
<1>10. WaitInv'
  <2> SUFFICES ASSUME NEW v \in Visitors, visitor'[v].at = "wait"
               PROVE  visitor'[v].key = Doctor!Key(visitor'[v].k, visitor'[v].lang)
                      /\ run'[visitor'[v].key] # Nothing
    BY DEF WaitInv
  <2>1. visitor'[v] = visitor[v] /\ visitor[v].key # "node"
    BY <1>4
  <2>2. visitor[v].key \in Doctor!Keys
    BY <1>4, <2>1 DEF Waiting, Doctor!Away
  <2>3. QED
    BY <1>2, <1>6, <1>7, <2>1, <2>2 DEF WaitInv
<1>11. DoctorTypes' /\ GoodInv'
  BY <1>1, <1>4, <1>7 DEF DoctorInv, DoctorTypes, GoodInv
<1>12. QED
  BY <1>4, <1>9, <1>10, <1>11 DEF DoctorInv

\* A mail run finds the node's reading young enough, or waits for a run of it.
LEMMA RunOnNodeHolds ==
    ASSUME DoctorInv, Doctor!RunOnNode
    PROVE  DoctorInv'
<1> DEFINE r == run["mail"]
           usable == Doctor!Usable("node", "node", r.force)
           begins == ~usable /\ run["node"] = Nothing
<1>1. /\ kind = "node" /\ r # Nothing /\ r.at = "work" /\ told' = {}
      /\ UNCHANGED <<kind, now, interval, cache, good, visitor>>
  BY DEF Doctor!RunOnNode
<1>2. /\ run \in [Doctor!Keys -> Task \cup {Nothing}] /\ RunInv /\ DoctorTypes /\ CacheInv
      /\ now \in Nat /\ Longest \in Nat
  BY LongestIsLongest DEF DoctorInv, DoctorTypes
<1>3. r \in Task /\ RunHolds("mail", r)
  BY <1>1, <1>2 DEF RunInv
<1>4. PICK m, n : /\ m = [r EXCEPT !.at = IF usable THEN "take" ELSE "wait"]
                  /\ n = IF begins THEN [r EXCEPT !.from = now, !.force = FALSE] ELSE run["node"]
                  /\ run' = [run EXCEPT !["mail"] = m, !["node"] = n]
  BY <1>2 DEF Doctor!RunOnNode
<1>5. m \in Task /\ m # Nothing /\ m.from = r.from /\ m.at = IF usable THEN "take" ELSE "wait"
  BY <1>3, <1>4, ReadingsAssumption DEF Task
<1>6. n \in Task \cup {Nothing} /\ (run["node"] # Nothing => n = run["node"]) /\ (~usable => n # Nothing)
  <2>1. CASE begins
    <3>1. n = [r EXCEPT !.from = now, !.force = FALSE]
      BY <1>4, <2>1
    <3>2. n \in Task
      BY <1>2, <1>3, <3>1 DEF Task
    <3>3. QED
      BY <2>1, <3>2, ReadingsAssumption DEF Task
  <2>2. CASE ~begins
    BY <1>2, <1>4, <2>2
  <2>3. QED
    BY <2>1, <2>2
<1>7. /\ run' \in [Doctor!Keys -> Task \cup {Nothing}]
      /\ run'["mail"] = m /\ run'["node"] = n
      /\ \A k \in Doctor!Keys \ {"node", "mail"} : run'[k] = run[k]
  BY <1>2, <1>4, <1>5, <1>6
<1>8. usable => EntryHolds("node", cache["node"]) /\ now - cache["node"].at <= Longest
  <2> SUFFICES ASSUME usable PROVE EntryHolds("node", cache["node"]) /\ now - cache["node"].at <= Longest
    OBVIOUS
  <2>1. EntryHolds("node", cache["node"])
    BY <1>2 DEF Doctor!Usable, CacheInv
  <2>2. now - cache["node"].at < Doctor!Limit("node", cache["node"], r.force)
    BY DEF Doctor!Usable
  <2>3. interval \in Nat /\ interval <= Longest /\ Recheck \in Nat /\ Recheck <= Longest /\ FailureTtl \in Nat
    BY <1>2, LongestIsLongest, ReadingsAssumption DEF DoctorTypes
  <2>4. Doctor!Limit("node", cache["node"], r.force) \in {Recheck, interval, Doctor!Min({FailureTtl, interval})}
    BY DEF Doctor!Limit, Doctor!Pace
  <2>5. Doctor!Min({FailureTtl, interval}) <= interval /\ Doctor!Min({FailureTtl, interval}) \in Nat
    BY <2>3, MinOfTwo
  <2>6. cache["node"].at \in Nat
    BY <2>1 DEF EntryHolds, Reading
  <2>7. QED
    BY <1>2, <2>1, <2>2, <2>3, <2>4, <2>5, <2>6
<1>9. RunInv'
  <2> SUFFICES ASSUME NEW k \in Doctor!Keys, run'[k] # Nothing
               PROVE  RunHolds(k, run[k])'
    BY DEF RunInv
  <2>0. "mail" \notin Langs /\ "node" \notin Langs /\ RunLimit \in Nat
    BY ReadingsAssumption
  <2>1. CASE k = "mail"
    <3>1. usable => (EntryHolds("node", cache["node"]) /\ now - cache["node"].at <= Longest)'
      BY <1>1, <1>8 DEF EntryHolds, Span, Longest
    <3>2. QED
      BY <1>1, <1>3, <1>5, <1>6, <1>7, <2>0, <2>1, <3>1 DEF RunHolds
  <2>2. CASE k = "node"
    <3>1. CASE begins
      <4>1. n.from = now /\ n.at = "work"
        BY <1>1, <1>3, <1>4, <3>1 DEF Task
      <4>2. QED
        BY <1>1, <1>2, <1>7, <2>0, <2>2, <4>1 DEF RunHolds
    <3>2. CASE ~begins
      <4>1. n = run["node"] /\ RunHolds("node", n) /\ n.at = "work"
        BY <1>2, <1>4, <1>7, <2>2, <3>2 DEF RunInv, RunHolds
      <4>2. QED
        BY <1>1, <1>7, <2>2, <4>1 DEF RunHolds
    <3>3. QED
      BY <3>1, <3>2
  <2>3. CASE k \notin {"mail", "node"}
    <3>1. run'[k] = run[k] /\ RunHolds(k, run[k]) /\ run[k].at = "work"
      BY <1>2, <1>7, <2>3 DEF RunInv, RunHolds
    <3>2. QED
      BY <1>1, <3>1 DEF RunHolds
  <2>4. QED
    BY <2>1, <2>2, <2>3
<1>10. \A k \in Doctor!Keys : run[k] # Nothing => run'[k] # Nothing
  BY <1>5, <1>6, <1>7
<1>11. \A a \in told' : Told(a)
  BY <1>1
<1>12. QED
  BY <1>1, <1>7, <1>9, <1>10, <1>11, AnsweringHolds

\* The report is as old as the node's reading, and that was young when it was found.
LEMMA TakeReportHolds ==
    ASSUME DoctorInv, Doctor!TakeReport
    PROVE  DoctorInv'
<1>1. /\ kind = "node" /\ run["mail"] # Nothing /\ run["mail"].at = "take"
      /\ run' = [run EXCEPT !["mail"] = Nothing]
      /\ UNCHANGED <<kind, now, interval, good>>
  BY DEF Doctor!TakeReport
<1>2. PICK status \in {"ok", "fail"} :
        Doctor!Store("mail", [Doctor!Result("mail", status, TRUE) EXCEPT !.from = cache["node"].from])
  <2>1. (IF report THEN "ok" ELSE "fail") \in {"ok", "fail"}
    OBVIOUS
  <2>2. QED
    BY <2>1 DEF Doctor!TakeReport
<1>3. PICK b, e : /\ b = Doctor!Result("mail", status, TRUE)
                  /\ e = [b EXCEPT !.from = cache["node"].from]
  OBVIOUS
<1>4. Doctor!Store("mail", e)
  BY <1>2, <1>3
<1>5. run["mail"] \in Task /\ RunHolds("mail", run["mail"]) /\ now \in Nat
  BY <1>1 DEF DoctorInv, DoctorTypes, RunInv
<1>6. /\ EntryHolds("node", cache["node"]) /\ now - cache["node"].at <= Longest
      /\ "mail" \notin Langs /\ "node" \notin Langs /\ Longest \in Nat /\ RunLimit \in Nat
  BY <1>1, <1>5, LongestIsLongest, ReadingsAssumption DEF RunHolds
<1>7. EntryHolds("mail", e) /\ e.at = now
  <2>1. b = [at |-> now, from |-> run["mail"].from, status |-> status, raw |-> TRUE,
             lang |-> run["mail"].lang, until |-> run["mail"].until]
    BY <1>3 DEF Doctor!Result
  <2>2. b \in Reading /\ b.at = now /\ b.status = status /\ b.raw = TRUE
    BY <1>5, <2>1 DEF Reading, Task
  <2>3. /\ cache["node"].at \in Nat /\ cache["node"].from \in Nat
        /\ cache["node"].at - cache["node"].from <= RunLimit
    BY <1>6 DEF EntryHolds, Span, Reading
  <2>4. /\ e \in Reading /\ e.at = now /\ e.status = status /\ e.raw = TRUE
        /\ e.from = cache["node"].from
    BY <1>3, <2>2, <2>3 DEF Reading
  <2>5. e.at - e.from <= Longest + RunLimit
    BY <1>5, <1>6, <2>3, <2>4
  <2>6. Span("mail", e) = Longest + RunLimit
    BY <1>1 DEF Span
  <2>7. QED
    BY <1>5, <1>6, <2>5, <2>6, <2>4 DEF EntryHolds
<1>8. good' \in [Doctor!Keys -> Reading \cup {Nothing}] /\ GoodInv'
  BY <1>1 DEF DoctorInv, DoctorTypes, GoodInv
<1>9. QED
  BY <1>1, <1>4, <1>7, <1>8, EndHolds

LEMMA DoctorInit == Doctor!Init => DoctorInv
<1> SUFFICES ASSUME Doctor!Init PROVE DoctorInv
  OBVIOUS
<1> USE DEF Doctor!Init
<1>1. DoctorTypes
  BY DEF DoctorTypes
<1>2. CacheInv /\ GoodInv /\ RunInv
  BY DEF CacheInv, GoodInv, RunInv
<1>3. WaitInv
  BY DEF WaitInv, Doctor!Away
<1>4. QED
  BY <1>1, <1>2, <1>3 DEF DoctorInv, ToldInv

LEMMA DoctorNext ==
    ASSUME DoctorInv, Doctor!Next
    PROVE  DoctorInv'
BY LoadHolds, LoadDockerUsageHolds, LoadClusterChecksHolds, ChipHolds, LeaveHolds, MeasureHolds,
   MeasureWidgetHolds, MeasureNodeHolds, RunOnNodeHolds, TakeReportHolds, SetIntervalHolds,
   DoctorTickHolds
   DEF Doctor!Next

LEMMA DoctorShares == DoctorInv => Doctor!ReadingsAreShared
<1> SUFFICES ASSUME DoctorInv PROVE Doctor!ReadingsAreShared
  OBVIOUS
<1>1. Doctor!AnswersAreRecent
  BY DEF DoctorInv, ToldInv, Told, Doctor!AnswersAreRecent
<1>2. Doctor!OwnLanguage
  BY DEF DoctorInv, ToldInv, Told, Doctor!OwnLanguage
<1>3. Doctor!NobodyWaitsInVain
  <2>1. run["mail"] # Nothing /\ run["mail"].at = "wait" => run["node"] # Nothing
    BY DEF DoctorInv, RunInv, RunHolds
  <2>2. QED
    BY <2>1 DEF DoctorInv, WaitInv, Doctor!NobodyWaitsInVain
<1>4. QED
  BY <1>1, <1>2, <1>3 DEF Doctor!ReadingsAreShared

\* Each who asks for a reading is given a recent one, in his own language, by a run that goes on
\* whoever leaves.
THEOREM ReadingsAreSharedAlways == PagesSpec => []ReadingsAreShared
<1> DEFINE I == side = "doctor" => DoctorInv
<1>1. PagesInit => I
  BY DoctorInit DEF PagesInit
<1>2. I /\ [PagesNext]_pageVars => I'
  <2> SUFFICES ASSUME I, [PagesNext]_pageVars, side' = "doctor"
               PROVE  DoctorInv'
    OBVIOUS
  <2>1. CASE UNCHANGED pageVars
    <3>1. UNCHANGED <<side, kind, now, interval, cache, good, run, report, visitor, told>>
      BY <2>1 DEF pageVars, shared, doctor
    <3>2. DoctorInv
      BY <3>1
    <3>3. DoctorTypes' /\ GoodInv'
      BY <3>1, <3>2 DEF DoctorInv, DoctorTypes, GoodInv
    <3>4. CacheInv'
      BY <3>1, <3>2 DEF DoctorInv, CacheInv, EntryHolds, Span
    <3>5. RunInv' /\ WaitInv'
      BY <3>1, <3>2 DEF DoctorInv, RunInv, WaitInv, RunHolds, EntryHolds, Span
    <3>6. ToldInv'
      BY <3>1, <3>2 DEF DoctorInv, ToldInv, Told, Doctor!Bound
    <3>7. QED
      BY <3>3, <3>4, <3>5, <3>6 DEF DoctorInv
  <2>2. CASE side = "doctor" /\ Doctor!Next /\ UNCHANGED <<side, vars, stack, ctl, files>>
    BY <2>2, DoctorNext
  <2>3. CASE side # "doctor" /\ PagesNext
    BY <2>3 DEF PagesNext
  <2>4. QED
    BY <2>1, <2>2, <2>3 DEF PagesNext
<1>3. I => ReadingsAreShared
  BY DoctorShares DEF ReadingsAreShared
<1>4. QED
  BY <1>1, <1>2, <1>3, PTL DEF PagesSpec

-----------------------------------------------------------------------------
(* The stack as it is shown.                                               *)

Asking ==
    [at : {"lock", "ask", "inspect", "store"}, since : Nat, t : Nat,
     ps : [Services -> Stack!States] \cup {Nothing}, epoch : Nat, raced : BOOLEAN]

StackTypes ==
    /\ mode \in {"local", "cluster", "nodes"} /\ now \in Nat /\ changes \in Nat
    /\ docker \in [Services -> Stack!States]
    /\ reader \in [Readers -> Asking \cup {Stack!Idle}]

\* A reading on its way knows every change up to the question it asked, and all there are unless it
\* was overtaken by one.
ReaderHolds(x) ==
    /\ x.at # "idle" => x.since <= changes
    /\ x.at = "lock" => mode = "cluster"
    /\ x.at \in {"inspect", "store"} => x.epoch >= x.since /\ (x.epoch >= changes \/ x.raced)
    /\ x.at = "inspect" => mode = "local" /\ x.ps \in [Services -> Stack!States]
    /\ x.at = "store" => mode # "local"

ReadersInv == \A r \in Readers : ReaderHolds(reader[r])

\* What is kept knows all changes or was on its way during one; on one host it is what follows from
\* what Docker said.
KeptHolds(e) ==
    /\ e.at \in Nat /\ e.epoch \in Nat
    /\ e.epoch >= changes \/ e.raced
    /\ mode = "local" =>
          /\ e.ps \in [Services -> Stack!States]
          /\ e.health = Stack!ApplyRestartPolicies(Stack!MergeExpected(e.ps), e.known)
KeptInv == cache # Nothing => KeptHolds(cache)

\* An answer as ChangeIsSeen wants it.
Seen(a) ==
    a.epoch >= a.since \/ (a.raced /\ now - a.at < IF mode = "local" THEN CacheTtl ELSE StatusTtl)

StackInv == StackTypes /\ ReadersInv /\ KeptInv /\ \A a \in told : Seen(a)

\* The order of severity.
LEMMA Ranks ==
    /\ Stack!Rank("missing") = 1 /\ Stack!Rank("stopped") = 2 /\ Stack!Rank("unhealthy") = 3
    /\ Stack!Rank("starting") = 4 /\ Stack!Rank("completed") = 6 /\ Stack!Rank("healthy") = 7
<1>1. DOMAIN Stack!Severity = 1..7
  BY DEF Stack!Severity
<1>2. /\ Stack!Severity[1] = "missing" /\ Stack!Severity[2] = "stopped" /\ Stack!Severity[3] = "unhealthy"
      /\ Stack!Severity[4] = "starting" /\ Stack!Severity[5] = "unknown" /\ Stack!Severity[6] = "completed"
      /\ Stack!Severity[7] = "healthy"
  BY DEF Stack!Severity
<1>3. \A i \in 1..7 : i = 1 \/ i = 2 \/ i = 3 \/ i = 4 \/ i = 5 \/ i = 6 \/ i = 7
  OBVIOUS
<1>4. ASSUME NEW n \in 1..7, \A i \in 1..7 : Stack!Severity[i] = Stack!Severity[n] => i = n
      PROVE  Stack!Rank(Stack!Severity[n]) = n
  BY <1>1, <1>4 DEF Stack!Rank
<1>5. \A n \in 1..7 : \A i \in 1..7 : Stack!Severity[i] = Stack!Severity[n] => i = n
  BY <1>2, <1>3
<1>6. \A n \in 1..7 : Stack!Rank(Stack!Severity[n]) = n
  BY <1>4, <1>5
<1>7. QED
  BY <1>2, <1>6

\* The worst of some healths is "healthy" exactly when that is the only one that counts.
LEMMA WorstIsHealthy ==
    ASSUME NEW S \in SUBSET {"missing", "stopped", "unhealthy", "starting", "completed", "healthy"}
    PROVE  Stack!Worst(S) = "healthy" <=> ("healthy" \in S /\ S \subseteq {"healthy", "completed"})
<1> DEFINE serving == S \ {"completed"}
           ranks == {Stack!Rank(h) : h \in serving}
<1>1. CASE S = {}
  BY <1>1 DEF Stack!Worst
<1>2. CASE S # {} /\ serving = {}
  <2>1. Stack!Worst(S) = "completed"
    BY <1>2 DEF Stack!Worst
  <2>2. QED
    BY <1>2, <2>1
<1>3. CASE serving # {}
  <2>1. Stack!Worst(S) = Stack!Severity[Stack!Min(ranks)]
    BY <1>3 DEF Stack!Worst
  <2>2. \A i \in ranks : i = 1 \/ i = 2 \/ i = 3 \/ i = 4 \/ i = 7
    BY Ranks
  <2>3. PICK i \in ranks : \A j \in ranks : i <= j
    <3>1. ranks # {}
      BY <1>3
    <3>2. CASE 1 \in ranks
      BY <2>2, <3>2
    <3>3. CASE 1 \notin ranks /\ 2 \in ranks
      BY <2>2, <3>3
    <3>4. CASE 1 \notin ranks /\ 2 \notin ranks /\ 3 \in ranks
      BY <2>2, <3>4
    <3>5. CASE 1 \notin ranks /\ 2 \notin ranks /\ 3 \notin ranks /\ 4 \in ranks
      BY <2>2, <3>5
    <3>6. CASE 1 \notin ranks /\ 2 \notin ranks /\ 3 \notin ranks /\ 4 \notin ranks
      BY <2>2, <3>1, <3>6
    <3>7. QED
      BY <3>2, <3>3, <3>4, <3>5, <3>6
  <2>4. Stack!Min(ranks) \in ranks /\ \A j \in ranks : Stack!Min(ranks) <= j
    BY <2>3 DEF Stack!Min
  <2>5. Stack!Min(ranks) = 7 <=> serving \subseteq {"healthy"}
    <3>1. CASE serving \subseteq {"healthy"}
      BY <2>4, <3>1, Ranks
    <3>2. ASSUME NEW h \in serving, h # "healthy"
          PROVE  Stack!Min(ranks) # 7
      <4>1. Stack!Rank(h) \in {1, 2, 3, 4}
        BY <3>2, Ranks
      <4>2. Stack!Rank(h) \in ranks
        BY <3>2
      <4>3. QED
        BY <2>4, <4>1, <4>2
    <3>3. QED
      BY <3>1, <3>2
  <2>6. Stack!Severity[Stack!Min(ranks)] = "healthy" <=> Stack!Min(ranks) = 7
    <3>1. /\ Stack!Severity[1] = "missing" /\ Stack!Severity[2] = "stopped" /\ Stack!Severity[3] = "unhealthy"
          /\ Stack!Severity[4] = "starting" /\ Stack!Severity[7] = "healthy"
      BY DEF Stack!Severity
    <3>2. QED
      BY <2>2, <2>4, <3>1
  <2>7. QED
    BY <1>3, <2>1, <2>5, <2>6
<1>4. QED
  BY <1>1, <1>2, <1>3

\* What a module reads as follows from what Docker said of its services.
LEMMA HealthyServes ==
    ASSUME NEW ps \in [Services -> Stack!States], NEW known,
           NEW health, health = Stack!ApplyRestartPolicies(Stack!MergeExpected(ps), known)
    PROVE  Stack!Overall(health) = "healthy"
           <=> /\ \E s \in Declared \cup Stack!Reported(ps) : ps[s] = "up"
               /\ \A s \in Declared \cup Stack!Reported(ps) :
                     ps[s] = "up" \/ (ps[s] = "done" /\ s \notin known \cap Kept)
<1> DEFINE all == Declared \cup Stack!Reported(ps)
           S == {health[s] : s \in all}
<1>1. all \subseteq Services
  BY StackAssumption DEF Stack!Reported
<1>2. DOMAIN health = all
  BY DEF Stack!ApplyRestartPolicies, Stack!MergeExpected
<1>3. Stack!Overall(health) = Stack!Worst(S)
  BY <1>2 DEF Stack!Overall
<1>4. ASSUME NEW s \in all
      PROVE  /\ health[s] \in {"missing", "stopped", "unhealthy", "starting", "completed", "healthy"}
             /\ health[s] = "healthy" <=> ps[s] = "up"
             /\ health[s] = "completed" <=> ps[s] = "done" /\ s \notin known \cap Kept
  <2> DEFINE merged == Stack!MergeExpected(ps)
  <2>1. merged[s] = IF s \in Stack!Reported(ps) THEN Stack!DeriveHealth(ps[s]) ELSE "missing"
    BY DEF Stack!MergeExpected
  <2>2. health[s] = IF merged[s] = "completed" /\ s \in known \cap Kept THEN "stopped" ELSE merged[s]
    BY DEF Stack!ApplyRestartPolicies, Stack!MergeExpected
  <2>3. ps[s] \in Stack!States /\ (s \in Stack!Reported(ps) <=> ps[s] # "absent")
    BY <1>1 DEF Stack!Reported
  <2>4. CASE ps[s] = "absent"
    BY <2>1, <2>2, <2>3, <2>4
  <2>5. CASE ps[s] # "absent"
    <3>1. merged[s] = Stack!DeriveHealth(ps[s])
      BY <2>1, <2>3, <2>5
    <3>2. /\ merged[s] \in {"stopped", "unhealthy", "starting", "completed", "healthy"}
          /\ merged[s] = "healthy" <=> ps[s] = "up"
          /\ merged[s] = "completed" <=> ps[s] = "done"
      BY <2>3, <2>5, <3>1 DEF Stack!DeriveHealth, Stack!States
    <3>3. QED
      BY <2>2, <3>2
  <2>6. QED
    BY <2>4, <2>5
<1>5. S \in SUBSET {"missing", "stopped", "unhealthy", "starting", "completed", "healthy"}
  BY <1>4
<1>6. "healthy" \in S <=> \E s \in all : ps[s] = "up"
  BY <1>4
<1>7. S \subseteq {"healthy", "completed"}
      <=> \A s \in all : ps[s] = "up" \/ (ps[s] = "done" /\ s \notin known \cap Kept)
  BY <1>4
<1>8. QED
  BY <1>3, <1>5, <1>6, <1>7, WorstIsHealthy

\* A reader makes a step and nothing is kept or made known.
LEMMA ReaderMoves ==
    ASSUME StackInv, NEW r \in Readers, NEW x, x \in Asking \cup {Stack!Idle}, ReaderHolds(x),
           reader' = [reader EXCEPT ![r] = x], UNCHANGED <<mode, now, docker, changes>>
    PROVE  StackTypes' /\ ReadersInv'
<1>1. /\ reader' \in [Readers -> Asking \cup {Stack!Idle}]
      /\ \A p \in Readers : ReaderHolds(reader'[p])
  BY DEF StackInv, StackTypes, ReadersInv
<1>2. QED
  BY <1>1 DEF StackInv, StackTypes, ReadersInv, ReaderHolds

LEMMA CacheStays ==
    ASSUME KeptInv, UNCHANGED <<mode, cache, changes>>
    PROVE  KeptInv'
BY DEF KeptInv, KeptHolds

LEMMA SeenStays ==
    ASSUME UNCHANGED <<mode, now>>, \A a \in told' : Seen(a)
    PROVE  (\A a \in told : Seen(a))'
BY DEF Seen

\* What is kept may be told to whoever asked up to now.
LEMMA FreshIsSeen ==
    ASSUME StackInv, NEW ttl, Stack!Fresh(ttl), ttl = CacheTtl \/ (mode # "local" /\ ttl = StatusTtl),
           NEW since \in Nat, since <= changes, Stack!Answer(cache, since)
    PROVE  \A a \in told' : Seen(a)
<1>1. cache # Nothing /\ now - cache.at < ttl /\ KeptHolds(cache)
  BY DEF Stack!Fresh, StackInv, KeptInv
<1>2. now \in Nat /\ cache.at \in Nat /\ cache.epoch \in Nat /\ changes \in Nat
  BY <1>1 DEF KeptHolds, StackInv, StackTypes
<1>3. now - cache.at < IF mode = "local" THEN CacheTtl ELSE StatusTtl
  BY <1>1, <1>2, StackAssumption
<1>4. cache.epoch >= since \/ cache.raced
  BY <1>1, <1>2 DEF KeptHolds
<1>5. QED
  BY <1>3, <1>4 DEF Stack!Answer, Seen

\* A reader who stores what he was given is told it, and it knows all he could know.
LEMMA StoredIsSeen ==
    ASSUME StackInv, NEW r \in Readers, reader[r].at \in {"inspect", "store"},
           NEW e, e.epoch = reader[r].epoch, e.raced = reader[r].raced, KeptHolds(e),
           Stack!Store(r, e), UNCHANGED <<mode, now, docker, changes>>
    PROVE  StackInv'
<1>1. StackTypes /\ ReadersInv /\ ReaderHolds(reader[r])
  BY DEF StackInv, ReadersInv
<1>2. /\ cache' = e /\ reader' = [reader EXCEPT ![r] = Stack!Idle]
      /\ told' = {[since |-> reader[r].since, epoch |-> e.epoch, raced |-> e.raced, at |-> e.at]}
  BY DEF Stack!Store, Stack!Answer, Stack!Go
<1>3. StackTypes' /\ ReadersInv'
  <2>1. ReaderHolds(Stack!Idle)
    BY DEF ReaderHolds, Stack!Idle
  <2>2. QED
    BY <1>2, <2>1, ReaderMoves
<1>4. KeptInv'
  BY <1>2 DEF KeptInv, KeptHolds
<1>5. \A a \in told' : Seen(a)
  BY <1>1, <1>2 DEF ReaderHolds, Seen
<1>6. QED
  BY <1>3, <1>4, <1>5, SeenStays DEF StackInv

LEMMA StackLoadHolds ==
    ASSUME StackInv, NEW r \in Readers, NEW fresh \in BOOLEAN, Stack!Load(r, fresh)
    PROVE  StackInv'
<1> DEFINE ttl == IF mode = "nodes" THEN StatusTtl ELSE CacheTtl
<1>1. UNCHANGED <<mode, now, docker, cache, changes>> /\ StackTypes /\ KeptInv
  BY DEF Stack!Load, StackInv
<1>2. KeptInv'
  BY <1>1, CacheStays
<1>3. CASE Stack!Fresh(ttl) /\ ~fresh
  <2>1. Stack!Answer(cache, changes) /\ UNCHANGED reader
    BY <1>3 DEF Stack!Load
  <2>2. changes \in Nat /\ changes <= changes /\ (ttl = CacheTtl \/ (mode # "local" /\ ttl = StatusTtl))
    BY <1>1 DEF StackTypes
  <2>3. \A a \in told' : Seen(a)
    BY <1>3, <2>1, <2>2, FreshIsSeen
  <2>4. StackTypes' /\ ReadersInv'
    BY <1>1, <2>1 DEF StackInv, StackTypes, ReadersInv, ReaderHolds
  <2>5. QED
    BY <1>1, <1>2, <2>3, <2>4, SeenStays DEF StackInv
<1>4. CASE ~(Stack!Fresh(ttl) /\ ~fresh)
  <2>1. PICK x : /\ x = [at |-> IF mode = "cluster" THEN "lock" ELSE "ask", since |-> changes, t |-> now,
                         ps |-> Nothing, epoch |-> 0, raced |-> FALSE]
                 /\ reader' = [reader EXCEPT ![r] = x] /\ told' = {}
    BY <1>4 DEF Stack!Load, Stack!Go, Stack!Silent
  <2>2. x \in Asking
    BY <1>1, <2>1 DEF Asking, StackTypes
  <2>3. ReaderHolds(x)
    BY <1>1, <2>1 DEF ReaderHolds, StackTypes
  <2>4. StackTypes' /\ ReadersInv'
    BY <1>1, <2>1, <2>2, <2>3, ReaderMoves
  <2>5. QED
    BY <1>1, <1>2, <2>1, <2>4 DEF StackInv
<1>5. QED
  BY <1>3, <1>4

\* Everything a reader on its way was given has its type.
LEMMA ReaderTypes ==
    ASSUME StackInv, NEW r \in Readers, reader[r].at # "idle"
    PROVE  reader[r] \in Asking /\ ReaderHolds(reader[r]) /\ changes \in Nat
BY DEF StackInv, StackTypes, ReadersInv, Stack!Idle

LEMMA TakeLockHolds ==
    ASSUME StackInv, NEW r \in Readers, Stack!TakeLock(r)
    PROVE  StackInv'
<1>1. UNCHANGED <<mode, now, docker, cache, changes>> /\ StackTypes /\ KeptInv /\ reader[r].at = "lock"
  BY DEF Stack!TakeLock, StackInv
<1>2. KeptInv' /\ reader[r] \in Asking /\ ReaderHolds(reader[r])
  BY <1>1, CacheStays, ReaderTypes
<1>3. ReaderHolds(Stack!Idle)
  BY DEF ReaderHolds, Stack!Idle
<1>4. CASE Stack!Fresh(StatusTtl)
  <2>1. Stack!Answer(cache, reader[r].since) /\ reader' = [reader EXCEPT ![r] = Stack!Idle]
    BY <1>4 DEF Stack!TakeLock, Stack!Go
  <2>2. reader[r].since \in Nat /\ reader[r].since <= changes /\ mode # "local"
    BY <1>1, <1>2 DEF Asking, ReaderHolds
  <2>3. \A a \in told' : Seen(a)
    BY <1>4, <2>1, <2>2, FreshIsSeen
  <2>4. StackTypes' /\ ReadersInv'
    BY <1>1, <1>3, <2>1, ReaderMoves
  <2>5. QED
    BY <1>1, <1>2, <2>3, <2>4, SeenStays DEF StackInv
<1>5. CASE ~Stack!Fresh(StatusTtl)
  <2>1. PICK x : /\ reader' = [reader EXCEPT ![r] = x] /\ told' = {}
                 /\ x = Stack!Idle \/ x = [reader[r] EXCEPT !.at = "ask"]
    BY <1>5 DEF Stack!TakeLock, Stack!Go, Stack!Silent
  <2>2. x \in Asking \cup {Stack!Idle} /\ ReaderHolds(x)
    <3>1. CASE x = [reader[r] EXCEPT !.at = "ask"]
      <4>1. x \in Asking /\ x.at = "ask" /\ x.since = reader[r].since
        BY <1>2, <3>1 DEF Asking
      <4>2. QED
        BY <1>1, <1>2, <4>1 DEF ReaderHolds
    <3>2. QED
      BY <1>3, <2>1, <3>1
  <2>3. StackTypes' /\ ReadersInv'
    BY <1>1, <2>1, <2>2, ReaderMoves
  <2>4. QED
    BY <1>2, <2>1, <2>3 DEF StackInv
<1>6. QED
  BY <1>4, <1>5

LEMMA AskHolds ==
    ASSUME StackInv, NEW r \in Readers, Stack!Ask(r) \/ Stack!AskFails(r)
    PROVE  StackInv'
<1>1. /\ UNCHANGED <<mode, now, docker, cache, changes>> /\ StackTypes /\ KeptInv /\ told' = {}
      /\ reader[r].at = "ask"
  BY DEF Stack!Ask, Stack!AskFails, StackInv, Stack!Silent
<1>2. KeptInv' /\ reader[r] \in Asking /\ ReaderHolds(reader[r]) /\ changes \in Nat
  BY <1>1, CacheStays, ReaderTypes
<1>3. CASE Stack!Ask(r)
  <2>1. PICK to, ps : /\ to = IF mode = "local" THEN "inspect" ELSE "store"
                      /\ ps = IF mode = "local" THEN docker ELSE Nothing
    OBVIOUS
  <2>2. PICK x : /\ x = [reader[r] EXCEPT !.at = to, !.ps = ps, !.epoch = changes]
                 /\ reader' = [reader EXCEPT ![r] = x]
    BY <1>3, <2>1 DEF Stack!Ask, Stack!Go
  <2>3. to \in {"inspect", "store"} /\ ps \in [Services -> Stack!States] \cup {Nothing}
    BY <1>1, <2>1 DEF StackTypes
  <2>4. x \in Asking /\ x.at = to /\ x.ps = ps /\ x.epoch = changes /\ x.since = reader[r].since
    BY <1>2, <2>2, <2>3 DEF Asking
  <2>5. ReaderHolds(x)
    BY <1>1, <1>2, <2>1, <2>3, <2>4 DEF ReaderHolds, StackTypes, Asking
  <2>6. StackTypes' /\ ReadersInv'
    BY <1>1, <2>2, <2>4, <2>5, ReaderMoves
  <2>7. QED
    BY <1>1, <1>2, <2>6 DEF StackInv
<1>4. CASE Stack!AskFails(r)
  <2>1. reader' = [reader EXCEPT ![r] = Stack!Idle]
    BY <1>4 DEF Stack!AskFails, Stack!Go
  <2>2. ReaderHolds(Stack!Idle)
    BY DEF ReaderHolds, Stack!Idle
  <2>3. StackTypes' /\ ReadersInv'
    BY <1>1, <2>1, <2>2, ReaderMoves
  <2>4. QED
    BY <1>1, <1>2, <2>3 DEF StackInv
<1>5. QED
  BY <1>3, <1>4

LEMMA InspectHolds ==
    ASSUME StackInv, NEW r \in Readers, Stack!Inspect(r)
    PROVE  StackInv'
<1>1. /\ UNCHANGED <<mode, now, docker, changes>> /\ reader[r].at = "inspect"
  BY DEF Stack!Inspect
<1>2. PICK known, e :
        /\ e = Stack!Entry(r, reader[r].t,
                           Stack!ApplyRestartPolicies(Stack!MergeExpected(reader[r].ps), known), known)
        /\ Stack!Store(r, e)
  BY DEF Stack!Inspect
<1>3. /\ e.at = reader[r].t /\ e.epoch = reader[r].epoch /\ e.raced = reader[r].raced
      /\ e.ps = reader[r].ps /\ e.known = known
      /\ e.health = Stack!ApplyRestartPolicies(Stack!MergeExpected(reader[r].ps), known)
  BY <1>2 DEF Stack!Entry
<1>4. reader[r] \in Asking /\ ReaderHolds(reader[r])
  BY <1>1, ReaderTypes
<1>5. KeptHolds(e)
  BY <1>1, <1>3, <1>4 DEF KeptHolds, ReaderHolds, Asking
<1>6. QED
  BY <1>1, <1>2, <1>3, <1>5, StoredIsSeen

LEMMA KeepHolds ==
    ASSUME StackInv, NEW r \in Readers, Stack!Keep(r)
    PROVE  StackInv'
<1>1. UNCHANGED <<mode, now, docker, changes>> /\ reader[r].at = "store"
  BY DEF Stack!Keep
<1>2. PICK e : e = Stack!Entry(r, now, Nothing, {}) /\ Stack!Store(r, e)
  BY DEF Stack!Keep
<1>3. e.at = now /\ e.epoch = reader[r].epoch /\ e.raced = reader[r].raced
  BY <1>2 DEF Stack!Entry
<1>4. reader[r] \in Asking /\ ReaderHolds(reader[r]) /\ now \in Nat
  BY <1>1, ReaderTypes DEF StackInv, StackTypes
<1>5. KeptHolds(e)
  BY <1>1, <1>3, <1>4 DEF KeptHolds, ReaderHolds, Asking
<1>6. QED
  BY <1>1, <1>2, <1>3, <1>5, StoredIsSeen

\* A change is made known: what is kept goes, and readings on their way are marked.
LEMMA InvalidateHolds ==
    ASSUME StackInv, Stack!Invalidate
    PROVE  StackInv'
<1>1. /\ UNCHANGED <<mode, now, docker>> /\ cache' = Nothing /\ changes' = changes + 1 /\ told' = {}
      /\ reader' = Stack!Overtaken
  BY DEF Stack!Invalidate, Stack!Silent
<1>2. StackTypes /\ ReadersInv /\ changes \in Nat
  BY DEF StackInv, StackTypes
<1>3. ASSUME NEW r \in Readers
      PROVE  reader'[r] \in Asking \cup {Stack!Idle} /\ ReaderHolds(reader[r])'
  <2>1. CASE reader[r].at \in {"inspect", "store"}
    <3>1. reader'[r] = [reader[r] EXCEPT !.raced = TRUE]
      BY <1>1, <2>1 DEF Stack!Overtaken
    <3>2. reader[r] \in Asking /\ ReaderHolds(reader[r])
      BY <2>1, ReaderTypes
    <3>3. /\ reader'[r] \in Asking /\ reader'[r].raced
          /\ reader'[r].at = reader[r].at /\ reader'[r].since = reader[r].since
          /\ reader'[r].ps = reader[r].ps /\ reader'[r].epoch = reader[r].epoch
      BY <3>1, <3>2 DEF Asking
    <3>4. QED
      BY <1>1, <1>2, <3>2, <3>3 DEF ReaderHolds, Asking
  <2>2. CASE reader[r].at \notin {"inspect", "store"}
    <3>1. reader'[r] = reader[r]
      BY <1>1, <2>2 DEF Stack!Overtaken
    <3>2. reader[r] \in Asking \cup {Stack!Idle} /\ ReaderHolds(reader[r])
      BY <1>2 DEF StackTypes, ReadersInv
    <3>3. reader[r].at # "idle" => reader[r].since <= changes'
      BY <1>1, <1>2, <3>2 DEF ReaderHolds, Asking, Stack!Idle
    <3>4. QED
      BY <1>1, <2>2, <3>1, <3>2, <3>3 DEF ReaderHolds
  <2>3. QED
    BY <2>1, <2>2
<1>4. reader' \in [Readers -> Asking \cup {Stack!Idle}]
  <2>1. reader' = [r \in Readers |-> reader'[r]]
    BY <1>1 DEF Stack!Overtaken
  <2>2. QED
    BY <1>3, <2>1
<1>5. StackTypes'
  BY <1>1, <1>2, <1>4 DEF StackTypes
<1>6. ReadersInv'
  BY <1>3 DEF ReadersInv
<1>7. QED
  BY <1>1, <1>5, <1>6 DEF StackInv, KeptInv

\* Steps of Docker, of papaia-ctl and of time: no reader moves and nothing is told.
LEMMA OutsideHolds ==
    ASSUME StackInv, Stack!Work \/ (\E s \in Services, x \in Stack!States : Stack!Docker(s, x)) \/ Stack!Tick
    PROVE  StackInv'
<1>1. UNCHANGED <<mode, cache, reader, changes>> /\ told' = {}
  BY DEF Stack!Work, Stack!Docker, Stack!Tick, Stack!Silent
<1>2. now' \in Nat /\ docker' \in [Services -> Stack!States]
  BY DEF Stack!Work, Stack!Docker, Stack!Tick, StackInv, StackTypes
<1>3. StackTypes' /\ ReadersInv'
  BY <1>1, <1>2 DEF StackInv, StackTypes, ReadersInv, ReaderHolds
<1>4. KeptInv'
  BY <1>1, CacheStays DEF StackInv
<1>5. QED
  BY <1>1, <1>3, <1>4 DEF StackInv

LEMMA StackNext ==
    ASSUME StackInv, Stack!Next
    PROVE  StackInv'
BY StackLoadHolds, TakeLockHolds, AskHolds, InspectHolds, KeepHolds, InvalidateHolds, OutsideHolds
   DEF Stack!Next, Stack!RunVerb, Stack!NodeRequest

LEMMA StackInit == Stack!Init => StackInv
<1> SUFFICES ASSUME Stack!Init PROVE StackInv
  OBVIOUS
<1>1. StackTypes
  BY DEF Stack!Init, StackTypes, Stack!Settled, Stack!States
<1>2. ReadersInv /\ KeptInv /\ told = {}
  BY DEF Stack!Init, ReadersInv, ReaderHolds, Stack!Idle, KeptInv
<1>3. QED
  BY <1>1, <1>2 DEF StackInv

LEMMA StackShows == StackInv => Stack!ShownIsSo
<1> SUFFICES ASSUME StackInv PROVE Stack!ShownIsSo
  OBVIOUS
<1>1. Stack!ChangeIsSeen
  BY DEF StackInv, Seen, Stack!ChangeIsSeen
<1>2. Stack!HealthyMeansServing
  <2> SUFFICES ASSUME cache # Nothing, mode = "local" PROVE Stack!HealthyMeansServing
    BY DEF Stack!HealthyMeansServing
  <2>1. /\ cache.ps \in [Services -> Stack!States]
        /\ cache.health = Stack!ApplyRestartPolicies(Stack!MergeExpected(cache.ps), cache.known)
    BY DEF StackInv, KeptInv, KeptHolds
  <2>2. QED
    BY <2>1, HealthyServes DEF Stack!HealthyMeansServing
<1>3. QED
  BY <1>1, <1>2 DEF Stack!ShownIsSo

\* A change the manager made is seen by whoever asks after it, and a module that reads as healthy
\* serves.
THEOREM ShownIsSoAlways == PagesSpec => []ShownIsSo
<1> DEFINE I == side = "stack" => StackInv
<1>1. PagesInit => I
  BY StackInit DEF PagesInit
<1>2. I /\ [PagesNext]_pageVars => I'
  <2> SUFFICES ASSUME I, [PagesNext]_pageVars, side' = "stack"
               PROVE  StackInv'
    OBVIOUS
  <2>1. CASE UNCHANGED pageVars
    <3>1. UNCHANGED <<side, mode, docker, failedAt, lock, reader, verb, changes, moves, now, cache, told>>
      BY <2>1 DEF pageVars, shared, stack
    <3>2. QED
      BY <3>1 DEF StackInv, StackTypes, ReadersInv, ReaderHolds, KeptInv, KeptHolds, Seen
  <2>2. CASE side = "stack" /\ Stack!Next /\ UNCHANGED <<side, vars, doctor, ctl, files>>
    BY <2>2, StackNext
  <2>3. CASE side # "stack" /\ PagesNext
    BY <2>3 DEF PagesNext
  <2>4. QED
    BY <2>1, <2>2, <2>3 DEF PagesNext
<1>3. I => ShownIsSo
  BY StackShows DEF ShownIsSo
<1>4. QED
  BY <1>1, <1>2, <1>3, PTL DEF PagesSpec

-----------------------------------------------------------------------------
(* The output of papaia-ctl, cut into lines.                               *)

CtlLines == [text : Seq(Ctl!Byte), clipped : BOOLEAN]
Cuts == [done : Seq(CtlLines), open : Seq(Ctl!Byte)]
NothingYet == [done |-> <<>>, open |-> <<>>]
IsCut(text, n, c) == c = [i \in 0..n |-> IF i = 0 THEN NothingYet ELSE Ctl!Fed(c[i - 1], text[i])]

\* The recursion of Cut defines a function.
LEMMA CutIs ==
    ASSUME NEW text \in Seq(Ctl!Byte)
    PROVE  IsCut(text, Len(text), Ctl!Cut(text))
<1> DEFINE holds == {n \in Nat : \E c : IsCut(text, n, c)}
<1>1. 0 \in holds
  <2>1. IsCut(text, 0, [i \in 0..0 |-> NothingYet])
    BY DEF IsCut
  <2>2. QED
    BY <2>1
<1>2. ASSUME NEW n \in Nat, n \in holds PROVE n + 1 \in holds
  <2>1. PICK c : IsCut(text, n, c)
    BY <1>2
  <2>2. PICK d : d = [i \in 0..(n + 1) |-> IF i = n + 1 THEN Ctl!Fed(c[n], text[n + 1]) ELSE c[i]]
    OBVIOUS
  <2>3. ASSUME NEW i \in 0..(n + 1)
        PROVE  d[i] = IF i = 0 THEN NothingYet ELSE Ctl!Fed(d[i - 1], text[i])
    <3>1. CASE i = n + 1
      <4>1. i # 0 /\ d[i] = Ctl!Fed(c[n], text[n + 1]) /\ i - 1 = n /\ n \in 0..(n + 1) /\ n # n + 1
        BY <2>2, <3>1
      <4>2. d[i - 1] = c[n]
        BY <2>2, <4>1
      <4>3. QED
        BY <3>1, <4>1, <4>2
    <3>2. CASE i # n + 1
      <4>1. i \in 0..n /\ d[i] = c[i]
        BY <2>2, <3>2
      <4>2. c[i] = IF i = 0 THEN NothingYet ELSE Ctl!Fed(c[i - 1], text[i])
        BY <2>1, <4>1 DEF IsCut
      <4>3. CASE i = 0
        BY <4>1, <4>2, <4>3
      <4>4. CASE i # 0
        <5>1. i - 1 \in 0..(n + 1) /\ i - 1 # n + 1
          BY <4>1, <4>4
        <5>2. d[i - 1] = c[i - 1]
          BY <2>2, <5>1
        <5>3. QED
          BY <4>1, <4>2, <4>4, <5>2
      <4>5. QED
        BY <4>3, <4>4
    <3>3. QED
      BY <3>1, <3>2
  <2>4. d = [i \in 0..(n + 1) |-> d[i]]
    BY <2>2
  <2>5. IsCut(text, n + 1, d)
    BY <2>3, <2>4 DEF IsCut
  <2>6. QED
    BY <2>5
<1>3. Len(text) \in holds
  <2>1. holds \in SUBSET Nat /\ Len(text) \in Nat /\ 0 \in Nat
    OBVIOUS
  <2>2. \A n \in Nat : 0 <= n /\ n < Len(text) /\ n \in holds => n + 1 \in holds
    BY <1>2
  <2> HIDE DEF holds
  <2>3. \A n \in Nat : 0 <= n /\ n <= Len(text) => n \in holds
    BY <1>1, <2>1, <2>2, UpTo
  <2>4. QED
    BY <2>1, <2>3
<1>4. PICK c : IsCut(text, Len(text), c)
  BY <1>3
<1>5. Ctl!Cut(text) = CHOOSE d : IsCut(text, Len(text), d)
  BY DEF Ctl!Cut, IsCut, NothingYet
<1>6. QED
  BY <1>4, <1>5

LEMMA ClipIs ==
    ASSUME NEW bytes \in Seq(Ctl!Byte), Len(bytes) > MaxLine
    PROVE  /\ Ctl!ClipLine(bytes) \in CtlLines
           /\ Len(Ctl!ClipLine(bytes).text) = MaxLine /\ Ctl!ClipLine(bytes).clipped = TRUE
           /\ \A i \in 1..MaxLine : Ctl!ClipLine(bytes).text[i] = bytes[i]
<1>1. MaxLine \in Nat
  BY StreamAssumption
<1>2. PICK cl : cl = SubSeq(bytes, 1, MaxLine)
  OBVIOUS
<1>3. cl \in Seq(Ctl!Byte) /\ Len(cl) = MaxLine /\ \A i \in 1..MaxLine : cl[i] = bytes[i]
  BY <1>1, <1>2, SubSeqProperties
<1>4. Ctl!ClipLine(bytes) = [text |-> cl, clipped |-> TRUE]
  BY <1>2 DEF Ctl!ClipLine
<1>5. QED
  BY <1>3, <1>4 DEF CtlLines

\* What a line is clipped to does not depend on how much follows.
LEMMA ClipStays ==
    ASSUME NEW bytes \in Seq(Ctl!Byte), Len(bytes) > MaxLine,
           NEW more \in Seq(Ctl!Byte), Len(more) > MaxLine,
           \A i \in 1..MaxLine : more[i] = bytes[i]
    PROVE  Ctl!ClipLine(more) = Ctl!ClipLine(bytes)
<1>1. PICK a \in CtlLines : a = Ctl!ClipLine(bytes)
  BY ClipIs
<1>2. PICK b \in CtlLines : b = Ctl!ClipLine(more)
  BY ClipIs
<1>3. /\ Len(a.text) = MaxLine /\ Len(b.text) = MaxLine /\ a.clipped = b.clipped
      /\ \A i \in 1..MaxLine : a.text[i] = b.text[i]
  <2>1. Len(a.text) = MaxLine /\ a.clipped = TRUE /\ \A i \in 1..MaxLine : a.text[i] = bytes[i]
    BY <1>1, ClipIs
  <2>2. Len(b.text) = MaxLine /\ b.clipped = TRUE /\ \A i \in 1..MaxLine : b.text[i] = more[i]
    BY <1>2, ClipIs
  <2>3. QED
    BY <2>1, <2>2
<1>4. a.text \in Seq(Ctl!Byte) /\ b.text \in Seq(Ctl!Byte)
  BY DEF CtlLines
<1>5. a.text = b.text
  <2>1. PICK s \in Seq(Ctl!Byte), u \in Seq(Ctl!Byte) : s = a.text /\ u = b.text
    BY <1>4
  <2>2. Len(s) = Len(u) /\ \A i \in 1..Len(s) : s[i] = u[i]
    BY <1>3, <2>1
  <2>3. QED
    BY <2>1, <2>2, SameSequence
<1>6. a = [text |-> a.text, clipped |-> a.clipped] /\ b = [text |-> b.text, clipped |-> b.clipped]
  BY DEF CtlLines
<1>7. QED
  BY <1>1, <1>2, <1>3, <1>5, <1>6

LEMMA ShownIs ==
    ASSUME NEW bytes \in Seq(Ctl!Byte)
    PROVE  Ctl!Line(bytes) \in CtlLines /\ Ctl!Shown(bytes) \in CtlLines
<1>1. Ctl!Line(bytes) \in CtlLines
  BY DEF Ctl!Line, CtlLines
<1>2. Ctl!Shown(bytes) \in CtlLines
  BY <1>1, ClipIs DEF Ctl!Shown
<1>3. QED
  BY <1>1, <1>2

\* What feeding one byte does.
LEMMA FedIs ==
    ASSUME NEW acc \in Cuts, NEW byte \in Ctl!Byte
    PROVE  /\ Ctl!Fed(acc, byte) \in Cuts
           /\ byte = Ctl!NL => /\ Ctl!Fed(acc, byte).done = Append(acc.done, Ctl!Shown(acc.open))
                               /\ Ctl!Fed(acc, byte).open = <<>>
           /\ byte # Ctl!NL => /\ Ctl!Fed(acc, byte).done = acc.done
                               /\ Ctl!Fed(acc, byte).open = Append(acc.open, byte)
<1>1. acc = [done |-> acc.done, open |-> acc.open] /\ acc.done \in Seq(CtlLines) /\ acc.open \in Seq(Ctl!Byte)
  BY DEF Cuts
<1>2. CASE byte = Ctl!NL
  <2>1. Ctl!Fed(acc, byte) = [done |-> Append(acc.done, Ctl!Shown(acc.open)), open |-> <<>>]
    BY <1>2 DEF Ctl!Fed
  <2>2. Append(acc.done, Ctl!Shown(acc.open)) \in Seq(CtlLines)
    BY <1>1, ShownIs, AppendProperties
  <2>3. <<>> \in Seq(Ctl!Byte)
    OBVIOUS
  <2>4. QED
    BY <1>2, <2>1, <2>2, <2>3 DEF Cuts
<1>3. CASE byte # Ctl!NL
  <2>1. Ctl!Fed(acc, byte) = [done |-> acc.done, open |-> Append(acc.open, byte)]
    BY <1>1, <1>3 DEF Ctl!Fed
  <2>2. Append(acc.open, byte) \in Seq(Ctl!Byte)
    BY <1>1, AppendProperties
  <2>3. QED
    BY <1>1, <1>3, <2>1, <2>2 DEF Cuts
<1>4. QED
  BY <1>2, <1>3

LEMMA CutSteps ==
    ASSUME NEW text \in Seq(Ctl!Byte)
    PROVE  /\ Ctl!Cut(text)[0] = NothingYet
           /\ \A n \in 0..Len(text) : Ctl!Cut(text)[n] \in Cuts
           /\ \A n \in 1..Len(text) : Ctl!Cut(text)[n] = Ctl!Fed(Ctl!Cut(text)[n - 1], text[n])
<1>1. PICK m \in Nat : m = Len(text)
  OBVIOUS
<1>2. PICK c : c = Ctl!Cut(text)
  OBVIOUS
<1>3. c = [i \in 0..m |-> IF i = 0 THEN NothingYet ELSE Ctl!Fed(c[i - 1], text[i])]
  BY <1>1, <1>2, CutIs DEF IsCut
<1>4. c[0] = NothingYet /\ \A n \in 1..m : c[n] = Ctl!Fed(c[n - 1], text[n])
  BY <1>3
<1> DEFINE holds == {n \in Nat : n <= m => c[n] \in Cuts}
<1>5. 0 \in holds
  <2>1. <<>> \in Seq(CtlLines) /\ <<>> \in Seq(Ctl!Byte)
    OBVIOUS
  <2>2. NothingYet \in Cuts
    BY <2>1 DEF Cuts, NothingYet
  <2>3. QED
    BY <1>4, <2>2
<1>6. ASSUME NEW n \in Nat, n < m, n \in holds PROVE n + 1 \in holds
  <2>1. c[n] \in Cuts /\ n + 1 \in 1..m /\ (n + 1) - 1 = n
    BY <1>6
  <2>2. text[n + 1] \in Ctl!Byte
    BY <1>1, <2>1
  <2>3. c[n + 1] = Ctl!Fed(c[n], text[n + 1])
    BY <1>4, <2>1
  <2>4. c[n + 1] \in Cuts
    BY <2>1, <2>2, <2>3, FedIs
  <2>5. QED
    BY <2>4
<1>7. \A n \in Nat : n <= m => n \in holds
  <2>1. holds \in SUBSET Nat /\ 0 \in Nat
    OBVIOUS
  <2>2. \A n \in Nat : 0 <= n /\ n < m /\ n \in holds => n + 1 \in holds
    BY <1>6
  <2> HIDE DEF holds
  <2>3. \A n \in Nat : 0 <= n /\ n <= m => n \in holds
    BY <1>5, <2>1, <2>2, UpTo
  <2>4. QED
    BY <2>1, <2>3
<1>8. QED
  BY <1>1, <1>2, <1>4, <1>7

\* Between newlines the open line grows and no line is finished.
LEMMA OpenGrows ==
    ASSUME NEW text \in Seq(Ctl!Byte), NEW a \in 0..Len(text), NEW z \in a..Len(text),
           \A i \in (a + 1)..z : text[i] # Ctl!NL
    PROVE  /\ Ctl!Cut(text)[z].done = Ctl!Cut(text)[a].done
           /\ Len(Ctl!Cut(text)[z].open) = Len(Ctl!Cut(text)[a].open) + (z - a)
           /\ \A i \in 1..Len(Ctl!Cut(text)[a].open) : Ctl!Cut(text)[z].open[i] = Ctl!Cut(text)[a].open[i]
           /\ \A i \in 1..(z - a) :
                 Ctl!Cut(text)[z].open[Len(Ctl!Cut(text)[a].open) + i] = text[a + i]
<1>1. PICK c : c = Ctl!Cut(text)
  OBVIOUS
<1>2. PICK m \in Nat : m = Len(text)
  OBVIOUS
<1>3. /\ \A n \in 0..m : c[n] \in Cuts
      /\ \A n \in 1..m : c[n] = Ctl!Fed(c[n - 1], text[n])
  BY <1>1, <1>2, CutSteps
<1>4. PICK k \in Nat : k = Len(c[a].open)
  BY <1>2, <1>3 DEF Cuts
<1> DEFINE GrownTo(n) == /\ c[n].done = c[a].done
                         /\ Len(c[n].open) = k + (n - a)
                         /\ \A i \in 1..k : c[n].open[i] = c[a].open[i]
                         /\ \A i \in 1..(n - a) : c[n].open[k + i] = text[a + i]
           holds == {n \in Nat : GrownTo(n)}
<1>5. a \in holds
  BY <1>2, <1>4
<1>6. ASSUME NEW n \in Nat, a <= n, n < z, n \in holds PROVE n + 1 \in holds
  <2>1. n \in 0..m /\ n + 1 \in 1..m /\ (n + 1) - 1 = n /\ n + 1 \in (a + 1)..z
    BY <1>2, <1>6
  <2>2. text[n + 1] \in Ctl!Byte /\ text[n + 1] # Ctl!NL
    BY <1>2, <2>1
  <2>3. PICK o \in Seq(Ctl!Byte) : o = c[n].open
    BY <1>3, <2>1 DEF Cuts
  <2>4. c[n + 1].done = c[n].done /\ c[n + 1].open = Append(o, text[n + 1])
    <3>1. c[n] \in Cuts /\ c[n + 1] = Ctl!Fed(c[n], text[n + 1])
      BY <1>3, <2>1
    <3>2. QED
      BY <2>2, <2>3, <3>1, FedIs
  <2>5. /\ Len(c[n + 1].open) = Len(o) + 1
        /\ \A i \in 1..Len(o) : c[n + 1].open[i] = o[i]
        /\ c[n + 1].open[Len(o) + 1] = text[n + 1]
    BY <2>2, <2>4, AppendProperties
  <2>6. GrownTo(n) /\ Len(o) = k + (n - a)
    BY <1>6, <2>3
  <2>7. c[n + 1].done = c[a].done /\ Len(c[n + 1].open) = k + ((n + 1) - a)
    BY <2>4, <2>5, <2>6
  <2>8. ASSUME NEW i \in 1..k PROVE c[n + 1].open[i] = c[a].open[i]
    <3>1. k <= Len(o) /\ i \in 1..Len(o)
      BY <1>6, <2>1, <2>6
    <3>2. c[n + 1].open[i] = o[i]
      BY <2>5, <3>1
    <3>3. o[i] = c[a].open[i]
      BY <2>3, <2>6 DEF GrownTo
    <3>4. QED
      BY <3>2, <3>3
  <2>9. ASSUME NEW i \in 1..((n + 1) - a) PROVE c[n + 1].open[k + i] = text[a + i]
    <3>1. CASE i = (n + 1) - a
      <4>1. k + i = Len(o) + 1 /\ a + i = n + 1
        BY <2>1, <2>6, <3>1
      <4>2. QED
        BY <2>5, <4>1
    <3>2. CASE i # (n + 1) - a
      <4>1. i \in 1..(n - a) /\ k + i \in 1..Len(o)
        BY <1>6, <2>1, <2>6, <3>2
      <4>2. QED
        BY <2>3, <2>5, <2>6, <4>1
    <3>3. QED
      BY <3>1, <3>2
  <2>10. QED
    BY <2>7, <2>8, <2>9
<1>7. z \in holds
  <2>1. holds \in SUBSET Nat /\ z \in Nat /\ a \in Nat /\ a <= z
    BY <1>2
  <2>2. \A n \in Nat : a <= n /\ n < z /\ n \in holds => n + 1 \in holds
    BY <1>6
  <2> HIDE DEF holds
  <2>3. \A n \in Nat : a <= n /\ n <= z => n \in holds
    BY <1>5, <2>1, <2>2, UpTo
  <2>4. QED
    BY <2>1, <2>3
<1>8. QED
  BY <1>1, <1>4, <1>7

\* A line that is finished stays, and an open line that is too long already is shown as it is shown
\* when it is finished.
Settled(cut, later) ==
    \/ later.done = cut.done /\ Len(later.open) > MaxLine /\ Ctl!ClipLine(later.open) = Ctl!ClipLine(cut.open)
    \/ IsPrefix(Append(cut.done, Ctl!ClipLine(cut.open)), later.done)

LEMMA DoneStays ==
    ASSUME NEW text \in Seq(Ctl!Byte), NEW a \in 0..Len(text), NEW z \in a..Len(text)
    PROVE  /\ IsPrefix(Ctl!Cut(text)[a].done, Ctl!Cut(text)[z].done)
           /\ Len(Ctl!Cut(text)[a].open) > MaxLine => Settled(Ctl!Cut(text)[a], Ctl!Cut(text)[z])
<1>1. PICK c : c = Ctl!Cut(text)
  OBVIOUS
<1>2. PICK m \in Nat : m = Len(text)
  OBVIOUS
<1>3. /\ \A n \in 0..m : c[n] \in Cuts
      /\ \A n \in 1..m : c[n] = Ctl!Fed(c[n - 1], text[n])
  BY <1>1, <1>2, CutSteps
<1>4. MaxLine \in Nat /\ c[a] \in Cuts
  BY <1>2, <1>3, StreamAssumption
<1>5. PICK d \in Seq(CtlLines), o \in Seq(Ctl!Byte) : d = c[a].done /\ o = c[a].open
  BY <1>4 DEF Cuts
<1> DEFINE Kept1(n) == IsPrefix(d, c[n].done)
           Kept2(n) == Len(o) > MaxLine => Settled(c[a], c[n])
           holds == {n \in Nat : Kept1(n) /\ Kept2(n)}
<1>6. a \in holds
  <2>1. Kept1(a)
    BY <1>5, PrefixSelf
  <2>2. Kept2(a)
    BY <1>5 DEF Settled
  <2>3. QED
    BY <1>2, <2>1, <2>2
<1>7. ASSUME NEW n \in Nat, a <= n, n < z, n \in holds PROVE n + 1 \in holds
  <2>1. n \in 0..m /\ n + 1 \in 1..m /\ (n + 1) - 1 = n
    BY <1>2, <1>7
  <2>2. text[n + 1] \in Ctl!Byte /\ c[n] \in Cuts /\ c[n + 1] = Ctl!Fed(c[n], text[n + 1])
    BY <1>2, <1>3, <2>1
  <2>3. PICK e \in Seq(CtlLines), p \in Seq(Ctl!Byte) : e = c[n].done /\ p = c[n].open
    BY <2>2 DEF Cuts
  <2>4. CASE text[n + 1] = Ctl!NL
    <3>1. c[n + 1].done = Append(e, Ctl!Shown(p)) /\ Ctl!Shown(p) \in CtlLines
      <4>1. c[n + 1].done = Append(e, Ctl!Shown(p))
        <5>1. Ctl!Fed(c[n], text[n + 1]).done = Append(c[n].done, Ctl!Shown(c[n].open))
          BY <2>2, <2>4, FedIs
        <5>2. QED
          BY <2>2, <2>3, <5>1
      <4>2. QED
        BY <4>1, ShownIs
    <3>2. Kept1(n + 1)
      BY <1>7, <2>3, <3>1, PrefixOfLonger
    <3>3. ASSUME Len(o) > MaxLine PROVE Settled(c[a], c[n + 1])
      <4>1. CASE e = d /\ Len(p) > MaxLine /\ Ctl!ClipLine(p) = Ctl!ClipLine(o)
        <5>1. c[n + 1].done = Append(d, Ctl!ClipLine(o))
          BY <3>1, <4>1 DEF Ctl!Shown
        <5>2. Append(d, Ctl!ClipLine(o)) \in Seq(CtlLines)
          BY <3>3, ClipIs, AppendProperties
        <5>3. IsPrefix(Append(d, Ctl!ClipLine(o)), c[n + 1].done)
          BY <5>1, <5>2, PrefixSelf
        <5>4. QED
          BY <1>5, <5>3 DEF Settled
      <4>2. CASE IsPrefix(Append(d, Ctl!ClipLine(o)), e)
        <5>1. Append(d, Ctl!ClipLine(o)) \in Seq(CtlLines)
          BY <3>3, ClipIs, AppendProperties
        <5>2. IsPrefix(Append(d, Ctl!ClipLine(o)), c[n + 1].done)
          BY <3>1, <4>2, <5>1, PrefixOfLonger
        <5>3. QED
          BY <1>5, <5>2 DEF Settled
      <4>3. QED
        BY <1>5, <1>7, <2>3, <3>3, <4>1, <4>2 DEF Settled
    <3>4. QED
      BY <3>2, <3>3
  <2>5. CASE text[n + 1] # Ctl!NL
    <3>1. c[n + 1].done = e /\ c[n + 1].open = Append(p, text[n + 1])
      BY <2>2, <2>3, <2>5, FedIs
    <3>2. Kept1(n + 1)
      BY <1>7, <2>3, <3>1
    <3>3. ASSUME Len(o) > MaxLine PROVE Settled(c[a], c[n + 1])
      <4>1. CASE e = d /\ Len(p) > MaxLine /\ Ctl!ClipLine(p) = Ctl!ClipLine(o)
        <5>1. PICK q \in Seq(Ctl!Byte) : q = Append(p, text[n + 1])
          BY <2>2, AppendProperties
        <5>2. Len(q) = Len(p) + 1 /\ \A i \in 1..Len(p) : q[i] = p[i]
          BY <2>2, <5>1, AppendProperties
        <5>3. Len(q) > MaxLine /\ \A i \in 1..MaxLine : q[i] = p[i]
          BY <1>4, <4>1, <5>2
        <5>4. Ctl!ClipLine(q) = Ctl!ClipLine(p)
          BY <4>1, <5>3, ClipStays
        <5>5. QED
          BY <1>5, <3>1, <4>1, <5>1, <5>3, <5>4 DEF Settled
      <4>2. CASE IsPrefix(Append(d, Ctl!ClipLine(o)), e)
        BY <1>5, <3>1, <4>2 DEF Settled
      <4>3. QED
        BY <1>5, <1>7, <2>3, <3>3, <4>1, <4>2 DEF Settled
    <3>4. QED
      BY <3>2, <3>3
  <2>6. QED
    BY <2>4, <2>5
<1>8. z \in holds
  <2>1. holds \in SUBSET Nat /\ z \in Nat /\ a \in Nat /\ a <= z
    BY <1>2
  <2>2. \A n \in Nat : a <= n /\ n < z /\ n \in holds => n + 1 \in holds
    BY <1>7
  <2> HIDE DEF holds
  <2>3. \A n \in Nat : a <= n /\ n <= z => n \in holds
    BY <1>6, <2>1, <2>2, UpTo
  <2>4. QED
    BY <2>1, <2>3
<1>9. QED
  BY <1>1, <1>5, <1>8

-----------------------------------------------------------------------------
(* What was yielded so far is what the bytes that were used up make.       *)

CtlTypes ==
    /\ output \in Seq(Ctl!Byte) /\ read \in 0..Len(output)
    /\ pending \in Seq(Ctl!Byte) /\ Len(pending) <= read
    /\ from \in 0..Len(pending)
    /\ dropping \in BOOLEAN
    /\ at \in {"read", "scan", "end"}

\* The bytes that wait are the last of those that were read, and up to `from` there is no newline.
PendingInv ==
    /\ \A i \in 1..Len(pending) : pending[i] = output[read - Len(pending) + i]
    /\ \A i \in 1..from : pending[i] # Ctl!NL
    /\ at = "scan" => Len(pending) <= MaxLine + Chunk
    /\ at # "scan" => Len(pending) <= MaxLine /\ from = Len(pending)
    /\ at # "scan" /\ dropping => pending = <<>>

\* Outside of the tail of a long line no line is open; inside, it is too long and was yielded.
Yielded(cut, tail, out) ==
    IF tail THEN Len(cut.open) > MaxLine /\ out = Append(cut.done, Ctl!ClipLine(cut.open))
    ELSE cut.open = <<>> /\ out = cut.done

CtlInv ==
    /\ CtlTypes /\ PendingInv
    /\ at # "end" => Yielded(Ctl!Cut(output)[read - Len(pending)], dropping, lines)
    /\ at = "end" => lines = Ctl!LinesOf(output)

\* What FindNewline finds.
LEMMA FindNewlineFinds ==
    ASSUME CtlTypes, PendingInv
    PROVE  \/ /\ Ctl!FindNewline = -1
              /\ \A i \in 1..Len(pending) : pending[i] # Ctl!NL
           \/ /\ Ctl!FindNewline \in 0..(Len(pending) - 1)
              /\ pending[Ctl!FindNewline + 1] = Ctl!NL
              /\ \A i \in 1..Ctl!FindNewline : pending[i] # Ctl!NL
<1> DEFINE found == {i \in DOMAIN pending : i > from /\ pending[i] = Ctl!NL}
<1>1. PICK m \in Nat : m = Len(pending) /\ DOMAIN pending = 1..m
  BY DEF CtlTypes
<1>2. from \in Nat /\ \A i \in 1..from : pending[i] # Ctl!NL
  BY <1>1 DEF CtlTypes, PendingInv
<1>3. CASE found = {}
  <2>1. Ctl!FindNewline = -1
    BY <1>3 DEF Ctl!FindNewline
  <2>2. \A i \in 1..m : pending[i] # Ctl!NL
    BY <1>1, <1>2, <1>3
  <2>3. QED
    BY <1>1, <2>1, <2>2
<1>4. CASE found # {}
  <2>1. PICK i \in found : \A k \in found : i <= k
    <3>1. found \in SUBSET Nat
      BY <1>1
    <3> HIDE DEF found
    <3>2. QED
      BY <1>4, <3>1, SmallestNumber
  <2>2. found \subseteq Nat
    BY <1>1
  <2>3. Ctl!Min(found) \in found /\ \A k \in found : Ctl!Min(found) <= k
    <3> HIDE DEF found
    <3>1. QED
      BY <2>1 DEF Ctl!Min
  <2>4. Ctl!FindNewline = Ctl!Min(found) - 1
    BY <1>4 DEF Ctl!FindNewline
  <2>5. PICK k \in 1..m : k = Ctl!Min(found)
    BY <1>1, <2>3
  <2>6. pending[k] = Ctl!NL /\ Ctl!FindNewline = k - 1 /\ (k - 1) + 1 = k
    BY <2>3, <2>4, <2>5
  <2>7. ASSUME NEW j \in 1..(k - 1) PROVE pending[j] # Ctl!NL
    <3>1. j \in 1..m /\ ~(k <= j)
      BY <1>1, <2>5
    <3>2. j \notin found
      BY <2>3, <2>5, <3>1
    <3>3. QED
      BY <1>1, <1>2, <3>1, <3>2
  <2>8. QED
    BY <1>1, <2>5, <2>6, <2>7
<1>5. QED
  BY <1>3, <1>4

\* The open line has grown by the first k bytes of what was waiting, and nothing else has happened.
Grown(a, z, waiting, k) ==
    /\ z \in Cuts
    /\ z.done = a.done /\ Len(z.open) = Len(a.open) + k
    /\ \A i \in 1..Len(a.open) : z.open[i] = a.open[i]
    /\ a.open = <<>> => \A i \in 1..k : z.open[i] = waiting[i]

LEMMA WaitingGrows ==
    ASSUME CtlTypes, PendingInv, NEW k \in 0..Len(pending), \A i \in 1..k : pending[i] # Ctl!NL,
           NEW d, d = read - Len(pending), NEW a, a = Ctl!Cut(output)[d], NEW z, z = Ctl!Cut(output)[d + k]
    PROVE  Grown(a, z, pending, k)
<1>1. PICK m \in Nat, n \in Nat : m = Len(output) /\ n = Len(pending)
  BY DEF CtlTypes
<1>2. /\ output \in Seq(Ctl!Byte) /\ read \in 0..m /\ n <= read /\ k \in 0..n
      /\ \A i \in 1..n : pending[i] = output[d + i]
  BY <1>1 DEF CtlTypes, PendingInv
<1>3. d \in 0..m /\ d + k \in d..m /\ (d + k) - d = k
  <2>1. d = read - n
    BY <1>1
  <2>2. QED
    BY <1>2, <2>1
<1>4. ASSUME NEW i \in (d + 1)..(d + k) PROVE output[i] # Ctl!NL
  <2>1. i - d \in 1..k /\ i - d \in 1..n /\ d + (i - d) = i
    BY <1>2, <1>3
  <2>2. QED
    BY <1>2, <2>1
<1>5. /\ z.done = a.done /\ Len(z.open) = Len(a.open) + k
      /\ \A i \in 1..Len(a.open) : z.open[i] = a.open[i]
      /\ \A i \in 1..k : z.open[Len(a.open) + i] = output[d + i]
  <2>1. /\ Ctl!Cut(output)[d + k].done = Ctl!Cut(output)[d].done
        /\ Len(Ctl!Cut(output)[d + k].open) = Len(Ctl!Cut(output)[d].open) + ((d + k) - d)
        /\ \A i \in 1..Len(Ctl!Cut(output)[d].open) : Ctl!Cut(output)[d + k].open[i] = Ctl!Cut(output)[d].open[i]
        /\ \A i \in 1..((d + k) - d) :
              Ctl!Cut(output)[d + k].open[Len(Ctl!Cut(output)[d].open) + i] = output[d + i]
    <3>1. PICK e \in d..m : e = d + k
      BY <1>3
    <3>2. d \in 0..Len(output) /\ e \in d..Len(output)
      BY <1>1, <1>3
    <3>3. \A i \in (d + 1)..e : output[i] # Ctl!NL
      BY <1>4, <3>1
    <3>4. QED
      BY <1>2, <3>1, <3>2, <3>3, OpenGrows
  <2>2. QED
    BY <1>3, <2>1
<1>6. z \in Cuts
  <2>1. \A i \in 0..m : Ctl!Cut(output)[i] \in Cuts
    BY <1>1, <1>2, CutSteps
  <2>2. d + k \in 0..m
    BY <1>2, <1>3
  <2>3. QED
    BY <1>3, <2>1, <2>2
<1>7. ASSUME a.open = <<>>, NEW i \in 1..k PROVE z.open[i] = pending[i]
  <2>1. Len(a.open) = 0 /\ i \in Nat
    BY <1>7
  <2>2. z.open[0 + i] = output[d + i] /\ 0 + i = i
    BY <1>5, <1>7, <2>1
  <2>3. i \in 1..n
    BY <1>1, <1>2
  <2>4. QED
    BY <1>2, <2>2, <2>3
<1>8. QED
  BY <1>5, <1>6, <1>7 DEF Grown

\* The newline after them finishes it.
LEMMA NewlineEnds ==
    ASSUME CtlTypes, PendingInv, NEW k \in 0..(Len(pending) - 1), pending[k + 1] = Ctl!NL,
           NEW d, d = read - Len(pending), NEW z, z = Ctl!Cut(output)[d + k]
    PROVE  /\ Ctl!Cut(output)[d + k + 1].done = Append(z.done, Ctl!Shown(z.open))
           /\ Ctl!Cut(output)[d + k + 1].open = <<>>
<1>1. PICK m \in Nat, n \in Nat : m = Len(output) /\ n = Len(pending)
  BY DEF CtlTypes
<1>2. /\ output \in Seq(Ctl!Byte) /\ read \in 0..m /\ n <= read /\ k \in 0..(n - 1)
      /\ \A i \in 1..n : pending[i] = output[d + i]
  BY <1>1 DEF CtlTypes, PendingInv
<1>3. d \in Nat /\ d + k \in 0..m /\ d + k + 1 \in 1..m /\ (d + k + 1) - 1 = d + k /\ k + 1 \in 1..n /\ d + (k + 1) = d + k + 1
  BY <1>1, <1>2
<1>4. output[d + k + 1] = Ctl!NL /\ output[d + k + 1] \in Ctl!Byte
  BY <1>1, <1>2, <1>3
<1>5. z \in Cuts /\ Ctl!Cut(output)[d + k + 1] = Ctl!Fed(z, output[d + k + 1])
  BY <1>1, <1>2, <1>3, CutSteps
<1>6. PICK byte \in Ctl!Byte : byte = output[d + k + 1]
  BY <1>4
<1>7. PICK c : c = Ctl!Fed(z, byte)
  OBVIOUS
<1>8. c.done = Append(z.done, Ctl!Shown(z.open)) /\ c.open = <<>>
  BY <1>4, <1>5, <1>6, <1>7, FedIs
<1>9. QED
  BY <1>5, <1>6, <1>7, <1>8

\* What is left behind the newline.
LEMMA AfterIs ==
    ASSUME CtlTypes, PendingInv, NEW k \in 0..(Len(pending) - 1), NEW rest, rest = Ctl!After(k)
    PROVE  /\ rest \in Seq(Ctl!Byte) /\ Len(rest) = Len(pending) - k - 1
           /\ \A i \in 1..Len(rest) : rest[i] = pending[i + k + 1]
<1>1. PICK n \in Nat : n = Len(pending)
  BY DEF CtlTypes
<1>2. k \in 0..(n - 1) /\ \A i \in 1..n : pending[i] \in Ctl!Byte
  BY <1>1 DEF CtlTypes
<1>3. rest = SubSeq(pending, k + 2, n)
  BY <1>1 DEF Ctl!After
<1>4. k + 2 \in Int /\ n \in Int /\ \A i \in (k + 2)..n : pending[i] \in Ctl!Byte
  BY <1>1, <1>2
<1>5. /\ rest \in Seq(Ctl!Byte) /\ Len(rest) = (IF k + 2 <= n THEN n - (k + 2) + 1 ELSE 0)
      /\ \A i \in 1..(n - (k + 2) + 1) : rest[i] = pending[(k + 2) + i - 1]
  BY <1>3, <1>4, SubSeqProperties
<1>6. Len(rest) = n - k - 1
  BY <1>2, <1>5
<1>7. ASSUME NEW i \in 1..Len(rest) PROVE rest[i] = pending[i + k + 1]
  <2>1. i \in 1..(n - (k + 2) + 1) /\ (k + 2) + i - 1 = i + k + 1
    BY <1>2, <1>6
  <2>2. QED
    BY <1>5, <2>1
<1>8. QED
  BY <1>1, <1>5, <1>6, <1>7

LEMMA CtlReads ==
    ASSUME CtlInv, NEW n \in 1..Chunk, Ctl!Read(n)
    PROVE  CtlInv'
<1>1. PICK m \in Nat, p \in Nat : m = Len(output) /\ p = Len(pending)
  BY DEF CtlInv, CtlTypes
<1>2. /\ output \in Seq(Ctl!Byte) /\ read \in 0..m /\ p <= read /\ from = p /\ p <= MaxLine
      /\ pending \in Seq(Ctl!Byte) /\ at = "read" /\ read + n <= m /\ n \in 1..Chunk
      /\ MaxLine \in Nat /\ Chunk \in Nat
      /\ \A i \in 1..p : pending[i] = output[read - p + i] /\ pending[i] # Ctl!NL
  BY <1>1, StreamAssumption DEF CtlInv, CtlTypes, PendingInv, Ctl!Read
<1>3. PICK q : q = SubSeq(output, read + 1, read + n)
  OBVIOUS
<1>4. q \in Seq(Ctl!Byte) /\ Len(q) = n /\ \A i \in 1..n : q[i] = output[read + i]
  <2>1. read + 1 \in Int /\ read + n \in Int /\ \A i \in (read + 1)..(read + n) : output[i] \in Ctl!Byte
    BY <1>1, <1>2
  <2>2. /\ q \in Seq(Ctl!Byte) /\ Len(q) = (IF read + 1 <= read + n THEN (read + n) - (read + 1) + 1 ELSE 0)
        /\ \A i \in 1..((read + n) - (read + 1) + 1) : q[i] = output[(read + 1) + i - 1]
    BY <1>3, <2>1, SubSeqProperties
  <2>3. Len(q) = n
    BY <1>2, <2>2
  <2>4. ASSUME NEW i \in 1..n PROVE q[i] = output[read + i]
    <3>1. i \in 1..((read + n) - (read + 1) + 1) /\ (read + 1) + i - 1 = read + i
      BY <1>2
    <3>2. QED
      BY <2>2, <3>1
  <2>5. QED
    BY <2>2, <2>3, <2>4
<1>5. PICK r : r = pending \o q
  OBVIOUS
<1>6. r \in Seq(Ctl!Byte) /\ Len(r) = p + n /\ \A i \in 1..(p + n) : r[i] = IF i <= p THEN pending[i] ELSE q[i - p]
  <2>1. pending \in Seq(Ctl!Byte) /\ q \in Seq(Ctl!Byte)
    BY <1>2, <1>4
  <2>2. /\ r \in Seq(Ctl!Byte) /\ Len(r) = Len(pending) + Len(q)
        /\ \A i \in 1..(Len(pending) + Len(q)) : r[i] = IF i <= Len(pending) THEN pending[i] ELSE q[i - Len(pending)]
    BY <1>5, <2>1, ConcatProperties
  <2>3. QED
    BY <1>1, <1>4, <2>2
<1>7. /\ pending' = r /\ read' = read + n /\ at' = "scan"
      /\ output' = output /\ from' = from /\ dropping' = dropping /\ lines' = lines
  BY <1>3, <1>5 DEF Ctl!Read
<1>8. Len(pending') = p + n /\ read' - Len(pending') = read - p
  <2>1. Len(pending') = p + n /\ read' = read + n
    BY <1>6, <1>7
  <2>2. p \in Nat /\ n \in Nat /\ read \in Nat
    BY <1>1, <1>2
  <2>3. QED
    BY <2>1, <2>2
<1>9. CtlTypes'
  BY <1>1, <1>2, <1>6, <1>7 DEF CtlInv, CtlTypes
<1>10. PendingInv'
  <2>1. ASSUME NEW i \in 1..(p + n) PROVE r[i] = output[(read - p) + i]
    <3>1. CASE i <= p
      <4>1. i \in 1..p
        BY <3>1
      <4>2. r[i] = pending[i]
        BY <1>6, <3>1
      <4>3. QED
        BY <1>2, <4>1, <4>2
    <3>2. CASE ~(i <= p)
      <4>1. i - p \in 1..n /\ read + (i - p) = (read - p) + i /\ r[i] = q[i - p]
        <5>1. r[i] = q[i - p]
          BY <1>6, <3>2
        <5>2. i - p \in 1..n /\ read + (i - p) = (read - p) + i
          <6>1. i \in 1..(p + n) /\ read \in Nat
            BY <1>1, <1>2
          <6>2. QED
            BY <3>2, <6>1
        <5>3. QED
          BY <5>1, <5>2
      <4>2. QED
        BY <1>4, <4>1
    <3>3. QED
      BY <3>1, <3>2
  <2>2. ASSUME NEW i \in 1..from PROVE r[i] # Ctl!NL
    <3>1. i \in 1..p /\ i \in 1..(p + n) /\ i <= p
      BY <1>2
    <3>2. QED
      BY <1>2, <1>6, <3>1
  <2>3. p + n <= MaxLine + Chunk
    BY <1>2
  <2>4. QED
    BY <1>7, <1>8, <2>1, <2>2, <2>3 DEF PendingInv
<1>11. Yielded(Ctl!Cut(output')[read' - Len(pending')], dropping', lines')
  <2>1. Yielded(Ctl!Cut(output)[read - p], dropping, lines)
    BY <1>1, <1>2 DEF CtlInv
  <2>2. QED
    BY <1>7, <1>8, <2>1
<1>12. QED
  BY <1>7, <1>9, <1>10, <1>11 DEF CtlInv

LEMMA CtlScans ==
    ASSUME CtlInv, Ctl!Scan
    PROVE  CtlInv'
<1>1. PICK m \in Nat, p \in Nat, d \in Int : m = Len(output) /\ p = Len(pending) /\ d = read - p
  BY DEF CtlInv, CtlTypes
<1>2. PICK nl : nl = Ctl!FindNewline
  OBVIOUS
<1>3. /\ output \in Seq(Ctl!Byte) /\ read \in 0..m /\ p <= read /\ from \in 0..p
      /\ pending \in Seq(Ctl!Byte) /\ at = "scan" /\ dropping \in BOOLEAN
      /\ MaxLine \in Nat /\ Chunk \in Nat /\ p <= MaxLine + Chunk
      /\ \A i \in 1..p : pending[i] = output[d + i]
      /\ CtlTypes /\ PendingInv /\ d \in 0..m /\ d + p = read
  BY <1>1, StreamAssumption DEF CtlInv, CtlTypes, PendingInv, Ctl!Scan
<1>4. PICK a : a = Ctl!Cut(output)[d]
  OBVIOUS
<1>5. Yielded(a, dropping, lines) /\ a \in Cuts
  <2>1. Yielded(a, dropping, lines)
    BY <1>1, <1>3, <1>4 DEF CtlInv
  <2>2. \A i \in 0..m : Ctl!Cut(output)[i] \in Cuts
    BY <1>1, <1>3, CutSteps
  <2>3. QED
    BY <1>3, <1>4, <2>1, <2>2
<1>6. output' = output /\ read' = read
  BY DEF Ctl!Scan
<1>7. CASE nl = -1
  <2>1. \A i \in 1..p : pending[i] # Ctl!NL
    BY <1>1, <1>2, <1>3, <1>7, FindNewlineFinds
  <2>2. PICK z : z = Ctl!Cut(output)[d + p]
    OBVIOUS
  <2>3. /\ z \in Cuts /\ z.done = a.done /\ Len(z.open) = Len(a.open) + p
        /\ \A i \in 1..Len(a.open) : z.open[i] = a.open[i]
        /\ a.open = <<>> => \A i \in 1..p : z.open[i] = pending[i]
    <3>1. /\ CtlTypes /\ PendingInv /\ p \in 0..Len(pending) /\ \A i \in 1..p : pending[i] # Ctl!NL
          /\ d = read - Len(pending)
      BY <1>1, <1>3, <2>1
    <3>2. Grown(a, z, pending, p)
      BY <1>4, <2>2, <3>1, WaitingGrows
    <3>3. QED
      BY <3>2 DEF Grown
  <2>4. z = Ctl!Cut(output)[read] /\ Len(<<>>) = 0 /\ <<>> \in Seq(Ctl!Byte)
    BY <1>3, <2>2
  <2>5. PICK ao \in Seq(Ctl!Byte), zo \in Seq(Ctl!Byte) : ao = a.open /\ zo = z.open
    BY <1>5, <2>3 DEF Cuts
  <2>6. CASE dropping
    <3>1. pending' = <<>> /\ at' = "read" /\ dropping' = dropping /\ from' = 0 /\ lines' = lines
      BY <1>2, <1>7, <2>6 DEF Ctl!Scan, Ctl!ScanTail
    <3>2. Len(ao) > MaxLine /\ lines = Append(a.done, Ctl!ClipLine(ao))
      BY <1>5, <2>5, <2>6 DEF Yielded
    <3>3. Len(zo) > MaxLine /\ \A i \in 1..MaxLine : zo[i] = ao[i]
      BY <1>3, <2>3, <2>5, <3>2
    <3>4. Ctl!ClipLine(zo) = Ctl!ClipLine(ao)
      BY <3>2, <3>3, ClipStays
    <3>5. Yielded(z, TRUE, lines)
      BY <2>3, <2>5, <3>2, <3>3, <3>4 DEF Yielded
    <3>6. CtlTypes'
      BY <1>1, <1>3, <1>6, <2>4, <3>1 DEF CtlTypes
    <3>7. PendingInv'
      BY <1>3, <1>6, <2>4, <3>1 DEF PendingInv
    <3>8. Ctl!Cut(output')[read' - Len(pending')] = z
      BY <1>3, <1>6, <2>4, <3>1
    <3>9. QED
      BY <2>6, <3>1, <3>5, <3>6, <3>7, <3>8 DEF CtlInv
  <2>7. CASE ~dropping /\ p > MaxLine
    <3>1. /\ pending' = <<>> /\ at' = "read" /\ dropping' = TRUE /\ from' = 0
          /\ lines' = Append(lines, Ctl!ClipLine(pending))
      BY <1>1, <1>2, <1>7, <2>7 DEF Ctl!Scan
    <3>2. a.open = <<>> /\ lines = a.done
      BY <1>5, <2>7 DEF Yielded
    <3>3. Len(zo) = p /\ \A i \in 1..p : zo[i] = pending[i]
      BY <1>3, <2>3, <2>4, <2>5, <3>2
    <3>4. zo = pending
      BY <1>1, <1>3, <3>3, SameSequence
    <3>5. Yielded(z, TRUE, Append(lines, Ctl!ClipLine(pending)))
      BY <2>3, <2>5, <2>7, <3>2, <3>3, <3>4 DEF Yielded
    <3>6. CtlTypes'
      BY <1>1, <1>3, <1>6, <2>4, <3>1 DEF CtlTypes
    <3>7. PendingInv'
      BY <1>3, <1>6, <2>4, <3>1 DEF PendingInv
    <3>8. Ctl!Cut(output')[read' - Len(pending')] = z
      BY <1>3, <1>6, <2>4, <3>1
    <3>9. QED
      BY <3>1, <3>5, <3>6, <3>7, <3>8 DEF CtlInv
  <2>8. CASE ~dropping /\ ~(p > MaxLine)
    <3>1. /\ pending' = pending /\ at' = "read" /\ dropping' = dropping /\ from' = p
          /\ lines' = lines
      BY <1>1, <1>2, <1>7, <2>8 DEF Ctl!Scan
    <3>2. CtlTypes'
      BY <1>1, <1>3, <1>6, <3>1 DEF CtlTypes
    <3>3. PendingInv'
      BY <1>1, <1>3, <1>6, <2>1, <2>8, <3>1 DEF PendingInv
    <3>4. Yielded(Ctl!Cut(output')[read' - Len(pending')], dropping', lines')
      BY <1>1, <1>4, <1>5, <1>6, <3>1
    <3>5. QED
      BY <3>1, <3>2, <3>3, <3>4 DEF CtlInv
  <2>9. QED
    BY <1>3, <2>6, <2>7, <2>8
<1>8. CASE nl # -1
  <2>1. nl \in 0..(p - 1) /\ pending[nl + 1] = Ctl!NL /\ \A i \in 1..nl : pending[i] # Ctl!NL
    BY <1>1, <1>2, <1>3, <1>8, FindNewlineFinds
  <2>2. PICK z : z = Ctl!Cut(output)[d + nl]
    OBVIOUS
  <2>3. /\ z \in Cuts /\ z.done = a.done /\ Len(z.open) = Len(a.open) + nl
        /\ \A i \in 1..Len(a.open) : z.open[i] = a.open[i]
        /\ a.open = <<>> => \A i \in 1..nl : z.open[i] = pending[i]
    <3>1. /\ CtlTypes /\ PendingInv /\ nl \in 0..Len(pending) /\ \A i \in 1..nl : pending[i] # Ctl!NL
          /\ d = read - Len(pending)
      BY <1>1, <1>3, <2>1
    <3>2. Grown(a, z, pending, nl)
      BY <1>4, <2>2, <3>1, WaitingGrows
    <3>3. QED
      BY <3>2 DEF Grown
  <2>4. PICK b : b = Ctl!Cut(output)[d + nl + 1]
    OBVIOUS
  <2>5. b.done = Append(z.done, Ctl!Shown(z.open)) /\ b.open = <<>>
    <3>1. /\ CtlTypes /\ PendingInv /\ nl \in 0..(Len(pending) - 1) /\ pending[nl + 1] = Ctl!NL
          /\ d = read - Len(pending)
      BY <1>1, <1>3, <2>1
    <3>2. QED
      BY <2>2, <2>4, <3>1, NewlineEnds
  <2>6. PICK rest : rest = Ctl!After(nl)
    OBVIOUS
  <2>7. rest \in Seq(Ctl!Byte) /\ Len(rest) = p - nl - 1 /\ \A i \in 1..Len(rest) : rest[i] = pending[i + nl + 1]
    BY <1>1, <1>3, <2>1, <2>6, AfterIs
  <2>8. pending' = rest /\ from' = 0 /\ at' = "scan"
    BY <1>2, <1>3, <1>8, <2>6 DEF Ctl!Scan, Ctl!ScanTail
  <2>9. Len(pending') = p - nl - 1 /\ read' - Len(pending') = d + nl + 1
    <3>1. Len(pending') = p - nl - 1
      BY <2>7, <2>8
    <3>2. read - (p - nl - 1) = d + nl + 1
      BY <1>1, <1>3, <2>1
    <3>3. QED
      BY <1>6, <3>1, <3>2
  <2>10. PendingInv'
    <3>1. ASSUME NEW i \in 1..Len(rest) PROVE rest[i] = output[(d + nl + 1) + i]
      <4>1. i + nl + 1 \in 1..p /\ d + (i + nl + 1) = (d + nl + 1) + i
        BY <1>3, <2>1, <2>7
      <4>2. QED
        BY <1>3, <2>7, <4>1
    <3>2. Len(rest) <= MaxLine + Chunk
      BY <1>3, <2>1, <2>7
    <3>3. QED
      BY <1>6, <2>8, <2>9, <3>1, <3>2 DEF PendingInv
  <2>11. PICK ao \in Seq(Ctl!Byte), zo \in Seq(Ctl!Byte) : ao = a.open /\ zo = z.open
    BY <1>5, <2>3 DEF Cuts
  <2>12. dropping' = FALSE /\ lines' = b.done
    <3>1. CASE dropping
      <4>1. dropping' = FALSE /\ lines' = lines
        BY <1>2, <1>8, <3>1 DEF Ctl!Scan, Ctl!ScanTail
      <4>2. Len(ao) > MaxLine /\ lines = Append(a.done, Ctl!ClipLine(ao))
        BY <1>5, <2>11, <3>1 DEF Yielded
      <4>3. Len(zo) > MaxLine /\ \A i \in 1..MaxLine : zo[i] = ao[i]
        <5>1. Len(zo) = Len(ao) + nl /\ \A i \in 1..Len(ao) : zo[i] = ao[i]
          BY <2>3, <2>11
        <5>2. nl \in Nat /\ Len(ao) \in Nat /\ Len(ao) > MaxLine /\ MaxLine \in Nat
          BY <1>3, <2>1, <4>2
        <5>3. QED
          BY <5>1, <5>2
      <4>4. Ctl!ClipLine(zo) = Ctl!ClipLine(ao)
        BY <4>2, <4>3, ClipStays
      <4>5. Ctl!Shown(zo) = Ctl!ClipLine(ao)
        BY <4>3, <4>4 DEF Ctl!Shown
      <4>6. QED
        BY <2>3, <2>5, <2>11, <4>1, <4>2, <4>5
    <3>2. CASE ~dropping
      <4>1. PICK line : line = SubSeq(pending, 1, nl)
        OBVIOUS
      <4>2. /\ dropping' = dropping
            /\ lines' = Append(lines, IF Len(line) > MaxLine THEN Ctl!ClipLine(line) ELSE Ctl!Line(line))
        BY <1>2, <1>8, <3>2, <4>1 DEF Ctl!Scan
      <4>3. lines' = Append(lines, Ctl!Shown(line))
        BY <4>2 DEF Ctl!Shown
      <4>4. a.open = <<>> /\ lines = a.done
        BY <1>5, <3>2 DEF Yielded
      <4>5. line \in Seq(Ctl!Byte) /\ Len(line) = nl /\ \A i \in 1..nl : line[i] = pending[i]
        <5>1. 1 \in Int /\ nl \in Int /\ \A i \in 1..nl : pending[i] \in Ctl!Byte
          BY <1>1, <1>3, <2>1
        <5>2. /\ line \in Seq(Ctl!Byte) /\ Len(line) = (IF 1 <= nl THEN nl - 1 + 1 ELSE 0)
              /\ \A i \in 1..(nl - 1 + 1) : line[i] = pending[1 + i - 1]
          BY <4>1, <5>1, SubSeqProperties
        <5>3. Len(line) = nl /\ \A i \in 1..nl : i \in 1..(nl - 1 + 1) /\ 1 + i - 1 = i
          BY <2>1, <5>2
        <5>4. QED
          BY <5>2, <5>3
      <4>6. Len(zo) = nl /\ \A i \in 1..nl : zo[i] = line[i]
        <5>1. Len(a.open) = 0
          BY <4>4
        <5>2. QED
          BY <2>1, <2>3, <2>11, <4>4, <4>5, <5>1
      <4>7. zo = line
        BY <4>5, <4>6, SameSequence
      <4>8. QED
        BY <2>3, <2>5, <2>11, <3>2, <4>2, <4>3, <4>4, <4>7
    <3>3. QED
      BY <1>3, <3>1, <3>2
  <2>13. CtlTypes'
    <3>1. Len(rest) <= read /\ 0 \in 0..Len(rest)
      BY <1>1, <1>3, <2>1, <2>7
    <3>2. QED
      BY <1>1, <1>3, <1>6, <2>7, <2>8, <2>12, <3>1 DEF CtlTypes
  <2>14. Yielded(Ctl!Cut(output')[read' - Len(pending')], dropping', lines')
    <3>1. Ctl!Cut(output')[read' - Len(pending')] = b
      BY <1>6, <2>4, <2>9
    <3>2. Yielded(b, FALSE, b.done)
      BY <2>5 DEF Yielded
    <3>3. QED
      BY <2>12, <3>1, <3>2
  <2>15. QED
    BY <2>8, <2>10, <2>13, <2>14 DEF CtlInv
<1>9. QED
  BY <1>7, <1>8

\* The end of the output: what waits is the last line, unless it is the tail of a clipped one.
LEMMA CtlEnds ==
    ASSUME CtlInv, Ctl!End
    PROVE  CtlInv'
<1>1. PICK m \in Nat, p \in Nat, d \in Int : m = Len(output) /\ p = Len(pending) /\ d = read - p
  BY DEF CtlInv, CtlTypes
<1>2. /\ CtlTypes /\ PendingInv /\ read = m /\ at = "read" /\ p <= MaxLine /\ from = p
      /\ dropping \in BOOLEAN /\ MaxLine \in Nat /\ Chunk \in Nat
      /\ d \in 0..m /\ d + p = m /\ pending \in Seq(Ctl!Byte) /\ output \in Seq(Ctl!Byte)
      /\ \A i \in 1..p : pending[i] # Ctl!NL
  BY <1>1, StreamAssumption DEF CtlInv, CtlTypes, PendingInv, Ctl!End
<1>3. PICK a : a = Ctl!Cut(output)[d]
  OBVIOUS
<1>4. PICK z : z = Ctl!Cut(output)[d + p]
  OBVIOUS
<1>5. Grown(a, z, pending, p)
  <2>1. p \in 0..Len(pending) /\ d = read - Len(pending)
    BY <1>1, <1>2
  <2>2. QED
    BY <1>2, <1>3, <1>4, <2>1, WaitingGrows
<1>6. Yielded(a, dropping, lines)
  BY <1>1, <1>2, <1>3 DEF CtlInv
<1>7. z = Ctl!Cut(output)[Len(output)]
  BY <1>1, <1>2, <1>4
<1>8. /\ at' = "end" /\ output' = output /\ read' = read /\ pending' = pending
      /\ from' = from /\ dropping' = dropping
      /\ lines' = IF pending # <<>> /\ ~dropping THEN Append(lines, Ctl!Line(pending)) ELSE lines
  BY DEF Ctl!End
<1>9. PICK zo \in Seq(Ctl!Byte) : zo = z.open
  BY <1>5 DEF Grown, Cuts
<1>10. lines' = Ctl!LinesOf(output)
  <2>1. Ctl!LinesOf(output) = IF zo = <<>> THEN z.done ELSE Append(z.done, Ctl!Shown(zo))
    BY <1>7, <1>9 DEF Ctl!LinesOf
  <2>2. CASE dropping
    <3>1. pending = <<>> /\ p = 0
      BY <1>1, <1>2, <2>2 DEF PendingInv
    <3>2. z = a
      BY <1>2, <1>3, <1>4, <3>1
    <3>3. Len(zo) > MaxLine /\ lines = Append(z.done, Ctl!ClipLine(zo))
      BY <1>6, <1>9, <2>2, <3>2 DEF Yielded
    <3>4. zo # <<>> /\ Ctl!Shown(zo) = Ctl!ClipLine(zo)
      BY <1>2, <3>3 DEF Ctl!Shown
    <3>5. QED
      BY <1>8, <2>1, <2>2, <3>3, <3>4
  <2>3. CASE ~dropping
    <3>1. a.open = <<>> /\ lines = a.done
      BY <1>6, <2>3 DEF Yielded
    <3>2. z.done = lines /\ Len(zo) = p /\ \A i \in 1..p : zo[i] = pending[i]
      <4>1. Len(a.open) = 0
        BY <3>1
      <4>2. QED
        BY <1>5, <1>9, <3>1, <4>1 DEF Grown
    <3>3. zo = pending
      BY <1>1, <1>2, <3>2, SameSequence
    <3>4. Ctl!Shown(zo) = Ctl!Line(pending)
      BY <1>1, <1>2, <3>3 DEF Ctl!Shown
    <3>5. QED
      BY <1>8, <2>1, <2>3, <3>2, <3>3, <3>4
  <2>4. QED
    BY <1>2, <2>2, <2>3
<1>11. CtlTypes'
  BY <1>2, <1>8 DEF CtlTypes
<1>12. PendingInv'
  BY <1>2, <1>8 DEF PendingInv
<1>13. QED
  BY <1>8, <1>10, <1>11, <1>12 DEF CtlInv

LEMMA CtlBegins == Ctl!Init => CtlInv
<1> SUFFICES ASSUME Ctl!Init PROVE CtlInv
  OBVIOUS
<1>1. PICK n \in 0..MaxOutput : output \in [1..n -> Ctl!Byte]
  BY DEF Ctl!Init
<1>2. n \in Nat
  OBVIOUS
<1>3. output \in Seq(Ctl!Byte) /\ Len(output) \in Nat
  BY <1>1, <1>2
<1>4. /\ read = 0 /\ pending = <<>> /\ from = 0 /\ dropping = FALSE /\ lines = <<>> /\ at = "read"
      /\ Len(<<>>) = 0 /\ <<>> \in Seq(Ctl!Byte)
  BY DEF Ctl!Init
<1>5. CtlTypes
  <2>1. read \in 0..Len(output) /\ Len(pending) <= read /\ from \in 0..Len(pending)
    BY <1>3, <1>4
  <2>2. QED
    BY <1>3, <1>4, <2>1 DEF CtlTypes
<1>6. PendingInv
  BY <1>4, StreamAssumption DEF PendingInv
<1>7. read - Len(pending) = 0 /\ Ctl!Cut(output)[0] = NothingYet
  <2>1. Ctl!Cut(output)[0] = NothingYet
    BY <1>3, CutSteps
  <2>2. read = 0 /\ Len(pending) = 0
    BY <1>4
  <2>3. QED
    BY <2>1, <2>2
<1>8. Yielded(NothingYet, FALSE, <<>>)
  BY DEF Yielded, NothingYet
<1>9. QED
  BY <1>4, <1>5, <1>6, <1>7, <1>8 DEF CtlInv

\* What was yielded is the beginning of what the whole output makes.
LEMMA CtlShows == CtlInv => Ctl!LinesSurviveChunking
<1> SUFFICES ASSUME CtlInv PROVE Ctl!LinesSurviveChunking
  OBVIOUS
<1>1. PICK m \in Nat, p \in Nat, d \in Int : m = Len(output) /\ p = Len(pending) /\ d = read - p
  BY DEF CtlInv, CtlTypes
<1>2. /\ d \in 0..m /\ m \in d..m /\ output \in Seq(Ctl!Byte) /\ dropping \in BOOLEAN
      /\ MaxLine \in Nat /\ Chunk \in Nat
  BY <1>1, StreamAssumption DEF CtlInv, CtlTypes
<1>3. p <= MaxLine + Chunk
  BY <1>1, <1>2 DEF CtlInv, CtlTypes, PendingInv
<1>4. PICK a : a = Ctl!Cut(output)[d]
  OBVIOUS
<1>5. PICK z : z = Ctl!Cut(output)[m]
  OBVIOUS
<1>6. a \in Cuts /\ z \in Cuts
  <2>1. \A i \in 0..m : Ctl!Cut(output)[i] \in Cuts
    BY <1>1, <1>2, CutSteps
  <2>2. QED
    BY <1>2, <1>4, <1>5, <2>1
<1>7. PICK zd \in Seq(CtlLines), zo \in Seq(Ctl!Byte), ad \in Seq(CtlLines), ao \in Seq(Ctl!Byte) :
         zd = z.done /\ zo = z.open /\ ad = a.done /\ ao = a.open
  BY <1>6 DEF Cuts
<1>8. PICK all : all = Ctl!LinesOf(output)
  OBVIOUS
<1>9. all = IF zo = <<>> THEN zd ELSE Append(zd, Ctl!Shown(zo))
  BY <1>1, <1>5, <1>7, <1>8 DEF Ctl!LinesOf
<1>10. all \in Seq(CtlLines) /\ Ctl!Shown(zo) \in CtlLines
  <2>1. Ctl!Shown(zo) \in CtlLines
    BY ShownIs
  <2>2. Append(zd, Ctl!Shown(zo)) \in Seq(CtlLines)
    BY <2>1, AppendProperties
  <2>3. QED
    BY <1>9, <2>1, <2>2
<1>11. IsPrefix(lines, all)
  <2>1. CASE at = "end"
    <3>1. lines = all
      BY <1>8, <2>1 DEF CtlInv
    <3>2. QED
      BY <1>10, <3>1, PrefixSelf
  <2>2. CASE at # "end"
    <3>1. Yielded(a, dropping, lines)
      BY <1>1, <1>2, <1>4, <2>2 DEF CtlInv
    <3>2. IsPrefix(ad, zd) /\ (Len(ao) > MaxLine => Settled(a, z))
      BY <1>1, <1>2, <1>4, <1>5, <1>7, DoneStays
    <3>3. CASE dropping
      <4>1. PICK l : l = Append(ad, Ctl!ClipLine(ao))
        OBVIOUS
      <4>2. Len(ao) > MaxLine /\ lines = l
        BY <1>7, <3>1, <3>3, <4>1 DEF Yielded
      <4>3. l \in Seq(CtlLines)
        BY <4>1, <4>2, ClipIs, AppendProperties
      <4>4. CASE zd = ad /\ Len(zo) > MaxLine /\ Ctl!ClipLine(zo) = Ctl!ClipLine(ao)
        <5>1. zo # <<>> /\ Ctl!Shown(zo) = Ctl!ClipLine(ao)
          BY <1>2, <4>4 DEF Ctl!Shown
        <5>2. all = l
          BY <1>9, <4>1, <4>4, <5>1
        <5>3. QED
          BY <1>10, <4>2, <5>2, PrefixSelf
      <4>5. CASE IsPrefix(l, zd)
        BY <1>9, <1>10, <4>2, <4>3, <4>5, PrefixOfLonger
      <4>6. QED
        BY <1>7, <3>2, <4>1, <4>2, <4>4, <4>5 DEF Settled
    <3>4. CASE ~dropping
      <4>1. lines = ad
        BY <1>7, <3>1, <3>4 DEF Yielded
      <4>2. QED
        BY <1>9, <1>10, <3>2, <4>1, PrefixOfLonger
    <3>5. QED
      BY <1>2, <3>3, <3>4
  <2>3. QED
    BY <2>1, <2>2
<1>12. Ctl!IsPrefix(lines, Ctl!LinesOf(output))
  BY <1>8, <1>11 DEF IsPrefix, Ctl!IsPrefix
<1>13. QED
  BY <1>1, <1>3, <1>12 DEF CtlInv, Ctl!LinesSurviveChunking

\* A job's log has the lines of the output, each once and in order, wherever the reads cut it, over-long
\* ones clipped, and no more than a line and a chunk is held meanwhile.
THEOREM LinesSurviveChunkingAlways == PagesSpec => []LinesSurviveChunking
<1> DEFINE I == side = "ctl" => CtlInv
<1>1. PagesInit => I
  BY CtlBegins DEF PagesInit
<1>2. I /\ [PagesNext]_pageVars => I'
  <2> SUFFICES ASSUME I, [PagesNext]_pageVars, side' = "ctl"
               PROVE  CtlInv'
    OBVIOUS
  <2>1. CASE UNCHANGED pageVars
    <3>1. UNCHANGED <<side, output, read, pending, from, dropping, lines, at>>
      BY <2>1 DEF pageVars, ctl
    <3>2. CtlInv
      BY <3>1
    <3>3. CtlTypes' /\ PendingInv'
      BY <3>1, <3>2 DEF CtlInv, CtlTypes, PendingInv
    <3>4. QED
      BY <3>1, <3>2, <3>3 DEF CtlInv
  <2>2. CASE side = "ctl" /\ Ctl!Next /\ UNCHANGED <<side, shared, vars, doctor, stack, files>>
    <3>1. CtlInv
      BY <2>2
    <3>2. QED
      BY <2>2, <3>1, CtlReads, CtlScans, CtlEnds DEF Ctl!Next
  <2>3. CASE side # "ctl" /\ PagesNext
    BY <2>3 DEF PagesNext
  <2>4. QED
    BY <2>1, <2>2, <2>3 DEF PagesNext
<1>3. I => LinesSurviveChunking
  BY CtlShows DEF LinesSurviveChunking
<1>4. QED
  BY <1>1, <1>2, <1>3, PTL DEF PagesSpec

-----------------------------------------------------------------------------
(* The settings and the preferences.                                       *)

\* The settings, if there are any, are a record of their own, and what LogoIsThere says.
SettingsInv ==
    /\ settings = Nothing \/ settings = [name |-> settings.name, logo |-> settings.logo]
    /\ Files!LogoIsThere

\* The object that was parsed is of a file that was there, and it differs from the file it was parsed
\* from where a write has failed.
PrefsInv ==
    /\ prefs = [stat |-> prefs.stat, users |-> prefs.users]
    /\ prefs.stat \in Nat /\ DOMAIN prefs.users = Users
    /\ cached = Nothing
       \/ /\ cached = [stat |-> cached.stat, users |-> cached.users]
          /\ cached.stat \in 1..prefs.stat /\ DOMAIN cached.users = Users
    /\ cached # Nothing /\ cached.stat = prefs.stat =>
          \A u \in Users : cached.users[u] = prefs.users[u] \/ u \in lost

LEMMA SettingsStay == ASSUME SettingsInv, UNCHANGED <<settings, logos, hurt>> PROVE SettingsInv'
BY DEF SettingsInv, Files!LogoIsThere

LEMMA ReadIs ==
    ASSUME SettingsInv
    PROVE  /\ Files!Read = [name |-> Files!Read.name, logo |-> Files!Read.logo]
           /\ settings = Nothing => Files!Read.logo = Nothing
           /\ settings # Nothing => Files!Read = settings
BY DEF SettingsInv, Files!Read, Files!Defaults

LEMMA PutBrandingHolds ==
    ASSUME SettingsInv, NEW e, NEW n, Files!PutBranding(e, n)
    PROVE  SettingsInv'
<1>1. logos' = logos /\ hurt' = hurt
  BY DEF Files!PutBranding
<1>2. settings' = [Files!Read EXCEPT !.name = n] \/ settings' = settings
  BY DEF Files!PutBranding, Files!SaveSettings
<1>3. CASE settings' = [Files!Read EXCEPT !.name = n]
  <2>1. settings' = [name |-> n, logo |-> Files!Read.logo]
    BY <1>3, ReadIs
  <2>2. Files!Read.logo # Nothing => Files!Read.logo \in logos \/ hurt
    BY ReadIs DEF SettingsInv, Files!LogoIsThere
  <2>3. QED
    BY <1>1, <2>1, <2>2 DEF SettingsInv, Files!LogoIsThere
<1>4. CASE settings' = settings
  BY <1>1, <1>4, SettingsStay
<1>5. QED
  BY <1>2, <1>3, <1>4

LEMMA UploadLogoHolds ==
    ASSUME SettingsInv, NEW e, NEW l, Files!UploadLogo(e, l)
    PROVE  SettingsInv'
<1>1. l \in logos'
  BY DEF Files!UploadLogo, Files!Remaining
<1>2. hurt' = (settings' = settings /\ Files!Read.logo \notin logos' \cup {Nothing})
  BY DEF Files!UploadLogo
<1>3. settings' = [Files!Read EXCEPT !.logo = l] \/ settings' = settings
  BY DEF Files!UploadLogo, Files!SaveSettings
<1>4. CASE settings' = [Files!Read EXCEPT !.logo = l]
  <2>1. settings' = [name |-> Files!Read.name, logo |-> l]
    BY <1>4, ReadIs
  <2>2. QED
    BY <1>1, <2>1 DEF SettingsInv, Files!LogoIsThere
<1>5. CASE settings' = settings
  <2>1. settings # Nothing => settings.logo \in logos' \/ settings.logo = Nothing \/ hurt'
    BY <1>2, <1>5, ReadIs
  <2>2. QED
    BY <1>5, <2>1 DEF SettingsInv, Files!LogoIsThere
<1>6. QED
  BY <1>3, <1>4, <1>5

LEMMA DropLogoHolds ==
    ASSUME SettingsInv, NEW e, NEW new, new = [name |-> new.name, logo |-> Nothing], Files!DropLogo(e, new)
    PROVE  SettingsInv'
<1>1. settings' = new \/ UNCHANGED <<settings, logos, hurt>>
  BY DEF Files!DropLogo, Files!setting
<1>2. CASE settings' = new
  BY <1>2 DEF SettingsInv, Files!LogoIsThere
<1>3. QED
  BY <1>1, <1>2, SettingsStay

LEMMA SettingsNext == ASSUME SettingsInv, Files!Next PROVE SettingsInv'
<1>1. ASSUME UNCHANGED <<settings, logos, hurt>> PROVE SettingsInv'
  BY <1>1, SettingsStay
<1>2. ASSUME NEW e \in Editors, Files!DeleteLogo(e) PROVE SettingsInv'
  <2>1. PICK new : new = [Files!Read EXCEPT !.logo = Nothing]
    OBVIOUS
  <2>2. new = [name |-> new.name, logo |-> Nothing]
    BY <2>1, ReadIs
  <2>3. Files!DropLogo(e, new)
    BY <1>2, <2>1 DEF Files!DeleteLogo
  <2>4. QED
    BY <2>2, <2>3, DropLogoHolds
<1>3. ASSUME NEW e \in Editors, Files!ResetBranding(e) PROVE SettingsInv'
  <2>1. PICK new : new = [Files!Read EXCEPT !.name = Nothing, !.logo = Nothing]
    OBVIOUS
  <2>2. new = [name |-> new.name, logo |-> Nothing]
    BY <2>1, ReadIs
  <2>3. Files!DropLogo(e, new)
    BY <1>3, <2>1 DEF Files!ResetBranding
  <2>4. QED
    BY <2>2, <2>3, DropLogoHolds
<1>4. QED
  BY <1>1, <1>2, <1>3, PutBrandingHolds, UploadLogoHolds
     DEF Files!Next, Files!setting, Files!Open, Files!SaveTiles, Files!HandWrite, Files!StoredLocale,
         Files!SetLocale, Files!HandChoose, Files!SetClock, Files!WriteAuditEntry, Files!Prune,
         Files!Die

-----------------------------------------------------------------------------
(* preferences.yaml                                                        *)

LEMMA PrefsStay == ASSUME PrefsInv, UNCHANGED <<prefs, cached, lost>> PROVE PrefsInv'
BY DEF PrefsInv

\* What is read is the file's, except where a write was lost.
LEMMA PrefsAre ==
    ASSUME PrefsInv
    PROVE  /\ DOMAIN Files!Prefs = Users
           /\ \A u \in Users : Files!Prefs[u] = prefs.users[u] \/ u \in Files!StillLost
BY DEF PrefsInv, Files!Prefs, Files!StillLost

\* Filling the cache with what was read, or with what it was changed to and could not be written.
LEMMA RefillHolds ==
    ASSUME PrefsInv, NEW users, DOMAIN users = Users, NEW away, Files!StillLost \subseteq away,
           \A u \in Users : users[u] = prefs.users[u] \/ u \in away,
           prefs' = prefs, cached' = Files!Refilled(users), prefs.stat # 0 => lost' = away
    PROVE  PrefsInv'
<1>1. CASE prefs.stat = 0
  <2>1. cached' = cached /\ cached = Nothing
    BY <1>1 DEF PrefsInv, Files!Refilled
  <2>2. QED
    BY <2>1 DEF PrefsInv
<1>2. CASE prefs.stat # 0
  <2>1. cached' = [stat |-> prefs.stat, users |-> users] /\ lost' = away
    BY <1>2 DEF Files!Refilled
  <2>2. prefs.stat \in 1..prefs.stat
    BY <1>2 DEF PrefsInv
  <2>3. QED
    BY <2>1, <2>2 DEF PrefsInv
<1>3. QED
  BY <1>1, <1>2

LEMMA PrefsNext == ASSUME PrefsInv, Files!Next PROVE PrefsInv'
<1>1. ASSUME UNCHANGED <<prefs, cached, lost>> PROVE PrefsInv'
  BY <1>1, PrefsStay
<1>2. ASSUME NEW u \in Users, Files!StoredLocale(u) PROVE PrefsInv'
  <2>1. prefs' = prefs /\ cached' = Files!Refilled(Files!Prefs) /\ lost' = Files!StillLost
    BY <1>2 DEF Files!StoredLocale
  <2>2. QED
    BY <2>1, PrefsAre, RefillHolds
<1>3. ASSUME NEW u \in Users, NEW l \in Locales \cup {Nothing}, Files!SetLocale(u, l) PROVE PrefsInv'
  <2>1. PICK changed : changed = [Files!Prefs EXCEPT ![u] = l]
    OBVIOUS
  <2>2. /\ DOMAIN changed = Users /\ changed[u] = l
        /\ \A v \in Users : changed[v] = Files!Prefs[v] \/ v = u
    BY <2>1, PrefsAre
  <2>3. \/ prefs' = prefs /\ cached' = Files!Refilled(Files!Prefs) /\ lost' = Files!StillLost
        \/ prefs' = [stat |-> prefs.stat + 1, users |-> changed] /\ cached' = Nothing
        \/ /\ prefs' = prefs /\ cached' = Files!Refilled(changed)
           /\ lost' = IF prefs.stat = 0 THEN {} ELSE Files!StillLost \cup {u}
    BY <1>3, <2>1 DEF Files!SetLocale
  <2>4. CASE prefs' = prefs /\ cached' = Files!Refilled(Files!Prefs) /\ lost' = Files!StillLost
    BY <2>4, PrefsAre, RefillHolds
  <2>5. CASE prefs' = [stat |-> prefs.stat + 1, users |-> changed] /\ cached' = Nothing
    BY <2>2, <2>5 DEF PrefsInv
  <2>6. CASE /\ prefs' = prefs /\ cached' = Files!Refilled(changed)
             /\ lost' = IF prefs.stat = 0 THEN {} ELSE Files!StillLost \cup {u}
    <3>1. PICK away : away = Files!StillLost \cup {u}
      OBVIOUS
    <3>2. \A v \in Users : changed[v] = prefs.users[v] \/ v \in away
      BY <2>2, <3>1, PrefsAre
    <3>3. prefs.stat # 0 => lost' = away
      BY <2>6, <3>1
    <3>4. QED
      BY <2>2, <2>6, <3>1, <3>2, <3>3, RefillHolds
  <2>7. QED
    BY <2>3, <2>4, <2>5, <2>6
<1>4. ASSUME NEW u \in Users, NEW l \in Locales \cup {Nothing}, Files!HandChoose(u, l) PROVE PrefsInv'
  <2>1. prefs' = [stat |-> prefs.stat + 1, users |-> [prefs.users EXCEPT ![u] = l]] /\ cached' = cached
    BY <1>4 DEF Files!HandChoose
  <2>2. cached = Nothing \/ cached.stat \in 1..prefs.stat
    BY DEF PrefsInv
  <2>3. prefs'.stat = prefs.stat + 1 /\ prefs.stat \in Nat /\ DOMAIN prefs'.users = Users
    BY <2>1 DEF PrefsInv
  <2>4. cached' # Nothing => cached'.stat \in 1..prefs'.stat /\ cached'.stat # prefs'.stat
    BY <2>1, <2>2, <2>3
  <2>5. QED
    BY <2>1, <2>3, <2>4 DEF PrefsInv
<1>5. ASSUME Files!Die PROVE PrefsInv'
  BY <1>5 DEF Files!Die, PrefsInv
<1>6. QED
  BY <1>1, <1>2, <1>3, <1>4, <1>5
     DEF Files!Next, Files!pref, Files!Open, Files!DeleteLogo, Files!ResetBranding, Files!DropLogo,
         Files!PutBranding, Files!UploadLogo, Files!SaveTiles, Files!HandWrite,
         Files!SetClock, Files!WriteAuditEntry, Files!Prune

LEMMA PrefsShow == PrefsInv => Files!ChoiceIsTheFile
BY PrefsAre DEF Files!ChoiceIsTheFile

-----------------------------------------------------------------------------
(* tiles.yaml                                                              *)

WidgetIds == {Files!NoId} \cup {Files!Digest(w, n) : w \in Widgets, n \in Nat}
TileRecords == [w : Widgets, id : WidgetIds]

\* No two tiles have the same id, of those that have one.
Apart(f) == \A i, k \in DOMAIN f : f[i].id # Files!NoId /\ f[i].id = f[k].id => i = k
Identified(f) == Apart(f) /\ \A i \in DOMAIN f : f[i].id # Files!NoId

LEMMA DigestIs ==
    ASSUME NEW w \in Widgets, NEW n \in Nat
    PROVE  Files!Digest(w, n) \in WidgetIds /\ Files!Digest(w, n) # Files!NoId
BY DEF WidgetIds, Files!Digest, Files!NoId

LEMMA DistinctIs ==
    ASSUME NEW f \in Seq(TileRecords), NEW g, g = Files!Distinct(f)
    PROVE  /\ g \in Seq(TileRecords) /\ Len(g) = Len(f) /\ Apart(g)
           /\ Identified(f) => g = f
<1>1. PICK m \in Nat : m = Len(f) /\ DOMAIN f = 1..m
  OBVIOUS
<1>2. /\ DOMAIN g = 1..m
      /\ \A i \in 1..m : g[i] = IF \E k \in 1..(i - 1) : f[k].id = f[i].id THEN [f[i] EXCEPT !.id = Files!NoId]
                                ELSE f[i]
      /\ g = [i \in 1..m |-> g[i]]
  BY <1>1 DEF Files!Distinct
<1>3. ASSUME NEW i \in 1..m
      PROVE  /\ f[i] \in TileRecords /\ g[i] \in TileRecords
             /\ g[i].id = f[i].id \/ g[i].id = Files!NoId
             /\ g[i].id # Files!NoId => \A k \in 1..(i - 1) : f[k].id # f[i].id
  <2>1. f[i] \in TileRecords
    BY <1>1
  <2>2. CASE \E k \in 1..(i - 1) : f[k].id = f[i].id
    <3>1. g[i] = [w |-> f[i].w, id |-> Files!NoId]
      BY <1>2, <2>1, <2>2 DEF TileRecords
    <3>2. QED
      BY <2>1, <3>1 DEF TileRecords, WidgetIds
  <2>3. CASE ~\E k \in 1..(i - 1) : f[k].id = f[i].id
    BY <1>2, <2>1, <2>3
  <2>4. QED
    BY <2>2, <2>3
<1>4. g \in Seq(TileRecords) /\ Len(g) = m
  BY <1>2, <1>3
<1>5. ASSUME NEW i \in 1..m, NEW k \in 1..m, g[i].id # Files!NoId, g[i].id = g[k].id PROVE i = k
  <2>1. g[k].id # Files!NoId
    BY <1>5
  <2>2. g[i].id = f[i].id /\ g[k].id = f[k].id
    BY <1>3, <1>5, <2>1
  <2>3. ASSUME i < k PROVE FALSE
    <3>1. i \in 1..(k - 1)
      BY <2>3
    <3>2. f[i].id # f[k].id
      BY <1>3, <2>1, <3>1
    <3>3. QED
      BY <1>5, <2>2, <3>2
  <2>4. ASSUME k < i PROVE FALSE
    <3>1. k \in 1..(i - 1)
      BY <2>4
    <3>2. f[k].id # f[i].id
      BY <1>3, <1>5, <3>1
    <3>3. QED
      BY <1>5, <2>2, <3>2
  <2>5. QED
    BY <2>3, <2>4
<1>6. ASSUME Identified(f) PROVE g = f
  <2>1. ASSUME NEW i \in 1..m PROVE g[i] = f[i]
    <3>1. \A k \in 1..(i - 1) : k \in 1..m /\ k # i
      OBVIOUS
    <3>2. \A k \in 1..(i - 1) : f[k].id # f[i].id
      BY <1>1, <1>6, <3>1 DEF Identified, Apart
    <3>3. QED
      BY <1>2, <3>2
  <2>2. QED
    BY <1>1, <1>4, <2>1, SameSequence
<1>7. QED
  BY <1>1, <1>2, <1>4, <1>5, <1>6 DEF Apart

\* A function has at most as many values as arguments.
LEMMA FewValues ==
    ASSUME NEW n \in Nat, NEW h
    PROVE  IsFiniteSet({h[k] : k \in 1..n}) /\ Cardinality({h[k] : k \in 1..n}) <= n
<1>1. PICK T : T = {h[k] : k \in 1..n}
  OBVIOUS
<1>2. PICK f : f = [k \in 1..n |-> h[k]]
  OBVIOUS
<1>3. f \in Surjection(1..n, T)
  BY <1>1, <1>2 DEF Surjection
<1>4. IsFiniteSet(1..n) /\ Cardinality(1..n) = n
  <2>1. 1 \in Int /\ n \in Int
    OBVIOUS
  <2>2. IsFiniteSet(1..n) /\ Cardinality(1..n) = IF 1 > n THEN 0 ELSE n - 1 + 1
    BY <2>1, FS_Interval
  <2>3. QED
    BY <2>2
<1>5. IsFiniteSet(T) /\ Cardinality(T) <= Cardinality(1..n)
  BY <1>3, <1>4, FS_Surjection
<1>6. QED
  BY <1>1, <1>4, <1>5

\* One of more numbers than there are ids is free.
LEMMA NumberIs ==
    ASSUME NEW w \in Widgets, NEW T, IsFiniteSet(T), Cardinality(T) <= 2 * MaxTiles
    PROVE  Files!Number(w, T) \in Nat /\ Files!Digest(w, Files!Number(w, T)) \notin T
<1>1. PICK m \in Nat : m = 2 * MaxTiles
  BY FilesAssumption
<1>2. PICK free : free = {n \in 0..m : Files!Digest(w, n) \notin T}
  OBVIOUS
<1>3. free # {}
  <2>1. SUFFICES ASSUME free = {} PROVE FALSE
    OBVIOUS
  <2>2. PICK f : f = [n \in 0..m |-> Files!Digest(w, n)]
    OBVIOUS
  <2>3. f \in [0..m -> T]
    BY <1>2, <2>1, <2>2
  <2>4. IsFiniteSet(0..m) /\ Cardinality(0..m) = m + 1
    <3>1. 0 \in Int /\ m \in Int
      OBVIOUS
    <3>2. IsFiniteSet(0..m) /\ Cardinality(0..m) = IF 0 > m THEN 0 ELSE m - 0 + 1
      BY <3>1, FS_Interval
    <3>3. QED
      BY <3>2
  <2>5. Cardinality(T) < Cardinality(0..m)
    <3>1. Cardinality(T) \in Nat
      BY FS_CardinalityType
    <3>2. QED
      BY <1>1, <2>4, <3>1
  <2>6. PICK x \in 0..m, y \in 0..m : x # y /\ f[x] = f[y]
    BY <2>3, <2>4, <2>5, FS_PigeonHole
  <2>7. QED
    BY <2>2, <2>6 DEF Files!Digest
<1>4. free \in SUBSET Nat
  BY <1>2
<1>5. PICK i \in free : \A k \in free : i <= k
  BY <1>3, <1>4, SmallestNumber
<1>6. Files!Min(free) \in free
  BY <1>5 DEF Files!Min
<1>7. Files!Number(w, T) = Files!Min(free)
  BY <1>1, <1>2 DEF Files!Number
<1>8. QED
  BY <1>2, <1>4, <1>6, <1>7

\* The ids of the first n tiles.
TakenIn(f) == {f[i].id : i \in DOMAIN f} \ {Files!NoId}
NextId(f, given, i) ==
    IF f[i].id # Files!NoId THEN f[i].id
    ELSE Files!Digest(f[i].w, Files!Number(f[i].w, TakenIn(f) \cup {given[k] : k \in 1..(i - 1)}))
IsGiven(f, n, given) == given = [i \in 1..n |-> NextId(f, given, i)]

\* The recursion of Assign defines a function.
LEMMA AssignIs ==
    ASSUME NEW f, NEW n \in Nat, DOMAIN f = 1..n
    PROVE  \E given : /\ IsGiven(f, n, given)
                      /\ Files!Assign(f) = [i \in DOMAIN f |-> [f[i] EXCEPT !.id = given[i]]]
<1> DEFINE holds == {j \in Nat : \E given : IsGiven(f, j, given)}
<1>1. 0 \in holds
  <2>1. IsGiven(f, 0, [i \in 1..0 |-> i])
    BY DEF IsGiven
  <2>2. QED
    BY <2>1
<1>2. ASSUME NEW j \in Nat, j \in holds PROVE j + 1 \in holds
  <2>1. PICK c : IsGiven(f, j, c)
    BY <1>2
  <2>2. PICK d : d = [i \in 1..(j + 1) |-> IF i = j + 1 THEN NextId(f, c, j + 1) ELSE c[i]]
    OBVIOUS
  <2>3. \A i \in 1..j : d[i] = c[i]
    BY <2>2
  <2>4. ASSUME NEW i \in 1..(j + 1) PROVE NextId(f, d, i) = NextId(f, c, i)
    <3>1. \A k \in 1..(i - 1) : k \in 1..j
      OBVIOUS
    <3>2. {d[k] : k \in 1..(i - 1)} = {c[k] : k \in 1..(i - 1)}
      BY <2>3, <3>1
    <3>3. QED
      BY <3>2 DEF NextId
  <2>5. ASSUME NEW i \in 1..(j + 1) PROVE d[i] = NextId(f, d, i)
    <3>1. CASE i = j + 1
      BY <2>2, <2>4, <3>1
    <3>2. CASE i # j + 1
      <4>1. i \in 1..j
        BY <3>2
      <4>2. c[i] = NextId(f, c, i)
        BY <2>1, <4>1 DEF IsGiven
      <4>3. QED
        BY <2>3, <2>4, <4>1, <4>2
    <3>3. QED
      BY <3>1, <3>2
  <2>6. d = [i \in 1..(j + 1) |-> d[i]]
    BY <2>2
  <2>7. IsGiven(f, j + 1, d)
    BY <2>5, <2>6 DEF IsGiven
  <2>8. QED
    BY <2>7
<1>3. n \in holds
  <2>1. holds \in SUBSET Nat /\ 0 \in Nat
    OBVIOUS
  <2>2. \A j \in Nat : 0 <= j /\ j < n /\ j \in holds => j + 1 \in holds
    BY <1>2
  <2> HIDE DEF holds
  <2>3. \A j \in Nat : 0 <= j /\ j <= n => j \in holds
    BY <1>1, <2>1, <2>2, UpTo
  <2>4. QED
    BY <2>3
<1>4. PICK any : IsGiven(f, n, any)
  BY <1>3
<1>5. PICK given : given = CHOOSE g : IsGiven(f, n, g)
  OBVIOUS
<1>6. IsGiven(f, n, given)
  BY <1>4, <1>5
<1>7. given = CHOOSE g : g = [i \in DOMAIN f |-> NextId(f, g, i)]
  BY <1>5 DEF IsGiven
<1>8. Files!Assign(f) = [i \in DOMAIN f |-> [f[i] EXCEPT !.id = given[i]]]
  BY <1>7 DEF Files!Assign, NextId, TakenIn
<1>9. QED
  BY <1>6, <1>8

\* Ids that were there stay, and every tile has one of its own in the end.
LEMMA GivenAreApart ==
    ASSUME NEW f \in Seq(TileRecords), Len(f) <= MaxTiles, Apart(f),
           NEW given, IsGiven(f, Len(f), given)
    PROVE  /\ \A i \in 1..Len(f) : given[i] \in WidgetIds /\ given[i] # Files!NoId
           /\ \A i, k \in 1..Len(f) : given[i] = given[k] => i = k
           /\ \A i \in 1..Len(f) : f[i].id # Files!NoId => given[i] = f[i].id
<1>1. PICK m \in Nat : m = Len(f) /\ DOMAIN f = 1..m
  OBVIOUS
<1>2. \A i \in 1..m : given[i] = NextId(f, given, i)
  BY <1>1 DEF IsGiven
<1>3. \A i \in 1..m : f[i] \in TileRecords
  BY <1>1
<1>4. \A i \in 1..m : f[i].id # Files!NoId => given[i] = f[i].id
  BY <1>2 DEF NextId
<1>5. ASSUME NEW i \in 1..m, f[i].id = Files!NoId
      PROVE  /\ given[i] \in WidgetIds /\ given[i] # Files!NoId
             /\ given[i] \notin TakenIn(f) /\ \A k \in 1..(i - 1) : given[i] # given[k]
  <2>1. PICK earlier : earlier = {given[k] : k \in 1..(i - 1)}
    OBVIOUS
  <2>2. PICK ids : ids = TakenIn(f)
    OBVIOUS
  <2>3. PICK T : T = ids \cup earlier
    OBVIOUS
  <2>4. IsFiniteSet(T) /\ Cardinality(T) <= 2 * MaxTiles
    <3>1. IsFiniteSet(earlier) /\ Cardinality(earlier) <= i - 1
      <4>1. i - 1 \in Nat
        OBVIOUS
      <4>2. QED
        BY <2>1, <4>1, FewValues
    <3>2. IsFiniteSet(ids) /\ Cardinality(ids) <= m
      <4>1. PICK h : h = [k \in 1..m |-> f[k].id]
        OBVIOUS
      <4>2. PICK all : all = {h[k] : k \in 1..m}
        OBVIOUS
      <4>3. IsFiniteSet(all) /\ Cardinality(all) <= m
        BY <4>2, FewValues
      <4>4. ids \in SUBSET all
        BY <1>1, <2>2, <4>1, <4>2 DEF TakenIn
      <4>5. IsFiniteSet(ids) /\ Cardinality(ids) <= Cardinality(all)
        BY <4>3, <4>4, FS_Subset
      <4>6. Cardinality(ids) \in Nat /\ Cardinality(all) \in Nat
        BY <4>3, <4>5, FS_CardinalityType
      <4>7. QED
        BY <4>3, <4>5, <4>6
    <3>3. /\ IsFiniteSet(T)
          /\ Cardinality(T) = Cardinality(ids) + Cardinality(earlier) - Cardinality(ids \cap earlier)
      BY <2>3, <3>1, <3>2, FS_Union
    <3>4. IsFiniteSet(ids \cap earlier)
      <4>1. ids \cap earlier \in SUBSET ids
        OBVIOUS
      <4>2. QED
        BY <3>2, <4>1, FS_Subset
    <3>5. Cardinality(ids \cap earlier) \in Nat /\ Cardinality(ids) \in Nat /\ Cardinality(earlier) \in Nat
      BY <3>1, <3>2, <3>4, FS_CardinalityType
    <3>6. MaxTiles \in Nat /\ m <= MaxTiles
      BY <1>1, FilesAssumption
    <3>7. QED
      BY <3>1, <3>2, <3>3, <3>5, <3>6
  <2>5. f[i].w \in Widgets
    BY <1>3 DEF TileRecords
  <2>6. PICK n : n = Files!Number(f[i].w, T)
    OBVIOUS
  <2>7. n \in Nat /\ Files!Digest(f[i].w, n) \notin T
    BY <2>4, <2>5, <2>6, NumberIs
  <2>8. given[i] = Files!Digest(f[i].w, n)
    BY <1>2, <1>5, <2>1, <2>2, <2>3, <2>6 DEF NextId
  <2>9. QED
    BY <2>1, <2>2, <2>3, <2>5, <2>7, <2>8, DigestIs
<1>6. \A i \in 1..m : given[i] \in WidgetIds /\ given[i] # Files!NoId
  <2>1. ASSUME NEW i \in 1..m, f[i].id # Files!NoId PROVE given[i] \in WidgetIds
    BY <1>3, <1>4, <2>1 DEF TileRecords
  <2>2. QED
    BY <1>4, <1>5, <2>1
<1>7. ASSUME NEW i \in 1..m, NEW k \in 1..m, i < k, given[i] = given[k] PROVE FALSE
  <2>1. i \in 1..(k - 1)
    BY <1>7
  <2>2. CASE f[k].id = Files!NoId
    BY <1>5, <1>7, <2>1, <2>2
  <2>3. CASE f[k].id # Files!NoId
    <3>1. given[k] = f[k].id /\ f[k].id \in TakenIn(f)
      BY <1>1, <1>4, <2>3 DEF TakenIn
    <3>2. CASE f[i].id = Files!NoId
      BY <1>5, <1>7, <3>1, <3>2
    <3>3. CASE f[i].id # Files!NoId
      <4>1. f[i].id = f[k].id
        BY <1>4, <1>7, <3>1, <3>3
      <4>2. QED
        BY <1>1, <1>7, <3>3, <4>1 DEF Apart
    <3>4. QED
      BY <3>2, <3>3
  <2>4. QED
    BY <2>2, <2>3
<1>8. ASSUME NEW i \in 1..m, NEW k \in 1..m, given[i] = given[k] PROVE i = k
  <2>1. ~(i < k) /\ ~(k < i)
    BY <1>7, <1>8
  <2>2. QED
    BY <2>1
<1>9. /\ \A i, k \in 1..m : given[i] = given[k] => i = k
      /\ \A i \in 1..m : f[i].id # Files!NoId => given[i] = f[i].id
  BY <1>4, <1>8
<1>10. Len(f) = m
  BY <1>1
<1>11. QED
  BY <1>6, <1>9, <1>10

\* What the manager makes of a document: ids of their own, and reading it again makes the same.
LEMMA ParsedIs ==
    ASSUME NEW f \in Seq(TileRecords), Len(f) <= MaxTiles, NEW g, g = Files!Parsed(f)
    PROVE  /\ g \in Seq(TileRecords) /\ Len(g) = Len(f) /\ Identified(g)
           /\ Identified(f) => g = f
<1>1. PICK d \in Seq(TileRecords) : /\ d = Files!Distinct(f) /\ Len(d) = Len(f) /\ Apart(d)
                                    /\ Identified(f) => d = f
  BY DistinctIs
<1>2. PICK m \in Nat : m = Len(d) /\ DOMAIN d = 1..m
  OBVIOUS
<1>3. PICK given : IsGiven(d, m, given) /\ Files!Assign(d) = [i \in DOMAIN d |-> [d[i] EXCEPT !.id = given[i]]]
  <2>1. DOMAIN d = 1..m
    BY <1>2
  <2>2. QED
    BY <2>1, AssignIs, Zenon
<1>4. /\ \A i \in 1..m : given[i] \in WidgetIds /\ given[i] # Files!NoId
      /\ \A i, k \in 1..m : given[i] = given[k] => i = k
      /\ \A i \in 1..m : d[i].id # Files!NoId => given[i] = d[i].id
  <2>1. Len(d) <= MaxTiles /\ IsGiven(d, Len(d), given)
    BY <1>1, <1>2, <1>3
  <2>2. QED
    BY <1>1, <1>2, <2>1, GivenAreApart
<1>5. g = [i \in 1..m |-> [d[i] EXCEPT !.id = given[i]]]
  BY <1>1, <1>2, <1>3 DEF Files!Parsed
<1>6. ASSUME NEW i \in 1..m PROVE g[i] \in TileRecords /\ g[i].id = given[i] /\ g[i].w = d[i].w
  <2>1. d[i] \in TileRecords
    BY <1>2
  <2>2. g[i] = [w |-> d[i].w, id |-> given[i]]
    BY <1>5, <2>1 DEF TileRecords
  <2>3. QED
    BY <1>4, <2>1, <2>2 DEF TileRecords
<1>7. g \in Seq(TileRecords) /\ Len(g) = m /\ DOMAIN g = 1..m
  BY <1>5, <1>6
<1>8. Identified(g)
  BY <1>4, <1>6, <1>7 DEF Identified, Apart
<1>9. ASSUME Identified(f) PROVE g = f
  <2>1. d = f /\ \A i \in 1..m : d[i].id # Files!NoId
    BY <1>1, <1>2, <1>9 DEF Identified
  <2>2. ASSUME NEW i \in 1..m PROVE g[i] = d[i]
    <3>1. g[i] \in TileRecords /\ d[i] \in TileRecords /\ g[i].id = d[i].id /\ g[i].w = d[i].w
      BY <1>2, <1>4, <1>6, <2>1
    <3>2. QED
      BY <3>1 DEF TileRecords
  <2>3. QED
    BY <1>2, <1>7, <2>1, <2>2, SameSequence
<1>10. QED
  BY <1>1, <1>2, <1>7, <1>8, <1>9

LEMMA EditsAre ==
    ASSUME NEW f \in Seq(TileRecords), NEW g \in Files!Edits(f)
    PROVE  g \in Seq(TileRecords)
<1>1. PICK m \in Nat : m = Len(f) /\ DOMAIN f = 1..m /\ \A i \in 1..m : f[i] \in TileRecords
  OBVIOUS
<1>2. ASSUME NEW w \in Widgets, g = Append(f, [w |-> w, id |-> Files!NoId]) PROVE g \in Seq(TileRecords)
  <2>1. [w |-> w, id |-> Files!NoId] \in TileRecords
    BY DEF TileRecords, WidgetIds
  <2>2. QED
    BY <1>2, <2>1, AppendProperties
<1>3. ASSUME NEW i \in 1..m, g = Append(f, f[i]) PROVE g \in Seq(TileRecords)
  BY <1>1, <1>3, AppendProperties
<1>4. \A i \in 1..m : Files!RemoveAt(f, i) \in Seq(TileRecords)
  <2>1. \A i \in 1..m : Files!RemoveAt(f, i) = RemoveAt(f, i)
    BY DEF Files!RemoveAt, RemoveAt
  <2>2. QED
    BY <1>1, <2>1, RemoveAtRemoves
<1>5. ASSUME NEW i \in 1..m, g = Append(Files!RemoveAt(f, i), f[i]) PROVE g \in Seq(TileRecords)
  BY <1>1, <1>4, <1>5, AppendProperties
<1>6. QED
  BY <1>1, <1>2, <1>3, <1>4, <1>5 DEF Files!Edits

TilesInv == tiles \in Seq(TileRecords) /\ Len(tiles) <= MaxTiles

LEMMA TilesNext == ASSUME TilesInv, Files!Next PROVE TilesInv'
<1>1. ASSUME UNCHANGED tiles PROVE TilesInv'
  BY <1>1 DEF TilesInv
<1>2. ASSUME NEW e \in Editors, NEW f, Files!SaveTiles(e, f) PROVE TilesInv'
  <2>1. PICK g \in Seq(TileRecords) : g = Files!Parsed(tiles)
    BY ParsedIs DEF TilesInv
  <2>2. f \in Seq(TileRecords) /\ Len(f) <= MaxTiles
    BY <1>2, <2>1, EditsAre DEF Files!SaveTiles
  <2>3. tiles' = Files!Parsed(f)
    BY <1>2 DEF Files!SaveTiles
  <2>4. QED
    BY <2>2, <2>3, ParsedIs DEF TilesInv
<1>3. ASSUME NEW f \in Files!Edits(tiles), Files!HandWrite(f) PROVE TilesInv'
  BY <1>3, EditsAre DEF Files!HandWrite, TilesInv
<1>4. QED
  BY <1>1, <1>2, <1>3
     DEF Files!Next, Files!Open, Files!DeleteLogo, Files!ResetBranding, Files!DropLogo,
         Files!PutBranding, Files!UploadLogo, Files!StoredLocale, Files!SetLocale, Files!HandChoose,
         Files!SetClock, Files!WriteAuditEntry, Files!Prune, Files!Die

LEMMA TilesShow == TilesInv => Files!IdsIdentify
<1> SUFFICES ASSUME TilesInv PROVE Files!IdsIdentify
  OBVIOUS
<1>1. PICK g \in Seq(TileRecords) : g = Files!Parsed(tiles) /\ Len(g) <= MaxTiles /\ Identified(g)
  BY ParsedIs DEF TilesInv
<1>2. Files!Parsed(g) = g
  BY <1>1, ParsedIs
<1>3. QED
  BY <1>1, <1>2 DEF Files!IdsIdentify, Identified, Apart

\* What the manager reads out of its own files is whole: the logo is there, the ids of widgets tell
\* them apart for good, and a choice is the one that was stored.
THEOREM FilesHoldAlways == PagesSpec => []FilesHold
<1> DEFINE I == side = "files" => SettingsInv /\ PrefsInv /\ TilesInv
<1>1. PagesInit => I
  <2> SUFFICES ASSUME Files!Init PROVE SettingsInv /\ PrefsInv /\ TilesInv
    BY DEF PagesInit
  <2>1. SettingsInv
    BY DEF Files!Init, SettingsInv, Files!LogoIsThere
  <2>2. PrefsInv
    BY DEF Files!Init, PrefsInv
  <2>3. TilesInv
    BY FilesAssumption DEF Files!Init, TilesInv
  <2>4. QED
    BY <2>1, <2>2, <2>3
<1>2. I /\ [PagesNext]_pageVars => I'
  <2> SUFFICES ASSUME I, [PagesNext]_pageVars, side' = "files"
               PROVE  SettingsInv' /\ PrefsInv' /\ TilesInv'
    OBVIOUS
  <2>1. CASE UNCHANGED pageVars
    BY <2>1, SettingsStay, PrefsStay DEF pageVars, files, TilesInv
  <2>2. CASE side = "files" /\ Files!Next /\ UNCHANGED <<side, cache, told, vars, doctor, stack, ctl>>
    BY <2>2, SettingsNext, PrefsNext, TilesNext
  <2>3. CASE side # "files" /\ PagesNext
    BY <2>3 DEF PagesNext
  <2>4. QED
    BY <2>1, <2>2, <2>3 DEF PagesNext
<1>3. I => FilesHold
  BY PrefsShow, TilesShow DEF FilesHold, Files!FilesHold, SettingsInv
<1>4. QED
  BY <1>1, <1>2, <1>3, PTL DEF PagesSpec

=============================================================================
