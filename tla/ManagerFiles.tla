--------------------------- MODULE ManagerFiles ---------------------------
(***************************************************************************)
(* The files the manager keeps for itself: settings.yaml with the logo     *)
(* beside it, tiles.yaml, preferences.yaml and audit.log.                  *)
(*                                                                         *)
(* core/settings_store.py, tiles.py, user_prefs.py, audit.py and the       *)
(* routers api_settings.py, api_tiles.py, api_audit.py.                    *)
(*                                                                         *)
(* They share nothing, so `part` picks the one a behaviour is about. A     *)
(* request on the event loop is one step up to an await; a write may fail, *)
(* and the process may die, wherever there are two writes. Texts are model *)
(* values; a revision is what the file holds. Links, icons and visibility  *)
(* of tiles are left out: a tile is a widget's, with its type and its id.  *)
(***************************************************************************)
EXTENDS Integers, Sequences, FiniteSets, SequencesExt

CONSTANTS
    Editors,        \* open pages
    Names, Logos,   \* brand names and images
    Widgets,        \* widget types
    Users, Locales,
    None,
    MaxTiles, MaxSteps, MaxTime     \* bounds

VARIABLES
    part,
    steps,      \* requests so far
    settings,   \* settings.yaml
    logos,      \* the logo files
    hurt,       \* history: an upload or a save of settings stopped half way
    page,       \* what each editor was given
    tiles,      \* tiles.yaml
    prefs,      \* preferences.yaml: the users' choices, and its stat
    cached,     \* _CACHE of user_prefs
    lost,       \* history: users whose choice could not be written since the file was parsed
    now,
    log,        \* audit.log: its lines
    pruned,     \* history: the lines that prunes removed
    silent      \* history: the dates of prunes whose entry was not written

setting == <<settings, logos, hurt>>
pref == <<prefs, cached, lost>>
audit == <<now, log, pruned, silent>>
vars == <<part, steps, setting, page, tiles, pref, audit>>

Count == steps < MaxSteps /\ steps' = steps + 1

-----------------------------------------------------------------------------
(* settings.yaml *)

Defaults == [name |-> None, logo |-> None]

\* Any unreadable file is the defaults; save_settings writes all of it.
Read == IF settings = None THEN Defaults ELSE settings

\* get_all_settings, get_tiles: the document and its revision.
Open(e) ==
    /\ part \in {"settings", "tiles"}
    /\ page[e] # (IF part = "settings" THEN <<settings>> ELSE tiles)
    /\ Count
    /\ page' = [page EXCEPT ![e] = IF part = "settings" THEN <<settings>> ELSE tiles]
    /\ UNCHANGED <<part, setting, tiles, pref, audit>>

\* _require_current
Current(e) == page[e] = <<settings>>

\* save_settings, which may fail, and what the page is given then.
SaveSettings(e, new) ==
    \/ settings' = new /\ page' = [page EXCEPT ![e] = <<new>>]
    \/ UNCHANGED <<settings, page>>

\* remove_logo_files: files that cannot be removed stay.
RemainingNone(keep) == {{}}
Remaining(keep) == {keep \cup stay : stay \in SUBSET logos}

PutBranding(e, n) ==
    /\ part = "settings" /\ Count /\ Current(e)
    /\ SaveSettings(e, [Read EXCEPT !.name = n])
    /\ UNCHANGED <<part, logos, hurt, tiles, pref, audit>>

\* upload_logo: the new file, the old ones away, then the name into whatever the settings are by
\* now. No revision is asked for.
UploadLogo(e, l) ==
    /\ part = "settings" /\ Count
    /\ logos' \in Remaining({l})
    /\ SaveSettings(e, [Read EXCEPT !.logo = l])
    /\ hurt' = (settings' = settings /\ Read.logo \notin logos' \cup {None})
    /\ UNCHANGED <<part, tiles, pref, audit>>

\* delete_logo, reset_branding: the settings first, then the files.
DropLogo(e, new) ==
    /\ part = "settings" /\ Count
    /\ \/ /\ settings' = new /\ page' = [page EXCEPT ![e] = <<new>>]
          /\ logos' \in Remaining({}) /\ hurt' = FALSE
       \/ UNCHANGED <<setting, page>>
    /\ UNCHANGED <<part, tiles, pref, audit>>

DeleteLogo(e) == DropLogo(e, [Read EXCEPT !.logo = None])
ResetBranding(e) == Current(e) /\ DropLogo(e, [Read EXCEPT !.name = None, !.logo = None])

-----------------------------------------------------------------------------
(* tiles.yaml *)

\* The id of the n-th widget of a type; ids in a file may be missing.
Digest(w, n) == <<w, n>>
NoId == <<>>

\* _assign_widget_ids, first pass: the second tile with an id loses it.
Distinct(f) ==
    [i \in DOMAIN f |-> IF \E k \in 1..(i - 1) : f[k].id = f[i].id THEN [f[i] EXCEPT !.id = NoId] ELSE f[i]]

\* Second pass: the lowest number of its type that is neither taken nor passed.
Number(w, gone) == Min({n \in 0..(2 * MaxTiles) : Digest(w, n) \notin gone})
Assign(f) ==
    LET taken == {f[i].id : i \in DOMAIN f} \ {NoId}
        id[i \in DOMAIN f] ==
            IF f[i].id # NoId THEN f[i].id
            ELSE Digest(f[i].w, Number(f[i].w, taken \cup {id[k] : k \in 1..(i - 1)}))
    IN [i \in DOMAIN f |-> [f[i] EXCEPT !.id = id[i]]]

\* load_tiles, parse_tiles.
Parsed(f) == Assign(Distinct(f))

\* What a person makes of a document: a widget added or copied, taken out, moved to the end.
Edits(f) ==
    {Append(f, [w |-> w, id |-> NoId]) : w \in Widgets}
    \cup {Append(f, f[i]) : i \in DOMAIN f}
    \cup {RemoveAt(f, i) : i \in DOMAIN f}
    \cup {Append(RemoveAt(f, i), f[i]) : i \in DOMAIN f}

\* replace_tiles and replace_tiles_raw: the page's revision, then the parsed document.
SaveTiles(e, f) ==
    /\ part = "tiles" /\ Count
    /\ page[e] = tiles
    /\ f \in Edits(Parsed(tiles)) \cup {Parsed(tiles)} /\ Len(f) <= MaxTiles
    /\ tiles' = Parsed(f)
    /\ page' = [page EXCEPT ![e] = tiles']
    /\ UNCHANGED <<part, setting, pref, audit>>

\* An edit over SSH, where ids may be left out.
HandWrite(f) ==
    /\ part = "tiles" /\ Count
    /\ Len(f) <= MaxTiles
    /\ tiles' = f
    /\ UNCHANGED <<part, setting, page, pref, audit>>

-----------------------------------------------------------------------------
(* preferences.yaml *)

\* _read: the parsed file, unless the cache has its stat.
Prefs == IF cached # None /\ cached.stat = prefs.stat THEN cached.users ELSE prefs.users
\* A file that is not there (stat 0) is not remembered.
Refilled(users) == IF prefs.stat = 0 THEN cached ELSE [stat |-> prefs.stat, users |-> users]
StillLost == IF cached # None /\ cached.stat = prefs.stat THEN lost ELSE {}

\* stored_locale, on every request.
StoredLocale(u) ==
    /\ part = "prefs"
    /\ cached # Refilled(Prefs)
    /\ cached' = Refilled(Prefs) /\ lost' = StillLost
    /\ UNCHANGED <<part, steps, setting, page, tiles, prefs, audit>>

\* set_locale changes the parsed object, then writes it; the cache is dropped only by a write that
\* worked. A choice that is there already is reported as saved.
SetLocale(u, l) ==
    LET changed == [Prefs EXCEPT ![u] = l]
    IN /\ part = "prefs" /\ Count
       /\ IF Prefs[u] = l
          THEN cached' = Refilled(Prefs) /\ lost' = StillLost /\ UNCHANGED prefs
          ELSE \/ /\ prefs' = [stat |-> prefs.stat + 1, users |-> changed]
                  /\ cached' = None /\ lost' = {}
               \/ /\ cached' = Refilled(changed)
                  /\ lost' = IF prefs.stat = 0 THEN {} ELSE StillLost \cup {u}
                  /\ UNCHANGED prefs
       /\ UNCHANGED <<part, setting, page, tiles, audit>>

\* The file edited by hand.
HandChoose(u, l) ==
    /\ part = "prefs" /\ Count
    /\ prefs' = [stat |-> prefs.stat + 1, users |-> [prefs.users EXCEPT ![u] = l]]
    /\ UNCHANGED <<part, setting, page, tiles, cached, lost, audit>>

-----------------------------------------------------------------------------
(* audit.log *)

\* A line that can be read has a time; the entry of a prune has the date before which it removed.
Unreadable == [ts |-> None, before |-> {}]
Old(line, cutoff) == line.ts # None /\ line.ts < cutoff

\* The wall clock, which may be set back.
SetClock(t) ==
    /\ part = "audit" /\ t # now /\ now' = t
    /\ UNCHANGED <<part, steps, setting, page, tiles, pref, log, pruned, silent>>

\* write_audit_entry. The process may die within a line, and the next entry is then part of it.
WriteAuditEntry ==
    /\ part = "audit" /\ Count
    /\ \E line \in {[ts |-> now, before |-> {}], Unreadable} : log' = log \cup {line}
    /\ UNCHANGED <<part, setting, page, tiles, pref, now, pruned, silent>>

\* A cutoff in the future is refused.
AnyDate(cutoff) == TRUE
InThePast(cutoff) == cutoff <= now

\* prune_before: the old lines go, all or none, and with none to remove nothing is written.
PruneBefore(cutoff) == {line \in log : Old(line, cutoff)}

\* The prune and then its own entry, which may fail, or the process dies between the two.
Prune(cutoff) ==
    LET removed == PruneBefore(cutoff)
    IN /\ part = "audit" /\ Count
       /\ InThePast(cutoff) /\ removed # {}
       /\ pruned' = pruned \cup removed
       /\ \/ /\ log' = (log \ removed) \cup {[ts |-> now, before |-> {cutoff}]}
             /\ UNCHANGED silent
          \/ /\ log' \in {log \ removed, (log \ removed) \cup {Unreadable}}
             /\ silent' = silent \cup {cutoff}
       /\ UNCHANGED <<part, setting, page, tiles, pref, now>>

\* The process dies: what is in memory is gone.
Die ==
    /\ part = "prefs"
    /\ cached' = None /\ lost' = {}
    /\ UNCHANGED <<part, steps, setting, page, tiles, prefs, audit>>

Init ==
    /\ part \in {"settings", "tiles", "prefs", "audit"} /\ steps = 0
    /\ settings = None /\ logos = {} /\ hurt = FALSE
    /\ page = [e \in Editors |-> IF part = "settings" THEN <<None>> ELSE <<>>]
    /\ tiles = <<>>
    /\ prefs = [stat |-> 0, users |-> [u \in Users |-> None]] /\ cached = None /\ lost = {}
    /\ now = 0 /\ log = {} /\ pruned = {} /\ silent = {}

Next ==
    \/ \E e \in Editors :
          \/ Open(e) \/ DeleteLogo(e) \/ ResetBranding(e)
          \/ \E n \in Names : PutBranding(e, n)
          \/ \E l \in Logos : UploadLogo(e, l)
          \/ \E f \in Edits(Parsed(tiles)) \cup {Parsed(tiles)} : SaveTiles(e, f)
    \/ \E f \in Edits(tiles) : HandWrite(f)
    \/ \E u \in Users : StoredLocale(u) \/ (\E l \in Locales \cup {None} : SetLocale(u, l) \/ HandChoose(u, l))
    \/ \E t \in 0..MaxTime : SetClock(t) \/ Prune(t)
    \/ WriteAuditEntry \/ Die

Spec == Init /\ [][Next]_vars

-----------------------------------------------------------------------------
(* Properties *)

\* A logo the settings name is there, whoever uploads, removes or resets in between, unless the
\* settings could not be written after an upload had removed the old one.
LogoIsThere == (settings # None /\ settings.logo # None) => settings.logo \in logos \/ hurt

\* "Loading the same file twice must give the same ids", also after a save has written them down,
\* and no two widgets have the same one, whatever is copied, left out or written by hand.
IdsIdentify ==
    LET f == Parsed(tiles)
    IN /\ \A i, k \in DOMAIN f : f[i].id = f[k].id => i = k
       /\ Parsed(f) = f
\* What an account is shown is what its file says, unless a write of the choice failed and the
\* parsed object has kept it.
ChoiceIsTheFile == \A u \in Users : Prefs[u] = prefs.users[u] \/ u \in StillLost

\* What the manager reads out of its own files is whole: the logo is there, the ids of widgets tell
\* them apart for good, and a choice is the one that was stored.
FilesHold == LogoIsThere /\ IdsIdentify /\ ChoiceIsTheFile

\* "The prune documents its own gap": whatever a prune removed could be read to be older than the
\* date in the entry of a prune that is still in the log, although a later prune removes the entry
\* of an earlier one, and the clock may be set back; unless the entry of a prune was not written.
GapsAreDocumented ==
    \A line \in pruned :
        /\ line.ts # None
        /\ \E cutoff \in silent \cup UNION {e.before : e \in log} : line.ts < cutoff

=============================================================================
