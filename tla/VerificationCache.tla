------------------------- MODULE VerificationCache -------------------------
(***************************************************************************)
(* The verification cache (cache.rs) and the installs that fill and use    *)
(* it.  An entry vouches for a file of the right size by the second of its *)
(* modification time.  The scan for another manifest and the one of a      *)
(* repair compare that time; the assembly of an install (assembly.rs) does *)
(* not; and the scan for the same manifest asks no entry and hashes        *)
(* nothing, but goes by the size and the bits of a file.                   *)
(***************************************************************************)
EXTENDS Naturals, FiniteSets

CONSTANTS
  Paths,
  Manifests,      \* what may be installed: see Repair
  MaxEntries,     \* VERIFICATION_CACHE_MAX_ENTRIES
  MaxTime, MaxSessions \* bounds

ASSUME CacheAssumption ==
  /\ IsFiniteSet(Paths)
  /\ MaxEntries \in Nat \ {0} /\ MaxTime \in Nat /\ MaxSessions \in Nat

VARIABLES
  manifest,       \* it does not change: needs, eager and old, see Repair
  clock,          \* in seconds
  disk,           \* the files: what is in each, and when it was written
  marked,         \* files with all their bits in the bitmap file
  memory, stored, \* the cache, and its file
  tmpCache,       \* the temporary file of a save
  session, stage, \* which operation runs, and where it is
  state, seen,    \* where each file is, and the time its check has seen
  sessions, result,
  sneaky,         \* history: files changed with the time they had before,
                  \*   or changed before a new install skipped them by their bits
  unseen,         \* history: files changed while the session ran
  stale           \* history: files it took for installed on an entry of another
                  \*   time, or by their size and bits although they were changed

cacheVars == <<marked, memory, stored, tmpCache>>
sessionVars == <<session, stage, state, seen, sessions, result>>
history == <<sneaky, unseen, stale>>

NoEntry == MaxTime + 1
Entries(m) == {p \in Paths : m[p] # NoEntry}
Empty == [p \in Paths |-> NoEntry]

\* Its scans take a file without chunks for installed unseen.
Chunkless(p) == manifest.needs[p] = <<>>

\* "junk" has the right size, "none" is no file or one of another size.
Contents == {"right", "junk", "none"}
SizeOk(p) == disk[p].is \in {"right", "junk"}
Put(p, what) == disk' = [disk EXCEPT ![p] = [is |-> what, at |-> clock]]

CacheInit ==
  /\ manifest \in Manifests
  /\ clock = 0
  /\ disk = [p \in Paths |-> [is |-> "none", at |-> 0]] /\ marked = {}
  /\ memory = Empty /\ stored = Empty /\ tmpCache = "none"
  /\ session = "none" /\ stage = "none" /\ sessions = 0 /\ result = "none"
  /\ state = [p \in Paths |-> "todo"] /\ seen = [p \in Paths |-> 0]
  /\ sneaky = {} /\ unseen = {} /\ stale = {}
-----------------------------------------------------------------------------
(***************************************************************************)
(* check_file_md5_with_cache_key_and_size, for all files at a time.        *)
(***************************************************************************)
Forget(p) == memory' = [memory EXCEPT ![p] = NoEntry]

Becomes(p, s) == state' = [state EXCEPT ![p] = s]

\* Any time is good enough.
Hit_AnyTime(p) == memory[p] # NoEntry

Hit(p) == memory[p] # NoEntry /\ memory[p] = disk[p].at

\* The scan of an install that does not look what is in a file.
Unhashed(p) == session = "resume" \/ (session = "changed" /\ Chunkless(p))

Stat(p) ==
  /\ stage = "scan" /\ state[p] = "todo" /\ ~Unhashed(p)
  /\ seen' = [seen EXCEPT ![p] = disk[p].at]
  /\ IF ~SizeOk(p) THEN Forget(p) /\ Becomes(p, "broken")
     ELSE UNCHANGED memory /\ Becomes(p, IF Hit(p) THEN "valid" ELSE "hash")
  /\ UNCHANGED <<clock, disk, marked, stored, tmpCache, session, stage, sessions, result, history>>

\* The number of entries is looked at here, and an entry inserted later.
Hash(p) ==
  /\ stage = "scan" /\ state[p] = "hash"
  /\ IF disk[p].is # "right" THEN Forget(p) /\ Becomes(p, "broken")
     ELSE /\ UNCHANGED memory
          /\ Becomes(p, IF Cardinality(Entries(memory)) >= MaxEntries THEN "valid" ELSE "insert")
  /\ UNCHANGED <<clock, disk, marked, stored, tmpCache, session, stage, seen, sessions, result, history>>

\* The time of the entry is the time it is made.
Insert_Now(p) ==
  /\ stage = "scan" /\ state[p] = "insert"
  /\ memory' = [memory EXCEPT ![p] = clock]
  /\ Becomes(p, "valid")
  /\ UNCHANGED <<clock, disk, marked, stored, tmpCache, session, stage, seen, sessions, result, history>>

Insert(p) ==
  /\ stage = "scan" /\ state[p] = "insert"
  /\ memory' = [memory EXCEPT ![p] = seen[p]]
  /\ Becomes(p, "valid")
  /\ UNCHANGED <<clock, disk, marked, stored, tmpCache, session, stage, seen, sessions, result, history>>
-----------------------------------------------------------------------------
(***************************************************************************)
(* load_verification_cache and save_verification_cache.  The file a crash  *)
(* leaves behind is removed, a cache that is too large trimmed to half.    *)
(***************************************************************************)
Trims(m) ==
  IF Cardinality(Entries(m)) <= MaxEntries THEN {m}
  ELSE {[p \in Paths |-> IF p \in keep THEN m[p] ELSE NoEntry] :
          keep \in {k \in SUBSET Entries(m) : Cardinality(k) = MaxEntries \div 2}}

Load == tmpCache' = "none" /\ memory' \in Trims(stored)

WriteCache ==
  /\ stage = "save" /\ tmpCache = "none"
  /\ tmpCache' = "written"
  /\ UNCHANGED <<clock, disk, marked, memory, stored, sessionVars, history>>

\* What the session kept in memory goes with it.
End(how) ==
  /\ session' = "none" /\ stage' = "none" /\ result' = how
  /\ state' = [p \in Paths |-> "todo"] /\ seen' = [p \in Paths |-> 0]
  /\ memory' = Empty
  /\ UNCHANGED sessions

RenameCache ==
  /\ stage = "save" /\ tmpCache = "written"
  /\ stored' = memory /\ tmpCache' = "none"
  /\ End("ok")
  /\ UNCHANGED <<clock, disk, marked, history>>

\* An error while saving is logged.
SaveFails ==
  /\ stage = "save"
  /\ tmpCache' \in {tmpCache, "none"}
  /\ End("ok")
  /\ UNCHANGED <<clock, disk, marked, stored, history>>
-----------------------------------------------------------------------------
(***************************************************************************)
(* An install: a new one takes every file as broken; one that resumes      *)
(* scans them, and removes those that are.  Sophon resumes with the same   *)
(* manifest only, install() is ready for another one as well.              *)
(***************************************************************************)
Begins(kind, where, s) ==
  /\ session = "none" /\ sessions < MaxSessions
  /\ session' = kind /\ stage' = where /\ result' = "none"
  /\ sessions' = sessions + 1
  /\ state' = [p \in Paths |-> s]
  /\ unseen' = {} /\ stale' = {}
  /\ UNCHANGED <<clock, disk, marked, stored, seen, sneaky>>

StartInstall == Begins("install", "work", "broken") /\ Load
StartResume == \E kind \in {"resume", "changed"} : Begins(kind, "scan", "todo") /\ Load

\* Taken for installed as it is.
Takes(p) == stale' = IF disk[p].is = "right" THEN stale ELSE stale \cup {p}

\* The scan with the same manifest: the size, and for a file without old chunks
\* the bits; all but those of files written eagerly are never set.
Measure(p) ==
  /\ stage = "scan" /\ state[p] = "todo" /\ Unhashed(p)
  /\ IF Chunkless(p) \/ (SizeOk(p) /\ p \in manifest.old \cup marked)
       THEN Becomes(p, "valid") /\ Takes(p)
       ELSE Becomes(p, "broken") /\ UNCHANGED stale
  /\ UNCHANGED <<clock, disk, cacheVars, session, stage, seen, sessions, result, sneaky, unseen>>

Scanned == \A p \in Paths : state[p] \in {"valid", "broken"}

Broken == {p \in Paths : state[p] = "broken"}

\* Broken files are removed, but for those that have chunks to copy.  Their
\* bits are cleared in memory, and in the bitmap file when it is next written.
EndScan ==
  /\ session \in {"resume", "changed"} /\ stage = "scan" /\ Scanned
  /\ stage' = "work"
  /\ disk' = [p \in Paths |->
               IF p \in Broken \ manifest.old THEN [disk[p] EXCEPT !.is = "none"] ELSE disk[p]]
  /\ marked' \in {marked, marked \ Broken}
  /\ UNCHANGED <<clock, memory, stored, tmpCache, session, state, seen, sessions, result, history>>

\* A new install has every bit of the bitmap file, also that of a finished one.
SkippedByBits(p) == session = "install" /\ p \in marked

\* A file whose chunks are not shared is written in place, and recorded; its
\* bits are in the bitmap file at some time, if nothing comes in between.
WriteEager(p) ==
  /\ stage = "work" /\ session # "repair" /\ state[p] = "broken"
  /\ p \in manifest.eager /\ ~SkippedByBits(p)
  /\ Put(p, "right")
  /\ marked' \in {marked, marked \cup {p}}
  /\ sneaky' = sneaky \ {p}
  /\ Becomes(p, "written")
  /\ UNCHANGED <<clock, memory, stored, tmpCache, session, stage, seen, sessions, result,
                 unseen, stale>>

\* None of its chunks is downloaded; whatever is there counts as written.
SkipEager(p) ==
  /\ stage = "work" /\ state[p] = "broken"
  /\ p \in manifest.eager /\ SkippedByBits(p)
  /\ sneaky' = IF disk[p].is = "right" THEN sneaky ELSE sneaky \cup {p}
  /\ Becomes(p, "written")
  /\ UNCHANGED <<clock, disk, cacheVars, session, stage, seen, sessions, result, unseen, stale>>

RecordEager(p) ==
  /\ stage = "work" /\ session # "repair" /\ state[p] = "written"
  /\ memory' = IF Cardinality(Entries(memory)) < MaxEntries
                 THEN [memory EXCEPT ![p] = disk[p].at] ELSE memory
  /\ Becomes(p, "valid")
  /\ UNCHANGED <<clock, disk, marked, stored, tmpCache, session, stage, seen, sessions, result, history>>

\* run_assembly_task: skipped if an entry or a hash says so, else written.
Assemble(p) ==
  /\ stage = "work" /\ session # "repair" /\ state[p] = "broken"
  /\ p \notin manifest.eager
  /\ IF SizeOk(p) /\ (memory[p] # NoEntry \/ disk[p].is = "right")
       THEN /\ stale' = IF memory[p] \in {NoEntry, disk[p].at} THEN stale ELSE stale \cup {p}
            /\ UNCHANGED <<disk, sneaky>>
       ELSE /\ Put(p, "right")
            /\ sneaky' = sneaky \ {p} /\ UNCHANGED stale
  /\ Becomes(p, "valid")
  /\ UNCHANGED <<clock, cacheVars, session, stage, seen, sessions, result, unseen>>

EndWork ==
  /\ stage = "work" /\ session # "repair" /\ \A p \in Paths : state[p] = "valid"
  /\ stage' = "save"
  /\ UNCHANGED <<clock, disk, cacheVars, session, state, seen, sessions, result, history>>

InstallFails ==
  /\ session \in {"install", "resume", "changed"} /\ stage # "save"
  /\ End("err")
  /\ UNCHANGED <<clock, disk, marked, stored, tmpCache, history>>
-----------------------------------------------------------------------------
Crash ==
  /\ session # "none"
  /\ End("none")
  /\ UNCHANGED <<clock, disk, marked, stored, tmpCache, history>>

Tick ==
  /\ clock < MaxTime
  /\ clock' = clock + 1
  /\ UNCHANGED <<disk, cacheVars, sessionVars, history>>

\* Somebody else changes a file; its time may be put back, or still be the
\* same, or a file written eagerly has not been recorded yet.
Edit(p) ==
  /\ \E what \in Contents \ {"right"}, t \in {clock, disk[p].at} :
       /\ disk' = [disk EXCEPT ![p] = [is |-> what, at |-> t]]
       /\ sneaky' = IF t = disk[p].at \/ state[p] = "written" THEN sneaky \cup {p} ELSE sneaky
  /\ unseen' = IF session = "none" THEN unseen ELSE unseen \cup {p}
  /\ result' = "none"
  /\ UNCHANGED <<clock, cacheVars, session, stage, state, seen, sessions, stale>>

CacheStep ==
  \/ (\E p \in Paths : \/ Stat(p) \/ Hash(p) \/ Insert(p)
                       \/ Measure(p) \/ WriteEager(p) \/ SkipEager(p)
                       \/ RecordEager(p) \/ Assemble(p))
  \/ WriteCache \/ RenameCache \/ SaveFails
  \/ EndScan \/ EndWork \/ InstallFails

CacheEnv == StartInstall \/ StartResume \/ Tick \/ (\E p \in Paths : Edit(p))
-----------------------------------------------------------------------------
(***************************************************************************)
(* An install that ended well left every file right, but for the files     *)
(* somebody changed that it did not hash: changed with the time kept, or   *)
(* at the right size (a resumed install), or with the bits still set (a    *)
(* new one), or vouched for by an entry of another time; or changed while  *)
(* it ran.                                                                 *)
(***************************************************************************)
InstalledIsRight ==
  (result = "ok") => \A p \in Paths \ (sneaky \cup unseen \cup stale) : disk[p].is = "right"

(***************************************************************************)
(* What the cache vouches for is right as long as the file has the time of *)
(* the entry, in memory and in its file, through saves, crashes, trims -   *)
(* unless the file was changed with its time kept, or before a new install *)
(* skipped it by its bits and recorded what it found.                      *)
(***************************************************************************)
EntriesVouch ==
  \A p \in Paths \ sneaky, m \in {memory, stored} :
    (m[p] # NoEntry /\ m[p] = disk[p].at /\ SizeOk(p)) => disk[p].is = "right"
=============================================================================
