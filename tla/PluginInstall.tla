--------------------------- MODULE PluginInstall ---------------------------
(***************************************************************************)
(* install_plugins and install_channel_sdks (plugin_install.rs): two tasks *)
(* that work on one game directory at the same time.  Each goes through    *)
(* its list of packages; a package whose recorded version and files look   *)
(* right is skipped, any other one is downloaded, extracted, validated and *)
(* recorded in plugin_versions.json.  A crash (of the process, not of the  *)
(* machine) may come between any two steps, and files may be damaged from  *)
(* outside.  Versions are numbers; a service never offers an older one.    *)
(***************************************************************************)
EXTENDS Naturals, Sequences, SequencesExt, FiniteSets

CONSTANTS
    Releases,     \* the list of the plugin service: records of a plugin and
                  \* whether its archive is a DXSETUP one
    SdkReleases,  \* the list of the SDK service, alike
    Files,        \* the files of all archives
    Owner,        \* [Files -> packages]
    Entries,      \* the files named by a validation list
    Sized,        \* the entries that give a size
    Digested,     \* the entries that give an MD5
    Redist,       \* the files in the directory DXSETUP
    Unhashed,     \* the packages whose data give no MD5 of the archive
    \* Contents besides the versions: absent, a part, other bytes of the same
    \* length and, for an archive, what is not that archive.
    Gone, Part, Rot, Bad,
    MaxVersion, MaxSessions, MaxDamage

PluginInstallAssumption ==
    /\ Releases \in Seq(Range(Releases)) /\ SdkReleases \in Seq(Range(SdkReleases))
    /\ Entries \subseteq Files /\ Redist \subseteq Files
    /\ Sized \subseteq Entries /\ Digested \subseteq Entries
    /\ {Gone, Part, Rot, Bad} \cap (1 .. MaxVersion) = {}
    /\ MaxVersion \in Nat \ {0} /\ MaxSessions \in Nat \ {0} /\ MaxDamage \in Nat
ASSUME PluginInstallAssumption

(***************************************************************************)
(* fetch_plugins keeps the first release of a plugin, and only then drops  *)
(* the DXSETUP archives; fetch_channel_sdks only does the latter.          *)
(***************************************************************************)
First(list, i) == \A j \in 1 .. i - 1 : list[j].id # list[i].id

\* The packages at the places that are kept, in their order.
UpTo(kept, i) == {j \in kept : j <= i}
Ids(list, kept) ==
    [k \in 1 .. Cardinality(kept) |->
        list[CHOOSE i \in kept : Cardinality(UpTo(kept, i)) = k].id]

Fetched(list)     == Ids(list, {i \in 1 .. Len(list) : First(list, i) /\ ~list[i].dx})
FetchedSdks(list) == Ids(list, {i \in 1 .. Len(list) : ~list[i].dx})

Tasks    == {"plugins", "sdks"}
List(t)  == IF t = "plugins" THEN Fetched(Releases) ELSE FetchedSdks(SdkReleases)
Packages == {Releases[i].id : i \in 1 .. Len(Releases)}
                \cup {SdkReleases[i].id : i \in 1 .. Len(SdkReleases)}
Versions == 1 .. MaxVersion

\* Every SDK is recorded under the same key.
Key(t, p) == IF t = "sdks" THEN "plugin_sdk_version" ELSE p
Keys      == Packages \cup {"plugin_sdk_version"}
FilesOf(p)   == {f \in Files : Owner[f] = p}
EntriesOf(p) == FilesOf(p) \cap Entries

None   == 0
Unlisted == [p \in Packages |-> None]
NoTask == "none"

VARIABLES
    offer,     \* the version the services offer of each package
    disk,      \* the contents of each file
    archive,   \* what each task downloaded and extracts
    record,    \* plugin_versions.json: the version under each key
    torn,      \* the file was truncated and not written again
    lock,      \* PLUGIN_VERSION_LOCK: the task that holds it
    pc, at,    \* where each task is, and in which package
    version,   \* the version its list gives for the package
    todo,      \* the entries of the archive still to extract
    open,      \* the entry being extracted
    copy,      \* what write_plugin_version read
    written,   \* history: what each key was last set to
    damaged,   \* history: the files changed from outside since last extracted
    sessions, damage
pluginVars == <<offer, disk, archive, record, torn, lock, pc, at, version, todo, open, copy,
                written, damaged, sessions, damage>>

PluginInit ==
    /\ offer = [p \in Packages |-> 1]
    /\ disk = [f \in Files |-> Gone]
    /\ archive = [t \in Tasks |-> Gone]
    /\ record = [k \in Keys |-> None] /\ written = [k \in Keys |-> None]
    /\ torn = FALSE /\ lock = NoTask
    /\ pc = [t \in Tasks |-> "idle"] /\ at = [t \in Tasks |-> 1]
    /\ version = [t \in Tasks |-> Unlisted]
    /\ todo = [t \in Tasks |-> {}] /\ open = [t \in Tasks |-> Gone]
    /\ copy = [t \in Tasks |-> [k \in Keys |-> None]]
    /\ damaged = {} /\ sessions = 0 /\ damage = 0

Here(t)  == List(t)[at[t]]
Wants(t) == version[t][Here(t)]
Go(t, label) == pc' = [pc EXCEPT ![t] = label]

\* The package ends, well or not: a failure is logged and the next one follows.
Following(t) ==
    /\ IF at[t] < Len(List(t))
       THEN Go(t, "check") /\ at' = [at EXCEPT ![t] = @ + 1] /\ UNCHANGED version
       ELSE /\ Go(t, "idle") /\ at' = [at EXCEPT ![t] = 1]
            /\ version' = [version EXCEPT ![t] = Unlisted]
    /\ archive' = [archive EXCEPT ![t] = Gone]
    /\ todo' = [todo EXCEPT ![t] = {}] /\ open' = [open EXCEPT ![t] = Gone]

----------------------------------------------------------------------------
(* The surroundings: the services, the user, the process.                  *)

Publish(p) ==
    /\ offer[p] < MaxVersion /\ \E t \in Tasks : p \in Range(List(t))
    /\ offer' = [offer EXCEPT ![p] = @ + 1]
    /\ UNCHANGED <<disk, archive, record, torn, lock, pc, at, version, todo, open, copy,
                   written, damaged, sessions, damage>>

Damage(f, c) ==
    /\ damage < MaxDamage /\ disk[f] \in Versions
    /\ disk' = [disk EXCEPT ![f] = c]
    /\ damaged' = damaged \cup {f} /\ damage' = damage + 1
    /\ UNCHANGED <<offer, archive, record, torn, lock, pc, at, version, todo, open, copy,
                   written, sessions>>

Crash ==
    /\ \E t \in Tasks : pc[t] # "idle"
    /\ pc' = [t \in Tasks |-> "idle"] /\ at' = [t \in Tasks |-> 1]
    /\ version' = [t \in Tasks |-> Unlisted]
    /\ archive' = [t \in Tasks |-> Gone]
    /\ todo' = [t \in Tasks |-> {}] /\ open' = [t \in Tasks |-> Gone]
    /\ lock' = NoTask /\ copy' = [t \in Tasks |-> [k \in Keys |-> None]]
    /\ written' = IF torn THEN [k \in Keys |-> None] ELSE written
    /\ UNCHANGED <<offer, disk, record, torn, damaged, sessions, damage>>

\* The list is fetched, or the request fails and the task returns the error.
Start(t) ==
    /\ pc[t] = "idle" /\ sessions < MaxSessions
    /\ sessions' = sessions + 1
    /\ \/ /\ List(t) # <<>> /\ Go(t, "check")
          /\ version' = [version EXCEPT ![t] =
                            [p \in Packages |-> IF p \in Range(List(t)) THEN offer[p]
                                                ELSE None]]
       \/ UNCHANGED <<pc, version>>
    /\ UNCHANGED <<offer, disk, archive, record, torn, lock, at, todo, open, copy, written,
                   damaged, damage>>

----------------------------------------------------------------------------
(* One package (install_single_plugin, install_single_sdk).                *)

\* read_plugin_versions: a file that does not parse is an empty one.
Read == IF torn THEN [k \in Keys |-> None] ELSE record

\* plugin_needs_update looks at lengths, verify_validation at the MD5 as well;
\* either takes what the entry gives.
RightLength(f)  == disk[f] # Gone /\ (f \in Sized => disk[f] # Part)
Validates(f, v) == RightLength(f) /\ (f \in Digested => disk[f] = v)

\* A mutant of Current: the record is believed.
Current_Recorded(t, p, v) == Read[Key(t, p)] = v

Current(t, p, v) ==
    /\ Read[Key(t, p)] = v
    /\ \A f \in EntriesOf(p) :
           IF t = "sdks" THEN Validates(f, v) ELSE RightLength(f)

Skip(t) ==
    /\ pc[t] = "check" /\ Current(t, Here(t), Wants(t))
    /\ Following(t)
    /\ UNCHANGED <<offer, disk, record, torn, lock, copy, written, damaged, sessions,
                   damage>>

Request(t) ==
    /\ pc[t] = "check" /\ ~Current(t, Here(t), Wants(t))
    /\ Go(t, "fetch")
    /\ UNCHANGED <<offer, disk, archive, record, torn, lock, at, version, todo, open, copy,
                   written, damaged, sessions, damage>>

\* download_zip: the archive, or other bytes when there is no MD5 to tell.
Fetch(t) ==
    LET p == Here(t) IN
    /\ pc[t] = "fetch"
    /\ \E c \in {Wants(t)} \cup (IF p \in Unhashed THEN {Bad} ELSE {}) :
           archive' = [archive EXCEPT ![t] = c]
    /\ todo' = [todo EXCEPT ![t] = FilesOf(p)]
    /\ Go(t, "extract")
    /\ UNCHANGED <<offer, disk, record, torn, lock, at, version, open, copy, written,
                   damaged, sessions, damage>>

\* Refused by the server, ended early (what came stays, and the next download
\* truncates it), or of another MD5.
FetchFails(t) ==
    /\ pc[t] = "fetch"
    /\ Following(t)
    /\ UNCHANGED <<offer, disk, record, torn, lock, copy, written, damaged, sessions,
                   damage>>

\* extract_zip: File::create truncates, io::copy fills.
Open(t, f) ==
    /\ pc[t] = "extract" /\ open[t] = Gone /\ f \in todo[t]
    /\ disk' = [disk EXCEPT ![f] = Part]
    /\ damaged' = damaged \ {f}
    /\ open' = [open EXCEPT ![t] = f]
    /\ UNCHANGED <<offer, archive, record, torn, lock, pc, at, version, todo, copy,
                   written, sessions, damage>>

\* The file may have been removed from its directory under the descriptor.
Fill(t) ==
    /\ pc[t] = "extract" /\ open[t] # Gone
    /\ disk' = [disk EXCEPT ![open[t]] =
                   IF @ = Gone THEN Gone
                   ELSE IF archive[t] = Bad THEN Rot ELSE Wants(t)]
    /\ todo' = [todo EXCEPT ![t] = @ \ {open[t]}]
    /\ open' = [open EXCEPT ![t] = Gone]
    /\ UNCHANGED <<offer, archive, record, torn, lock, pc, at, version, copy, written,
                   damaged, sessions, damage>>

ExtractFails(t) ==
    /\ pc[t] = "extract" /\ (todo[t] # {} \/ archive[t] = Bad)
    /\ Following(t)
    /\ UNCHANGED <<offer, disk, record, torn, lock, copy, written, damaged, sessions,
                   damage>>

\* verify_validation holds; cleanup_dxsetup removes the directory, whoever
\* filled it.
Verify(t) ==
    /\ pc[t] = "extract" /\ todo[t] = {}
    /\ \A f \in EntriesOf(Here(t)) : Validates(f, Wants(t))
    /\ disk' = [f \in Files |-> IF f \in Redist THEN Gone ELSE disk[f]]
    /\ Go(t, "lock")
    /\ UNCHANGED <<offer, archive, record, torn, lock, at, version, todo, open, copy, written,
                   damaged, sessions, damage>>

VerifyFails(t) ==
    LET p == Here(t) IN
    /\ pc[t] = "extract" /\ todo[t] = {}
    /\ \E f \in EntriesOf(p) : ~Validates(f, Wants(t))
    /\ disk' = [f \in Files |-> IF f \in EntriesOf(p) THEN Gone ELSE disk[f]]
    /\ Following(t)
    /\ UNCHANGED <<offer, record, torn, lock, copy, written, damaged, sessions, damage>>

----------------------------------------------------------------------------
(* write_plugin_version: read, insert and write back under the lock; the   *)
(* write truncates the file first.                                         *)

\* A mutant of Lock: the versions are read and written without the lock.
Lock_Never(t) ==
    /\ pc[t] = "lock"
    /\ lock' = lock
    /\ copy' = [copy EXCEPT ![t] = [Read EXCEPT ![Key(t, Here(t))] = Wants(t)]]
    /\ Go(t, "truncate")
    /\ UNCHANGED <<offer, disk, archive, record, torn, at, version, todo, open, written,
                   damaged, sessions, damage>>

Lock(t) ==
    /\ pc[t] = "lock" /\ lock = NoTask
    /\ lock' = t
    /\ copy' = [copy EXCEPT ![t] = [Read EXCEPT ![Key(t, Here(t))] = Wants(t)]]
    /\ Go(t, "truncate")
    /\ UNCHANGED <<offer, disk, archive, record, torn, at, version, todo, open, written,
                   damaged, sessions, damage>>

Truncate(t) ==
    /\ pc[t] = "truncate"
    /\ torn' = TRUE /\ Go(t, "write")
    /\ UNCHANGED <<offer, disk, archive, record, lock, at, version, todo, open, copy, written,
                   damaged, sessions, damage>>

Write(t) ==
    /\ pc[t] = "write"
    /\ torn' = FALSE /\ record' = copy[t] /\ lock' = NoTask
    /\ copy' = [copy EXCEPT ![t] = [k \in Keys |-> None]]
    /\ written' = [written EXCEPT ![Key(t, Here(t))] = Wants(t)]
    /\ Following(t)
    /\ UNCHANGED <<offer, disk, damaged, sessions, damage>>

\* A mutant of WriteFails: the error leaves the lock taken.
WriteFails_Locked(t) ==
    /\ pc[t] = "write"
    /\ lock' = t /\ written' = [k \in Keys |-> None]
    /\ copy' = [copy EXCEPT ![t] = [k \in Keys |-> None]]
    /\ Following(t)
    /\ UNCHANGED <<offer, disk, record, torn, damaged, sessions, damage>>

\* A full disk: the file stays truncated.
WriteFails(t) ==
    /\ pc[t] = "write"
    /\ lock' = NoTask /\ written' = [k \in Keys |-> None]
    /\ copy' = [copy EXCEPT ![t] = [k \in Keys |-> None]]
    /\ Following(t)
    /\ UNCHANGED <<offer, disk, record, torn, damaged, sessions, damage>>

Step(t) ==
    \/ Skip(t) \/ Request(t) \/ Fetch(t) \/ FetchFails(t)
    \/ (\E f \in Files : Open(t, f)) \/ Fill(t) \/ ExtractFails(t)
    \/ Verify(t) \/ VerifyFails(t)
    \/ Lock(t) \/ Truncate(t) \/ Write(t) \/ WriteFails(t)

PluginNext ==
    \/ \E t \in Tasks : Start(t) \/ Step(t)
    \/ \E p \in Packages : Publish(p)
    \/ \E f \in Files, c \in {Gone, Part, Rot} : Damage(f, c)
    \/ Crash

PluginSpec == PluginInit /\ [][PluginNext]_pluginVars
\* The runtime goes on polling the future of either task.
PluginFairSpec == PluginSpec /\ \A t \in Tasks : WF_pluginVars(Step(t))

----------------------------------------------------------------------------
(***************************************************************************)
(* A package is skipped only when its files are those of the version on    *)
(* offer: neither a torn or failed installation nor a damaged file is      *)
(* taken for a finished one.  plugin_needs_update compares lengths only,   *)
(* and so does verify_validation for an entry without MD5: they take a     *)
(* part of a file whose entry gives no size, other bytes of its length     *)
(* that come from outside or from an archive downloaded without MD5, and   *)
(* of an SDK that shares its key with another one, any file of the length. *)
(***************************************************************************)
SkippedIsWhole ==
    [][\A t \in Tasks : Skip(t) =>
          \A f \in EntriesOf(Here(t)) :
              \/ disk[f] = Wants(t)
              \/ /\ t = "plugins" \/ f \notin Digested
                 /\ \/ disk[f] = Part /\ f \notin Sized
                    \/ disk[f] = Rot /\ (f \in damaged \/ Here(t) \in Unhashed)
                    \/ t = "sdks" /\ Range(List(t)) # {Here(t)}]_pluginVars

(***************************************************************************)
(* A version once recorded stays recorded while the other task records     *)
(* its own, unless a write was cut short ("so that read-modify-write does  *)
(* not race", plugin_install.rs).                                          *)
(***************************************************************************)
RecordsSurvive ==
    ~torn => \A k \in Keys : written[k] # None => record[k] = written[k]

(***************************************************************************)
(* Both tasks come to their end, whatever fails on the way.                *)
(***************************************************************************)
TasksEnd == \A t \in Tasks : pc[t] # "idle" ~> pc[t] = "idle"
=============================================================================
