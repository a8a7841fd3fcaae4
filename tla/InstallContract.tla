--------------------------- MODULE InstallContract ---------------------------
(***************************************************************************)
(* What one call of install() promises its caller, whatever it does inside *)
(* (doc comment of install, game_installer/installer.rs): files of the     *)
(* manifest become the new version one by one; the call returns once; Ok   *)
(* means all of them are installed, Cancelled means somebody cancelled,    *)
(* and after any return but that of a first error no file changes.         *)
(***************************************************************************)
CONSTANT Files

VARIABLES
  state,          \* of the DownloadHandle
  installed,      \* the files that are the new version
  result          \* "none" while the call runs, then what it returned

vars == <<state, installed, result>>

Init ==
  /\ state = "RUNNING"
  /\ installed \in SUBSET Files
  /\ result = "none"

Control ==
  /\ \/ state = "RUNNING" /\ state' = "PAUSED"
     \/ state = "PAUSED" /\ state' = "RUNNING"
     \/ state' = "CANCELLED"
  /\ UNCHANGED <<installed, result>>

\* A first error is returned without waiting for the assembly under way.
Deliver(f) ==
  /\ result \in {"none", "failed"}
  /\ f \notin installed
  /\ installed' = installed \cup {f}
  /\ UNCHANGED <<state, result>>

Return(r) ==
  /\ result = "none"
  /\ r = "ok" => installed = Files
  /\ r = "cancelled" => state = "CANCELLED"
  /\ result' = r
  /\ UNCHANGED <<state, installed>>

Next ==
  \/ Control
  \/ \E f \in Files : Deliver(f)
  \/ \E r \in {"ok", "cancelled", "failed", "incomplete"} : Return(r)

SafeSpec == Init /\ [][Next]_vars

\* A call that is not left paused for good returns.
Spec == SafeSpec /\ (<>[](state # "PAUSED") => <>(result # "none"))
=============================================================================
