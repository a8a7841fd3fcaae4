--------------------------- MODULE DownloadHandle ---------------------------
(***************************************************************************)
(* game_installer/handle.rs: the pause/resume/cancel handle shared by the  *)
(* user interface and every worker of an operation.                        *)
(*                                                                         *)
(* One step is one atomic operation of the code: a load, a compare and     *)
(* exchange or a store of the AtomicU8, CancellationToken::cancel, one     *)
(* Notify::notify_waiters.  Any thread may call pause, resume and cancel,  *)
(* also from inside the progress callback that wait_if_paused invokes      *)
(* while it holds its Notified future.  The workers also call              *)
(* wait_if_paused, over and over; the controllers (a user interface) never *)
(* do.                                                                     *)
(***************************************************************************)
CONSTANTS Workers, Controllers

ASSUME ThreadsAssumption == Workers \cap Controllers = {}

Threads == Workers \cup Controllers

VARIABLES
  state,          \* the AtomicU8: "RUNNING", "PAUSED" or "CANCELLED"
  cancel_token,   \* has the CancellationToken been cancelled
  control,        \* control[t]: where t is in pause(), resume() or cancel()
  wait,           \* wait[t]: where t is in wait_if_paused()
  notified,       \* notified[t]: t's Notified future has been woken
  outcome         \* outcome[t]: what t's last wait_if_paused() returned

handleVars == <<state, cancel_token, control, wait, notified, outcome>>

States == {"RUNNING", "PAUSED", "CANCELLED"}

(***************************************************************************)
(* control: "idle", or the next atomic operation of the call under way.    *)
(* wait: "out" of the call; "top" of its loop; "read" when the future is   *)
(* made and the state not read yet; "callback" inside the updater; "await" *)
(* on the future.                                                          *)
(***************************************************************************)
ControlSteps == {"idle", "resume_cas", "resume_notify", "cancel_token", "cancel_notify"}
WaitSteps == {"out", "top", "read", "callback", "await"}

HandleTypeOK ==
  /\ state \in States
  /\ cancel_token \in BOOLEAN
  /\ control \in [Threads -> ControlSteps]
  /\ wait \in [Threads -> WaitSteps]
  /\ notified \in [Threads -> BOOLEAN]
  /\ outcome \in [Threads -> {"none", "ok", "cancelled"}]

HandleInit ==
  /\ state = "RUNNING"
  /\ cancel_token = FALSE
  /\ control = [t \in Threads |-> "idle"]
  /\ wait = [t \in Threads |-> "out"]
  /\ notified = [t \in Threads |-> FALSE]
  /\ outcome = [t \in Threads |-> "none"]
-----------------------------------------------------------------------------
(***************************************************************************)
(* The control calls.  A thread can start one when it runs code of its own *)
(* (outside wait_if_paused) or code of the progress callback.              *)
(***************************************************************************)
MayCall(t) == control[t] = "idle" /\ wait[t] \in {"out", "callback"}

Proceed(t, step) == control' = [control EXCEPT ![t] = step]

\* pause(): the loop of compare_exchange gives up unless it sees RUNNING.
Pause(t) ==
  /\ MayCall(t)
  /\ state' = IF state = "RUNNING" THEN "PAUSED" ELSE state
  /\ UNCHANGED <<cancel_token, control, wait, notified, outcome>>

\* resume(): the first load; a cancelled handle is left alone.
ResumeLoad(t) ==
  /\ MayCall(t)
  /\ state # "CANCELLED"
  /\ Proceed(t, "resume_cas")
  /\ UNCHANGED <<state, cancel_token, wait, notified, outcome>>

ResumeCas(t) ==
  /\ control[t] = "resume_cas"
  /\ \/ /\ state = "PAUSED"
        /\ state' = "RUNNING"
        /\ Proceed(t, "resume_notify")
     \/ /\ state # "PAUSED"
        /\ Proceed(t, "idle")
        /\ UNCHANGED state
  /\ UNCHANGED <<cancel_token, wait, notified, outcome>>

\* notify_waiters wakes every Notified future that exists, polled or not.
\* A Notify that knows only the futures that were polled before.
Listening_Polled == {t \in Threads : wait[t] = "await"}
Listening == {t \in Threads : wait[t] \in {"read", "callback", "await"}}

NotifyWaiters == notified' = [t \in Threads |-> notified[t] \/ t \in Listening]

ResumeNotify(t) ==
  /\ control[t] = "resume_notify"
  /\ NotifyWaiters
  /\ Proceed(t, "idle")
  /\ UNCHANGED <<state, cancel_token, wait, outcome>>

CancelStore(t) ==
  /\ MayCall(t)
  /\ state' = "CANCELLED"
  /\ Proceed(t, "cancel_token")
  /\ UNCHANGED <<cancel_token, wait, notified, outcome>>

CancelToken(t) ==
  /\ control[t] = "cancel_token"
  /\ cancel_token' = TRUE
  /\ Proceed(t, "cancel_notify")
  /\ UNCHANGED <<state, wait, notified, outcome>>

\* A cancel() that fires the token and forgets the paused workers.
CancelNotify_Silent(t) ==
  /\ control[t] = "cancel_notify"
  /\ Proceed(t, "idle")
  /\ UNCHANGED <<state, cancel_token, wait, notified, outcome>>

CancelNotify(t) ==
  /\ control[t] = "cancel_notify"
  /\ NotifyWaiters
  /\ Proceed(t, "idle")
  /\ UNCHANGED <<state, cancel_token, wait, outcome>>
-----------------------------------------------------------------------------
(***************************************************************************)
(* wait_if_paused().                                                       *)
(***************************************************************************)
WaitCall(t) ==
  /\ t \in Workers
  /\ wait[t] = "out"
  /\ control[t] = "idle"
  /\ wait' = [wait EXCEPT ![t] = "top"]
  /\ UNCHANGED <<state, cancel_token, control, notified, outcome>>

\* let notified = self.pause_notify.notified();
Subscribe(t) ==
  /\ wait[t] = "top"
  /\ wait' = [wait EXCEPT ![t] = "read"]
  /\ notified' = [notified EXCEPT ![t] = FALSE]
  /\ UNCHANGED <<state, cancel_token, control, outcome>>

Return(t, result) ==
  /\ wait' = [wait EXCEPT ![t] = "out"]
  /\ outcome' = [outcome EXCEPT ![t] = result]

\* A match that lets a cancelled worker through.
ReadState_Through(t) ==
  /\ wait[t] = "read"
  /\ \/ state # "PAUSED" /\ Return(t, "ok")
     \/ /\ state = "PAUSED"
        /\ wait' = [wait EXCEPT ![t] = "callback"]
        /\ UNCHANGED outcome
  /\ UNCHANGED <<state, cancel_token, control, notified>>

ReadState(t) ==
  /\ wait[t] = "read"
  /\ \/ state = "RUNNING" /\ Return(t, "ok")
     \/ state = "CANCELLED" /\ Return(t, "cancelled")
     \/ /\ state = "PAUSED"
        /\ wait' = [wait EXCEPT ![t] = "callback"]
        /\ UNCHANGED outcome
  /\ UNCHANGED <<state, cancel_token, control, notified>>

\* The updater returns and the future is awaited.
Await(t) ==
  /\ wait[t] = "callback"
  /\ control[t] = "idle"
  /\ wait' = [wait EXCEPT ![t] = "await"]
  /\ UNCHANGED <<state, cancel_token, control, notified, outcome>>

Wake(t) ==
  /\ wait[t] = "await"
  /\ notified[t]
  /\ wait' = [wait EXCEPT ![t] = "top"]
  /\ UNCHANGED <<state, cancel_token, control, notified, outcome>>
-----------------------------------------------------------------------------
ControlNext(t) ==
  \/ Pause(t)
  \/ ResumeLoad(t) \/ ResumeCas(t) \/ ResumeNotify(t)
  \/ CancelStore(t) \/ CancelToken(t) \/ CancelNotify(t)

WaitNext(t) ==
  \/ WaitCall(t) \/ Subscribe(t) \/ ReadState(t) \/ Await(t) \/ Wake(t)

HandleNext == \E t \in Threads : ControlNext(t) \/ WaitNext(t)

(***************************************************************************)
(* A call that was started goes on (the threads are scheduled); nobody has *)
(* to start one.  The callback returns, however often it uses the handle   *)
(* itself meanwhile: hence the strong fairness of Await.                   *)
(***************************************************************************)
Fairness ==
  \A t \in Threads :
    /\ WF_handleVars(ResumeCas(t)) /\ WF_handleVars(ResumeNotify(t))
    /\ WF_handleVars(CancelToken(t)) /\ WF_handleVars(CancelNotify(t))
    /\ WF_handleVars(Subscribe(t)) /\ WF_handleVars(ReadState(t)) /\ WF_handleVars(Wake(t))
    /\ SF_handleVars(Await(t))

HandleSpec == HandleInit /\ [][HandleNext]_handleVars
HandleFairSpec == HandleSpec /\ Fairness
-----------------------------------------------------------------------------
(***************************************************************************)
(* No lost wake-up: a worker that found the operation paused and was not   *)
(* woken since is waiting for a reason (it is still paused) or a resume()  *)
(* or cancel() that has already changed the state is about to wake it.     *)
(* This is what the order "make the future, read the state, call the       *)
(* updater, await" of wait_if_paused is for.                               *)
(***************************************************************************)
WakePending ==
  \E u \in Threads : control[u] \in {"resume_notify", "cancel_token", "cancel_notify"}

NoLostWakeup ==
  \A t \in Workers :
    (wait[t] \in {"callback", "await"} /\ ~notified[t])
      => (state = "PAUSED" \/ WakePending)

(***************************************************************************)
(* Cancellation is terminal: no interleaving of pause(), resume() and      *)
(* cancel() brings a cancelled operation back.                             *)
(***************************************************************************)
CancelIsTerminal == [][state = "CANCELLED" => state' = "CANCELLED"]_handleVars

(***************************************************************************)
(* The handle implements PauseGate: the gate is asked from the call of     *)
(* wait_if_paused to the read that decides it.                             *)
(***************************************************************************)
Gate ==
  [t \in Workers |->
     IF wait[t] # "out" THEN "in"
     ELSE CASE outcome[t] = "none" -> "out"
            [] outcome[t] = "ok" -> "passed"
            [] outcome[t] = "cancelled" -> "refused"]

PG == INSTANCE PauseGate WITH Tasks <- Workers, gate <- Gate

GateContract == PG!Spec

(***************************************************************************)
(* cancel() reaches both kinds of sleepers: whoever selects on             *)
(* cancelled_future() (the chunk stream of download.rs) is woken, and no   *)
(* worker stays inside wait_if_paused.                                     *)
(***************************************************************************)
CancelReachesAll ==
  /\ state = "CANCELLED" ~> cancel_token
  /\ \A t \in Workers : state = "CANCELLED" ~> wait[t] = "out"
=============================================================================
