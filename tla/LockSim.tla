------------------------------ MODULE LockSim ------------------------------
(***************************************************************************)
(* The lock simulator (subsys/aliro/lock_sim) with auto relock, and what   *)
(* the access control application does in its state callback: advertising  *)
(* is blocked while the door is unlocked.                                  *)
(*                                                                         *)
(* Lock and Unlock are called from several threads (a session, a command   *)
(* of the UART service) and take no lock; two timers fire in interrupts;   *)
(* the callback is called by a work item of the Aliro workqueue, which     *)
(* reads the state when it runs.  The callback sends messages before it    *)
(* blocks or unblocks the advertising, and may wait for a buffer.          *)
(***************************************************************************)
CONSTANT Callers   (* threads that call Lock and Unlock                    *)

VARIABLES
  lock,      (* mState                                                     *)
  op,        (* where each caller is                                       *)
  actuator,  (* mActuatorTimer runs                                        *)
  relock,    (* mAutoRelockTimer runs                                      *)
  queued,    (* mNotifyWork is on the workqueue                            *)
  handler,   (* where NotifyWorkHandler is                                 *)
  given,     (* the state it calls the callback with                       *)
  seen,      (* history: the last state the callback has dealt with        *)
  blocked    (* AdvertisingBlockReason::DoorUnlocked is active             *)

timers == <<actuator, relock>>
notify == <<queued, handler, given, seen, blocked>>
simVars   == <<lock, op, timers, notify>>

States == {"Secured", "EnteringUnsecured", "Unsecured", "EnteringSecured"}
Moving == {"EnteringUnsecured", "EnteringSecured"}

-----------------------------------------------------------------------------
Lock(c) ==
  /\ op[c] = "idle" /\ lock \notin {"Secured", "EnteringSecured"}
  /\ op' = [op EXCEPT ![c] = "lock"]
  /\ UNCHANGED <<lock, timers, notify>>

Unlock(c) ==
  /\ op[c] = "idle" /\ lock \notin {"Unsecured", "EnteringUnsecured"}
  /\ op' = [op EXCEPT ![c] = "unlock"]
  /\ UNCHANGED <<lock, timers, notify>>

(* StartOperation: the state, the notification, the timer. *)
SetState(c) ==
  /\ op[c] \in {"lock", "unlock"}
  /\ lock' = IF op[c] = "lock" THEN "EnteringSecured" ELSE "EnteringUnsecured"
  /\ op' = [op EXCEPT ![c] = "submit"]
  /\ UNCHANGED <<timers, notify>>

(* Mutant: nothing is submitted while the handler runs. *)
SubmitIfIdle(c) ==
  /\ op[c] = "submit" /\ op' = [op EXCEPT ![c] = "start"]
  /\ queued' = (queued \/ handler = "idle")
  /\ UNCHANGED <<lock, timers, handler, given, seen, blocked>>

Submit(c) ==
  /\ op[c] = "submit" /\ op' = [op EXCEPT ![c] = "start"]
  /\ queued' = TRUE
  /\ UNCHANGED <<lock, timers, handler, given, seen, blocked>>

StartTimer(c) ==
  /\ op[c] = "start" /\ op' = [op EXCEPT ![c] = "idle"]
  /\ actuator' = TRUE
  /\ UNCHANGED <<lock, relock, notify>>

-----------------------------------------------------------------------------
(* Mutant: nobody is told of the end of the movement. *)
ActuatorUntold ==
  /\ actuator /\ actuator' = FALSE
  /\ lock' = CASE lock = "EnteringSecured" -> "Secured"
               [] lock = "EnteringUnsecured" -> "Unsecured"
               [] OTHER -> lock
  /\ UNCHANGED <<op, relock, notify>>

(* ActuatorTimerEventHandler: the movement is over. *)
ActuatorTimer ==
  /\ actuator /\ actuator' = FALSE
  /\ lock' = CASE lock = "EnteringSecured" -> "Secured"
               [] lock = "EnteringUnsecured" -> "Unsecured"
               [] OTHER -> lock
  /\ queued' = (queued \/ lock \in Moving)
  /\ UNCHANGED <<op, relock, handler, given, seen, blocked>>

(* Mutant: the relocking is announced but never carried out. *)
RelockWithoutTimer ==
  /\ relock /\ relock' = FALSE
  /\ IF lock = "Unsecured"
     THEN lock' = "EnteringSecured" /\ queued' = TRUE
     ELSE UNCHANGED <<lock, queued>>
  /\ UNCHANGED <<op, actuator, handler, given, seen, blocked>>

(* AutoRelockTimerEventHandler; no thread runs in between. *)
RelockTimer ==
  /\ relock /\ relock' = FALSE
  /\ IF lock = "Unsecured"
     THEN lock' = "EnteringSecured" /\ queued' = TRUE /\ actuator' = TRUE
     ELSE UNCHANGED <<lock, queued, actuator>>
  /\ UNCHANGED <<op, handler, given, seen, blocked>>

(* NotifyWorkHandler reads the state twice. *)
NotifyStart ==
  /\ queued /\ handler = "idle"
  /\ queued' = FALSE /\ handler' = "call"
  /\ relock' = (relock \/ lock = "Unsecured")
  /\ UNCHANGED <<lock, op, actuator, given, seen, blocked>>

NotifyCall ==
  /\ handler = "call" /\ handler' = "callback"
  /\ given' = lock
  /\ UNCHANGED <<lock, op, timers, queued, seen, blocked>>

(* The callback has sent its messages. *)
Callback ==
  /\ handler = "callback" /\ handler' = "idle"
  /\ seen' = given
  /\ blocked' = CASE given = "Unsecured" -> TRUE
                  [] given = "EnteringSecured" -> FALSE
                  [] OTHER -> blocked
  /\ UNCHANGED <<lock, op, timers, queued, given>>

SimInit ==
  /\ lock = "Secured" /\ op = [c \in Callers |-> "idle"]
  /\ actuator = FALSE /\ relock = FALSE
  /\ queued = FALSE /\ handler = "idle"
  /\ given = "Secured" /\ seen = "Secured" /\ blocked = FALSE

Thread(c) == Lock(c) \/ Unlock(c) \/ SetState(c) \/ Submit(c) \/ StartTimer(c)

Timer == ActuatorTimer \/ RelockTimer

Notify == NotifyStart \/ NotifyCall \/ Callback

SimNext == (\E c \in Callers : Thread(c)) \/ Timer \/ Notify

(* A started timer expires, a submitted work item runs, a call returns. *)
SimFairness ==
  /\ WF_simVars(ActuatorTimer) /\ WF_simVars(RelockTimer) /\ WF_simVars(Notify)
  /\ \A c \in Callers : WF_simVars(SetState(c) \/ Submit(c) \/ StartTimer(c))

SimSpec == SimInit /\ [][SimNext]_simVars /\ SimFairness

-----------------------------------------------------------------------------
(* Type invariant. *)
SimTypeOK ==
  /\ lock \in States
  /\ op \in [Callers -> {"idle", "lock", "unlock", "submit", "start"}]
  /\ actuator \in BOOLEAN /\ relock \in BOOLEAN
  /\ queued \in BOOLEAN /\ handler \in {"idle", "call", "callback"}
  /\ given \in States /\ seen \in States /\ blocked \in BOOLEAN

(* A movement that began ends: its timer runs or is about to be started,    *)
(* even if a reversal or the timer of the previous movement comes between   *)
(* the statements of StartOperation.                                        *)
MovementEnds ==
  lock \in Moving => actuator \/ \E c \in Callers : op[c] \in {"submit", "start"}

(* The callback may miss a state but never the last one: when no work is    *)
(* queued, running or about to be submitted, it has dealt with the state    *)
(* the lock is in.                                                          *)
CallbackHearsLast ==
  ~queued /\ handler = "idle" /\ (\A c \in Callers : op[c] # "submit") => seen = lock

(* An unlocked door does not stay unlocked: the relock timer is armed by    *)
(* the handler, which must see the door in this state.                      *)
AutoRelocks == lock = "Unsecured" ~> lock # "Unsecured"

(* What the handler will be told, or is dealing with. *)
NotifyInv ==
  handler = "callback" /\ ~queued /\ (\A c \in Callers : op[c] # "submit") => given = lock

SimInv ==
  /\ SimTypeOK /\ MovementEnds /\ CallbackHearsLast /\ NotifyInv
=============================================================================
