--------------------------- MODULE RangingSessions ---------------------------
(***************************************************************************)
(* The ranging sessions of the Access Manager of the Matter application:   *)
(* how authenticated sessions and the distances measured by the UWB driver *)
(* become unlock and lock actions.                                         *)
(*                                                                         *)
(* Two threads work on the list of contexts: the Aliro workqueue (sessions *)
(* are granted, ranging starts, sessions terminate) and the thread in      *)
(* which the driver calls back.  sMutex is held for single steps only:     *)
(* SetOpenAllowed changes a session, then looks at the others, then acts   *)
(* on the lock.                                                            *)
(*                                                                         *)
(* External: the Aliro stack and the UWB driver.  A session handle names a *)
(* connection object, and is used again after the session is terminated.   *)
(* A session that the Access Manager destroys itself (on access granted or *)
(* on timeout, two build options) terminates like one the stack ends.      *)
(***************************************************************************)
EXTENDS Naturals, Sequences, SequencesExt

CONSTANTS
  Sessions,             (* handles of Bluetooth sessions                   *)
  MaxContexts,          (* bound: contexts the heap has room for           *)
  PeerMaySuspend,       (* the user device may suspend the ranging         *)
  SuspendWhenUnsecured, (* CONFIG_..._SUSPEND_RANGING_WHEN_UNSECURED       *)
  DriverMayFail         (* the driver may fail to terminate a session      *)

ASSUME ContextsAssumption == MaxContexts \in Nat \ {0}
ASSUME OptionsAssumption ==
  {PeerMaySuspend, SuspendWhenUnsecured, DriverMayFail} \subseteq BOOLEAN
ASSUME SessionsAssumption == "none" \notin Sessions

VARIABLES
  contexts,   (* mActiveSessions                                           *)
  stack,      (* the stack's view of every session                         *)
  uwb,        (* the driver's view of every session                        *)
  op,         (* what each thread is doing                                 *)
  unsecured,  (* SuspendActiveRangingSessions is to be called              *)
  toSuspend,  (* the sessions it has found and not yet suspended           *)
  door,       (* the last action asked of the lock                         *)
  orderly     (* history: the threads took turns, nothing was suspended    *)
              (* and the driver did what it was told                       *)

suspension == <<unsecured, toSuspend>>
vars == <<contexts, stack, uwb, op, suspension, door, orderly>>

Threads == {"driver", "workqueue"}
Idle    == [at |-> "idle", session |-> "none", allow |-> FALSE,
            update |-> FALSE, cause |-> "none"]

MayBegin(t) == op[t] = Idle

Begin(t, at, s, allow, cause) ==
  /\ MayBegin(t)
  /\ op' = [op EXCEPT ![t] = [at |-> at, session |-> s, allow |-> allow,
                              update |-> TRUE, cause |-> cause]]

(* FindRangingSession: the first context of the session, 0 if it has none. *)
Find(s) ==
  LET Of == {i \in DOMAIN contexts : contexts[i].session = s}
  IN  IF Of = {} THEN 0 ELSE CHOOSE i \in Of : \A j \in Of : i <= j

IsOpenAllowed == \E i \in DOMAIN contexts : contexts[i].open

(* mRangingState matters to SuspendActiveRangingSessions only. *)
SetRanging(s, active) ==
  contexts' = IF SuspendWhenUnsecured /\ Find(s) # 0
              THEN [contexts EXCEPT ![Find(s)].active = active] ELSE contexts

(* One of the threads does not work. *)
TakeTurns == orderly' = (orderly /\ \E t \in Threads : op[t] = Idle /\ op'[t] = Idle)
Disorder  == orderly' = FALSE

-----------------------------------------------------------------------------
(* The Aliro workqueue *)

(* VerifyAccessCredential and VerifyKPersistentKey succeed: a context is    *)
(* added, unless there is no memory.                                        *)
AllocateRangingSession(s) ==
  /\ MayBegin("workqueue") /\ stack[s] = "none"
  /\ IF Len(contexts) < MaxContexts
     THEN /\ contexts' = Append(contexts, [session |-> s, open |-> FALSE, active |-> FALSE])
          /\ stack' = [stack EXCEPT ![s] = "granted"]
     ELSE /\ stack' = [stack EXCEPT ![s] = "denied"]
          /\ UNCHANGED contexts
  /\ UNCHANGED <<uwb, op, suspension, door>> /\ TakeTurns

(* AddRangingSession: a session that cannot be configured is removed. *)
AddRangingSession(s) ==
  /\ stack[s] = "granted"
  /\ \/ /\ MayBegin("workqueue") /\ Find(s) # 0
        /\ uwb' = [uwb EXCEPT ![s] = "idle"]
        /\ stack' = [stack EXCEPT ![s] = "ranging"]
        /\ UNCHANGED op
     \/ /\ Find(s) # 0
        /\ Begin("workqueue", "remove", s, FALSE, "start")
        /\ stack' = [stack EXCEPT ![s] = "denied"]
        /\ UNCHANGED uwb
  /\ UNCHANGED <<contexts, suspension, door>> /\ TakeTurns

HandleSessionTermination(s) ==
  /\ stack[s] # "none"
  /\ Begin("workqueue", "set", s, FALSE, "termination")
  /\ UNCHANGED <<contexts, stack, uwb, suspension, door>> /\ TakeTurns

(* Mutant: a context is kept when its session never got as far as ranging. *)
RemoveOnlyRanging ==
  LET s == op["workqueue"].session IN
  /\ op["workqueue"].at = "remove"
  /\ op' = [op EXCEPT !["workqueue"] = Idle]
  /\ stack' = IF op["workqueue"].cause = "termination"
              THEN [stack EXCEPT ![s] = "none"] ELSE stack
  /\ \/ /\ uwb' = [uwb EXCEPT ![s] = "none"] /\ TakeTurns
        /\ contexts' = IF uwb[s] = "none" \/ Find(s) = 0 THEN contexts
                       ELSE RemoveAt(contexts, Find(s))
     \/ DriverMayFail /\ Disorder /\ UNCHANGED <<uwb, contexts>>
  /\ UNCHANGED <<suspension, door>>

(* Mutant: the driver is not told. *)
RemoveWithoutDriver ==
  LET s == op["workqueue"].session IN
  /\ op["workqueue"].at = "remove"
  /\ op' = [op EXCEPT !["workqueue"] = Idle]
  /\ stack' = IF op["workqueue"].cause = "termination"
              THEN [stack EXCEPT ![s] = "none"] ELSE stack
  /\ contexts' = IF Find(s) = 0 THEN contexts ELSE RemoveAt(contexts, Find(s))
  /\ UNCHANGED <<uwb, suspension, door>> /\ TakeTurns

(* If the driver fails, the context stays in the list. *)
RemoveRangingSession ==
  LET s == op["workqueue"].session IN
  /\ op["workqueue"].at = "remove"
  /\ op' = [op EXCEPT !["workqueue"] = Idle]
  /\ stack' = IF op["workqueue"].cause = "termination"
              THEN [stack EXCEPT ![s] = "none"] ELSE stack
  /\ \/ /\ uwb' = [uwb EXCEPT ![s] = "none"] /\ TakeTurns
        /\ contexts' = IF Find(s) = 0 THEN contexts ELSE RemoveAt(contexts, Find(s))
     \/ DriverMayFail /\ Disorder /\ UNCHANGED <<uwb, contexts>>
  /\ UNCHANGED <<suspension, door>>

-----------------------------------------------------------------------------
(* The callbacks of the driver *)

(* EvaluateUwbOpenAllowed.  A distance is within the limit, within the exit *)
(* margin, or beyond; the margin counts for a session that is open.         *)
EvaluateUwbOpenAllowed(s, distance) ==
  /\ Find(s) # 0
  /\ \/ distance = "near"
     \/ distance = "margin" /\ contexts[Find(s)].open

(* HandleRangingSessionData *)
RangingData(s, distance) ==
  /\ uwb[s] \in {"ranging", "suspending"}
  /\ Begin("driver", "set", s, EvaluateUwbOpenAllowed(s, distance), "data")
  /\ UNCHANGED <<contexts, stack, uwb, suspension, door>> /\ TakeTurns

(* HandleRangingSessionStateChanged: Ranging or RangingResumed. *)
RangingStarted(s) ==
  /\ MayBegin("driver") /\ uwb[s] \in {"idle", "suspended"}
  /\ uwb' = [uwb EXCEPT ![s] = "ranging"]
  /\ SetRanging(s, TRUE)
  /\ UNCHANGED <<stack, op, suspension, door>> /\ TakeTurns

(* RangingSuspended: asked for by the peer or by the application. *)
RangingSuspended(s) ==
  /\ uwb[s] = "suspending" \/ (PeerMaySuspend /\ uwb[s] = "ranging")
  /\ uwb' = [uwb EXCEPT ![s] = "suspended"]
  /\ Begin("driver", "check", s, FALSE, "suspended")
  /\ SetRanging(s, FALSE)
  /\ UNCHANGED <<stack, suspension, door>> /\ Disorder

(* Mutant: the reader state is updated. *)
CheckUpdates ==
  /\ op["driver"].at = "check"
  /\ op' = [op EXCEPT !["driver"].at = "set", !["driver"].update = TRUE]
  /\ UNCHANGED <<contexts, stack, uwb, suspension, door>> /\ TakeTurns

(* The argument !IsOpenAllowed() of SetOpenAllowed. *)
CheckOpenAllowed ==
  /\ op["driver"].at = "check"
  /\ op' = [op EXCEPT !["driver"].at = "set", !["driver"].update = ~IsOpenAllowed]
  /\ UNCHANGED <<contexts, stack, uwb, suspension, door>> /\ TakeTurns

RangingDestroyed(s) ==
  /\ uwb[s] # "none"
  /\ uwb' = [uwb EXCEPT ![s] = "none"]
  /\ Begin("driver", "set", s, FALSE, "destroyed")
  /\ SetRanging(s, FALSE)
  /\ UNCHANGED <<stack, suspension, door>> /\ TakeTurns

-----------------------------------------------------------------------------
(* SetOpenAllowed, in either thread; it goes on to at, or returns. *)
GoTo(t, at) == op' = [op EXCEPT ![t].at = at]

Return(t) ==
  op' = [op EXCEPT ![t] = IF t = "workqueue" THEN [@ EXCEPT !.at = "remove"] ELSE Idle]

(* Mutant: whether another session is open is not asked. *)
SetAlwaysUnlocks(t) ==
  LET i == Find(op[t].session) IN
  /\ op[t].at = "set"
  /\ IF i # 0 /\ contexts[i].open # op[t].allow
     THEN /\ contexts' = [contexts EXCEPT ![i].open = op[t].allow]
          /\ IF ~op[t].update THEN Return(t)
             ELSE GoTo(t, IF op[t].allow THEN "unlock" ELSE "lock")
     ELSE Return(t) /\ UNCHANGED contexts
  /\ UNCHANGED <<stack, uwb, suspension, door>> /\ TakeTurns

SetOpenAllowed(t) ==
  LET i == Find(op[t].session) IN
  /\ op[t].at = "set"
  /\ IF i # 0 /\ contexts[i].open # op[t].allow
     THEN /\ contexts' = [contexts EXCEPT ![i].open = op[t].allow]
          /\ IF ~op[t].allow THEN GoTo(t, "aggregate")
             ELSE IF op[t].update /\ ~IsOpenAllowed THEN GoTo(t, "unlock") ELSE Return(t)
     ELSE Return(t) /\ UNCHANGED contexts
  /\ UNCHANGED <<stack, uwb, suspension, door>> /\ TakeTurns

Aggregate(t) ==
  /\ op[t].at = "aggregate"
  /\ IF op[t].update /\ ~IsOpenAllowed THEN GoTo(t, "lock") ELSE Return(t)
  /\ UNCHANGED <<contexts, stack, uwb, suspension, door>> /\ TakeTurns

UnlockAction(t) ==
  /\ op[t].at = "unlock" /\ door' = "unlocked"
  /\ unsecured' = SuspendWhenUnsecured
  /\ Return(t)
  /\ UNCHANGED <<contexts, stack, uwb, toSuspend>> /\ TakeTurns

LockAction(t) ==
  /\ op[t].at = "lock" /\ door' = "locked"
  /\ Return(t)
  /\ UNCHANGED <<contexts, stack, uwb, suspension>> /\ TakeTurns

-----------------------------------------------------------------------------
(* SuspendActiveRangingSessions, called when the lock is unsecured: the     *)
(* sessions are found under sMutex and suspended after it is released.      *)
FindActiveSessions ==
  /\ unsecured /\ unsecured' = FALSE
  /\ toSuspend' = {contexts[i].session : i \in {j \in DOMAIN contexts : contexts[j].active}}
  /\ UNCHANGED <<contexts, stack, uwb, op, door>> /\ TakeTurns

SuspendRangingSession(s) ==
  /\ s \in toSuspend /\ toSuspend' = toSuspend \ {s}
  /\ uwb' = IF uwb[s] = "ranging" THEN [uwb EXCEPT ![s] = "suspending"] ELSE uwb
  /\ UNCHANGED <<contexts, stack, op, unsecured, door>>
  /\ IF uwb' = uwb THEN TakeTurns ELSE Disorder

Init ==
  /\ contexts = <<>>
  /\ stack = [s \in Sessions |-> "none"] /\ uwb = [s \in Sessions |-> "none"]
  /\ op = [t \in Threads |-> Idle]
  /\ unsecured = FALSE /\ toSuspend = {}
  /\ door = "locked" /\ orderly = TRUE

Workqueue ==
  \/ \E s \in Sessions : \/ AllocateRangingSession(s) \/ AddRangingSession(s)
                         \/ HandleSessionTermination(s)
  \/ RemoveRangingSession

Driver ==
  \/ \E s \in Sessions : \/ \E distance \in {"near", "margin", "far"} : RangingData(s, distance)
                         \/ RangingStarted(s) \/ RangingSuspended(s) \/ RangingDestroyed(s)
  \/ CheckOpenAllowed

Either == \E t \in Threads :
  SetOpenAllowed(t) \/ Aggregate(t) \/ UnlockAction(t) \/ LockAction(t)

Suspend == FindActiveSessions \/ \E s \in Sessions : SuspendRangingSession(s)

Next == Workqueue \/ Driver \/ Either \/ Suspend

Spec == Init /\ [][Next]_vars

-----------------------------------------------------------------------------
(* Type invariant. *)
TypeOK ==
  /\ contexts \in Seq([session : Sessions, open : BOOLEAN, active : BOOLEAN])
  /\ Len(contexts) <= MaxContexts
  /\ stack \in [Sessions -> {"none", "granted", "ranging", "denied"}]
  /\ uwb \in [Sessions -> {"none", "idle", "ranging", "suspending", "suspended"}]
  /\ op \in [Threads ->
       [at : {"idle", "set", "check", "aggregate", "unlock", "lock", "remove"},
        session : Sessions \union {"none"}, allow : BOOLEAN, update : BOOLEAN,
        cause : {"none", "start", "termination", "data", "suspended", "destroyed"}]]
  /\ {unsecured, orderly} \subseteq BOOLEAN /\ toSuspend \subseteq Sessions
  /\ door \in {"locked", "unlocked"}

Quiet == \A t \in Threads : op[t] = Idle

(* The driver has no session that the Access Manager has no context for:    *)
(* its distances would find nobody, and nobody would terminate it.          *)
NoOrphanedRanging ==
  /\ TypeOK
  /\ \A s \in Sessions : uwb[s] # "none" => Find(s) # 0

(* access_manager.h: suspending a session never locks the door, whoever     *)
(* asked for it and whatever session terminates meanwhile.                  *)
SuspensionNeverLocks ==
  \A t \in Threads : op[t].at = "lock" => op[t].cause # "suspended"

(* While things are orderly, every context is that of a session that was    *)
(* granted and is not terminated, and each has one: the next user of the    *)
(* handle starts with a session that is closed.                             *)
OneContextPerSession == orderly =>
  /\ \A i \in DOMAIN contexts :
       \/ stack[contexts[i].session] \in {"granted", "ranging"}
       \/ op["workqueue"].at = "remove" /\ op["workqueue"].session = contexts[i].session
  /\ \A i, j \in DOMAIN contexts :
       contexts[i].session = contexts[j].session => i = j

(* While things are orderly, the door is unlocked while a session in range  *)
(* is open, and locked when the last one is gone, by whatever way each of   *)
(* them went.                                                               *)
DoorFollowsSessions == orderly /\ Quiet => (door = "unlocked" <=> IsOpenAllowed)
=============================================================================
