-------------------------- MODULE NfcTransportProofs --------------------------
(* Theorems about NfcTransport: its types, that the worker is never left       *)
(* behind, that the tag of the transport is the one RFAL holds and that the    *)
(* end of a session does not cut an exchange, whenever Start, Stop and the     *)
(* stack come in. One lemma per invariant, one step per action.                *)
EXTENDS NfcTransport, TLAPS

(* An exchange runs only for a send in progress, whose answer the stack waits  *)
(* for; while it runs, the worker has nothing to write but its end.            *)
ExchangeInv ==
    /\ todo # "dataexchange"
    /\ st = "dataexchange" => /\ sending /\ session # "open"
                              /\ pc = "write" => todo = "done"

(* The chip is in wake-up mode on the way to that state, in it, or behind a    *)
(* Stop that ran beside.                                                       *)
WakeUpInv ==
    chip = "wakeup" => todo = "wakeup" \/ (st \in {"wakeup", "idle"} /\ todo = "none")

(* Between a Stop and the rest of the transport: unless they ran side by side, *)
(* the Aliro thread rests while the Stop runs, and a tag it stops is marked.   *)
StopInv ==
    /\ Stopping <=> stopAt # "idle"
    /\ Stopping /\ ~overlap => pc = "idle" /\ (tag => cut)

(* A tag in good order is connected, and its worker can only end an exchange;  *)
(* a device is about to be reported as activated only if there is one.         *)
TagInv ==
    /\ TagIsActive
    /\ tag /\ ~cut /\ ~overlap /\ pc = "write" => todo = "done"
    /\ pc = "write" /\ todo = "activated" /\ ~overlap => active # "none"

(* The chip on the way to silence, for a Stop that runs alone; RFAL is idle    *)
(* only with the chip off, and its own deactivations never make it idle.       *)
SilentInv ==
    ~overlap =>
        /\ stopAt = "deactivate" => deact = "idle"
        /\ stopAt = "write" => chip = "off"
        /\ stopAt = "clear" => st = "idle"
        /\ st = "idle" => chip = "off" /\ pc # "write"
        /\ "deactivation" \in {st, todo} /\ ~Stopping => deact # "idle"
        /\ todo # "idle"
        /\ ~started /\ ~Stopping /\ pc # "starting" => pc = "idle" /\ st = "idle"

(* The two halves of the types. *)
FlagTypes ==
    /\ started \in BOOLEAN /\ recover \in BOOLEAN /\ sending \in BOOLEAN /\ tag \in BOOLEAN
    /\ multiSel \in BOOLEAN /\ work \in BOOLEAN /\ many \in BOOLEAN
    /\ cut \in BOOLEAN /\ stale \in BOOLEAN /\ overlap \in BOOLEAN

StateTypes ==
    /\ st \in States /\ active \in {"none", "phone", "other"} /\ first \in {"none", "phone", "other"}
    /\ deact \in {"idle", "discovery", "sleep"}
    /\ chip \in {"off", "field", "wakeup"} /\ polls \in 0..NPolls /\ woke \in {"no", "raised", "yes"}
    /\ woke # "no" => chip = "wakeup"
    /\ pc \in {"idle", "starting", "recover", "worker", "write", "reschedule"}
    /\ todo \in States \cup {"none"} /\ (todo # "none" <=> pc = "write")
    /\ stopBy \in {"none", "aliro", "matter"} /\ stopAt \in {"idle", "deactivate", "write", "clear"}
    /\ session \in {"none", "open", "waiting", "closing"}

IInv == TypeOK /\ ExchangeInv /\ WakeUpInv /\ StopInv /\ TagInv /\ SilentInv /\ WorkerAlive

(* The steps keep the types of the flags. *)
LEMMA FlagStep == IInv /\ [Next]_vars => FlagTypes'
<1> SUFFICES ASSUME IInv, [Next]_vars PROVE FlagTypes'
  OBVIOUS
<1> USE DEF IInv, TypeOK, FlagTypes, vars, rfal, transport, history, stop
<1>1. CASE Start
  BY <1>1 DEF Start, AliroIdle
<1>2. CASE StartFails
  BY <1>2 DEF StartFails, AliroIdle, Beside
<1>3. CASE FinishStart
  BY <1>3 DEF FinishStart, Beside
<1>4. ASSUME NEW t \in {"aliro", "matter"}, BeginStop(t) PROVE FlagTypes'
  BY <1>4 DEF BeginStop, AliroIdle
<1>5. CASE StopDeactivates
  BY <1>5 DEF StopDeactivates, Deactivation
<1>6. CASE StopWrites
  BY <1>6 DEF StopWrites
<1>7. CASE FinishStop
  BY <1>7 DEF FinishStop
<1>8. CASE Execute
  BY <1>8 DEF Execute, AliroIdle, Beside
<1>9. CASE RecoverPolling
  BY <1>9 DEF RecoverPolling, CanRecover
<1>10. CASE Complete
  <2>1. CASE Discover
    BY <1>10, <2>1 DEF Complete, Discover, Becomes
  <2>2. CASE WakeUp
    BY <1>10, <2>2 DEF Complete, WakeUp, Becomes
  <2>3. CASE PollTechDetection
    BY <1>10, <2>3 DEF Complete, PollTechDetection, Becomes
  <2>4. CASE PollCollResolution
    BY <1>10, <2>4 DEF Complete, PollCollResolution, Becomes
  <2>5. CASE PollActivation
    BY <1>10, <2>5 DEF Complete, PollActivation, Becomes
  <2>6. CASE DataExchange
    BY <1>10, <2>6 DEF Complete, DataExchange, Becomes
  <2>7. CASE Deactivate
    BY <1>10, <2>7 DEF Complete, Deactivate, Deactivation, Becomes
  <2>8. CASE Listen
    BY <1>10, <2>8 DEF Complete, Listen, Becomes
  <2> QED
    BY <1>10, <2>1, <2>2, <2>3, <2>4, <2>5, <2>6, <2>7, <2>8 DEF Complete, Operation
<1>11. CASE Busy
  BY <1>11 DEF Busy
<1>12. CASE Write
  <2>1. CASE NotifySelect
    BY <1>12, <2>1 DEF Write, NotifySelect
  <2>2. CASE NotifyStart
    BY <1>12, <2>2 DEF Write, NotifyStart
  <2>3. CASE NotifyActivated
    BY <1>12, <2>3 DEF Write, NotifyActivated
  <2>4. CASE NotifyDone
    BY <1>12, <2>4 DEF Write, NotifyDone
  <2>5. CASE NotifyNothing
    BY <1>12, <2>5 DEF Write, NotifyNothing
  <2> QED
    BY <1>12, <2>1, <2>2, <2>3, <2>4, <2>5 DEF Write
<1>13. CASE Reschedule
  BY <1>13 DEF Reschedule
<1>14. CASE Send
  BY <1>14 DEF Send, StackRuns, AliroIdle, Beside
<1>15. CASE Terminate
  BY <1>15 DEF Terminate, StackRuns, AliroIdle
<1>16. CASE Interrupt
  BY <1>16 DEF Interrupt
<1>17. CASE ReadInterrupt
  BY <1>17 DEF ReadInterrupt
<1>18. CASE UNCHANGED vars
  BY <1>18
<1> QED
  BY <1>1, <1>2, <1>3, <1>4, <1>5, <1>6, <1>7, <1>8, <1>9, <1>10, <1>11,
     <1>12, <1>13, <1>14, <1>15, <1>16, <1>17, <1>18 DEF Next

(* The steps keep the types of the states. *)
LEMMA StateStep == IInv /\ [Next]_vars => StateTypes'
<1> SUFFICES ASSUME IInv, [Next]_vars PROVE StateTypes'
  OBVIOUS
<1> USE PollsAssumption DEF IInv, TypeOK, WakeUpInv, StateTypes, States, Connected,
    vars, rfal, transport, history, stop
<1>1. CASE Start
  BY <1>1 DEF Start, AliroIdle
<1>2. CASE StartFails
  BY <1>2 DEF StartFails, AliroIdle, Beside
<1>3. CASE FinishStart
  BY <1>3 DEF FinishStart, Beside
<1>4. ASSUME NEW t \in {"aliro", "matter"}, BeginStop(t) PROVE StateTypes'
  BY <1>4 DEF BeginStop, AliroIdle
<1>5. CASE StopDeactivates
  BY <1>5 DEF StopDeactivates, Deactivation
<1>6. CASE StopWrites
  BY <1>6 DEF StopWrites
<1>7. CASE FinishStop
  BY <1>7 DEF FinishStop
<1>8. CASE Execute
  BY <1>8 DEF Execute, AliroIdle, Beside
<1>9. CASE RecoverPolling
  BY <1>9 DEF RecoverPolling, CanRecover
<1>10. CASE Complete
  <2>1. CASE Discover
    BY <1>10, <2>1 DEF Complete, Discover, Becomes
  <2>2. CASE WakeUp
    BY <1>10, <2>2 DEF Complete, WakeUp, Becomes
  <2>3. CASE PollTechDetection
    BY <1>10, <2>3 DEF Complete, PollTechDetection, Becomes
  <2>4. CASE PollCollResolution
    BY <1>10, <2>4 DEF Complete, PollCollResolution, Becomes
  <2>5. CASE PollActivation
    BY <1>10, <2>5 DEF Complete, PollActivation, Becomes
  <2>6. CASE DataExchange
    BY <1>10, <2>6 DEF Complete, DataExchange, Becomes
  <2>7. CASE Deactivate
    BY <1>10, <2>7 DEF Complete, Deactivate, Deactivation, Becomes
  <2>8. CASE Listen
    BY <1>10, <2>8 DEF Complete, Listen, Becomes
  <2> QED
    BY <1>10, <2>1, <2>2, <2>3, <2>4, <2>5, <2>6, <2>7, <2>8 DEF Complete, Operation
<1>11. CASE Busy
  BY <1>11 DEF Busy
<1>12. CASE Write
  <2>1. CASE NotifySelect
    BY <1>12, <2>1 DEF Write, NotifySelect
  <2>2. CASE NotifyStart
    BY <1>12, <2>2 DEF Write, NotifyStart
  <2>3. CASE NotifyActivated
    BY <1>12, <2>3 DEF Write, NotifyActivated
  <2>4. CASE NotifyDone
    BY <1>12, <2>4 DEF Write, NotifyDone
  <2>5. CASE NotifyNothing
    BY <1>12, <2>5 DEF Write, NotifyNothing
  <2> QED
    BY <1>12, <2>1, <2>2, <2>3, <2>4, <2>5 DEF Write
<1>13. CASE Reschedule
  BY <1>13 DEF Reschedule
<1>14. CASE Send
  BY <1>14 DEF Send, StackRuns, AliroIdle, Beside
<1>15. CASE Terminate
  BY <1>15 DEF Terminate, StackRuns, AliroIdle
<1>16. CASE Interrupt
  BY <1>16 DEF Interrupt
<1>17. CASE ReadInterrupt
  BY <1>17 DEF ReadInterrupt
<1>18. CASE UNCHANGED vars
  BY <1>18
<1> QED
  BY <1>1, <1>2, <1>3, <1>4, <1>5, <1>6, <1>7, <1>8, <1>9, <1>10, <1>11,
     <1>12, <1>13, <1>14, <1>15, <1>16, <1>17, <1>18 DEF Next

(* An exchange and the send it stands for. *)
LEMMA ExchangeStep == IInv /\ [Next]_vars => ExchangeInv'
<1> SUFFICES ASSUME IInv, [Next]_vars PROVE ExchangeInv'
  OBVIOUS
<1> USE DEF IInv, TypeOK, ExchangeInv, States, Connected, vars, rfal, transport,
    history, stop
<1>1. CASE Start
  BY <1>1 DEF Start, AliroIdle
<1>2. CASE StartFails
  BY <1>2 DEF StartFails, AliroIdle, Beside
<1>3. CASE FinishStart
  BY <1>3 DEF FinishStart, Beside
<1>4. ASSUME NEW t \in {"aliro", "matter"}, BeginStop(t) PROVE ExchangeInv'
  BY <1>4 DEF BeginStop, AliroIdle
<1>5. CASE StopDeactivates
  BY <1>5 DEF StopDeactivates, Deactivation
<1>6. CASE StopWrites
  BY <1>6 DEF StopWrites
<1>7. CASE FinishStop
  BY <1>7 DEF FinishStop
<1>8. CASE Execute
  BY <1>8 DEF Execute, AliroIdle, Beside
<1>9. CASE RecoverPolling
  BY <1>9 DEF RecoverPolling, CanRecover
<1>10. CASE Complete
  <2>1. CASE Discover
    BY <1>10, <2>1 DEF Complete, Discover, Becomes
  <2>2. CASE WakeUp
    BY <1>10, <2>2 DEF Complete, WakeUp, Becomes
  <2>3. CASE PollTechDetection
    BY <1>10, <2>3 DEF Complete, PollTechDetection, Becomes
  <2>4. CASE PollCollResolution
    BY <1>10, <2>4 DEF Complete, PollCollResolution, Becomes
  <2>5. CASE PollActivation
    BY <1>10, <2>5 DEF Complete, PollActivation, Becomes
  <2>6. CASE DataExchange
    BY <1>10, <2>6 DEF Complete, DataExchange, Becomes
  <2>7. CASE Deactivate
    BY <1>10, <2>7 DEF Complete, Deactivate, Deactivation, Becomes
  <2>8. CASE Listen
    BY <1>10, <2>8 DEF Complete, Listen, Becomes
  <2> QED
    BY <1>10, <2>1, <2>2, <2>3, <2>4, <2>5, <2>6, <2>7, <2>8 DEF Complete, Operation
<1>11. CASE Busy
  BY <1>11 DEF Busy
<1>12. CASE Write
  <2>1. CASE NotifySelect
    BY <1>12, <2>1 DEF Write, NotifySelect
  <2>2. CASE NotifyStart
    BY <1>12, <2>2 DEF Write, NotifyStart
  <2>3. CASE NotifyActivated
    BY <1>12, <2>3 DEF Write, NotifyActivated
  <2>4. CASE NotifyDone
    BY <1>12, <2>4 DEF Write, NotifyDone
  <2>5. CASE NotifyNothing
    BY <1>12, <2>5 DEF Write, NotifyNothing
  <2> QED
    BY <1>12, <2>1, <2>2, <2>3, <2>4, <2>5 DEF Write
<1>13. CASE Reschedule
  BY <1>13 DEF Reschedule
<1>14. CASE Send
  BY <1>14 DEF Send, StackRuns, AliroIdle, Beside
<1>15. CASE Terminate
  BY <1>15 DEF Terminate, StackRuns, AliroIdle
<1>16. CASE Interrupt
  BY <1>16 DEF Interrupt
<1>17. CASE ReadInterrupt
  BY <1>17 DEF ReadInterrupt
<1>18. CASE UNCHANGED vars
  BY <1>18
<1> QED
  BY <1>1, <1>2, <1>3, <1>4, <1>5, <1>6, <1>7, <1>8, <1>9, <1>10, <1>11,
     <1>12, <1>13, <1>14, <1>15, <1>16, <1>17, <1>18 DEF Next

(* The wake-up mode of the chip and that of RFAL. *)
LEMMA WakeUpStep == IInv /\ [Next]_vars => WakeUpInv'
<1> SUFFICES ASSUME IInv, [Next]_vars PROVE WakeUpInv'
  OBVIOUS
<1> USE DEF IInv, TypeOK, WakeUpInv, States, Connected, vars, rfal, transport, history,
    stop
<1>1. CASE Start
  BY <1>1 DEF Start, AliroIdle
<1>2. CASE StartFails
  BY <1>2 DEF StartFails, AliroIdle, Beside
<1>3. CASE FinishStart
  BY <1>3 DEF FinishStart, Beside
<1>4. ASSUME NEW t \in {"aliro", "matter"}, BeginStop(t) PROVE WakeUpInv'
  BY <1>4 DEF BeginStop, AliroIdle
<1>5. CASE StopDeactivates
  BY <1>5 DEF StopDeactivates, Deactivation
<1>6. CASE StopWrites
  BY <1>6 DEF StopWrites
<1>7. CASE FinishStop
  BY <1>7 DEF FinishStop
<1>8. CASE Execute
  BY <1>8 DEF Execute, AliroIdle, Beside
<1>9. CASE RecoverPolling
  BY <1>9 DEF RecoverPolling, CanRecover
<1>10. CASE Complete
  <2>1. CASE Discover
    BY <1>10, <2>1 DEF Complete, Discover, Becomes
  <2>2. CASE WakeUp
    BY <1>10, <2>2 DEF Complete, WakeUp, Becomes
  <2>3. CASE PollTechDetection
    BY <1>10, <2>3 DEF Complete, PollTechDetection, Becomes
  <2>4. CASE PollCollResolution
    BY <1>10, <2>4 DEF Complete, PollCollResolution, Becomes
  <2>5. CASE PollActivation
    BY <1>10, <2>5 DEF Complete, PollActivation, Becomes
  <2>6. CASE DataExchange
    BY <1>10, <2>6 DEF Complete, DataExchange, Becomes
  <2>7. CASE Deactivate
    BY <1>10, <2>7 DEF Complete, Deactivate, Deactivation, Becomes
  <2>8. CASE Listen
    BY <1>10, <2>8 DEF Complete, Listen, Becomes
  <2> QED
    BY <1>10, <2>1, <2>2, <2>3, <2>4, <2>5, <2>6, <2>7, <2>8 DEF Complete, Operation
<1>11. CASE Busy
  BY <1>11 DEF Busy
<1>12. CASE Write
  <2>1. CASE NotifySelect
    BY <1>12, <2>1 DEF Write, NotifySelect
  <2>2. CASE NotifyStart
    BY <1>12, <2>2 DEF Write, NotifyStart
  <2>3. CASE NotifyActivated
    BY <1>12, <2>3 DEF Write, NotifyActivated
  <2>4. CASE NotifyDone
    BY <1>12, <2>4 DEF Write, NotifyDone
  <2>5. CASE NotifyNothing
    BY <1>12, <2>5 DEF Write, NotifyNothing
  <2> QED
    BY <1>12, <2>1, <2>2, <2>3, <2>4, <2>5 DEF Write
<1>13. CASE Reschedule
  BY <1>13 DEF Reschedule
<1>14. CASE Send
  BY <1>14 DEF Send, StackRuns, AliroIdle, Beside
<1>15. CASE Terminate
  BY <1>15 DEF Terminate, StackRuns, AliroIdle
<1>16. CASE Interrupt
  BY <1>16 DEF Interrupt
<1>17. CASE ReadInterrupt
  BY <1>17 DEF ReadInterrupt
<1>18. CASE UNCHANGED vars
  BY <1>18
<1> QED
  BY <1>1, <1>2, <1>3, <1>4, <1>5, <1>6, <1>7, <1>8, <1>9, <1>10, <1>11,
     <1>12, <1>13, <1>14, <1>15, <1>16, <1>17, <1>18 DEF Next

(* A Stop that runs alone meets an idle Aliro thread. *)
LEMMA StopStep == IInv /\ [Next]_vars => StopInv'
<1> SUFFICES ASSUME IInv, [Next]_vars PROVE StopInv'
  OBVIOUS
<1> USE DEF IInv, TypeOK, StopInv, Stopping, vars, rfal, transport, history, stop
<1>1. CASE Start
  BY <1>1 DEF Start, AliroIdle
<1>2. CASE StartFails
  BY <1>2 DEF StartFails, AliroIdle, Beside
<1>3. CASE FinishStart
  BY <1>3 DEF FinishStart, Beside
<1>4. ASSUME NEW t \in {"aliro", "matter"}, BeginStop(t) PROVE StopInv'
  BY <1>4 DEF BeginStop, AliroIdle
<1>5. CASE StopDeactivates
  BY <1>5 DEF StopDeactivates, Deactivation
<1>6. CASE StopWrites
  BY <1>6 DEF StopWrites
<1>7. CASE FinishStop
  BY <1>7 DEF FinishStop
<1>8. CASE Execute
  BY <1>8 DEF Execute, AliroIdle, Beside
<1>9. CASE RecoverPolling
  BY <1>9 DEF RecoverPolling, CanRecover
<1>10. CASE Complete
  <2>1. CASE Discover
    BY <1>10, <2>1 DEF Complete, Discover, Becomes
  <2>2. CASE WakeUp
    BY <1>10, <2>2 DEF Complete, WakeUp, Becomes
  <2>3. CASE PollTechDetection
    BY <1>10, <2>3 DEF Complete, PollTechDetection, Becomes
  <2>4. CASE PollCollResolution
    BY <1>10, <2>4 DEF Complete, PollCollResolution, Becomes
  <2>5. CASE PollActivation
    BY <1>10, <2>5 DEF Complete, PollActivation, Becomes
  <2>6. CASE DataExchange
    BY <1>10, <2>6 DEF Complete, DataExchange, Becomes
  <2>7. CASE Deactivate
    BY <1>10, <2>7 DEF Complete, Deactivate, Deactivation, Becomes
  <2>8. CASE Listen
    BY <1>10, <2>8 DEF Complete, Listen, Becomes
  <2> QED
    BY <1>10, <2>1, <2>2, <2>3, <2>4, <2>5, <2>6, <2>7, <2>8 DEF Complete, Operation
<1>11. CASE Busy
  BY <1>11 DEF Busy
<1>12. CASE Write
  <2>1. CASE NotifySelect
    BY <1>12, <2>1 DEF Write, NotifySelect
  <2>2. CASE NotifyStart
    BY <1>12, <2>2 DEF Write, NotifyStart
  <2>3. CASE NotifyActivated
    BY <1>12, <2>3 DEF Write, NotifyActivated
  <2>4. CASE NotifyDone
    BY <1>12, <2>4 DEF Write, NotifyDone
  <2>5. CASE NotifyNothing
    BY <1>12, <2>5 DEF Write, NotifyNothing
  <2> QED
    BY <1>12, <2>1, <2>2, <2>3, <2>4, <2>5 DEF Write
<1>13. CASE Reschedule
  BY <1>13 DEF Reschedule
<1>14. CASE Send
  BY <1>14 DEF Send, StackRuns, AliroIdle, Beside
<1>15. CASE Terminate
  BY <1>15 DEF Terminate, StackRuns, AliroIdle
<1>16. CASE Interrupt
  BY <1>16 DEF Interrupt
<1>17. CASE ReadInterrupt
  BY <1>17 DEF ReadInterrupt
<1>18. CASE UNCHANGED vars
  BY <1>18
<1> QED
  BY <1>1, <1>2, <1>3, <1>4, <1>5, <1>6, <1>7, <1>8, <1>9, <1>10, <1>11,
     <1>12, <1>13, <1>14, <1>15, <1>16, <1>17, <1>18 DEF Next

(* The tag follows the device of RFAL. *)
LEMMA TagStep == IInv /\ [Next]_vars => TagInv'
<1> SUFFICES ASSUME IInv, [Next]_vars PROVE TagInv'
  OBVIOUS
<1> USE DEF IInv, TypeOK, StopInv, TagInv, TagIsActive, Stopping, States, Connected,
    vars, rfal, transport, history, stop
<1>1. CASE Start
  BY <1>1 DEF Start, AliroIdle
<1>2. CASE StartFails
  BY <1>2 DEF StartFails, AliroIdle, Beside
<1>3. CASE FinishStart
  BY <1>3 DEF FinishStart, Beside
<1>4. ASSUME NEW t \in {"aliro", "matter"}, BeginStop(t) PROVE TagInv'
  BY <1>4 DEF BeginStop, AliroIdle
<1>5. CASE StopDeactivates
  BY <1>5 DEF StopDeactivates, Deactivation
<1>6. CASE StopWrites
  BY <1>6 DEF StopWrites
<1>7. CASE FinishStop
  BY <1>7 DEF FinishStop
<1>8. CASE Execute
  BY <1>8 DEF Execute, AliroIdle, Beside
<1>9. CASE RecoverPolling
  BY <1>9 DEF RecoverPolling, CanRecover
<1>10. CASE Complete
  <2>1. CASE Discover
    BY <1>10, <2>1 DEF Complete, Discover, Becomes
  <2>2. CASE WakeUp
    BY <1>10, <2>2 DEF Complete, WakeUp, Becomes
  <2>3. CASE PollTechDetection
    BY <1>10, <2>3 DEF Complete, PollTechDetection, Becomes
  <2>4. CASE PollCollResolution
    BY <1>10, <2>4 DEF Complete, PollCollResolution, Becomes
  <2>5. CASE PollActivation
    BY <1>10, <2>5 DEF Complete, PollActivation, Becomes
  <2>6. CASE DataExchange
    BY <1>10, <2>6 DEF Complete, DataExchange, Becomes
  <2>7. CASE Deactivate
    BY <1>10, <2>7 DEF Complete, Deactivate, Deactivation, Becomes
  <2>8. CASE Listen
    BY <1>10, <2>8 DEF Complete, Listen, Becomes
  <2> QED
    BY <1>10, <2>1, <2>2, <2>3, <2>4, <2>5, <2>6, <2>7, <2>8 DEF Complete, Operation
<1>11. CASE Busy
  BY <1>11 DEF Busy
<1>12. CASE Write
  <2>1. CASE NotifySelect
    BY <1>12, <2>1 DEF Write, NotifySelect
  <2>2. CASE NotifyStart
    BY <1>12, <2>2 DEF Write, NotifyStart
  <2>3. CASE NotifyActivated
    BY <1>12, <2>3 DEF Write, NotifyActivated
  <2>4. CASE NotifyDone
    BY <1>12, <2>4 DEF Write, NotifyDone
  <2>5. CASE NotifyNothing
    BY <1>12, <2>5 DEF Write, NotifyNothing
  <2> QED
    BY <1>12, <2>1, <2>2, <2>3, <2>4, <2>5 DEF Write
<1>13. CASE Reschedule
  BY <1>13 DEF Reschedule
<1>14. CASE Send
  BY <1>14 DEF Send, StackRuns, AliroIdle, Beside
<1>15. CASE Terminate
  BY <1>15 DEF Terminate, StackRuns, AliroIdle
<1>16. CASE Interrupt
  BY <1>16 DEF Interrupt
<1>17. CASE ReadInterrupt
  BY <1>17 DEF ReadInterrupt
<1>18. CASE UNCHANGED vars
  BY <1>18
<1> QED
  BY <1>1, <1>2, <1>3, <1>4, <1>5, <1>6, <1>7, <1>8, <1>9, <1>10, <1>11,
     <1>12, <1>13, <1>14, <1>15, <1>16, <1>17, <1>18 DEF Next

(* A Stop that runs alone silences the chip. *)
LEMMA SilentStep == IInv /\ [Next]_vars => SilentInv'
<1> SUFFICES ASSUME IInv, [Next]_vars PROVE SilentInv'
  OBVIOUS
<1> USE DEF IInv, TypeOK, StopInv, SilentInv, Stopping, States, Connected, vars, rfal,
    transport, history, stop
<1>1. CASE Start
  BY <1>1 DEF Start, AliroIdle
<1>2. CASE StartFails
  BY <1>2 DEF StartFails, AliroIdle, Beside
<1>3. CASE FinishStart
  BY <1>3 DEF FinishStart, Beside
<1>4. ASSUME NEW t \in {"aliro", "matter"}, BeginStop(t) PROVE SilentInv'
  BY <1>4 DEF BeginStop, AliroIdle
<1>5. CASE StopDeactivates
  BY <1>5 DEF StopDeactivates, Deactivation
<1>6. CASE StopWrites
  BY <1>6 DEF StopWrites
<1>7. CASE FinishStop
  BY <1>7 DEF FinishStop
<1>8. CASE Execute
  BY <1>8 DEF Execute, AliroIdle, Beside
<1>9. CASE RecoverPolling
  BY <1>9 DEF RecoverPolling, CanRecover
<1>10. CASE Complete
  <2>1. CASE Discover
    BY <1>10, <2>1 DEF Complete, Discover, Becomes
  <2>2. CASE WakeUp
    BY <1>10, <2>2 DEF Complete, WakeUp, Becomes
  <2>3. CASE PollTechDetection
    BY <1>10, <2>3 DEF Complete, PollTechDetection, Becomes
  <2>4. CASE PollCollResolution
    BY <1>10, <2>4 DEF Complete, PollCollResolution, Becomes
  <2>5. CASE PollActivation
    BY <1>10, <2>5 DEF Complete, PollActivation, Becomes
  <2>6. CASE DataExchange
    BY <1>10, <2>6 DEF Complete, DataExchange, Becomes
  <2>7. CASE Deactivate
    BY <1>10, <2>7 DEF Complete, Deactivate, Deactivation, Becomes
  <2>8. CASE Listen
    BY <1>10, <2>8 DEF Complete, Listen, Becomes
  <2> QED
    BY <1>10, <2>1, <2>2, <2>3, <2>4, <2>5, <2>6, <2>7, <2>8 DEF Complete, Operation
<1>11. CASE Busy
  BY <1>11 DEF Busy
<1>12. CASE Write
  <2>1. CASE NotifySelect
    BY <1>12, <2>1 DEF Write, NotifySelect
  <2>2. CASE NotifyStart
    BY <1>12, <2>2 DEF Write, NotifyStart
  <2>3. CASE NotifyActivated
    BY <1>12, <2>3 DEF Write, NotifyActivated
  <2>4. CASE NotifyDone
    BY <1>12, <2>4 DEF Write, NotifyDone
  <2>5. CASE NotifyNothing
    BY <1>12, <2>5 DEF Write, NotifyNothing
  <2> QED
    BY <1>12, <2>1, <2>2, <2>3, <2>4, <2>5 DEF Write
<1>13. CASE Reschedule
  BY <1>13 DEF Reschedule
<1>14. CASE Send
  BY <1>14 DEF Send, StackRuns, AliroIdle, Beside
<1>15. CASE Terminate
  BY <1>15 DEF Terminate, StackRuns, AliroIdle
<1>16. CASE Interrupt
  BY <1>16 DEF Interrupt
<1>17. CASE ReadInterrupt
  BY <1>17 DEF ReadInterrupt
<1>18. CASE UNCHANGED vars
  BY <1>18
<1> QED
  BY <1>1, <1>2, <1>3, <1>4, <1>5, <1>6, <1>7, <1>8, <1>9, <1>10, <1>11,
     <1>12, <1>13, <1>14, <1>15, <1>16, <1>17, <1>18 DEF Next

(* The worker is scheduled whenever it goes to rest. *)
LEMMA WorkerStep == IInv /\ [Next]_vars => WorkerAlive'
<1> SUFFICES ASSUME IInv, [Next]_vars PROVE WorkerAlive'
  OBVIOUS
<1> USE DEF IInv, TypeOK, WorkerAlive, States, Connected, vars, rfal, transport,
    history, stop
<1>1. CASE Start
  BY <1>1 DEF Start, AliroIdle
<1>2. CASE StartFails
  BY <1>2 DEF StartFails, AliroIdle, Beside
<1>3. CASE FinishStart
  BY <1>3 DEF FinishStart, Beside
<1>4. ASSUME NEW t \in {"aliro", "matter"}, BeginStop(t) PROVE WorkerAlive'
  BY <1>4 DEF BeginStop, AliroIdle
<1>5. CASE StopDeactivates
  BY <1>5 DEF StopDeactivates, Deactivation
<1>6. CASE StopWrites
  BY <1>6 DEF StopWrites
<1>7. CASE FinishStop
  BY <1>7 DEF FinishStop
<1>8. CASE Execute
  BY <1>8 DEF Execute, AliroIdle, Beside
<1>9. CASE RecoverPolling
  BY <1>9 DEF RecoverPolling, CanRecover
<1>10. CASE Complete
  <2>1. CASE Discover
    BY <1>10, <2>1 DEF Complete, Discover, Becomes
  <2>2. CASE WakeUp
    BY <1>10, <2>2 DEF Complete, WakeUp, Becomes
  <2>3. CASE PollTechDetection
    BY <1>10, <2>3 DEF Complete, PollTechDetection, Becomes
  <2>4. CASE PollCollResolution
    BY <1>10, <2>4 DEF Complete, PollCollResolution, Becomes
  <2>5. CASE PollActivation
    BY <1>10, <2>5 DEF Complete, PollActivation, Becomes
  <2>6. CASE DataExchange
    BY <1>10, <2>6 DEF Complete, DataExchange, Becomes
  <2>7. CASE Deactivate
    BY <1>10, <2>7 DEF Complete, Deactivate, Deactivation, Becomes
  <2>8. CASE Listen
    BY <1>10, <2>8 DEF Complete, Listen, Becomes
  <2> QED
    BY <1>10, <2>1, <2>2, <2>3, <2>4, <2>5, <2>6, <2>7, <2>8 DEF Complete, Operation
<1>11. CASE Busy
  BY <1>11 DEF Busy
<1>12. CASE Write
  <2>1. CASE NotifySelect
    BY <1>12, <2>1 DEF Write, NotifySelect
  <2>2. CASE NotifyStart
    BY <1>12, <2>2 DEF Write, NotifyStart
  <2>3. CASE NotifyActivated
    BY <1>12, <2>3 DEF Write, NotifyActivated
  <2>4. CASE NotifyDone
    BY <1>12, <2>4 DEF Write, NotifyDone
  <2>5. CASE NotifyNothing
    BY <1>12, <2>5 DEF Write, NotifyNothing
  <2> QED
    BY <1>12, <2>1, <2>2, <2>3, <2>4, <2>5 DEF Write
<1>13. CASE Reschedule
  BY <1>13 DEF Reschedule
<1>14. CASE Send
  BY <1>14 DEF Send, StackRuns, AliroIdle, Beside
<1>15. CASE Terminate
  BY <1>15 DEF Terminate, StackRuns, AliroIdle
<1>16. CASE Interrupt
  BY <1>16 DEF Interrupt
<1>17. CASE ReadInterrupt
  BY <1>17 DEF ReadInterrupt
<1>18. CASE UNCHANGED vars
  BY <1>18
<1> QED
  BY <1>1, <1>2, <1>3, <1>4, <1>5, <1>6, <1>7, <1>8, <1>9, <1>10, <1>11,
     <1>12, <1>13, <1>14, <1>15, <1>16, <1>17, <1>18 DEF Next

(* The invariant is inductive. *)
THEOREM Invariant == Spec => []IInv
<1>1. Init => IInv
  <2> SUFFICES ASSUME Init PROVE IInv
    OBVIOUS
  <2> USE DEF Init
  <2>1. FlagTypes
    BY DEF FlagTypes
  <2>2. StateTypes
    BY PollsAssumption DEF StateTypes, States, Connected
  <2>3. ExchangeInv /\ WakeUpInv /\ StopInv /\ TagInv /\ SilentInv /\ WorkerAlive
    BY DEF ExchangeInv, WakeUpInv, StopInv, TagInv, TagIsActive, SilentInv, WorkerAlive, Stopping
  <2> QED
    BY <2>1, <2>2, <2>3 DEF IInv, TypeOK, FlagTypes, StateTypes
<1>2. IInv /\ [Next]_vars => IInv'
  <2> SUFFICES ASSUME IInv, [Next]_vars PROVE IInv'
    OBVIOUS
  <2>1. TypeOK'
    BY FlagStep, StateStep DEF TypeOK, FlagTypes, StateTypes
  <2> QED
    BY <2>1, ExchangeStep, WakeUpStep, StopStep, TagStep, SilentStep, WorkerStep DEF IInv
<1> QED
  BY <1>1, <1>2, PTL DEF Spec

(* Every variable keeps its type, for every number of polls before the wake-up *)
(* mode (TypeOK).                                                              *)
THEOREM TypesHold == Spec => []TypeOK
<1>1. IInv => TypeOK
  BY DEF IInv
<1> QED
  BY <1>1, Invariant, PTL

(* Started, at work and not asleep, the transport always has its worker       *)
(* running or scheduled (WorkerAlive).                                        *)
THEOREM WorkerIsAlive == Spec => []WorkerAlive
<1>1. IInv => WorkerAlive
  BY DEF IInv
<1> QED
  BY <1>1, Invariant, PTL

(* The tag the transport counts as detected is the phone RFAL has activated   *)
(* (TagIsActive).                                                             *)
THEOREM TagFollowsDevice == Spec => []TagIsActive
<1>1. IInv => TagIsActive
  BY DEF IInv, TagInv
<1> QED
  BY <1>1, Invariant, PTL

(* A transport stopped by one thread at a time is silent (SilentWhenStopped). *)
THEOREM StopSilences == Spec => []SilentWhenStopped
<1>1. IInv => SilentWhenStopped
  BY DEF IInv, SilentInv, SilentWhenStopped
<1> QED
  BY <1>1, Invariant, PTL

(* No step leads from an exchange to a deactivation (ExchangeIsNotCut): the   *)
(* recovery waits for the send, and while an exchange runs the worker has     *)
(* nothing to write but its end.                                              *)
THEOREM EndOfSessionWaits == Spec => ExchangeIsNotCut
<1>1. IInv /\ [Next]_vars => [st = "dataexchange" => st' # "deactivation"]_vars
  <2> SUFFICES ASSUME IInv, [Next]_vars, st = "dataexchange"
               PROVE  st' # "deactivation"
    OBVIOUS
  <2> USE DEF IInv, ExchangeInv, TypeOK, Connected
  <2>1. CASE RecoverPolling
    BY <2>1 DEF RecoverPolling, CanRecover
  <2>2. CASE Write
    BY <2>2 DEF Write, NotifySelect, NotifyStart, NotifyActivated, NotifyDone, NotifyNothing
  <2>3. CASE ~RecoverPolling /\ ~Write
    BY <2>3 DEF Next, Start, StartFails, FinishStart, BeginStop, StopDeactivates, StopWrites, FinishStop,
       Execute, Complete, Busy, Reschedule, Send, Terminate, Interrupt, ReadInterrupt, vars
  <2> QED
    BY <2>1, <2>2, <2>3
<1> QED
  BY <1>1, Invariant, PTL DEF Spec, ExchangeIsNotCut
===============================================================================
