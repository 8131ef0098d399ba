----------------------------- MODULE NfcTransport -----------------------------
(* The NFC transport of the reader: NfcTransportRfal, the poller state machine *)
(* of the RFAL library it drives, and the interrupt of the reader chip.        *)
(*                                                                             *)
(* The worker, Start and the calls of the Aliro stack (Send, Terminate, some   *)
(* of them inside a notification of the worker) run on the Aliro workqueue;    *)
(* Stop runs there or in the Matter thread, with no lock. The worker decides   *)
(* what an operation gives in one step and writes the new state, with its      *)
(* notification, in another: a Stop of the other thread fits between the two.  *)
(* An operation of the chip takes any number of rounds (RFAL_ERR_BUSY).        *)
(*                                                                             *)
(* Configuration: passive NFC-A, no listen mode, wake-up mode after NPolls     *)
(* polls. Only the first device found is ever selected. External: the Aliro    *)
(* stack, which opens a session per activated phone, sends one command at a    *)
(* time and ends every session with Terminate; the chip; the pool of timers.   *)
EXTENDS Naturals, FiniteSets

CONSTANT NPolls          \* wakeupNPolls
ASSUME PollsAssumption == NPolls \in Nat \ {0}

Connected == {"activated", "dataexchange", "done"}     \* rfalNfcIsDevActivated
States == Connected \cup {"idle", "start", "wakeup", "techdetect", "colavoid", "select",
                          "activation", "listen", "deactivation"}

VARIABLES
    st,          \* gNfcDev.state
    active,      \* activeDev: a phone (T4T), another kind of card or none
    first, many, \* the first device of devList, devCnt > 1
    deact,       \* deactType
    chip,        \* the field is on, the chip is in wake-up mode or it is off
    polls,       \* techDctCnt, up to NPolls
    woke,        \* the wake-up interrupt: raised and not read yet, or read
    started, recover, sending, tag, multiSel,          \* mStarted ... mMultiSel
    work,        \* nfc_pal_nfc_work is scheduled
    pc, todo,    \* what the Aliro thread is at, the state it is about to write
    stopBy, stopAt,      \* the thread in Stop, and how far it is
    session,     \* the session of the stack
    cut,         \* history: stopped or started with a device, mTagDetectedState is out of date
    stale,       \* history: started with mSendInProgress set, which no exchange stands for
    overlap      \* history: Stop ran beside another operation

rfal      == <<active, first, many, deact, chip, polls, woke>>
transport == <<recover, sending, tag, multiSel>>
stop      == <<stopBy, stopAt>>
history   == <<cut, stale, overlap>>
vars      == <<st, rfal, started, transport, work, pc, todo, stop, session, history>>

Stopping == stopBy # "none"
AliroIdle == pc = "idle" /\ stopBy # "aliro"
Beside == overlap' = (overlap \/ stopBy = "matter")

Init ==
    /\ st = "idle" /\ active = "none" /\ first = "none" /\ many = FALSE
    /\ deact = "idle" /\ chip = "off" /\ polls = 0 /\ woke = "no"
    /\ started = FALSE /\ recover = FALSE /\ sending = FALSE /\ tag = FALSE /\ multiSel = FALSE
    /\ work \in BOOLEAN              \* the shield raises an interrupt at startup
    /\ pc = "idle" /\ todo = "none" /\ stopBy = "none" /\ stopAt = "idle" /\ session = "none"
    /\ cut = FALSE /\ stale = FALSE /\ overlap = FALSE

-------------------------------------------------------------------------------
(* Start and Stop *)

\* rfalNfcInitialize and rfalNfcDiscover
Start ==
    /\ AliroIdle
    /\ st' = "start" /\ pc' = "starting"
    /\ active' = "none" /\ first' = "none" /\ many' = FALSE
    /\ deact' = "discovery" /\ chip' = "off" /\ polls' = 0 /\ woke' = "no"
    /\ cut' = tag /\ stale' = sending /\ overlap' = (stopBy = "matter")
    /\ UNCHANGED <<started, transport, work, todo, stop, session>>

\* the chip, set to its defaults, does not answer
StartFails ==
    /\ AliroIdle
    /\ st' = "idle" /\ chip' = "off" /\ woke' = "no"
    /\ cut' = (cut \/ tag)
    /\ Beside
    /\ UNCHANGED <<active, first, many, deact, polls, started, transport, work, pc, todo, stop, session,
                   stale>>

StartWithoutKick ==          \* nothing submits the worker
    /\ pc = "starting"
    /\ started' = TRUE /\ pc' = "idle"
    /\ Beside
    /\ UNCHANGED <<st, rfal, transport, work, todo, stop, session, cut, stale>>

FinishStart ==
    /\ pc = "starting"
    /\ started' = TRUE /\ work' = TRUE /\ pc' = "idle"
    /\ Beside
    /\ UNCHANGED <<st, rfal, transport, todo, stop, session, cut, stale>>

BeginStop(t) ==
    /\ ~Stopping
    /\ t = "aliro" => AliroIdle
    /\ stopBy' = t
    /\ IF st = "idle"
       THEN stopAt' = "clear" /\ UNCHANGED deact
       ELSE stopAt' = "deactivate" /\ deact' = "idle"
    /\ cut' = (cut \/ tag)
    /\ overlap' = (overlap \/ pc # "idle")
    /\ UNCHANGED <<st, active, first, many, chip, polls, woke, started, transport, work, pc, todo, session,
                   stale>>

DeactivationWithoutWakeUpStop ==
    /\ \/ deact = "sleep" /\ active = "phone" /\ UNCHANGED chip
       \/ chip' = IF chip = "wakeup" THEN chip ELSE "off"
    /\ active' = "none"
    /\ UNCHANGED <<first, many, deact, polls, woke>>

\* rfalNfcDeactivation: a device put to sleep keeps the field, all else turns it off
Deactivation ==
    /\ \/ deact = "sleep" /\ active = "phone" /\ UNCHANGED chip
       \/ chip' = "off"
    /\ active' = "none"
    /\ woke' = "no"
    /\ UNCHANGED <<first, many, deact, polls>>

StopDeactivates ==
    /\ stopAt = "deactivate"
    /\ Deactivation
    /\ stopAt' = "write" /\ UNCHANGED stopBy
    /\ UNCHANGED <<st, started, transport, work, pc, todo, session, history>>

StopWrites ==
    /\ stopAt = "write"
    /\ st' = "idle"
    /\ stopAt' = "clear" /\ UNCHANGED stopBy
    /\ UNCHANGED <<rfal, started, transport, work, pc, todo, session, history>>

FinishStop ==
    /\ stopAt = "clear"
    /\ started' = FALSE
    /\ stopBy' = "none" /\ stopAt' = "idle"
    /\ UNCHANGED <<st, rfal, transport, work, pc, todo, session, history>>

-------------------------------------------------------------------------------
(* Execute: the recovery, a round of rfalNfcWorker, the reschedule *)

Execute ==
    /\ AliroIdle /\ work
    /\ work' = FALSE
    /\ pc' = IF started THEN "recover" ELSE "idle"
    /\ Beside
    /\ UNCHANGED <<st, rfal, started, transport, todo, stop, session, cut, stale>>

RecoverAtOnce == recover     \* not waiting for mSendInProgress

CanRecover == recover /\ ~sending

RecoverKeepsTag ==           \* RecoverPolling does not clear mTagDetectedState
    /\ pc = "recover" /\ pc' = "worker"
    /\ IF CanRecover
       THEN /\ recover' = FALSE
            /\ IF st \in Connected /\ active # "none"
               THEN st' = "deactivation" /\ deact' = "sleep"
               ELSE UNCHANGED <<st, deact>>
       ELSE UNCHANGED <<recover, st, deact>>
    /\ UNCHANGED <<active, first, many, chip, polls, woke, started, sending, tag, multiSel, work, todo, stop,
                   session, history>>

RecoverPolling ==
    /\ pc = "recover" /\ pc' = "worker"
    /\ IF CanRecover
       THEN /\ recover' = FALSE /\ tag' = FALSE
            /\ IF st \in Connected /\ active # "none"
               THEN st' = "deactivation" /\ deact' = "sleep"
               ELSE UNCHANGED <<st, deact>>
       ELSE UNCHANGED <<recover, tag, st, deact>>
    /\ UNCHANGED <<active, first, many, chip, polls, woke, started, sending, multiSel, work, todo, stop, session,
                   history>>

Becomes(s) == todo' = s

Discover ==
    /\ st = "start"
    /\ first' = "none" /\ many' = FALSE
    /\ \/ polls = NPolls /\ chip' = "wakeup" /\ woke' = "no" /\ Becomes("wakeup")
       \/ UNCHANGED <<chip, woke>> /\ Becomes("techdetect")   \* not yet, or no wake-up mode
    /\ polls' = IF polls < NPolls THEN polls + 1 ELSE polls
    /\ UNCHANGED <<active, deact>>

WakeUp ==
    /\ st = "wakeup" /\ woke = "yes"
    /\ chip' = "off" /\ woke' = "no" /\ polls' = 1
    /\ Becomes("techdetect")
    /\ UNCHANGED <<active, first, many, deact>>

PollTechDetection ==
    /\ st = "techdetect"
    /\ \/ chip' = "field" /\ Becomes("colavoid")
       \/ chip' = "off" /\ Becomes("listen")
    /\ UNCHANGED <<active, first, many, deact, polls, woke>>

PollCollResolution ==
    /\ st = "colavoid"
    /\ \/ /\ first' \in {"phone", "other"} /\ many' \in BOOLEAN
          /\ Becomes(IF many' THEN "select" ELSE "activation")
          /\ UNCHANGED deact
       \/ deact' = "discovery" /\ Becomes("deactivation") /\ UNCHANGED <<first, many>>
    /\ UNCHANGED <<active, chip, polls, woke>>

PollActivation ==
    /\ st = "activation"
    /\ \/ /\ first = "other" \/ (first = "phone" /\ chip = "field")
          /\ active' = first /\ Becomes("activated") /\ UNCHANGED deact
       \/ many /\ Becomes("select") /\ UNCHANGED <<active, deact>>
       \/ ~many /\ deact' = "discovery" /\ Becomes("deactivation") /\ UNCHANGED active
    /\ UNCHANGED <<first, many, chip, polls, woke>>

DataExchange == st = "dataexchange" /\ Becomes("done") /\ UNCHANGED rfal

Deactivate ==
    /\ st = "deactivation"
    /\ Deactivation
    /\ Becomes(CASE deact = "sleep" -> "select" [] deact = "discovery" -> "start" [] OTHER -> "idle")

Listen ==
    /\ st = "listen"
    /\ chip' = "off" /\ Becomes("start")
    /\ UNCHANGED <<active, first, many, deact, polls, woke>>

Operation ==
    \/ Discover \/ WakeUp \/ PollTechDetection \/ PollCollResolution
    \/ PollActivation \/ DataExchange \/ Deactivate \/ Listen

Complete ==
    /\ pc = "worker" /\ pc' = "write"
    /\ Operation
    /\ UNCHANGED <<st, started, transport, work, stop, session, history>>

\* RFAL_ERR_BUSY, or a state in which there is nothing to do
Busy ==
    /\ pc = "worker" /\ pc' = "reschedule"
    /\ \/ st = "techdetect" /\ chip' = "field"
       \/ st = "deactivation" /\ chip' = "off"
       \/ UNCHANGED chip
    /\ UNCHANGED <<st, active, first, many, deact, polls, woke, started, transport, work, todo, stop, session,
                   history>>

-------------------------------------------------------------------------------
(* RfalNotifyCallback: the new state is written and the transport hears of it *)

SelectAgain ==               \* mMultiSel is never set
    /\ todo = "select"
    /\ st' = "activation"
    /\ UNCHANGED <<deact, sending, tag, multiSel, session, stale>>

NotifySelect ==
    /\ todo = "select"
    /\ IF multiSel
       THEN st' = "deactivation" /\ deact' = "discovery" /\ UNCHANGED multiSel
       ELSE st' = "activation" /\ multiSel' = TRUE /\ UNCHANGED deact
    /\ UNCHANGED <<sending, tag, session, stale>>

NotifyStart ==
    /\ todo = "start"
    /\ st' = "start"
    /\ multiSel' = FALSE /\ sending' = FALSE /\ tag' = FALSE /\ stale' = FALSE
    /\ UNCHANGED <<deact, session>>

\* SelectTag; without an active device its pointer was never set: anything may follow
NotifyActivated ==
    /\ todo = "activated"
    /\ st' = "activated"
    /\ \/ active \in {"phone", "none"} /\ tag' = TRUE /\ session' = "open"
       \/ active \in {"other", "none"} /\ UNCHANGED <<tag, session>>
    /\ UNCHANGED <<deact, sending, multiSel, stale>>

\* CaptureRxData: the data goes to the session, an error or an empty answer ends it
NotifyDone ==
    /\ todo = "done"
    /\ st' = "done"
    /\ sending' = FALSE /\ stale' = FALSE
    /\ \/ /\ session' = IF session = "waiting" THEN "open" ELSE session
          /\ UNCHANGED tag
       \/ /\ session' = IF session = "none" THEN "none" ELSE "closing"
          /\ tag' = FALSE
    /\ UNCHANGED <<deact, multiSel>>

NotifyNothing ==
    /\ todo \in States \ {"select", "start", "activated", "done"}
    /\ st' = todo
    /\ UNCHANGED <<deact, sending, tag, multiSel, session, stale>>

Write ==
    /\ pc = "write" /\ pc' = "reschedule" /\ todo' = "none"
    /\ NotifySelect \/ NotifyStart \/ NotifyActivated \/ NotifyDone \/ NotifyNothing
    /\ cut' = (cut /\ tag')
    /\ UNCHANGED <<active, first, many, chip, polls, woke, started, recover, work, stop, overlap>>

Reschedule ==
    /\ pc = "reschedule" /\ pc' = "idle"
    /\ work' = (work \/ st # "wakeup" \/ sending)
    /\ UNCHANGED <<st, rfal, started, transport, todo, stop, session, history>>

-------------------------------------------------------------------------------
(* The Aliro stack, in a notification or on its own *)

StackRuns == pc = "reschedule" \/ AliroIdle

Send ==
    /\ StackRuns /\ session = "open"
    /\ IF tag
       THEN /\ session' = "waiting"
            /\ stale' = FALSE
            /\ \/ st \in Connected \cup {"deactivation"} /\ active # "none"
                  /\ st' = "dataexchange" /\ sending' = TRUE
               \/ sending' = FALSE /\ UNCHANGED st
       ELSE session' = "waiting" /\ UNCHANGED <<st, sending, stale>>
    /\ Beside
    /\ UNCHANGED <<rfal, started, recover, tag, multiSel, work, pc, todo, stop, cut>>

Terminate ==
    /\ StackRuns /\ session # "none"
    /\ session' = "none"
    /\ recover' = TRUE
    /\ UNCHANGED <<st, rfal, started, sending, tag, multiSel, work, pc, todo, stop, history>>

(* The chip raises its interrupt: irq_pin_cb submits the work of the transport, *)
(* and the one that reads the status, on the system workqueue                   *)
Interrupt ==
    /\ chip # "off"
    /\ work' = TRUE
    /\ woke' = IF chip = "wakeup" /\ woke = "no" THEN "raised" ELSE woke
    /\ UNCHANGED <<st, active, first, many, deact, chip, polls, started, transport, pc, todo, stop, session,
                   history>>

ReadInterrupt ==
    /\ woke = "raised" /\ woke' = "yes"
    /\ UNCHANGED <<st, active, first, many, deact, chip, polls, started, transport, work, pc, todo, stop, session,
                   history>>

Next ==
    \/ Start \/ StartFails \/ FinishStart
    \/ \E t \in {"aliro", "matter"} : BeginStop(t)
    \/ StopDeactivates \/ StopWrites \/ FinishStop
    \/ Execute \/ RecoverPolling \/ Complete \/ Busy \/ Write \/ Reschedule
    \/ Send \/ Terminate \/ Interrupt \/ ReadInterrupt

(* Work that is queued runs and does not hang; an operation of the chip ends,   *)
(* however many rounds it takes; the stack ends every session it has (external: *)
(* its timeouts). Nothing is assumed of Start, Stop, Send and the interrupt.    *)
Fairness ==
    /\ WF_vars(FinishStart) /\ WF_vars(Execute) /\ WF_vars(RecoverPolling) /\ WF_vars(Complete \/ Busy)
    /\ SF_vars(Complete) /\ WF_vars(Write) /\ WF_vars(Reschedule) /\ SF_vars(Terminate)
    /\ WF_vars(StopDeactivates) /\ WF_vars(StopWrites) /\ WF_vars(FinishStop)

Spec == Init /\ [][Next]_vars /\ Fairness

-------------------------------------------------------------------------------
(* Every variable has its type, a state is pending exactly while it is to be    *)
(* written, and the wake-up interrupt is that of a chip in wake-up mode.        *)
TypeOK ==
    /\ st \in States /\ active \in {"none", "phone", "other"} /\ first \in {"none", "phone", "other"}
    /\ many \in BOOLEAN /\ deact \in {"idle", "discovery", "sleep"}
    /\ chip \in {"off", "field", "wakeup"} /\ polls \in 0..NPolls /\ woke \in {"no", "raised", "yes"}
    /\ woke # "no" => chip = "wakeup"
    /\ started \in BOOLEAN /\ recover \in BOOLEAN /\ sending \in BOOLEAN /\ tag \in BOOLEAN
    /\ multiSel \in BOOLEAN /\ work \in BOOLEAN
    /\ cut \in BOOLEAN /\ stale \in BOOLEAN /\ overlap \in BOOLEAN
    /\ pc \in {"idle", "starting", "recover", "worker", "write", "reschedule"}
    /\ todo \in States \cup {"none"} /\ (todo # "none" <=> pc = "write")
    /\ stopBy \in {"none", "aliro", "matter"} /\ stopAt \in {"idle", "deactivate", "write", "clear"}
    /\ session \in {"none", "open", "waiting", "closing"}

(* The state machine never waits for nobody: while the transport is started,    *)
(* RFAL is at work and the chip is not the one to wake it, the worker runs or   *)
(* is scheduled, however Start, Stop and Execute interleave (Execute and its    *)
(* periodic reschedule).                                                        *)
WorkerAlive == started /\ st \notin {"idle", "wakeup"} /\ pc = "idle" => work

(* The transport accepts data only for a device RFAL holds: the tag it counts   *)
(* as detected is an activated phone (mTagDetectedState follows the state of    *)
(* RFAL), unless it was stopped with a session or Stop ran beside it.           *)
TagIsActive == tag /\ ~cut /\ ~overlap => active = "phone" /\ st \in Connected

(* A reader stopped by one thread at a time is silent: no field, no wake-up     *)
(* pulses, no device, whatever state the discovery was in (Stop).               *)
SilentWhenStopped ==
    ~started /\ ~overlap /\ ~Stopping /\ pc = "idle" => st = "idle" /\ chip = "off"

(* Ending a session never cuts an exchange with the phone: the transport goes   *)
(* from an exchange to the deactivation only once the exchange is done          *)
(* (mRecoverPolling waits for mSendInProgress).                                 *)
ExchangeIsNotCut == [][st = "dataexchange" => st' # "deactivation"]_vars

(* "Terminates the current NFC session and restarts polling": after a phone was *)
(* activated, discovery starts again, although it is activated a second time    *)
(* after the first deactivation; or the transport is stopped. A transport       *)
(* started with a stale mSendInProgress is excluded, as are other cards.        *)
DiscoveryRestarts == active = "phone" ~> (st \in {"start", "idle"} \/ ~started \/ stale)
===============================================================================
