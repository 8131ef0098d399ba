-------------------------- MODULE ReaderProvisioning --------------------------
(* The configuration of the Aliro reader in the Matter application: what the  *)
(* reader storage keeps of it, the Door Lock delegate that sets and clears it *)
(* for the Matter controller, and the state control, which starts and stops   *)
(* the NFC transport and the Aliro service as a configuration comes and goes. *)
(*                                                                            *)
(* Commands and the factory reset run in the Matter thread, the state control *)
(* on the Aliro workqueue; no lock is shared between them. Every store may    *)
(* fail, and the device may be reset between any two steps.                   *)
(*                                                                            *)
(* External: the Door Lock cluster server, which refuses to set a             *)
(* configuration while the delegate reports a verification key, or cannot.    *)
(* The certificates of the reader are left out: they are stored like the rest *)
(* and no other part reads them.                                              *)
EXTENDS Naturals

CONSTANTS
    Configs,     \* reader configurations: identifier, private key, group resolving key
    None,        \* not set
    ZeroKey,     \* the group resolving key of all zeros
    MaxFaults    \* bound on failures

ASSUME ConfigAssumption == None # ZeroKey /\ {None, ZeroKey} \cap Configs = {}
ASSUME FaultsAssumption == MaxFaults \in Nat

Threads == {"matter", "aliro"}

VARIABLES
    sId, sKey, sGroup,   \* PSA storage: identifier, private key, group resolving key
    id, pub,             \* sIdentifier, sPublicKey
    nfc, service,        \* the NFC transport and the Aliro service are started
    running,             \* sAliroRunning
    work,                \* sUpdateAliroStateWork is queued
    op,                  \* what each thread is doing
    faults,              \* number of failures so far
    upset,               \* history: what failed
    overlap,             \* history: a command ran beside the state control
    acked,               \* history: the configuration set with success, until it is cleared
    blank                \* history: cleared with success, and nothing set since

store   == <<sId, sKey, sGroup>>
cache   == <<id, pub>>
stack   == <<nfc, service, running>>
history == <<acked, blank>>
vars    == <<store, cache, stack, work, op, faults, upset, overlap, history>>

NoOp == [at |-> "idle", config |-> None]
At(t, s) == op[t].at = s
Idle(t) == At(t, "idle")
Go(t, s) == op' = [op EXCEPT ![t] = IF s = "idle" THEN NoOp ELSE [@ EXCEPT !.at = s]]
Begin(t, o) ==
    /\ Idle(t) /\ op' = [op EXCEPT ![t] = o]
    /\ overlap' = (overlap \/ \E r \in Threads \ {t} : ~Idle(r))

NoFault == UNCHANGED <<faults, upset>>
Fault(what) ==
    /\ faults < MaxFaults
    /\ faults' = faults + 1
    /\ upset' = upset \cup {what}

IsIdentifierSet       == id # None
IsPrivateKeySet       == sKey # None
IsGroupResolvingKeySet == sGroup # None
IsProvisioningComplete == IsIdentifierSet /\ IsPrivateKeySet

TypeOK ==
    /\ {sId, sKey, id, pub, acked} \subseteq Configs \cup {None}
    /\ sGroup \in Configs \cup {None, ZeroKey}
    /\ {nfc, service, running, work, overlap, blank} \subseteq BOOLEAN
    /\ faults \in 0..MaxFaults
    /\ \A t \in Threads : op[t].config \in Configs \cup {None}
    /\ pub # None => pub = sKey
    /\ id # None => id = sId

(* The device starts with nothing stored and its state control queued.        *)
Init ==
    /\ sId = None /\ sKey = None /\ sGroup = None
    /\ id = None /\ pub = None
    /\ nfc = FALSE /\ service = FALSE /\ running = FALSE
    /\ work = TRUE
    /\ op = [t \in Threads |-> NoOp]
    /\ faults = 0 /\ upset = {}
    /\ overlap = FALSE /\ acked = None /\ blank = TRUE

-----------------------------------------------------------------------------
(* SetAliroReaderConfig. A step that fails ends the command.                  *)

SetReaderConfig(c) ==
    /\ ~IsPrivateKeySet
    /\ Begin("matter", [at |-> "setId", config |-> c])
    /\ blank' = FALSE
    /\ NoFault /\ UNCHANGED <<store, cache, stack, work, acked>>

SetIdentifier ==
    LET c == op["matter"].config
    IN /\ At("matter", "setId")
       /\ \/ sId' = c /\ id' = c /\ Go("matter", "setKey") /\ NoFault
          \/ Fault("store") /\ Go("matter", "idle") /\ UNCHANGED <<sId, id>>
       /\ UNCHANGED <<sKey, sGroup, pub, stack, work, overlap, history>>

(* psa_import_key refuses a key that is there already.                        *)
SetPrivateKey ==
    LET c == op["matter"].config
    IN /\ At("matter", "setKey")
       /\ \/ sKey = None /\ sKey' = c /\ Go("matter", "setPub") /\ NoFault
          \/ sKey # None /\ Go("matter", "idle") /\ NoFault /\ UNCHANGED sKey
          \/ sKey = None /\ Fault("store") /\ Go("matter", "idle") /\ UNCHANGED sKey
       /\ UNCHANGED <<sId, sGroup, cache, stack, work, overlap, history>>

CachePublicKey ==
    /\ At("matter", "setPub")
    /\ \/ pub' = sKey /\ Go("matter", "setGroup") /\ NoFault
       \/ Fault("store") /\ Go("matter", "idle") /\ UNCHANGED pub
    /\ UNCHANGED <<store, id, stack, work, overlap, history>>

(* Mutant: a group resolving key that is there already is taken for the new   *)
(* one.                                                                       *)
SetGroupAnyway ==
    /\ At("matter", "setGroup") /\ Go("matter", "notify")
    /\ sGroup' = IF sGroup = None THEN op["matter"].config ELSE sGroup
    /\ NoFault /\ UNCHANGED <<sId, sKey, cache, stack, work, overlap, history>>

SetGroupResolvingKey ==
    LET c == op["matter"].config
    IN /\ At("matter", "setGroup")
       /\ \/ sGroup = None /\ sGroup' = c /\ Go("matter", "notify") /\ NoFault
          \/ sGroup # None /\ Go("matter", "idle") /\ NoFault /\ UNCHANGED sGroup
          \/ sGroup = None /\ Fault("store") /\ Go("matter", "idle") /\ UNCHANGED sGroup
       /\ UNCHANGED <<sId, sKey, cache, stack, work, overlap, history>>

(* OnAliroReaderConfigSet: UpdateAliroState.                                  *)
ConfigSet ==
    /\ At("matter", "notify") /\ Go("matter", "idle")
    /\ work' = TRUE
    /\ acked' = op["matter"].config
    /\ NoFault /\ UNCHANGED <<store, cache, stack, overlap, blank>>

-----------------------------------------------------------------------------
(* ClearAliroReaderConfig: OnAliroReaderConfigClear stops Aliro, then all is  *)
(* removed. A factory reset only removes.                                     *)

ClearReaderConfig ==
    /\ Begin("matter", [at |-> "stopNfc", config |-> None])
    /\ acked' = None
    /\ NoFault /\ UNCHANGED <<store, cache, stack, work, blank>>

FactoryReset ==
    /\ Begin("matter", [at |-> "clearId", config |-> None])
    /\ acked' = None
    /\ upset' = upset \cup {"factory reset"}
    /\ UNCHANGED <<store, cache, stack, work, faults, blank>>

(* ClearAll. What is cached goes first.                                       *)
ClearIdentifier ==
    /\ At("matter", "clearId") /\ id' = None
    /\ \/ sId' = None /\ Go("matter", "clearKey") /\ NoFault
       \/ sId # None /\ Fault("store") /\ Go("matter", "idle") /\ UNCHANGED sId
    /\ UNCHANGED <<sKey, sGroup, pub, stack, work, overlap, history>>

(* Mutant: ClearAll is done when the private key is gone.                     *)
ClearWithoutGroup ==
    /\ At("matter", "clearKey") /\ Go("matter", "idle")
    /\ pub' = None /\ sKey' = None /\ blank' = TRUE
    /\ NoFault /\ UNCHANGED <<sId, sGroup, id, stack, work, overlap, acked>>

ClearPrivateKey ==
    /\ At("matter", "clearKey") /\ pub' = None
    /\ \/ sKey' = None /\ Go("matter", "clearGroup") /\ NoFault
       \/ sKey # None /\ Fault("store") /\ Go("matter", "idle") /\ UNCHANGED sKey
    /\ UNCHANGED <<sId, sGroup, id, stack, work, overlap, history>>

ClearGroupResolvingKey ==
    /\ At("matter", "clearGroup") /\ Go("matter", "idle")
    /\ \/ sGroup' = None /\ blank' = TRUE /\ NoFault
       \/ sGroup # None /\ Fault("store") /\ UNCHANGED <<sGroup, blank>>
    /\ UNCHANGED <<sId, sKey, cache, stack, work, overlap, acked>>

-----------------------------------------------------------------------------
(* UpdateAliroStateWorkHandler.                                               *)

UpdateAliroState ==
    /\ work /\ work' = FALSE
    /\ Begin("aliro", [at |-> "check", config |-> None])
    /\ NoFault /\ UNCHANGED <<store, cache, stack, history>>

(* If Aliro runs already the advertising is refreshed.                        *)
CheckProvisioning ==
    /\ At("aliro", "check")
    /\ Go("aliro", CASE IsProvisioningComplete /\ ~running -> "startNfc"
                     [] ~IsProvisioningComplete /\ running -> "stopNfc"
                     [] OTHER -> "idle")
    /\ NoFault /\ UNCHANGED <<store, cache, stack, work, overlap, history>>

(* AliroStart. A step that fails ends it; what was started stays.             *)
StartNfc ==
    /\ At("aliro", "startNfc")
    /\ \/ nfc' = TRUE /\ Go("aliro", "checkGroup") /\ NoFault
       \/ Fault("start") /\ Go("aliro", "idle") /\ UNCHANGED nfc
    /\ UNCHANGED <<store, cache, service, running, work, overlap, history>>

CheckGroupResolvingKey ==
    /\ At("aliro", "checkGroup")
    /\ Go("aliro", IF IsGroupResolvingKeySet THEN "startService" ELSE "setZero")
    /\ NoFault /\ UNCHANGED <<store, cache, stack, work, overlap, history>>

SetZeroKey ==
    /\ At("aliro", "setZero")
    /\ \/ sGroup = None /\ sGroup' = ZeroKey /\ Go("aliro", "startService") /\ NoFault
       \/ sGroup # None /\ Go("aliro", "idle") /\ NoFault /\ UNCHANGED sGroup
       \/ sGroup = None /\ Fault("start") /\ Go("aliro", "idle") /\ UNCHANGED sGroup
    /\ UNCHANGED <<sId, sKey, cache, stack, work, overlap, history>>

(* A service that is started already cannot be started.                       *)
StartService ==
    /\ At("aliro", "startService")
    /\ \/ ~service /\ service' = TRUE /\ Go("aliro", "setRunning") /\ NoFault
       \/ service /\ Go("aliro", "idle") /\ NoFault /\ UNCHANGED service
       \/ ~service /\ Fault("start") /\ Go("aliro", "idle") /\ UNCHANGED service
    /\ UNCHANGED <<store, cache, nfc, running, work, overlap, history>>

SetRunning ==
    /\ At("aliro", "setRunning") /\ running' = TRUE /\ Go("aliro", "idle")
    /\ NoFault /\ UNCHANGED <<store, cache, nfc, service, work, overlap, history>>

-----------------------------------------------------------------------------
(* AliroStop, in either thread. A failure is logged.                          *)

StopNfc(t) ==
    /\ At(t, "stopNfc") /\ Go(t, "stopService")
    /\ \/ nfc' = FALSE /\ NoFault
       \/ nfc /\ Fault("stop") /\ UNCHANGED nfc
    /\ UNCHANGED <<store, cache, service, running, work, overlap, history>>

StopService(t) ==
    /\ At(t, "stopService") /\ Go(t, "setStopped")
    /\ service' = FALSE
    /\ NoFault /\ UNCHANGED <<store, cache, nfc, running, work, overlap, history>>

(* The command goes on to remove the configuration.                           *)
SetStopped(t) ==
    /\ At(t, "setStopped") /\ running' = FALSE
    /\ Go(t, IF t = "matter" THEN "clearId" ELSE "idle")
    /\ NoFault /\ UNCHANGED <<store, cache, nfc, service, work, overlap, history>>

-----------------------------------------------------------------------------
(* Mutant: Aliro is not started after a reset.                                *)
ResetWithoutUpdate ==
    /\ id' = sId /\ pub' = sKey
    /\ nfc' = FALSE /\ service' = FALSE /\ running' = FALSE
    /\ work' = FALSE
    /\ op' = [t \in Threads |-> NoOp]
    /\ UNCHANGED <<store, faults, upset, overlap, history>>

(* A reset at any time; ReaderStorage::Init, then UpdateAliroState.           *)
Reset ==
    /\ id' = sId /\ pub' = sKey
    /\ nfc' = FALSE /\ service' = FALSE /\ running' = FALSE
    /\ work' = TRUE
    /\ op' = [t \in Threads |-> NoOp]
    /\ UNCHANGED <<store, faults, upset, overlap, history>>

Matter ==
    \/ \E c \in Configs : SetReaderConfig(c)
    \/ SetIdentifier \/ SetPrivateKey \/ CachePublicKey \/ SetGroupResolvingKey \/ ConfigSet
    \/ ClearReaderConfig \/ FactoryReset
    \/ ClearIdentifier \/ ClearPrivateKey \/ ClearGroupResolvingKey

Aliro ==
    \/ UpdateAliroState \/ CheckProvisioning
    \/ StartNfc \/ CheckGroupResolvingKey \/ SetZeroKey \/ StartService \/ SetRunning

Stop(t) == StopNfc(t) \/ StopService(t) \/ SetStopped(t)

Next == Matter \/ Aliro \/ (\E t \in Threads : Stop(t)) \/ Reset

Spec == Init /\ [][Next]_vars

-----------------------------------------------------------------------------
AtRest == ~work /\ \A t \in Threads : Idle(t)
Unless(causes, P) == upset \cap causes = {} => P

(* SetAliroReaderConfig reports success only for a configuration that is      *)
(* stored whole, and it stays so, in storage and in RAM, whatever fails, is   *)
(* reset or runs beside: never one configuration's identifier with another's  *)
(* keys, nor the zeros that AliroStart puts in for a missing key.             *)
AcknowledgedIsWhole ==
    /\ TypeOK
    /\ acked # None => {sId, sKey, sGroup, id, pub} = {acked}

(* Once the state control is done, Aliro runs with a configuration that was   *)
(* set with success, after any history of failed commands and resets, unless  *)
(* a part did not start; and a reader without an identifier or a private key  *)
(* does not poll, advertise or count as running, however the command ended    *)
(* that left it so. A factory reset does not stop Aliro. Commands that        *)
(* overlapped with the state control are excluded.                            *)
RunsWhenProvisioned ==
    AtRest /\ ~overlap =>
        /\ acked # None => Unless({"start"}, running /\ nfc /\ service)
        /\ ~IsProvisioningComplete =>
               Unless({"stop", "factory reset"}, ~running /\ ~nfc /\ ~service)

(* After a clear or a factory reset that removed everything, nothing of the   *)
(* old configuration, nor a key of zeros, stands in the way of a new one.     *)
ClearedIsBlank ==
    blank /\ ~overlap => {sId, sKey, sGroup, id, pub} = {None}

=============================================================================
