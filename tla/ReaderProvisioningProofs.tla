----------------------- MODULE ReaderProvisioningProofs -----------------------
(***************************************************************************)
(* Proofs about ReaderProvisioning, for any set of configurations and any  *)
(* number of failures: an acknowledged configuration is whole; then, on    *)
(* top of that, that Aliro runs when it is provisioned and is silent when  *)
(* it is not, and that a cleared reader is blank.  The invariant of the    *)
(* second part speaks of histories in which no command ran beside the      *)
(* state control.                                                          *)
(***************************************************************************)
EXTENDS ReaderProvisioning, TLAPS

Steps == {"idle", "setId", "setKey", "setPub", "setGroup", "notify",
          "clearId", "clearKey", "clearGroup", "stopNfc", "stopService", "setStopped",
          "check", "startNfc", "checkGroup", "setZero", "startService", "setRunning"}
Operation == [at : Steps, config : Configs \cup {None}]
Ops == [Threads -> Operation]

(* The parts of the type invariant.                                          *)
StoreInv ==
    /\ sId \in Configs \cup {None} /\ sKey \in Configs \cup {None}
    /\ sGroup \in Configs \cup {None, ZeroKey}
    /\ pub \in {None, sKey} /\ id \in {None, sId}
    /\ acked \in Configs \cup {None}
FlagsInv ==
    /\ nfc \in BOOLEAN /\ service \in BOOLEAN /\ running \in BOOLEAN
    /\ work \in BOOLEAN /\ overlap \in BOOLEAN /\ blank \in BOOLEAN
FaultsInv == faults \in 0..MaxFaults

(* A command that is under way has nothing acknowledged, and what it set so  *)
(* far is that of its own configuration.                                     *)
CommandInv ==
    /\ ~Idle("matter") => acked = None
    /\ (\E s \in {"setId", "setKey", "setPub", "setGroup", "notify"} : At("matter", s))
           => op["matter"].config \in Configs
    /\ At("matter", "setKey") => sId = op["matter"].config /\ id = sId
    /\ At("matter", "setPub") => sId = op["matter"].config /\ id = sId /\ sKey = sId
    /\ At("matter", "setGroup") =>
           sId = op["matter"].config /\ id = sId /\ sKey = sId /\ pub = sId
    /\ At("matter", "notify") =>
           sId = op["matter"].config /\ id = sId /\ sKey = sId /\ pub = sId /\ sGroup = sId

WholeInv ==
    acked # None => sId = acked /\ sKey = acked /\ sGroup = acked /\ id = acked /\ pub = acked

IInv == op \in Ops /\ StoreInv /\ FlagsInv /\ FaultsInv /\ CommandInv /\ WholeInv

(* The invariant says all that is claimed, and the types.                    *)
LEMMA InvariantIsEnough == IInv => AcknowledgedIsWhole
<1> SUFFICES ASSUME IInv PROVE AcknowledgedIsWhole
  OBVIOUS
<1>1. StoreInv /\ FlagsInv /\ FaultsInv /\ WholeInv /\ op \in Ops
  BY DEF IInv
<1>2. {sId, sKey, id, pub, acked} \subseteq Configs \cup {None}
  BY <1>1 DEF StoreInv
<1>3. \A t \in Threads : op[t].config \in Configs \cup {None}
  BY <1>1 DEF Ops, Operation
<1>4. TypeOK
  BY <1>1, <1>2, <1>3 DEF TypeOK, StoreInv, FlagsInv, FaultsInv
<1>5. acked # None => {sId, sKey, sGroup, id, pub} = {acked}
  BY <1>1 DEF WholeInv
<1> QED
  BY <1>4, <1>5 DEF AcknowledgedIsWhole

(* A thread goes to its next step and keeps its configuration; the other one *)
(* stays where it is.                                                        *)
LEMMA GoStep ==
    ASSUME op \in Ops, NEW t \in Threads, NEW s \in Steps, Go(t, s)
    PROVE  /\ op' \in Ops
           /\ op'[t].at = s
           /\ s # "idle" => op'[t].config = op[t].config
           /\ \A r \in Threads : r # t => op'[r] = op[r]
  BY DEF Go, NoOp, Ops, Operation, Steps

(* An idle thread begins an operation; the other one stays where it is.      *)
LEMMA BeginStep ==
    ASSUME op \in Ops, NEW t \in Threads, NEW o \in Operation, Begin(t, o)
    PROVE  /\ op' \in Ops
           /\ op[t].at = "idle"
           /\ op'[t] = o
           /\ \A r \in Threads : r # t => op'[r] = op[r]
           /\ overlap' = (overlap \/ \E r \in Threads \ {t} : ~Idle(r))
  BY DEF Begin, Idle, At, Ops

(* A step of the Matter command keeps the invariant.                         *)
LEMMA MatterStep == IInv /\ Matter => IInv'
<1> SUFFICES ASSUME IInv, Matter PROVE IInv'
  OBVIOUS
<1> USE DEF IInv
<1>1. "matter" \in Threads /\ "aliro" \in Threads /\ "matter" # "aliro"
  BY DEF Threads
<1>2. ASSUME NEW c \in Configs, SetReaderConfig(c) PROVE IInv'
  <2>1. op' \in Ops /\ op["matter"].at = "idle" /\ op'["matter"] = [at |-> "setId", config |-> c]
    BY <1>1, <1>2, BeginStep DEF SetReaderConfig, Operation, Steps
  <2>2. acked = None
    BY <1>2, ConfigAssumption DEF SetReaderConfig, IsPrivateKeySet, WholeInv
  <2>3. FlagsInv' /\ FaultsInv'
    <3>1. FlagsInv'
      BY <1>2, <1>1, Zenon DEF SetReaderConfig, Begin, FlagsInv, stack
    <3>2. FaultsInv'
      BY <1>2, <1>1 DEF SetReaderConfig, NoFault, FaultsInv
    <3> QED
      BY <3>1, <3>2
  <2>4. StoreInv' /\ CommandInv' /\ WholeInv'
    BY <1>2, <2>1, <2>2
       DEF SetReaderConfig, StoreInv, CommandInv, WholeInv, At, Idle, store, cache
  <2> QED
    BY <2>1, <2>3, <2>4
<1>3. CASE SetIdentifier
  <2>1. PICK s \in {"setKey", "idle"} : Go("matter", s)
    BY <1>3 DEF SetIdentifier
  <2>2. /\ op' \in Ops /\ op'["matter"].at = s
        /\ s # "idle" => op'["matter"].config = op["matter"].config
        /\ \A r \in Threads : r # "matter" => op'[r] = op[r]
    BY <1>1, <2>1, GoStep DEF Steps
  <2>3. FlagsInv' /\ FaultsInv'
    <3>1. FlagsInv'
      BY <1>3, Zenon DEF SetIdentifier, FlagsInv, stack, history
    <3>2. FaultsInv'
      BY <1>3, FaultsAssumption DEF SetIdentifier, Fault, NoFault, history, FaultsInv
    <3> QED
      BY <3>1, <3>2
  <2>4. StoreInv'
    BY <1>3 DEF SetIdentifier, At, Idle, StoreInv, CommandInv, store, cache, history
  <2>5. CASE Go("matter", "setKey")
    <3>1. op'["matter"].at = "setKey" /\ op'["matter"].config = op["matter"].config
      BY <1>1, <2>5, GoStep DEF Steps
    <3>2. ~Go("matter", "idle")
      BY <1>1, <3>1, GoStep DEF Steps
    <3> QED
      BY <1>3, <2>2, <2>3, <2>4, <3>1, <3>2, ConfigAssumption
         DEF SetIdentifier, At, Idle, StoreInv, CommandInv, WholeInv, store, cache, history
  <2>6. CASE Go("matter", "idle")
    <3>1. op'["matter"].at = "idle"
      BY <1>1, <2>6, GoStep DEF Steps
    <3>2. acked' = None
      BY <1>3 DEF SetIdentifier, At, Idle, CommandInv, history
    <3> QED
      BY <2>2, <2>3, <2>4, <3>1, <3>2 DEF At, Idle, CommandInv, WholeInv
  <2> QED
    BY <2>1, <2>5, <2>6
<1>4. CASE SetPrivateKey
  <2>1. PICK s \in {"setPub", "idle"} : Go("matter", s)
    BY <1>4 DEF SetPrivateKey
  <2>2. /\ op' \in Ops /\ op'["matter"].at = s
        /\ s # "idle" => op'["matter"].config = op["matter"].config
        /\ \A r \in Threads : r # "matter" => op'[r] = op[r]
    BY <1>1, <2>1, GoStep DEF Steps
  <2>3. FlagsInv' /\ FaultsInv'
    <3>1. FlagsInv'
      BY <1>4, Zenon DEF SetPrivateKey, FlagsInv, stack, history
    <3>2. FaultsInv'
      BY <1>4, FaultsAssumption DEF SetPrivateKey, Fault, NoFault, history, FaultsInv
    <3> QED
      BY <3>1, <3>2
  <2>4. StoreInv'
    BY <1>4 DEF SetPrivateKey, At, Idle, StoreInv, CommandInv, store, cache, history
  <2>5. CASE Go("matter", "setPub")
    <3>1. op'["matter"].at = "setPub" /\ op'["matter"].config = op["matter"].config
      BY <1>1, <2>5, GoStep DEF Steps
    <3>2. ~Go("matter", "idle")
      BY <1>1, <3>1, GoStep DEF Steps
    <3> QED
      BY <1>4, <2>2, <2>3, <2>4, <3>1, <3>2, ConfigAssumption
         DEF SetPrivateKey, At, Idle, StoreInv, CommandInv, WholeInv, store, cache, history
  <2>6. CASE Go("matter", "idle")
    <3>1. op'["matter"].at = "idle"
      BY <1>1, <2>6, GoStep DEF Steps
    <3>2. acked' = None
      BY <1>4 DEF SetPrivateKey, At, Idle, CommandInv, history
    <3> QED
      BY <2>2, <2>3, <2>4, <3>1, <3>2 DEF At, Idle, CommandInv, WholeInv
  <2> QED
    BY <2>1, <2>5, <2>6
<1>5. CASE CachePublicKey
  <2>1. PICK s \in {"setGroup", "idle"} : Go("matter", s)
    BY <1>5 DEF CachePublicKey
  <2>2. /\ op' \in Ops /\ op'["matter"].at = s
        /\ s # "idle" => op'["matter"].config = op["matter"].config
        /\ \A r \in Threads : r # "matter" => op'[r] = op[r]
    BY <1>1, <2>1, GoStep DEF Steps
  <2>3. FlagsInv' /\ FaultsInv'
    <3>1. FlagsInv'
      BY <1>5, Zenon DEF CachePublicKey, FlagsInv, stack, history
    <3>2. FaultsInv'
      BY <1>5, FaultsAssumption DEF CachePublicKey, Fault, NoFault, history, FaultsInv
    <3> QED
      BY <3>1, <3>2
  <2>4. StoreInv'
    BY <1>5 DEF CachePublicKey, At, Idle, StoreInv, CommandInv, store, cache, history
  <2>5. CASE Go("matter", "setGroup")
    <3>1. op'["matter"].at = "setGroup" /\ op'["matter"].config = op["matter"].config
      BY <1>1, <2>5, GoStep DEF Steps
    <3>2. ~Go("matter", "idle")
      BY <1>1, <3>1, GoStep DEF Steps
    <3> QED
      BY <1>5, <2>2, <2>3, <2>4, <3>1, <3>2, ConfigAssumption
         DEF CachePublicKey, At, Idle, StoreInv, CommandInv, WholeInv, store, cache, history
  <2>6. CASE Go("matter", "idle")
    <3>1. op'["matter"].at = "idle"
      BY <1>1, <2>6, GoStep DEF Steps
    <3>2. acked' = None
      BY <1>5 DEF CachePublicKey, At, Idle, CommandInv, history
    <3> QED
      BY <2>2, <2>3, <2>4, <3>1, <3>2 DEF At, Idle, CommandInv, WholeInv
  <2> QED
    BY <2>1, <2>5, <2>6
<1>6. CASE SetGroupResolvingKey
  <2>1. PICK s \in {"notify", "idle"} : Go("matter", s)
    BY <1>6 DEF SetGroupResolvingKey
  <2>2. /\ op' \in Ops /\ op'["matter"].at = s
        /\ s # "idle" => op'["matter"].config = op["matter"].config
        /\ \A r \in Threads : r # "matter" => op'[r] = op[r]
    BY <1>1, <2>1, GoStep DEF Steps
  <2>3. FlagsInv' /\ FaultsInv'
    <3>1. FlagsInv'
      BY <1>6, Zenon DEF SetGroupResolvingKey, FlagsInv, stack, history
    <3>2. FaultsInv'
      BY <1>6, FaultsAssumption DEF SetGroupResolvingKey, Fault, NoFault, history, FaultsInv
    <3> QED
      BY <3>1, <3>2
  <2>4. StoreInv'
    BY <1>6 DEF SetGroupResolvingKey, At, Idle, StoreInv, CommandInv, store, cache, history
  <2>5. CASE Go("matter", "notify")
    <3>1. op'["matter"].at = "notify" /\ op'["matter"].config = op["matter"].config
      BY <1>1, <2>5, GoStep DEF Steps
    <3>2. ~Go("matter", "idle")
      BY <1>1, <3>1, GoStep DEF Steps
    <3> QED
      BY <1>6, <2>2, <2>3, <2>4, <3>1, <3>2, ConfigAssumption
         DEF SetGroupResolvingKey, At, Idle, StoreInv, CommandInv, WholeInv, store, cache, history
  <2>6. CASE Go("matter", "idle")
    <3>1. op'["matter"].at = "idle"
      BY <1>1, <2>6, GoStep DEF Steps
    <3>2. acked' = None
      BY <1>6 DEF SetGroupResolvingKey, At, Idle, CommandInv, history
    <3> QED
      BY <2>2, <2>3, <2>4, <3>1, <3>2 DEF At, Idle, CommandInv, WholeInv
  <2> QED
    BY <2>1, <2>5, <2>6
<1>7. CASE ConfigSet
  <2>1. PICK s \in {"idle"} : Go("matter", s)
    BY <1>7 DEF ConfigSet
  <2>2. /\ op' \in Ops /\ op'["matter"].at = s
        /\ s # "idle" => op'["matter"].config = op["matter"].config
        /\ \A r \in Threads : r # "matter" => op'[r] = op[r]
    BY <1>1, <2>1, GoStep DEF Steps
  <2>3. FlagsInv' /\ FaultsInv'
    <3>1. FlagsInv'
      BY <1>7, Zenon DEF ConfigSet, FlagsInv, stack, history
    <3>2. FaultsInv'
      BY <1>7, FaultsAssumption DEF ConfigSet, Fault, NoFault, history, FaultsInv
    <3> QED
      BY <3>1, <3>2
  <2>4. StoreInv'
    BY <1>7 DEF ConfigSet, At, Idle, StoreInv, CommandInv, store, cache, history
  <2>5. CommandInv' /\ WholeInv'
    BY <1>7, <2>1, <2>2, ConfigAssumption
       DEF ConfigSet, At, Idle, StoreInv, CommandInv, WholeInv, store, cache, history, Go
  <2> QED
    BY <2>2, <2>3, <2>4, <2>5
<1>8. CASE ClearIdentifier
  <2>1. PICK s \in {"clearKey", "idle"} : Go("matter", s)
    BY <1>8 DEF ClearIdentifier
  <2>2. /\ op' \in Ops /\ op'["matter"].at = s
        /\ s # "idle" => op'["matter"].config = op["matter"].config
        /\ \A r \in Threads : r # "matter" => op'[r] = op[r]
    BY <1>1, <2>1, GoStep DEF Steps
  <2>3. FlagsInv' /\ FaultsInv'
    <3>1. FlagsInv'
      BY <1>8, Zenon DEF ClearIdentifier, FlagsInv, stack, history
    <3>2. FaultsInv'
      BY <1>8, FaultsAssumption DEF ClearIdentifier, Fault, NoFault, history, FaultsInv
    <3> QED
      BY <3>1, <3>2
  <2>4. StoreInv'
    BY <1>8 DEF ClearIdentifier, At, Idle, StoreInv, CommandInv, store, cache, history
  <2>5. CommandInv' /\ WholeInv'
    BY <1>8, <2>1, <2>2, ConfigAssumption
       DEF ClearIdentifier, At, Idle, StoreInv, CommandInv, WholeInv, store, cache, history, Go
  <2> QED
    BY <2>2, <2>3, <2>4, <2>5
<1>9. CASE ClearPrivateKey
  <2>1. PICK s \in {"clearGroup", "idle"} : Go("matter", s)
    BY <1>9 DEF ClearPrivateKey
  <2>2. /\ op' \in Ops /\ op'["matter"].at = s
        /\ s # "idle" => op'["matter"].config = op["matter"].config
        /\ \A r \in Threads : r # "matter" => op'[r] = op[r]
    BY <1>1, <2>1, GoStep DEF Steps
  <2>3. FlagsInv' /\ FaultsInv'
    <3>1. FlagsInv'
      BY <1>9, Zenon DEF ClearPrivateKey, FlagsInv, stack, history
    <3>2. FaultsInv'
      BY <1>9, FaultsAssumption DEF ClearPrivateKey, Fault, NoFault, history, FaultsInv
    <3> QED
      BY <3>1, <3>2
  <2>4. StoreInv'
    BY <1>9 DEF ClearPrivateKey, At, Idle, StoreInv, CommandInv, store, cache, history
  <2>5. CommandInv' /\ WholeInv'
    BY <1>9, <2>1, <2>2, ConfigAssumption
       DEF ClearPrivateKey, At, Idle, StoreInv, CommandInv, WholeInv, store, cache, history, Go
  <2> QED
    BY <2>2, <2>3, <2>4, <2>5
<1>10. CASE ClearGroupResolvingKey
  <2>1. PICK s \in {"idle"} : Go("matter", s)
    BY <1>10 DEF ClearGroupResolvingKey
  <2>2. /\ op' \in Ops /\ op'["matter"].at = s
        /\ s # "idle" => op'["matter"].config = op["matter"].config
        /\ \A r \in Threads : r # "matter" => op'[r] = op[r]
    BY <1>1, <2>1, GoStep DEF Steps
  <2>3. FlagsInv' /\ FaultsInv'
    <3>1. FlagsInv'
      BY <1>10, Zenon DEF ClearGroupResolvingKey, FlagsInv, stack, history
    <3>2. FaultsInv'
      BY <1>10, FaultsAssumption DEF ClearGroupResolvingKey, Fault, NoFault, history, FaultsInv
    <3> QED
      BY <3>1, <3>2
  <2>4. StoreInv'
    BY <1>10 DEF ClearGroupResolvingKey, At, Idle, StoreInv, CommandInv, store, cache, history
  <2>5. CommandInv' /\ WholeInv'
    BY <1>10, <2>1, <2>2, ConfigAssumption
       DEF ClearGroupResolvingKey, At, Idle, StoreInv, CommandInv, WholeInv, store, cache, history, Go
  <2> QED
    BY <2>2, <2>3, <2>4, <2>5
<1>11. CASE ClearReaderConfig
  <2>1. op' \in Ops /\ op'["matter"] = [at |-> "stopNfc", config |-> None]
    BY <1>1, <1>11, BeginStep DEF ClearReaderConfig, Operation, Steps
  <2>2. FlagsInv' /\ FaultsInv'
    <3>1. FlagsInv'
      BY <1>1, <1>11, Zenon DEF ClearReaderConfig, Begin, FlagsInv, stack
    <3>2. FaultsInv'
      BY <1>1, <1>11 DEF ClearReaderConfig, NoFault, FaultsInv
    <3> QED
      BY <3>1, <3>2
  <2>3. StoreInv' /\ CommandInv' /\ WholeInv'
    BY <1>11, <2>1 DEF ClearReaderConfig, StoreInv, CommandInv, WholeInv, At, Idle, store, cache
  <2> QED
    BY <2>1, <2>2, <2>3
<1>12. CASE FactoryReset
  <2>1. op' \in Ops /\ op'["matter"] = [at |-> "clearId", config |-> None]
    BY <1>1, <1>12, BeginStep DEF FactoryReset, Operation, Steps
  <2>2. FlagsInv' /\ FaultsInv'
    <3>1. FlagsInv'
      BY <1>1, <1>12, Zenon DEF FactoryReset, Begin, FlagsInv, stack
    <3>2. FaultsInv'
      BY <1>1, <1>12 DEF FactoryReset, NoFault, FaultsInv
    <3> QED
      BY <3>1, <3>2
  <2>3. StoreInv' /\ CommandInv' /\ WholeInv'
    <3>1. UNCHANGED <<sId, sKey, sGroup, id, pub>> /\ acked' = None
      BY <1>12 DEF FactoryReset, store, cache
    <3> QED
      BY <2>1, <3>1 DEF StoreInv, CommandInv, WholeInv, At, Idle
  <2> QED
    BY <2>1, <2>2, <2>3
<1> QED
  BY <1>2, <1>3, <1>4, <1>5, <1>6, <1>7, <1>8, <1>9, <1>10, <1>11, <1>12 DEF Matter

(* A step of the state control, or of AliroStop, which does not touch the    *)
(* configuration keeps what is known of it.                                  *)
LEMMA ConfigurationKept ==
    ASSUME IInv, UNCHANGED <<sId, sKey, sGroup, cache, acked>>,
           op'["matter"] = op["matter"]
    PROVE  StoreInv' /\ CommandInv' /\ WholeInv'
  BY DEF IInv, StoreInv, CommandInv, WholeInv, At, Idle, cache

(* The state control leaves the configuration as it is, but for a missing    *)
(* group resolving key, which an acknowledged configuration does not have.   *)
LEMMA AliroStep == IInv /\ Aliro => IInv'
<1> SUFFICES ASSUME IInv, Aliro PROVE IInv'
  OBVIOUS
<1> USE DEF IInv
<1>1. "matter" \in Threads /\ "aliro" \in Threads /\ "matter" # "aliro"
  BY DEF Threads
<1>2. CASE UpdateAliroState
  <2>1. op' \in Ops /\ op'["matter"] = op["matter"]
    BY <1>1, <1>2, BeginStep DEF UpdateAliroState, Operation, Steps
  <2>2. FlagsInv' /\ FaultsInv'
    <3>1. FlagsInv'
      BY <1>1, <1>2, Zenon DEF UpdateAliroState, Begin, FlagsInv, stack, history
    <3>2. FaultsInv'
      BY <1>1, <1>2 DEF UpdateAliroState, NoFault, history, FaultsInv
    <3> QED
      BY <3>1, <3>2
  <2>3. UNCHANGED <<sId, sKey, sGroup, cache, acked>>
    BY <1>2 DEF UpdateAliroState, store, history
  <2> QED
    BY <2>1, <2>2, <2>3, ConfigurationKept
<1>3. CASE CheckProvisioning
  <2>1. PICK s \in {"startNfc", "stopNfc", "idle"} : Go("aliro", s)
    BY <1>3 DEF CheckProvisioning
  <2>2. /\ op' \in Ops /\ op'["aliro"].at = s
        /\ s # "idle" => op'["aliro"].config = op["aliro"].config
        /\ \A r \in Threads : r # "aliro" => op'[r] = op[r]
    BY <1>1, <2>1, GoStep DEF Steps
  <2>3. FlagsInv' /\ FaultsInv'
    <3>1. FlagsInv'
      BY <1>3, Zenon DEF CheckProvisioning, FlagsInv, stack, history
    <3>2. FaultsInv'
      BY <1>3, FaultsAssumption DEF CheckProvisioning, Fault, NoFault, history, FaultsInv
    <3> QED
      BY <3>1, <3>2
  <2>4. UNCHANGED <<sId, sKey, sGroup, cache, acked>>
    BY <1>3 DEF CheckProvisioning, store, history
  <2> QED
    BY <1>1, <2>2, <2>3, <2>4, ConfigurationKept
<1>4. CASE StartNfc
  <2>1. PICK s \in {"checkGroup", "idle"} : Go("aliro", s)
    BY <1>4 DEF StartNfc
  <2>2. /\ op' \in Ops /\ op'["aliro"].at = s
        /\ s # "idle" => op'["aliro"].config = op["aliro"].config
        /\ \A r \in Threads : r # "aliro" => op'[r] = op[r]
    BY <1>1, <2>1, GoStep DEF Steps
  <2>3. FlagsInv' /\ FaultsInv'
    <3>1. FlagsInv'
      BY <1>4, Zenon DEF StartNfc, FlagsInv, stack, history
    <3>2. FaultsInv'
      BY <1>4, FaultsAssumption DEF StartNfc, Fault, NoFault, history, FaultsInv
    <3> QED
      BY <3>1, <3>2
  <2>4. UNCHANGED <<sId, sKey, sGroup, cache, acked>>
    BY <1>4 DEF StartNfc, store, history
  <2> QED
    BY <1>1, <2>2, <2>3, <2>4, ConfigurationKept
<1>5. CASE CheckGroupResolvingKey
  <2>1. PICK s \in {"startService", "setZero"} : Go("aliro", s)
    BY <1>5 DEF CheckGroupResolvingKey
  <2>2. /\ op' \in Ops /\ op'["aliro"].at = s
        /\ s # "idle" => op'["aliro"].config = op["aliro"].config
        /\ \A r \in Threads : r # "aliro" => op'[r] = op[r]
    BY <1>1, <2>1, GoStep DEF Steps
  <2>3. FlagsInv' /\ FaultsInv'
    <3>1. FlagsInv'
      BY <1>5, Zenon DEF CheckGroupResolvingKey, FlagsInv, stack, history
    <3>2. FaultsInv'
      BY <1>5, FaultsAssumption DEF CheckGroupResolvingKey, Fault, NoFault, history, FaultsInv
    <3> QED
      BY <3>1, <3>2
  <2>4. UNCHANGED <<sId, sKey, sGroup, cache, acked>>
    BY <1>5 DEF CheckGroupResolvingKey, store, history
  <2> QED
    BY <1>1, <2>2, <2>3, <2>4, ConfigurationKept
<1>6. CASE SetZeroKey
  <2>1. PICK s \in {"startService", "idle"} : Go("aliro", s)
    BY <1>6 DEF SetZeroKey
  <2>2. /\ op' \in Ops /\ op'["aliro"].at = s
        /\ s # "idle" => op'["aliro"].config = op["aliro"].config
        /\ \A r \in Threads : r # "aliro" => op'[r] = op[r]
    BY <1>1, <2>1, GoStep DEF Steps
  <2>3. FlagsInv' /\ FaultsInv'
    <3>1. FlagsInv'
      BY <1>6, Zenon DEF SetZeroKey, FlagsInv, stack, history
    <3>2. FaultsInv'
      BY <1>6, FaultsAssumption DEF SetZeroKey, Fault, NoFault, history, FaultsInv
    <3> QED
      BY <3>1, <3>2
  <2>4. /\ UNCHANGED <<sId, sKey, id, pub, acked>>
        /\ sGroup' = sGroup \/ (sGroup = None /\ sGroup' = ZeroKey)
    BY <1>6 DEF SetZeroKey, cache, history
  <2>5. StoreInv' /\ CommandInv' /\ WholeInv'
    BY <1>1, <2>2, <2>4, ConfigAssumption DEF StoreInv, CommandInv, WholeInv, At, Idle
  <2> QED
    BY <2>2, <2>3, <2>5
<1>7. CASE StartService
  <2>1. PICK s \in {"setRunning", "idle"} : Go("aliro", s)
    BY <1>7 DEF StartService
  <2>2. /\ op' \in Ops /\ op'["aliro"].at = s
        /\ s # "idle" => op'["aliro"].config = op["aliro"].config
        /\ \A r \in Threads : r # "aliro" => op'[r] = op[r]
    BY <1>1, <2>1, GoStep DEF Steps
  <2>3. FlagsInv' /\ FaultsInv'
    <3>1. FlagsInv'
      BY <1>7, Zenon DEF StartService, FlagsInv, stack, history
    <3>2. FaultsInv'
      BY <1>7, FaultsAssumption DEF StartService, Fault, NoFault, history, FaultsInv
    <3> QED
      BY <3>1, <3>2
  <2>4. UNCHANGED <<sId, sKey, sGroup, cache, acked>>
    BY <1>7 DEF StartService, store, history
  <2> QED
    BY <1>1, <2>2, <2>3, <2>4, ConfigurationKept
<1>8. CASE SetRunning
  <2>1. PICK s \in {"idle"} : Go("aliro", s)
    BY <1>8 DEF SetRunning
  <2>2. /\ op' \in Ops /\ op'["aliro"].at = s
        /\ s # "idle" => op'["aliro"].config = op["aliro"].config
        /\ \A r \in Threads : r # "aliro" => op'[r] = op[r]
    BY <1>1, <2>1, GoStep DEF Steps
  <2>3. FlagsInv' /\ FaultsInv'
    <3>1. FlagsInv'
      BY <1>8, Zenon DEF SetRunning, FlagsInv, stack, history
    <3>2. FaultsInv'
      BY <1>8, FaultsAssumption DEF SetRunning, Fault, NoFault, history, FaultsInv
    <3> QED
      BY <3>1, <3>2
  <2>4. UNCHANGED <<sId, sKey, sGroup, cache, acked>>
    BY <1>8 DEF SetRunning, store, history
  <2> QED
    BY <1>1, <2>2, <2>3, <2>4, ConfigurationKept
<1> QED
  BY <1>2, <1>3, <1>4, <1>5, <1>6, <1>7, <1>8 DEF Aliro

(* AliroStop, in either thread, leaves the configuration as it is. In the    *)
(* Matter thread nothing is acknowledged while it runs.                      *)
LEMMA StopStep == ASSUME IInv, NEW t \in Threads, Stop(t) PROVE IInv'
<1> USE DEF IInv
<1>1. "matter" \in Threads /\ "aliro" \in Threads /\ "matter" # "aliro"
  BY DEF Threads
<1>2. CASE StopNfc(t)
  <2>1. PICK s \in {"stopService"} : Go(t, s)
    BY <1>2 DEF StopNfc
  <2>2. /\ op' \in Ops /\ op'[t].at = s
        /\ s # "idle" => op'[t].config = op[t].config
        /\ \A r \in Threads : r # t => op'[r] = op[r]
    BY <1>1, <2>1, GoStep DEF Steps
  <2>3. FlagsInv' /\ FaultsInv'
    <3>1. FlagsInv'
      BY <1>2, Zenon DEF StopNfc, FlagsInv, stack, history
    <3>2. FaultsInv'
      BY <1>2, FaultsAssumption DEF StopNfc, Fault, NoFault, history, FaultsInv
    <3> QED
      BY <3>1, <3>2
  <2>4. UNCHANGED <<sId, sKey, sGroup, cache, acked>>
    BY <1>2 DEF StopNfc, store, history
  <2>5. CASE t = "matter"
    BY <1>2, <2>2, <2>4, <2>5, <2>3
       DEF StopNfc, StoreInv, CommandInv, WholeInv, At, Idle, cache
  <2>6. CASE t # "matter"
    BY <1>1, <2>2, <2>3, <2>4, <2>6, ConfigurationKept
  <2> QED
    BY <2>5, <2>6
<1>3. CASE StopService(t)
  <2>1. PICK s \in {"setStopped"} : Go(t, s)
    BY <1>3 DEF StopService
  <2>2. /\ op' \in Ops /\ op'[t].at = s
        /\ s # "idle" => op'[t].config = op[t].config
        /\ \A r \in Threads : r # t => op'[r] = op[r]
    BY <1>1, <2>1, GoStep DEF Steps
  <2>3. FlagsInv' /\ FaultsInv'
    <3>1. FlagsInv'
      BY <1>3, Zenon DEF StopService, FlagsInv, stack, history
    <3>2. FaultsInv'
      BY <1>3, FaultsAssumption DEF StopService, Fault, NoFault, history, FaultsInv
    <3> QED
      BY <3>1, <3>2
  <2>4. UNCHANGED <<sId, sKey, sGroup, cache, acked>>
    BY <1>3 DEF StopService, store, history
  <2>5. CASE t = "matter"
    BY <1>3, <2>2, <2>4, <2>5, <2>3
       DEF StopService, StoreInv, CommandInv, WholeInv, At, Idle, cache
  <2>6. CASE t # "matter"
    BY <1>1, <2>2, <2>3, <2>4, <2>6, ConfigurationKept
  <2> QED
    BY <2>5, <2>6
<1>4. CASE SetStopped(t)
  <2>1. PICK s \in {"clearId", "idle"} : Go(t, s)
    BY <1>4 DEF SetStopped
  <2>2. /\ op' \in Ops /\ op'[t].at = s
        /\ s # "idle" => op'[t].config = op[t].config
        /\ \A r \in Threads : r # t => op'[r] = op[r]
    BY <1>1, <2>1, GoStep DEF Steps
  <2>3. FlagsInv' /\ FaultsInv'
    <3>1. FlagsInv'
      BY <1>4, Zenon DEF SetStopped, FlagsInv, stack, history
    <3>2. FaultsInv'
      BY <1>4, FaultsAssumption DEF SetStopped, Fault, NoFault, history, FaultsInv
    <3> QED
      BY <3>1, <3>2
  <2>4. UNCHANGED <<sId, sKey, sGroup, cache, acked>>
    BY <1>4 DEF SetStopped, store, history
  <2>5. CASE t = "matter"
    BY <1>4, <2>2, <2>4, <2>5, <2>3
       DEF SetStopped, StoreInv, CommandInv, WholeInv, At, Idle, cache
  <2>6. CASE t # "matter"
    BY <1>1, <2>2, <2>3, <2>4, <2>6, ConfigurationKept
  <2> QED
    BY <2>5, <2>6
<1> QED
  BY <1>2, <1>3, <1>4 DEF Stop

(* A reset loads back what is stored, which is all of an acknowledged        *)
(* configuration; a command it cuts has acknowledged nothing.                *)
LEMMA ResetStep == IInv /\ Reset => IInv'
<1> SUFFICES ASSUME IInv, Reset PROVE IInv'
  OBVIOUS
<1>1. op' \in Ops /\ op'["matter"].at = "idle"
  BY DEF Reset, NoOp, Ops, Operation, Steps, Threads
<1>2. FlagsInv' /\ FaultsInv'
  <2>1. FlagsInv'
    BY Zenon DEF IInv, Reset, FlagsInv, history
  <2>2. FaultsInv'
    BY DEF IInv, Reset, history, FaultsInv
  <2> QED
    BY <2>1, <2>2
<1>3. StoreInv' /\ CommandInv' /\ WholeInv'
  BY <1>1 DEF IInv, Reset, StoreInv, CommandInv, WholeInv, At, Idle, store, history
<1> QED
  BY <1>1, <1>2, <1>3 DEF IInv

(* Every step keeps the invariant.                                           *)
LEMMA Inductive == IInv /\ [Next]_vars => IInv'
<1>1. ASSUME IInv, UNCHANGED vars PROVE IInv'
  <2>1. StoreInv' /\ FlagsInv' /\ FaultsInv' /\ WholeInv'
    BY <1>1 DEF vars, store, cache, stack, history, IInv, StoreInv, FlagsInv, FaultsInv, WholeInv
  <2>2. CommandInv'
    BY <1>1 DEF vars, store, cache, stack, history, IInv, CommandInv, At, Idle
  <2> QED
    BY <1>1, <2>1, <2>2 DEF IInv, vars
<1> QED
  BY <1>1, MatterStep, AliroStep, StopStep, ResetStep DEF Next

(* The initial state has it.                                                 *)
LEMMA Initial == Init => IInv
<1> SUFFICES ASSUME Init PROVE IInv
  OBVIOUS
<1>1. op \in Ops /\ op["matter"].at = "idle"
  BY DEF Init, NoOp, Ops, Operation, Steps, Threads
<1>2. FlagsInv /\ FaultsInv
  <2>1. FlagsInv
    BY Zenon DEF Init, FlagsInv
  <2>2. FaultsInv
    BY FaultsAssumption DEF Init, FaultsInv
  <2> QED
    BY <2>1, <2>2
<1>3. StoreInv /\ CommandInv /\ WholeInv
  BY <1>1 DEF Init, StoreInv, CommandInv, WholeInv, At, Idle
<1> QED
  BY <1>1, <1>2, <1>3 DEF IInv

(* A configuration that SetAliroReaderConfig reported as set is whole, in    *)
(* storage and in RAM, until it is cleared: for any set of configurations    *)
(* and any number of failures and resets.                                    *)
THEOREM AcknowledgedStaysWhole == Spec => []AcknowledgedIsWhole
  BY Initial, Inductive, InvariantIsEnough, PTL DEF Spec

-------------------------------------------------------------------------------
(* The steps of each thread.                                                 *)
Setting == {"setId", "setKey", "setPub", "setGroup", "notify"}
StopSteps == {"stopNfc", "stopService", "setStopped"}
MatterSteps == Setting \cup StopSteps \cup {"idle", "clearId", "clearKey", "clearGroup"}
StartSteps == {"startNfc", "checkGroup", "setZero", "startService", "setRunning"}
AliroSteps == StartSteps \cup StopSteps \cup {"idle", "check"}

(* The threads take turns.                                                   *)
TurnsInv ==
    /\ op["matter"].at \in MatterSteps /\ op["aliro"].at \in AliroSteps
    /\ ~overlap => Idle("matter") \/ Idle("aliro")

(* The parts of the stack run together, but for the one who starts or stops  *)
(* them; the state control acts on what it found.                            *)
StackInv == ~overlap =>
    /\ \/ running => nfc /\ service
       \/ \E t \in Threads : op[t].at \in {"stopService", "setStopped"}
    /\ \A t \in Threads : At(t, "setStopped") => ~service
    /\ service => running \/ At("aliro", "setRunning")
    /\ op["aliro"].at \in {"startNfc", "checkGroup", "setZero", "startService"}
           => ~running /\ ~service
    /\ op["aliro"].at \in {"checkGroup", "setZero", "startService", "setRunning"} => nfc
    /\ At("aliro", "setRunning") => service
    /\ op["aliro"].at \in StartSteps => IsProvisioningComplete
    /\ op["aliro"].at \in StopSteps => ~IsProvisioningComplete

(* An acknowledged configuration runs, or is about to.                       *)
PendingInv ==
    ~overlap /\ "start" \notin upset /\ acked # None =>
        \/ work
        \/ op["aliro"].at \in {"check", "startNfc", "checkGroup", "startService", "setRunning"}
        \/ Idle("aliro") /\ running /\ nfc /\ service

(* A reader without a configuration is silent, before it is cleared.         *)
SilentInv ==
    ~overlap /\ "stop" \notin upset /\ "factory reset" \notin upset =>
        /\ ~IsProvisioningComplete \/ op["matter"].at \in {"clearId", "clearKey", "clearGroup"}
               => ~running /\ ~nfc /\ ~service
        /\ At("matter", "stopService") => ~nfc
        /\ At("matter", "setStopped") => ~nfc /\ ~service

(* What was cleared is gone.                                                 *)
BlankInv == ~overlap =>
    /\ blank => sId = None /\ sKey = None /\ sGroup = None /\ id = None /\ pub = None
    /\ op["matter"].at \in {"clearKey", "clearGroup"} => sId = None /\ id = None
    /\ At("matter", "clearGroup") => sKey = None /\ pub = None
    /\ op["matter"].at \in Setting => ~blank

(* With IInv of the configuration it is inductive.                           *)
JInv == TurnsInv /\ StackInv /\ PendingInv /\ SilentInv /\ BlankInv

(* A new identifier completes only a reader that was silent without it.      *)
LEMMA SetIdentifierKeeps == IInv /\ JInv /\ SetIdentifier => JInv'
<1> SUFFICES ASSUME IInv, JInv, SetIdentifier PROVE JInv'
  OBVIOUS
<1>1. PICK s \in {"setKey", "idle"} : Go("matter", s)
  BY DEF SetIdentifier
<1>2. /\ op'["matter"].at = s /\ op'["aliro"] = op["aliro"]
      /\ \A r \in {"setKey", "idle"} : Go("matter", r) => s = r
  BY <1>1, GoStep DEF IInv, Steps, Threads
<1> USE DEF SetIdentifier, JInv, IInv, FlagsInv, TurnsInv, At, NoFault, Fault,
            store, stack, history, Idle, MatterSteps, AliroSteps, Setting,
            StopSteps, StartSteps
<1>3. TurnsInv'
  BY <1>1, <1>2
<1>4. StackInv'
  BY <1>1, <1>2
     DEF StackInv, Threads, IsProvisioningComplete, IsIdentifierSet,
         IsPrivateKeySet
<1>5. PendingInv'
  BY <1>1, <1>2 DEF PendingInv
<1>6. SilentInv'
  BY <1>1, <1>2, ConfigAssumption
     DEF SilentInv, CommandInv, IsProvisioningComplete, IsIdentifierSet,
         IsPrivateKeySet
<1>7. BlankInv'
  BY <1>1, <1>2 DEF BlankInv
<1> QED
  BY <1>3, <1>4, <1>5, <1>6, <1>7 DEF JInv

(* A new private key changes nothing of the stack.                           *)
LEMMA SetPrivateKeyKeeps == IInv /\ JInv /\ SetPrivateKey => JInv'
<1> SUFFICES ASSUME IInv, JInv, SetPrivateKey PROVE JInv'
  OBVIOUS
<1>1. PICK s \in {"setPub", "idle"} : Go("matter", s)
  BY DEF SetPrivateKey
<1>2. /\ op'["matter"].at = s /\ op'["aliro"] = op["aliro"]
      /\ \A r \in {"setPub", "idle"} : Go("matter", r) => s = r
  BY <1>1, GoStep DEF IInv, Steps, Threads
<1> USE DEF SetPrivateKey, JInv, IInv, FlagsInv, TurnsInv, At, NoFault, Fault,
            store, cache, stack, history, Idle, MatterSteps, AliroSteps,
            Setting, StopSteps, StartSteps
<1>3. TurnsInv'
  BY <1>1, <1>2
<1>4. StackInv'
  BY <1>1, <1>2
     DEF StackInv, Threads, IsProvisioningComplete, IsIdentifierSet,
         IsPrivateKeySet
<1>5. PendingInv'
  BY <1>1, <1>2 DEF PendingInv
<1>6. SilentInv'
  BY <1>1, <1>2
     DEF SilentInv, IsProvisioningComplete, IsIdentifierSet, IsPrivateKeySet
<1>7. BlankInv'
  BY <1>1, <1>2 DEF BlankInv
<1> QED
  BY <1>3, <1>4, <1>5, <1>6, <1>7 DEF JInv

(* Nor does its public key,                                                  *)
LEMMA CachePublicKeyKeeps == IInv /\ JInv /\ CachePublicKey => JInv'
<1> SUFFICES ASSUME IInv, JInv, CachePublicKey PROVE JInv'
  OBVIOUS
<1>1. PICK s \in {"setGroup", "idle"} : Go("matter", s)
  BY DEF CachePublicKey
<1>2. /\ op'["matter"].at = s /\ op'["aliro"] = op["aliro"]
      /\ \A r \in {"setGroup", "idle"} : Go("matter", r) => s = r
  BY <1>1, GoStep DEF IInv, Steps, Threads
<1> USE DEF CachePublicKey, JInv, IInv, FlagsInv, TurnsInv, At, NoFault, Fault,
            store, stack, history, Idle, MatterSteps, AliroSteps, Setting,
            StopSteps, StartSteps
<1>3. TurnsInv'
  BY <1>1, <1>2
<1>4. StackInv'
  BY <1>1, <1>2
     DEF StackInv, Threads, IsProvisioningComplete, IsIdentifierSet,
         IsPrivateKeySet
<1>5. PendingInv'
  BY <1>1, <1>2 DEF PendingInv
<1>6. SilentInv'
  BY <1>1, <1>2
     DEF SilentInv, IsProvisioningComplete, IsIdentifierSet, IsPrivateKeySet
<1>7. BlankInv'
  BY <1>1, <1>2 DEF BlankInv
<1> QED
  BY <1>3, <1>4, <1>5, <1>6, <1>7 DEF JInv

(* nor the group resolving key.                                              *)
LEMMA SetGroupResolvingKeyKeeps == IInv /\ JInv /\ SetGroupResolvingKey => JInv'
<1> SUFFICES ASSUME IInv, JInv, SetGroupResolvingKey PROVE JInv'
  OBVIOUS
<1>1. PICK s \in {"notify", "idle"} : Go("matter", s)
  BY DEF SetGroupResolvingKey
<1>2. /\ op'["matter"].at = s /\ op'["aliro"] = op["aliro"]
      /\ \A r \in {"notify", "idle"} : Go("matter", r) => s = r
  BY <1>1, GoStep DEF IInv, Steps, Threads
<1> USE DEF SetGroupResolvingKey, JInv, IInv, FlagsInv, TurnsInv, At, NoFault,
            Fault, store, cache, stack, history, Idle, MatterSteps, AliroSteps,
            Setting, StopSteps, StartSteps
<1>3. TurnsInv'
  BY <1>1, <1>2
<1>4. StackInv'
  BY <1>1, <1>2
     DEF StackInv, Threads, IsProvisioningComplete, IsIdentifierSet,
         IsPrivateKeySet
<1>5. PendingInv'
  BY <1>1, <1>2 DEF PendingInv
<1>6. SilentInv'
  BY <1>1, <1>2
     DEF SilentInv, IsProvisioningComplete, IsIdentifierSet, IsPrivateKeySet
<1>7. BlankInv'
  BY <1>1, <1>2 DEF BlankInv
<1> QED
  BY <1>3, <1>4, <1>5, <1>6, <1>7 DEF JInv

(* The acknowledgement queues the state control.                             *)
LEMMA ConfigSetKeeps == IInv /\ JInv /\ ConfigSet => JInv'
<1> SUFFICES ASSUME IInv, JInv, ConfigSet PROVE JInv'
  OBVIOUS
<1>1. PICK s \in {"idle"} : Go("matter", s)
  BY DEF ConfigSet
<1>2. /\ op'["matter"].at = s /\ op'["aliro"] = op["aliro"]
      /\ \A r \in {"idle"} : Go("matter", r) => s = r
  BY <1>1, GoStep DEF IInv, Steps, Threads
<1> USE DEF ConfigSet, JInv, IInv, FlagsInv, TurnsInv, At, NoFault, store,
            cache, stack, Idle, MatterSteps, AliroSteps, Setting, StopSteps,
            StartSteps
<1>3. TurnsInv'
  BY <1>1, <1>2
<1>4. StackInv'
  BY <1>1, <1>2
     DEF StackInv, Threads, IsProvisioningComplete, IsIdentifierSet,
         IsPrivateKeySet
<1>5. PendingInv'
  BY <1>1, <1>2 DEF PendingInv
<1>6. SilentInv'
  BY <1>1, <1>2
     DEF SilentInv, IsProvisioningComplete, IsIdentifierSet, IsPrivateKeySet
<1>7. BlankInv'
  BY <1>1, <1>2 DEF BlankInv
<1> QED
  BY <1>3, <1>4, <1>5, <1>6, <1>7 DEF JInv

(* The configuration is broken up only when Aliro was stopped.               *)
LEMMA ClearIdentifierKeeps == IInv /\ JInv /\ ClearIdentifier => JInv'
<1> SUFFICES ASSUME IInv, JInv, ClearIdentifier PROVE JInv'
  OBVIOUS
<1>1. PICK s \in {"clearKey", "idle"} : Go("matter", s)
  BY DEF ClearIdentifier
<1>2. /\ op'["matter"].at = s /\ op'["aliro"] = op["aliro"]
      /\ \A r \in {"clearKey", "idle"} : Go("matter", r) => s = r
  BY <1>1, GoStep DEF IInv, Steps, Threads
<1> USE DEF ClearIdentifier, JInv, IInv, FlagsInv, TurnsInv, At, NoFault,
            Fault, store, stack, history, Idle, MatterSteps, AliroSteps,
            Setting, StopSteps, StartSteps
<1>3. TurnsInv'
  BY <1>1, <1>2
<1>4. StackInv'
  BY <1>1, <1>2
     DEF StackInv, Threads, IsProvisioningComplete, IsIdentifierSet,
         IsPrivateKeySet
<1>5. PendingInv'
  BY <1>1, <1>2 DEF PendingInv
<1>6. SilentInv'
  BY <1>1, <1>2
     DEF SilentInv, IsProvisioningComplete, IsIdentifierSet, IsPrivateKeySet
<1>7. BlankInv'
  BY <1>1, <1>2 DEF BlankInv
<1> QED
  BY <1>3, <1>4, <1>5, <1>6, <1>7 DEF JInv

(* The private key goes after the identifier,                                *)
LEMMA ClearPrivateKeyKeeps == IInv /\ JInv /\ ClearPrivateKey => JInv'
<1> SUFFICES ASSUME IInv, JInv, ClearPrivateKey PROVE JInv'
  OBVIOUS
<1>1. PICK s \in {"clearGroup", "idle"} : Go("matter", s)
  BY DEF ClearPrivateKey
<1>2. /\ op'["matter"].at = s /\ op'["aliro"] = op["aliro"]
      /\ \A r \in {"clearGroup", "idle"} : Go("matter", r) => s = r
  BY <1>1, GoStep DEF IInv, Steps, Threads
<1> USE DEF ClearPrivateKey, JInv, IInv, FlagsInv, TurnsInv, At, NoFault,
            Fault, store, stack, history, Idle, MatterSteps, AliroSteps,
            Setting, StopSteps, StartSteps
<1>3. TurnsInv'
  BY <1>1, <1>2
<1>4. StackInv'
  BY <1>1, <1>2
     DEF StackInv, Threads, IsProvisioningComplete, IsIdentifierSet,
         IsPrivateKeySet
<1>5. PendingInv'
  BY <1>1, <1>2 DEF PendingInv
<1>6. SilentInv'
  BY <1>1, <1>2
     DEF SilentInv, IsProvisioningComplete, IsIdentifierSet, IsPrivateKeySet
<1>7. BlankInv'
  BY <1>1, <1>2 DEF BlankInv
<1> QED
  BY <1>3, <1>4, <1>5, <1>6, <1>7 DEF JInv

(* and the group resolving key last: the reader is blank.                    *)
LEMMA ClearGroupResolvingKeyKeeps == IInv /\ JInv /\ ClearGroupResolvingKey => JInv'
<1> SUFFICES ASSUME IInv, JInv, ClearGroupResolvingKey PROVE JInv'
  OBVIOUS
<1>1. PICK s \in {"idle"} : Go("matter", s)
  BY DEF ClearGroupResolvingKey
<1>2. /\ op'["matter"].at = s /\ op'["aliro"] = op["aliro"]
      /\ \A r \in {"idle"} : Go("matter", r) => s = r
  BY <1>1, GoStep DEF IInv, Steps, Threads
<1> USE DEF ClearGroupResolvingKey, JInv, IInv, FlagsInv, TurnsInv, At,
            NoFault, Fault, store, cache, stack, Idle, MatterSteps, AliroSteps,
            Setting, StopSteps, StartSteps, IsProvisioningComplete,
            IsIdentifierSet, IsPrivateKeySet
<1>3. TurnsInv'
  BY <1>1, <1>2
<1>4. StackInv'
  BY <1>1, <1>2 DEF StackInv, Threads
<1>5. PendingInv'
  BY <1>1, <1>2 DEF PendingInv
<1>6. SilentInv'
  BY <1>1, <1>2 DEF SilentInv
<1>7. BlankInv'
  BY <1>1, <1>2 DEF BlankInv, StackInv, Threads
<1> QED
  BY <1>3, <1>4, <1>5, <1>6, <1>7 DEF JInv

(* The state control starts what is provisioned and does not run, and stops  *)
(* what runs without a configuration.                                        *)
LEMMA CheckProvisioningKeeps == IInv /\ JInv /\ CheckProvisioning => JInv'
<1> SUFFICES ASSUME IInv, JInv, CheckProvisioning PROVE JInv'
  OBVIOUS
<1>1. PICK s \in {"startNfc", "stopNfc", "idle"} :
          /\ Go("aliro", s)
          /\ s = CASE IsProvisioningComplete /\ ~running -> "startNfc"
                   [] ~IsProvisioningComplete /\ running -> "stopNfc"
                   [] OTHER -> "idle"
  BY DEF CheckProvisioning
<1>2. /\ op'["aliro"].at = s /\ op'["matter"] = op["matter"]
      /\ \A r \in {"startNfc", "stopNfc", "idle"} : Go("aliro", r) => s = r
  BY <1>1, GoStep DEF IInv, Steps, Threads
<1> USE DEF CheckProvisioning, JInv, IInv, FlagsInv, TurnsInv, At, NoFault,
            store, cache, stack, history, IsProvisioningComplete, Idle,
            MatterSteps, AliroSteps, IsIdentifierSet, IsPrivateKeySet, Setting,
            StopSteps, StartSteps
<1>3. TurnsInv'
  BY <1>1, <1>2
<1>4. StackInv'
  BY <1>1, <1>2 DEF StackInv, SilentInv, Threads
<1>5. PendingInv'
  BY <1>1, <1>2 DEF PendingInv, StackInv, StoreInv, WholeInv, Threads
<1>6. SilentInv'
  BY <1>1, <1>2 DEF SilentInv
<1>7. BlankInv'
  BY <1>1, <1>2 DEF BlankInv
<1> QED
  BY <1>3, <1>4, <1>5, <1>6, <1>7 DEF JInv

(* Only a provisioned reader is started, first the NFC transport;            *)
LEMMA StartNfcKeeps == IInv /\ JInv /\ StartNfc => JInv'
<1> SUFFICES ASSUME IInv, JInv, StartNfc PROVE JInv'
  OBVIOUS
<1>1. PICK s \in {"checkGroup", "idle"} : Go("aliro", s)
  BY DEF StartNfc
<1>2. /\ op'["aliro"].at = s /\ op'["matter"] = op["matter"]
      /\ \A r \in {"checkGroup", "idle"} : Go("aliro", r) => s = r
  BY <1>1, GoStep DEF IInv, Steps, Threads
<1> USE DEF StartNfc, JInv, IInv, FlagsInv, TurnsInv, At, NoFault, Fault,
            store, cache, history, Idle, MatterSteps, AliroSteps, Setting,
            StopSteps, StartSteps, StackInv, Threads, IsProvisioningComplete,
            IsIdentifierSet, IsPrivateKeySet
<1>3. TurnsInv'
  BY <1>1, <1>2
<1>4. StackInv'
  BY <1>1, <1>2
<1>5. PendingInv'
  BY <1>1, <1>2 DEF PendingInv
<1>6. SilentInv'
  BY <1>1, <1>2 DEF SilentInv
<1>7. BlankInv'
  BY <1>1, <1>2 DEF BlankInv
<1> QED
  BY <1>3, <1>4, <1>5, <1>6, <1>7 DEF JInv

(* an acknowledged configuration has its group resolving key,                *)
LEMMA CheckGroupResolvingKeyKeeps == IInv /\ JInv /\ CheckGroupResolvingKey => JInv'
<1> SUFFICES ASSUME IInv, JInv, CheckGroupResolvingKey PROVE JInv'
  OBVIOUS
<1>1. PICK s \in {"startService", "setZero"} : Go("aliro", s)
  BY DEF CheckGroupResolvingKey
<1>2. /\ op'["aliro"].at = s /\ op'["matter"] = op["matter"]
      /\ \A r \in {"startService", "setZero"} : Go("aliro", r) => s = r
  BY <1>1, GoStep DEF IInv, Steps, Threads
<1> USE DEF CheckGroupResolvingKey, JInv, IInv, FlagsInv, TurnsInv, At,
            NoFault, store, cache, stack, history, Idle, MatterSteps,
            AliroSteps, Setting, StopSteps, StartSteps
<1>3. TurnsInv'
  BY <1>1, <1>2
<1>4. StackInv'
  BY <1>1, <1>2
     DEF StackInv, Threads, IsProvisioningComplete, IsIdentifierSet,
         IsPrivateKeySet
<1>5. PendingInv'
  BY <1>1, <1>2, ConfigAssumption
     DEF PendingInv, WholeInv, StoreInv, IsGroupResolvingKeySet
<1>6. SilentInv'
  BY <1>1, <1>2
     DEF SilentInv, IsProvisioningComplete, IsIdentifierSet, IsPrivateKeySet
<1>7. BlankInv'
  BY <1>1, <1>2 DEF BlankInv
<1> QED
  BY <1>3, <1>4, <1>5, <1>6, <1>7 DEF JInv

(* so that zeros are put in for none of its own.                             *)
LEMMA SetZeroKeyKeeps == IInv /\ JInv /\ SetZeroKey => JInv'
<1> SUFFICES ASSUME IInv, JInv, SetZeroKey PROVE JInv'
  OBVIOUS
<1>1. PICK s \in {"startService", "idle"} : Go("aliro", s)
  BY DEF SetZeroKey
<1>2. /\ op'["aliro"].at = s /\ op'["matter"] = op["matter"]
      /\ \A r \in {"startService", "idle"} : Go("aliro", r) => s = r
  BY <1>1, GoStep DEF IInv, Steps, Threads
<1> USE DEF SetZeroKey, JInv, IInv, FlagsInv, TurnsInv, At, NoFault, Fault,
            cache, stack, history, Idle, MatterSteps, AliroSteps, Setting,
            StopSteps, StartSteps, IsProvisioningComplete, IsIdentifierSet,
            IsPrivateKeySet
<1>3. TurnsInv'
  BY <1>1, <1>2
<1>4. StackInv'
  BY <1>1, <1>2 DEF StackInv, Threads
<1>5. PendingInv'
  BY <1>1, <1>2 DEF PendingInv
<1>6. SilentInv'
  BY <1>1, <1>2 DEF SilentInv
<1>7. BlankInv'
  BY <1>1, <1>2 DEF BlankInv, StackInv, Threads
<1> QED
  BY <1>3, <1>4, <1>5, <1>6, <1>7 DEF JInv

(* The service was not started before, and starts.                           *)
LEMMA StartServiceKeeps == IInv /\ JInv /\ StartService => JInv'
<1> SUFFICES ASSUME IInv, JInv, StartService PROVE JInv'
  OBVIOUS
<1>1. PICK s \in {"setRunning", "idle"} : Go("aliro", s)
  BY DEF StartService
<1>2. /\ op'["aliro"].at = s /\ op'["matter"] = op["matter"]
      /\ \A r \in {"setRunning", "idle"} : Go("aliro", r) => s = r
  BY <1>1, GoStep DEF IInv, Steps, Threads
<1> USE DEF StartService, JInv, IInv, FlagsInv, TurnsInv, At, NoFault, Fault,
            store, cache, history, Idle, MatterSteps, AliroSteps, Setting,
            StopSteps, StartSteps, StackInv, Threads, IsProvisioningComplete,
            IsIdentifierSet, IsPrivateKeySet
<1>3. TurnsInv'
  BY <1>1, <1>2
<1>4. StackInv'
  BY <1>1, <1>2
<1>5. PendingInv'
  BY <1>1, <1>2 DEF PendingInv
<1>6. SilentInv'
  BY <1>1, <1>2 DEF SilentInv
<1>7. BlankInv'
  BY <1>1, <1>2 DEF BlankInv
<1> QED
  BY <1>3, <1>4, <1>5, <1>6, <1>7 DEF JInv

(* Only then Aliro counts as running.                                        *)
LEMMA SetRunningKeeps == IInv /\ JInv /\ SetRunning => JInv'
<1> SUFFICES ASSUME IInv, JInv, SetRunning PROVE JInv'
  OBVIOUS
<1>1. PICK s \in {"idle"} : Go("aliro", s)
  BY DEF SetRunning
<1>2. /\ op'["aliro"].at = s /\ op'["matter"] = op["matter"]
      /\ \A r \in {"idle"} : Go("aliro", r) => s = r
  BY <1>1, GoStep DEF IInv, Steps, Threads
<1> USE DEF SetRunning, JInv, IInv, FlagsInv, TurnsInv, At, NoFault, store,
            cache, history, Idle, MatterSteps, AliroSteps, Setting, StopSteps,
            StartSteps, StackInv, Threads, IsProvisioningComplete,
            IsIdentifierSet, IsPrivateKeySet
<1>3. TurnsInv'
  BY <1>1, <1>2
<1>4. StackInv'
  BY <1>1, <1>2
<1>5. PendingInv'
  BY <1>1, <1>2 DEF PendingInv
<1>6. SilentInv'
  BY <1>1, <1>2 DEF SilentInv
<1>7. BlankInv'
  BY <1>1, <1>2 DEF BlankInv
<1> QED
  BY <1>3, <1>4, <1>5, <1>6, <1>7 DEF JInv

(* A configuration is set when there is no key; what was blank is not any more.*)
LEMMA SetReaderConfigKeeps ==
    ASSUME IInv, JInv, NEW c \in Configs, SetReaderConfig(c) PROVE JInv'
<1>1. Begin("matter", [at |-> "setId", config |-> c])
  BY DEF SetReaderConfig
<1>2. [at |-> "setId", config |-> c] \in Operation
  BY DEF Operation, Steps
<1>3. /\ op["matter"].at = "idle" /\ op'["matter"].at = "setId" /\ op'["aliro"] = op["aliro"]
  BY <1>1, <1>2, BeginStep DEF IInv, Steps, Threads
<1>4. ~overlap' => ~overlap /\ op["aliro"].at = "idle"
  BY <1>1, "matter" # "aliro", Zenon DEF Begin, Threads, Idle, At
<1> USE DEF SetReaderConfig, JInv, IInv, FlagsInv, TurnsInv, NoFault, store,
            cache, stack, IsPrivateKeySet, Idle, MatterSteps, AliroSteps, At,
            Setting, StopSteps, StartSteps
<1>5. TurnsInv'
  BY <1>3, <1>4
<1>6. StackInv'
  BY <1>3, <1>4 DEF StackInv, Threads, IsProvisioningComplete, IsIdentifierSet
<1>7. PendingInv'
  BY <1>3, <1>4 DEF PendingInv
<1>8. SilentInv'
  BY <1>3, <1>4 DEF SilentInv, IsProvisioningComplete, IsIdentifierSet
<1>9. BlankInv'
  BY <1>3, <1>4 DEF BlankInv
<1> QED
  BY <1>5, <1>6, <1>7, <1>8, <1>9 DEF JInv

(* A command to clear withdraws the acknowledgement first.                   *)
LEMMA ClearReaderConfigKeeps ==
    ASSUME IInv, JInv, ClearReaderConfig PROVE JInv'
<1>1. Begin("matter", [at |-> "stopNfc", config |-> None])
  BY DEF ClearReaderConfig
<1>2. [at |-> "stopNfc", config |-> None] \in Operation
  BY DEF Operation, Steps
<1>3. /\ op["matter"].at = "idle" /\ op'["matter"].at = "stopNfc" /\ op'["aliro"] = op["aliro"]
  BY <1>1, <1>2, BeginStep DEF IInv, Steps, Threads
<1>4. ~overlap' => ~overlap /\ op["aliro"].at = "idle"
  BY <1>1, "matter" # "aliro", Zenon DEF Begin, Threads, Idle, At
<1> USE DEF ClearReaderConfig, JInv, IInv, FlagsInv, TurnsInv, NoFault, store,
            cache, stack, Idle, MatterSteps, AliroSteps, At, Setting,
            StopSteps, StartSteps
<1>5. TurnsInv'
  BY <1>3, <1>4
<1>6. StackInv'
  BY <1>3, <1>4
     DEF StackInv, Threads, IsProvisioningComplete, IsIdentifierSet,
         IsPrivateKeySet
<1>7. PendingInv'
  BY <1>3, <1>4 DEF PendingInv
<1>8. SilentInv'
  BY <1>3, <1>4
     DEF SilentInv, IsProvisioningComplete, IsIdentifierSet, IsPrivateKeySet
<1>9. BlankInv'
  BY <1>3, <1>4 DEF BlankInv
<1> QED
  BY <1>5, <1>6, <1>7, <1>8, <1>9 DEF JInv

(* A factory reset does not stop Aliro, which the history says.              *)
LEMMA FactoryResetKeeps ==
    ASSUME IInv, JInv, FactoryReset PROVE JInv'
<1>1. Begin("matter", [at |-> "clearId", config |-> None])
  BY DEF FactoryReset
<1>2. [at |-> "clearId", config |-> None] \in Operation
  BY DEF Operation, Steps
<1>3. /\ op["matter"].at = "idle" /\ op'["matter"].at = "clearId" /\ op'["aliro"] = op["aliro"]
  BY <1>1, <1>2, BeginStep DEF IInv, Steps, Threads
<1>4. ~overlap' => ~overlap /\ op["aliro"].at = "idle"
  BY <1>1, "matter" # "aliro", Zenon DEF Begin, Threads, Idle, At
<1> USE DEF FactoryReset, JInv, IInv, FlagsInv, TurnsInv, store, cache, stack,
            Idle, MatterSteps, AliroSteps, At, Setting, StopSteps, StartSteps
<1>5. TurnsInv'
  BY <1>3, <1>4
<1>6. StackInv'
  BY <1>3, <1>4
     DEF StackInv, Threads, IsProvisioningComplete, IsIdentifierSet,
         IsPrivateKeySet
<1>7. PendingInv'
  BY <1>3, <1>4 DEF PendingInv
<1>8. SilentInv'
  BY <1>3, <1>4
     DEF SilentInv, IsProvisioningComplete, IsIdentifierSet, IsPrivateKeySet
<1>9. BlankInv'
  BY <1>3, <1>4 DEF BlankInv
<1> QED
  BY <1>5, <1>6, <1>7, <1>8, <1>9 DEF JInv

(* The state control takes the queued work and is on its way.                *)
LEMMA UpdateAliroStateKeeps ==
    ASSUME IInv, JInv, UpdateAliroState PROVE JInv'
<1>1. Begin("aliro", [at |-> "check", config |-> None])
  BY DEF UpdateAliroState
<1>2. [at |-> "check", config |-> None] \in Operation
  BY DEF Operation, Steps
<1>3. /\ op["aliro"].at = "idle" /\ op'["aliro"].at = "check" /\ op'["matter"] = op["matter"]
  BY <1>1, <1>2, BeginStep DEF IInv, Steps, Threads
<1>4. ~overlap' => ~overlap /\ op["matter"].at = "idle"
  BY <1>1, "aliro" # "matter", Zenon DEF Begin, Threads, Idle, At
<1> USE DEF UpdateAliroState, JInv, IInv, FlagsInv, TurnsInv, NoFault, store,
            cache, stack, history, Idle, MatterSteps, AliroSteps, At, Setting,
            StopSteps, StartSteps
<1>5. TurnsInv'
  BY <1>3, <1>4
<1>6. StackInv'
  BY <1>3, <1>4
     DEF StackInv, Threads, IsProvisioningComplete, IsIdentifierSet,
         IsPrivateKeySet
<1>7. PendingInv'
  BY <1>3, <1>4 DEF PendingInv
<1>8. SilentInv'
  BY <1>3, <1>4
     DEF SilentInv, IsProvisioningComplete, IsIdentifierSet, IsPrivateKeySet
<1>9. BlankInv'
  BY <1>3, <1>4 DEF BlankInv
<1> QED
  BY <1>5, <1>6, <1>7, <1>8, <1>9 DEF JInv

(* AliroStop, step by step, in the Matter thread before a clear, and in the  *)
(* state control of a reader that has no configuration.                      *)
LEMMA StopNfcByCommandKeeps == IInv /\ JInv /\ StopNfc("matter") => JInv'
<1> SUFFICES ASSUME IInv, JInv, StopNfc("matter") PROVE JInv'
  OBVIOUS
<1>1. PICK s \in {"stopService"} : Go("matter", s)
  BY DEF StopNfc
<1>2. /\ op'["matter"].at = s /\ op'["aliro"] = op["aliro"]
      /\ \A r \in {"stopService"} : Go("matter", r) => s = r
  BY <1>1, GoStep DEF IInv, Steps, Threads
<1> USE DEF StopNfc, JInv, StackInv, IInv, FlagsInv, TurnsInv, At, Threads,
            StopSteps, StartSteps, NoFault, Fault, store, cache, history,
            IsProvisioningComplete, Idle, MatterSteps, AliroSteps,
            IsIdentifierSet, IsPrivateKeySet, Setting
<1>3. TurnsInv'
  BY <1>1, <1>2
<1>4. StackInv'
  BY <1>1, <1>2
<1>5. PendingInv'
  BY <1>1, <1>2 DEF PendingInv, CommandInv
<1>6. SilentInv'
  BY <1>1, <1>2 DEF SilentInv
<1>7. BlankInv'
  BY <1>1, <1>2 DEF BlankInv
<1> QED
  BY <1>3, <1>4, <1>5, <1>6, <1>7 DEF JInv

(* The same steps of the state control.                                      *)
LEMMA StopNfcByControlKeeps == IInv /\ JInv /\ StopNfc("aliro") => JInv'
<1> SUFFICES ASSUME IInv, JInv, StopNfc("aliro") PROVE JInv'
  OBVIOUS
<1>1. PICK s \in {"stopService"} : Go("aliro", s)
  BY DEF StopNfc
<1>2. /\ op'["aliro"].at = s /\ op'["matter"] = op["matter"]
      /\ \A r \in {"stopService"} : Go("aliro", r) => s = r
  BY <1>1, GoStep DEF IInv, Steps, Threads
<1> USE DEF StopNfc, JInv, StackInv, IInv, FlagsInv, TurnsInv, At, Threads,
            StopSteps, StartSteps, NoFault, Fault, store, cache, history,
            IsProvisioningComplete, Idle, MatterSteps, AliroSteps,
            IsIdentifierSet, IsPrivateKeySet, Setting
<1>3. TurnsInv'
  BY <1>1, <1>2
<1>4. StackInv'
  BY <1>1, <1>2
<1>5. PendingInv'
  BY <1>1, <1>2 DEF PendingInv
<1>6. SilentInv'
  BY <1>1, <1>2 DEF SilentInv
<1>7. BlankInv'
  BY <1>1, <1>2 DEF BlankInv
<1> QED
  BY <1>3, <1>4, <1>5, <1>6, <1>7 DEF JInv

(* The service stops after the NFC transport,                                *)
LEMMA StopServiceByCommandKeeps == IInv /\ JInv /\ StopService("matter") => JInv'
<1> SUFFICES ASSUME IInv, JInv, StopService("matter") PROVE JInv'
  OBVIOUS
<1>1. PICK s \in {"setStopped"} : Go("matter", s)
  BY DEF StopService
<1>2. /\ op'["matter"].at = s /\ op'["aliro"] = op["aliro"]
      /\ \A r \in {"setStopped"} : Go("matter", r) => s = r
  BY <1>1, GoStep DEF IInv, Steps, Threads
<1> USE DEF StopService, JInv, StackInv, IInv, FlagsInv, TurnsInv, At, Threads,
            StopSteps, StartSteps, NoFault, store, cache, history,
            IsProvisioningComplete, Idle, MatterSteps, AliroSteps,
            IsIdentifierSet, IsPrivateKeySet, Setting
<1>3. TurnsInv'
  BY <1>1, <1>2
<1>4. StackInv'
  BY <1>1, <1>2
<1>5. PendingInv'
  BY <1>1, <1>2 DEF PendingInv, CommandInv
<1>6. SilentInv'
  BY <1>1, <1>2 DEF SilentInv
<1>7. BlankInv'
  BY <1>1, <1>2 DEF BlankInv
<1> QED
  BY <1>3, <1>4, <1>5, <1>6, <1>7 DEF JInv

(* The service,                                                              *)
LEMMA StopServiceByControlKeeps == IInv /\ JInv /\ StopService("aliro") => JInv'
<1> SUFFICES ASSUME IInv, JInv, StopService("aliro") PROVE JInv'
  OBVIOUS
<1>1. PICK s \in {"setStopped"} : Go("aliro", s)
  BY DEF StopService
<1>2. /\ op'["aliro"].at = s /\ op'["matter"] = op["matter"]
      /\ \A r \in {"setStopped"} : Go("aliro", r) => s = r
  BY <1>1, GoStep DEF IInv, Steps, Threads
<1> USE DEF StopService, JInv, StackInv, IInv, FlagsInv, TurnsInv, At, Threads,
            StopSteps, StartSteps, NoFault, store, cache, history,
            IsProvisioningComplete, Idle, MatterSteps, AliroSteps,
            IsIdentifierSet, IsPrivateKeySet, Setting
<1>3. TurnsInv'
  BY <1>1, <1>2
<1>4. StackInv'
  BY <1>1, <1>2
<1>5. PendingInv'
  BY <1>1, <1>2 DEF PendingInv
<1>6. SilentInv'
  BY <1>1, <1>2 DEF SilentInv
<1>7. BlankInv'
  BY <1>1, <1>2 DEF BlankInv
<1> QED
  BY <1>3, <1>4, <1>5, <1>6, <1>7 DEF JInv

(* and the command goes on to clear a silent reader.                         *)
LEMMA SetStoppedByCommandKeeps == IInv /\ JInv /\ SetStopped("matter") => JInv'
<1> SUFFICES ASSUME IInv, JInv, SetStopped("matter") PROVE JInv'
  OBVIOUS
<1>1. PICK s \in {"clearId"} : Go("matter", s)
  BY DEF SetStopped
<1>2. /\ op'["matter"].at = s /\ op'["aliro"] = op["aliro"]
      /\ \A r \in {"clearId"} : Go("matter", r) => s = r
  BY <1>1, GoStep DEF IInv, Steps, Threads
<1> USE DEF SetStopped, JInv, StackInv, IInv, FlagsInv, TurnsInv, At, Threads,
            StopSteps, StartSteps, NoFault, store, cache, history,
            IsProvisioningComplete, Idle, MatterSteps, AliroSteps,
            IsIdentifierSet, IsPrivateKeySet, Setting
<1>3. TurnsInv'
  BY <1>1, <1>2
<1>4. StackInv'
  BY <1>1, <1>2
<1>5. PendingInv'
  BY <1>1, <1>2 DEF PendingInv
<1>6. SilentInv'
  BY <1>1, <1>2 DEF SilentInv
<1>7. BlankInv'
  BY <1>1, <1>2 DEF BlankInv
<1> QED
  BY <1>3, <1>4, <1>5, <1>6, <1>7 DEF JInv

(* and the end of it.                                                        *)
LEMMA SetStoppedByControlKeeps == IInv /\ JInv /\ SetStopped("aliro") => JInv'
<1> SUFFICES ASSUME IInv, JInv, SetStopped("aliro") PROVE JInv'
  OBVIOUS
<1>1. PICK s \in {"idle"} : Go("aliro", s)
  BY DEF SetStopped
<1>2. /\ op'["aliro"].at = s /\ op'["matter"] = op["matter"]
      /\ \A r \in {"idle"} : Go("aliro", r) => s = r
  BY <1>1, GoStep DEF IInv, Steps, Threads
<1> USE DEF SetStopped, JInv, StackInv, IInv, FlagsInv, TurnsInv, At, Threads,
            StopSteps, StartSteps, NoFault, store, cache, history,
            IsProvisioningComplete, Idle, MatterSteps, AliroSteps,
            IsIdentifierSet, IsPrivateKeySet, Setting
<1>3. TurnsInv'
  BY <1>1, <1>2
<1>4. StackInv'
  BY <1>1, <1>2
<1>5. PendingInv'
  BY <1>1, <1>2 DEF PendingInv
<1>6. SilentInv'
  BY <1>1, <1>2 DEF SilentInv
<1>7. BlankInv'
  BY <1>1, <1>2 DEF BlankInv
<1> QED
  BY <1>3, <1>4, <1>5, <1>6, <1>7 DEF JInv

(* A reset stops everything and queues the state control.                    *)
LEMMA ResetKeeps == IInv /\ JInv /\ Reset => JInv'
<1> SUFFICES ASSUME IInv, JInv, Reset PROVE JInv'
  OBVIOUS
<1>1. op'["matter"].at = "idle" /\ op'["aliro"].at = "idle"
  BY DEF Reset, NoOp, Threads
<1> USE DEF Reset, JInv, IInv, FlagsInv, TurnsInv, Threads, store, history,
            Idle, MatterSteps, AliroSteps, At, Setting, StopSteps, StartSteps
<1>2. TurnsInv'
  BY <1>1
<1>3. StackInv'
  BY <1>1
     DEF StackInv, IsProvisioningComplete, IsIdentifierSet, IsPrivateKeySet
<1>4. PendingInv'
  BY <1>1 DEF PendingInv
<1>5. SilentInv'
  BY <1>1
     DEF SilentInv, IsProvisioningComplete, IsIdentifierSet, IsPrivateKeySet
<1>6. BlankInv'
  BY <1>1 DEF BlankInv
<1> QED
  BY <1>2, <1>3, <1>4, <1>5, <1>6 DEF JInv

(* At the start there is nothing to run, and nothing does.                   *)
LEMMA SilentInitially == Init => JInv
<1> SUFFICES ASSUME Init PROVE JInv
  OBVIOUS
<1>1. op["matter"].at = "idle" /\ op["aliro"].at = "idle"
  BY DEF Init, NoOp, Threads
<1> USE DEF Init, Threads, At
<1>2. TurnsInv
  BY <1>1 DEF TurnsInv, Idle, MatterSteps, AliroSteps
<1>3. StackInv
  BY <1>1
     DEF StackInv, StopSteps, StartSteps, IsProvisioningComplete,
         IsIdentifierSet, IsPrivateKeySet
<1>4. PendingInv
  BY <1>1 DEF PendingInv, Idle
<1>5. SilentInv
  BY <1>1
     DEF SilentInv, IsProvisioningComplete, IsIdentifierSet, IsPrivateKeySet
<1>6. BlankInv
  BY <1>1 DEF BlankInv, Setting
<1> QED
  BY <1>2, <1>3, <1>4, <1>5, <1>6 DEF JInv

(* A step that changes nothing.                                              *)
LEMMA StandingStillKeeps == IInv /\ JInv /\ UNCHANGED vars => JInv'
<1> SUFFICES ASSUME IInv, JInv, UNCHANGED vars PROVE JInv'
  OBVIOUS
<1> USE DEF vars, JInv, IInv, FlagsInv, store, cache, stack, history, At
<1>1. TurnsInv'
  BY
     DEF TurnsInv, Idle, MatterSteps, AliroSteps, Setting, StopSteps,
         StartSteps
<1>2. StackInv'
  BY
     DEF StackInv, Threads, StopSteps, StartSteps, IsProvisioningComplete,
         IsIdentifierSet, IsPrivateKeySet
<1>3. PendingInv'
  BY DEF PendingInv, Idle
<1>4. SilentInv'
  BY DEF SilentInv, IsProvisioningComplete, IsIdentifierSet, IsPrivateKeySet
<1>5. BlankInv'
  BY DEF BlankInv, Setting
<1> QED
  BY <1>1, <1>2, <1>3, <1>4, <1>5 DEF JInv

(* Every step keeps the invariant of the stack, given that of the            *)
(* configuration.                                                            *)
LEMMA StackInductive == IInv /\ JInv /\ [Next]_vars => JInv'
<1> SUFFICES ASSUME IInv, JInv, [Next]_vars PROVE JInv'
  OBVIOUS
<1>1. CASE Matter
  BY <1>1, SetReaderConfigKeeps, SetIdentifierKeeps, SetPrivateKeyKeeps, CachePublicKeyKeeps,
     SetGroupResolvingKeyKeeps, ConfigSetKeeps, ClearReaderConfigKeeps, FactoryResetKeeps,
     ClearIdentifierKeeps, ClearPrivateKeyKeeps, ClearGroupResolvingKeyKeeps DEF Matter
<1>2. CASE Aliro
  BY <1>2, UpdateAliroStateKeeps, CheckProvisioningKeeps, StartNfcKeeps,
     CheckGroupResolvingKeyKeeps, SetZeroKeyKeeps, StartServiceKeeps, SetRunningKeeps DEF Aliro
<1>3. CASE \E t \in Threads : Stop(t)
  BY <1>3, StopNfcByCommandKeeps, StopServiceByCommandKeeps, SetStoppedByCommandKeeps,
     StopNfcByControlKeeps, StopServiceByControlKeeps, SetStoppedByControlKeeps
     DEF Stop, Threads
<1> QED
  BY <1>1, <1>2, <1>3, ResetKeeps, StandingStillKeeps DEF Next

(* At rest the two invariants say what is claimed.                           *)
LEMMA StackIsEnough == IInv /\ JInv => RunsWhenProvisioned /\ ClearedIsBlank
<1> SUFFICES ASSUME IInv, JInv PROVE RunsWhenProvisioned /\ ClearedIsBlank
  OBVIOUS
<1>1. RunsWhenProvisioned
  BY DEF JInv, StackInv, PendingInv, SilentInv, RunsWhenProvisioned, AtRest, Unless,
         IInv, FlagsInv, At, Idle, Threads
<1>2. ClearedIsBlank
  BY DEF JInv, BlankInv, ClearedIsBlank, IInv, FlagsInv
<1> QED
  BY <1>1, <1>2

(* Once the state control is done, Aliro runs with an acknowledged           *)
(* configuration and is silent without one, for any configurations and       *)
(* any number of failures and resets; the causes that excuse it are those    *)
(* RunsWhenProvisioned names.                                                *)
THEOREM ProvisionedRuns == Spec => []RunsWhenProvisioned
  BY Initial, Inductive, SilentInitially, StackInductive, StackIsEnough, PTL DEF Spec

(* Nothing of an old configuration, nor a key of zeros, is left of a reader  *)
(* that was cleared with success.                                            *)
THEOREM ClearedStaysBlank == Spec => []ClearedIsBlank
  BY Initial, Inductive, SilentInitially, StackInductive, StackIsEnough, PTL DEF Spec

===============================================================================
