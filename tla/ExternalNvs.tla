---------------------------- MODULE ExternalNvs ----------------------------
(***************************************************************************)
(* The external NVS subsystem (subsys/external_nvs) with rollback          *)
(* protection: sealed objects live on an external flash, the counters and  *)
(* the unique ID that authenticate them live on the internal one.          *)
(*                                                                         *)
(* Every public call runs under sExternalNvsMutex, so at most one call is  *)
(* in progress; what interleaves with it is a reset of the device.  A call *)
(* is therefore cut into one step per change of persistent state, and any  *)
(* fallible call it makes may fail at that step.                           *)
(*                                                                         *)
(* An object is abstracted to the additional data it was sealed with (the  *)
(* unique ID and the counter) and its plaintext: decryption succeeds       *)
(* exactly when that additional data is presented again.                   *)
(***************************************************************************)
EXTENDS Naturals, FiniteSets

CONSTANTS
  Ids,         (* entry identifiers of the callers (0xFFFF is reserved)    *)
  Values,      (* plaintexts                                               *)
  None,        (* no entry, no value, no identifier                        *)
  MaxCounter,  (* bound on the counters, which are 32 bits wide            *)
  MaxUid       (* bound on the number of unique IDs ever generated         *)

ASSUME NoneAssumption ==
  /\ None \notin Ids
  /\ None \notin Values
ASSUME BoundsAssumption == MaxCounter \in Nat /\ MaxUid \in Nat

NoUid  == 0
Uids   == 0 .. MaxUid
Counts == 0 .. MaxCounter
Object == [uid : Uids, ctr : Counts, val : Values]

ASSUME NoneIsNoObject == None \notin Object

VARIABLES
  psUid,        (* internal flash: the unique ID in PSA protected storage  *)
  ctr,          (* internal flash: the counters in the settings subtree    *)
  ext,          (* external flash: the object stored at each entry         *)
  extUid,       (* external flash: the entry kUniqueIdReservedId           *)
  mounted,      (* RAM: the NVS file system is mounted                     *)
  counterInit,  (* RAM: Counter::sInitialized                              *)
  ramUid,       (* RAM: Counter::sUniqueId                                 *)
  pc, cid, cobj,(* the call in progress, its entry and the object it seals *)
  answer,       (* the plaintext the last call returned, if it was a Read  *)
  sealed,       (* history: every object ever put on the external flash    *)
  lastUid,      (* history: the unique IDs generated so far                *)
  ready,        (* history: the last Init returned 0, no Clear began since  *)
  acked,        (* history: the object of the last acknowledged write      *)
  gone,         (* history: acknowledged objects superseded since          *)
  held          (* history: the value a caller may rely on (see Durable)   *)

internal == <<psUid, ctr>>
external == <<ext, extUid>>
ram      == <<mounted, counterInit, ramUid>>
call     == <<pc, cid, cobj, answer>>
past     == <<sealed, lastUid>>
ghosts   == <<ready, acked, gone, held>>
vars     == <<internal, external, ram, call, past, ghosts>>

Steps == {"idle",
          "initStorage", "initCounter", "initUid", "initErase", "initRemount",
          "initWriteUid",
          "writeSeal", "writeStore", "writeCount", "writeCleanup",
          "read", "readCleanup", "deleteStore", "deleteCount",
          "clearUid", "clearCounters", "clearStore"}

(* Decryption with the additional data of the device accepts object o. *)
Accepts(id, o) == o.uid = psUid /\ o.ctr = ctr[id]

Begin(step, id, o) ==
  /\ pc = "idle"
  /\ pc' = step /\ cid' = id /\ cobj' = o /\ answer' = None

Goto(step) == pc' = step /\ UNCHANGED <<cid, cobj, answer>>

Return == pc' = "idle" /\ cid' = None /\ cobj' = None /\ answer' = None

(* The entries of S are erased; the one of the unique ID too if uidToo. *)
Erased(S, uidToo) ==
  /\ ext' = [id \in Ids |-> IF id \in S THEN None ELSE ext[id]]
  /\ extUid' = IF uidToo THEN NoUid ELSE extUid

(* What a caller relied on at the entries of S is not promised any more. *)
Forget(S) == held' = [id \in Ids |-> IF id \in S THEN None ELSE held[id]]

(* The acknowledged objects of S are superseded; id now holds o. *)
Superseded(S) ==
  [id \in Ids |-> IF id \in S /\ acked[id] # None
                  THEN gone[id] \union {acked[id]} ELSE gone[id]]

-----------------------------------------------------------------------------
(* Init(partitionId) *)

BeginInit ==
  /\ Begin("initStorage", None, None)
  /\ ready' = FALSE
  /\ UNCHANGED <<internal, external, ram, past, acked, gone, held>>

InitStorage ==
  /\ pc = "initStorage"
  /\ \/ Goto("initCounter") /\ mounted' = TRUE
     \/ Return /\ UNCHANGED mounted
  /\ UNCHANGED <<internal, external, counterInit, ramUid, past, ghosts>>

(* Counter::Init: the unique ID is loaded, or generated when there is none. *)
InitCounterLoad ==
  /\ pc = "initCounter" /\ psUid # NoUid
  /\ ramUid' = psUid /\ counterInit' = TRUE
  /\ Goto("initUid")
  /\ UNCHANGED <<internal, external, mounted, past, ghosts>>

(* Mutant: a new unique ID is generated at every Init. *)
GenerateAlways ==
  /\ pc = "initCounter" /\ lastUid < MaxUid
  /\ lastUid' = lastUid + 1 /\ ramUid' = lastUid' /\ psUid' = lastUid'
  /\ counterInit' = TRUE /\ Goto("initUid")
  /\ UNCHANGED <<ctr, external, mounted, sealed, ghosts>>

InitCounterGenerate ==
  /\ pc = "initCounter" /\ psUid = NoUid /\ lastUid < MaxUid
  /\ lastUid' = lastUid + 1 /\ ramUid' = lastUid'
  /\ \/ psUid' = lastUid' /\ counterInit' = TRUE /\ Goto("initUid")
     \/ Return /\ UNCHANGED <<psUid, counterInit>>
  /\ UNCHANGED <<ctr, external, mounted, sealed, ghosts>>

(* Nonce::Init, Key::Init or Counter::Init fails. *)
InitCounterFails ==
  /\ pc = "initCounter"
  /\ Return
  /\ UNCHANGED <<internal, external, ram, past, ghosts>>

(* InitializeUniqueId: a storage that carries another unique ID, or whose   *)
(* unique ID cannot be read, is erased and given the one of the device.     *)
InitUidMatch ==
  /\ pc = "initUid" /\ extUid = ramUid
  /\ Return /\ ready' = TRUE
  /\ UNCHANGED <<internal, external, ram, past, acked, gone, held>>

(* Mutant: the storage is erased whatever unique ID it carries. *)
EraseAlways ==
  /\ pc = "initUid"
  /\ Goto("initErase")
  /\ UNCHANGED <<internal, external, ram, past, ready, acked, gone, held>>

InitUidMismatch ==
  /\ pc = "initUid"
  /\ Goto("initErase")
  /\ IF extUid = ramUid THEN Forget(Ids)         \* the read itself failed
                        ELSE UNCHANGED held
  /\ UNCHANGED <<internal, external, ram, past, ready, acked, gone>>

InitErase ==
  /\ pc = "initErase"
  /\ \E S \in SUBSET Ids, uidToo \in BOOLEAN :
       /\ Erased(S, uidToo)
       /\ \/ /\ S = Ids /\ uidToo
             /\ mounted' = FALSE /\ Goto("initRemount")
          \/ Return /\ UNCHANGED mounted
  /\ UNCHANGED <<internal, counterInit, ramUid, past, ghosts>>

InitRemount ==
  /\ pc = "initRemount"
  /\ \/ Goto("initWriteUid") /\ mounted' = TRUE
     \/ Return /\ UNCHANGED mounted
  /\ UNCHANGED <<internal, external, counterInit, ramUid, past, ghosts>>

InitWriteUid ==
  /\ pc = "initWriteUid"
  /\ Return
  /\ \/ extUid' = ramUid /\ ready' = TRUE
     \/ UNCHANGED <<extUid, ready>>
  /\ UNCHANGED <<internal, ext, ram, past, acked, gone, held>>

-----------------------------------------------------------------------------
(* Write(id, data, len) *)

BeginWrite(id, v) ==
  /\ ctr[id] < MaxCounter
  /\ Begin("writeSeal", id, [uid |-> NoUid, ctr |-> 0, val |-> v])
  /\ Forget({id})
  /\ UNCHANGED <<internal, external, ram, past, ready, acked, gone>>

(* The counter is read and incremented in RAM, then the object is sealed. *)
WriteSeal ==
  /\ pc = "writeSeal"
  /\ \/ /\ counterInit
        /\ pc' = "writeStore"
        /\ cobj' = [uid |-> ramUid, ctr |-> ctr[cid] + 1, val |-> cobj.val]
     \/ pc' = "writeCleanup" /\ UNCHANGED cobj
  /\ UNCHANGED <<cid, answer, internal, external, ram, past, ghosts>>

WriteStore ==
  /\ pc = "writeStore"
  /\ \/ /\ mounted
        /\ ext' = [ext EXCEPT ![cid] = cobj]
        /\ sealed' = [sealed EXCEPT ![cid] = @ \union {cobj}]
        /\ Goto("writeCount")
     \/ Goto("writeCleanup") /\ UNCHANGED <<ext, sealed>>
  /\ UNCHANGED <<internal, extUid, ram, lastUid, ghosts>>

(* The counter is saved: the write is acknowledged. *)
WriteCount ==
  /\ pc = "writeCount"
  /\ ctr' = [ctr EXCEPT ![cid] = cobj.ctr]
  /\ gone' = Superseded({cid})
  /\ acked' = [acked EXCEPT ![cid] = cobj]
  /\ held' = [held EXCEPT ![cid] = IF ready THEN cobj.val ELSE None]
  /\ Return
  /\ UNCHANGED <<psUid, external, ram, past, ready>>

WriteCountFails ==
  /\ pc = "writeCount"
  /\ Goto("writeCleanup")
  /\ UNCHANGED <<internal, external, ram, past, ghosts>>

(* WriteLocked: whatever step failed, the entry is deleted, if that works. *)
WriteCleanup ==
  /\ pc = "writeCleanup"
  /\ \/ mounted /\ ext' = [ext EXCEPT ![cid] = None]
     \/ UNCHANGED ext
  /\ Return
  /\ UNCHANGED <<internal, extUid, ram, past, ghosts>>

-----------------------------------------------------------------------------
(* Read(id, data, len) *)

BeginRead(id) ==
  /\ Begin("read", id, None)
  /\ UNCHANGED <<internal, external, ram, past, ghosts>>

(* Mutant: the additional data lacks the counter. *)
ReadAnyCounter ==
  /\ pc = "read" /\ mounted /\ counterInit
  /\ ext[cid] # None /\ ext[cid].uid = ramUid
  /\ pc' = "idle" /\ cid' = None /\ cobj' = None
  /\ answer' = ext[cid].val
  /\ UNCHANGED <<internal, external, ram, past, ghosts>>

(* Mutant: the additional data lacks the unique ID. *)
ReadAnyUid ==
  /\ pc = "read" /\ mounted /\ counterInit
  /\ ext[cid] # None /\ ext[cid].ctr = ctr[cid]
  /\ pc' = "idle" /\ cid' = None /\ cobj' = None
  /\ answer' = ext[cid].val
  /\ UNCHANGED <<internal, external, ram, past, ghosts>>

(* The object decrypts under the additional data the device knows. *)
ReadOk ==
  /\ pc = "read" /\ mounted /\ counterInit
  /\ ext[cid] # None /\ ext[cid].uid = ramUid /\ ext[cid].ctr = ctr[cid]
  /\ pc' = "idle" /\ cid' = None /\ cobj' = None
  /\ answer' = ext[cid].val
  /\ UNCHANGED <<internal, external, ram, past, ghosts>>

(* There is no entry, or an error other than -EIO occurs. *)
ReadFails ==
  /\ pc = "read"
  /\ Return
  /\ UNCHANGED <<internal, external, ram, past, ghosts>>

(* -EIO: the object is not accepted, or the flash, the settings, the key    *)
(* derivation or a caller's buffer that is too short made the read fail.    *)
ReadFailsEio ==
  /\ pc = "read" /\ mounted
  /\ Goto("readCleanup")
  /\ Forget({cid})
  /\ UNCHANGED <<internal, external, ram, past, ready, acked, gone>>

ReadCleanup ==
  /\ pc = "readCleanup"
  /\ \/ mounted /\ ext' = [ext EXCEPT ![cid] = None]
     \/ UNCHANGED ext
  /\ Return
  /\ UNCHANGED <<internal, extUid, ram, past, ghosts>>

-----------------------------------------------------------------------------
(* Delete(id) *)

BeginDelete(id) ==
  /\ ctr[id] < MaxCounter
  /\ Begin("deleteStore", id, None)
  /\ Forget({id})
  /\ UNCHANGED <<internal, external, ram, past, ready, acked, gone>>

DeleteStore ==
  /\ pc = "deleteStore"
  /\ \/ mounted /\ ext' = [ext EXCEPT ![cid] = None] /\ Goto("deleteCount")
     \/ Return /\ UNCHANGED ext
  /\ UNCHANGED <<internal, extUid, ram, past, ghosts>>

(* Mutant: the incremented counter is not saved. *)
DeleteUncounted ==
  /\ pc = "deleteCount"
  /\ gone' = Superseded({cid})
  /\ acked' = [acked EXCEPT ![cid] = None]
  /\ Return
  /\ UNCHANGED <<internal, external, ram, past, ready, held>>

(* The counter is saved: the removal is acknowledged. *)
DeleteCount ==
  /\ pc = "deleteCount"
  /\ ctr' = [ctr EXCEPT ![cid] = @ + 1]
  /\ gone' = Superseded({cid})
  /\ acked' = [acked EXCEPT ![cid] = None]
  /\ Return
  /\ UNCHANGED <<psUid, external, ram, past, ready, held>>

DeleteCountFails ==
  /\ pc = "deleteCount"
  /\ Return
  /\ UNCHANGED <<internal, external, ram, past, ghosts>>

-----------------------------------------------------------------------------
(* Clear() *)

BeginClear ==
  /\ Begin("clearUid", None, None)
  /\ ready' = FALSE /\ Forget(Ids)
  /\ UNCHANGED <<internal, external, ram, past, acked, gone>>

(* Mutant: the unique ID survives. *)
ClearKeepsUid ==
  /\ pc = "clearUid"
  /\ counterInit' = FALSE /\ Goto("clearCounters")
  /\ UNCHANGED <<internal, external, mounted, ramUid, past, ghosts>>

ClearUid ==
  /\ pc = "clearUid"
  /\ counterInit' = FALSE
  /\ \/ psUid' = NoUid /\ Goto("clearCounters")
     \/ Return /\ UNCHANGED psUid
  /\ UNCHANGED <<ctr, external, mounted, ramUid, past, ghosts>>

(* Every counter is deleted, those whose deletion fails excepted. *)
ClearCounters ==
  /\ pc = "clearCounters"
  /\ \E S \in SUBSET Ids :
       /\ ctr' = [id \in Ids |-> IF id \in S THEN 0 ELSE ctr[id]]
       /\ \/ S = Ids /\ Goto("clearStore")
          \/ S # Ids /\ Return
  /\ UNCHANGED <<psUid, external, ram, past, ghosts>>

ClearStore ==
  /\ pc = "clearStore"
  /\ \/ /\ mounted /\ Erased(Ids, TRUE)
        /\ mounted' = FALSE
        /\ gone' = Superseded(Ids)
        /\ acked' = [id \in Ids |-> None]
     \/ /\ \E S \in SUBSET Ids, uidToo \in BOOLEAN :
             Erased(S, uidToo) /\ (~mounted => S = {} /\ ~uidToo)
        /\ UNCHANGED <<mounted, gone, acked>>
  /\ Return
  /\ UNCHANGED <<internal, counterInit, ramUid, past, ready, held>>

-----------------------------------------------------------------------------
(* The environment: resets, and an external flash that was put back to an   *)
(* earlier content while the device was off.                                *)

Reset ==
  /\ mounted' = FALSE /\ counterInit' = FALSE /\ ramUid' = NoUid
  /\ Return
  /\ ready' = FALSE
  /\ UNCHANGED <<internal, external, past, acked, gone, held>>

StaleEntry(id) ==
  /\ pc = "idle" /\ ~mounted
  /\ \E o \in sealed[id] : ext' = [ext EXCEPT ![id] = o]
  /\ Forget({id})
  /\ UNCHANGED <<internal, extUid, ram, call, past, ready, acked, gone>>

StaleUid ==
  /\ pc = "idle" /\ ~mounted
  /\ extUid' \in 0 .. lastUid
  /\ Forget(Ids)
  /\ UNCHANGED <<internal, ext, ram, call, past, ready, acked, gone>>

-----------------------------------------------------------------------------
Init ==
  /\ psUid = NoUid /\ ctr = [id \in Ids |-> 0]
  /\ ext = [id \in Ids |-> None] /\ extUid = NoUid
  /\ mounted = FALSE /\ counterInit = FALSE /\ ramUid = NoUid
  /\ pc = "idle" /\ cid = None /\ cobj = None /\ answer = None
  /\ sealed = [id \in Ids |-> {}] /\ lastUid = 0
  /\ ready = FALSE
  /\ acked = [id \in Ids |-> None]
  /\ gone = [id \in Ids |-> {}]
  /\ held = [id \in Ids |-> None]

InitCall ==
  \/ BeginInit \/ InitStorage \/ InitCounterLoad \/ InitCounterGenerate
  \/ InitCounterFails \/ InitUidMatch \/ InitUidMismatch \/ InitErase \/ InitRemount \/ InitWriteUid

WriteCall ==
  \/ \E id \in Ids, v \in Values : BeginWrite(id, v)
  \/ WriteSeal \/ WriteStore \/ WriteCount \/ WriteCountFails \/ WriteCleanup

ReadCall ==
  \/ \E id \in Ids : BeginRead(id)
  \/ ReadOk \/ ReadFails \/ ReadFailsEio \/ ReadCleanup

DeleteCall ==
  \/ \E id \in Ids : BeginDelete(id)
  \/ DeleteStore \/ DeleteCount \/ DeleteCountFails

ClearCall == BeginClear \/ ClearUid \/ ClearCounters \/ ClearStore

Environment ==
  \/ Reset
  \/ \E id \in Ids : StaleEntry(id)
  \/ StaleUid

Next == InitCall \/ WriteCall \/ ReadCall \/ DeleteCall \/ ClearCall \/ Environment

Spec == Init /\ [][Next]_vars

-----------------------------------------------------------------------------
(* Type invariant: the variables hold what the code keeps in them. *)
FlashTypeOK ==
  /\ psUid \in Uids /\ ctr \in [Ids -> Counts]
  /\ ext \in [Ids -> Object \union {None}] /\ extUid \in Uids

RamTypeOK ==
  mounted \in BOOLEAN /\ counterInit \in BOOLEAN /\ ramUid \in Uids

CallTypeOK ==
  /\ pc \in Steps
  /\ cid \in Ids \union {None}
  /\ cobj \in Object \union {None}
  /\ answer \in Values \union {None}

HistoryTypeOK ==
  /\ sealed \in [Ids -> SUBSET Object] /\ lastUid \in Uids
  /\ ready \in BOOLEAN
  /\ acked \in [Ids -> Object \union {None}]
  /\ gone \in [Ids -> SUBSET Object]
  /\ held \in [Ids -> Values \union {None}]

TypeOK == FlashTypeOK /\ RamTypeOK /\ CallTypeOK /\ HistoryTypeOK

(* No rollback: an object whose write was acknowledged is not accepted any  *)
(* more once a later Write, Delete or Clear was acknowledged, whatever      *)
(* failed or was cut by a reset in between and whatever earlier content the *)
(* external flash is put back to (the counters of Write and DeleteLocked,   *)
(* the unique ID of Counter::Clear).                                        *)
NoRollback == \A id \in Ids : \A o \in gone[id] : ~Accepts(id, o)

(* Durability: a value whose Write was acknowledged after a successful Init *)
(* stays readable, through resets, other calls that fail midway and later   *)
(* calls of Init, until a Write or Delete of that entry or a Clear begins,  *)
(* a Read of it or the check of the unique ID fails, or the flash is put    *)
(* back (InitializeUniqueId must recognise its own storage).                *)
Durable ==
  \A id \in Ids : held[id] # None =>
    ext[id] # None /\ ext[id].val = held[id] /\ Accepts(id, ext[id])

(* Refinement: the store the callers see is a VersionedStore.  A value is   *)
(* valid in the current version when an object sealed with the device's     *)
(* unique ID and the saved counter exists, and prepared for the next one    *)
(* when one sealed with that counter plus one exists.                       *)
SealedWith(id, count) ==
  {o.val : o \in {p \in sealed[id] : p.uid = psUid /\ p.ctr = count}}

Visible(id) == ext[id] # None /\ Accepts(id, ext[id])

Store == INSTANCE VersionedStore WITH
  store   <- [id \in Ids |-> IF Visible(id) THEN ext[id].val ELSE None],
  current <- [id \in Ids |-> SealedWith(id, ctr[id])],
  next    <- [id \in Ids |-> SealedWith(id, ctr[id] + 1)]

ImplementsStore == Store!Spec

-----------------------------------------------------------------------------
(* The inductive invariant behind the properties, part by part.             *)
UidsGrow == psUid <= lastUid /\ (counterInit => psUid # NoUid /\ ramUid = psUid)

(* No object is ahead of its counter by more than the write under way.      *)
SealedBehindCounter ==
  \A id \in Ids : \A o \in sealed[id] :
    0 < o.uid /\ o.uid <= lastUid /\ (o.uid = psUid => o.ctr <= ctr[id] + 1)

FlashHoldsSealed == \A id \in Ids : ext[id] # None => ext[id] \in sealed[id]

AckedAtCounter ==
  \A id \in Ids : acked[id] # None =>
    acked[id] \in sealed[id] /\ (acked[id].uid = psUid => acked[id].ctr <= ctr[id])

GoneBehindCounter ==
  \A id \in Ids : \A o \in gone[id] :
    o \in sealed[id] /\ (o.uid = psUid => o.ctr < ctr[id])

WriteInv ==
  /\ pc \in {"writeSeal", "writeStore", "writeCount", "writeCleanup"} =>
       cid \in Ids /\ cobj \in Object /\ ctr[cid] < MaxCounter /\ held[cid] = None
  /\ pc \in {"writeStore", "writeCount"} =>
       psUid # NoUid /\ cobj.uid = psUid /\ cobj.ctr = ctr[cid] + 1
  /\ pc = "writeCount" => ext[cid] = cobj

OtherCallsInv ==
  /\ pc # "idle" => answer = None
  /\ pc \in {"read", "readCleanup"} => cid \in Ids
  /\ pc = "readCleanup" => held[cid] = None
  /\ pc \in {"deleteStore", "deleteCount"} =>
       cid \in Ids /\ ctr[cid] < MaxCounter /\ held[cid] = None
  /\ pc = "deleteCount" => ext[cid] = None
  /\ pc \in {"initUid", "initErase", "initRemount", "initWriteUid"} => counterInit
  /\ pc \in {"initCounter", "initUid", "initErase", "initWriteUid"} => mounted
  /\ pc \in {"clearCounters", "clearStore"} => psUid = NoUid

HeldIsOwned ==
  /\ ready => /\ extUid = psUid /\ psUid # NoUid /\ mounted
              /\ pc \notin {"initStorage", "initCounter", "initUid", "initErase",
                           "initRemount", "initWriteUid",
                           "clearUid", "clearCounters", "clearStore"}
  /\ \A id \in Ids : held[id] # None =>
       /\ extUid = psUid
       /\ pc \notin {"initErase", "initRemount", "initWriteUid",
                     "clearUid", "clearCounters", "clearStore"}

IInv ==
  /\ TypeOK /\ UidsGrow /\ SealedBehindCounter /\ FlashHoldsSealed
  /\ AckedAtCounter /\ GoneBehindCounter /\ WriteInv /\ OtherCallsInv
  /\ HeldIsOwned /\ Durable

=============================================================================
