--------------------------- MODULE CredentialStore ---------------------------
(* The credentials of the Matter Aliro application: the Access Manager's      *)
(* containers of keys in RAM (access_manager_impl.cpp), the access documents  *)
(* in the external NVS (storage/access_document.cpp), the validity iteration  *)
(* of each credential issuer, the Kpersistent keys in PSA storage             *)
(* (kpersistent_manager_impl.cpp) and what the Matter database knows of them. *)
(*                                                                            *)
(* Two threads change them. The Aliro thread verifies a user device; it takes *)
(* sMutex for part of that and the lock of the Matter stack inside. The       *)
(* Matter thread provisions; it holds the lock of its stack for the whole     *)
(* command and takes sMutex inside. Any access to a storage may fail, a read  *)
(* too, and the device may be reset between any two steps, also inside the    *)
(* write of a document: the external NVS writes the entry and then its        *)
(* counter, and refuses the entry if the counter is behind.                   *)
(*                                                                            *)
(* A slot is an index of the Kpersistent manager: the slots of access         *)
(* credentials come first, those of access documents follow.                  *)
EXTENDS Naturals, FiniteSets

CONSTANTS
    Keys,        \* public keys of user devices
    Issuers,     \* indices of provisioned credential issuers
    NumAc,       \* access credentials that can be stored
    NumAd,       \* access documents that can be stored
    MaxIter,     \* bound on the validity iterations of documents
    MaxDiff,     \* kMaxValidityIterationDiff
    MaxTime,     \* bound on the timestamps of documents
    MaxFaults,   \* bound on the failures of the storages
    NoKey, NoDoc,        \* no key in a slot, no document
    ZeroKey              \* the key read from the empty secret of a cleared credential

ASSUME BoundsAssumption ==
    /\ NumAc \in Nat /\ MaxIter \in Nat /\ MaxTime \in Nat
    /\ NumAd \in Nat \ {0}    \* without room for a document the code below is not built
    /\ MaxDiff \in Nat \ {0} /\ MaxFaults \in Nat
ASSUME SentinelAssumption == NoKey \notin Keys /\ ZeroKey \notin Keys \cup {NoKey} /\ Issuers \subseteq Nat \ {0}

AcSlots == 1..NumAc
AdSlots == (NumAc + 1)..(NumAc + NumAd)
Slots   == AcSlots \cup AdSlots
Threads == {"aliro", "matter"}

(* AccessDocument: key, issuer, signing time and validity iteration; a        *)
(* document without an iteration is stored with 0, which `carried` remembers. *)
DocumentSet ==
    {d \in [key: Keys, ci: Issuers, time: 0..MaxTime, iter: 0..MaxIter, carried: BOOLEAN] :
         d.carried \/ d.iter = 0}
ASSUME DocumentAssumption == NoDoc \notin DocumentSet

VARIABLES
    key,      \* mAcKeys, mAdKeys: the key in each slot, in RAM
    issuer,   \* mCiKeys: whether the key of an issuer is in RAM
    doc,      \* the access documents in the external NVS
    torn,     \* entries of the external NVS that are written and whose counter
              \* is not: reading one gives -EIO and removes it
    vi,       \* the validity iteration stored for each issuer
    kp,       \* whose Kpersistent key is stored at each slot; mKpersistentMap tells where one is
    evict,    \* Matter's evictable endpoint keys, in RAM
    prov,     \* the credentials Matter has stored, cleared ones included
    owned,    \* the credential issuers Matter has stored, likewise
    up,       \* AliroInit succeeded
    sMutex,   \* threads that hold sMutex (at most one)
    op,       \* what each thread is doing
    faults,   \* number of failures so far
    upset     \* history: which storages failed; "cut": a reset cut a removal
              \* between the document and its Kpersistent key; "torn": one
              \* cut the write of a document;
              \* "zero": the key of a cleared credential was loaded;
              \* "overlap": Matter removed a credential beside a verification

nvs   == <<doc, torn>>
store == <<nvs, vi, kp, prov, owned>>
ram   == <<key, issuer, evict, up>>
vars  == <<ram, store, sMutex, op, faults, upset>>

NoOp == [at |-> "idle", key |-> NoKey, doc |-> NoDoc, slot |-> 0,
         ci |-> 0, cur |-> 0, new |-> FALSE, skip |-> {}, then |-> "none"]
At(t, s) == op[t].at = s
Idle(t)  == At(t, "idle")
Go(t, at, field) == op' = [op EXCEPT ![t] = [field EXCEPT !.at = at]]

(* The lock of the Matter stack: the Matter thread has it while it runs a     *)
(* command, the Aliro thread waits for it.                                    *)
StackFree(t) == t = "matter" \/ Idle("matter")
MutexFree(t) == sMutex \subseteq {t}
(* sExternalNvsMutex is held from the write of an entry to that of its counter.*)
NvsFree(t)   == t = "aliro" \/ ~At("aliro", "counter")

NoFault == UNCHANGED <<faults, upset>>
Fault(storage) ==
    /\ faults < MaxFaults
    /\ faults' = faults + 1
    /\ upset' = upset \cup {storage}

(* ReadLocked of the document in slot s fails: an entry that is refused is    *)
(* removed.                                                                   *)
Erase(s) == doc' = [doc EXCEPT ![s] = NoDoc] /\ torn' = torn \ {s}
ReadFails(s) ==
    \/ s \in torn /\ Erase(s) /\ NoFault
    \/ (Erase(s) \/ UNCHANGED nvs) /\ Fault("read")

(* A verification begins beside a removal by Matter, or the reverse.          *)
Beside(overlap) ==
    /\ upset' = IF overlap THEN upset \cup {"overlap"} ELSE upset
    /\ UNCHANGED faults
BesideRemoval      == Beside(op["matter"].then # "none")
BesideVerification == Beside(~Idle("aliro"))

Stored(slots, k) == {s \in slots : key[s] = k}
Lowest(S) == CHOOSE s \in S : \A r \in S : s <= r
AdKeys    == {s \in AdSlots : key[s] # NoKey}
(* mKeys of the Access Document container whose document names issuer i.      *)
DocsOf(i) == {s \in AdKeys : doc[s] # NoDoc /\ doc[s].ci = i}

(* VerifyValidityIteration of a document, and RemoveOldCredentials' test of a *)
(* stored one.                                                                *)
TooOld(current, iter) == iter < current /\ current - iter >= MaxDiff

TypeOK ==
    /\ key \in [Slots -> Keys \cup {NoKey, ZeroKey}]
    /\ issuer \in [Issuers -> {"none", "key", "zero"}]
    /\ doc \in [AdSlots -> DocumentSet \cup {NoDoc}]
    /\ torn \subseteq AdSlots
    /\ vi \in [Issuers -> 0..MaxIter]
    /\ kp \in [Slots -> Keys \cup {NoKey}]
    /\ evict \in [AdSlots -> Keys \cup {NoKey}]
    /\ prov \in [Slots -> Keys \cup {NoKey, ZeroKey}]
    /\ owned \in [Issuers -> {"none", "key", "zero"}]
    /\ up \in BOOLEAN
    /\ sMutex \in {{}, {"aliro"}}
    /\ faults \in 0..MaxFaults
    /\ upset \subseteq {"delete", "write", "read", "iteration", "kp", "cut", "torn", "zero", "overlap"}

Init ==
    /\ key = [s \in Slots |-> NoKey] /\ kp = key
    /\ doc = [s \in AdSlots |-> NoDoc] /\ torn = {}
    /\ evict = [s \in AdSlots |-> NoKey]
    /\ prov = key
    /\ vi = [i \in Issuers |-> 0]
    /\ issuer = [i \in Issuers |-> "none"] /\ owned = issuer
    /\ up = TRUE
    /\ sMutex = {}
    /\ op = [t \in Threads |-> NoOp]
    /\ faults = 0 /\ upset = {}

-----------------------------------------------------------------------------
(* _RemovePublicKey of slot s for thread t: out of the container, then the    *)
(* document with Matter's copy, then the Kpersistent key, whose failure is    *)
(* ignored. The caller goes on at `then`, or at the step OnError gives it.    *)
Remove(t, s, then, o) == Go(t, "rmKey", [o EXCEPT !.slot = s, !.then = then])

OnError(then) == CASE then = "ciLoop" -> "ciEnd"
                   [] then = "commit" -> "commit"
                   [] OTHER           -> "idle"

(* The caller goes on; a verification that ends gives sMutex back.            *)
Return(t, at) ==
    /\ op' = [op EXCEPT ![t] = IF at = "idle" THEN NoOp ELSE [@ EXCEPT !.at = at]]
    /\ sMutex' = IF at = "idle" THEN sMutex \ {t} ELSE sMutex

RemoveKey(t) ==
    LET s == op[t].slot
    IN /\ At(t, "rmKey") /\ MutexFree(t)
       /\ IF key[s] = NoKey
          THEN Return(t, OnError(op[t].then)) /\ UNCHANGED key
          ELSE /\ key' = [key EXCEPT ![s] = NoKey]
               /\ Return(t, IF s \in AcSlots THEN "rmKp" ELSE "rmDoc")
       /\ NoFault /\ UNCHANGED <<store, issuer, evict, up>>

(* Mutant: Matter keeps its copy of a removed document.                       *)
KeepEvictable(t) ==
    /\ At(t, "rmDoc") /\ StackFree(t)
    /\ Erase(op[t].slot) /\ Return(t, "rmKp")
    /\ NoFault /\ UNCHANGED <<ram, vi, kp, prov, owned>>

(* ClearAccessDocument fails before the document is gone, or after: the       *)
(* counter of the entry is written last, and Matter's copy goes after it.     *)
ClearAccessDocument(t) ==
    LET s == op[t].slot
    IN /\ At(t, "rmDoc") /\ StackFree(t) /\ NvsFree(t)
       /\ \/ /\ Erase(s) /\ evict' = [evict EXCEPT ![s] = NoKey]
             /\ Return(t, "rmKp") /\ NoFault
          \/ /\ Erase(s) \/ UNCHANGED nvs
             /\ Fault("delete") /\ Return(t, OnError(op[t].then)) /\ UNCHANGED evict
       /\ UNCHANGED <<key, issuer, vi, kp, prov, owned, up>>

(* Mutant: the index of a document is not offset by the access credentials.   *)
RemoveWithoutOffset(t) ==
    LET s == op[t].slot
    IN /\ At(t, "rmKp")
       /\ kp' = [kp EXCEPT ![IF s \in AcSlots THEN s ELSE s - NumAc] = NoKey]
       /\ Return(t, op[t].then)
       /\ NoFault /\ UNCHANGED <<ram, nvs, vi, prov, owned>>

RemoveKpersistent(t) ==
    LET s == op[t].slot
    IN /\ At(t, "rmKp")
       /\ \/ kp' = [kp EXCEPT ![s] = NoKey] /\ NoFault
          \/ kp[s] # NoKey /\ Fault("kp") /\ UNCHANGED kp
       /\ Return(t, op[t].then)
       /\ UNCHANGED <<ram, nvs, vi, prov, owned>>

-----------------------------------------------------------------------------
(* The Aliro thread: a user device is verified.                               *)

Chosen(d) == [NoOp EXCEPT !.key = d.key, !.doc = d, !.ci = d.ci]

(* _VerifyAccessCredential with a document from a known issuer, up to         *)
(* VerifyValidityIteration. What is refused here changes nothing.             *)
StartDocument(d) ==
    LET cur == IF d.carried /\ d.iter > vi[d.ci] THEN d.iter ELSE vi[d.ci]
        o   == [Chosen(d) EXCEPT !.cur = cur, !.new = (cur # vi[d.ci])]
    IN /\ up /\ Idle("aliro") /\ issuer[d.ci] = "key"
       /\ ~(d.carried /\ TooOld(vi[d.ci], d.iter))
       /\ IF d.carried THEN Go("aliro", "iterate", o) ELSE Go("aliro", "check", Chosen(d))
       /\ BesideRemoval /\ UNCHANGED <<store, ram, sMutex>>

(* VerifyPublicKey, or _ShouldRequestAccessDocument, cannot read the document *)
(* of a stored key: the device is not verified, the key stays.                *)
ReadAccessDocument(s) ==
    /\ up /\ Idle("aliro") /\ MutexFree("aliro") /\ key[s] \in Keys
    /\ ReadFails(s)
    /\ UNCHANGED <<ram, vi, kp, prov, owned, sMutex, op>>

(* The loops over the documents of an issuer pass over one that they cannot   *)
(* read.                                                                      *)
PassOver(t) ==
    /\ At(t, IF t = "aliro" THEN "iterate" ELSE "ciLoop") /\ NvsFree(t)
    /\ \E s \in AdKeys \ op[t].skip :
          /\ ReadFails(s)
          /\ op' = IF faults' = faults THEN op ELSE [op EXCEPT ![t].skip = @ \cup {s}]
    /\ UNCHANGED <<ram, vi, kp, prov, owned, sMutex>>
AllRead(t) == AdKeys \cap torn \subseteq op[t].skip

(* UpdateValidityIteration: the documents it makes too old are removed one    *)
(* after the other, then it is stored.                                        *)
RemoveOldCredentials ==
    LET o   == op["aliro"]
        Old == {s \in DocsOf(o.ci) \ o.skip : TooOld(o.cur, doc[s].iter)}
    IN /\ At("aliro", "iterate") /\ Old # {}
       /\ Remove("aliro", Lowest(Old), "iterate", o)
       /\ NoFault /\ UNCHANGED <<store, ram, sMutex>>

(* Mutant: the iteration is stored before older documents are removed.        *)
StoreIterationFirst ==
    LET o == op["aliro"]
    IN /\ At("aliro", "iterate")
       /\ vi' = [vi EXCEPT ![o.ci] = o.cur] /\ Go("aliro", "check", Chosen(o.doc))
       /\ NoFault /\ UNCHANGED <<ram, nvs, kp, prov, owned, sMutex>>

StoreValidityIterations ==
    LET o == op["aliro"]
    IN /\ At("aliro", "iterate") /\ AllRead("aliro")
       /\ \A s \in DocsOf(o.ci) \ o.skip : ~TooOld(o.cur, doc[s].iter)
       /\ \/ /\ vi' = IF o.new THEN [vi EXCEPT ![o.ci] = o.cur] ELSE vi
             /\ Go("aliro", "check", Chosen(o.doc)) /\ NoFault
          \/ o.new /\ Fault("iteration") /\ Go("aliro", "idle", NoOp) /\ UNCHANGED vi
       /\ UNCHANGED <<ram, nvs, kp, prov, owned, sMutex>>

(* ValidateAccessData, and the comparison with the key of the user device.    *)
RejectDocument ==
    /\ At("aliro", "check") /\ Go("aliro", "idle", NoOp)
    /\ NoFault /\ UNCHANGED <<store, ram, sMutex>>

(* RemoveOldestCredential takes the first document that cannot be read, or    *)
(* else the one signed first.                                                 *)
Oldest ==
    LET Unread == {s \in AdSlots : doc[s] = NoDoc}
    IN IF Unread # {} THEN Lowest(Unread)
       ELSE Lowest({s \in AdSlots : \A r \in AdSlots : doc[s].time <= doc[r].time})

(* Mutant: a device that has a document already gets a second slot.           *)
ChooseFreeSlot ==
    LET o    == op["aliro"]
        Free == Stored(AdSlots, NoKey)
    IN /\ At("aliro", "check") /\ MutexFree("aliro") /\ Free # {}
       /\ sMutex' = {"aliro"} /\ Go("aliro", "write", [o EXCEPT !.slot = Lowest(Free)])
       /\ NoFault /\ UNCHANGED <<store, ram>>

(* ProcessAccessDocument takes sMutex and looks for a slot.                   *)
ChooseSlot ==
    LET o    == op["aliro"]
        Same == Stored(AdSlots, o.key)
        Free == Stored(AdSlots, NoKey)
    IN /\ At("aliro", "check") /\ MutexFree("aliro") /\ Same \cup Free # {}
       /\ sMutex' = {"aliro"}
       /\ Go("aliro", "write", [o EXCEPT !.slot = Lowest(IF Same # {} THEN Same ELSE Free)])
       /\ NoFault /\ UNCHANGED <<store, ram>>

(* There is none: the oldest document is removed, or the first that cannot be *)
(* read.                                                                      *)
RemoveOldestCredential ==
    LET o == op["aliro"]
    IN /\ At("aliro", "check") /\ MutexFree("aliro")
       /\ Stored(AdSlots, o.key) \cup Stored(AdSlots, NoKey) = {}
       /\ sMutex' = {"aliro"}
       /\ \/ Oldest \notin torn /\ Remove("aliro", Oldest, "write", o) /\ NoFault /\ UNCHANGED nvs
          \/ \E s \in AdSlots :
                /\ \A r \in AdSlots : r < s => doc[r] # NoDoc
                /\ ReadFails(s) /\ Remove("aliro", s, "write", o)
       /\ UNCHANGED <<ram, vi, kp, prov, owned>>

(* StoreAccessDocument, whose failure does not deny access: it ends at        *)
(* PreserveKpersistent and gives sMutex back.                                 *)
EndStore == sMutex' = {} /\ Go("aliro", "preserve", [NoOp EXCEPT !.key = op["aliro"].key])

(* Matter's copy is updated first, if a user owns the issuer and has room.    *)
UpdateEvictable ==
    LET o == op["aliro"]
    IN /\ At("aliro", "write") /\ StackFree("aliro")
       /\ \/ /\ owned[o.ci] = "key"
             /\ evict' = [evict EXCEPT ![o.slot] = o.key]
             /\ Go("aliro", "entry", o) /\ UNCHANGED sMutex
          \/ (owned[o.ci] # "key" \/ evict[o.slot] = NoKey) /\ EndStore /\ UNCHANGED evict
       /\ NoFault /\ UNCHANGED <<store, key, issuer, up>>

(* WriteLocked: the entry, then its counter; if one fails the entry is        *)
(* deleted, the previous document with it, unless that fails too.             *)
WriteEntry ==
    LET o == op["aliro"]
    IN /\ At("aliro", "entry")
       /\ \/ /\ doc' = [doc EXCEPT ![o.slot] = NoDoc] /\ torn' = torn \cup {o.slot}
             /\ Go("aliro", "counter", o) /\ NoFault
          \/ /\ Erase(o.slot) \/ UNCHANGED nvs
             /\ Go("aliro", "revert", o) /\ Fault("write")
       /\ UNCHANGED <<ram, vi, kp, prov, owned, sMutex>>

(* The key is added once the document is stored.                              *)
WriteCounter ==
    LET o == op["aliro"]
    IN /\ At("aliro", "counter")
       /\ \/ /\ doc' = [doc EXCEPT ![o.slot] = o.doc] /\ torn' = torn \ {o.slot}
             /\ key' = [key EXCEPT ![o.slot] = o.key]
             /\ EndStore /\ NoFault
          \/ /\ Erase(o.slot) \/ UNCHANGED nvs
             /\ Go("aliro", "revert", o) /\ Fault("write") /\ UNCHANGED <<key, sMutex>>
       /\ UNCHANGED <<issuer, evict, up, vi, kp, prov, owned>>

(* Matter's copy is removed, not restored.                                    *)
RemoveEvictable ==
    LET o == op["aliro"]
    IN /\ At("aliro", "revert") /\ StackFree("aliro")
       /\ evict' = [evict EXCEPT ![o.slot] = NoKey] /\ EndStore
       /\ NoFault /\ UNCHANGED <<store, key, issuer, up>>

(* VerifyPublicKey of a stored key, for a device that presented it or, in the *)
(* fast phase, its Kpersistent key. A document found to be expired is removed *)
(* under sMutex. Only a key that was presented has its Kpersistent preserved. *)
VerifyPublicKey(k, fast) ==
    LET o  == [NoOp EXCEPT !.key = k]
        Ad == Stored(AdSlots, k)
        s  == Lowest(Ad)
        Known   == Stored(AcSlots, k) # {} \/ (Ad # {} /\ doc[s] # NoDoc /\ doc[s].key = k)
        Expired == Stored(AcSlots, k) = {} /\ Ad # {} /\ doc[s] # NoDoc /\ doc[s].key = k
    IN /\ up /\ Idle("aliro") /\ MutexFree("aliro")
       /\ \/ Known /\ ~fast /\ Go("aliro", "preserve", o) /\ UNCHANGED sMutex
          \/ Expired /\ sMutex' = {"aliro"} /\ Remove("aliro", s, "idle", o)
       /\ BesideRemoval /\ UNCHANGED <<store, ram>>

VerifyAccessCredential(k) == VerifyPublicKey(k, FALSE)

(* The Kpersistent key at slot s is looked up, the key in RAM at the same     *)
(* slot is verified.                                                          *)
VerifyKPersistentKey(s) == kp[s] # NoKey /\ key[s] # NoKey /\ VerifyPublicKey(key[s], TRUE)

(* PreserveKpersistent, without sMutex except to look up the slot: the old    *)
(* Kpersistent key of the slot is destroyed, the new one is written.          *)
DestroyOldKpersistent ==
    LET o == op["aliro"]
        Found == Stored(Slots, o.key)
        s == Lowest(Found)
    IN /\ At("aliro", "preserve") /\ MutexFree("aliro")
       /\ \/ /\ Found # {} /\ kp' = [kp EXCEPT ![s] = NoKey]
             /\ Go("aliro", "preserving", [o EXCEPT !.slot = s]) /\ NoFault
          \/ /\ Found # {} /\ kp[s] # NoKey /\ Fault("kp")
             /\ Go("aliro", "idle", NoOp) /\ UNCHANGED kp
          \/ Found = {} /\ Go("aliro", "idle", NoOp) /\ NoFault /\ UNCHANGED kp
       /\ UNCHANGED <<ram, nvs, vi, prov, owned, sMutex>>

PreserveKey ==
    LET o == op["aliro"]
    IN /\ At("aliro", "preserving")
       /\ \/ kp' = [kp EXCEPT ![o.slot] = o.key] /\ NoFault
          \/ Fault("kp") /\ UNCHANGED kp
       /\ Go("aliro", "idle", NoOp)
       /\ UNCHANGED <<ram, nvs, vi, prov, owned, sMutex>>

-----------------------------------------------------------------------------
(* The Matter thread, with the lock of its stack: credentials of users are    *)
(* set and cleared, and its callbacks (BoltLockManager::Init) tell the Access *)
(* Manager.                                                                   *)

Command(at, o) == up /\ Idle("matter") /\ Go("matter", at, o)

SetAccessCredential(s, k) ==
    /\ prov[s] \notin Keys /\ prov' = [prov EXCEPT ![s] = k]
    /\ Command("addKey", [NoOp EXCEPT !.slot = s, !.key = k])
    /\ NoFault /\ UNCHANGED <<ram, nvs, vi, kp, owned, sMutex>>

SetCredentialIssuer(i) ==
    /\ owned[i] # "key" /\ owned' = [owned EXCEPT ![i] = "key"]
    /\ Command("addIssuer", [NoOp EXCEPT !.ci = i])
    /\ NoFault /\ UNCHANGED <<ram, nvs, vi, kp, prov, sMutex>>

(* AddKeyToContainer does nothing if the slot is taken.                       *)
AddPublicKey ==
    LET o == op["matter"]
    IN /\ MutexFree("matter")
       /\ \/ /\ At("matter", "addKey") /\ UNCHANGED issuer
             /\ key' = IF key[o.slot] = NoKey THEN [key EXCEPT ![o.slot] = o.key] ELSE key
          \/ /\ At("matter", "addIssuer") /\ UNCHANGED key
             /\ issuer' = IF issuer[o.ci] = "none" THEN [issuer EXCEPT ![o.ci] = "key"] ELSE issuer
       /\ Go("matter", "idle", NoOp)
       /\ NoFault /\ UNCHANGED <<store, evict, up, sMutex>>

ClearCredential(s) ==
    /\ (s \in AcSlots /\ prov[s] \in Keys) \/ (s \in AdSlots /\ evict[s] # NoKey)
    /\ Command("rmKey", [NoOp EXCEPT !.slot = s, !.then = "commit"])
    /\ BesideVerification /\ UNCHANGED <<store, ram, sMutex>>

ClearCredentialIssuer(i) ==
    /\ owned[i] = "key"
    /\ Command("rmIssuer", [NoOp EXCEPT !.ci = i, !.then = "commit"])
    /\ BesideVerification /\ UNCHANGED <<store, ram, sMutex>>

RemoveIssuerKey ==
    LET o == op["matter"]
    IN /\ At("matter", "rmIssuer") /\ MutexFree("matter")
       /\ issuer' = [issuer EXCEPT ![o.ci] = "none"]
       /\ Go("matter", IF issuer[o.ci] # "none" THEN "ciLoop" ELSE "ciEnd", o)
       /\ NoFault /\ UNCHANGED <<store, key, evict, up, sMutex>>

(* Mutant: an issuer is removed without its documents.                        *)
KeepAccessCredentials ==
    /\ At("matter", "ciLoop") /\ Go("matter", "ciEnd", op["matter"])
    /\ NoFault /\ UNCHANGED <<store, ram, sMutex>>

(* RemoveAccessCredentials: the documents of the issuer, until one fails.     *)
RemoveAccessCredentials ==
    LET o == op["matter"]
        Docs == DocsOf(o.ci) \ o.skip
    IN /\ At("matter", "ciLoop") /\ NvsFree("matter")
       /\ \/ Docs = {} /\ AllRead("matter") /\ Go("matter", "ciEnd", o)
          \/ Docs # {} /\ Remove("matter", Lowest(Docs), "ciLoop", o)
       /\ NoFault /\ UNCHANGED <<store, ram, sMutex>>

(* Mutant: an issuer is removed and its validity iteration is not.            *)
KeepIteration ==
    /\ At("matter", "ciEnd") /\ Go("matter", "commit", op["matter"])
    /\ NoFault /\ UNCHANGED <<store, ram, sMutex>>

ClearValidityIterations ==
    LET o == op["matter"]
    IN /\ At("matter", "ciEnd")
       /\ \/ vi' = [vi EXCEPT ![o.ci] = 0] /\ NoFault
          \/ Fault("iteration") /\ UNCHANGED vi
       /\ Go("matter", "commit", o)
       /\ UNCHANGED <<ram, nvs, kp, prov, owned, sMutex>>

(* Matter stores the credential without its secret, whatever the callback     *)
(* reported.                                                                  *)
Commit ==
    LET o == op["matter"]
    IN /\ At("matter", "commit")
       /\ IF o.ci # 0 THEN owned' = [owned EXCEPT ![o.ci] = "zero"] /\ UNCHANGED prov
                      ELSE prov' = [prov EXCEPT ![o.slot] = ZeroKey] /\ UNCHANGED owned
       /\ Go("matter", "idle", NoOp)
       /\ NoFault /\ UNCHANGED <<ram, nvs, vi, kp, sMutex>>

-----------------------------------------------------------------------------
(* A reset. Matter loads its credentials, cleared ones too: their secret is   *)
(* empty and the callback copies a key of zeros out of it. AliroInit then     *)
(* loads the documents into the slots that are not taken; it gives up at the  *)
(* first one that it cannot read (`unread` fails, one that is torn is         *)
(* refused), or whose issuer no user has. Nothing runs then.                  *)
Reset ==
    \E unread \in {{}} \cup {{s} : s \in AdSlots} :
    LET Orphan == {s \in AdSlots : doc[s] # NoDoc /\ owned[doc[s].ci] # "key"}
        Stops  == Orphan \cup torn \cup unread
        First  == {s \in Stops : \A r \in Stops : s <= r}
        Loaded == {s \in AdSlots \ unread : doc[s] # NoDoc /\ \A r \in Stops : s <= r}
    IN /\ up' = (Stops = {})
       /\ key' = [s \in Slots |-> IF s \in Loaded /\ prov[s] = NoKey THEN doc[s].key ELSE prov[s]]
       /\ evict' = [s \in AdSlots |-> IF s \in Loaded \ Orphan THEN doc[s].key ELSE NoKey]
       /\ issuer' = owned
       /\ sMutex' = {} /\ op' = [t \in Threads |-> NoOp]
       /\ unread \subseteq First
       /\ \/ unread # {} /\ UNCHANGED nvs
          \/ /\ doc' = [s \in AdSlots |-> IF s \in unread THEN NoDoc ELSE doc[s]]
             /\ torn' = torn \ First
       /\ IF unread = {} THEN UNCHANGED faults ELSE faults < MaxFaults /\ faults' = faults + 1
       /\ upset' = upset \cup
              (IF \E t \in Threads : At(t, "rmKp") /\ op[t].slot \in AdSlots THEN {"cut"} ELSE {})
              \cup (IF At("aliro", "counter") THEN {"torn"} ELSE {})
              \cup (IF unread # {} THEN {"read"} ELSE {})
              \cup (IF \E s \in AdSlots : prov[s] = ZeroKey THEN {"zero"} ELSE {})
       /\ UNCHANGED <<vi, kp, prov, owned>>

Aliro ==
    \/ \E d \in DocumentSet : StartDocument(d)
    \/ RemoveOldCredentials \/ StoreValidityIterations \/ RejectDocument
    \/ \E s \in AdSlots : ReadAccessDocument(s)
    \/ ChooseSlot \/ RemoveOldestCredential
    \/ UpdateEvictable \/ WriteEntry \/ WriteCounter \/ RemoveEvictable
    \/ \E k \in Keys : VerifyAccessCredential(k)
    \/ \E s \in Slots : VerifyKPersistentKey(s)
    \/ DestroyOldKpersistent \/ PreserveKey

Matter ==
    \/ \E s \in AcSlots, k \in Keys : SetAccessCredential(s, k)
    \/ \E i \in Issuers : SetCredentialIssuer(i) \/ ClearCredentialIssuer(i)
    \/ \E s \in Slots : ClearCredential(s)
    \/ AddPublicKey \/ RemoveIssuerKey \/ RemoveAccessCredentials
    \/ ClearValidityIterations \/ Commit

Next ==
    \/ Aliro \/ Matter \/ Reset
    \/ \E t \in Threads : RemoveKey(t) \/ ClearAccessDocument(t) \/ RemoveKpersistent(t) \/ PassOver(t)

Spec == Init /\ [][Next]_vars

-----------------------------------------------------------------------------
Unless(causes, P) == upset \cap causes = {} => P
AtRest == \A t \in Threads : Idle(t)

(* A stored document that carried a validity iteration is never behind its    *)
(* issuer's by kMaxValidityIterationDiff while its key is accepted, at any    *)
(* step of a removal and across resets - unless the external NVS failed to    *)
(* remove or to read one, or a removal ran beside a verification.             *)
NoOldDocument ==
    Unless({"delete", "read", "overlap"},
        \A s \in AdKeys : doc[s] # NoDoc /\ doc[s].carried => ~TooOld(vi[doc[s].ci], doc[s].iter))

(* A start fails only after a reset that cut the write of a document:         *)
(* LoadAccessDocuments, and with it the application, fails on an entry that   *)
(* is refused and on a document that outlives its issuer. The first is        *)
(* removed by the start that fails. The second would fail for ever; a         *)
(* document outlives its issuer only if it could not be read or removed, or   *)
(* if the removal ran beside a verification.                                  *)
StartsAgain ==
    [][~up' /\ Reset /\ upset' \cap {"delete", "write", "read", "overlap"} = {}
       => At("aliro", "counter")]_vars

(* The next issuer at an index does not inherit the iteration of the last.    *)
FreshIssuer ==
    Unless({"iteration", "overlap"},
        Idle("matter") => \A i \in Issuers : owned[i] # "key" => vi[i] = 0)

(* The fast phase verifies the key in RAM at the slot of the Kpersistent key: *)
(* both are of the same device, whatever keys came and went at the slot, as   *)
(* long as no document was lost without its Kpersistent key and no removal    *)
(* ran beside the preservation of one.                                        *)
FastPhaseVerifiesOwner ==
    Unless({"kp", "cut", "torn", "delete", "write", "read", "overlap"},
        Idle("aliro") => \A s \in Slots : kp[s] # NoKey /\ key[s] \in Keys => kp[s] = key[s])

(* When nothing runs, the key in RAM, the document and Matter's copy of it    *)
(* are of the same device: the Access Manager grants nothing that Matter      *)
(* does not unlock for (ValidateAliroCredential). That holds also after       *)
(* removals that ran beside verifications.                                    *)
CopiesAgree ==
    Unless({"write", "read", "delete", "zero"},
        up /\ AtRest => \A s \in AdSlots :
            /\ evict[s] = key[s]
            /\ key[s] = IF doc[s] = NoDoc THEN NoKey ELSE doc[s].key)

(* A device has at most one access document, also after a reset.              *)
OneSlotPerKey ==
    /\ TypeOK
    /\ Unless({"delete", "zero"},
        \A r, s \in AdSlots : doc[r] # NoDoc /\ doc[s] # NoDoc /\ doc[r].key = doc[s].key => r = s)
=============================================================================
