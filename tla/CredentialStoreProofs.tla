------------------------ MODULE CredentialStoreProofs ------------------------
(* Proofs about CredentialStore, for any devices, issuers, slots, iterations  *)
(* and number of failures. The inductive invariant IInv has a part for each   *)
(* relation between the stores that its two threads and a reset keep; those   *)
(* that a failed storage breaks hold unless it failed (`upset`). A lemma      *)
(* ...Does tells for each action what it changes, in terms of A and M, what   *)
(* the two threads are doing.                                                 *)
EXTENDS CredentialStore, FiniteSetTheorems, TLAPS

(* A set of slots has a lowest one.                                           *)
LEMMA LowestIn ==
  ASSUME NEW S, S \subseteq Nat, S # {}
  PROVE  Lowest(S) \in S /\ \A r \in S : Lowest(S) <= r
<1> PICK n \in S : TRUE
  OBVIOUS
<1> DEFINE T == {0 .. x : x \in S \cap 0 .. n}
           R == StrictSubsetOrdering(0 .. n)
<1>1. IsWellFoundedOn(R, SUBSET (0 .. n))
  <2>1. IsFiniteSet(0 .. n)
    BY FS_Interval
  <2>2. FiniteSubsetsOf(0 .. n) = SUBSET (0 .. n)
    BY <2>1, FS_FiniteSubsetsOfFinite
  <2>3. IsWellFoundedOn(R, FiniteSubsetsOf(0 .. n))
    BY FS_StrictSubsetOrderingWellFounded
  <2> QED
    BY <2>2, <2>3
<1>2. T \subseteq SUBSET (0 .. n) /\ T # {}
  OBVIOUS
<1>3. PICK below \in T : \A b \in T : <<b, below>> \notin R
  <2> HIDE DEF T, R
  <2> QED
    BY <1>1, <1>2, WFMin
<1>4. PICK x \in S \cap 0 .. n : below = 0 .. x
  OBVIOUS
<1>5. ASSUME NEW y \in S, y < x PROVE FALSE
  <2>1. 0 .. y \in T
    BY <1>5
  <2>2. 0 .. y \subseteq 0 .. x /\ x \in 0 .. x /\ x \notin 0 .. y /\ 0 .. x \subseteq 0 .. n
    BY <1>5
  <2>3. <<0 .. y, 0 .. x>> \in R
    BY <2>2 DEF StrictSubsetOrdering
  <2> QED
    BY <1>3, <1>4, <2>1, <2>3
<1>6. \A y \in S : x <= y
  BY <1>5
<1> QED
  BY <1>6 DEF Lowest
-----------------------------------------------------------------------------
(* What each thread is doing.                                                 *)
A == op["aliro"]
M == op["matter"]

AliroSteps  == {"idle", "iterate", "rmKey", "rmDoc", "rmKp", "check", "write", "entry", "counter",
                "revert", "preserve", "preserving"}
MatterSteps == {"idle", "addKey", "addIssuer", "rmKey", "rmDoc", "rmKp", "rmIssuer", "ciLoop", "ciEnd",
                "commit"}
Callers     == {"none", "iterate", "write", "idle", "ciLoop", "commit"}
OpSet == [at: AliroSteps \cup MatterSteps, key: Keys \cup {NoKey}, doc: DocumentSet \cup {NoDoc},
          slot: Slots \cup {0}, ci: Issuers \cup {0}, cur: 0..MaxIter, new: BOOLEAN,
          skip: SUBSET AdSlots, then: Callers]

(* A removal of a key with its document and its Kpersistent key, for one of   *)
(* its callers; the update of a validity iteration; a document that is being  *)
(* stored in a slot, for which another may be removed; the removal of an      *)
(* issuer; a slot whose key is removed and whose document is not, or whose    *)
(* Kpersistent key is not.                                                    *)
RemoveSteps == {"rmKey", "rmDoc", "rmKp"}
Iterating == A.at = "iterate" \/ (A.at \in RemoveSteps /\ A.then = "iterate")
Storing   == A.at \in {"write", "entry", "counter", "revert"}
Writing   == Storing \/ (A.at \in RemoveSteps /\ A.then = "write")
Expiring  == A.at \in RemoveSteps /\ A.then = "idle"
Clearing  == \/ M.at \in {"ciLoop", "ciEnd"}
             \/ M.at \in RemoveSteps /\ M.then = "ciLoop"
             \/ M.at = "commit" /\ M.ci # 0
Gone(s)   == (A.at = "rmDoc" /\ A.slot = s) \/ (M.at = "rmDoc" /\ M.slot = s)
Kept(s)   == (A.at = "rmKp" /\ A.slot = s) \/ (M.at = "rmKp" /\ M.slot = s)

-----------------------------------------------------------------------------
(* The inductive invariant, in parts.                                         *)

(* What the steps of the Aliro thread know, and when it holds sMutex.         *)
AliroInv ==
    /\ A.at \in AliroSteps
    /\ A.at \in RemoveSteps => A.slot \in AdSlots /\ A.then \in {"iterate", "write", "idle"}
    /\ Iterating \/ A.at = "check" \/ Writing =>
           A.doc \in DocumentSet /\ A.ci = A.doc.ci /\ A.key = A.doc.key
    /\ Iterating => A.doc.carried
    /\ Storing => A.slot \in AdSlots
    /\ A.at = "preserve" => A.key \in Keys
    /\ A.at = "preserving" => A.key \in Keys /\ A.slot \in Slots
    /\ sMutex = IF Writing \/ Expiring THEN {"aliro"} ELSE {}

(* What the steps of the Matter thread know.                                  *)
MatterInv ==
    /\ M.at \in MatterSteps
    /\ M.at \in RemoveSteps => \/ M.then = "commit" /\ M.ci = 0 /\ M.slot \in Slots
                               \/ M.then = "ciLoop" /\ M.ci \in Issuers /\ M.slot \in AdSlots
    /\ M.at = "rmDoc" => M.slot \in AdSlots
    /\ M.at \in {"addIssuer", "rmIssuer", "ciLoop", "ciEnd"} => M.ci \in Issuers
    /\ M.at = "addKey" => M.slot \in AcSlots /\ M.key \in Keys
    /\ M.at = "commit" => M.ci \in Issuers \/ (M.ci = 0 /\ M.slot \in Slots)
    /\ (M.then = "none") = (M.at \in {"idle", "addKey", "addIssuer"})

(* A removal by Matter runs beside a verification only if it is noted.        *)
TurnInv ==
    /\ ~up => A.at = "idle" /\ M.at = "idle"
    /\ "overlap" \notin upset => A.at = "idle" \/ M.then = "none"

(* While a document is written Matter waits for sMutex, its copy is there and *)
(* its issuer stays.                                                          *)
StoreInv ==
    /\ A.at \in {"entry", "counter", "revert"} =>
           M.at \in {"idle", "addKey", "addIssuer", "rmKey", "rmIssuer"}
    /\ A.at \in {"entry", "counter"} => owned[A.ci] = "key" /\ evict[A.slot] = A.key
    /\ A.at = "revert" => "write" \in upset

(* An entry without its counter is no document; there is one only while it is *)
(* written. A loop passes over no document that can be read.                  *)
TornInv == \A s \in torn : doc[s] = NoDoc
TornEntry == torn = IF A.at = "counter" THEN {A.slot} ELSE {}
NothingSkipped == A.skip = {} /\ M.skip = {}

(* No credential of Matter is at the slot of a document, cleared ones         *)
(* excepted, and the key in the slot of an access credential is Matter's.     *)
ProvInv ==
    /\ \A s \in AdSlots : prov[s] \in {NoKey, ZeroKey}
    /\ \A s \in AcSlots : key[s] \in Keys => prov[s] = key[s]
    /\ M.at = "addKey" => prov[M.slot] = M.key
    /\ M.at = "commit" /\ M.ci = 0 /\ M.slot \in AcSlots => key[M.slot] = NoKey

(* Matter and the Access Manager agree on the issuers, except while one is    *)
(* added or removed.                                                          *)
IssuerInv ==
    /\ \A i \in Issuers : issuer[i] = "key" => owned[i] = "key"
    /\ \A i \in Issuers : owned[i] = "key" =>
           issuer[i] # "none" \/ (M.ci = i /\ (M.at = "addIssuer" \/ Clearing))
    /\ Clearing => issuer[M.ci] = "none"
    /\ M.at \in {"addIssuer", "rmIssuer"} => owned[M.ci] = "key"

(* A removal has taken the key out of its slot.                               *)
RemoveInv ==
    /\ A.at \in {"rmDoc", "rmKp"} => key[A.slot] = NoKey
    /\ M.at \in {"rmDoc", "rmKp"} => key[M.slot] = NoKey

(* A document is written over no other device's.                              *)
FreeSlotInv == Storing => key[A.slot] = NoKey \/ key[A.slot] = A.key

(* The slot of a document has its key, unless the document is being removed,  *)
(* the slot of a key has its document, unless that is being written, and no   *)
(* key of zeros is loaded.                                                    *)
DocumentsHaveKeys == up => \A s \in AdSlots :
    doc[s] # NoDoc => key[s] = doc[s].key \/ key[s] = ZeroKey \/ Gone(s)
Between(s) == A.at = "counter" /\ A.slot = s
KeysHaveDocuments == \A s \in AdSlots :
    key[s] \in Keys => (doc[s] # NoDoc /\ doc[s].key = key[s]) \/ Between(s)
NoZeroKey == \A s \in AdSlots : key[s] # ZeroKey

(* A device has one document and one slot; a document that is being stored    *)
(* goes to the slot of its device, or the device has none.                    *)
OneDocument == \A r, s \in AdSlots :
    doc[r] # NoDoc /\ doc[s] # NoDoc /\ doc[r].key = doc[s].key => r = s
OneSlot == \A r, s \in AdSlots : key[r] \in Keys /\ key[r] = key[s] => r = s
OwnSlot == Writing => \A r \in AdSlots : key[r] = A.key => r = A.slot

(* Matter's copy follows the document, not the key in RAM; it comes before    *)
(* the document.                                                              *)
CopyOf(d) == IF d = NoDoc THEN NoKey ELSE d.key
CopiesFollow == up => \A s \in AdSlots :
    evict[s] = CopyOf(doc[s]) \/ (A.at \in {"entry", "counter"} /\ A.slot = s)

(* No document is too old for its issuer's iteration, nor is the one that is  *)
(* being verified.                                                            *)
DocumentsRecent == \A s \in AdSlots :
    doc[s] # NoDoc /\ doc[s].carried => ~TooOld(vi[doc[s].ci], doc[s].iter)
UpdateRecent == Iterating =>
    ~TooOld(A.cur, A.doc.iter) /\ vi[A.ci] <= A.cur /\ (~A.new => vi[A.ci] = A.cur)
CheckedRecent == (A.at = "check" \/ Writing) /\ A.doc.carried => ~TooOld(vi[A.ci], A.doc.iter)

(* An issuer goes after its documents.                                        *)
DocumentsOwned == \A s \in AdSlots : doc[s] # NoDoc => owned[doc[s].ci] = "key"
ClearedFirst ==
    /\ M.at = "ciEnd" \/ (M.at = "commit" /\ M.ci # 0) =>
           \A s \in AdSlots : doc[s] # NoDoc => doc[s].ci # M.ci
    /\ M.at = "rmKey" /\ M.then = "ciLoop" => key[M.slot] # NoKey

(* An iteration goes before its issuer, and is stored for an issuer only.     *)
IterationsFresh ==
    /\ \A i \in Issuers : owned[i] # "key" => vi[i] = 0
    /\ M.at = "commit" /\ M.ci # 0 => vi[M.ci] = 0
    /\ Iterating => owned[A.ci] = "key"

(* A Kpersistent key belongs to the key at its slot, or is about to go; it    *)
(* belongs to the credential or to the document at its slot.                  *)
KpCauses == {"kp", "cut", "torn", "delete", "write", "read", "overlap"}
KpHasKey == \A s \in Slots :
    kp[s] # NoKey => key[s] = kp[s] \/ key[s] = ZeroKey \/ Gone(s) \/ Kept(s)
KpHasCredential == \A s \in AcSlots : kp[s] # NoKey => prov[s] = kp[s]
KpHasDocument == \A s \in AdSlots :
    kp[s] # NoKey => \/ (doc[s] # NoDoc /\ doc[s].key = kp[s]) \/ Kept(s)
                     \/ Between(s) /\ A.key = kp[s]
KpSteps ==
    /\ M.at = "commit" /\ M.ci = 0 => kp[M.slot] = NoKey
    /\ A.at = "preserving" => key[A.slot] = A.key /\ kp[A.slot] = NoKey

(* What else than a document that is being written makes a start fail.        *)
StartCauses == {"delete", "write", "read", "overlap"}

IInv ==
    /\ TypeOK /\ op \in [Threads -> OpSet]
    /\ AliroInv /\ MatterInv /\ TurnInv /\ ProvInv /\ IssuerInv /\ RemoveInv /\ FreeSlotInv
    /\ StoreInv /\ TornInv
    /\ Unless(StartCauses, TornEntry)
    /\ Unless({"read"}, NothingSkipped)
    /\ Unless({"delete"}, DocumentsHaveKeys)
    /\ Unless({"write", "read"}, KeysHaveDocuments)
    /\ Unless({"zero"}, NoZeroKey)
    /\ Unless({"delete", "zero"}, OneDocument /\ OneSlot /\ OwnSlot)
    /\ Unless({"write", "read", "delete", "zero"}, CopiesFollow)
    /\ Unless({"overlap"}, UpdateRecent /\ CheckedRecent)
    /\ Unless({"delete", "read", "overlap"}, DocumentsRecent /\ DocumentsOwned /\ ClearedFirst)
    /\ Unless({"iteration", "overlap"}, IterationsFresh)
    /\ Unless(KpCauses, KpHasKey /\ KpHasCredential /\ KpHasDocument /\ KpSteps)
-----------------------------------------------------------------------------
(* Slots, documents and operations.                                           *)

(* Access credentials come first, documents follow, and there is room for     *)
(* one.                                                                       *)
LEMMA SlotFacts ==
  /\ Slots = AcSlots \cup AdSlots /\ AcSlots \cap AdSlots = {} /\ Slots \subseteq Nat
  /\ 0 \notin Slots /\ AdSlots # {}
<1>1. NumAc + 1 \in AdSlots
  BY BoundsAssumption DEF AdSlots
<1> QED
  BY <1>1, BoundsAssumption DEF Slots, AcSlots, AdSlots

(* The fields of a document.                                                  *)
LEMMA DocumentFields ==
  ASSUME NEW d \in DocumentSet
  PROVE  /\ d.key \in Keys /\ d.ci \in Issuers /\ d.time \in Nat /\ d.iter \in 0..MaxIter
         /\ d.carried \in BOOLEAN /\ d # NoDoc
  BY BoundsAssumption, DocumentAssumption DEF DocumentSet

(* A thread that does nothing.                                                *)
LEMMA NoOpFields ==
  /\ NoOp \in OpSet
  /\ NoOp.at = "idle" /\ NoOp.then = "none" /\ NoOp.ci = 0 /\ NoOp.slot = 0 /\ NoOp.skip = {}
  BY BoundsAssumption DEF NoOp, OpSet, AliroSteps, MatterSteps, Callers

(* A thread goes to another step and keeps the fields of its operation, or it *)
(* begins a removal; the other thread stays where it is.                      *)
LEMMA Moves ==
  ASSUME op \in [Threads -> OpSet], NEW t \in Threads, NEW o \in OpSet, op' = [op EXCEPT ![t] = o]
  PROVE  /\ op' \in [Threads -> OpSet] /\ op'[t] = o
         /\ \A u \in Threads : u # t => op'[u] = op[u]
  OBVIOUS

(* What one field of an operation changes.                                    *)
LEMMA StepFields ==
  ASSUME NEW o \in OpSet, NEW at \in AliroSteps \cup MatterSteps
  PROVE  LET p == [o EXCEPT !.at = at]
         IN /\ p \in OpSet /\ p.at = at /\ p.slot = o.slot /\ p.then = o.then
            /\ p.doc = o.doc /\ p.key = o.key /\ p.ci = o.ci /\ p.cur = o.cur /\ p.new = o.new /\ p.skip = o.skip
  BY DEF OpSet

LEMMA SlotFields ==
  ASSUME NEW o \in OpSet, NEW s \in Slots
  PROVE  LET p == [o EXCEPT !.slot = s]
         IN /\ p \in OpSet /\ p.slot = s /\ p.then = o.then
            /\ p.doc = o.doc /\ p.key = o.key /\ p.ci = o.ci /\ p.cur = o.cur /\ p.new = o.new /\ p.skip = o.skip
  BY DEF OpSet

(* The Aliro thread goes to another step, or begins a removal.                *)
LEMMA AliroGoes ==
  ASSUME op \in [Threads -> OpSet], NEW o \in OpSet, NEW at \in AliroSteps \cup MatterSteps,
         Go("aliro", at, o)
  PROVE  /\ op' \in [Threads -> OpSet] /\ M' = M /\ A'.at = at
         /\ A'.slot = o.slot /\ A'.then = o.then
         /\ A'.doc = o.doc /\ A'.key = o.key /\ A'.ci = o.ci /\ A'.cur = o.cur /\ A'.new = o.new /\ A'.skip = o.skip
<1>1. op' = [op EXCEPT !["aliro"] = [o EXCEPT !.at = at]]
  BY DEF Go
<1>2. [o EXCEPT !.at = at] \in OpSet
  BY StepFields
<1>3. op' \in [Threads -> OpSet] /\ A' = [o EXCEPT !.at = at] /\ M' = M
  BY <1>1, <1>2, Moves DEF A, M, Threads
<1> QED
  BY <1>3, StepFields

LEMMA AliroRemoves ==
  ASSUME op \in [Threads -> OpSet], NEW o \in OpSet, NEW s \in Slots, NEW c \in Callers,
         Remove("aliro", s, c, o)
  PROVE  /\ op' \in [Threads -> OpSet] /\ M' = M
         /\ A'.at = "rmKey" /\ A'.slot = s /\ A'.then = c
         /\ A'.doc = o.doc /\ A'.key = o.key /\ A'.ci = o.ci /\ A'.cur = o.cur /\ A'.new = o.new /\ A'.skip = o.skip
<1> DEFINE p == [o EXCEPT !.slot = s, !.then = c]
<1>1. /\ p \in OpSet /\ p.slot = s /\ p.then = c
      /\ p.doc = o.doc /\ p.key = o.key /\ p.ci = o.ci /\ p.cur = o.cur /\ p.new = o.new /\ p.skip = o.skip
  BY DEF OpSet
<1>2. Go("aliro", "rmKey", p) /\ "rmKey" \in AliroSteps
  BY DEF Remove, AliroSteps
<1> HIDE DEF p
<1> QED
  BY <1>1, <1>2, AliroGoes

(* Likewise the Matter thread.                                                *)
LEMMA MatterGoes ==
  ASSUME op \in [Threads -> OpSet], NEW o \in OpSet, NEW at \in AliroSteps \cup MatterSteps,
         Go("matter", at, o)
  PROVE  /\ op' \in [Threads -> OpSet] /\ A' = A /\ M'.at = at
         /\ M'.slot = o.slot /\ M'.then = o.then
         /\ M'.doc = o.doc /\ M'.key = o.key /\ M'.ci = o.ci /\ M'.cur = o.cur /\ M'.new = o.new /\ M'.skip = o.skip
<1>1. op' = [op EXCEPT !["matter"] = [o EXCEPT !.at = at]]
  BY DEF Go
<1>2. [o EXCEPT !.at = at] \in OpSet
  BY StepFields
<1>3. op' \in [Threads -> OpSet] /\ M' = [o EXCEPT !.at = at] /\ A' = A
  BY <1>1, <1>2, Moves DEF A, M, Threads
<1> QED
  BY <1>3, StepFields

LEMMA MatterRemoves ==
  ASSUME op \in [Threads -> OpSet], NEW o \in OpSet, NEW s \in Slots, NEW c \in Callers,
         Remove("matter", s, c, o)
  PROVE  /\ op' \in [Threads -> OpSet] /\ A' = A
         /\ M'.at = "rmKey" /\ M'.slot = s /\ M'.then = c
         /\ M'.doc = o.doc /\ M'.key = o.key /\ M'.ci = o.ci /\ M'.cur = o.cur /\ M'.new = o.new /\ M'.skip = o.skip
<1> DEFINE p == [o EXCEPT !.slot = s, !.then = c]
<1>1. /\ p \in OpSet /\ p.slot = s /\ p.then = c
      /\ p.doc = o.doc /\ p.key = o.key /\ p.ci = o.ci /\ p.cur = o.cur /\ p.new = o.new /\ p.skip = o.skip
  BY DEF OpSet
<1>2. Go("matter", "rmKey", p) /\ "rmKey" \in AliroSteps
  BY DEF Remove, AliroSteps
<1> HIDE DEF p
<1> QED
  BY <1>1, <1>2, MatterGoes

(* The operation of a document that is being verified.                        *)
LEMMA ChosenFields ==
  ASSUME NEW d \in DocumentSet
  PROVE  /\ Chosen(d) \in OpSet /\ Chosen(d).doc = d /\ Chosen(d).key = d.key /\ Chosen(d).ci = d.ci
         /\ Chosen(d).then = "none" /\ Chosen(d).slot = 0 /\ Chosen(d).skip = {}
<1>1. d.key \in Keys /\ d.ci \in Issuers
  BY DocumentFields
<1>2. NoOp \in OpSet /\ NoOp.then = "none" /\ NoOp.slot = 0 /\ NoOp.skip = {}
  BY NoOpFields
<1> QED
  BY <1>1, <1>2 DEF Chosen, OpSet

(* The operations of the two threads.                                         *)
LEMMA OpFields ==
  ASSUME op \in [Threads -> OpSet]
  PROVE  /\ A \in OpSet /\ M \in OpSet
         /\ A.cur \in 0..MaxIter /\ A.new \in BOOLEAN /\ A.ci \in Issuers \cup {0}
         /\ M.ci \in Issuers \cup {0} /\ A.slot \in Slots \cup {0} /\ M.slot \in Slots \cup {0}
         /\ A.skip \subseteq AdSlots /\ M.skip \subseteq AdSlots
  BY DEF A, M, Threads, OpSet

(* RemoveOldestCredential finds a slot: a document has the least signing time.*)
LEMMA OldestIn ==
  ASSUME TypeOK
  PROVE  Oldest \in AdSlots
<1> DEFINE Unread == {s \in AdSlots : doc[s] = NoDoc}
           First  == {s \in AdSlots : \A r \in AdSlots : doc[s].time <= doc[r].time}
<1>1. CASE Unread # {}
  <2>1. Unread \subseteq Nat
    BY SlotFacts
  <2>2. Lowest(Unread) \in Unread
    BY <1>1, <2>1, LowestIn
  <2> QED
    BY <1>1, <2>2 DEF Oldest
<1>2. CASE Unread = {}
  <2> DEFINE Times == {doc[s].time : s \in AdSlots}
  <2>1. \A s \in AdSlots : doc[s] \in DocumentSet
    BY <1>2 DEF TypeOK
  <2>2. Times \subseteq Nat /\ Times # {}
    BY <2>1, DocumentFields, SlotFacts
  <2>3. Lowest(Times) \in Times /\ \A r \in Times : Lowest(Times) <= r
    <3> HIDE DEF Times
    <3> QED
      BY <2>2, LowestIn
  <2>4. PICK s \in AdSlots : doc[s].time = Lowest(Times)
    BY <2>3
  <2>5. \A r \in AdSlots : doc[s].time <= doc[r].time
    BY <2>3, <2>4
  <2>6. First # {} /\ First \subseteq Nat
    BY <2>5, SlotFacts
  <2>7. Lowest(First) \in First
    <3> HIDE DEF First
    <3> QED
      BY <2>6, LowestIn
  <2> QED
    BY <1>2, <2>7 DEF Oldest
<1> QED
  BY <1>1, <1>2

-----------------------------------------------------------------------------
(* What the steps of the Aliro thread do.                                     *)

LEMMA StartDocumentDoes ==
  ASSUME IInv, NEW d \in DocumentSet, StartDocument(d)
  PROVE  /\ op' \in [Threads -> OpSet] /\ M' = M
         /\ UNCHANGED <<key, issuer, evict, up, doc, torn, vi, kp, prov, owned, sMutex, faults>>
         /\ up /\ A.at = "idle" /\ issuer[d.ci] = "key"
         /\ d.carried => ~TooOld(vi[d.ci], d.iter)
         /\ upset' = IF M.then # "none" THEN upset \cup {"overlap"} ELSE upset
         /\ A'.doc = d /\ A'.key = d.key /\ A'.ci = d.ci /\ A'.then = "none" /\ A'.skip = {}
         /\ \/ ~d.carried /\ A'.at = "check"
            \/ /\ d.carried /\ A'.at = "iterate" /\ A'.new \in BOOLEAN
               /\ ~TooOld(A'.cur, d.iter) /\ vi[d.ci] <= A'.cur /\ (~A'.new => vi[d.ci] = A'.cur)
<1> DEFINE cur == IF d.carried /\ d.iter > vi[d.ci] THEN d.iter ELSE vi[d.ci]
           o   == [Chosen(d) EXCEPT !.cur = cur, !.new = (cur # vi[d.ci])]
<1>1. /\ vi[d.ci] \in 0..MaxIter /\ d.iter \in 0..MaxIter /\ cur \in 0..MaxIter /\ MaxIter \in Nat
      /\ d.carried \in BOOLEAN
  BY DocumentFields, BoundsAssumption DEF IInv, TypeOK
<1>2. /\ o \in OpSet /\ o.doc = d /\ o.key = d.key /\ o.ci = d.ci /\ o.then = "none" /\ o.skip = {}
      /\ o.cur = cur /\ o.new = (cur # vi[d.ci])
  <2> HIDE DEF cur
  <2> QED
    BY <1>1, ChosenFields DEF OpSet
<1>3. /\ up /\ A.at = "idle" /\ issuer[d.ci] = "key"
      /\ UNCHANGED <<key, issuer, evict, up, doc, torn, vi, kp, prov, owned, sMutex, faults>>
      /\ upset' = IF M.then # "none" THEN upset \cup {"overlap"} ELSE upset
  BY Zenon DEF StartDocument, Idle, At, A, M, store, nvs, ram, BesideRemoval, Beside
<1>4. d.carried => ~TooOld(vi[d.ci], d.iter)
  BY DEF StartDocument
<1>5. CASE d.carried
  <2>1. Go("aliro", "iterate", o) /\ "iterate" \in AliroSteps
    BY <1>5 DEF StartDocument, AliroSteps
  <2>2. ~TooOld(cur, d.iter) /\ vi[d.ci] <= cur
    BY <1>1, <1>4, <1>5 DEF TooOld
  <2> HIDE DEF o, cur
  <2> QED
    BY <1>2, <1>3, <1>4, <1>5, <2>1, <2>2, AliroGoes DEF IInv
<1>6. CASE ~d.carried
  <2>1. Go("aliro", "check", Chosen(d)) /\ "check" \in AliroSteps
    BY <1>6 DEF StartDocument, AliroSteps
  <2> QED
    BY <1>3, <1>4, <1>6, <2>1, ChosenFields, AliroGoes DEF IInv
<1> QED
  BY <1>5, <1>6

LEMMA RemoveOldCredentialsDoes ==
  ASSUME IInv, RemoveOldCredentials
  PROVE  /\ op' \in [Threads -> OpSet] /\ M' = M
         /\ UNCHANGED <<key, issuer, evict, up, doc, torn, vi, kp, prov, owned, sMutex, faults, upset>>
         /\ A.at = "iterate" /\ A'.at = "rmKey" /\ A'.then = "iterate" /\ A'.slot \in AdSlots
         /\ key[A'.slot] # NoKey
         /\ A'.doc = A.doc /\ A'.key = A.key /\ A'.ci = A.ci /\ A'.cur = A.cur /\ A'.new = A.new /\ A'.skip = A.skip
<1> DEFINE Old == {s \in DocsOf(A.ci) \ A.skip : TooOld(A.cur, doc[s].iter)}
<1>1. /\ A.at = "iterate" /\ Old # {} /\ Remove("aliro", Lowest(Old), "iterate", A)
      /\ UNCHANGED <<key, issuer, evict, up, doc, torn, vi, kp, prov, owned, sMutex, faults, upset>>
  BY DEF RemoveOldCredentials, At, A, NoFault, store, nvs, ram
<1>2. Lowest(Old) \in AdSlots /\ key[Lowest(Old)] # NoKey
  <2>1. Lowest(Old) \in Old
    BY <1>1, LowestIn, SlotFacts DEF DocsOf, AdKeys
  <2> QED
    BY <2>1 DEF DocsOf, AdKeys
<1> HIDE DEF Old
<1> QED
  BY <1>1, <1>2, SlotFacts, OpFields, AliroRemoves DEF IInv, Callers

LEMMA StoreValidityIterationsDoes ==
  ASSUME IInv, StoreValidityIterations
  PROVE  /\ op' \in [Threads -> OpSet] /\ M' = M
         /\ UNCHANGED <<key, issuer, evict, up, doc, torn, kp, prov, owned, sMutex>>
         /\ A.at = "iterate"
         /\ \A s \in AdSlots \ A.skip : key[s] # NoKey /\ doc[s] # NoDoc /\ doc[s].ci = A.ci
             => ~TooOld(A.cur, doc[s].iter)
         /\ \/ /\ A'.at = "check" /\ A'.doc = A.doc /\ A'.key = A.doc.key /\ A'.ci = A.doc.ci
               /\ A'.then = "none" /\ A'.skip = {} /\ UNCHANGED <<faults, upset>>
               /\ vi' = IF A.new THEN [vi EXCEPT ![A.ci] = A.cur] ELSE vi
            \/ /\ A'.at = "idle" /\ A'.then = "none" /\ A'.skip = {} /\ vi' = vi /\ Fault("iteration")
<1>1. /\ A.at = "iterate" /\ UNCHANGED <<key, issuer, evict, up, doc, torn, kp, prov, owned, sMutex>>
      /\ \A s \in AdSlots \ A.skip : key[s] # NoKey /\ doc[s] # NoDoc /\ doc[s].ci = A.ci
             => ~TooOld(A.cur, doc[s].iter)
  BY DEF StoreValidityIterations, At, A, ram, nvs, DocsOf, AdKeys
<1>2. A.doc \in DocumentSet
  BY <1>1 DEF IInv, AliroInv, Iterating
<1>3. CASE /\ vi' = IF A.new THEN [vi EXCEPT ![A.ci] = A.cur] ELSE vi
           /\ Go("aliro", "check", Chosen(A.doc)) /\ NoFault
  BY <1>1, <1>2, <1>3, ChosenFields, AliroGoes DEF IInv, AliroSteps, NoFault
<1>4. CASE Fault("iteration") /\ Go("aliro", "idle", NoOp) /\ UNCHANGED vi
  BY <1>1, <1>4, NoOpFields, AliroGoes DEF IInv, AliroSteps
<1> QED
  BY <1>3, <1>4 DEF StoreValidityIterations, A

LEMMA RejectDocumentDoes ==
  ASSUME IInv, RejectDocument
  PROVE  /\ op' \in [Threads -> OpSet] /\ M' = M
         /\ UNCHANGED <<key, issuer, evict, up, doc, torn, vi, kp, prov, owned, sMutex, faults, upset>>
         /\ A.at = "check" /\ A'.at = "idle" /\ A'.then = "none" /\ A'.skip = {}
<1>1. /\ A.at = "check" /\ Go("aliro", "idle", NoOp)
      /\ UNCHANGED <<key, issuer, evict, up, doc, torn, vi, kp, prov, owned, sMutex, faults, upset>>
  BY DEF RejectDocument, At, A, ram, store, nvs, NoFault
<1> QED
  BY <1>1, NoOpFields, AliroGoes DEF IInv, AliroSteps

LEMMA ChooseSlotDoes ==
  ASSUME IInv, ChooseSlot
  PROVE  /\ op' \in [Threads -> OpSet] /\ M' = M
         /\ UNCHANGED <<key, issuer, evict, up, doc, torn, vi, kp, prov, owned, faults, upset>>
         /\ A.at = "check" /\ sMutex' = {"aliro"} /\ A'.at = "write"
         /\ A'.slot \in AdSlots /\ A'.doc = A.doc /\ A'.key = A.key /\ A'.ci = A.ci
         /\ A'.then = A.then /\ A'.skip = A.skip
         /\ \/ key[A'.slot] = A.key
            \/ key[A'.slot] = NoKey /\ \A r \in AdSlots : key[r] # A.key
<1> DEFINE Same == Stored(AdSlots, A.key)
           Free == Stored(AdSlots, NoKey)
           Slot == Lowest(IF Same # {} THEN Same ELSE Free)
<1>1. /\ A.at = "check" /\ sMutex' = {"aliro"} /\ Same \cup Free # {}
      /\ Go("aliro", "write", [A EXCEPT !.slot = Slot])
      /\ UNCHANGED <<key, issuer, evict, up, doc, torn, vi, kp, prov, owned, faults, upset>>
  BY DEF ChooseSlot, At, A, ram, store, nvs, NoFault
<1>2. /\ Slot \in AdSlots
      /\ key[Slot] = A.key \/ (key[Slot] = NoKey /\ \A r \in AdSlots : key[r] # A.key)
  <2>1. Same \subseteq Nat /\ Free \subseteq Nat
    BY SlotFacts DEF Stored
  <2>2. CASE Same # {}
    <3>1. Lowest(Same) \in Same
      BY <2>1, <2>2, LowestIn
    <3> QED
      BY <2>2, <3>1 DEF Stored
  <2>3. CASE Same = {}
    <3>1. Free # {}
      BY <1>1, <2>3
    <3>2. Lowest(Free) \in Free
      BY <2>1, <3>1, LowestIn
    <3> QED
      BY <2>3, <3>2 DEF Stored
  <2> QED
    BY <2>2, <2>3
<1>3. AdSlots \subseteq Slots /\ A \in OpSet /\ "write" \in AliroSteps
  BY SlotFacts, OpFields DEF IInv, AliroSteps
<1> HIDE DEF Same, Free, Slot
<1>4. LET p == [A EXCEPT !.slot = Slot]
      IN /\ p \in OpSet /\ p.slot = Slot /\ p.then = A.then
         /\ p.doc = A.doc /\ p.key = A.key /\ p.ci = A.ci /\ p.skip = A.skip
  BY <1>2, <1>3, SlotFields
<1> QED
  BY <1>1, <1>2, <1>3, <1>4, AliroGoes DEF IInv

(* The document in slot s is lost, and what is left of its entry with it, if  *)
(* at all, by a failed read.                                                  *)
ReadLost(s) ==
    /\ torn' \in {torn, torn \ {s}}
    /\ \/ UNCHANGED <<doc, faults, upset>>
       \/ Fault("read") /\ (doc' = doc \/ doc' = [doc EXCEPT ![s] = NoDoc])

LEMMA ReadFailsDoes ==
  ASSUME IInv, NEW s \in AdSlots, ReadFails(s)
  PROVE  ReadLost(s)
<1>1. s \in torn => doc = [doc EXCEPT ![s] = NoDoc]
  BY DEF IInv, TornInv, TypeOK
<1> QED
  BY <1>1 DEF ReadFails, ReadLost, Erase, NoFault, nvs

LEMMA ReadAccessDocumentDoes ==
  ASSUME IInv, NEW s \in AdSlots, ReadAccessDocument(s)
  PROVE  /\ op' \in [Threads -> OpSet] /\ A' = A /\ M' = M
         /\ UNCHANGED <<key, issuer, evict, up, vi, kp, prov, owned, sMutex>>
         /\ A.at = "idle" /\ ReadLost(s)
<1>1. /\ op' = op /\ A' = A /\ M' = M /\ A.at = "idle" /\ ReadFails(s)
      /\ UNCHANGED <<key, issuer, evict, up, vi, kp, prov, owned, sMutex>>
  BY DEF ReadAccessDocument, Idle, At, A, M, ram
<1> QED
  BY <1>1, ReadFailsDoes DEF IInv

(* A loop passes over a document: no other field of the operation changes.    *)
LEMMA SkipFields ==
  ASSUME NEW o \in OpSet, NEW s \in AdSlots
  PROVE  LET p == [o EXCEPT !.skip = @ \cup {s}]
         IN /\ p \in OpSet /\ p.at = o.at /\ p.slot = o.slot /\ p.then = o.then
            /\ p.doc = o.doc /\ p.key = o.key /\ p.ci = o.ci /\ p.cur = o.cur /\ p.new = o.new
  BY DEF OpSet

LEMMA AliroPassOverDoes ==
  ASSUME IInv, PassOver("aliro")
  PROVE  /\ op' \in [Threads -> OpSet] /\ M' = M
         /\ UNCHANGED <<key, issuer, evict, up, vi, kp, prov, owned, sMutex>>
         /\ A.at = "iterate" /\ (\E s \in AdSlots : ReadLost(s))
         /\ A'.at = A.at /\ A'.slot = A.slot /\ A'.then = A.then
         /\ A'.doc = A.doc /\ A'.key = A.key /\ A'.ci = A.ci /\ A'.cur = A.cur /\ A'.new = A.new
         /\ A'.skip = A.skip \/ Fault("read")
<1>1. /\ A.at = "iterate" /\ UNCHANGED <<key, issuer, evict, up, vi, kp, prov, owned, sMutex>>
      /\ \E s \in AdSlots :
            /\ ReadFails(s)
            /\ op' = IF faults' = faults THEN op ELSE [op EXCEPT !["aliro"].skip = @ \cup {s}]
  BY DEF PassOver, At, A, ram, AdKeys
<1>2. PICK s \in AdSlots :
            /\ ReadFails(s)
            /\ op' = IF faults' = faults THEN op ELSE [op EXCEPT !["aliro"].skip = @ \cup {s}]
  BY <1>1
<1>3. ReadLost(s)
  BY <1>2, ReadFailsDoes
<1>4. faults' = faults \/ Fault("read")
  BY <1>2 DEF ReadFails, NoFault
<1>5. A \in OpSet /\ op \in [Threads -> OpSet]
  BY OpFields DEF IInv
<1>6. CASE faults' = faults
  BY <1>1, <1>2, <1>3, <1>5, <1>6 DEF A, M
<1>7. CASE faults' # faults
  <2> DEFINE p == [A EXCEPT !.skip = @ \cup {s}]
  <2>1. op' = [op EXCEPT !["aliro"] = p] /\ "aliro" \in Threads /\ "matter" \in Threads
    BY <1>2, <1>5, <1>7 DEF A, Threads
  <2>2. /\ p \in OpSet /\ p.at = A.at /\ p.slot = A.slot /\ p.then = A.then
        /\ p.doc = A.doc /\ p.key = A.key /\ p.ci = A.ci /\ p.cur = A.cur /\ p.new = A.new
    BY <1>5, SkipFields
  <2> HIDE DEF p
  <2>3. op' \in [Threads -> OpSet] /\ A' = p /\ M' = M
    BY <1>5, <2>1, <2>2, Moves DEF A, M
  <2> QED
    BY <1>1, <1>3, <1>4, <1>7, <2>2, <2>3
<1> QED
  BY <1>6, <1>7

LEMMA RemoveOldestCredentialDoes ==
  ASSUME IInv, RemoveOldestCredential
  PROVE  /\ op' \in [Threads -> OpSet] /\ M' = M
         /\ UNCHANGED <<key, issuer, evict, up, vi, kp, prov, owned>>
         /\ A.at = "check" /\ sMutex' = {"aliro"} /\ ReadLost(A'.slot)
         /\ A'.slot \in AdSlots /\ A'.doc = A.doc /\ A'.key = A.key /\ A'.ci = A.ci
         /\ A'.at = "rmKey" /\ A'.then = "write" /\ A'.skip = A.skip
         /\ \A r \in AdSlots : key[r] # A.key
<1>1. /\ A.at = "check" /\ sMutex' = {"aliro"}
      /\ UNCHANGED <<key, issuer, evict, up, vi, kp, prov, owned>>
      /\ \A r \in AdSlots : key[r] # A.key
  BY DEF RemoveOldestCredential, At, A, ram, Stored
<1>2. \E s \in AdSlots : Remove("aliro", s, "write", A) /\ ReadLost(s)
  <2>1. CASE Remove("aliro", Oldest, "write", A) /\ NoFault /\ UNCHANGED nvs
    <3>1. Oldest \in AdSlots
      BY OldestIn DEF IInv
    <3> QED
      BY <2>1, <3>1 DEF ReadLost, NoFault, nvs
  <2>2. CASE \E s \in AdSlots : ReadFails(s) /\ Remove("aliro", s, "write", A)
    BY <2>2, ReadFailsDoes
  <2> QED
    BY <2>1, <2>2 DEF RemoveOldestCredential, A
<1>3. PICK s \in AdSlots : Remove("aliro", s, "write", A) /\ ReadLost(s)
  BY <1>2
<1>4. s \in Slots /\ A \in OpSet /\ "write" \in Callers
  BY SlotFacts, OpFields DEF IInv, Callers
<1> QED
  BY <1>1, <1>3, <1>4, AliroRemoves DEF IInv

LEMMA EndStoreDoes ==
  ASSUME IInv, EndStore
  PROVE  /\ op' \in [Threads -> OpSet] /\ M' = M /\ sMutex' = {}
         /\ A'.at = "preserve" /\ A'.then = "none" /\ A'.key = A.key /\ A'.skip = {}
<1>1. A.key \in Keys \cup {NoKey}
  BY OpFields DEF IInv, OpSet
<1>2. LET p == [NoOp EXCEPT !.key = A.key]
      IN p \in OpSet /\ p.key = A.key /\ p.then = "none" /\ p.skip = {}
  BY <1>1, NoOpFields DEF OpSet
<1>3. sMutex' = {} /\ Go("aliro", "preserve", [NoOp EXCEPT !.key = A.key])
  BY DEF EndStore, A
<1> QED
  BY <1>2, <1>3, AliroGoes DEF IInv, AliroSteps

LEMMA UpdateEvictableDoes ==
  ASSUME IInv, UpdateEvictable
  PROVE  /\ op' \in [Threads -> OpSet] /\ M' = M
         /\ UNCHANGED <<key, issuer, up, doc, torn, vi, kp, prov, owned, faults, upset>>
         /\ A.at = "write" /\ M.at = "idle"
         /\ \/ /\ owned[A.ci] = "key" /\ evict' = [evict EXCEPT ![A.slot] = A.key]
               /\ UNCHANGED sMutex /\ A'.at = "entry" /\ A'.slot = A.slot /\ A'.then = A.then
               /\ A'.doc = A.doc /\ A'.key = A.key /\ A'.ci = A.ci /\ A'.skip = A.skip
            \/ /\ UNCHANGED evict /\ sMutex' = {}
               /\ A'.at = "preserve" /\ A'.then = "none" /\ A'.key = A.key /\ A'.skip = {}
<1>1. /\ A.at = "write" /\ M.at = "idle"
      /\ UNCHANGED <<key, issuer, up, doc, torn, vi, kp, prov, owned, faults, upset>>
      /\ \/ /\ owned[A.ci] = "key" /\ evict' = [evict EXCEPT ![A.slot] = A.key]
            /\ Go("aliro", "entry", A) /\ UNCHANGED sMutex
         \/ EndStore /\ UNCHANGED evict
  BY DEF UpdateEvictable, At, A, M, StackFree, Idle, store, nvs, NoFault
<1>2. A \in OpSet /\ "entry" \in AliroSteps
  BY OpFields DEF IInv, AliroSteps
<1>3. CASE /\ owned[A.ci] = "key" /\ evict' = [evict EXCEPT ![A.slot] = A.key]
           /\ Go("aliro", "entry", A) /\ UNCHANGED sMutex
  BY <1>1, <1>2, <1>3, AliroGoes DEF IInv
<1>4. CASE EndStore /\ UNCHANGED evict
  BY <1>1, <1>4, EndStoreDoes
<1> QED
  BY <1>1, <1>3, <1>4

(* The entry of slot s cannot be written, or not be completed: what was there *)
(* is lost or not.                                                            *)
WriteLost(s) ==
    /\ Fault("write") /\ torn' \in {torn, torn \ {s}}
    /\ doc' = doc \/ doc' = [doc EXCEPT ![s] = NoDoc]

LEMMA WriteEntryDoes ==
  ASSUME IInv, WriteEntry
  PROVE  /\ op' \in [Threads -> OpSet] /\ M' = M
         /\ UNCHANGED <<key, issuer, evict, up, vi, kp, prov, owned, sMutex>>
         /\ A.at = "entry" /\ A'.slot = A.slot /\ A'.then = A.then
         /\ A'.doc = A.doc /\ A'.key = A.key /\ A'.ci = A.ci /\ A'.skip = A.skip
         /\ \/ /\ A'.at = "counter" /\ UNCHANGED <<faults, upset>>
               /\ doc' = [doc EXCEPT ![A.slot] = NoDoc] /\ torn' = torn \cup {A.slot}
            \/ A'.at = "revert" /\ WriteLost(A.slot)
<1>1. /\ A.at = "entry" /\ UNCHANGED <<key, issuer, evict, up, vi, kp, prov, owned, sMutex>>
      /\ \/ /\ Go("aliro", "counter", A) /\ UNCHANGED <<faults, upset>>
            /\ doc' = [doc EXCEPT ![A.slot] = NoDoc] /\ torn' = torn \cup {A.slot}
         \/ Go("aliro", "revert", A) /\ WriteLost(A.slot)
  BY DEF WriteEntry, At, A, ram, nvs, Erase, NoFault, WriteLost
<1>2. A \in OpSet /\ "counter" \in AliroSteps /\ "revert" \in AliroSteps
  BY OpFields DEF IInv, AliroSteps
<1>3. CASE /\ Go("aliro", "counter", A) /\ UNCHANGED <<faults, upset>>
           /\ doc' = [doc EXCEPT ![A.slot] = NoDoc] /\ torn' = torn \cup {A.slot}
  BY <1>1, <1>2, <1>3, AliroGoes DEF IInv
<1>4. CASE Go("aliro", "revert", A) /\ WriteLost(A.slot)
  BY <1>1, <1>2, <1>4, AliroGoes DEF IInv
<1> QED
  BY <1>1, <1>3, <1>4

LEMMA WriteCounterDoes ==
  ASSUME IInv, WriteCounter
  PROVE  /\ op' \in [Threads -> OpSet] /\ M' = M
         /\ UNCHANGED <<issuer, evict, up, vi, kp, prov, owned>>
         /\ A.at = "counter"
         /\ \/ /\ doc' = [doc EXCEPT ![A.slot] = A.doc] /\ torn' = torn \ {A.slot}
               /\ key' = [key EXCEPT ![A.slot] = A.key] /\ sMutex' = {} /\ UNCHANGED <<faults, upset>>
               /\ A'.at = "preserve" /\ A'.then = "none" /\ A'.key = A.key /\ A'.skip = {}
            \/ /\ A'.at = "revert" /\ WriteLost(A.slot) /\ UNCHANGED <<key, sMutex>>
               /\ A'.slot = A.slot /\ A'.then = A.then
               /\ A'.doc = A.doc /\ A'.key = A.key /\ A'.ci = A.ci /\ A'.skip = A.skip
<1>1. /\ A.at = "counter" /\ UNCHANGED <<issuer, evict, up, vi, kp, prov, owned>>
      /\ \/ /\ doc' = [doc EXCEPT ![A.slot] = A.doc] /\ torn' = torn \ {A.slot}
            /\ key' = [key EXCEPT ![A.slot] = A.key] /\ EndStore /\ UNCHANGED <<faults, upset>>
         \/ Go("aliro", "revert", A) /\ WriteLost(A.slot) /\ UNCHANGED <<key, sMutex>>
  BY DEF WriteCounter, At, A, nvs, Erase, NoFault, WriteLost
<1>2. A \in OpSet /\ "revert" \in AliroSteps
  BY OpFields DEF IInv, AliroSteps
<1>3. CASE /\ doc' = [doc EXCEPT ![A.slot] = A.doc] /\ torn' = torn \ {A.slot}
           /\ key' = [key EXCEPT ![A.slot] = A.key] /\ EndStore /\ UNCHANGED <<faults, upset>>
  BY <1>1, <1>3, EndStoreDoes
<1>4. CASE Go("aliro", "revert", A) /\ WriteLost(A.slot) /\ UNCHANGED <<key, sMutex>>
  BY <1>1, <1>2, <1>4, AliroGoes DEF IInv
<1> QED
  BY <1>1, <1>3, <1>4

LEMMA RemoveEvictableDoes ==
  ASSUME IInv, RemoveEvictable
  PROVE  /\ op' \in [Threads -> OpSet] /\ M' = M
         /\ UNCHANGED <<key, issuer, up, doc, torn, vi, kp, prov, owned, faults, upset>>
         /\ A.at = "revert" /\ M.at = "idle" /\ evict' = [evict EXCEPT ![A.slot] = NoKey]
         /\ sMutex' = {}
         /\ A'.at = "preserve" /\ A'.then = "none" /\ A'.key = A.key /\ A'.skip = {}
<1>1. /\ A.at = "revert" /\ M.at = "idle" /\ evict' = [evict EXCEPT ![A.slot] = NoKey] /\ EndStore
      /\ UNCHANGED <<key, issuer, up, doc, torn, vi, kp, prov, owned, faults, upset>>
  BY DEF RemoveEvictable, At, A, M, StackFree, Idle, store, nvs, NoFault
<1> QED
  BY <1>1, EndStoreDoes

LEMMA VerifyPublicKeyDoes ==
  ASSUME IInv, NEW k \in Keys \cup {ZeroKey}, NEW fast \in BOOLEAN, fast \/ k \in Keys,
         VerifyPublicKey(k, fast)
  PROVE  /\ op' \in [Threads -> OpSet] /\ M' = M
         /\ UNCHANGED <<key, issuer, evict, up, doc, torn, vi, kp, prov, owned, faults>>
         /\ up /\ A.at = "idle"
         /\ upset' = IF M.then # "none" THEN upset \cup {"overlap"} ELSE upset
         /\ \/ A'.at = "preserve" /\ A'.then = "none" /\ A'.skip = {} /\ A'.key \in Keys /\ UNCHANGED sMutex
            \/ /\ A'.at = "rmKey" /\ A'.then = "idle" /\ A'.slot \in AdSlots /\ A'.skip = {}
               /\ sMutex' = {"aliro"}
<1> DEFINE o  == [NoOp EXCEPT !.key = k]
           Ad == Stored(AdSlots, k)
<1>1. /\ up /\ A.at = "idle"
      /\ UNCHANGED <<key, issuer, evict, up, doc, torn, vi, kp, prov, owned, faults>>
      /\ upset' = IF M.then # "none" THEN upset \cup {"overlap"} ELSE upset
  BY Zenon DEF VerifyPublicKey, Idle, At, A, M, store, nvs, ram, BesideRemoval, Beside
<1>2. \/ ~fast /\ Go("aliro", "preserve", o) /\ UNCHANGED sMutex
      \/ /\ Ad # {} /\ doc[Lowest(Ad)] # NoDoc /\ doc[Lowest(Ad)].key = k
         /\ sMutex' = {"aliro"} /\ Remove("aliro", Lowest(Ad), "idle", o)
  BY DEF VerifyPublicKey
<1>3. k \in Keys => o \in OpSet /\ o.then = "none" /\ o.key = k /\ o.skip = {}
  BY NoOpFields DEF OpSet
<1>4. Ad # {} => Lowest(Ad) \in AdSlots
  <2>1. Ad \subseteq Nat
    BY SlotFacts DEF Stored
  <2> QED
    BY <2>1, LowestIn DEF Stored
<1> HIDE DEF o, Ad
<1>5. CASE ~fast /\ Go("aliro", "preserve", o) /\ UNCHANGED sMutex
  BY <1>1, <1>3, <1>5, AliroGoes DEF IInv, AliroSteps
<1>6. CASE /\ Ad # {} /\ doc[Lowest(Ad)] # NoDoc /\ doc[Lowest(Ad)].key = k
           /\ sMutex' = {"aliro"} /\ Remove("aliro", Lowest(Ad), "idle", o)
  <2>1. k \in Keys
    BY <1>4, <1>6, DocumentFields DEF IInv, TypeOK
  <2>2. Lowest(Ad) \in Slots /\ "idle" \in Callers
    BY <1>4, <1>6, SlotFacts DEF Callers
  <2> QED
    BY <1>1, <1>3, <1>4, <1>6, <2>1, <2>2, AliroRemoves DEF IInv
<1> QED
  BY <1>2, <1>5, <1>6

LEMMA DestroyOldKpersistentDoes ==
  ASSUME IInv, DestroyOldKpersistent
  PROVE  /\ op' \in [Threads -> OpSet] /\ M' = M
         /\ UNCHANGED <<key, issuer, evict, up, doc, torn, vi, prov, owned, sMutex>>
         /\ A.at = "preserve"
         /\ \/ /\ A'.at = "preserving" /\ A'.slot \in Slots /\ A'.key = A.key /\ key[A'.slot] = A.key
               /\ A'.skip = A.skip
               /\ kp' = [kp EXCEPT ![A'.slot] = NoKey] /\ UNCHANGED <<faults, upset>>
            \/ /\ A'.at = "idle" /\ A'.then = "none" /\ A'.skip = {} /\ kp' = kp
               /\ UNCHANGED <<faults, upset>> \/ Fault("kp")
<1> DEFINE Found == Stored(Slots, A.key)
           o == [A EXCEPT !.slot = Lowest(Found)]
<1>1. /\ A.at = "preserve" /\ UNCHANGED <<key, issuer, evict, up, doc, torn, vi, prov, owned, sMutex>>
      /\ \/ /\ Found # {} /\ kp' = [kp EXCEPT ![Lowest(Found)] = NoKey]
            /\ Go("aliro", "preserving", o) /\ NoFault
         \/ Go("aliro", "idle", NoOp) /\ UNCHANGED kp /\ (NoFault \/ Fault("kp"))
  BY DEF DestroyOldKpersistent, At, A, ram, nvs
<1>2. Found # {} => Lowest(Found) \in Slots /\ key[Lowest(Found)] = A.key
  <2>1. Found \subseteq Nat
    BY SlotFacts DEF Stored
  <2> QED
    BY <2>1, LowestIn DEF Stored
<1>3. A \in OpSet
  BY OpFields DEF IInv
<1> HIDE DEF Found
<1>4. Found # {} => o \in OpSet /\ o.slot = Lowest(Found) /\ o.key = A.key /\ o.skip = A.skip
  BY <1>2, <1>3 DEF OpSet
<1> HIDE DEF o
<1>5. CASE /\ Found # {} /\ kp' = [kp EXCEPT ![Lowest(Found)] = NoKey]
           /\ Go("aliro", "preserving", o) /\ NoFault
  BY <1>1, <1>2, <1>4, <1>5, AliroGoes DEF IInv, AliroSteps, NoFault
<1>6. CASE Go("aliro", "idle", NoOp) /\ UNCHANGED kp /\ (NoFault \/ Fault("kp"))
  BY <1>1, <1>6, NoOpFields, AliroGoes DEF IInv, AliroSteps, NoFault
<1> QED
  BY <1>1, <1>5, <1>6

LEMMA PreserveKeyDoes ==
  ASSUME IInv, PreserveKey
  PROVE  /\ op' \in [Threads -> OpSet] /\ M' = M
         /\ UNCHANGED <<key, issuer, evict, up, doc, torn, vi, prov, owned, sMutex>>
         /\ A.at = "preserving" /\ A'.at = "idle" /\ A'.then = "none" /\ A'.skip = {}
         /\ \/ kp' = [kp EXCEPT ![A.slot] = A.key] /\ UNCHANGED <<faults, upset>>
            \/ kp' = kp /\ Fault("kp")
<1>1. /\ A.at = "preserving" /\ UNCHANGED <<key, issuer, evict, up, doc, torn, vi, prov, owned, sMutex>>
      /\ Go("aliro", "idle", NoOp)
      /\ \/ kp' = [kp EXCEPT ![A.slot] = A.key] /\ UNCHANGED <<faults, upset>>
         \/ kp' = kp /\ Fault("kp")
  BY DEF PreserveKey, At, A, ram, nvs, NoFault
<1> QED
  BY <1>1, NoOpFields, AliroGoes DEF IInv, AliroSteps

-----------------------------------------------------------------------------
(* What the steps of the Matter thread do.                                    *)

LEMMA SetAccessCredentialDoes ==
  ASSUME IInv, NEW s \in AcSlots, NEW k \in Keys, SetAccessCredential(s, k)
  PROVE  /\ op' \in [Threads -> OpSet] /\ A' = A
         /\ UNCHANGED <<key, issuer, evict, up, doc, torn, vi, kp, owned, sMutex, faults, upset>>
         /\ up /\ prov[s] \notin Keys /\ prov' = [prov EXCEPT ![s] = k]
         /\ M.at = "idle" /\ M'.at = "addKey" /\ M'.slot = s /\ M'.key = k /\ M'.then = "none" /\ M'.skip = {}
<1> DEFINE o == [NoOp EXCEPT !.slot = s, !.key = k]
<1>1. /\ up /\ prov[s] \notin Keys /\ prov' = [prov EXCEPT ![s] = k]
      /\ M.at = "idle" /\ Go("matter", "addKey", o)
      /\ UNCHANGED <<key, issuer, evict, up, doc, torn, vi, kp, owned, sMutex, faults, upset>>
  BY DEF SetAccessCredential, Command, Idle, At, M, ram, nvs, NoFault
<1>2. o \in OpSet /\ o.slot = s /\ o.key = k /\ o.then = "none" /\ o.skip = {}
  BY NoOpFields, SlotFacts DEF OpSet
<1> HIDE DEF o
<1> QED
  BY <1>1, <1>2, MatterGoes DEF IInv, MatterSteps

LEMMA SetCredentialIssuerDoes ==
  ASSUME IInv, NEW i \in Issuers, SetCredentialIssuer(i)
  PROVE  /\ op' \in [Threads -> OpSet] /\ A' = A
         /\ UNCHANGED <<key, issuer, evict, up, doc, torn, vi, kp, prov, sMutex, faults, upset>>
         /\ up /\ owned[i] # "key" /\ owned' = [owned EXCEPT ![i] = "key"]
         /\ M.at = "idle" /\ M'.at = "addIssuer" /\ M'.ci = i /\ M'.then = "none" /\ M'.skip = {}
<1> DEFINE o == [NoOp EXCEPT !.ci = i]
<1>1. /\ up /\ owned[i] # "key" /\ owned' = [owned EXCEPT ![i] = "key"]
      /\ M.at = "idle" /\ Go("matter", "addIssuer", o)
      /\ UNCHANGED <<key, issuer, evict, up, doc, torn, vi, kp, prov, sMutex, faults, upset>>
  BY DEF SetCredentialIssuer, Command, Idle, At, M, ram, nvs, NoFault
<1>2. o \in OpSet /\ o.ci = i /\ o.then = "none" /\ o.skip = {}
  BY NoOpFields DEF OpSet
<1> HIDE DEF o
<1> QED
  BY <1>1, <1>2, MatterGoes DEF IInv, MatterSteps

LEMMA AddPublicKeyDoes ==
  ASSUME IInv, AddPublicKey
  PROVE  /\ op' \in [Threads -> OpSet] /\ A' = A
         /\ UNCHANGED <<evict, up, doc, torn, vi, kp, prov, owned, sMutex, faults, upset>>
         /\ M'.at = "idle" /\ M'.then = "none" /\ M'.skip = {}
         /\ \/ /\ M.at = "addKey" /\ UNCHANGED issuer
               /\ key' = IF key[M.slot] = NoKey THEN [key EXCEPT ![M.slot] = M.key] ELSE key
            \/ /\ M.at = "addIssuer" /\ UNCHANGED key
               /\ issuer' = IF issuer[M.ci] = "none" THEN [issuer EXCEPT ![M.ci] = "key"] ELSE issuer
<1>1. /\ Go("matter", "idle", NoOp)
      /\ UNCHANGED <<evict, up, doc, torn, vi, kp, prov, owned, sMutex, faults, upset>>
      /\ \/ /\ M.at = "addKey" /\ UNCHANGED issuer
            /\ key' = IF key[M.slot] = NoKey THEN [key EXCEPT ![M.slot] = M.key] ELSE key
         \/ /\ M.at = "addIssuer" /\ UNCHANGED key
            /\ issuer' = IF issuer[M.ci] = "none" THEN [issuer EXCEPT ![M.ci] = "key"] ELSE issuer
  BY DEF AddPublicKey, At, M, store, nvs, NoFault
<1> QED
  BY <1>1, NoOpFields, MatterGoes DEF IInv, MatterSteps

LEMMA ClearCredentialDoes ==
  ASSUME IInv, NEW s \in Slots, ClearCredential(s)
  PROVE  /\ op' \in [Threads -> OpSet] /\ A' = A
         /\ UNCHANGED <<key, issuer, evict, up, doc, torn, vi, kp, prov, owned, sMutex, faults>>
         /\ upset' = IF A.at # "idle" THEN upset \cup {"overlap"} ELSE upset
         /\ up /\ M.at = "idle" /\ M'.at = "rmKey" /\ M'.slot = s /\ M'.then = "commit" /\ M'.ci = 0
         /\ M'.skip = {}
<1> DEFINE o == [NoOp EXCEPT !.slot = s, !.then = "commit"]
<1>1. /\ up /\ M.at = "idle" /\ Go("matter", "rmKey", o)
      /\ upset' = IF A.at # "idle" THEN upset \cup {"overlap"} ELSE upset
      /\ UNCHANGED <<key, issuer, evict, up, doc, torn, vi, kp, prov, owned, sMutex, faults>>
  BY DEF ClearCredential, Command, Idle, At, A, M, ram, store, nvs, BesideVerification, Beside
<1>2. o \in OpSet /\ o.slot = s /\ o.ci = 0 /\ o.then = "commit" /\ o.skip = {}
  BY NoOpFields DEF OpSet, Callers
<1> HIDE DEF o
<1> QED
  BY <1>1, <1>2, MatterGoes DEF IInv, MatterSteps

LEMMA ClearCredentialIssuerDoes ==
  ASSUME IInv, NEW i \in Issuers, ClearCredentialIssuer(i)
  PROVE  /\ op' \in [Threads -> OpSet] /\ A' = A
         /\ UNCHANGED <<key, issuer, evict, up, doc, torn, vi, kp, prov, owned, sMutex, faults>>
         /\ upset' = IF A.at # "idle" THEN upset \cup {"overlap"} ELSE upset
         /\ up /\ owned[i] = "key" /\ M.at = "idle"
         /\ M'.at = "rmIssuer" /\ M'.ci = i /\ M'.then = "commit" /\ M'.skip = {}
<1> DEFINE o == [NoOp EXCEPT !.ci = i, !.then = "commit"]
<1>1. /\ up /\ owned[i] = "key" /\ M.at = "idle" /\ Go("matter", "rmIssuer", o)
      /\ upset' = IF A.at # "idle" THEN upset \cup {"overlap"} ELSE upset
      /\ UNCHANGED <<key, issuer, evict, up, doc, torn, vi, kp, prov, owned, sMutex, faults>>
  BY DEF ClearCredentialIssuer, Command, Idle, At, A, M, ram, store, nvs, BesideVerification, Beside
<1>2. o \in OpSet /\ o.ci = i /\ o.then = "commit" /\ o.skip = {}
  BY NoOpFields DEF OpSet, Callers
<1> HIDE DEF o
<1> QED
  BY <1>1, <1>2, MatterGoes DEF IInv, MatterSteps

LEMMA RemoveIssuerKeyDoes ==
  ASSUME IInv, RemoveIssuerKey
  PROVE  /\ op' \in [Threads -> OpSet] /\ A' = A
         /\ UNCHANGED <<key, evict, up, doc, torn, vi, kp, prov, owned, sMutex, faults, upset>>
         /\ issuer' = [issuer EXCEPT ![M.ci] = "none"]
         /\ M.at = "rmIssuer" /\ M'.at = IF issuer[M.ci] # "none" THEN "ciLoop" ELSE "ciEnd"
         /\ M'.ci = M.ci /\ M'.then = M.then /\ M'.skip = M.skip /\ sMutex = {}
<1>1. /\ M.at = "rmIssuer" /\ issuer' = [issuer EXCEPT ![M.ci] = "none"]
      /\ UNCHANGED <<key, evict, up, doc, torn, vi, kp, prov, owned, sMutex, faults, upset>>
      /\ Go("matter", IF issuer[M.ci] # "none" THEN "ciLoop" ELSE "ciEnd", M)
  BY DEF RemoveIssuerKey, At, M, store, nvs, NoFault
<1>2. M \in OpSet /\ (IF issuer[M.ci] # "none" THEN "ciLoop" ELSE "ciEnd") \in MatterSteps
  BY OpFields DEF IInv, MatterSteps
<1>3. sMutex = {}
  BY DEF IInv, AliroInv, RemoveIssuerKey, MutexFree
<1> QED
  BY <1>1, <1>2, <1>3, MatterGoes DEF IInv

LEMMA RemoveAccessCredentialsDoes ==
  ASSUME IInv, RemoveAccessCredentials
  PROVE  /\ op' \in [Threads -> OpSet] /\ A' = A
         /\ UNCHANGED <<key, issuer, evict, up, doc, torn, vi, kp, prov, owned, sMutex, faults, upset>>
         /\ M.at = "ciLoop" /\ M'.ci = M.ci /\ M'.skip = M.skip
         /\ \/ /\ M'.at = "ciEnd" /\ M'.then = M.then
               /\ \A s \in AdSlots \ M.skip : key[s] # NoKey /\ doc[s] # NoDoc => doc[s].ci # M.ci
            \/ M'.at = "rmKey" /\ M'.then = "ciLoop" /\ M'.slot \in AdSlots /\ key[M'.slot] # NoKey
<1> DEFINE Docs == DocsOf(M.ci) \ M.skip
<1>1. /\ M.at = "ciLoop"
      /\ UNCHANGED <<key, issuer, evict, up, doc, torn, vi, kp, prov, owned, sMutex, faults, upset>>
      /\ \/ Docs = {} /\ Go("matter", "ciEnd", M)
         \/ Docs # {} /\ Remove("matter", Lowest(Docs), "ciLoop", M)
  BY DEF RemoveAccessCredentials, At, M, ram, store, nvs, NoFault
<1>2. M \in OpSet
  BY OpFields DEF IInv
<1>3. CASE Docs = {} /\ Go("matter", "ciEnd", M)
  <2>1. \A s \in AdSlots \ M.skip : key[s] # NoKey /\ doc[s] # NoDoc => doc[s].ci # M.ci
    BY <1>3 DEF DocsOf, AdKeys
  <2> QED
    BY <1>1, <1>2, <1>3, <2>1, MatterGoes DEF IInv, MatterSteps
<1>4. CASE Docs # {} /\ Remove("matter", Lowest(Docs), "ciLoop", M)
  <2>1. Docs \subseteq Nat
    BY SlotFacts DEF DocsOf, AdKeys
  <2>2. Lowest(Docs) \in Docs
    <3> HIDE DEF Docs
    <3> QED
      BY <1>4, <2>1, LowestIn
  <2>3. Lowest(Docs) \in AdSlots /\ key[Lowest(Docs)] # NoKey
    BY <2>2 DEF DocsOf, AdKeys
  <2> HIDE DEF Docs
  <2> QED
    BY <1>1, <1>2, <1>4, <2>3, SlotFacts, MatterRemoves DEF IInv, Callers
<1> QED
  BY <1>1, <1>3, <1>4

LEMMA MatterPassOverDoes ==
  ASSUME IInv, PassOver("matter")
  PROVE  /\ op' \in [Threads -> OpSet] /\ A' = A
         /\ UNCHANGED <<key, issuer, evict, up, vi, kp, prov, owned, sMutex>>
         /\ M.at = "ciLoop" /\ A.at # "counter" /\ (\E s \in AdSlots : ReadLost(s))
         /\ M'.at = M.at /\ M'.slot = M.slot /\ M'.then = M.then
         /\ M'.doc = M.doc /\ M'.key = M.key /\ M'.ci = M.ci /\ M'.cur = M.cur /\ M'.new = M.new
         /\ M'.skip = M.skip \/ Fault("read")
<1>1. /\ M.at = "ciLoop" /\ A.at # "counter"
      /\ UNCHANGED <<key, issuer, evict, up, vi, kp, prov, owned, sMutex>>
      /\ \E s \in AdSlots :
            /\ ReadFails(s)
            /\ op' = IF faults' = faults THEN op ELSE [op EXCEPT !["matter"].skip = @ \cup {s}]
  BY DEF PassOver, NvsFree, At, A, M, ram, AdKeys
<1>2. PICK s \in AdSlots :
            /\ ReadFails(s)
            /\ op' = IF faults' = faults THEN op ELSE [op EXCEPT !["matter"].skip = @ \cup {s}]
  BY <1>1
<1>3. ReadLost(s)
  BY <1>2, ReadFailsDoes
<1>4. faults' = faults \/ Fault("read")
  BY <1>2 DEF ReadFails, NoFault
<1>5. M \in OpSet /\ op \in [Threads -> OpSet]
  BY OpFields DEF IInv
<1>6. CASE faults' = faults
  BY <1>1, <1>2, <1>3, <1>5, <1>6 DEF A, M
<1>7. CASE faults' # faults
  <2> DEFINE p == [M EXCEPT !.skip = @ \cup {s}]
  <2>1. op' = [op EXCEPT !["matter"] = p] /\ "aliro" \in Threads /\ "matter" \in Threads
    BY <1>2, <1>5, <1>7 DEF M, Threads
  <2>2. /\ p \in OpSet /\ p.at = M.at /\ p.slot = M.slot /\ p.then = M.then
        /\ p.doc = M.doc /\ p.key = M.key /\ p.ci = M.ci /\ p.cur = M.cur /\ p.new = M.new
    BY <1>5, SkipFields
  <2> HIDE DEF p
  <2>3. op' \in [Threads -> OpSet] /\ M' = p /\ A' = A
    BY <1>5, <2>1, <2>2, Moves DEF A, M
  <2> QED
    BY <1>1, <1>3, <1>4, <1>7, <2>2, <2>3
<1> QED
  BY <1>6, <1>7

LEMMA ClearValidityIterationsDoes ==
  ASSUME IInv, ClearValidityIterations
  PROVE  /\ op' \in [Threads -> OpSet] /\ A' = A
         /\ UNCHANGED <<key, issuer, evict, up, doc, torn, kp, prov, owned, sMutex>>
         /\ M.at = "ciEnd" /\ M'.at = "commit" /\ M'.ci = M.ci /\ M'.then = M.then
         /\ M'.skip = M.skip
         /\ \/ vi' = [vi EXCEPT ![M.ci] = 0] /\ UNCHANGED <<faults, upset>>
            \/ vi' = vi /\ Fault("iteration")
<1>1. /\ M.at = "ciEnd" /\ Go("matter", "commit", M)
      /\ UNCHANGED <<key, issuer, evict, up, doc, torn, kp, prov, owned, sMutex>>
      /\ \/ vi' = [vi EXCEPT ![M.ci] = 0] /\ UNCHANGED <<faults, upset>>
         \/ vi' = vi /\ Fault("iteration")
  BY DEF ClearValidityIterations, At, M, ram, nvs, NoFault
<1> QED
  BY <1>1, OpFields, MatterGoes DEF IInv, MatterSteps

LEMMA CommitDoes ==
  ASSUME IInv, Commit
  PROVE  /\ op' \in [Threads -> OpSet] /\ A' = A
         /\ UNCHANGED <<key, issuer, evict, up, doc, torn, vi, kp, sMutex, faults, upset>>
         /\ M.at = "commit" /\ M'.at = "idle" /\ M'.then = "none" /\ M'.skip = {}
         /\ \/ M.ci # 0 /\ owned' = [owned EXCEPT ![M.ci] = "zero"] /\ UNCHANGED prov
            \/ M.ci = 0 /\ prov' = [prov EXCEPT ![M.slot] = ZeroKey] /\ UNCHANGED owned
<1>1. /\ M.at = "commit" /\ Go("matter", "idle", NoOp)
      /\ UNCHANGED <<key, issuer, evict, up, doc, torn, vi, kp, sMutex, faults, upset>>
      /\ \/ M.ci # 0 /\ owned' = [owned EXCEPT ![M.ci] = "zero"] /\ UNCHANGED prov
         \/ M.ci = 0 /\ prov' = [prov EXCEPT ![M.slot] = ZeroKey] /\ UNCHANGED owned
  BY DEF Commit, At, M, ram, nvs, NoFault
<1> QED
  BY <1>1, NoOpFields, MatterGoes DEF IInv, MatterSteps

-----------------------------------------------------------------------------
(* What a removal does, for either thread, and a reset.                       *)

(* The Aliro thread returns from a removal to its caller; it gives sMutex     *)
(* back at the end.                                                           *)
LEMMA AliroReturns ==
  ASSUME op \in [Threads -> OpSet], NEW at \in AliroSteps, Return("aliro", at)
  PROVE  /\ op' \in [Threads -> OpSet] /\ M' = M /\ A'.at = at
         /\ sMutex' = IF at = "idle" THEN sMutex \ {"aliro"} ELSE sMutex
         /\ at = "idle" => A'.then = "none" /\ A'.skip = {}
         /\ at # "idle" =>
               /\ A'.slot = A.slot /\ A'.then = A.then
               /\ A'.doc = A.doc /\ A'.key = A.key /\ A'.ci = A.ci /\ A'.cur = A.cur /\ A'.new = A.new /\ A'.skip = A.skip
<1>1. op' = [op EXCEPT !["aliro"] = IF at = "idle" THEN NoOp ELSE [A EXCEPT !.at = at]]
  BY DEF Return, A, Threads
<1>2. A \in OpSet /\ "aliro" \in Threads /\ "matter" \in Threads /\ "aliro" # "matter"
  BY OpFields DEF Threads
<1>3. [A EXCEPT !.at = at] \in OpSet
  BY <1>2, StepFields
<1>4. /\ op' \in [Threads -> OpSet] /\ M' = M
      /\ A' = IF at = "idle" THEN NoOp ELSE [A EXCEPT !.at = at]
  BY <1>1, <1>2, <1>3, NoOpFields, Moves DEF A, M
<1>5. sMutex' = IF at = "idle" THEN sMutex \ {"aliro"} ELSE sMutex
  BY DEF Return
<1>6. CASE at = "idle"
  BY <1>4, <1>5, <1>6, NoOpFields
<1>7. CASE at # "idle"
  BY <1>2, <1>4, <1>5, <1>7, StepFields
<1> QED
  BY <1>6, <1>7

(* Likewise the Matter thread, which has no sMutex.                           *)
LEMMA MatterReturns ==
  ASSUME op \in [Threads -> OpSet], NEW at \in MatterSteps, at # "idle", Return("matter", at)
  PROVE  /\ op' \in [Threads -> OpSet] /\ A' = A /\ UNCHANGED sMutex /\ M'.at = at
         /\ M'.slot = M.slot /\ M'.then = M.then
         /\ M'.doc = M.doc /\ M'.key = M.key /\ M'.ci = M.ci /\ M'.cur = M.cur /\ M'.new = M.new /\ M'.skip = M.skip
<1>1. op' = [op EXCEPT !["matter"] = [M EXCEPT !.at = at]] /\ UNCHANGED sMutex
  BY DEF Return, M, Threads
<1>2. M \in OpSet /\ "aliro" \in Threads /\ "matter" \in Threads /\ "aliro" # "matter"
  BY OpFields DEF Threads
<1>3. [M EXCEPT !.at = at] \in OpSet
  BY <1>2, StepFields
<1>4. op' \in [Threads -> OpSet] /\ A' = A /\ M' = [M EXCEPT !.at = at]
  BY <1>1, <1>2, <1>3, Moves DEF A, M
<1> QED
  BY <1>1, <1>2, <1>4, StepFields

LEMMA AliroRemoveKeyDoes ==
  ASSUME IInv, RemoveKey("aliro")
  PROVE  /\ op' \in [Threads -> OpSet] /\ M' = M
         /\ UNCHANGED <<issuer, evict, up, doc, torn, vi, kp, prov, owned, faults, upset>>
         /\ A.at = "rmKey"
         /\ \/ /\ key[A.slot] = NoKey /\ UNCHANGED key /\ A'.at = "idle" /\ A'.then = "none"
               /\ A'.skip = {}
               /\ sMutex' = sMutex \ {"aliro"}
            \/ /\ key[A.slot] # NoKey /\ key' = [key EXCEPT ![A.slot] = NoKey] /\ UNCHANGED sMutex
               /\ A'.at = "rmDoc"
               /\ A'.slot = A.slot /\ A'.then = A.then
               /\ A'.doc = A.doc /\ A'.key = A.key /\ A'.ci = A.ci /\ A'.cur = A.cur /\ A'.new = A.new /\ A'.skip = A.skip
<1>1. /\ A.at = "rmKey" /\ UNCHANGED <<issuer, evict, up, doc, torn, vi, kp, prov, owned, faults, upset>>
      /\ \/ key[A.slot] = NoKey /\ UNCHANGED key /\ Return("aliro", OnError(A.then))
         \/ /\ key[A.slot] # NoKey /\ key' = [key EXCEPT ![A.slot] = NoKey]
            /\ Return("aliro", IF A.slot \in AcSlots THEN "rmKp" ELSE "rmDoc")
  BY DEF RemoveKey, At, A, store, nvs, NoFault
<1>2. A.slot \in AdSlots /\ A.slot \notin AcSlots /\ OnError(A.then) = "idle"
  BY <1>1, SlotFacts DEF IInv, AliroInv, RemoveSteps, OnError
<1>3. "rmDoc" \in AliroSteps /\ "idle" \in AliroSteps
  BY DEF AliroSteps
<1> QED
  BY <1>1, <1>2, <1>3, AliroReturns DEF IInv

LEMMA MatterRemoveKeyDoes ==
  ASSUME IInv, RemoveKey("matter")
  PROVE  /\ op' \in [Threads -> OpSet] /\ A' = A
         /\ UNCHANGED <<issuer, evict, up, doc, torn, vi, kp, prov, owned, sMutex, faults, upset>>
         /\ M.at = "rmKey" /\ sMutex = {}
         /\ \/ /\ key[M.slot] = NoKey /\ UNCHANGED key
               /\ M'.at = IF M.then = "ciLoop" THEN "ciEnd" ELSE "commit"
            \/ /\ key[M.slot] # NoKey /\ key' = [key EXCEPT ![M.slot] = NoKey]
               /\ M'.at = IF M.slot \in AcSlots THEN "rmKp" ELSE "rmDoc"
         /\ M'.slot = M.slot /\ M'.then = M.then
         /\ M'.doc = M.doc /\ M'.key = M.key /\ M'.ci = M.ci /\ M'.cur = M.cur /\ M'.new = M.new /\ M'.skip = M.skip
<1>1. /\ M.at = "rmKey" /\ UNCHANGED <<issuer, evict, up, doc, torn, vi, kp, prov, owned, faults, upset>>
      /\ \/ key[M.slot] = NoKey /\ UNCHANGED key /\ Return("matter", OnError(M.then))
         \/ /\ key[M.slot] # NoKey /\ key' = [key EXCEPT ![M.slot] = NoKey]
            /\ Return("matter", IF M.slot \in AcSlots THEN "rmKp" ELSE "rmDoc")
  BY DEF RemoveKey, At, M, store, nvs, NoFault
<1>2. OnError(M.then) = IF M.then = "ciLoop" THEN "ciEnd" ELSE "commit"
  BY <1>1 DEF IInv, MatterInv, RemoveSteps, OnError
<1>3. /\ "rmDoc" \in MatterSteps /\ "rmKp" \in MatterSteps /\ "ciEnd" \in MatterSteps
      /\ "commit" \in MatterSteps
  BY DEF MatterSteps
<1>4. sMutex = {}
  BY DEF IInv, AliroInv, RemoveKey, MutexFree
<1> QED
  BY <1>1, <1>2, <1>3, <1>4, MatterReturns DEF IInv

LEMMA AliroClearDocumentDoes ==
  ASSUME IInv, ClearAccessDocument("aliro")
  PROVE  /\ op' \in [Threads -> OpSet] /\ M' = M
         /\ UNCHANGED <<key, issuer, vi, kp, prov, owned, up>>
         /\ A.at = "rmDoc" /\ M.at = "idle" /\ torn' \in {torn, torn \ {A.slot}}
         /\ \/ /\ doc' = [doc EXCEPT ![A.slot] = NoDoc] /\ evict' = [evict EXCEPT ![A.slot] = NoKey]
               /\ A'.at = "rmKp" /\ UNCHANGED <<sMutex, faults, upset>>
               /\ A'.slot = A.slot /\ A'.then = A.then
               /\ A'.doc = A.doc /\ A'.key = A.key /\ A'.ci = A.ci /\ A'.cur = A.cur /\ A'.new = A.new /\ A'.skip = A.skip
            \/ /\ Fault("delete") /\ UNCHANGED evict /\ (doc' = doc \/ doc' = [doc EXCEPT ![A.slot] = NoDoc])
               /\ A'.at = "idle" /\ A'.then = "none" /\ A'.skip = {} /\ sMutex' = sMutex \ {"aliro"}
<1>1. /\ A.at = "rmDoc" /\ M.at = "idle" /\ torn' \in {torn, torn \ {A.slot}}
      /\ UNCHANGED <<key, issuer, vi, kp, prov, owned, up>>
      /\ \/ /\ doc' = [doc EXCEPT ![A.slot] = NoDoc] /\ evict' = [evict EXCEPT ![A.slot] = NoKey]
            /\ Return("aliro", "rmKp") /\ UNCHANGED <<faults, upset>>
         \/ /\ Fault("delete") /\ UNCHANGED evict /\ (doc' = doc \/ doc' = [doc EXCEPT ![A.slot] = NoDoc])
            /\ Return("aliro", OnError(A.then))
  BY DEF ClearAccessDocument, NvsFree, At, Idle, StackFree, A, M, NoFault, Erase, nvs
<1>2. OnError(A.then) = "idle"
  BY <1>1 DEF IInv, AliroInv, RemoveSteps, OnError
<1>3. "rmKp" \in AliroSteps /\ "idle" \in AliroSteps
  BY DEF AliroSteps
<1> QED
  BY <1>1, <1>2, <1>3, AliroReturns DEF IInv

LEMMA MatterClearDocumentDoes ==
  ASSUME IInv, ClearAccessDocument("matter")
  PROVE  /\ op' \in [Threads -> OpSet] /\ A' = A
         /\ UNCHANGED <<key, issuer, vi, kp, prov, owned, up, sMutex>>
         /\ M.at = "rmDoc" /\ A.at # "counter" /\ torn' \in {torn, torn \ {M.slot}}
         /\ \/ /\ doc' = [doc EXCEPT ![M.slot] = NoDoc] /\ evict' = [evict EXCEPT ![M.slot] = NoKey]
               /\ M'.at = "rmKp" /\ UNCHANGED <<faults, upset>>
            \/ /\ Fault("delete") /\ UNCHANGED evict /\ (doc' = doc \/ doc' = [doc EXCEPT ![M.slot] = NoDoc])
               /\ M'.at = IF M.then = "ciLoop" THEN "ciEnd" ELSE "commit"
         /\ M'.slot = M.slot /\ M'.then = M.then
         /\ M'.doc = M.doc /\ M'.key = M.key /\ M'.ci = M.ci /\ M'.cur = M.cur /\ M'.new = M.new /\ M'.skip = M.skip
<1>1. /\ M.at = "rmDoc" /\ A.at # "counter" /\ torn' \in {torn, torn \ {M.slot}}
      /\ UNCHANGED <<key, issuer, vi, kp, prov, owned, up>>
      /\ \/ /\ doc' = [doc EXCEPT ![M.slot] = NoDoc] /\ evict' = [evict EXCEPT ![M.slot] = NoKey]
            /\ Return("matter", "rmKp") /\ UNCHANGED <<faults, upset>>
         \/ /\ Fault("delete") /\ UNCHANGED evict /\ (doc' = doc \/ doc' = [doc EXCEPT ![M.slot] = NoDoc])
            /\ Return("matter", OnError(M.then))
  BY DEF ClearAccessDocument, NvsFree, StackFree, At, A, M, NoFault, Erase, nvs
<1>2. OnError(M.then) = IF M.then = "ciLoop" THEN "ciEnd" ELSE "commit"
  BY <1>1 DEF IInv, MatterInv, RemoveSteps, OnError
<1>3. "rmKp" \in MatterSteps /\ "ciEnd" \in MatterSteps /\ "commit" \in MatterSteps
  BY DEF MatterSteps
<1> QED
  BY <1>1, <1>2, <1>3, MatterReturns DEF IInv

LEMMA AliroRemoveKpersistentDoes ==
  ASSUME IInv, RemoveKpersistent("aliro")
  PROVE  /\ op' \in [Threads -> OpSet] /\ M' = M
         /\ UNCHANGED <<key, issuer, evict, up, doc, torn, vi, prov, owned>>
         /\ A.at = "rmKp"
         /\ \/ kp' = [kp EXCEPT ![A.slot] = NoKey] /\ UNCHANGED <<faults, upset>>
            \/ UNCHANGED kp /\ Fault("kp")
         /\ \/ /\ A.then = "idle" /\ A'.at = "idle" /\ A'.then = "none" /\ A'.skip = {}
               /\ sMutex' = sMutex \ {"aliro"}
            \/ /\ A.then \in {"iterate", "write"} /\ A'.at = A.then /\ UNCHANGED sMutex
               /\ A'.slot = A.slot /\ A'.then = A.then
               /\ A'.doc = A.doc /\ A'.key = A.key /\ A'.ci = A.ci /\ A'.cur = A.cur /\ A'.new = A.new /\ A'.skip = A.skip
<1>1. /\ A.at = "rmKp" /\ UNCHANGED <<key, issuer, evict, up, doc, torn, vi, prov, owned>>
      /\ Return("aliro", A.then)
      /\ \/ kp' = [kp EXCEPT ![A.slot] = NoKey] /\ UNCHANGED <<faults, upset>>
         \/ UNCHANGED kp /\ Fault("kp")
  BY DEF RemoveKpersistent, At, A, ram, nvs, NoFault
<1>2. A.then \in {"iterate", "write", "idle"} /\ A.then \in AliroSteps
  BY <1>1 DEF IInv, AliroInv, RemoveSteps, AliroSteps
<1> QED
  BY <1>1, <1>2, AliroReturns DEF IInv

LEMMA MatterRemoveKpersistentDoes ==
  ASSUME IInv, RemoveKpersistent("matter")
  PROVE  /\ op' \in [Threads -> OpSet] /\ A' = A
         /\ UNCHANGED <<key, issuer, evict, up, doc, torn, vi, prov, owned, sMutex>>
         /\ M.at = "rmKp" /\ M'.at = M.then
         /\ \/ kp' = [kp EXCEPT ![M.slot] = NoKey] /\ UNCHANGED <<faults, upset>>
            \/ UNCHANGED kp /\ Fault("kp")
         /\ M'.slot = M.slot /\ M'.then = M.then
         /\ M'.doc = M.doc /\ M'.key = M.key /\ M'.ci = M.ci /\ M'.cur = M.cur /\ M'.new = M.new /\ M'.skip = M.skip
<1>1. /\ M.at = "rmKp" /\ UNCHANGED <<key, issuer, evict, up, doc, torn, vi, prov, owned>>
      /\ Return("matter", M.then)
      /\ \/ kp' = [kp EXCEPT ![M.slot] = NoKey] /\ UNCHANGED <<faults, upset>>
         \/ UNCHANGED kp /\ Fault("kp")
  BY DEF RemoveKpersistent, At, M, ram, nvs, NoFault
<1>2. M.then \in MatterSteps /\ M.then # "idle"
  BY <1>1 DEF IInv, MatterInv, RemoveSteps, MatterSteps
<1> QED
  BY <1>1, <1>2, MatterReturns DEF IInv

LEMMA ResetDoes ==
  ASSUME IInv, Reset
  PROVE  /\ op' \in [Threads -> OpSet] /\ UNCHANGED <<vi, kp, prov, owned>>
         /\ A'.at = "idle" /\ A'.then = "none" /\ M'.at = "idle" /\ M'.then = "none"
         /\ A'.skip = {} /\ M'.skip = {}
         /\ sMutex' = {} /\ issuer' = owned
         /\ faults' \in 0..MaxFaults
         /\ upset \subseteq upset' /\ upset' \subseteq upset \cup {"cut", "torn", "read", "zero"}
         /\ (A.at = "rmKp" /\ A.slot \in AdSlots) \/ (M.at = "rmKp" /\ M.slot \in AdSlots) => "cut" \in upset'
         /\ A.at = "counter" => "torn" \in upset'
         /\ (\E s \in AdSlots : prov[s] = ZeroKey) => "zero" \in upset'
         /\ doc' \in [AdSlots -> DocumentSet \cup {NoDoc}] /\ torn' \subseteq torn
         /\ \A s \in AdSlots : doc'[s] = doc[s] \/ doc'[s] = NoDoc
         /\ "read" \notin upset' => doc' = doc
         /\ "read" \notin upset' /\ (\A s \in AdSlots : doc[s] # NoDoc => owned[doc[s].ci] = "key") =>
               /\ up' = (torn = {})
               /\ torn' = torn \ {s \in torn : \A r \in torn : s <= r}
         /\ up' => doc' = doc
         /\ \A s \in AcSlots : key'[s] = prov[s]
         /\ \A s \in AdSlots : key'[s] = prov[s] \/ (doc'[s] # NoDoc /\ prov[s] = NoKey /\ key'[s] = doc'[s].key)
         /\ up' => \A s \in AdSlots :
                /\ evict'[s] = IF doc[s] = NoDoc THEN NoKey ELSE doc[s].key
                /\ doc[s] # NoDoc /\ prov[s] = NoKey => key'[s] = doc[s].key
         /\ key' \in [Slots -> Keys \cup {NoKey, ZeroKey}] /\ evict' \in [AdSlots -> Keys \cup {NoKey}]
<1> DEFINE Orphan == {s \in AdSlots : doc[s] # NoDoc /\ owned[doc[s].ci] # "key"}
           Stops(unread)  == Orphan \cup torn \cup unread
           First(unread)  == {s \in Stops(unread) : \A r \in Stops(unread) : s <= r}
           Loaded(unread) == {s \in AdSlots \ unread : doc[s] # NoDoc /\ \A r \in Stops(unread) : s <= r}
<1>1. PICK unread \in {{}} \cup {{s} : s \in AdSlots} :
      /\ up' = (Stops(unread) = {})
      /\ key' = [s \in Slots |-> IF s \in Loaded(unread) /\ prov[s] = NoKey THEN doc[s].key ELSE prov[s]]
      /\ evict' = [s \in AdSlots |-> IF s \in Loaded(unread) \ Orphan THEN doc[s].key ELSE NoKey]
      /\ issuer' = owned /\ sMutex' = {} /\ op' = [t \in Threads |-> NoOp]
      /\ unread \subseteq First(unread)
      /\ \/ unread # {} /\ UNCHANGED nvs
         \/ /\ doc' = [s \in AdSlots |-> IF s \in unread THEN NoDoc ELSE doc[s]]
            /\ torn' = torn \ First(unread)
      /\ IF unread = {} THEN UNCHANGED faults ELSE faults < MaxFaults /\ faults' = faults + 1
      /\ upset' = upset \cup
             (IF \E t \in Threads : At(t, "rmKp") /\ op[t].slot \in AdSlots THEN {"cut"} ELSE {})
             \cup (IF At("aliro", "counter") THEN {"torn"} ELSE {})
             \cup (IF unread # {} THEN {"read"} ELSE {})
             \cup (IF \E s \in AdSlots : prov[s] = ZeroKey THEN {"zero"} ELSE {})
      /\ UNCHANGED <<vi, kp, prov, owned>>
  BY Zenon DEF Reset
<1> DEFINE S == Stops(unread)
           F == First(unread)
           L == Loaded(unread)
<1>2. /\ op' \in [Threads -> OpSet]
      /\ A'.at = "idle" /\ A'.then = "none" /\ M'.at = "idle" /\ M'.then = "none"
      /\ A'.skip = {} /\ M'.skip = {}
  BY <1>1, NoOpFields DEF A, M, Threads
<1>3. /\ upset \subseteq upset' /\ upset' \subseteq upset \cup {"cut", "torn", "read", "zero"}
      /\ (A.at = "rmKp" /\ A.slot \in AdSlots) \/ (M.at = "rmKp" /\ M.slot \in AdSlots) => "cut" \in upset'
      /\ A.at = "counter" => "torn" \in upset'
      /\ (\E s \in AdSlots : prov[s] = ZeroKey) => "zero" \in upset'
      /\ "read" \notin upset' => unread = {}
  <2> HIDE DEF Stops, First, Loaded
  <2> QED
    BY <1>1 DEF At, A, M, Threads
<1>4. /\ doc \in [AdSlots -> DocumentSet \cup {NoDoc}] /\ torn \subseteq AdSlots
      /\ \A s \in Slots : prov[s] \in Keys \cup {NoKey, ZeroKey}
      /\ faults \in 0..MaxFaults /\ MaxFaults \in Nat
  BY BoundsAssumption DEF IInv, TypeOK
<1>5. L \subseteq AdSlots /\ \A s \in L : doc[s] # NoDoc /\ doc[s].key \in Keys
  BY <1>4, DocumentFields
<1>6. faults' \in 0..MaxFaults
  <2> HIDE DEF Stops, First, Loaded
  <2> QED
    BY <1>1, <1>4
<1>7. /\ doc' \in [AdSlots -> DocumentSet \cup {NoDoc}] /\ torn' \subseteq torn
      /\ \A s \in AdSlots : doc'[s] = doc[s] \/ (doc'[s] = NoDoc /\ s \in unread)
      /\ unread = {} => doc' = doc /\ torn' = torn \ F
  <2> HIDE DEF Stops, First, Loaded
  <2>1. CASE UNCHANGED nvs /\ unread # {}
    BY <1>4, <2>1 DEF nvs
  <2>2. CASE /\ doc' = [s \in AdSlots |-> IF s \in unread THEN NoDoc ELSE doc[s]]
             /\ torn' = torn \ First(unread)
    BY <1>4, <2>2
  <2> QED
    BY <1>1, <2>1, <2>2
<1>8. up' => Orphan = {} /\ torn = {} /\ unread = {} /\ L = {s \in AdSlots : doc[s] # NoDoc}
  BY <1>1
<1>9. "read" \notin upset' /\ (\A s \in AdSlots : doc[s] # NoDoc => owned[doc[s].ci] = "key") =>
          /\ up' = (torn = {})
          /\ torn' = torn \ {s \in torn : \A r \in torn : s <= r}
  <2> SUFFICES ASSUME unread = {}, Orphan = {}
               PROVE  up' = (torn = {}) /\ torn' = torn \ {s \in torn : \A r \in torn : s <= r}
    BY <1>3
  <2>1. S = torn
    OBVIOUS
  <2>2. F = {s \in torn : \A r \in torn : s <= r}
    BY <2>1
  <2> QED
    BY <1>1, <1>7, <2>1, <2>2
<1>10. /\ \A s \in AcSlots : key'[s] = prov[s]
       /\ \A s \in AdSlots : key'[s] = prov[s] \/ (doc'[s] # NoDoc /\ prov[s] = NoKey /\ key'[s] = doc'[s].key)
  <2>1. \A s \in L : s \in AdSlots /\ s \notin unread /\ doc[s] # NoDoc
    OBVIOUS
  <2>2. key' = [s \in Slots |-> IF s \in L /\ prov[s] = NoKey THEN doc[s].key ELSE prov[s]]
    BY <1>1
  <2> HIDE DEF L
  <2> QED
    BY <1>7, <2>1, <2>2, SlotFacts
<1>11. up' => \A s \in AdSlots :
          /\ evict'[s] = IF doc[s] = NoDoc THEN NoKey ELSE doc[s].key
          /\ doc[s] # NoDoc /\ prov[s] = NoKey => key'[s] = doc[s].key
  <2>1. /\ key' = [s \in Slots |-> IF s \in L /\ prov[s] = NoKey THEN doc[s].key ELSE prov[s]]
        /\ evict' = [s \in AdSlots |-> IF s \in L \ Orphan THEN doc[s].key ELSE NoKey]
    BY <1>1
  <2> HIDE DEF Orphan, L
  <2>2. ASSUME up', NEW s \in AdSlots
        PROVE  /\ evict'[s] = IF doc[s] = NoDoc THEN NoKey ELSE doc[s].key
               /\ doc[s] # NoDoc /\ prov[s] = NoKey => key'[s] = doc[s].key
    BY <1>8, <2>1, <2>2, SlotFacts
  <2> QED
    BY <2>2
<1>12. key' \in [Slots -> Keys \cup {NoKey, ZeroKey}] /\ evict' \in [AdSlots -> Keys \cup {NoKey}]
  <2>1. /\ key' = [s \in Slots |-> IF s \in L /\ prov[s] = NoKey THEN doc[s].key ELSE prov[s]]
        /\ evict' = [s \in AdSlots |-> IF s \in L \ Orphan THEN doc[s].key ELSE NoKey]
    BY <1>1
  <2> HIDE DEF Orphan, L
  <2> QED
    BY <1>4, <1>5, <2>1
<1>13. issuer' = owned /\ sMutex' = {} /\ UNCHANGED <<vi, kp, prov, owned>>
  BY <1>1
<1> HIDE DEF Orphan, Stops, First, Loaded, S, F, L
<1> QED
  BY <1>2, <1>3, <1>6, <1>7, <1>8, <1>9, <1>10, <1>11, <1>12, <1>13

-----------------------------------------------------------------------------
(* The steps, each with its arguments.                                        *)
LEMMA Steps ==
  ASSUME IInv, [Next]_vars
  PROVE  \/ UNCHANGED vars
         \/ \E d \in DocumentSet : StartDocument(d)
         \/ \E s \in AdSlots : ReadAccessDocument(s)
         \/ PassOver("aliro")
         \/ RemoveOldCredentials
         \/ StoreValidityIterations
         \/ RejectDocument
         \/ ChooseSlot
         \/ RemoveOldestCredential
         \/ UpdateEvictable
         \/ WriteEntry
         \/ WriteCounter
         \/ RemoveEvictable
         \/ \E k \in Keys \cup {ZeroKey}, fast \in BOOLEAN : (fast \/ k \in Keys) /\ VerifyPublicKey(k, fast)
         \/ DestroyOldKpersistent
         \/ PreserveKey
         \/ \E s \in AcSlots, k \in Keys : SetAccessCredential(s, k)
         \/ \E i \in Issuers : SetCredentialIssuer(i)
         \/ AddPublicKey
         \/ \E s \in Slots : ClearCredential(s)
         \/ \E i \in Issuers : ClearCredentialIssuer(i)
         \/ RemoveIssuerKey
         \/ PassOver("matter")
         \/ RemoveAccessCredentials
         \/ ClearValidityIterations
         \/ Commit
         \/ Reset
         \/ RemoveKey("aliro")
         \/ RemoveKey("matter")
         \/ ClearAccessDocument("aliro")
         \/ ClearAccessDocument("matter")
         \/ RemoveKpersistent("aliro")
         \/ RemoveKpersistent("matter")
<1>1. ASSUME NEW s \in Slots, VerifyKPersistentKey(s)
      PROVE  \E k \in Keys \cup {ZeroKey}, fast \in BOOLEAN : (fast \/ k \in Keys) /\ VerifyPublicKey(k, fast)
  <2>1. key[s] \in Keys \cup {ZeroKey} /\ VerifyPublicKey(key[s], TRUE)
    BY <1>1 DEF VerifyKPersistentKey, IInv, TypeOK
  <2> QED
    BY <2>1
<1>2. ASSUME NEW k \in Keys, VerifyAccessCredential(k)
      PROVE  \E j \in Keys \cup {ZeroKey}, fast \in BOOLEAN : (fast \/ j \in Keys) /\ VerifyPublicKey(j, fast)
  BY <1>2 DEF VerifyAccessCredential
<1>3. CASE Aliro
  BY Zenon, <1>1, <1>2, <1>3 DEF Aliro
<1>4. CASE Matter
  BY Zenon, <1>4 DEF Matter
<1>5. ASSUME NEW t \in Threads, RemoveKey(t) \/ ClearAccessDocument(t) \/ RemoveKpersistent(t) \/ PassOver(t)
      PROVE  \/ RemoveKey("aliro") \/ ClearAccessDocument("aliro") \/ RemoveKpersistent("aliro")
             \/ RemoveKey("matter") \/ ClearAccessDocument("matter") \/ RemoveKpersistent("matter")
             \/ PassOver("aliro") \/ PassOver("matter")
  BY <1>5 DEF Threads
<1> QED
  BY Zenon, <1>3, <1>4, <1>5 DEF Next

(* A failure stays on record.                                                 *)
LEMMA UpsetGrows ==
  ASSUME IInv, [Next]_vars
  PROVE  upset \subseteq upset'
<1>1. ASSUME NEW d \in DocumentSet, StartDocument(d)
      PROVE  upset \subseteq upset'
  BY <1>1, StartDocumentDoes DEF Fault
<1>2. ASSUME NEW s \in AdSlots, ReadAccessDocument(s)
      PROVE  upset \subseteq upset'
  BY <1>2, ReadAccessDocumentDoes DEF Fault, ReadLost
<1>3. CASE PassOver("aliro")
  BY <1>3, AliroPassOverDoes DEF Fault, ReadLost
<1>4. CASE StoreValidityIterations
  BY <1>4, StoreValidityIterationsDoes DEF Fault
<1>5. CASE RemoveOldestCredential
  BY <1>5, RemoveOldestCredentialDoes DEF Fault, ReadLost
<1>6. CASE WriteEntry
  BY <1>6, WriteEntryDoes DEF Fault, WriteLost
<1>7. CASE WriteCounter
  BY <1>7, WriteCounterDoes DEF Fault, WriteLost
<1>8. ASSUME NEW k \in Keys \cup {ZeroKey}, NEW fast \in BOOLEAN, fast \/ k \in Keys,
              VerifyPublicKey(k, fast)
      PROVE  upset \subseteq upset'
  BY <1>8, VerifyPublicKeyDoes DEF Fault
<1>9. CASE DestroyOldKpersistent
  BY <1>9, DestroyOldKpersistentDoes DEF Fault
<1>10. CASE PreserveKey
  BY <1>10, PreserveKeyDoes DEF Fault
<1>11. ASSUME NEW s \in Slots, ClearCredential(s)
      PROVE  upset \subseteq upset'
  BY <1>11, ClearCredentialDoes DEF Fault
<1>12. ASSUME NEW i \in Issuers, ClearCredentialIssuer(i)
      PROVE  upset \subseteq upset'
  BY <1>12, ClearCredentialIssuerDoes DEF Fault
<1>13. CASE PassOver("matter")
  BY <1>13, MatterPassOverDoes DEF Fault, ReadLost
<1>14. CASE ClearValidityIterations
  BY <1>14, ClearValidityIterationsDoes DEF Fault
<1>15. CASE Reset
  BY <1>15, ResetDoes DEF Fault
<1>16. CASE ClearAccessDocument("aliro")
  BY <1>16, AliroClearDocumentDoes DEF Fault
<1>17. CASE ClearAccessDocument("matter")
  BY <1>17, MatterClearDocumentDoes DEF Fault
<1>18. CASE RemoveKpersistent("aliro")
  BY <1>18, AliroRemoveKpersistentDoes DEF Fault
<1>19. CASE RemoveKpersistent("matter")
  BY <1>19, MatterRemoveKpersistentDoes DEF Fault
<1> QED
  BY Steps, <1>1, <1>2, <1>3, <1>4, <1>5, <1>6, <1>7, <1>8, <1>9, <1>10, <1>11, <1>12, <1>13,
     <1>14, <1>15, <1>16, <1>17, <1>18, <1>19, RemoveOldCredentialsDoes, RejectDocumentDoes,
     ChooseSlotDoes, UpdateEvictableDoes, RemoveEvictableDoes, SetAccessCredentialDoes,
     SetCredentialIssuerDoes, AddPublicKeyDoes, RemoveIssuerKeyDoes,
     RemoveAccessCredentialsDoes, CommitDoes, AliroRemoveKeyDoes, MatterRemoveKeyDoes
     DEF vars

(* The types, in three parts.                                                 *)
KeyTypes ==
    /\ key \in [Slots -> Keys \cup {NoKey, ZeroKey}]
    /\ issuer \in [Issuers -> {"none", "key", "zero"}]
    /\ owned \in [Issuers -> {"none", "key", "zero"}]
    /\ prov \in [Slots -> Keys \cup {NoKey, ZeroKey}]
StoreTypes ==
    /\ doc \in [AdSlots -> DocumentSet \cup {NoDoc}]
    /\ torn \subseteq AdSlots
    /\ vi \in [Issuers -> 0..MaxIter]
    /\ kp \in [Slots -> Keys \cup {NoKey}]
    /\ evict \in [AdSlots -> Keys \cup {NoKey}]
Causes == {"delete", "write", "read", "iteration", "kp", "cut", "torn", "zero", "overlap"}
ControlTypes ==
    /\ up \in BOOLEAN
    /\ sMutex \in {{}, {"aliro"}}
    /\ faults \in 0..MaxFaults
    /\ upset \subseteq Causes

(* TypeOK in three parts, each of which few steps change.                     *)
LEMMA TypeParts == TypeOK <=> KeyTypes /\ StoreTypes /\ ControlTypes
  BY Zenon DEF TypeOK, KeyTypes, StoreTypes, ControlTypes, Causes

LEMMA KeyTypesTouched ==
  ASSUME IInv, [Next]_vars
  PROVE  \/ UNCHANGED <<key, issuer, prov, owned>>
         \/ WriteCounter
         \/ \E s \in AcSlots, k \in Keys : SetAccessCredential(s, k)
         \/ \E i \in Issuers : SetCredentialIssuer(i)
         \/ AddPublicKey
         \/ RemoveIssuerKey
         \/ Commit
         \/ Reset
         \/ RemoveKey("aliro")
         \/ RemoveKey("matter")
<1>1. UNCHANGED vars => UNCHANGED <<key, issuer, prov, owned>>
  BY Zenon DEF vars, ram, store, nvs, A, M
<1> QED
  BY <1>1, Steps, StartDocumentDoes, ReadAccessDocumentDoes, AliroPassOverDoes,
     RemoveOldCredentialsDoes, StoreValidityIterationsDoes, RejectDocumentDoes, ChooseSlotDoes,
     RemoveOldestCredentialDoes, UpdateEvictableDoes, WriteEntryDoes, RemoveEvictableDoes,
     VerifyPublicKeyDoes, DestroyOldKpersistentDoes, PreserveKeyDoes, ClearCredentialDoes,
     ClearCredentialIssuerDoes, MatterPassOverDoes, RemoveAccessCredentialsDoes,
     ClearValidityIterationsDoes, AliroClearDocumentDoes, MatterClearDocumentDoes,
     AliroRemoveKpersistentDoes, MatterRemoveKpersistentDoes

LEMMA KeyTypesStep ==
  ASSUME IInv, [Next]_vars
  PROVE  KeyTypes'
<1>inv. AliroInv /\ MatterInv /\ KeyTypes /\ A.key \in Keys \cup {NoKey} /\
        (\A d \in DocumentSet : d.key \in Keys)
  BY TypeParts, OpFields, DocumentFields DEF IInv, OpSet
<1>1. CASE WriteCounter
  BY <1>1, WriteCounterDoes, <1>inv, SlotFacts
     DEF KeyTypes, AliroInv, MatterInv, Storing, WriteLost
<1>2. ASSUME NEW s \in AcSlots, NEW k \in Keys, SetAccessCredential(s, k)
      PROVE  KeyTypes'
  BY <1>2, SetAccessCredentialDoes, <1>inv, SlotFacts DEF KeyTypes, AliroInv, MatterInv, Storing
<1>3. ASSUME NEW i \in Issuers, SetCredentialIssuer(i)
      PROVE  KeyTypes'
  BY <1>3, SetCredentialIssuerDoes, <1>inv, SlotFacts DEF KeyTypes, AliroInv, MatterInv, Storing
<1>4. CASE AddPublicKey
  BY <1>4, AddPublicKeyDoes, <1>inv, SlotFacts DEF KeyTypes, AliroInv, MatterInv, Storing
<1>5. CASE RemoveIssuerKey
  BY <1>5, RemoveIssuerKeyDoes, <1>inv, SlotFacts DEF KeyTypes, AliroInv, MatterInv, Storing
<1>6. CASE Commit
  BY <1>6, CommitDoes, <1>inv, SlotFacts DEF KeyTypes, AliroInv, MatterInv, Storing
<1>7. CASE Reset
  BY <1>7, ResetDoes, <1>inv, SlotFacts DEF KeyTypes, AliroInv, MatterInv, Storing
<1>8. CASE RemoveKey("aliro")
  BY <1>8, AliroRemoveKeyDoes, <1>inv, SlotFacts DEF KeyTypes, AliroInv, MatterInv, Storing
<1>9. CASE RemoveKey("matter")
  BY <1>9, MatterRemoveKeyDoes, <1>inv, SlotFacts DEF KeyTypes, AliroInv, MatterInv, Storing
<1>10. CASE UNCHANGED <<key, issuer, prov, owned>>
  BY <1>10, <1>inv, SlotFacts DEF KeyTypes, AliroInv, MatterInv, Storing
<1> QED
  BY KeyTypesTouched, <1>1, <1>2, <1>3, <1>4, <1>5, <1>6, <1>7, <1>8, <1>9, <1>10

LEMMA StoreTypesTouched ==
  ASSUME IInv, [Next]_vars
  PROVE  \/ UNCHANGED <<doc, torn, vi, kp, evict>>
         \/ \E s \in AdSlots : ReadAccessDocument(s)
         \/ PassOver("aliro")
         \/ StoreValidityIterations
         \/ RemoveOldestCredential
         \/ UpdateEvictable
         \/ WriteEntry
         \/ WriteCounter
         \/ RemoveEvictable
         \/ DestroyOldKpersistent
         \/ PreserveKey
         \/ PassOver("matter")
         \/ ClearValidityIterations
         \/ Reset
         \/ ClearAccessDocument("aliro")
         \/ ClearAccessDocument("matter")
         \/ RemoveKpersistent("aliro")
         \/ RemoveKpersistent("matter")
<1>1. UNCHANGED vars => UNCHANGED <<doc, torn, vi, kp, evict>>
  BY Zenon DEF vars, ram, store, nvs, A, M
<1> QED
  BY <1>1, Steps, StartDocumentDoes, RemoveOldCredentialsDoes, RejectDocumentDoes,
     ChooseSlotDoes, VerifyPublicKeyDoes, SetAccessCredentialDoes, SetCredentialIssuerDoes,
     AddPublicKeyDoes, ClearCredentialDoes, ClearCredentialIssuerDoes, RemoveIssuerKeyDoes,
     RemoveAccessCredentialsDoes, CommitDoes, AliroRemoveKeyDoes, MatterRemoveKeyDoes

LEMMA StoreTypesStep ==
  ASSUME IInv, [Next]_vars
  PROVE  StoreTypes'
<1>inv. AliroInv /\ MatterInv /\ KeyTypes /\ StoreTypes /\ A.key \in Keys \cup {NoKey} /\
        A.cur \in 0..MaxIter /\ 0 \in 0..MaxIter /\ (\A d \in DocumentSet : d.key \in Keys)
  BY TypeParts, BoundsAssumption, OpFields, DocumentFields DEF IInv, OpSet
<1>1. ASSUME NEW s \in AdSlots, ReadAccessDocument(s)
      PROVE  StoreTypes'
  BY <1>1, ReadAccessDocumentDoes, <1>inv, SlotFacts
     DEF StoreTypes, AliroInv, MatterInv, Iterating, Writing, RemoveSteps, Storing, ReadLost
<1>2. CASE PassOver("aliro")
  BY <1>2, AliroPassOverDoes, <1>inv, SlotFacts
     DEF StoreTypes, AliroInv, MatterInv, Iterating, Writing, RemoveSteps, Storing, ReadLost
<1>3. CASE StoreValidityIterations
  BY <1>3, StoreValidityIterationsDoes, <1>inv, SlotFacts
     DEF StoreTypes, AliroInv, MatterInv, Iterating, Writing, RemoveSteps, Storing
<1>4. CASE RemoveOldestCredential
  BY <1>4, RemoveOldestCredentialDoes, <1>inv, SlotFacts
     DEF StoreTypes, AliroInv, MatterInv, Iterating, Writing, RemoveSteps, Storing, ReadLost
<1>5. CASE UpdateEvictable
  BY <1>5, UpdateEvictableDoes, <1>inv, SlotFacts
     DEF StoreTypes, AliroInv, MatterInv, Iterating, Writing, RemoveSteps, Storing
<1>6. CASE WriteEntry
  BY <1>6, WriteEntryDoes, <1>inv, SlotFacts
     DEF StoreTypes, AliroInv, MatterInv, Iterating, Writing, RemoveSteps, Storing, WriteLost
<1>7. CASE WriteCounter
  BY <1>7, WriteCounterDoes, <1>inv, SlotFacts
     DEF StoreTypes, AliroInv, MatterInv, Iterating, Writing, RemoveSteps, Storing, WriteLost
<1>8. CASE RemoveEvictable
  BY <1>8, RemoveEvictableDoes, <1>inv, SlotFacts
     DEF StoreTypes, AliroInv, MatterInv, Iterating, Writing, RemoveSteps, Storing
<1>9. CASE DestroyOldKpersistent
  BY <1>9, DestroyOldKpersistentDoes, <1>inv, SlotFacts
     DEF StoreTypes, AliroInv, MatterInv, Iterating, Writing, RemoveSteps, Storing
<1>10. CASE PreserveKey
  BY <1>10, PreserveKeyDoes, <1>inv, SlotFacts
     DEF StoreTypes, AliroInv, MatterInv, Iterating, Writing, RemoveSteps, Storing
<1>11. CASE PassOver("matter")
  BY <1>11, MatterPassOverDoes, <1>inv, SlotFacts
     DEF StoreTypes, AliroInv, MatterInv, Iterating, Writing, RemoveSteps, Storing, ReadLost
<1>12. CASE ClearValidityIterations
  BY <1>12, ClearValidityIterationsDoes, <1>inv, SlotFacts
     DEF StoreTypes, AliroInv, MatterInv, Iterating, Writing, RemoveSteps, Storing
<1>13. CASE Reset
  BY <1>13, ResetDoes, <1>inv, SlotFacts
     DEF StoreTypes, AliroInv, MatterInv, Iterating, Writing, RemoveSteps, Storing
<1>14. CASE ClearAccessDocument("aliro")
  BY <1>14, AliroClearDocumentDoes, <1>inv, SlotFacts
     DEF StoreTypes, AliroInv, MatterInv, Iterating, Writing, RemoveSteps, Storing
<1>15. CASE ClearAccessDocument("matter")
  BY <1>15, MatterClearDocumentDoes, <1>inv, SlotFacts
     DEF StoreTypes, AliroInv, MatterInv, Iterating, Writing, RemoveSteps, Storing
<1>16. CASE RemoveKpersistent("aliro")
  BY <1>16, AliroRemoveKpersistentDoes, <1>inv, SlotFacts
     DEF StoreTypes, AliroInv, MatterInv, Iterating, Writing, RemoveSteps, Storing
<1>17. CASE RemoveKpersistent("matter")
  BY <1>17, MatterRemoveKpersistentDoes, <1>inv, SlotFacts
     DEF StoreTypes, AliroInv, MatterInv, Iterating, Writing, RemoveSteps, Storing
<1>18. CASE UNCHANGED <<doc, torn, vi, kp, evict>>
  BY <1>18, <1>inv, SlotFacts
     DEF StoreTypes, AliroInv, MatterInv, Iterating, Writing, RemoveSteps, Storing
<1> QED
  BY StoreTypesTouched, <1>1, <1>2, <1>3, <1>4, <1>5, <1>6, <1>7, <1>8, <1>9, <1>10, <1>11,
     <1>12, <1>13, <1>14, <1>15, <1>16, <1>17, <1>18

LEMMA ControlTypesTouched ==
  ASSUME IInv, [Next]_vars
  PROVE  \/ UNCHANGED <<up, sMutex, faults, upset>>
         \/ \E d \in DocumentSet : StartDocument(d)
         \/ \E s \in AdSlots : ReadAccessDocument(s)
         \/ PassOver("aliro")
         \/ StoreValidityIterations
         \/ ChooseSlot
         \/ RemoveOldestCredential
         \/ UpdateEvictable
         \/ WriteEntry
         \/ WriteCounter
         \/ RemoveEvictable
         \/ \E k \in Keys \cup {ZeroKey}, fast \in BOOLEAN : (fast \/ k \in Keys) /\ VerifyPublicKey(k, fast)
         \/ DestroyOldKpersistent
         \/ PreserveKey
         \/ \E s \in Slots : ClearCredential(s)
         \/ \E i \in Issuers : ClearCredentialIssuer(i)
         \/ PassOver("matter")
         \/ ClearValidityIterations
         \/ Reset
         \/ RemoveKey("aliro")
         \/ ClearAccessDocument("aliro")
         \/ ClearAccessDocument("matter")
         \/ RemoveKpersistent("aliro")
         \/ RemoveKpersistent("matter")
<1>1. UNCHANGED vars => UNCHANGED <<up, sMutex, faults, upset>>
  BY Zenon DEF vars, ram, store, nvs, A, M
<1> QED
  BY <1>1, Steps, RemoveOldCredentialsDoes, RejectDocumentDoes, SetAccessCredentialDoes,
     SetCredentialIssuerDoes, AddPublicKeyDoes, RemoveIssuerKeyDoes,
     RemoveAccessCredentialsDoes, CommitDoes, MatterRemoveKeyDoes

LEMMA ControlTypesStep ==
  ASSUME IInv, [Next]_vars
  PROVE  ControlTypes'
<1>inv. ControlTypes /\ "delete" \in Causes /\ "write" \in Causes /\
        "iteration" \in Causes /\ "kp" \in Causes /\ "cut" \in Causes /\ "read" \in Causes /\ "torn" \in Causes /\
        "zero" \in Causes /\ "overlap" \in Causes
  BY TypeParts DEF IInv, Causes
<1>1. ASSUME NEW d \in DocumentSet, StartDocument(d)
      PROVE  ControlTypes'
  BY <1>1, StartDocumentDoes, <1>inv, BoundsAssumption DEF ControlTypes, Fault
<1>2. ASSUME NEW s \in AdSlots, ReadAccessDocument(s)
      PROVE  ControlTypes'
  BY <1>2, ReadAccessDocumentDoes, <1>inv, BoundsAssumption DEF ControlTypes, Fault, ReadLost
<1>3. CASE PassOver("aliro")
  BY <1>3, AliroPassOverDoes, <1>inv, BoundsAssumption DEF ControlTypes, Fault, ReadLost
<1>4. CASE StoreValidityIterations
  BY <1>4, StoreValidityIterationsDoes, <1>inv, BoundsAssumption DEF ControlTypes, Fault
<1>5. CASE ChooseSlot
  BY <1>5, ChooseSlotDoes, <1>inv, BoundsAssumption DEF ControlTypes, Fault
<1>6. CASE RemoveOldestCredential
  BY <1>6, RemoveOldestCredentialDoes, <1>inv, BoundsAssumption
     DEF ControlTypes, Fault, ReadLost
<1>7. CASE UpdateEvictable
  BY <1>7, UpdateEvictableDoes, <1>inv, BoundsAssumption DEF ControlTypes, Fault
<1>8. CASE WriteEntry
  BY <1>8, WriteEntryDoes, <1>inv, BoundsAssumption DEF ControlTypes, Fault, WriteLost
<1>9. CASE WriteCounter
  BY <1>9, WriteCounterDoes, <1>inv, BoundsAssumption DEF ControlTypes, Fault, WriteLost
<1>10. CASE RemoveEvictable
  BY <1>10, RemoveEvictableDoes, <1>inv, BoundsAssumption DEF ControlTypes, Fault
<1>11. ASSUME NEW k \in Keys \cup {ZeroKey}, NEW fast \in BOOLEAN, fast \/ k \in Keys,
              VerifyPublicKey(k, fast)
      PROVE  ControlTypes'
  BY <1>11, VerifyPublicKeyDoes, <1>inv, BoundsAssumption DEF ControlTypes, Fault
<1>12. CASE DestroyOldKpersistent
  BY <1>12, DestroyOldKpersistentDoes, <1>inv, BoundsAssumption DEF ControlTypes, Fault
<1>13. CASE PreserveKey
  BY <1>13, PreserveKeyDoes, <1>inv, BoundsAssumption DEF ControlTypes, Fault
<1>14. ASSUME NEW s \in Slots, ClearCredential(s)
      PROVE  ControlTypes'
  BY <1>14, ClearCredentialDoes, <1>inv, BoundsAssumption DEF ControlTypes, Fault
<1>15. ASSUME NEW i \in Issuers, ClearCredentialIssuer(i)
      PROVE  ControlTypes'
  BY <1>15, ClearCredentialIssuerDoes, <1>inv, BoundsAssumption DEF ControlTypes, Fault
<1>16. CASE PassOver("matter")
  BY <1>16, MatterPassOverDoes, <1>inv, BoundsAssumption DEF ControlTypes, Fault, ReadLost
<1>17. CASE ClearValidityIterations
  BY <1>17, ClearValidityIterationsDoes, <1>inv, BoundsAssumption DEF ControlTypes, Fault
<1>18. CASE Reset
  <2>1. up' \in BOOLEAN
    BY <1>18 DEF Reset
  <2> QED
    BY <1>18, <2>1, ResetDoes, <1>inv DEF ControlTypes
<1>19. CASE RemoveKey("aliro")
  BY <1>19, AliroRemoveKeyDoes, <1>inv, BoundsAssumption DEF ControlTypes, Fault
<1>20. CASE ClearAccessDocument("aliro")
  BY <1>20, AliroClearDocumentDoes, <1>inv, BoundsAssumption DEF ControlTypes, Fault
<1>21. CASE ClearAccessDocument("matter")
  BY <1>21, MatterClearDocumentDoes, <1>inv, BoundsAssumption DEF ControlTypes, Fault
<1>22. CASE RemoveKpersistent("aliro")
  BY <1>22, AliroRemoveKpersistentDoes, <1>inv, BoundsAssumption DEF ControlTypes, Fault
<1>23. CASE RemoveKpersistent("matter")
  BY <1>23, MatterRemoveKpersistentDoes, <1>inv, BoundsAssumption DEF ControlTypes, Fault
<1>24. CASE UNCHANGED <<up, sMutex, faults, upset>>
  BY <1>24, <1>inv, BoundsAssumption DEF ControlTypes, Fault
<1> QED
  BY ControlTypesTouched, <1>1, <1>2, <1>3, <1>4, <1>5, <1>6, <1>7, <1>8, <1>9, <1>10, <1>11,
     <1>12, <1>13, <1>14, <1>15, <1>16, <1>17, <1>18, <1>19, <1>20, <1>21, <1>22, <1>23, <1>24

(* Each part of the invariant is preserved. A lemma named ...Touched lists    *)
(* the steps that change what the part speaks of, and the lemma named ...Step *)
(* takes them one by one: <1>before, <1>noFault and <1>inv are what it knows  *)
(* of the failures before the step, of those in it, and of the other parts of *)
(* the invariant. A part that a failure excuses is preserved by the steps     *)
(* after which there was no such failure.                                     *)

LEMMA AliroInvTouched ==
  ASSUME IInv, [Next]_vars
  PROVE  \/ UNCHANGED <<A, sMutex>>
         \/ \E d \in DocumentSet : StartDocument(d)
         \/ PassOver("aliro")
         \/ RemoveOldCredentials
         \/ StoreValidityIterations
         \/ RejectDocument
         \/ ChooseSlot
         \/ RemoveOldestCredential
         \/ UpdateEvictable
         \/ WriteEntry
         \/ WriteCounter
         \/ RemoveEvictable
         \/ \E k \in Keys \cup {ZeroKey}, fast \in BOOLEAN : (fast \/ k \in Keys) /\ VerifyPublicKey(k, fast)
         \/ DestroyOldKpersistent
         \/ PreserveKey
         \/ Reset
         \/ RemoveKey("aliro")
         \/ ClearAccessDocument("aliro")
         \/ RemoveKpersistent("aliro")
<1>1. UNCHANGED vars => UNCHANGED <<A, sMutex>>
  BY Zenon DEF vars, ram, store, nvs, A, M
<1> QED
  BY <1>1, Steps, ReadAccessDocumentDoes, SetAccessCredentialDoes, SetCredentialIssuerDoes,
     AddPublicKeyDoes, ClearCredentialDoes, ClearCredentialIssuerDoes, RemoveIssuerKeyDoes,
     MatterPassOverDoes, RemoveAccessCredentialsDoes, ClearValidityIterationsDoes, CommitDoes,
     MatterRemoveKeyDoes, MatterClearDocumentDoes, MatterRemoveKpersistentDoes

(* The Aliro thread takes sMutex when it chooses a slot or finds a document   *)
(* expired, and gives it back when it is done.                                *)
LEMMA AliroInvStep ==
  ASSUME IInv, [Next]_vars
  PROVE  AliroInv'
<1>inv. AliroInv
  BY DEF IInv
<1>1. ASSUME NEW d \in DocumentSet, StartDocument(d)
      PROVE  AliroInv'
  BY <1>1, StartDocumentDoes, <1>inv, SlotFacts, DocumentFields
     DEF AliroInv, AliroSteps, RemoveSteps, Iterating, Writing, Expiring, Storing
<1>2. CASE PassOver("aliro")
  BY <1>2, AliroPassOverDoes, <1>inv, SlotFacts, DocumentFields
     DEF AliroInv, AliroSteps, RemoveSteps, Iterating, Writing, Expiring, Storing, ReadLost
<1>3. CASE RemoveOldCredentials
  BY <1>3, RemoveOldCredentialsDoes, <1>inv, SlotFacts, DocumentFields
     DEF AliroInv, AliroSteps, RemoveSteps, Iterating, Writing, Expiring, Storing
<1>4. CASE StoreValidityIterations
  BY <1>4, StoreValidityIterationsDoes, <1>inv, SlotFacts, DocumentFields
     DEF AliroInv, AliroSteps, RemoveSteps, Iterating, Writing, Expiring, Storing
<1>5. CASE RejectDocument
  BY <1>5, RejectDocumentDoes, <1>inv, SlotFacts, DocumentFields
     DEF AliroInv, AliroSteps, RemoveSteps, Iterating, Writing, Expiring, Storing
<1>6. CASE ChooseSlot
  BY <1>6, ChooseSlotDoes, <1>inv, SlotFacts, DocumentFields
     DEF AliroInv, AliroSteps, RemoveSteps, Iterating, Writing, Expiring, Storing
<1>7. CASE RemoveOldestCredential
  BY <1>7, RemoveOldestCredentialDoes, <1>inv, SlotFacts, DocumentFields
     DEF AliroInv, AliroSteps, RemoveSteps, Iterating, Writing, Expiring, Storing, ReadLost
<1>8. CASE UpdateEvictable
  BY <1>8, UpdateEvictableDoes, <1>inv, SlotFacts, DocumentFields
     DEF AliroInv, AliroSteps, RemoveSteps, Iterating, Writing, Expiring, Storing
<1>9. CASE WriteEntry
  BY <1>9, WriteEntryDoes, <1>inv, SlotFacts, DocumentFields
     DEF AliroInv, AliroSteps, RemoveSteps, Iterating, Writing, Expiring, Storing, WriteLost
<1>10. CASE WriteCounter
  BY <1>10, WriteCounterDoes, <1>inv, SlotFacts, DocumentFields
     DEF AliroInv, AliroSteps, RemoveSteps, Iterating, Writing, Expiring, Storing, WriteLost
<1>11. CASE RemoveEvictable
  BY <1>11, RemoveEvictableDoes, <1>inv, SlotFacts, DocumentFields
     DEF AliroInv, AliroSteps, RemoveSteps, Iterating, Writing, Expiring, Storing
<1>12. ASSUME NEW k \in Keys \cup {ZeroKey}, NEW fast \in BOOLEAN, fast \/ k \in Keys,
              VerifyPublicKey(k, fast)
      PROVE  AliroInv'
  BY <1>12, VerifyPublicKeyDoes, <1>inv, SlotFacts, DocumentFields
     DEF AliroInv, AliroSteps, RemoveSteps, Iterating, Writing, Expiring, Storing
<1>13. CASE DestroyOldKpersistent
  BY <1>13, DestroyOldKpersistentDoes, <1>inv, SlotFacts, DocumentFields
     DEF AliroInv, AliroSteps, RemoveSteps, Iterating, Writing, Expiring, Storing
<1>14. CASE PreserveKey
  BY <1>14, PreserveKeyDoes, <1>inv, SlotFacts, DocumentFields
     DEF AliroInv, AliroSteps, RemoveSteps, Iterating, Writing, Expiring, Storing
<1>15. CASE Reset
  BY <1>15, ResetDoes, <1>inv, SlotFacts, DocumentFields
     DEF AliroInv, AliroSteps, RemoveSteps, Iterating, Writing, Expiring, Storing
<1>16. CASE RemoveKey("aliro")
  BY <1>16, AliroRemoveKeyDoes, <1>inv, SlotFacts, DocumentFields
     DEF AliroInv, AliroSteps, RemoveSteps, Iterating, Writing, Expiring, Storing
<1>17. CASE ClearAccessDocument("aliro")
  BY <1>17, AliroClearDocumentDoes, <1>inv, SlotFacts, DocumentFields
     DEF AliroInv, AliroSteps, RemoveSteps, Iterating, Writing, Expiring, Storing
<1>18. CASE RemoveKpersistent("aliro")
  BY <1>18, AliroRemoveKpersistentDoes, <1>inv, SlotFacts, DocumentFields
     DEF AliroInv, AliroSteps, RemoveSteps, Iterating, Writing, Expiring, Storing
<1>19. CASE UNCHANGED <<A, sMutex>>
  BY <1>19, <1>inv, SlotFacts, DocumentFields
     DEF AliroInv, AliroSteps, RemoveSteps, Iterating, Writing, Expiring, Storing
<1> QED
  BY AliroInvTouched, <1>1, <1>2, <1>3, <1>4, <1>5, <1>6, <1>7, <1>8, <1>9, <1>10, <1>11,
     <1>12, <1>13, <1>14, <1>15, <1>16, <1>17, <1>18, <1>19

LEMMA MatterInvTouched ==
  ASSUME IInv, [Next]_vars
  PROVE  \/ UNCHANGED <<M>>
         \/ \E s \in AcSlots, k \in Keys : SetAccessCredential(s, k)
         \/ \E i \in Issuers : SetCredentialIssuer(i)
         \/ AddPublicKey
         \/ \E s \in Slots : ClearCredential(s)
         \/ \E i \in Issuers : ClearCredentialIssuer(i)
         \/ RemoveIssuerKey
         \/ PassOver("matter")
         \/ RemoveAccessCredentials
         \/ ClearValidityIterations
         \/ Commit
         \/ Reset
         \/ RemoveKey("matter")
         \/ ClearAccessDocument("matter")
         \/ RemoveKpersistent("matter")
<1>1. UNCHANGED vars => UNCHANGED <<M>>
  BY Zenon DEF vars, ram, store, nvs, A, M
<1> QED
  BY <1>1, Steps, StartDocumentDoes, ReadAccessDocumentDoes, AliroPassOverDoes,
     RemoveOldCredentialsDoes, StoreValidityIterationsDoes, RejectDocumentDoes, ChooseSlotDoes,
     RemoveOldestCredentialDoes, UpdateEvictableDoes, WriteEntryDoes, WriteCounterDoes,
     RemoveEvictableDoes, VerifyPublicKeyDoes, DestroyOldKpersistentDoes, PreserveKeyDoes,
     AliroRemoveKeyDoes, AliroClearDocumentDoes, AliroRemoveKpersistentDoes

(* Matter has no key of a document to add, and clears a credential or an      *)
(* issuer.                                                                    *)
LEMMA MatterInvStep ==
  ASSUME IInv, [Next]_vars
  PROVE  MatterInv'
<1>inv. MatterInv
  BY DEF IInv
<1>1. ASSUME NEW s \in AcSlots, NEW k \in Keys, SetAccessCredential(s, k)
      PROVE  MatterInv'
  BY <1>1, SetAccessCredentialDoes, <1>inv, SlotFacts DEF MatterInv, MatterSteps, RemoveSteps
<1>2. ASSUME NEW i \in Issuers, SetCredentialIssuer(i)
      PROVE  MatterInv'
  BY <1>2, SetCredentialIssuerDoes, <1>inv, SlotFacts DEF MatterInv, MatterSteps, RemoveSteps
<1>3. CASE AddPublicKey
  BY <1>3, AddPublicKeyDoes, <1>inv, SlotFacts DEF MatterInv, MatterSteps, RemoveSteps
<1>4. ASSUME NEW s \in Slots, ClearCredential(s)
      PROVE  MatterInv'
  BY <1>4, ClearCredentialDoes, <1>inv, SlotFacts DEF MatterInv, MatterSteps, RemoveSteps
<1>5. ASSUME NEW i \in Issuers, ClearCredentialIssuer(i)
      PROVE  MatterInv'
  BY <1>5, ClearCredentialIssuerDoes, <1>inv, SlotFacts DEF MatterInv, MatterSteps, RemoveSteps
<1>6. CASE RemoveIssuerKey
  BY <1>6, RemoveIssuerKeyDoes, <1>inv, SlotFacts DEF MatterInv, MatterSteps, RemoveSteps
<1>7. CASE PassOver("matter")
  BY <1>7, MatterPassOverDoes, <1>inv, SlotFacts
     DEF MatterInv, MatterSteps, RemoveSteps, ReadLost
<1>8. CASE RemoveAccessCredentials
  BY <1>8, RemoveAccessCredentialsDoes, <1>inv, SlotFacts
     DEF MatterInv, MatterSteps, RemoveSteps
<1>9. CASE ClearValidityIterations
  BY <1>9, ClearValidityIterationsDoes, <1>inv, SlotFacts
     DEF MatterInv, MatterSteps, RemoveSteps
<1>10. CASE Commit
  BY <1>10, CommitDoes, <1>inv, SlotFacts DEF MatterInv, MatterSteps, RemoveSteps
<1>11. CASE Reset
  BY <1>11, ResetDoes, <1>inv, SlotFacts DEF MatterInv, MatterSteps, RemoveSteps
<1>12. CASE RemoveKey("matter")
  BY <1>12, MatterRemoveKeyDoes, <1>inv, SlotFacts DEF MatterInv, MatterSteps, RemoveSteps
<1>13. CASE ClearAccessDocument("matter")
  BY <1>13, MatterClearDocumentDoes, <1>inv, SlotFacts DEF MatterInv, MatterSteps, RemoveSteps
<1>14. CASE RemoveKpersistent("matter")
  BY <1>14, MatterRemoveKpersistentDoes, <1>inv, SlotFacts
     DEF MatterInv, MatterSteps, RemoveSteps
<1>15. CASE UNCHANGED <<M>>
  BY <1>15, <1>inv, SlotFacts DEF MatterInv, MatterSteps, RemoveSteps
<1> QED
  BY MatterInvTouched, <1>1, <1>2, <1>3, <1>4, <1>5, <1>6, <1>7, <1>8, <1>9, <1>10, <1>11,
     <1>12, <1>13, <1>14, <1>15

(* A removal by Matter that begins beside a verification, or the reverse, is  *)
(* noted.                                                                     *)
LEMMA TurnInvStep ==
  ASSUME IInv, [Next]_vars
  PROVE  TurnInv'
<1>inv. TurnInv /\ AliroInv /\ MatterInv /\ upset \subseteq upset'
  BY UpsetGrows DEF IInv
<1>1. ASSUME NEW d \in DocumentSet, StartDocument(d)
      PROVE  TurnInv'
  BY <1>1, StartDocumentDoes, <1>inv, NoOpFields
     DEF TurnInv, AliroInv, MatterInv, RemoveSteps, Storing
<1>2. ASSUME NEW s \in AdSlots, ReadAccessDocument(s)
      PROVE  TurnInv'
  BY <1>2, ReadAccessDocumentDoes, <1>inv, NoOpFields
     DEF TurnInv, AliroInv, MatterInv, RemoveSteps, Storing, ReadLost
<1>3. CASE PassOver("aliro")
  BY <1>3, AliroPassOverDoes, <1>inv, NoOpFields
     DEF TurnInv, AliroInv, MatterInv, RemoveSteps, Storing, ReadLost
<1>4. CASE RemoveOldCredentials
  BY <1>4, RemoveOldCredentialsDoes, <1>inv, NoOpFields
     DEF TurnInv, AliroInv, MatterInv, RemoveSteps, Storing
<1>5. CASE StoreValidityIterations
  BY <1>5, StoreValidityIterationsDoes, <1>inv, NoOpFields
     DEF TurnInv, AliroInv, MatterInv, RemoveSteps, Storing
<1>6. CASE RejectDocument
  BY <1>6, RejectDocumentDoes, <1>inv, NoOpFields
     DEF TurnInv, AliroInv, MatterInv, RemoveSteps, Storing
<1>7. CASE ChooseSlot
  BY <1>7, ChooseSlotDoes, <1>inv, NoOpFields
     DEF TurnInv, AliroInv, MatterInv, RemoveSteps, Storing
<1>8. CASE RemoveOldestCredential
  BY <1>8, RemoveOldestCredentialDoes, <1>inv, NoOpFields
     DEF TurnInv, AliroInv, MatterInv, RemoveSteps, Storing, ReadLost
<1>9. CASE UpdateEvictable
  BY <1>9, UpdateEvictableDoes, <1>inv, NoOpFields
     DEF TurnInv, AliroInv, MatterInv, RemoveSteps, Storing
<1>10. CASE WriteEntry
  BY <1>10, WriteEntryDoes, <1>inv, NoOpFields
     DEF TurnInv, AliroInv, MatterInv, RemoveSteps, Storing, WriteLost
<1>11. CASE WriteCounter
  BY <1>11, WriteCounterDoes, <1>inv, NoOpFields
     DEF TurnInv, AliroInv, MatterInv, RemoveSteps, Storing, WriteLost
<1>12. CASE RemoveEvictable
  BY <1>12, RemoveEvictableDoes, <1>inv, NoOpFields
     DEF TurnInv, AliroInv, MatterInv, RemoveSteps, Storing
<1>13. ASSUME NEW k \in Keys \cup {ZeroKey}, NEW fast \in BOOLEAN, fast \/ k \in Keys,
              VerifyPublicKey(k, fast)
      PROVE  TurnInv'
  BY <1>13, VerifyPublicKeyDoes, <1>inv, NoOpFields
     DEF TurnInv, AliroInv, MatterInv, RemoveSteps, Storing
<1>14. CASE DestroyOldKpersistent
  BY <1>14, DestroyOldKpersistentDoes, <1>inv, NoOpFields
     DEF TurnInv, AliroInv, MatterInv, RemoveSteps, Storing
<1>15. CASE PreserveKey
  BY <1>15, PreserveKeyDoes, <1>inv, NoOpFields
     DEF TurnInv, AliroInv, MatterInv, RemoveSteps, Storing
<1>16. ASSUME NEW s \in AcSlots, NEW k \in Keys, SetAccessCredential(s, k)
      PROVE  TurnInv'
  BY <1>16, SetAccessCredentialDoes, <1>inv, NoOpFields
     DEF TurnInv, AliroInv, MatterInv, RemoveSteps, Storing
<1>17. ASSUME NEW i \in Issuers, SetCredentialIssuer(i)
      PROVE  TurnInv'
  BY <1>17, SetCredentialIssuerDoes, <1>inv, NoOpFields
     DEF TurnInv, AliroInv, MatterInv, RemoveSteps, Storing
<1>18. CASE AddPublicKey
  BY <1>18, AddPublicKeyDoes, <1>inv, NoOpFields
     DEF TurnInv, AliroInv, MatterInv, RemoveSteps, Storing
<1>19. ASSUME NEW s \in Slots, ClearCredential(s)
      PROVE  TurnInv'
  BY <1>19, ClearCredentialDoes, <1>inv, NoOpFields
     DEF TurnInv, AliroInv, MatterInv, RemoveSteps, Storing
<1>20. ASSUME NEW i \in Issuers, ClearCredentialIssuer(i)
      PROVE  TurnInv'
  BY <1>20, ClearCredentialIssuerDoes, <1>inv, NoOpFields
     DEF TurnInv, AliroInv, MatterInv, RemoveSteps, Storing
<1>21. CASE RemoveIssuerKey
  BY <1>21, RemoveIssuerKeyDoes, <1>inv, NoOpFields
     DEF TurnInv, AliroInv, MatterInv, RemoveSteps, Storing
<1>22. CASE PassOver("matter")
  BY <1>22, MatterPassOverDoes, <1>inv, NoOpFields
     DEF TurnInv, AliroInv, MatterInv, RemoveSteps, Storing, ReadLost
<1>23. CASE RemoveAccessCredentials
  BY <1>23, RemoveAccessCredentialsDoes, <1>inv, NoOpFields
     DEF TurnInv, AliroInv, MatterInv, RemoveSteps, Storing
<1>24. CASE ClearValidityIterations
  BY <1>24, ClearValidityIterationsDoes, <1>inv, NoOpFields
     DEF TurnInv, AliroInv, MatterInv, RemoveSteps, Storing
<1>25. CASE Commit
  BY <1>25, CommitDoes, <1>inv, NoOpFields
     DEF TurnInv, AliroInv, MatterInv, RemoveSteps, Storing
<1>26. CASE Reset
  BY <1>26, ResetDoes, <1>inv, NoOpFields DEF TurnInv, AliroInv, MatterInv, RemoveSteps, Storing
<1>27. CASE RemoveKey("aliro")
  BY <1>27, AliroRemoveKeyDoes, <1>inv, NoOpFields
     DEF TurnInv, AliroInv, MatterInv, RemoveSteps, Storing
<1>28. CASE RemoveKey("matter")
  BY <1>28, MatterRemoveKeyDoes, <1>inv, NoOpFields
     DEF TurnInv, AliroInv, MatterInv, RemoveSteps, Storing
<1>29. CASE ClearAccessDocument("aliro")
  BY <1>29, AliroClearDocumentDoes, <1>inv, NoOpFields
     DEF TurnInv, AliroInv, MatterInv, RemoveSteps, Storing
<1>30. CASE ClearAccessDocument("matter")
  BY <1>30, MatterClearDocumentDoes, <1>inv, NoOpFields
     DEF TurnInv, AliroInv, MatterInv, RemoveSteps, Storing
<1>31. CASE RemoveKpersistent("aliro")
  BY <1>31, AliroRemoveKpersistentDoes, <1>inv, NoOpFields
     DEF TurnInv, AliroInv, MatterInv, RemoveSteps, Storing
<1>32. CASE RemoveKpersistent("matter")
  BY <1>32, MatterRemoveKpersistentDoes, <1>inv, NoOpFields
     DEF TurnInv, AliroInv, MatterInv, RemoveSteps, Storing
<1>33. CASE UNCHANGED vars
  BY <1>33, <1>inv, NoOpFields
     DEF TurnInv, AliroInv, MatterInv, RemoveSteps, vars, ram, store, A, M, Storing, nvs
<1> QED
  BY Steps, <1>1, <1>2, <1>3, <1>4, <1>5, <1>6, <1>7, <1>8, <1>9, <1>10, <1>11, <1>12, <1>13,
     <1>14, <1>15, <1>16, <1>17, <1>18, <1>19, <1>20, <1>21, <1>22, <1>23, <1>24, <1>25, <1>26,
     <1>27, <1>28, <1>29, <1>30, <1>31, <1>32, <1>33

LEMMA ProvInvTouched ==
  ASSUME IInv, [Next]_vars
  PROVE  \/ UNCHANGED <<M, key, prov>>
         \/ WriteCounter
         \/ \E s \in AcSlots, k \in Keys : SetAccessCredential(s, k)
         \/ \E i \in Issuers : SetCredentialIssuer(i)
         \/ AddPublicKey
         \/ \E s \in Slots : ClearCredential(s)
         \/ \E i \in Issuers : ClearCredentialIssuer(i)
         \/ RemoveIssuerKey
         \/ PassOver("matter")
         \/ RemoveAccessCredentials
         \/ ClearValidityIterations
         \/ Commit
         \/ Reset
         \/ RemoveKey("aliro")
         \/ RemoveKey("matter")
         \/ ClearAccessDocument("matter")
         \/ RemoveKpersistent("matter")
<1>1. UNCHANGED vars => UNCHANGED <<M, key, prov>>
  BY Zenon DEF vars, ram, store, nvs, A, M
<1> QED
  BY <1>1, Steps, StartDocumentDoes, ReadAccessDocumentDoes, AliroPassOverDoes,
     RemoveOldCredentialsDoes, StoreValidityIterationsDoes, RejectDocumentDoes, ChooseSlotDoes,
     RemoveOldestCredentialDoes, UpdateEvictableDoes, WriteEntryDoes, RemoveEvictableDoes,
     VerifyPublicKeyDoes, DestroyOldKpersistentDoes, PreserveKeyDoes, AliroClearDocumentDoes,
     AliroRemoveKpersistentDoes

(* Matter's credentials are at the slots of access credentials only.          *)
LEMMA ProvInvStep ==
  ASSUME IInv, [Next]_vars
  PROVE  ProvInv'
<1>inv. ProvInv /\ AliroInv /\ MatterInv /\ RemoveInv /\ TypeOK
  BY DEF IInv
<1>1. CASE WriteCounter
  BY <1>1, WriteCounterDoes, <1>inv, SlotFacts, SentinelAssumption
     DEF ProvInv, MatterInv, RemoveSteps, TypeOK, AliroInv, Storing, WriteLost
<1>2. ASSUME NEW s \in AcSlots, NEW k \in Keys, SetAccessCredential(s, k)
      PROVE  ProvInv'
  BY <1>2, SetAccessCredentialDoes, <1>inv, SlotFacts, SentinelAssumption
     DEF ProvInv, MatterInv, RemoveSteps, TypeOK
<1>3. ASSUME NEW i \in Issuers, SetCredentialIssuer(i)
      PROVE  ProvInv'
  BY <1>3, SetCredentialIssuerDoes, <1>inv, SlotFacts, SentinelAssumption
     DEF ProvInv, MatterInv, RemoveSteps, TypeOK
<1>4. CASE AddPublicKey
  BY <1>4, AddPublicKeyDoes, <1>inv, SlotFacts, SentinelAssumption
     DEF ProvInv, MatterInv, RemoveSteps, TypeOK
<1>5. ASSUME NEW s \in Slots, ClearCredential(s)
      PROVE  ProvInv'
  BY <1>5, ClearCredentialDoes, <1>inv, SlotFacts, SentinelAssumption
     DEF ProvInv, MatterInv, RemoveSteps, TypeOK
<1>6. ASSUME NEW i \in Issuers, ClearCredentialIssuer(i)
      PROVE  ProvInv'
  BY <1>6, ClearCredentialIssuerDoes, <1>inv, SlotFacts, SentinelAssumption
     DEF ProvInv, MatterInv, RemoveSteps, TypeOK
<1>7. CASE RemoveIssuerKey
  BY <1>7, RemoveIssuerKeyDoes, <1>inv, SlotFacts, SentinelAssumption
     DEF ProvInv, MatterInv, RemoveSteps, TypeOK
<1>8. CASE PassOver("matter")
  BY <1>8, MatterPassOverDoes, <1>inv, SlotFacts, SentinelAssumption
     DEF ProvInv, MatterInv, RemoveSteps, TypeOK, AliroInv, Storing, ReadLost
<1>9. CASE RemoveAccessCredentials
  BY <1>9, RemoveAccessCredentialsDoes, <1>inv, SlotFacts, SentinelAssumption
     DEF ProvInv, MatterInv, RemoveSteps, TypeOK
<1>10. CASE ClearValidityIterations
  BY <1>10, ClearValidityIterationsDoes, <1>inv, SlotFacts, SentinelAssumption
     DEF ProvInv, MatterInv, RemoveSteps, TypeOK
<1>11. CASE Commit
  BY <1>11, CommitDoes, <1>inv, SlotFacts, SentinelAssumption
     DEF ProvInv, MatterInv, RemoveSteps, TypeOK
<1>12. CASE Reset
  BY <1>12, ResetDoes, <1>inv, SlotFacts, SentinelAssumption
     DEF ProvInv, MatterInv, RemoveSteps, TypeOK
<1>13. CASE RemoveKey("aliro")
  BY <1>13, AliroRemoveKeyDoes, <1>inv, SlotFacts, SentinelAssumption
     DEF ProvInv, MatterInv, RemoveSteps, TypeOK
<1>14. CASE RemoveKey("matter")
  BY <1>14, MatterRemoveKeyDoes, <1>inv, SlotFacts, SentinelAssumption
     DEF ProvInv, MatterInv, RemoveSteps, TypeOK
<1>15. CASE ClearAccessDocument("matter")
  BY <1>15, MatterClearDocumentDoes, <1>inv, SlotFacts, SentinelAssumption
     DEF ProvInv, MatterInv, RemoveSteps, TypeOK
<1>16. CASE RemoveKpersistent("matter")
  BY <1>16, MatterRemoveKpersistentDoes, <1>inv, SlotFacts, SentinelAssumption
     DEF ProvInv, MatterInv, RemoveSteps, TypeOK, RemoveInv
<1>17. CASE UNCHANGED <<M, key, prov>>
  BY <1>17, <1>inv, SlotFacts, SentinelAssumption DEF ProvInv, MatterInv, RemoveSteps, TypeOK
<1> QED
  BY ProvInvTouched, <1>1, <1>2, <1>3, <1>4, <1>5, <1>6, <1>7, <1>8, <1>9, <1>10, <1>11, <1>12,
     <1>13, <1>14, <1>15, <1>16, <1>17

LEMMA IssuerInvTouched ==
  ASSUME IInv, [Next]_vars
  PROVE  \/ UNCHANGED <<M, issuer, owned>>
         \/ \E s \in AcSlots, k \in Keys : SetAccessCredential(s, k)
         \/ \E i \in Issuers : SetCredentialIssuer(i)
         \/ AddPublicKey
         \/ \E s \in Slots : ClearCredential(s)
         \/ \E i \in Issuers : ClearCredentialIssuer(i)
         \/ RemoveIssuerKey
         \/ PassOver("matter")
         \/ RemoveAccessCredentials
         \/ ClearValidityIterations
         \/ Commit
         \/ Reset
         \/ RemoveKey("matter")
         \/ ClearAccessDocument("matter")
         \/ RemoveKpersistent("matter")
<1>1. UNCHANGED vars => UNCHANGED <<M, issuer, owned>>
  BY Zenon DEF vars, ram, store, nvs, A, M
<1> QED
  BY <1>1, Steps, StartDocumentDoes, ReadAccessDocumentDoes, AliroPassOverDoes,
     RemoveOldCredentialsDoes, StoreValidityIterationsDoes, RejectDocumentDoes, ChooseSlotDoes,
     RemoveOldestCredentialDoes, UpdateEvictableDoes, WriteEntryDoes, WriteCounterDoes,
     RemoveEvictableDoes, VerifyPublicKeyDoes, DestroyOldKpersistentDoes, PreserveKeyDoes,
     AliroRemoveKeyDoes, AliroClearDocumentDoes, AliroRemoveKpersistentDoes

(* The key of an issuer leaves RAM first and comes last.                      *)
LEMMA IssuerInvStep ==
  ASSUME IInv, [Next]_vars
  PROVE  IssuerInv'
<1>inv. IssuerInv /\ MatterInv /\ TypeOK
  BY DEF IInv
<1>1. ASSUME NEW s \in AcSlots, NEW k \in Keys, SetAccessCredential(s, k)
      PROVE  IssuerInv'
  BY <1>1, SetAccessCredentialDoes, <1>inv, SentinelAssumption
     DEF IssuerInv, MatterInv, Clearing, RemoveSteps, TypeOK
<1>2. ASSUME NEW i \in Issuers, SetCredentialIssuer(i)
      PROVE  IssuerInv'
  BY <1>2, SetCredentialIssuerDoes, <1>inv, SentinelAssumption
     DEF IssuerInv, MatterInv, Clearing, RemoveSteps, TypeOK
<1>3. CASE AddPublicKey
  BY <1>3, AddPublicKeyDoes, <1>inv, SentinelAssumption
     DEF IssuerInv, MatterInv, Clearing, RemoveSteps, TypeOK
<1>4. ASSUME NEW s \in Slots, ClearCredential(s)
      PROVE  IssuerInv'
  BY <1>4, <1>inv, ClearCredentialDoes DEF IssuerInv, Clearing, RemoveSteps
<1>5. ASSUME NEW i \in Issuers, ClearCredentialIssuer(i)
      PROVE  IssuerInv'
  BY <1>5, ClearCredentialIssuerDoes, <1>inv, SentinelAssumption
     DEF IssuerInv, MatterInv, Clearing, RemoveSteps, TypeOK
<1>6. CASE RemoveIssuerKey
  BY <1>6, RemoveIssuerKeyDoes, <1>inv, SentinelAssumption
     DEF IssuerInv, MatterInv, Clearing, RemoveSteps, TypeOK
<1>7. CASE PassOver("matter")
  BY <1>7, MatterPassOverDoes, <1>inv, SentinelAssumption
     DEF IssuerInv, MatterInv, Clearing, RemoveSteps, TypeOK, ReadLost
<1>8. CASE RemoveAccessCredentials
  BY <1>8, RemoveAccessCredentialsDoes, <1>inv, SentinelAssumption
     DEF IssuerInv, MatterInv, Clearing, RemoveSteps, TypeOK
<1>9. CASE ClearValidityIterations
  BY <1>9, ClearValidityIterationsDoes, <1>inv, SentinelAssumption
     DEF IssuerInv, MatterInv, Clearing, RemoveSteps, TypeOK
<1>10. CASE Commit
  BY <1>10, CommitDoes, <1>inv, SentinelAssumption
     DEF IssuerInv, MatterInv, Clearing, RemoveSteps, TypeOK
<1>11. CASE Reset
  BY <1>11, ResetDoes, <1>inv, SentinelAssumption
     DEF IssuerInv, MatterInv, Clearing, RemoveSteps, TypeOK
<1>12. CASE RemoveKey("matter")
  BY <1>12, MatterRemoveKeyDoes, <1>inv, SentinelAssumption
     DEF IssuerInv, MatterInv, Clearing, RemoveSteps, TypeOK
<1>13. CASE ClearAccessDocument("matter")
  BY <1>13, MatterClearDocumentDoes, <1>inv, SentinelAssumption
     DEF IssuerInv, MatterInv, Clearing, RemoveSteps, TypeOK
<1>14. CASE RemoveKpersistent("matter")
  BY <1>14, MatterRemoveKpersistentDoes, <1>inv, SentinelAssumption
     DEF IssuerInv, MatterInv, Clearing, RemoveSteps, TypeOK
<1>15. CASE UNCHANGED <<M, issuer, owned>>
  BY <1>15, <1>inv, SentinelAssumption DEF IssuerInv, MatterInv, Clearing, RemoveSteps, TypeOK
<1> QED
  BY IssuerInvTouched, <1>1, <1>2, <1>3, <1>4, <1>5, <1>6, <1>7, <1>8, <1>9, <1>10, <1>11,
     <1>12, <1>13, <1>14, <1>15

LEMMA StoreInvTouched ==
  ASSUME IInv, [Next]_vars
  PROVE  \/ UNCHANGED <<A, M, owned, evict, upset>>
         \/ \E d \in DocumentSet : StartDocument(d)
         \/ \E s \in AdSlots : ReadAccessDocument(s)
         \/ PassOver("aliro")
         \/ RemoveOldCredentials
         \/ StoreValidityIterations
         \/ RejectDocument
         \/ ChooseSlot
         \/ RemoveOldestCredential
         \/ UpdateEvictable
         \/ WriteEntry
         \/ WriteCounter
         \/ RemoveEvictable
         \/ \E k \in Keys \cup {ZeroKey}, fast \in BOOLEAN : (fast \/ k \in Keys) /\ VerifyPublicKey(k, fast)
         \/ DestroyOldKpersistent
         \/ PreserveKey
         \/ \E s \in AcSlots, k \in Keys : SetAccessCredential(s, k)
         \/ \E i \in Issuers : SetCredentialIssuer(i)
         \/ AddPublicKey
         \/ \E s \in Slots : ClearCredential(s)
         \/ \E i \in Issuers : ClearCredentialIssuer(i)
         \/ RemoveIssuerKey
         \/ PassOver("matter")
         \/ RemoveAccessCredentials
         \/ ClearValidityIterations
         \/ Commit
         \/ Reset
         \/ RemoveKey("aliro")
         \/ RemoveKey("matter")
         \/ ClearAccessDocument("aliro")
         \/ ClearAccessDocument("matter")
         \/ RemoveKpersistent("aliro")
         \/ RemoveKpersistent("matter")
<1>1. UNCHANGED vars => UNCHANGED <<A, M, owned, evict, upset>>
  BY Zenon DEF vars, ram, store, nvs, A, M
<1> QED
  BY <1>1, Steps

(* The Matter thread begins a command beside the write of a document, and     *)
(* waits for sMutex in it.                                                    *)
LEMMA StoreInvStep ==
  ASSUME IInv, [Next]_vars
  PROVE  StoreInv'
<1>inv. StoreInv /\ AliroInv /\ MatterInv /\ TypeOK /\ upset \subseteq upset'
  BY UpsetGrows DEF IInv
<1>1. ASSUME NEW d \in DocumentSet, StartDocument(d)
      PROVE  StoreInv'
  BY <1>1, StartDocumentDoes, <1>inv
     DEF StoreInv, AliroInv, MatterInv, Writing, Storing, Expiring, RemoveSteps, TypeOK, Fault
<1>2. ASSUME NEW s \in AdSlots, ReadAccessDocument(s)
      PROVE  StoreInv'
  BY <1>2, ReadAccessDocumentDoes, <1>inv
     DEF StoreInv, AliroInv, MatterInv, Writing, Storing, Expiring, RemoveSteps, TypeOK, Fault,
         ReadLost
<1>3. CASE PassOver("aliro")
  BY <1>3, AliroPassOverDoes, <1>inv
     DEF StoreInv, AliroInv, MatterInv, Writing, Storing, Expiring, RemoveSteps, TypeOK, Fault,
         ReadLost
<1>4. CASE RemoveOldCredentials
  BY <1>4, RemoveOldCredentialsDoes, <1>inv
     DEF StoreInv, AliroInv, MatterInv, Writing, Storing, Expiring, RemoveSteps, TypeOK, Fault
<1>5. CASE StoreValidityIterations
  BY <1>5, StoreValidityIterationsDoes, <1>inv
     DEF StoreInv, AliroInv, MatterInv, Writing, Storing, Expiring, RemoveSteps, TypeOK, Fault
<1>6. CASE RejectDocument
  BY <1>6, RejectDocumentDoes, <1>inv
     DEF StoreInv, AliroInv, MatterInv, Writing, Storing, Expiring, RemoveSteps, TypeOK, Fault
<1>7. CASE ChooseSlot
  BY <1>7, ChooseSlotDoes, <1>inv
     DEF StoreInv, AliroInv, MatterInv, Writing, Storing, Expiring, RemoveSteps, TypeOK, Fault
<1>8. CASE RemoveOldestCredential
  BY <1>8, RemoveOldestCredentialDoes, <1>inv
     DEF StoreInv, AliroInv, MatterInv, Writing, Storing, Expiring, RemoveSteps, TypeOK, Fault,
         ReadLost
<1>9. CASE UpdateEvictable
  BY <1>9, UpdateEvictableDoes, <1>inv
     DEF StoreInv, AliroInv, MatterInv, Writing, Storing, Expiring, RemoveSteps, TypeOK, Fault
<1>10. CASE WriteEntry
  BY <1>10, WriteEntryDoes, <1>inv
     DEF StoreInv, AliroInv, MatterInv, Writing, Storing, Expiring, RemoveSteps, TypeOK, Fault,
         WriteLost
<1>11. CASE WriteCounter
  BY <1>11, WriteCounterDoes, <1>inv
     DEF StoreInv, AliroInv, MatterInv, Writing, Storing, Expiring, RemoveSteps, TypeOK, Fault,
         WriteLost
<1>12. CASE RemoveEvictable
  BY <1>12, RemoveEvictableDoes, <1>inv
     DEF StoreInv, AliroInv, MatterInv, Writing, Storing, Expiring, RemoveSteps, TypeOK, Fault
<1>13. ASSUME NEW k \in Keys \cup {ZeroKey}, NEW fast \in BOOLEAN, fast \/ k \in Keys,
              VerifyPublicKey(k, fast)
      PROVE  StoreInv'
  BY <1>13, VerifyPublicKeyDoes, <1>inv
     DEF StoreInv, AliroInv, MatterInv, Writing, Storing, Expiring, RemoveSteps, TypeOK, Fault
<1>14. CASE DestroyOldKpersistent
  BY <1>14, DestroyOldKpersistentDoes, <1>inv
     DEF StoreInv, AliroInv, MatterInv, Writing, Storing, Expiring, RemoveSteps, TypeOK, Fault
<1>15. CASE PreserveKey
  BY <1>15, PreserveKeyDoes, <1>inv
     DEF StoreInv, AliroInv, MatterInv, Writing, Storing, Expiring, RemoveSteps, TypeOK, Fault
<1>16. ASSUME NEW s \in AcSlots, NEW k \in Keys, SetAccessCredential(s, k)
      PROVE  StoreInv'
  BY <1>16, SetAccessCredentialDoes, <1>inv
     DEF StoreInv, AliroInv, MatterInv, Writing, Storing, Expiring, RemoveSteps, TypeOK, Fault
<1>17. ASSUME NEW i \in Issuers, SetCredentialIssuer(i)
      PROVE  StoreInv'
  <2>1. A.at \in {"entry", "counter"} => A.ci \in Issuers
    BY <1>inv, DocumentFields DEF AliroInv, Writing, Storing
  <2>2. /\ A' = A /\ evict' = evict /\ upset' = upset /\ M'.at = "addIssuer"
        /\ owned' = [owned EXCEPT ![i] = "key"]
    BY <1>17, SetCredentialIssuerDoes
  <2>3. A.at \in {"entry", "counter"} => owned'[A.ci] = "key"
    BY <1>inv, <2>1, <2>2 DEF StoreInv, TypeOK
  <2> QED
    BY <1>inv, <2>2, <2>3 DEF StoreInv
<1>18. CASE AddPublicKey
  BY <1>18, AddPublicKeyDoes, <1>inv
     DEF StoreInv, AliroInv, MatterInv, Writing, Storing, Expiring, RemoveSteps, TypeOK, Fault
<1>19. ASSUME NEW s \in Slots, ClearCredential(s)
      PROVE  StoreInv'
  BY <1>19, ClearCredentialDoes, <1>inv
     DEF StoreInv, AliroInv, MatterInv, Writing, Storing, Expiring, RemoveSteps, TypeOK, Fault
<1>20. ASSUME NEW i \in Issuers, ClearCredentialIssuer(i)
      PROVE  StoreInv'
  BY <1>20, ClearCredentialIssuerDoes, <1>inv
     DEF StoreInv, AliroInv, MatterInv, Writing, Storing, Expiring, RemoveSteps, TypeOK, Fault
<1>21. CASE RemoveIssuerKey
  BY <1>21, RemoveIssuerKeyDoes, <1>inv
     DEF StoreInv, AliroInv, MatterInv, Writing, Storing, Expiring, RemoveSteps, TypeOK, Fault
<1>22. CASE PassOver("matter")
  BY <1>22, MatterPassOverDoes, <1>inv
     DEF StoreInv, AliroInv, MatterInv, Writing, Storing, Expiring, RemoveSteps, TypeOK, Fault,
         ReadLost
<1>23. CASE RemoveAccessCredentials
  BY <1>23, RemoveAccessCredentialsDoes, <1>inv
     DEF StoreInv, AliroInv, MatterInv, Writing, Storing, Expiring, RemoveSteps, TypeOK, Fault
<1>24. CASE ClearValidityIterations
  BY <1>24, ClearValidityIterationsDoes, <1>inv
     DEF StoreInv, AliroInv, MatterInv, Writing, Storing, Expiring, RemoveSteps, TypeOK, Fault
<1>25. CASE Commit
  BY <1>25, CommitDoes, <1>inv
     DEF StoreInv, AliroInv, MatterInv, Writing, Storing, Expiring, RemoveSteps, TypeOK, Fault
<1>26. CASE Reset
  BY <1>26, ResetDoes, <1>inv
     DEF StoreInv, AliroInv, MatterInv, Writing, Storing, Expiring, RemoveSteps, TypeOK, Fault
<1>27. CASE RemoveKey("aliro")
  BY <1>27, AliroRemoveKeyDoes, <1>inv
     DEF StoreInv, AliroInv, MatterInv, Writing, Storing, Expiring, RemoveSteps, TypeOK, Fault
<1>28. CASE RemoveKey("matter")
  BY <1>28, MatterRemoveKeyDoes, <1>inv
     DEF StoreInv, AliroInv, MatterInv, Writing, Storing, Expiring, RemoveSteps, TypeOK, Fault
<1>29. CASE ClearAccessDocument("aliro")
  BY <1>29, AliroClearDocumentDoes, <1>inv
     DEF StoreInv, AliroInv, MatterInv, Writing, Storing, Expiring, RemoveSteps, TypeOK, Fault
<1>30. CASE ClearAccessDocument("matter")
  BY <1>30, MatterClearDocumentDoes, <1>inv
     DEF StoreInv, AliroInv, MatterInv, Writing, Storing, Expiring, RemoveSteps, TypeOK, Fault
<1>31. CASE RemoveKpersistent("aliro")
  BY <1>31, AliroRemoveKpersistentDoes, <1>inv
     DEF StoreInv, AliroInv, MatterInv, Writing, Storing, Expiring, RemoveSteps, TypeOK, Fault
<1>32. CASE RemoveKpersistent("matter")
  BY <1>32, MatterRemoveKpersistentDoes, <1>inv
     DEF StoreInv, AliroInv, MatterInv, Writing, Storing, Expiring, RemoveSteps, TypeOK, Fault
<1>33. CASE UNCHANGED <<A, M, owned, evict, upset>>
  BY <1>33, <1>inv DEF StoreInv
<1> QED
  BY StoreInvTouched, <1>1, <1>2, <1>3, <1>4, <1>5, <1>6, <1>7, <1>8, <1>9, <1>10, <1>11,
     <1>12, <1>13, <1>14, <1>15, <1>16, <1>17, <1>18, <1>19, <1>20, <1>21, <1>22, <1>23, <1>24,
     <1>25, <1>26, <1>27, <1>28, <1>29, <1>30, <1>31, <1>32, <1>33

LEMMA TornInvTouched ==
  ASSUME IInv, [Next]_vars
  PROVE  \/ UNCHANGED <<doc, torn>>
         \/ \E s \in AdSlots : ReadAccessDocument(s)
         \/ PassOver("aliro")
         \/ RemoveOldestCredential
         \/ WriteEntry
         \/ WriteCounter
         \/ PassOver("matter")
         \/ Reset
         \/ ClearAccessDocument("aliro")
         \/ ClearAccessDocument("matter")
<1>1. UNCHANGED vars => UNCHANGED <<doc, torn>>
  BY Zenon DEF vars, ram, store, nvs, A, M
<1> QED
  BY <1>1, Steps, StartDocumentDoes, RemoveOldCredentialsDoes, StoreValidityIterationsDoes,
     RejectDocumentDoes, ChooseSlotDoes, UpdateEvictableDoes, RemoveEvictableDoes,
     VerifyPublicKeyDoes, DestroyOldKpersistentDoes, PreserveKeyDoes, SetAccessCredentialDoes,
     SetCredentialIssuerDoes, AddPublicKeyDoes, ClearCredentialDoes, ClearCredentialIssuerDoes,
     RemoveIssuerKeyDoes, RemoveAccessCredentialsDoes, ClearValidityIterationsDoes, CommitDoes,
     AliroRemoveKeyDoes, MatterRemoveKeyDoes, AliroRemoveKpersistentDoes,
     MatterRemoveKpersistentDoes

(* A document is lost when its entry is.                                      *)
LEMMA TornInvStep ==
  ASSUME IInv, [Next]_vars
  PROVE  TornInv'
<1>inv. TornInv /\ AliroInv /\ TypeOK
  BY UpsetGrows DEF IInv
<1>1. ASSUME NEW s \in AdSlots, ReadAccessDocument(s)
      PROVE  TornInv'
  BY <1>1, ReadAccessDocumentDoes, <1>inv DEF TornInv, AliroInv, Storing, TypeOK, ReadLost
<1>2. CASE PassOver("aliro")
  BY <1>2, AliroPassOverDoes, <1>inv DEF TornInv, AliroInv, Storing, TypeOK, ReadLost
<1>3. CASE RemoveOldestCredential
  BY <1>3, RemoveOldestCredentialDoes, <1>inv DEF TornInv, AliroInv, Storing, TypeOK, ReadLost
<1>4. CASE WriteEntry
  BY <1>4, WriteEntryDoes, <1>inv DEF TornInv, AliroInv, Storing, TypeOK, WriteLost
<1>5. CASE WriteCounter
  BY <1>5, WriteCounterDoes, <1>inv DEF TornInv, AliroInv, Storing, TypeOK, WriteLost
<1>6. CASE PassOver("matter")
  BY <1>6, MatterPassOverDoes, <1>inv DEF TornInv, AliroInv, Storing, TypeOK, ReadLost
<1>7. CASE Reset
  BY <1>7, ResetDoes, <1>inv DEF TornInv, AliroInv, Storing, TypeOK
<1>8. CASE ClearAccessDocument("aliro")
  BY <1>8, AliroClearDocumentDoes, <1>inv DEF TornInv, AliroInv, Storing, TypeOK
<1>9. CASE ClearAccessDocument("matter")
  BY <1>9, MatterClearDocumentDoes, <1>inv DEF TornInv, AliroInv, Storing, TypeOK
<1>10. CASE UNCHANGED <<doc, torn>>
  BY <1>10, <1>inv DEF TornInv
<1> QED
  BY TornInvTouched, <1>1, <1>2, <1>3, <1>4, <1>5, <1>6, <1>7, <1>8, <1>9, <1>10

LEMMA TornEntryTouched ==
  ASSUME IInv, [Next]_vars
  PROVE  \/ UNCHANGED <<A, torn>>
         \/ \E d \in DocumentSet : StartDocument(d)
         \/ \E s \in AdSlots : ReadAccessDocument(s)
         \/ PassOver("aliro")
         \/ RemoveOldCredentials
         \/ StoreValidityIterations
         \/ RejectDocument
         \/ ChooseSlot
         \/ RemoveOldestCredential
         \/ UpdateEvictable
         \/ WriteEntry
         \/ WriteCounter
         \/ RemoveEvictable
         \/ \E k \in Keys \cup {ZeroKey}, fast \in BOOLEAN : (fast \/ k \in Keys) /\ VerifyPublicKey(k, fast)
         \/ DestroyOldKpersistent
         \/ PreserveKey
         \/ PassOver("matter")
         \/ Reset
         \/ RemoveKey("aliro")
         \/ ClearAccessDocument("aliro")
         \/ ClearAccessDocument("matter")
         \/ RemoveKpersistent("aliro")
<1>1. UNCHANGED vars => UNCHANGED <<A, torn>>
  BY Zenon DEF vars, ram, store, nvs, A, M
<1> QED
  BY <1>1, Steps, SetAccessCredentialDoes, SetCredentialIssuerDoes, AddPublicKeyDoes,
     ClearCredentialDoes, ClearCredentialIssuerDoes, RemoveIssuerKeyDoes,
     RemoveAccessCredentialsDoes, ClearValidityIterationsDoes, CommitDoes, MatterRemoveKeyDoes,
     MatterRemoveKpersistentDoes

(* The reset that cuts the write of a document removes what is left of it, or *)
(* the next one does.                                                         *)
LEMMA TornEntryStep ==
  ASSUME IInv, [Next]_vars, upset' \cap StartCauses = {}
  PROVE  TornEntry'
<1>before. upset \cap StartCauses = {}
  BY UpsetGrows
<1>noFault. ~Fault("delete") /\ ~Fault("write") /\ ~Fault("read") /\ "overlap" \notin upset'
  BY DEF Fault, StartCauses
<1>inv. TornEntry /\ DocumentsOwned /\ AliroInv /\ TypeOK
  BY <1>before DEF IInv, Unless, StartCauses
<1>1. ASSUME NEW d \in DocumentSet, StartDocument(d)
      PROVE  TornEntry'
  BY <1>1, StartDocumentDoes, <1>inv, <1>noFault, SlotFacts
     DEF TornEntry, AliroInv, Storing, TypeOK
<1>2. ASSUME NEW s \in AdSlots, ReadAccessDocument(s)
      PROVE  TornEntry'
  BY <1>2, ReadAccessDocumentDoes, <1>inv, <1>noFault, SlotFacts
     DEF TornEntry, AliroInv, Storing, TypeOK, ReadLost
<1>3. CASE PassOver("aliro")
  BY <1>3, AliroPassOverDoes, <1>inv, <1>noFault, SlotFacts
     DEF TornEntry, AliroInv, Storing, TypeOK, ReadLost
<1>4. CASE RemoveOldCredentials
  BY <1>4, RemoveOldCredentialsDoes, <1>inv, <1>noFault, SlotFacts
     DEF TornEntry, AliroInv, Storing, TypeOK
<1>5. CASE StoreValidityIterations
  BY <1>5, StoreValidityIterationsDoes, <1>inv, <1>noFault, SlotFacts
     DEF TornEntry, AliroInv, Storing, TypeOK
<1>6. CASE RejectDocument
  BY <1>6, RejectDocumentDoes, <1>inv, <1>noFault, SlotFacts
     DEF TornEntry, AliroInv, Storing, TypeOK
<1>7. CASE ChooseSlot
  BY <1>7, ChooseSlotDoes, <1>inv, <1>noFault, SlotFacts
     DEF TornEntry, AliroInv, Storing, TypeOK
<1>8. CASE RemoveOldestCredential
  BY <1>8, RemoveOldestCredentialDoes, <1>inv, <1>noFault, SlotFacts
     DEF TornEntry, AliroInv, Storing, TypeOK, ReadLost
<1>9. CASE UpdateEvictable
  BY <1>9, UpdateEvictableDoes, <1>inv, <1>noFault, SlotFacts
     DEF TornEntry, AliroInv, Storing, TypeOK
<1>10. CASE WriteEntry
  BY <1>10, WriteEntryDoes, <1>inv, <1>noFault, SlotFacts
     DEF TornEntry, AliroInv, Storing, TypeOK, WriteLost
<1>11. CASE WriteCounter
  BY <1>11, WriteCounterDoes, <1>inv, <1>noFault, SlotFacts
     DEF TornEntry, AliroInv, Storing, TypeOK, WriteLost
<1>12. CASE RemoveEvictable
  BY <1>12, RemoveEvictableDoes, <1>inv, <1>noFault, SlotFacts
     DEF TornEntry, AliroInv, Storing, TypeOK
<1>13. ASSUME NEW k \in Keys \cup {ZeroKey}, NEW fast \in BOOLEAN, fast \/ k \in Keys,
              VerifyPublicKey(k, fast)
      PROVE  TornEntry'
  BY <1>13, VerifyPublicKeyDoes, <1>inv DEF TornEntry
<1>14. CASE DestroyOldKpersistent
  BY <1>14, DestroyOldKpersistentDoes, <1>inv, <1>noFault, SlotFacts
     DEF TornEntry, AliroInv, Storing, TypeOK
<1>15. CASE PreserveKey
  BY <1>15, PreserveKeyDoes, <1>inv, <1>noFault, SlotFacts
     DEF TornEntry, AliroInv, Storing, TypeOK
<1>16. CASE PassOver("matter")
  BY <1>16, MatterPassOverDoes, <1>inv, <1>noFault, SlotFacts
     DEF TornEntry, AliroInv, Storing, TypeOK, ReadLost
<1>17. CASE Reset
  <2>1. A'.at = "idle" /\ torn' = torn \ {s \in torn : \A r \in torn : s <= r}
    BY <1>17, <1>inv, ResetDoes DEF DocumentsOwned, StartCauses
  <2>2. CASE A.at = "counter"
    <3>1. torn = {A.slot} /\ A.slot \in Nat
      BY <1>inv, <2>2, SlotFacts DEF TornEntry, AliroInv, Storing
    <3>2. {s \in torn : \A r \in torn : s <= r} = torn
      BY <3>1
    <3> QED
      BY <2>1, <3>2 DEF TornEntry
  <2>3. CASE A.at # "counter"
    BY <1>inv, <2>1, <2>3 DEF TornEntry
  <2> QED
    BY <2>2, <2>3
<1>18. CASE RemoveKey("aliro")
  BY <1>18, AliroRemoveKeyDoes, <1>inv, <1>noFault, SlotFacts
     DEF TornEntry, AliroInv, Storing, TypeOK
<1>19. CASE ClearAccessDocument("aliro")
  BY <1>19, AliroClearDocumentDoes, <1>inv, <1>noFault, SlotFacts
     DEF TornEntry, AliroInv, Storing, TypeOK
<1>20. CASE ClearAccessDocument("matter")
  BY <1>20, MatterClearDocumentDoes, <1>inv, <1>noFault, SlotFacts
     DEF TornEntry, AliroInv, Storing, TypeOK
<1>21. CASE RemoveKpersistent("aliro")
  BY <1>21, AliroRemoveKpersistentDoes, <1>inv, <1>noFault, SlotFacts
     DEF TornEntry, AliroInv, Storing, TypeOK
<1>22. CASE UNCHANGED <<A, torn>>
  BY <1>22, <1>inv, <1>noFault DEF TornEntry
<1> QED
  BY TornEntryTouched, <1>1, <1>2, <1>3, <1>4, <1>5, <1>6, <1>7, <1>8, <1>9, <1>10, <1>11,
     <1>12, <1>13, <1>14, <1>15, <1>16, <1>17, <1>18, <1>19, <1>20, <1>21, <1>22

LEMMA NothingSkippedTouched ==
  ASSUME IInv, [Next]_vars
  PROVE  \/ UNCHANGED <<A, M>>
         \/ \E d \in DocumentSet : StartDocument(d)
         \/ PassOver("aliro")
         \/ RemoveOldCredentials
         \/ StoreValidityIterations
         \/ RejectDocument
         \/ ChooseSlot
         \/ RemoveOldestCredential
         \/ UpdateEvictable
         \/ WriteEntry
         \/ WriteCounter
         \/ RemoveEvictable
         \/ \E k \in Keys \cup {ZeroKey}, fast \in BOOLEAN : (fast \/ k \in Keys) /\ VerifyPublicKey(k, fast)
         \/ DestroyOldKpersistent
         \/ PreserveKey
         \/ \E s \in AcSlots, k \in Keys : SetAccessCredential(s, k)
         \/ \E i \in Issuers : SetCredentialIssuer(i)
         \/ AddPublicKey
         \/ \E s \in Slots : ClearCredential(s)
         \/ \E i \in Issuers : ClearCredentialIssuer(i)
         \/ RemoveIssuerKey
         \/ PassOver("matter")
         \/ RemoveAccessCredentials
         \/ ClearValidityIterations
         \/ Commit
         \/ Reset
         \/ RemoveKey("aliro")
         \/ RemoveKey("matter")
         \/ ClearAccessDocument("aliro")
         \/ ClearAccessDocument("matter")
         \/ RemoveKpersistent("aliro")
         \/ RemoveKpersistent("matter")
<1>1. UNCHANGED vars => UNCHANGED <<A, M>>
  BY Zenon DEF vars, ram, store, nvs, A, M
<1> QED
  BY <1>1, Steps, ReadAccessDocumentDoes

(* A loop passes over a document if a read failed.                            *)
LEMMA NothingSkippedStep ==
  ASSUME IInv, [Next]_vars, upset' \cap {"read"} = {}
  PROVE  NothingSkipped'
<1>before. upset \cap {"read"} = {}
  BY UpsetGrows
<1>noFault. ~Fault("read")
  BY DEF Fault
<1>inv. NothingSkipped
  BY <1>before DEF IInv, Unless
<1>1. ASSUME NEW d \in DocumentSet, StartDocument(d)
      PROVE  NothingSkipped'
  BY <1>1, StartDocumentDoes, <1>inv, <1>noFault DEF NothingSkipped
<1>2. CASE PassOver("aliro")
  BY <1>2, AliroPassOverDoes, <1>inv, <1>noFault DEF NothingSkipped, ReadLost
<1>3. CASE RemoveOldCredentials
  BY <1>3, RemoveOldCredentialsDoes, <1>inv, <1>noFault DEF NothingSkipped
<1>4. CASE StoreValidityIterations
  BY <1>4, StoreValidityIterationsDoes, <1>inv, <1>noFault DEF NothingSkipped
<1>5. CASE RejectDocument
  BY <1>5, RejectDocumentDoes, <1>inv, <1>noFault DEF NothingSkipped
<1>6. CASE ChooseSlot
  BY <1>6, ChooseSlotDoes, <1>inv, <1>noFault DEF NothingSkipped
<1>7. CASE RemoveOldestCredential
  BY <1>7, RemoveOldestCredentialDoes, <1>inv, <1>noFault DEF NothingSkipped, ReadLost
<1>8. CASE UpdateEvictable
  BY <1>8, UpdateEvictableDoes, <1>inv, <1>noFault DEF NothingSkipped
<1>9. CASE WriteEntry
  BY <1>9, WriteEntryDoes, <1>inv, <1>noFault DEF NothingSkipped, WriteLost
<1>10. CASE WriteCounter
  BY <1>10, WriteCounterDoes, <1>inv, <1>noFault DEF NothingSkipped, WriteLost
<1>11. CASE RemoveEvictable
  BY <1>11, RemoveEvictableDoes, <1>inv, <1>noFault DEF NothingSkipped
<1>12. ASSUME NEW k \in Keys \cup {ZeroKey}, NEW fast \in BOOLEAN, fast \/ k \in Keys,
              VerifyPublicKey(k, fast)
      PROVE  NothingSkipped'
  BY <1>12, VerifyPublicKeyDoes, <1>inv, <1>noFault DEF NothingSkipped
<1>13. CASE DestroyOldKpersistent
  BY <1>13, DestroyOldKpersistentDoes, <1>inv, <1>noFault DEF NothingSkipped
<1>14. CASE PreserveKey
  BY <1>14, PreserveKeyDoes, <1>inv, <1>noFault DEF NothingSkipped
<1>15. ASSUME NEW s \in AcSlots, NEW k \in Keys, SetAccessCredential(s, k)
      PROVE  NothingSkipped'
  BY <1>15, SetAccessCredentialDoes, <1>inv, <1>noFault DEF NothingSkipped
<1>16. ASSUME NEW i \in Issuers, SetCredentialIssuer(i)
      PROVE  NothingSkipped'
  BY <1>16, SetCredentialIssuerDoes, <1>inv, <1>noFault DEF NothingSkipped
<1>17. CASE AddPublicKey
  BY <1>17, AddPublicKeyDoes, <1>inv, <1>noFault DEF NothingSkipped
<1>18. ASSUME NEW s \in Slots, ClearCredential(s)
      PROVE  NothingSkipped'
  BY <1>18, ClearCredentialDoes, <1>inv, <1>noFault DEF NothingSkipped
<1>19. ASSUME NEW i \in Issuers, ClearCredentialIssuer(i)
      PROVE  NothingSkipped'
  BY <1>19, ClearCredentialIssuerDoes, <1>inv, <1>noFault DEF NothingSkipped
<1>20. CASE RemoveIssuerKey
  BY <1>20, RemoveIssuerKeyDoes, <1>inv, <1>noFault DEF NothingSkipped
<1>21. CASE PassOver("matter")
  BY <1>21, MatterPassOverDoes, <1>inv, <1>noFault DEF NothingSkipped, ReadLost
<1>22. CASE RemoveAccessCredentials
  BY <1>22, RemoveAccessCredentialsDoes, <1>inv, <1>noFault DEF NothingSkipped
<1>23. CASE ClearValidityIterations
  BY <1>23, ClearValidityIterationsDoes, <1>inv, <1>noFault DEF NothingSkipped
<1>24. CASE Commit
  BY <1>24, CommitDoes, <1>inv, <1>noFault DEF NothingSkipped
<1>25. CASE Reset
  BY <1>25, ResetDoes, <1>inv, <1>noFault DEF NothingSkipped
<1>26. CASE RemoveKey("aliro")
  BY <1>26, AliroRemoveKeyDoes, <1>inv, <1>noFault DEF NothingSkipped
<1>27. CASE RemoveKey("matter")
  BY <1>27, MatterRemoveKeyDoes, <1>inv, <1>noFault DEF NothingSkipped
<1>28. CASE ClearAccessDocument("aliro")
  BY <1>28, AliroClearDocumentDoes, <1>inv, <1>noFault DEF NothingSkipped
<1>29. CASE ClearAccessDocument("matter")
  BY <1>29, MatterClearDocumentDoes, <1>inv, <1>noFault DEF NothingSkipped
<1>30. CASE RemoveKpersistent("aliro")
  BY <1>30, AliroRemoveKpersistentDoes, <1>inv, <1>noFault DEF NothingSkipped
<1>31. CASE RemoveKpersistent("matter")
  BY <1>31, MatterRemoveKpersistentDoes, <1>inv, <1>noFault DEF NothingSkipped
<1>32. CASE UNCHANGED <<A, M>>
  BY <1>32, <1>inv, <1>noFault DEF NothingSkipped
<1> QED
  BY NothingSkippedTouched, <1>1, <1>2, <1>3, <1>4, <1>5, <1>6, <1>7, <1>8, <1>9, <1>10, <1>11,
     <1>12, <1>13, <1>14, <1>15, <1>16, <1>17, <1>18, <1>19, <1>20, <1>21, <1>22, <1>23, <1>24,
     <1>25, <1>26, <1>27, <1>28, <1>29, <1>30, <1>31, <1>32

(* No key enters a slot whose document or Kpersistent key is being removed.   *)
LEMMA RemoveInvStep ==
  ASSUME IInv, [Next]_vars
  PROVE  RemoveInv'
<1>inv. RemoveInv /\ StoreInv /\ AliroInv /\ MatterInv /\ TypeOK
  BY DEF IInv
<1>1. ASSUME NEW d \in DocumentSet, StartDocument(d)
      PROVE  RemoveInv'
  BY <1>1, StartDocumentDoes, <1>inv, SlotFacts
     DEF RemoveInv, AliroInv, MatterInv, Writing, Expiring, RemoveSteps, TypeOK, Storing
<1>2. ASSUME NEW s \in AdSlots, ReadAccessDocument(s)
      PROVE  RemoveInv'
  BY <1>2, ReadAccessDocumentDoes, <1>inv, SlotFacts
     DEF RemoveInv, AliroInv, MatterInv, Writing, Expiring, RemoveSteps, TypeOK, Storing,
         ReadLost
<1>3. CASE PassOver("aliro")
  BY <1>3, AliroPassOverDoes, <1>inv, SlotFacts
     DEF RemoveInv, AliroInv, MatterInv, Writing, Expiring, RemoveSteps, TypeOK, Storing,
         ReadLost
<1>4. CASE RemoveOldCredentials
  BY <1>4, RemoveOldCredentialsDoes, <1>inv, SlotFacts
     DEF RemoveInv, AliroInv, MatterInv, Writing, Expiring, RemoveSteps, TypeOK, Storing
<1>5. CASE StoreValidityIterations
  BY <1>5, StoreValidityIterationsDoes, <1>inv, SlotFacts
     DEF RemoveInv, AliroInv, MatterInv, Writing, Expiring, RemoveSteps, TypeOK, Storing
<1>6. CASE RejectDocument
  BY <1>6, RejectDocumentDoes, <1>inv, SlotFacts
     DEF RemoveInv, AliroInv, MatterInv, Writing, Expiring, RemoveSteps, TypeOK, Storing
<1>7. CASE ChooseSlot
  BY <1>7, ChooseSlotDoes, <1>inv, SlotFacts
     DEF RemoveInv, AliroInv, MatterInv, Writing, Expiring, RemoveSteps, TypeOK, Storing
<1>8. CASE RemoveOldestCredential
  BY <1>8, RemoveOldestCredentialDoes, <1>inv, SlotFacts
     DEF RemoveInv, AliroInv, MatterInv, Writing, Expiring, RemoveSteps, TypeOK, Storing,
         ReadLost
<1>9. CASE UpdateEvictable
  BY <1>9, UpdateEvictableDoes, <1>inv, SlotFacts
     DEF RemoveInv, AliroInv, MatterInv, Writing, Expiring, RemoveSteps, TypeOK, Storing
<1>10. CASE WriteEntry
  BY <1>10, WriteEntryDoes, <1>inv, SlotFacts
     DEF RemoveInv, AliroInv, MatterInv, Writing, Expiring, RemoveSteps, TypeOK, Storing,
         WriteLost
<1>11. CASE WriteCounter
  BY <1>11, <1>inv, WriteCounterDoes DEF RemoveInv, StoreInv, WriteLost
<1>12. CASE RemoveEvictable
  BY <1>12, RemoveEvictableDoes, <1>inv, SlotFacts
     DEF RemoveInv, AliroInv, MatterInv, Writing, Expiring, RemoveSteps, TypeOK, Storing
<1>13. ASSUME NEW k \in Keys \cup {ZeroKey}, NEW fast \in BOOLEAN, fast \/ k \in Keys,
              VerifyPublicKey(k, fast)
      PROVE  RemoveInv'
  BY <1>13, <1>inv, VerifyPublicKeyDoes DEF RemoveInv
<1>14. CASE DestroyOldKpersistent
  BY <1>14, DestroyOldKpersistentDoes, <1>inv, SlotFacts
     DEF RemoveInv, AliroInv, MatterInv, Writing, Expiring, RemoveSteps, TypeOK, Storing
<1>15. CASE PreserveKey
  BY <1>15, PreserveKeyDoes, <1>inv, SlotFacts
     DEF RemoveInv, AliroInv, MatterInv, Writing, Expiring, RemoveSteps, TypeOK, Storing
<1>16. ASSUME NEW s \in AcSlots, NEW k \in Keys, SetAccessCredential(s, k)
      PROVE  RemoveInv'
  BY <1>16, SetAccessCredentialDoes, <1>inv, SlotFacts
     DEF RemoveInv, AliroInv, MatterInv, Writing, Expiring, RemoveSteps, TypeOK, Storing
<1>17. ASSUME NEW i \in Issuers, SetCredentialIssuer(i)
      PROVE  RemoveInv'
  BY <1>17, SetCredentialIssuerDoes, <1>inv, SlotFacts
     DEF RemoveInv, AliroInv, MatterInv, Writing, Expiring, RemoveSteps, TypeOK, Storing
<1>18. CASE AddPublicKey
  BY <1>18, AddPublicKeyDoes, <1>inv, SlotFacts
     DEF RemoveInv, AliroInv, MatterInv, Writing, Expiring, RemoveSteps, TypeOK, Storing
<1>19. ASSUME NEW s \in Slots, ClearCredential(s)
      PROVE  RemoveInv'
  BY <1>19, ClearCredentialDoes, <1>inv, SlotFacts
     DEF RemoveInv, AliroInv, MatterInv, Writing, Expiring, RemoveSteps, TypeOK, Storing
<1>20. ASSUME NEW i \in Issuers, ClearCredentialIssuer(i)
      PROVE  RemoveInv'
  BY <1>20, ClearCredentialIssuerDoes, <1>inv, SlotFacts
     DEF RemoveInv, AliroInv, MatterInv, Writing, Expiring, RemoveSteps, TypeOK, Storing
<1>21. CASE RemoveIssuerKey
  BY <1>21, RemoveIssuerKeyDoes, <1>inv, SlotFacts
     DEF RemoveInv, AliroInv, MatterInv, Writing, Expiring, RemoveSteps, TypeOK, Storing
<1>22. CASE PassOver("matter")
  BY <1>22, MatterPassOverDoes, <1>inv, SlotFacts
     DEF RemoveInv, AliroInv, MatterInv, Writing, Expiring, RemoveSteps, TypeOK, Storing,
         ReadLost
<1>23. CASE RemoveAccessCredentials
  BY <1>23, RemoveAccessCredentialsDoes, <1>inv, SlotFacts
     DEF RemoveInv, AliroInv, MatterInv, Writing, Expiring, RemoveSteps, TypeOK, Storing
<1>24. CASE ClearValidityIterations
  BY <1>24, ClearValidityIterationsDoes, <1>inv, SlotFacts
     DEF RemoveInv, AliroInv, MatterInv, Writing, Expiring, RemoveSteps, TypeOK, Storing
<1>25. CASE Commit
  BY <1>25, CommitDoes, <1>inv, SlotFacts
     DEF RemoveInv, AliroInv, MatterInv, Writing, Expiring, RemoveSteps, TypeOK, Storing
<1>26. CASE Reset
  BY <1>26, ResetDoes, <1>inv, SlotFacts
     DEF RemoveInv, AliroInv, MatterInv, Writing, Expiring, RemoveSteps, TypeOK, Storing
<1>27. CASE RemoveKey("aliro")
  BY <1>27, AliroRemoveKeyDoes, <1>inv, SlotFacts
     DEF RemoveInv, AliroInv, MatterInv, Writing, Expiring, RemoveSteps, TypeOK, Storing
<1>28. CASE RemoveKey("matter")
  BY <1>28, MatterRemoveKeyDoes, <1>inv, SlotFacts
     DEF RemoveInv, AliroInv, MatterInv, Writing, Expiring, RemoveSteps, TypeOK, Storing
<1>29. CASE ClearAccessDocument("aliro")
  BY <1>29, AliroClearDocumentDoes, <1>inv, SlotFacts
     DEF RemoveInv, AliroInv, MatterInv, Writing, Expiring, RemoveSteps, TypeOK, Storing
<1>30. CASE ClearAccessDocument("matter")
  BY <1>30, MatterClearDocumentDoes, <1>inv, SlotFacts
     DEF RemoveInv, AliroInv, MatterInv, Writing, Expiring, RemoveSteps, TypeOK, Storing
<1>31. CASE RemoveKpersistent("aliro")
  BY <1>31, AliroRemoveKpersistentDoes, <1>inv, SlotFacts
     DEF RemoveInv, AliroInv, MatterInv, Writing, Expiring, RemoveSteps, TypeOK, Storing
<1>32. CASE RemoveKpersistent("matter")
  BY <1>32, MatterRemoveKpersistentDoes, <1>inv, SlotFacts
     DEF RemoveInv, AliroInv, MatterInv, Writing, Expiring, RemoveSteps, TypeOK, Storing
<1>33. CASE UNCHANGED vars
  BY <1>33, <1>inv, SlotFacts
     DEF RemoveInv, AliroInv, MatterInv, Writing, Expiring, RemoveSteps, TypeOK, vars, ram,
         store, A, M, Storing, nvs
<1> QED
  BY Steps, <1>1, <1>2, <1>3, <1>4, <1>5, <1>6, <1>7, <1>8, <1>9, <1>10, <1>11, <1>12, <1>13,
     <1>14, <1>15, <1>16, <1>17, <1>18, <1>19, <1>20, <1>21, <1>22, <1>23, <1>24, <1>25, <1>26,
     <1>27, <1>28, <1>29, <1>30, <1>31, <1>32, <1>33

(* The removal of a document begins with its key; a document that is not      *)
(* removed has lost its key.                                                  *)
LEMMA DocumentsHaveKeysStep ==
  ASSUME IInv, [Next]_vars, upset' \cap {"delete"} = {}
  PROVE  DocumentsHaveKeys'
<1>before. upset \cap {"delete"} = {}
  BY UpsetGrows
<1>noFault. ~Fault("delete")
  BY DEF Fault
<1> SUFFICES ASSUME up', NEW x \in AdSlots, doc'[x] # NoDoc
             PROVE  key'[x] = doc'[x].key \/ key'[x] = ZeroKey \/ Gone(x)'
  BY DEF DocumentsHaveKeys
<1>inv. DocumentsHaveKeys /\ ProvInv /\ TurnInv /\ up \in BOOLEAN /\ AliroInv /\
        MatterInv /\ TypeOK
  BY <1>before DEF IInv, Unless, TypeOK
<1>1. ASSUME NEW d \in DocumentSet, StartDocument(d)
      PROVE  key'[x] = doc'[x].key \/ key'[x] = ZeroKey \/ Gone(x)'
  BY Zenon, <1>1, <1>inv, StartDocumentDoes DEF DocumentsHaveKeys, Gone
<1>2. ASSUME NEW s \in AdSlots, ReadAccessDocument(s)
      PROVE  key'[x] = doc'[x].key \/ key'[x] = ZeroKey \/ Gone(x)'
  <2>1. key' = key /\ up' = up /\ doc'[x] = doc[x]
    BY <1>2, <1>inv, ReadAccessDocumentDoes DEF TypeOK, ReadLost
  <2>2. Gone(x) => Gone(x)'
    BY <1>2, ReadAccessDocumentDoes DEF Gone, ReadLost
  <2> QED
    BY <1>inv, <2>1, <2>2 DEF DocumentsHaveKeys
<1>3. CASE PassOver("aliro")
  <2>1. key' = key /\ up' = up /\ doc'[x] = doc[x]
    BY <1>3, <1>inv, AliroPassOverDoes DEF TypeOK, ReadLost
  <2>2. Gone(x) => Gone(x)'
    BY <1>3, AliroPassOverDoes DEF Gone, ReadLost
  <2> QED
    BY <1>inv, <2>1, <2>2 DEF DocumentsHaveKeys
<1>4. CASE RemoveOldCredentials
  BY <1>4, RemoveOldCredentialsDoes, <1>inv, <1>noFault DEF DocumentsHaveKeys, Gone
<1>5. CASE StoreValidityIterations
  BY <1>5, StoreValidityIterationsDoes, <1>inv, <1>noFault DEF DocumentsHaveKeys, Gone
<1>6. CASE RejectDocument
  BY <1>6, RejectDocumentDoes, <1>inv, <1>noFault DEF DocumentsHaveKeys, Gone
<1>7. CASE ChooseSlot
  BY <1>7, ChooseSlotDoes, <1>inv, <1>noFault DEF DocumentsHaveKeys, Gone
<1>8. CASE RemoveOldestCredential
  <2>1. key' = key /\ up' = up /\ doc'[x] = doc[x]
    BY <1>8, <1>inv, RemoveOldestCredentialDoes DEF TypeOK, ReadLost
  <2>2. Gone(x) => Gone(x)'
    BY <1>8, RemoveOldestCredentialDoes DEF Gone, ReadLost
  <2> QED
    BY <1>inv, <2>1, <2>2 DEF DocumentsHaveKeys
<1>9. CASE UpdateEvictable
  BY <1>9, UpdateEvictableDoes, <1>inv, <1>noFault, SlotFacts, SentinelAssumption,
     DocumentFields
     DEF DocumentsHaveKeys, Gone, AliroInv, MatterInv, Iterating, Writing, RemoveSteps, TypeOK,
         TurnInv, Storing
<1>10. CASE WriteEntry
  BY <1>10, WriteEntryDoes, <1>inv, <1>noFault, SlotFacts, SentinelAssumption, DocumentFields
     DEF DocumentsHaveKeys, Gone, AliroInv, MatterInv, Iterating, Writing, RemoveSteps, TypeOK,
         TurnInv, Storing, WriteLost
<1>11. CASE WriteCounter
  BY <1>11, WriteCounterDoes, <1>inv, <1>noFault, SlotFacts, SentinelAssumption, DocumentFields
     DEF DocumentsHaveKeys, Gone, AliroInv, MatterInv, Iterating, Writing, RemoveSteps, TypeOK,
         TurnInv, Storing, WriteLost
<1>12. CASE RemoveEvictable
  BY <1>12, RemoveEvictableDoes, <1>inv, <1>noFault, SlotFacts, SentinelAssumption,
     DocumentFields
     DEF DocumentsHaveKeys, Gone, AliroInv, MatterInv, Iterating, Writing, RemoveSteps, TypeOK,
         TurnInv, Storing
<1>13. ASSUME NEW k \in Keys \cup {ZeroKey}, NEW fast \in BOOLEAN, fast \/ k \in Keys,
              VerifyPublicKey(k, fast)
      PROVE  key'[x] = doc'[x].key \/ key'[x] = ZeroKey \/ Gone(x)'
  BY <1>13, VerifyPublicKeyDoes, <1>inv, <1>noFault DEF DocumentsHaveKeys, Gone
<1>14. CASE DestroyOldKpersistent
  BY <1>14, DestroyOldKpersistentDoes, <1>inv, <1>noFault DEF DocumentsHaveKeys, Gone
<1>15. CASE PreserveKey
  BY <1>15, PreserveKeyDoes, <1>inv, <1>noFault DEF DocumentsHaveKeys, Gone
<1>16. ASSUME NEW s \in AcSlots, NEW k \in Keys, SetAccessCredential(s, k)
      PROVE  key'[x] = doc'[x].key \/ key'[x] = ZeroKey \/ Gone(x)'
  BY <1>16, SetAccessCredentialDoes, <1>inv, <1>noFault DEF DocumentsHaveKeys, Gone
<1>17. ASSUME NEW i \in Issuers, SetCredentialIssuer(i)
      PROVE  key'[x] = doc'[x].key \/ key'[x] = ZeroKey \/ Gone(x)'
  BY <1>17, SetCredentialIssuerDoes, <1>inv, <1>noFault DEF DocumentsHaveKeys, Gone
<1>18. CASE AddPublicKey
  <2>1. key'[x] = key[x]
    BY <1>18, <1>inv, AddPublicKeyDoes, SlotFacts DEF MatterInv, TypeOK
  <2>2. doc' = doc /\ up' = up /\ A' = A /\ M.at # "rmDoc"
    BY <1>18, AddPublicKeyDoes
  <2> QED
    BY <1>inv, <2>1, <2>2 DEF DocumentsHaveKeys, Gone
<1>19. ASSUME NEW s \in Slots, ClearCredential(s)
      PROVE  key'[x] = doc'[x].key \/ key'[x] = ZeroKey \/ Gone(x)'
  BY <1>19, ClearCredentialDoes, <1>inv, <1>noFault DEF DocumentsHaveKeys, Gone
<1>20. ASSUME NEW i \in Issuers, ClearCredentialIssuer(i)
      PROVE  key'[x] = doc'[x].key \/ key'[x] = ZeroKey \/ Gone(x)'
  BY <1>20, ClearCredentialIssuerDoes, <1>inv, <1>noFault DEF DocumentsHaveKeys, Gone
<1>21. CASE RemoveIssuerKey
  BY <1>21, RemoveIssuerKeyDoes, <1>inv, <1>noFault DEF DocumentsHaveKeys, Gone
<1>22. CASE PassOver("matter")
  <2>1. key' = key /\ up' = up /\ doc'[x] = doc[x]
    BY <1>22, <1>inv, MatterPassOverDoes DEF TypeOK, ReadLost
  <2>2. Gone(x) => Gone(x)'
    BY <1>22, MatterPassOverDoes DEF Gone, ReadLost
  <2> QED
    BY <1>inv, <2>1, <2>2 DEF DocumentsHaveKeys
<1>23. CASE RemoveAccessCredentials
  BY <1>23, RemoveAccessCredentialsDoes, <1>inv, <1>noFault DEF DocumentsHaveKeys, Gone
<1>24. CASE ClearValidityIterations
  BY <1>24, ClearValidityIterationsDoes, <1>inv, <1>noFault DEF DocumentsHaveKeys, Gone
<1>25. CASE Commit
  BY <1>25, CommitDoes, <1>inv, <1>noFault DEF DocumentsHaveKeys, Gone
<1>26. CASE Reset
  BY <1>26, ResetDoes, <1>inv, <1>noFault, SlotFacts, SentinelAssumption, DocumentFields
     DEF DocumentsHaveKeys, Gone, AliroInv, MatterInv, Iterating, Writing, RemoveSteps, TypeOK,
         ProvInv, Storing
<1>27. CASE RemoveKey("aliro")
  <2>1. doc' = doc /\ up' = up /\ M' = M /\ A.at = "rmKey"
    BY <1>27, AliroRemoveKeyDoes
  <2>2. key'[x] = key[x] \/ (x = A.slot /\ A'.at = "rmDoc" /\ A'.slot = A.slot)
    BY <1>27, <1>inv, AliroRemoveKeyDoes, SlotFacts
       DEF TypeOK, AliroInv, MatterInv, RemoveSteps, Storing
  <2> QED
    BY <1>inv, <2>1, <2>2 DEF DocumentsHaveKeys, Gone
<1>28. CASE RemoveKey("matter")
  <2>1. doc' = doc /\ up' = up /\ A' = A /\ M.at = "rmKey"
    BY <1>28, MatterRemoveKeyDoes
  <2>2. key'[x] = key[x] \/ (x = M.slot /\ M'.at = "rmDoc" /\ M'.slot = M.slot)
    BY <1>28, <1>inv, MatterRemoveKeyDoes, SlotFacts
       DEF TypeOK, AliroInv, MatterInv, RemoveSteps, Storing
  <2> QED
    BY <1>inv, <2>1, <2>2 DEF DocumentsHaveKeys, Gone
<1>29. CASE ClearAccessDocument("aliro")
  <2>1. key' = key /\ up' = up /\ M' = M /\ A.at = "rmDoc"
    BY <1>29, AliroClearDocumentDoes
  <2>2. doc' = [doc EXCEPT ![A.slot] = NoDoc] /\ x # A.slot /\ doc'[x] = doc[x]
    BY <1>29, <1>noFault, <1>inv, AliroClearDocumentDoes DEF TypeOK
  <2> QED
    BY <1>inv, <2>1, <2>2 DEF DocumentsHaveKeys, Gone
<1>30. CASE ClearAccessDocument("matter")
  <2>1. key' = key /\ up' = up /\ A' = A /\ M.at = "rmDoc"
    BY <1>30, MatterClearDocumentDoes
  <2>2. doc' = [doc EXCEPT ![M.slot] = NoDoc] /\ x # M.slot /\ doc'[x] = doc[x]
    BY <1>30, <1>noFault, <1>inv, MatterClearDocumentDoes DEF TypeOK
  <2> QED
    BY <1>inv, <2>1, <2>2 DEF DocumentsHaveKeys, Gone
<1>31. CASE RemoveKpersistent("aliro")
  BY <1>31, AliroRemoveKpersistentDoes, <1>inv, <1>noFault DEF DocumentsHaveKeys, Gone
<1>32. CASE RemoveKpersistent("matter")
  BY <1>32, MatterRemoveKpersistentDoes, <1>inv, <1>noFault DEF DocumentsHaveKeys, Gone
<1>33. CASE UNCHANGED vars
  BY <1>33, <1>inv, <1>noFault DEF DocumentsHaveKeys, Gone, vars, ram, store, A, M, nvs
<1> QED
  BY Steps, <1>1, <1>2, <1>3, <1>4, <1>5, <1>6, <1>7, <1>8, <1>9, <1>10, <1>11, <1>12, <1>13,
     <1>14, <1>15, <1>16, <1>17, <1>18, <1>19, <1>20, <1>21, <1>22, <1>23, <1>24, <1>25, <1>26,
     <1>27, <1>28, <1>29, <1>30, <1>31, <1>32, <1>33

LEMMA KeysHaveDocumentsTouched ==
  ASSUME IInv, [Next]_vars
  PROVE  \/ UNCHANGED <<A, key, doc>>
         \/ \E d \in DocumentSet : StartDocument(d)
         \/ \E s \in AdSlots : ReadAccessDocument(s)
         \/ PassOver("aliro")
         \/ RemoveOldCredentials
         \/ StoreValidityIterations
         \/ RejectDocument
         \/ ChooseSlot
         \/ RemoveOldestCredential
         \/ UpdateEvictable
         \/ WriteEntry
         \/ WriteCounter
         \/ RemoveEvictable
         \/ \E k \in Keys \cup {ZeroKey}, fast \in BOOLEAN : (fast \/ k \in Keys) /\ VerifyPublicKey(k, fast)
         \/ DestroyOldKpersistent
         \/ PreserveKey
         \/ AddPublicKey
         \/ PassOver("matter")
         \/ Reset
         \/ RemoveKey("aliro")
         \/ RemoveKey("matter")
         \/ ClearAccessDocument("aliro")
         \/ ClearAccessDocument("matter")
         \/ RemoveKpersistent("aliro")
<1>1. UNCHANGED vars => UNCHANGED <<A, key, doc>>
  BY Zenon DEF vars, ram, store, nvs, A, M
<1> QED
  BY <1>1, Steps, SetAccessCredentialDoes, SetCredentialIssuerDoes, ClearCredentialDoes,
     ClearCredentialIssuerDoes, RemoveIssuerKeyDoes, RemoveAccessCredentialsDoes,
     ClearValidityIterationsDoes, CommitDoes, MatterRemoveKpersistentDoes

(* A key enters the slot of a document with the document.                     *)
LEMMA KeysHaveDocumentsStep ==
  ASSUME IInv, [Next]_vars, upset' \cap {"write", "read"} = {}
  PROVE  KeysHaveDocuments'
<1>before. upset \cap {"write", "read"} = {}
  BY UpsetGrows
<1>noFault. ~Fault("write") /\ ~Fault("read")
  BY DEF Fault
<1>inv. KeysHaveDocuments /\ ProvInv /\ RemoveInv /\ AliroInv /\ MatterInv /\ TypeOK
  BY <1>before DEF IInv, Unless
<1>1. ASSUME NEW d \in DocumentSet, StartDocument(d)
      PROVE  KeysHaveDocuments'
  BY <1>1, StartDocumentDoes, <1>inv, <1>noFault, SlotFacts, SentinelAssumption, DocumentFields
     DEF KeysHaveDocuments, AliroInv, MatterInv, Iterating, Writing, RemoveSteps, TypeOK,
         Storing, Between
<1>2. ASSUME NEW s \in AdSlots, ReadAccessDocument(s)
      PROVE  KeysHaveDocuments'
  BY <1>2, ReadAccessDocumentDoes, <1>inv, <1>noFault, SlotFacts, SentinelAssumption,
     DocumentFields
     DEF KeysHaveDocuments, AliroInv, MatterInv, Iterating, Writing, RemoveSteps, TypeOK,
         Storing, Between, ReadLost
<1>3. CASE PassOver("aliro")
  BY <1>3, AliroPassOverDoes, <1>inv, <1>noFault, SlotFacts, SentinelAssumption, DocumentFields
     DEF KeysHaveDocuments, AliroInv, MatterInv, Iterating, Writing, RemoveSteps, TypeOK,
         Storing, Between, ReadLost
<1>4. CASE RemoveOldCredentials
  BY <1>4, RemoveOldCredentialsDoes, <1>inv, <1>noFault, SlotFacts, SentinelAssumption,
     DocumentFields
     DEF KeysHaveDocuments, AliroInv, MatterInv, Iterating, Writing, RemoveSteps, TypeOK,
         Storing, Between
<1>5. CASE StoreValidityIterations
  BY <1>5, StoreValidityIterationsDoes, <1>inv, <1>noFault, SlotFacts, SentinelAssumption,
     DocumentFields
     DEF KeysHaveDocuments, AliroInv, MatterInv, Iterating, Writing, RemoveSteps, TypeOK,
         Storing, Between
<1>6. CASE RejectDocument
  BY <1>6, RejectDocumentDoes, <1>inv, <1>noFault, SlotFacts, SentinelAssumption,
     DocumentFields
     DEF KeysHaveDocuments, AliroInv, MatterInv, Iterating, Writing, RemoveSteps, TypeOK,
         Storing, Between
<1>7. CASE ChooseSlot
  BY <1>7, ChooseSlotDoes, <1>inv, <1>noFault, SlotFacts, SentinelAssumption, DocumentFields
     DEF KeysHaveDocuments, AliroInv, MatterInv, Iterating, Writing, RemoveSteps, TypeOK,
         Storing, Between
<1>8. CASE RemoveOldestCredential
  BY <1>8, RemoveOldestCredentialDoes, <1>inv, <1>noFault, SlotFacts, SentinelAssumption,
     DocumentFields
     DEF KeysHaveDocuments, AliroInv, MatterInv, Iterating, Writing, RemoveSteps, TypeOK,
         Storing, Between, ReadLost
<1>9. CASE UpdateEvictable
  BY <1>9, UpdateEvictableDoes, <1>inv, <1>noFault, SlotFacts, SentinelAssumption,
     DocumentFields
     DEF KeysHaveDocuments, AliroInv, MatterInv, Iterating, Writing, RemoveSteps, TypeOK,
         Storing, Between
<1>10. CASE WriteEntry
  BY <1>10, WriteEntryDoes, <1>inv, <1>noFault, SlotFacts, SentinelAssumption, DocumentFields
     DEF KeysHaveDocuments, AliroInv, MatterInv, Iterating, Writing, RemoveSteps, TypeOK,
         Storing, Between, WriteLost
<1>11. CASE WriteCounter
  BY <1>11, WriteCounterDoes, <1>inv, <1>noFault, SlotFacts, SentinelAssumption, DocumentFields
     DEF KeysHaveDocuments, AliroInv, MatterInv, Iterating, Writing, RemoveSteps, TypeOK,
         Storing, Between, WriteLost
<1>12. CASE RemoveEvictable
  BY <1>12, RemoveEvictableDoes, <1>inv, <1>noFault, SlotFacts, SentinelAssumption,
     DocumentFields
     DEF KeysHaveDocuments, AliroInv, MatterInv, Iterating, Writing, RemoveSteps, TypeOK,
         Storing, Between
<1>13. ASSUME NEW k \in Keys \cup {ZeroKey}, NEW fast \in BOOLEAN, fast \/ k \in Keys,
              VerifyPublicKey(k, fast)
      PROVE  KeysHaveDocuments'
  BY <1>13, VerifyPublicKeyDoes, <1>inv, <1>noFault, SlotFacts, SentinelAssumption,
     DocumentFields
     DEF KeysHaveDocuments, AliroInv, MatterInv, Iterating, Writing, RemoveSteps, TypeOK,
         Storing, Between
<1>14. CASE DestroyOldKpersistent
  BY <1>14, DestroyOldKpersistentDoes, <1>inv, <1>noFault, SlotFacts, SentinelAssumption,
     DocumentFields
     DEF KeysHaveDocuments, AliroInv, MatterInv, Iterating, Writing, RemoveSteps, TypeOK,
         Storing, Between
<1>15. CASE PreserveKey
  BY <1>15, PreserveKeyDoes, <1>inv, <1>noFault, SlotFacts, SentinelAssumption, DocumentFields
     DEF KeysHaveDocuments, AliroInv, MatterInv, Iterating, Writing, RemoveSteps, TypeOK,
         Storing, Between
<1>16. CASE AddPublicKey
  BY <1>16, AddPublicKeyDoes, <1>inv, <1>noFault, SlotFacts, SentinelAssumption, DocumentFields
     DEF KeysHaveDocuments, AliroInv, MatterInv, Iterating, Writing, RemoveSteps, TypeOK,
         Storing, Between
<1>17. CASE PassOver("matter")
  BY <1>17, MatterPassOverDoes, <1>inv, <1>noFault, SlotFacts, SentinelAssumption,
     DocumentFields
     DEF KeysHaveDocuments, AliroInv, MatterInv, Iterating, Writing, RemoveSteps, TypeOK,
         Storing, Between, ReadLost
<1>18. CASE Reset
  BY <1>18, ResetDoes, <1>inv, <1>noFault, SlotFacts, SentinelAssumption, DocumentFields
     DEF KeysHaveDocuments, AliroInv, MatterInv, Iterating, Writing, RemoveSteps, TypeOK,
         ProvInv, Storing, Between
<1>19. CASE RemoveKey("aliro")
  BY <1>19, AliroRemoveKeyDoes, <1>inv, <1>noFault, SlotFacts, SentinelAssumption,
     DocumentFields
     DEF KeysHaveDocuments, AliroInv, MatterInv, Iterating, Writing, RemoveSteps, TypeOK,
         Storing, Between
<1>20. CASE RemoveKey("matter")
  BY <1>20, MatterRemoveKeyDoes, <1>inv, <1>noFault, SlotFacts, SentinelAssumption,
     DocumentFields
     DEF KeysHaveDocuments, AliroInv, MatterInv, Iterating, Writing, RemoveSteps, TypeOK,
         Storing, Between
<1>21. CASE ClearAccessDocument("aliro")
  BY <1>21, AliroClearDocumentDoes, <1>inv, <1>noFault, SlotFacts, SentinelAssumption,
     DocumentFields
     DEF KeysHaveDocuments, AliroInv, MatterInv, Iterating, Writing, RemoveSteps, TypeOK,
         RemoveInv, Storing, Between
<1>22. CASE ClearAccessDocument("matter")
  BY <1>22, MatterClearDocumentDoes, <1>inv, <1>noFault, SlotFacts, SentinelAssumption,
     DocumentFields
     DEF KeysHaveDocuments, AliroInv, MatterInv, Iterating, Writing, RemoveSteps, TypeOK,
         RemoveInv, Storing, Between
<1>23. CASE RemoveKpersistent("aliro")
  BY <1>23, AliroRemoveKpersistentDoes, <1>inv, <1>noFault, SlotFacts, SentinelAssumption,
     DocumentFields
     DEF KeysHaveDocuments, AliroInv, MatterInv, Iterating, Writing, RemoveSteps, TypeOK,
         Storing, Between
<1>24. CASE UNCHANGED <<A, key, doc>>
  BY <1>24, <1>inv, <1>noFault, SlotFacts, SentinelAssumption, DocumentFields
     DEF KeysHaveDocuments, AliroInv, MatterInv, Iterating, Writing, RemoveSteps, TypeOK,
         Storing, Between
<1> QED
  BY KeysHaveDocumentsTouched, <1>1, <1>2, <1>3, <1>4, <1>5, <1>6, <1>7, <1>8, <1>9, <1>10,
     <1>11, <1>12, <1>13, <1>14, <1>15, <1>16, <1>17, <1>18, <1>19, <1>20, <1>21, <1>22, <1>23,
     <1>24

LEMMA NoZeroKeyTouched ==
  ASSUME IInv, [Next]_vars
  PROVE  \/ UNCHANGED <<key>>
         \/ WriteCounter
         \/ AddPublicKey
         \/ Reset
         \/ RemoveKey("aliro")
         \/ RemoveKey("matter")
<1>1. UNCHANGED vars => UNCHANGED <<key>>
  BY Zenon DEF vars, ram, store, nvs, A, M
<1> QED
  BY <1>1, Steps, StartDocumentDoes, ReadAccessDocumentDoes, AliroPassOverDoes,
     RemoveOldCredentialsDoes, StoreValidityIterationsDoes, RejectDocumentDoes, ChooseSlotDoes,
     RemoveOldestCredentialDoes, UpdateEvictableDoes, WriteEntryDoes, RemoveEvictableDoes,
     VerifyPublicKeyDoes, DestroyOldKpersistentDoes, PreserveKeyDoes, SetAccessCredentialDoes,
     SetCredentialIssuerDoes, ClearCredentialDoes, ClearCredentialIssuerDoes,
     RemoveIssuerKeyDoes, MatterPassOverDoes, RemoveAccessCredentialsDoes,
     ClearValidityIterationsDoes, CommitDoes, AliroClearDocumentDoes, MatterClearDocumentDoes,
     AliroRemoveKpersistentDoes, MatterRemoveKpersistentDoes

(* The key of zeros enters by a reset only.                                   *)
LEMMA NoZeroKeyStep ==
  ASSUME IInv, [Next]_vars, upset' \cap {"zero"} = {}
  PROVE  NoZeroKey'
<1>before. upset \cap {"zero"} = {}
  BY UpsetGrows
<1>noFault. "zero" \notin upset'
  BY DEF Fault
<1>inv. NoZeroKey /\ ProvInv /\ AliroInv /\ MatterInv /\ TypeOK
  BY <1>before DEF IInv, Unless
<1>1. CASE WriteCounter
  BY <1>1, WriteCounterDoes, <1>inv, <1>noFault, SlotFacts, SentinelAssumption, DocumentFields
     DEF NoZeroKey, AliroInv, MatterInv, Iterating, Writing, RemoveSteps, TypeOK, Storing,
         WriteLost
<1>2. CASE AddPublicKey
  BY <1>2, AddPublicKeyDoes, <1>inv, <1>noFault, SlotFacts, SentinelAssumption, DocumentFields
     DEF NoZeroKey, AliroInv, MatterInv, Iterating, Writing, RemoveSteps, TypeOK, Storing
<1>3. CASE Reset
  BY <1>3, ResetDoes, <1>inv, <1>noFault, SlotFacts, SentinelAssumption, DocumentFields
     DEF NoZeroKey, AliroInv, MatterInv, Iterating, Writing, RemoveSteps, TypeOK, ProvInv,
         Storing
<1>4. CASE RemoveKey("aliro")
  BY <1>4, AliroRemoveKeyDoes, <1>inv, <1>noFault, SlotFacts, SentinelAssumption,
     DocumentFields
     DEF NoZeroKey, AliroInv, MatterInv, Iterating, Writing, RemoveSteps, TypeOK, Storing
<1>5. CASE RemoveKey("matter")
  BY <1>5, MatterRemoveKeyDoes, <1>inv, <1>noFault, SlotFacts, SentinelAssumption,
     DocumentFields
     DEF NoZeroKey, AliroInv, MatterInv, Iterating, Writing, RemoveSteps, TypeOK, Storing
<1>6. CASE UNCHANGED <<key>>
  BY <1>6, <1>inv, <1>noFault, SlotFacts, SentinelAssumption, DocumentFields
     DEF NoZeroKey, AliroInv, MatterInv, Iterating, Writing, RemoveSteps, TypeOK, Storing
<1> QED
  BY NoZeroKeyTouched, <1>1, <1>2, <1>3, <1>4, <1>5, <1>6

LEMMA OneDocumentTouched ==
  ASSUME IInv, [Next]_vars
  PROVE  \/ UNCHANGED <<doc>>
         \/ \E s \in AdSlots : ReadAccessDocument(s)
         \/ PassOver("aliro")
         \/ RemoveOldestCredential
         \/ WriteEntry
         \/ WriteCounter
         \/ PassOver("matter")
         \/ Reset
         \/ ClearAccessDocument("aliro")
         \/ ClearAccessDocument("matter")
<1>1. UNCHANGED vars => UNCHANGED <<doc>>
  BY Zenon DEF vars, ram, store, nvs, A, M
<1> QED
  BY <1>1, Steps, StartDocumentDoes, RemoveOldCredentialsDoes, StoreValidityIterationsDoes,
     RejectDocumentDoes, ChooseSlotDoes, UpdateEvictableDoes, RemoveEvictableDoes,
     VerifyPublicKeyDoes, DestroyOldKpersistentDoes, PreserveKeyDoes, SetAccessCredentialDoes,
     SetCredentialIssuerDoes, AddPublicKeyDoes, ClearCredentialDoes, ClearCredentialIssuerDoes,
     RemoveIssuerKeyDoes, RemoveAccessCredentialsDoes, ClearValidityIterationsDoes, CommitDoes,
     AliroRemoveKeyDoes, MatterRemoveKeyDoes, AliroRemoveKpersistentDoes,
     MatterRemoveKpersistentDoes

(* A document is written to a slot whose key is its own, or is free.          *)
LEMMA OneDocumentStep ==
  ASSUME IInv, [Next]_vars, upset' \cap {"delete", "zero"} = {}
  PROVE  OneDocument'
<1>before. upset \cap {"delete", "zero"} = {}
  BY UpsetGrows
<1>noFault. ~Fault("delete") /\ "zero" \notin upset'
  BY DEF Fault
<1>inv. OneDocument /\ StoreInv /\ DocumentsHaveKeys /\ NoZeroKey /\ OwnSlot /\ TurnInv /\ AliroInv /\
        MatterInv /\ TypeOK
  BY <1>before DEF IInv, Unless
<1>1. ASSUME NEW s \in AdSlots, ReadAccessDocument(s)
      PROVE  OneDocument'
  BY <1>1, ReadAccessDocumentDoes, <1>inv, <1>noFault, SlotFacts, SentinelAssumption,
     DocumentFields
     DEF OneDocument, AliroInv, MatterInv, Iterating, Writing, RemoveSteps, TypeOK,
         DocumentsHaveKeys, NoZeroKey, OwnSlot, TurnInv, Gone, Storing, ReadLost
<1>2. CASE PassOver("aliro")
  BY <1>2, AliroPassOverDoes, <1>inv, <1>noFault, SlotFacts, SentinelAssumption, DocumentFields
     DEF OneDocument, AliroInv, MatterInv, Iterating, Writing, RemoveSteps, TypeOK,
         DocumentsHaveKeys, NoZeroKey, OwnSlot, TurnInv, Gone, Storing, ReadLost
<1>3. CASE RemoveOldestCredential
  BY <1>3, RemoveOldestCredentialDoes, <1>inv, <1>noFault, SlotFacts, SentinelAssumption,
     DocumentFields
     DEF OneDocument, AliroInv, MatterInv, Iterating, Writing, RemoveSteps, TypeOK,
         DocumentsHaveKeys, NoZeroKey, OwnSlot, TurnInv, Gone, Storing, ReadLost
<1>4. CASE WriteEntry
  BY <1>4, WriteEntryDoes, <1>inv, <1>noFault, SlotFacts, SentinelAssumption, DocumentFields
     DEF OneDocument, AliroInv, MatterInv, Iterating, Writing, RemoveSteps, TypeOK,
         DocumentsHaveKeys, NoZeroKey, OwnSlot, TurnInv, Gone, Storing, WriteLost
<1>5. CASE WriteCounter
  <2>1. ASSUME NEW r \in AdSlots, doc[r] # NoDoc, doc[r].key = A.key
        PROVE  r = A.slot
    <3>1. key[r] = doc[r].key
      BY <1>5, <1>inv, <2>1, WriteCounterDoes
         DEF DocumentsHaveKeys, NoZeroKey, TurnInv, StoreInv, Gone, WriteLost
    <3> QED
      BY <1>5, <1>inv, <2>1, <3>1, WriteCounterDoes DEF OwnSlot, Writing, Storing, WriteLost
  <2>2. A.slot \in AdSlots /\ A.key = A.doc.key /\ doc \in [AdSlots -> DocumentSet \cup {NoDoc}]
    BY <1>5, <1>inv, WriteCounterDoes DEF AliroInv, Writing, Storing, TypeOK, WriteLost
  <2>3. \A r \in AdSlots : doc'[r] = doc[r] \/ doc'[r] = NoDoc \/ (r = A.slot /\ doc'[r] = A.doc)
    BY <1>5, <2>2, WriteCounterDoes DEF WriteLost
  <2> QED
    BY <1>inv, <2>1, <2>2, <2>3 DEF OneDocument
<1>6. CASE PassOver("matter")
  BY <1>6, MatterPassOverDoes, <1>inv, <1>noFault, SlotFacts, SentinelAssumption,
     DocumentFields
     DEF OneDocument, AliroInv, MatterInv, Iterating, Writing, RemoveSteps, TypeOK,
         DocumentsHaveKeys, NoZeroKey, OwnSlot, TurnInv, Gone, Storing, ReadLost
<1>7. CASE Reset
  BY <1>7, ResetDoes, <1>inv, <1>noFault, SlotFacts, SentinelAssumption, DocumentFields
     DEF OneDocument, AliroInv, MatterInv, Iterating, Writing, RemoveSteps, TypeOK,
         DocumentsHaveKeys, NoZeroKey, OwnSlot, TurnInv, Gone, Storing
<1>8. CASE ClearAccessDocument("aliro")
  BY <1>8, AliroClearDocumentDoes, <1>inv, <1>noFault, SlotFacts, SentinelAssumption,
     DocumentFields
     DEF OneDocument, AliroInv, MatterInv, Iterating, Writing, RemoveSteps, TypeOK, Storing
<1>9. CASE ClearAccessDocument("matter")
  BY <1>9, MatterClearDocumentDoes, <1>inv, <1>noFault, SlotFacts, SentinelAssumption,
     DocumentFields
     DEF OneDocument, AliroInv, MatterInv, Iterating, Writing, RemoveSteps, TypeOK, Storing
<1>10. CASE UNCHANGED <<doc>>
  BY <1>10, <1>inv, <1>noFault, SlotFacts, SentinelAssumption, DocumentFields
     DEF OneDocument, AliroInv, MatterInv, Iterating, Writing, RemoveSteps, TypeOK, Storing
<1> QED
  BY OneDocumentTouched, <1>1, <1>2, <1>3, <1>4, <1>5, <1>6, <1>7, <1>8, <1>9, <1>10

LEMMA OneSlotTouched ==
  ASSUME IInv, [Next]_vars
  PROVE  \/ UNCHANGED <<key>>
         \/ WriteCounter
         \/ AddPublicKey
         \/ Reset
         \/ RemoveKey("aliro")
         \/ RemoveKey("matter")
<1>1. UNCHANGED vars => UNCHANGED <<key>>
  BY Zenon DEF vars, ram, store, nvs, A, M
<1> QED
  BY <1>1, Steps, StartDocumentDoes, ReadAccessDocumentDoes, AliroPassOverDoes,
     RemoveOldCredentialsDoes, StoreValidityIterationsDoes, RejectDocumentDoes, ChooseSlotDoes,
     RemoveOldestCredentialDoes, UpdateEvictableDoes, WriteEntryDoes, RemoveEvictableDoes,
     VerifyPublicKeyDoes, DestroyOldKpersistentDoes, PreserveKeyDoes, SetAccessCredentialDoes,
     SetCredentialIssuerDoes, ClearCredentialDoes, ClearCredentialIssuerDoes,
     RemoveIssuerKeyDoes, MatterPassOverDoes, RemoveAccessCredentialsDoes,
     ClearValidityIterationsDoes, CommitDoes, AliroClearDocumentDoes, MatterClearDocumentDoes,
     AliroRemoveKpersistentDoes, MatterRemoveKpersistentDoes

(* A key is put in the slot OwnSlot tells, or is loaded with its only         *)
(* document.                                                                  *)
LEMMA OneSlotStep ==
  ASSUME IInv, [Next]_vars, upset' \cap {"delete", "zero"} = {}
  PROVE  OneSlot'
<1>before. upset \cap {"delete", "zero"} = {}
  BY UpsetGrows
<1>noFault. ~Fault("delete") /\ "zero" \notin upset'
  BY DEF Fault
<1>inv. OneSlot /\ ProvInv /\ OneDocument /\ OwnSlot /\ AliroInv /\ MatterInv /\ TypeOK
  BY <1>before DEF IInv, Unless
<1>1. CASE WriteCounter
  BY <1>1, WriteCounterDoes, <1>inv, <1>noFault, SlotFacts, SentinelAssumption, DocumentFields
     DEF OneSlot, AliroInv, MatterInv, Iterating, Writing, RemoveSteps, TypeOK, OwnSlot,
         Storing, WriteLost
<1>2. CASE AddPublicKey
  BY <1>2, AddPublicKeyDoes, <1>inv, <1>noFault, SlotFacts, SentinelAssumption, DocumentFields
     DEF OneSlot, AliroInv, MatterInv, Iterating, Writing, RemoveSteps, TypeOK, Storing
<1>3. CASE Reset
  BY <1>3, ResetDoes, <1>inv, <1>noFault, SlotFacts, SentinelAssumption, DocumentFields
     DEF OneSlot, AliroInv, MatterInv, Iterating, Writing, RemoveSteps, TypeOK, ProvInv,
         OneDocument, Storing
<1>4. CASE RemoveKey("aliro")
  BY <1>4, AliroRemoveKeyDoes, <1>inv, <1>noFault, SlotFacts, SentinelAssumption,
     DocumentFields
     DEF OneSlot, AliroInv, MatterInv, Iterating, Writing, RemoveSteps, TypeOK, Storing
<1>5. CASE RemoveKey("matter")
  BY <1>5, MatterRemoveKeyDoes, <1>inv, <1>noFault, SlotFacts, SentinelAssumption,
     DocumentFields
     DEF OneSlot, AliroInv, MatterInv, Iterating, Writing, RemoveSteps, TypeOK, Storing
<1>6. CASE UNCHANGED <<key>>
  BY <1>6, <1>inv, <1>noFault, SlotFacts, SentinelAssumption, DocumentFields
     DEF OneSlot, AliroInv, MatterInv, Iterating, Writing, RemoveSteps, TypeOK, Storing
<1> QED
  BY OneSlotTouched, <1>1, <1>2, <1>3, <1>4, <1>5, <1>6

LEMMA OwnSlotTouched ==
  ASSUME IInv, [Next]_vars
  PROVE  \/ UNCHANGED <<A, key>>
         \/ \E d \in DocumentSet : StartDocument(d)
         \/ PassOver("aliro")
         \/ RemoveOldCredentials
         \/ StoreValidityIterations
         \/ RejectDocument
         \/ ChooseSlot
         \/ RemoveOldestCredential
         \/ UpdateEvictable
         \/ WriteEntry
         \/ WriteCounter
         \/ RemoveEvictable
         \/ \E k \in Keys \cup {ZeroKey}, fast \in BOOLEAN : (fast \/ k \in Keys) /\ VerifyPublicKey(k, fast)
         \/ DestroyOldKpersistent
         \/ PreserveKey
         \/ AddPublicKey
         \/ Reset
         \/ RemoveKey("aliro")
         \/ RemoveKey("matter")
         \/ ClearAccessDocument("aliro")
         \/ RemoveKpersistent("aliro")
<1>1. UNCHANGED vars => UNCHANGED <<A, key>>
  BY Zenon DEF vars, ram, store, nvs, A, M
<1> QED
  BY <1>1, Steps, ReadAccessDocumentDoes, SetAccessCredentialDoes, SetCredentialIssuerDoes,
     ClearCredentialDoes, ClearCredentialIssuerDoes, RemoveIssuerKeyDoes, MatterPassOverDoes,
     RemoveAccessCredentialsDoes, ClearValidityIterationsDoes, CommitDoes,
     MatterClearDocumentDoes, MatterRemoveKpersistentDoes

(* The slot that is chosen is the device's own if it has one; the key that    *)
(* leaves to make room is another's.                                          *)
LEMMA OwnSlotStep ==
  ASSUME IInv, [Next]_vars, upset' \cap {"delete", "zero"} = {}
  PROVE  OwnSlot'
<1>before. upset \cap {"delete", "zero"} = {}
  BY UpsetGrows
<1>noFault. ~Fault("delete") /\ "zero" \notin upset'
  BY DEF Fault
<1>inv. OwnSlot /\ OneSlot /\ AliroInv /\ MatterInv /\ TypeOK
  BY <1>before DEF IInv, Unless
<1>1. ASSUME NEW d \in DocumentSet, StartDocument(d)
      PROVE  OwnSlot'
  BY <1>1, StartDocumentDoes, <1>inv, <1>noFault, SlotFacts, SentinelAssumption, DocumentFields
     DEF OwnSlot, AliroInv, MatterInv, Iterating, Writing, RemoveSteps, TypeOK, Storing
<1>2. CASE PassOver("aliro")
  BY <1>2, AliroPassOverDoes, <1>inv, <1>noFault, SlotFacts, SentinelAssumption, DocumentFields
     DEF OwnSlot, AliroInv, MatterInv, Iterating, Writing, RemoveSteps, TypeOK, Storing,
         ReadLost
<1>3. CASE RemoveOldCredentials
  BY <1>3, RemoveOldCredentialsDoes, <1>inv, <1>noFault, SlotFacts, SentinelAssumption,
     DocumentFields
     DEF OwnSlot, AliroInv, MatterInv, Iterating, Writing, RemoveSteps, TypeOK, Storing
<1>4. CASE StoreValidityIterations
  BY <1>4, StoreValidityIterationsDoes, <1>inv, <1>noFault, SlotFacts, SentinelAssumption,
     DocumentFields
     DEF OwnSlot, AliroInv, MatterInv, Iterating, Writing, RemoveSteps, TypeOK, Storing
<1>5. CASE RejectDocument
  BY <1>5, RejectDocumentDoes, <1>inv, <1>noFault, SlotFacts, SentinelAssumption,
     DocumentFields
     DEF OwnSlot, AliroInv, MatterInv, Iterating, Writing, RemoveSteps, TypeOK, Storing
<1>6. CASE ChooseSlot
  <2>1. key' = key /\ A'.key = A.key /\ A.key # NoKey /\ A.key \in Keys
    BY <1>6, <1>inv, ChooseSlotDoes, DocumentFields, SentinelAssumption DEF AliroInv, Storing
  <2>2. A'.at \in {"write", "rmKey"}
    BY <1>6, ChooseSlotDoes
  <2>3. CASE key[A'.slot] = A.key
    BY <1>6, <1>inv, <2>1, <2>3, ChooseSlotDoes DEF OneSlot, OwnSlot
  <2>4. CASE \A r \in AdSlots : key[r] # A.key
    BY <1>6, <1>inv, <2>1, <2>4, ChooseSlotDoes DEF OwnSlot, RemoveSteps
  <2> QED
    BY <1>6, <2>3, <2>4, ChooseSlotDoes
<1>7. CASE RemoveOldestCredential
  <2>1. /\ key' = key /\ A'.key = A.key /\ A.at = "check"
        /\ \A r \in AdSlots : key[r] # A.key
    BY <1>7, RemoveOldestCredentialDoes DEF ReadLost
  <2> QED
    BY <2>1 DEF OwnSlot
<1>8. CASE UpdateEvictable
  BY <1>8, UpdateEvictableDoes, <1>inv, <1>noFault, SlotFacts, SentinelAssumption,
     DocumentFields
     DEF OwnSlot, AliroInv, MatterInv, Iterating, Writing, RemoveSteps, TypeOK, Storing
<1>9. CASE WriteEntry
  BY <1>9, WriteEntryDoes, <1>inv, <1>noFault, SlotFacts, SentinelAssumption, DocumentFields
     DEF OwnSlot, AliroInv, MatterInv, Iterating, Writing, RemoveSteps, TypeOK, Storing,
         WriteLost
<1>10. CASE WriteCounter
  BY <1>10, WriteCounterDoes, <1>inv, <1>noFault, SlotFacts, SentinelAssumption, DocumentFields
     DEF OwnSlot, AliroInv, MatterInv, Iterating, Writing, RemoveSteps, TypeOK, Storing,
         WriteLost
<1>11. CASE RemoveEvictable
  BY <1>11, RemoveEvictableDoes, <1>inv, <1>noFault, SlotFacts, SentinelAssumption,
     DocumentFields
     DEF OwnSlot, AliroInv, MatterInv, Iterating, Writing, RemoveSteps, TypeOK, Storing
<1>12. ASSUME NEW k \in Keys \cup {ZeroKey}, NEW fast \in BOOLEAN, fast \/ k \in Keys,
              VerifyPublicKey(k, fast)
      PROVE  OwnSlot'
  BY <1>12, VerifyPublicKeyDoes, <1>inv, <1>noFault, SlotFacts, SentinelAssumption,
     DocumentFields
     DEF OwnSlot, AliroInv, MatterInv, Iterating, Writing, RemoveSteps, TypeOK, Storing
<1>13. CASE DestroyOldKpersistent
  BY <1>13, DestroyOldKpersistentDoes, <1>inv, <1>noFault, SlotFacts, SentinelAssumption,
     DocumentFields
     DEF OwnSlot, AliroInv, MatterInv, Iterating, Writing, RemoveSteps, TypeOK, Storing
<1>14. CASE PreserveKey
  BY <1>14, PreserveKeyDoes, <1>inv, <1>noFault, SlotFacts, SentinelAssumption, DocumentFields
     DEF OwnSlot, AliroInv, MatterInv, Iterating, Writing, RemoveSteps, TypeOK, Storing
<1>15. CASE AddPublicKey
  BY <1>15, AddPublicKeyDoes, <1>inv, <1>noFault, SlotFacts, SentinelAssumption, DocumentFields
     DEF OwnSlot, AliroInv, MatterInv, Iterating, Writing, RemoveSteps, TypeOK, Storing
<1>16. CASE Reset
  BY <1>16, ResetDoes, <1>inv, <1>noFault, SlotFacts, SentinelAssumption, DocumentFields
     DEF OwnSlot, AliroInv, MatterInv, Iterating, Writing, RemoveSteps, TypeOK, Storing
<1>17. CASE RemoveKey("aliro")
  BY <1>17, AliroRemoveKeyDoes, <1>inv, <1>noFault, SlotFacts, SentinelAssumption,
     DocumentFields
     DEF OwnSlot, AliroInv, MatterInv, Iterating, Writing, RemoveSteps, TypeOK, Storing
<1>18. CASE RemoveKey("matter")
  BY <1>18, MatterRemoveKeyDoes, <1>inv, <1>noFault, SlotFacts, SentinelAssumption,
     DocumentFields
     DEF OwnSlot, AliroInv, MatterInv, Iterating, Writing, RemoveSteps, TypeOK, Storing
<1>19. CASE ClearAccessDocument("aliro")
  BY <1>19, AliroClearDocumentDoes, <1>inv, <1>noFault, SlotFacts, SentinelAssumption,
     DocumentFields
     DEF OwnSlot, AliroInv, MatterInv, Iterating, Writing, RemoveSteps, TypeOK, Storing
<1>20. CASE RemoveKpersistent("aliro")
  BY <1>20, AliroRemoveKpersistentDoes, <1>inv, <1>noFault, SlotFacts, SentinelAssumption,
     DocumentFields
     DEF OwnSlot, AliroInv, MatterInv, Iterating, Writing, RemoveSteps, TypeOK, Storing
<1>21. CASE UNCHANGED <<A, key>>
  BY <1>21, <1>inv, <1>noFault, SlotFacts, SentinelAssumption, DocumentFields
     DEF OwnSlot, AliroInv, MatterInv, Iterating, Writing, RemoveSteps, TypeOK, Storing
<1> QED
  BY OwnSlotTouched, <1>1, <1>2, <1>3, <1>4, <1>5, <1>6, <1>7, <1>8, <1>9, <1>10, <1>11, <1>12,
     <1>13, <1>14, <1>15, <1>16, <1>17, <1>18, <1>19, <1>20, <1>21

LEMMA CopiesFollowTouched ==
  ASSUME IInv, [Next]_vars
  PROVE  \/ UNCHANGED <<A, doc, evict, up>>
         \/ \E d \in DocumentSet : StartDocument(d)
         \/ \E s \in AdSlots : ReadAccessDocument(s)
         \/ PassOver("aliro")
         \/ RemoveOldCredentials
         \/ StoreValidityIterations
         \/ RejectDocument
         \/ ChooseSlot
         \/ RemoveOldestCredential
         \/ UpdateEvictable
         \/ WriteEntry
         \/ WriteCounter
         \/ RemoveEvictable
         \/ \E k \in Keys \cup {ZeroKey}, fast \in BOOLEAN : (fast \/ k \in Keys) /\ VerifyPublicKey(k, fast)
         \/ DestroyOldKpersistent
         \/ PreserveKey
         \/ PassOver("matter")
         \/ Reset
         \/ RemoveKey("aliro")
         \/ ClearAccessDocument("aliro")
         \/ ClearAccessDocument("matter")
         \/ RemoveKpersistent("aliro")
<1>1. UNCHANGED vars => UNCHANGED <<A, doc, evict, up>>
  BY Zenon DEF vars, ram, store, nvs, A, M
<1> QED
  BY <1>1, Steps, SetAccessCredentialDoes, SetCredentialIssuerDoes, AddPublicKeyDoes,
     ClearCredentialDoes, ClearCredentialIssuerDoes, RemoveIssuerKeyDoes,
     RemoveAccessCredentialsDoes, ClearValidityIterationsDoes, CommitDoes, MatterRemoveKeyDoes,
     MatterRemoveKpersistentDoes

(* Matter's copy changes together with the document.                          *)
LEMMA CopiesFollowStep ==
  ASSUME IInv, [Next]_vars, upset' \cap {"write", "read", "delete", "zero"} = {}
  PROVE  CopiesFollow'
<1>before. upset \cap {"write", "read", "delete", "zero"} = {}
  BY UpsetGrows
<1>noFault. ~Fault("write") /\ ~Fault("read") /\ ~Fault("delete") /\ "zero" \notin upset'
  BY DEF Fault
<1> SUFFICES ASSUME up', NEW x \in AdSlots
             PROVE  evict'[x] = CopyOf(doc'[x]) \/ (A'.at \in {"entry", "counter"} /\ A'.slot = x)
  BY DEF CopiesFollow
<1>inv. CopiesFollow /\ StoreInv /\ TurnInv /\ AliroInv /\ MatterInv /\ TypeOK
  BY <1>before DEF IInv, Unless
<1>1. ASSUME NEW d \in DocumentSet, StartDocument(d)
      PROVE  evict'[x] = CopyOf(doc'[x]) \/ (A'.at \in {"entry", "counter"} /\ A'.slot = x)
  BY <1>1, StartDocumentDoes, <1>inv, <1>noFault DEF CopiesFollow
<1>2. ASSUME NEW s \in AdSlots, ReadAccessDocument(s)
      PROVE  evict'[x] = CopyOf(doc'[x]) \/ (A'.at \in {"entry", "counter"} /\ A'.slot = x)
  BY <1>2, ReadAccessDocumentDoes, <1>inv, <1>noFault DEF CopiesFollow, ReadLost
<1>3. CASE PassOver("aliro")
  BY <1>3, AliroPassOverDoes, <1>inv, <1>noFault DEF CopiesFollow, ReadLost
<1>4. CASE RemoveOldCredentials
  BY <1>4, RemoveOldCredentialsDoes, <1>inv, <1>noFault DEF CopiesFollow
<1>5. CASE StoreValidityIterations
  BY <1>5, StoreValidityIterationsDoes, <1>inv, <1>noFault DEF CopiesFollow
<1>6. CASE RejectDocument
  BY <1>6, RejectDocumentDoes, <1>inv, <1>noFault DEF CopiesFollow
<1>7. CASE ChooseSlot
  BY <1>7, ChooseSlotDoes, <1>inv, <1>noFault DEF CopiesFollow
<1>8. CASE RemoveOldestCredential
  BY <1>8, RemoveOldestCredentialDoes, <1>inv, <1>noFault DEF CopiesFollow, ReadLost
<1>9. CASE UpdateEvictable
  BY <1>9, <1>inv, UpdateEvictableDoes DEF CopiesFollow, AliroInv, TypeOK, Storing
<1>10. CASE WriteEntry
  <2>1. up' = up /\ evict' = evict /\ A.at = "entry" /\ A'.at = "counter" /\ A'.slot = A.slot
    BY <1>10, <1>noFault, WriteEntryDoes DEF WriteLost
  <2>2. x # A.slot => doc'[x] = doc[x]
    BY <1>10, <1>noFault, <1>inv, WriteEntryDoes DEF TypeOK, WriteLost
  <2> QED
    BY <1>inv, <2>1, <2>2 DEF CopiesFollow
<1>11. CASE WriteCounter
  <2>1. /\ up' = up /\ evict' = evict /\ A.at = "counter" /\ A.doc # NoDoc /\ A.key = A.doc.key
        /\ evict[A.slot] = A.key
    BY <1>11, <1>inv, WriteCounterDoes, DocumentFields
       DEF AliroInv, Writing, StoreInv, Storing, WriteLost
  <2>2. IF x = A.slot THEN doc'[x] = A.doc ELSE doc'[x] = doc[x]
    BY <1>11, <1>noFault, <1>inv, WriteCounterDoes DEF TypeOK, WriteLost
  <2> QED
    BY <1>inv, <2>1, <2>2 DEF CopiesFollow, CopyOf
<1>12. CASE RemoveEvictable
  BY <1>12, <1>inv, <1>before, RemoveEvictableDoes DEF StoreInv
<1>13. ASSUME NEW k \in Keys \cup {ZeroKey}, NEW fast \in BOOLEAN, fast \/ k \in Keys,
              VerifyPublicKey(k, fast)
      PROVE  evict'[x] = CopyOf(doc'[x]) \/ (A'.at \in {"entry", "counter"} /\ A'.slot = x)
  BY <1>13, VerifyPublicKeyDoes, <1>inv, <1>noFault DEF CopiesFollow
<1>14. CASE DestroyOldKpersistent
  BY <1>14, DestroyOldKpersistentDoes, <1>inv, <1>noFault DEF CopiesFollow
<1>15. CASE PreserveKey
  BY <1>15, PreserveKeyDoes, <1>inv, <1>noFault DEF CopiesFollow
<1>16. CASE PassOver("matter")
  BY <1>16, MatterPassOverDoes, <1>inv, <1>noFault DEF CopiesFollow, ReadLost
<1>17. CASE Reset
  BY <1>17, ResetDoes DEF CopyOf
<1>18. CASE RemoveKey("aliro")
  BY <1>18, AliroRemoveKeyDoes, <1>inv, <1>noFault DEF CopiesFollow
<1>19. CASE ClearAccessDocument("aliro")
  <2>1. /\ up' = up /\ (A' = A \/ A.at = "rmDoc")
        /\ doc' = [doc EXCEPT ![A.slot] = NoDoc] /\ evict' = [evict EXCEPT ![A.slot] = NoKey]
    BY <1>19, <1>noFault, AliroClearDocumentDoes
  <2>2. IF x = A.slot THEN doc'[x] = NoDoc /\ evict'[x] = NoKey ELSE doc'[x] = doc[x] /\ evict'[x] = evict[x]
    BY <1>inv, <2>1 DEF TypeOK
  <2> QED
    BY <1>inv, <2>1, <2>2 DEF CopiesFollow, CopyOf
<1>20. CASE ClearAccessDocument("matter")
  <2>1. /\ up' = up /\ (A' = A \/ A.at = "rmDoc")
        /\ doc' = [doc EXCEPT ![M.slot] = NoDoc] /\ evict' = [evict EXCEPT ![M.slot] = NoKey]
    BY <1>20, <1>noFault, MatterClearDocumentDoes
  <2>2. IF x = M.slot THEN doc'[x] = NoDoc /\ evict'[x] = NoKey ELSE doc'[x] = doc[x] /\ evict'[x] = evict[x]
    BY <1>inv, <2>1 DEF TypeOK
  <2> QED
    BY <1>inv, <2>1, <2>2 DEF CopiesFollow, CopyOf
<1>21. CASE RemoveKpersistent("aliro")
  BY <1>21, AliroRemoveKpersistentDoes, <1>inv, <1>noFault DEF CopiesFollow
<1>22. CASE UNCHANGED <<A, doc, evict, up>>
  BY <1>22, <1>inv, <1>noFault, SlotFacts, SentinelAssumption, DocumentFields
     DEF CopiesFollow, CopyOf, AliroInv, MatterInv, Iterating, Writing, RemoveSteps, TypeOK,
         Storing
<1> QED
  BY CopiesFollowTouched, <1>1, <1>2, <1>3, <1>4, <1>5, <1>6, <1>7, <1>8, <1>9, <1>10, <1>11,
     <1>12, <1>13, <1>14, <1>15, <1>16, <1>17, <1>18, <1>19, <1>20, <1>21, <1>22

LEMMA FreeSlotInvTouched ==
  ASSUME IInv, [Next]_vars
  PROVE  \/ UNCHANGED <<A, key>>
         \/ \E d \in DocumentSet : StartDocument(d)
         \/ PassOver("aliro")
         \/ RemoveOldCredentials
         \/ StoreValidityIterations
         \/ RejectDocument
         \/ ChooseSlot
         \/ RemoveOldestCredential
         \/ UpdateEvictable
         \/ WriteEntry
         \/ WriteCounter
         \/ RemoveEvictable
         \/ \E k \in Keys \cup {ZeroKey}, fast \in BOOLEAN : (fast \/ k \in Keys) /\ VerifyPublicKey(k, fast)
         \/ DestroyOldKpersistent
         \/ PreserveKey
         \/ AddPublicKey
         \/ Reset
         \/ RemoveKey("aliro")
         \/ RemoveKey("matter")
         \/ ClearAccessDocument("aliro")
         \/ RemoveKpersistent("aliro")
<1>1. UNCHANGED vars => UNCHANGED <<A, key>>
  BY Zenon DEF vars, ram, store, nvs, A, M
<1> QED
  BY <1>1, Steps, ReadAccessDocumentDoes, SetAccessCredentialDoes, SetCredentialIssuerDoes,
     ClearCredentialDoes, ClearCredentialIssuerDoes, RemoveIssuerKeyDoes, MatterPassOverDoes,
     RemoveAccessCredentialsDoes, ClearValidityIterationsDoes, CommitDoes,
     MatterClearDocumentDoes, MatterRemoveKpersistentDoes

(* Nothing takes the slot that sMutex protects.                               *)
LEMMA FreeSlotInvStep ==
  ASSUME IInv, [Next]_vars
  PROVE  FreeSlotInv'
<1>inv. FreeSlotInv /\ RemoveInv /\ AliroInv /\ MatterInv /\ TypeOK
  BY DEF IInv
<1>1. ASSUME NEW d \in DocumentSet, StartDocument(d)
      PROVE  FreeSlotInv'
  BY <1>1, StartDocumentDoes, <1>inv, SlotFacts, SentinelAssumption, DocumentFields
     DEF FreeSlotInv, AliroInv, MatterInv, Iterating, Writing, RemoveSteps, TypeOK, Storing
<1>2. CASE PassOver("aliro")
  BY <1>2, AliroPassOverDoes, <1>inv, SlotFacts, SentinelAssumption, DocumentFields
     DEF FreeSlotInv, AliroInv, MatterInv, Iterating, Writing, RemoveSteps, TypeOK, Storing,
         ReadLost
<1>3. CASE RemoveOldCredentials
  BY <1>3, RemoveOldCredentialsDoes, <1>inv, SlotFacts, SentinelAssumption, DocumentFields
     DEF FreeSlotInv, AliroInv, MatterInv, Iterating, Writing, RemoveSteps, TypeOK, Storing
<1>4. CASE StoreValidityIterations
  BY <1>4, StoreValidityIterationsDoes, <1>inv, SlotFacts, SentinelAssumption, DocumentFields
     DEF FreeSlotInv, AliroInv, MatterInv, Iterating, Writing, RemoveSteps, TypeOK, Storing
<1>5. CASE RejectDocument
  BY <1>5, RejectDocumentDoes, <1>inv, SlotFacts, SentinelAssumption, DocumentFields
     DEF FreeSlotInv, AliroInv, MatterInv, Iterating, Writing, RemoveSteps, TypeOK, Storing
<1>6. CASE ChooseSlot
  <2>1. key' = key /\ A'.key = A.key
    BY <1>6, ChooseSlotDoes
  <2> QED
    BY <1>6, <2>1, ChooseSlotDoes DEF FreeSlotInv, Storing
<1>7. CASE RemoveOldestCredential
  BY <1>7, RemoveOldestCredentialDoes, <1>inv, SlotFacts, SentinelAssumption, DocumentFields
     DEF FreeSlotInv, AliroInv, MatterInv, Iterating, Writing, RemoveSteps, TypeOK, Storing,
         ReadLost
<1>8. CASE UpdateEvictable
  BY <1>8, UpdateEvictableDoes, <1>inv, SlotFacts, SentinelAssumption, DocumentFields
     DEF FreeSlotInv, AliroInv, MatterInv, Iterating, Writing, RemoveSteps, TypeOK, Storing
<1>9. CASE WriteEntry
  BY <1>9, WriteEntryDoes, <1>inv, SlotFacts, SentinelAssumption, DocumentFields
     DEF FreeSlotInv, AliroInv, MatterInv, Iterating, Writing, RemoveSteps, TypeOK, Storing,
         WriteLost
<1>10. CASE WriteCounter
  BY <1>10, WriteCounterDoes, <1>inv, SlotFacts, SentinelAssumption, DocumentFields
     DEF FreeSlotInv, AliroInv, MatterInv, Iterating, Writing, RemoveSteps, TypeOK, Storing,
         WriteLost
<1>11. CASE RemoveEvictable
  BY <1>11, RemoveEvictableDoes, <1>inv, SlotFacts, SentinelAssumption, DocumentFields
     DEF FreeSlotInv, AliroInv, MatterInv, Iterating, Writing, RemoveSteps, TypeOK, Storing
<1>12. ASSUME NEW k \in Keys \cup {ZeroKey}, NEW fast \in BOOLEAN, fast \/ k \in Keys,
              VerifyPublicKey(k, fast)
      PROVE  FreeSlotInv'
  BY <1>12, VerifyPublicKeyDoes, <1>inv, SlotFacts, SentinelAssumption, DocumentFields
     DEF FreeSlotInv, AliroInv, MatterInv, Iterating, Writing, RemoveSteps, TypeOK, Storing
<1>13. CASE DestroyOldKpersistent
  BY <1>13, DestroyOldKpersistentDoes, <1>inv, SlotFacts, SentinelAssumption, DocumentFields
     DEF FreeSlotInv, AliroInv, MatterInv, Iterating, Writing, RemoveSteps, TypeOK, Storing
<1>14. CASE PreserveKey
  BY <1>14, PreserveKeyDoes, <1>inv, SlotFacts, SentinelAssumption, DocumentFields
     DEF FreeSlotInv, AliroInv, MatterInv, Iterating, Writing, RemoveSteps, TypeOK, Storing
<1>15. CASE AddPublicKey
  BY <1>15, AddPublicKeyDoes, <1>inv, SlotFacts, SentinelAssumption, DocumentFields
     DEF FreeSlotInv, AliroInv, MatterInv, Iterating, Writing, RemoveSteps, TypeOK, Storing
<1>16. CASE Reset
  BY <1>16, ResetDoes, <1>inv, SlotFacts, SentinelAssumption, DocumentFields
     DEF FreeSlotInv, AliroInv, MatterInv, Iterating, Writing, RemoveSteps, TypeOK, Storing
<1>17. CASE RemoveKey("aliro")
  BY <1>17, AliroRemoveKeyDoes, <1>inv, SlotFacts, SentinelAssumption, DocumentFields
     DEF FreeSlotInv, AliroInv, MatterInv, Iterating, Writing, RemoveSteps, TypeOK, Storing
<1>18. CASE RemoveKey("matter")
  BY <1>18, MatterRemoveKeyDoes, <1>inv, SlotFacts, SentinelAssumption, DocumentFields
     DEF FreeSlotInv, AliroInv, MatterInv, Iterating, Writing, RemoveSteps, TypeOK, Storing
<1>19. CASE ClearAccessDocument("aliro")
  BY <1>19, AliroClearDocumentDoes, <1>inv, SlotFacts, SentinelAssumption, DocumentFields
     DEF FreeSlotInv, AliroInv, MatterInv, Iterating, Writing, RemoveSteps, TypeOK, Storing
<1>20. CASE RemoveKpersistent("aliro")
  BY <1>20, AliroRemoveKpersistentDoes, <1>inv, SlotFacts, SentinelAssumption, DocumentFields
     DEF FreeSlotInv, AliroInv, MatterInv, Iterating, Writing, RemoveSteps, TypeOK, RemoveInv,
         Storing
<1>21. CASE UNCHANGED <<A, key>>
  BY <1>21, <1>inv, SlotFacts, SentinelAssumption, DocumentFields
     DEF FreeSlotInv, AliroInv, MatterInv, Iterating, Writing, RemoveSteps, TypeOK, Storing
<1> QED
  BY FreeSlotInvTouched, <1>1, <1>2, <1>3, <1>4, <1>5, <1>6, <1>7, <1>8, <1>9, <1>10, <1>11,
     <1>12, <1>13, <1>14, <1>15, <1>16, <1>17, <1>18, <1>19, <1>20, <1>21

LEMMA DocumentsRecentTouched ==
  ASSUME IInv, [Next]_vars
  PROVE  \/ UNCHANGED <<doc, vi>>
         \/ \E s \in AdSlots : ReadAccessDocument(s)
         \/ PassOver("aliro")
         \/ StoreValidityIterations
         \/ RemoveOldestCredential
         \/ WriteEntry
         \/ WriteCounter
         \/ PassOver("matter")
         \/ ClearValidityIterations
         \/ Reset
         \/ ClearAccessDocument("aliro")
         \/ ClearAccessDocument("matter")
<1>1. UNCHANGED vars => UNCHANGED <<doc, vi>>
  BY Zenon DEF vars, ram, store, nvs, A, M
<1> QED
  BY <1>1, Steps, StartDocumentDoes, RemoveOldCredentialsDoes, RejectDocumentDoes,
     ChooseSlotDoes, UpdateEvictableDoes, RemoveEvictableDoes, VerifyPublicKeyDoes,
     DestroyOldKpersistentDoes, PreserveKeyDoes, SetAccessCredentialDoes,
     SetCredentialIssuerDoes, AddPublicKeyDoes, ClearCredentialDoes, ClearCredentialIssuerDoes,
     RemoveIssuerKeyDoes, RemoveAccessCredentialsDoes, CommitDoes, AliroRemoveKeyDoes,
     MatterRemoveKeyDoes, AliroRemoveKpersistentDoes, MatterRemoveKpersistentDoes

(* The document that is written was checked; the iteration that is stored has *)
(* no older document.                                                         *)
LEMMA DocumentsRecentStep ==
  ASSUME IInv, [Next]_vars, upset' \cap {"delete", "read", "overlap"} = {}
  PROVE  DocumentsRecent'
<1>before. upset \cap {"delete", "read", "overlap"} = {}
  BY UpsetGrows
<1>noFault. ~Fault("delete") /\ ~Fault("read") /\ "overlap" \notin upset'
  BY DEF Fault
<1> SUFFICES ASSUME NEW x \in AdSlots, doc'[x] # NoDoc, doc'[x].carried
             PROVE  ~TooOld(vi'[doc'[x].ci], doc'[x].iter)
  BY DEF DocumentsRecent
<1>inv. DocumentsRecent /\ NothingSkipped /\ DocumentsHaveKeys /\ CheckedRecent /\ TurnInv /\
        "overlap" \notin upset /\ AliroInv /\ MatterInv /\ TypeOK
  BY <1>before DEF IInv, Unless
<1>1. ASSUME NEW s \in AdSlots, ReadAccessDocument(s)
      PROVE  ~TooOld(vi'[doc'[x].ci], doc'[x].iter)
  <2>1. vi' = vi /\ doc'[x] = doc[x]
    BY <1>1, <1>inv, <1>noFault, ReadAccessDocumentDoes DEF TypeOK, ReadLost
  <2> QED
    BY <1>inv, <2>1 DEF DocumentsRecent
<1>2. CASE PassOver("aliro")
  <2>1. vi' = vi /\ doc'[x] = doc[x]
    BY <1>2, <1>inv, <1>noFault, AliroPassOverDoes DEF TypeOK, ReadLost
  <2> QED
    BY <1>inv, <2>1 DEF DocumentsRecent
<1>3. CASE StoreValidityIterations
  <2>1. key[x] # NoKey /\ doc' = doc /\ A.skip = {}
    BY <1>3, <1>inv, StoreValidityIterationsDoes, DocumentFields, SentinelAssumption
       DEF DocumentsHaveKeys, TurnInv, MatterInv, Gone, TypeOK, NothingSkipped
  <2>2. vi'[doc[x].ci] = vi[doc[x].ci] \/ (doc[x].ci = A.ci /\ vi'[doc[x].ci] = A.cur)
    <3>1. doc[x].ci \in Issuers
      BY <1>inv, <2>1, DocumentFields DEF TypeOK
    <3> QED
      BY <1>3, <1>inv, <3>1, StoreValidityIterationsDoes DEF TypeOK
  <2> QED
    BY <1>3, <1>inv, <2>1, <2>2, StoreValidityIterationsDoes DEF DocumentsRecent
<1>4. CASE RemoveOldestCredential
  <2>1. vi' = vi /\ doc'[x] = doc[x]
    BY <1>4, <1>inv, <1>noFault, RemoveOldestCredentialDoes DEF TypeOK, ReadLost
  <2> QED
    BY <1>inv, <2>1 DEF DocumentsRecent
<1>5. CASE WriteEntry
  <2>1. vi' = vi /\ doc'[x] = doc[x]
    BY <1>5, <1>inv, <1>noFault, WriteEntryDoes DEF TypeOK, WriteLost
  <2> QED
    BY <1>inv, <2>1 DEF DocumentsRecent
<1>6. CASE WriteCounter
  <2>1. vi' = vi /\ A.ci = A.doc.ci /\ (doc'[x] = doc[x] \/ doc'[x] = A.doc)
    BY <1>6, <1>inv, WriteCounterDoes DEF AliroInv, Writing, TypeOK, Storing, WriteLost
  <2> QED
    BY <1>6, <1>inv, <2>1, WriteCounterDoes
       DEF DocumentsRecent, CheckedRecent, Writing, Storing, WriteLost
<1>7. CASE PassOver("matter")
  <2>1. vi' = vi /\ doc'[x] = doc[x]
    BY <1>7, <1>inv, <1>noFault, MatterPassOverDoes DEF TypeOK, ReadLost
  <2> QED
    BY <1>inv, <2>1 DEF DocumentsRecent
<1>8. CASE ClearValidityIterations
  <2>1. doc' = doc /\ (vi'[doc[x].ci] = vi[doc[x].ci] \/ vi'[doc[x].ci] = 0)
    <3>1. doc' = doc
      BY <1>8, ClearValidityIterationsDoes
    <3>2. doc[x].ci \in Issuers
      BY <1>inv, <3>1, DocumentFields DEF TypeOK
    <3> QED
      BY <1>8, <1>inv, <3>1, <3>2, ClearValidityIterationsDoes DEF TypeOK
  <2>2. ~TooOld(0, doc[x].iter)
    BY <1>inv, <2>1, DocumentFields, BoundsAssumption DEF TooOld, TypeOK
  <2> QED
    BY <1>inv, <2>1, <2>2 DEF DocumentsRecent
<1>9. CASE Reset
  <2>1. vi' = vi /\ doc'[x] = doc[x]
    BY <1>9, <1>inv, <1>noFault, ResetDoes DEF TypeOK
  <2> QED
    BY <1>inv, <2>1 DEF DocumentsRecent
<1>10. CASE ClearAccessDocument("aliro")
  <2>1. vi' = vi /\ doc'[x] = doc[x]
    BY <1>10, <1>inv, AliroClearDocumentDoes DEF TypeOK
  <2> QED
    BY <1>inv, <2>1 DEF DocumentsRecent
<1>11. CASE ClearAccessDocument("matter")
  <2>1. vi' = vi /\ doc'[x] = doc[x]
    BY <1>11, <1>inv, MatterClearDocumentDoes DEF TypeOK
  <2> QED
    BY <1>inv, <2>1 DEF DocumentsRecent
<1>12. CASE UNCHANGED <<doc, vi>>
  BY <1>12, <1>inv, <1>noFault, SlotFacts, SentinelAssumption, DocumentFields DEF DocumentsRecent
<1> QED
  BY DocumentsRecentTouched, <1>1, <1>2, <1>3, <1>4, <1>5, <1>6, <1>7, <1>8, <1>9, <1>10,
     <1>11, <1>12

LEMMA UpdateRecentTouched ==
  ASSUME IInv, [Next]_vars
  PROVE  \/ UNCHANGED <<A, vi>>
         \/ \E d \in DocumentSet : StartDocument(d)
         \/ PassOver("aliro")
         \/ RemoveOldCredentials
         \/ StoreValidityIterations
         \/ RejectDocument
         \/ ChooseSlot
         \/ RemoveOldestCredential
         \/ UpdateEvictable
         \/ WriteEntry
         \/ WriteCounter
         \/ RemoveEvictable
         \/ \E k \in Keys \cup {ZeroKey}, fast \in BOOLEAN : (fast \/ k \in Keys) /\ VerifyPublicKey(k, fast)
         \/ DestroyOldKpersistent
         \/ PreserveKey
         \/ ClearValidityIterations
         \/ Reset
         \/ RemoveKey("aliro")
         \/ ClearAccessDocument("aliro")
         \/ RemoveKpersistent("aliro")
<1>1. UNCHANGED vars => UNCHANGED <<A, vi>>
  BY Zenon DEF vars, ram, store, nvs, A, M
<1> QED
  BY <1>1, Steps, ReadAccessDocumentDoes, SetAccessCredentialDoes, SetCredentialIssuerDoes,
     AddPublicKeyDoes, ClearCredentialDoes, ClearCredentialIssuerDoes, RemoveIssuerKeyDoes,
     MatterPassOverDoes, RemoveAccessCredentialsDoes, CommitDoes, MatterRemoveKeyDoes,
     MatterClearDocumentDoes, MatterRemoveKpersistentDoes

(* Nothing else changes the iteration that is being replaced.                 *)
LEMMA UpdateRecentStep ==
  ASSUME IInv, [Next]_vars, upset' \cap {"overlap"} = {}
  PROVE  UpdateRecent'
<1>before. upset \cap {"overlap"} = {}
  BY UpsetGrows
<1>noFault. "overlap" \notin upset'
  BY DEF Fault
<1>inv. UpdateRecent /\ TurnInv /\ AliroInv /\ MatterInv /\ TypeOK
  BY <1>before DEF IInv, Unless
<1>1. ASSUME NEW d \in DocumentSet, StartDocument(d)
      PROVE  UpdateRecent'
  BY <1>1, StartDocumentDoes, <1>inv, <1>noFault DEF UpdateRecent, Iterating, RemoveSteps
<1>2. CASE PassOver("aliro")
  BY <1>2, AliroPassOverDoes, <1>inv DEF UpdateRecent, Iterating, RemoveSteps, ReadLost
<1>3. CASE RemoveOldCredentials
  BY <1>3, RemoveOldCredentialsDoes, <1>inv, <1>noFault DEF UpdateRecent, Iterating, RemoveSteps
<1>4. CASE StoreValidityIterations
  BY <1>4, StoreValidityIterationsDoes, <1>inv, <1>noFault DEF UpdateRecent, Iterating, RemoveSteps
<1>5. CASE RejectDocument
  BY <1>5, RejectDocumentDoes, <1>inv, <1>noFault DEF UpdateRecent, Iterating, RemoveSteps
<1>6. CASE ChooseSlot
  BY <1>6, ChooseSlotDoes, <1>inv, <1>noFault DEF UpdateRecent, Iterating, RemoveSteps
<1>7. CASE RemoveOldestCredential
  BY <1>7, RemoveOldestCredentialDoes DEF UpdateRecent, Iterating, RemoveSteps, ReadLost
<1>8. CASE UpdateEvictable
  BY <1>8, UpdateEvictableDoes DEF UpdateRecent, Iterating, RemoveSteps
<1>9. CASE WriteEntry
  BY <1>9, WriteEntryDoes DEF UpdateRecent, Iterating, RemoveSteps, WriteLost
<1>10. CASE WriteCounter
  BY <1>10, WriteCounterDoes DEF UpdateRecent, Iterating, RemoveSteps, WriteLost
<1>11. CASE RemoveEvictable
  BY <1>11, RemoveEvictableDoes DEF UpdateRecent, Iterating, RemoveSteps
<1>12. ASSUME NEW k \in Keys \cup {ZeroKey}, NEW fast \in BOOLEAN, fast \/ k \in Keys,
              VerifyPublicKey(k, fast)
      PROVE  UpdateRecent'
  BY <1>12, VerifyPublicKeyDoes, <1>inv, <1>noFault DEF UpdateRecent, Iterating, RemoveSteps
<1>13. CASE DestroyOldKpersistent
  BY <1>13, DestroyOldKpersistentDoes, <1>inv, <1>noFault DEF UpdateRecent, Iterating, RemoveSteps
<1>14. CASE PreserveKey
  BY <1>14, PreserveKeyDoes, <1>inv, <1>noFault DEF UpdateRecent, Iterating, RemoveSteps
<1>15. CASE ClearValidityIterations
  BY <1>15, ClearValidityIterationsDoes, <1>inv, <1>noFault
     DEF UpdateRecent, Iterating, RemoveSteps, TurnInv, MatterInv
<1>16. CASE Reset
  BY <1>16, ResetDoes, <1>inv, <1>noFault DEF UpdateRecent, Iterating, RemoveSteps
<1>17. CASE RemoveKey("aliro")
  BY <1>17, AliroRemoveKeyDoes, <1>inv, <1>noFault DEF UpdateRecent, Iterating, RemoveSteps
<1>18. CASE ClearAccessDocument("aliro")
  BY <1>18, AliroClearDocumentDoes, <1>inv, <1>noFault DEF UpdateRecent, Iterating, RemoveSteps
<1>19. CASE RemoveKpersistent("aliro")
  BY <1>19, AliroRemoveKpersistentDoes, <1>inv, <1>noFault DEF UpdateRecent, Iterating, RemoveSteps
<1>20. CASE UNCHANGED <<A, vi>>
  BY <1>20, <1>inv, <1>noFault DEF UpdateRecent, Iterating, RemoveSteps
<1> QED
  BY UpdateRecentTouched, <1>1, <1>2, <1>3, <1>4, <1>5, <1>6, <1>7, <1>8, <1>9, <1>10, <1>11,
     <1>12, <1>13, <1>14, <1>15, <1>16, <1>17, <1>18, <1>19, <1>20

LEMMA CheckedRecentTouched ==
  ASSUME IInv, [Next]_vars
  PROVE  \/ UNCHANGED <<A, vi>>
         \/ \E d \in DocumentSet : StartDocument(d)
         \/ PassOver("aliro")
         \/ RemoveOldCredentials
         \/ StoreValidityIterations
         \/ RejectDocument
         \/ ChooseSlot
         \/ RemoveOldestCredential
         \/ UpdateEvictable
         \/ WriteEntry
         \/ WriteCounter
         \/ RemoveEvictable
         \/ \E k \in Keys \cup {ZeroKey}, fast \in BOOLEAN : (fast \/ k \in Keys) /\ VerifyPublicKey(k, fast)
         \/ DestroyOldKpersistent
         \/ PreserveKey
         \/ ClearValidityIterations
         \/ Reset
         \/ RemoveKey("aliro")
         \/ ClearAccessDocument("aliro")
         \/ RemoveKpersistent("aliro")
<1>1. UNCHANGED vars => UNCHANGED <<A, vi>>
  BY Zenon DEF vars, ram, store, nvs, A, M
<1> QED
  BY <1>1, Steps, ReadAccessDocumentDoes, SetAccessCredentialDoes, SetCredentialIssuerDoes,
     AddPublicKeyDoes, ClearCredentialDoes, ClearCredentialIssuerDoes, RemoveIssuerKeyDoes,
     MatterPassOverDoes, RemoveAccessCredentialsDoes, CommitDoes, MatterRemoveKeyDoes,
     MatterClearDocumentDoes, MatterRemoveKpersistentDoes

(* The document is still recent when its iteration is stored, and when it is  *)
(* written.                                                                   *)
LEMMA CheckedRecentStep ==
  ASSUME IInv, [Next]_vars, upset' \cap {"overlap"} = {}
  PROVE  CheckedRecent'
<1>before. upset \cap {"overlap"} = {}
  BY UpsetGrows
<1>noFault. "overlap" \notin upset'
  BY DEF Fault
<1>inv. CheckedRecent /\ UpdateRecent /\ TurnInv /\ AliroInv /\ MatterInv /\ TypeOK
  BY <1>before DEF IInv, Unless
<1>1. ASSUME NEW d \in DocumentSet, StartDocument(d)
      PROVE  CheckedRecent'
  BY <1>1, StartDocumentDoes, <1>inv, <1>noFault
     DEF CheckedRecent, Writing, RemoveSteps, Storing
<1>2. CASE PassOver("aliro")
  BY <1>2, AliroPassOverDoes, <1>inv, <1>noFault
     DEF CheckedRecent, Writing, RemoveSteps, Storing, ReadLost
<1>3. CASE RemoveOldCredentials
  BY <1>3, RemoveOldCredentialsDoes, <1>inv, <1>noFault
     DEF CheckedRecent, Writing, RemoveSteps, Storing
<1>4. CASE StoreValidityIterations
  <2>1. CASE A'.at = "check"
    <3>1. /\ A'.doc = A.doc /\ A'.ci = A.ci /\ A.ci = A.doc.ci /\ A.ci \in Issuers
          /\ vi' = IF A.new THEN [vi EXCEPT ![A.ci] = A.cur] ELSE vi
      BY <1>4, <1>inv, <2>1, StoreValidityIterationsDoes, DocumentFields
         DEF AliroInv, Iterating, Storing
    <3>2. ~TooOld(A.cur, A.doc.iter) /\ (~A.new => vi[A.ci] = A.cur)
      BY <1>4, <1>inv, StoreValidityIterationsDoes DEF UpdateRecent, Iterating
    <3>3. vi'[A.ci] = A.cur
      BY <1>inv, <3>1, <3>2 DEF TypeOK
    <3> QED
      BY <3>1, <3>2, <3>3 DEF CheckedRecent
  <2>2. CASE A'.at = "idle"
    BY <2>2 DEF CheckedRecent, Writing, RemoveSteps, Storing
  <2> QED
    BY <1>4, <2>1, <2>2, StoreValidityIterationsDoes
<1>5. CASE RejectDocument
  BY <1>5, RejectDocumentDoes, <1>inv, <1>noFault
     DEF CheckedRecent, Writing, RemoveSteps, Storing
<1>6. CASE ChooseSlot
  BY <1>6, ChooseSlotDoes, <1>inv, <1>noFault DEF CheckedRecent, Writing, RemoveSteps, Storing
<1>7. CASE RemoveOldestCredential
  BY <1>7, RemoveOldestCredentialDoes, <1>inv, <1>noFault
     DEF CheckedRecent, Writing, RemoveSteps, Storing, ReadLost
<1>8. CASE UpdateEvictable
  BY <1>8, UpdateEvictableDoes, <1>inv, <1>noFault
     DEF CheckedRecent, Writing, RemoveSteps, Storing
<1>9. CASE WriteEntry
  BY <1>9, WriteEntryDoes, <1>inv, <1>noFault
     DEF CheckedRecent, Writing, RemoveSteps, Storing, WriteLost
<1>10. CASE WriteCounter
  BY <1>10, WriteCounterDoes, <1>inv, <1>noFault
     DEF CheckedRecent, Writing, RemoveSteps, Storing, WriteLost
<1>11. CASE RemoveEvictable
  BY <1>11, RemoveEvictableDoes, <1>inv, <1>noFault
     DEF CheckedRecent, Writing, RemoveSteps, Storing
<1>12. ASSUME NEW k \in Keys \cup {ZeroKey}, NEW fast \in BOOLEAN, fast \/ k \in Keys,
              VerifyPublicKey(k, fast)
      PROVE  CheckedRecent'
  BY <1>12, VerifyPublicKeyDoes, <1>inv, <1>noFault
     DEF CheckedRecent, Writing, RemoveSteps, Storing
<1>13. CASE DestroyOldKpersistent
  BY <1>13, DestroyOldKpersistentDoes, <1>inv, <1>noFault
     DEF CheckedRecent, Writing, RemoveSteps, Storing
<1>14. CASE PreserveKey
  BY <1>14, PreserveKeyDoes, <1>inv, <1>noFault DEF CheckedRecent, Writing, RemoveSteps, Storing
<1>15. CASE ClearValidityIterations
  BY <1>15, ClearValidityIterationsDoes, <1>inv, <1>noFault
     DEF CheckedRecent, Writing, RemoveSteps, TurnInv, MatterInv, Storing
<1>16. CASE Reset
  BY <1>16, ResetDoes, <1>inv, <1>noFault DEF CheckedRecent, Writing, RemoveSteps, Storing
<1>17. CASE RemoveKey("aliro")
  BY <1>17, AliroRemoveKeyDoes, <1>inv, <1>noFault
     DEF CheckedRecent, Writing, RemoveSteps, Storing
<1>18. CASE ClearAccessDocument("aliro")
  BY <1>18, AliroClearDocumentDoes, <1>inv, <1>noFault
     DEF CheckedRecent, Writing, RemoveSteps, Storing
<1>19. CASE RemoveKpersistent("aliro")
  BY <1>19, AliroRemoveKpersistentDoes, <1>inv, <1>noFault
     DEF CheckedRecent, Writing, RemoveSteps, Storing
<1>20. CASE UNCHANGED <<A, vi>>
  BY <1>20, <1>inv, <1>noFault DEF CheckedRecent, Writing, RemoveSteps, Storing
<1> QED
  BY CheckedRecentTouched, <1>1, <1>2, <1>3, <1>4, <1>5, <1>6, <1>7, <1>8, <1>9, <1>10, <1>11,
     <1>12, <1>13, <1>14, <1>15, <1>16, <1>17, <1>18, <1>19, <1>20

LEMMA DocumentsOwnedTouched ==
  ASSUME IInv, [Next]_vars
  PROVE  \/ UNCHANGED <<doc, owned>>
         \/ \E s \in AdSlots : ReadAccessDocument(s)
         \/ PassOver("aliro")
         \/ RemoveOldestCredential
         \/ WriteEntry
         \/ WriteCounter
         \/ \E i \in Issuers : SetCredentialIssuer(i)
         \/ PassOver("matter")
         \/ Commit
         \/ Reset
         \/ ClearAccessDocument("aliro")
         \/ ClearAccessDocument("matter")
<1>1. UNCHANGED vars => UNCHANGED <<doc, owned>>
  BY Zenon DEF vars, ram, store, nvs, A, M
<1> QED
  BY <1>1, Steps, StartDocumentDoes, RemoveOldCredentialsDoes, StoreValidityIterationsDoes,
     RejectDocumentDoes, ChooseSlotDoes, UpdateEvictableDoes, RemoveEvictableDoes,
     VerifyPublicKeyDoes, DestroyOldKpersistentDoes, PreserveKeyDoes, SetAccessCredentialDoes,
     AddPublicKeyDoes, ClearCredentialDoes, ClearCredentialIssuerDoes, RemoveIssuerKeyDoes,
     RemoveAccessCredentialsDoes, ClearValidityIterationsDoes, AliroRemoveKeyDoes,
     MatterRemoveKeyDoes, AliroRemoveKpersistentDoes, MatterRemoveKpersistentDoes

(* An issuer goes when no document of it is left; a document is written for   *)
(* an owned issuer.                                                           *)
LEMMA DocumentsOwnedStep ==
  ASSUME IInv, [Next]_vars, upset' \cap {"delete", "read", "overlap"} = {}
  PROVE  DocumentsOwned'
<1>before. upset \cap {"delete", "read", "overlap"} = {}
  BY UpsetGrows
<1>noFault. ~Fault("delete") /\ ~Fault("read") /\ "overlap" \notin upset'
  BY DEF Fault
<1>inv. DocumentsOwned /\ StoreInv /\ ClearedFirst /\ TurnInv /\ AliroInv /\ MatterInv /\ TypeOK
  BY <1>before DEF IInv, Unless
<1>1. ASSUME NEW s \in AdSlots, ReadAccessDocument(s)
      PROVE  DocumentsOwned'
  BY <1>1, ReadAccessDocumentDoes, <1>inv, <1>noFault, SlotFacts, SentinelAssumption,
     DocumentFields
     DEF DocumentsOwned, AliroInv, MatterInv, Iterating, Writing, RemoveSteps, TypeOK, Storing,
         ReadLost
<1>2. CASE PassOver("aliro")
  BY <1>2, AliroPassOverDoes, <1>inv, <1>noFault, SlotFacts, SentinelAssumption, DocumentFields
     DEF DocumentsOwned, AliroInv, MatterInv, Iterating, Writing, RemoveSteps, TypeOK, Storing,
         ReadLost
<1>3. CASE RemoveOldestCredential
  BY <1>3, RemoveOldestCredentialDoes, <1>inv, <1>noFault, SlotFacts, SentinelAssumption,
     DocumentFields
     DEF DocumentsOwned, AliroInv, MatterInv, Iterating, Writing, RemoveSteps, TypeOK, Storing,
         ReadLost
<1>4. CASE WriteEntry
  BY <1>4, WriteEntryDoes, <1>inv, <1>noFault, SlotFacts, SentinelAssumption, DocumentFields
     DEF DocumentsOwned, AliroInv, MatterInv, Iterating, Writing, RemoveSteps, TypeOK, Storing,
         WriteLost
<1>5. CASE WriteCounter
  <2>1. A.slot \in AdSlots /\ A.ci = A.doc.ci /\ owned[A.ci] = "key" /\ owned' = owned
    BY <1>5, <1>inv, WriteCounterDoes DEF AliroInv, Writing, Storing, StoreInv, WriteLost
  <2>2. \A r \in AdSlots : doc'[r] = doc[r] \/ doc'[r] = NoDoc \/ doc'[r] = A.doc
    BY <1>5, <1>inv, <2>1, WriteCounterDoes DEF WriteLost, TypeOK
  <2> QED
    BY <1>inv, <2>1, <2>2 DEF DocumentsOwned
<1>6. ASSUME NEW i \in Issuers, SetCredentialIssuer(i)
      PROVE  DocumentsOwned'
  <2>1. up' = up /\ doc' = doc /\ owned' = [owned EXCEPT ![i] = "key"]
    BY <1>6, SetCredentialIssuerDoes
  <2>2. ASSUME NEW x \in AdSlots, doc[x] # NoDoc PROVE owned'[doc[x].ci] = "key"
    <3>1. owned[doc[x].ci] = "key" /\ doc[x].ci \in Issuers
      BY <1>inv, <2>2, DocumentFields DEF DocumentsOwned, TypeOK
    <3> QED
      BY <1>inv, <2>1, <3>1 DEF TypeOK
  <2> QED
    BY <1>inv, <2>1, <2>2 DEF DocumentsOwned
<1>7. CASE PassOver("matter")
  BY <1>7, MatterPassOverDoes, <1>inv, <1>noFault, SlotFacts, SentinelAssumption,
     DocumentFields
     DEF DocumentsOwned, AliroInv, MatterInv, Iterating, Writing, RemoveSteps, TypeOK, Storing,
         ReadLost
<1>8. CASE Commit
  <2>1. /\ up' = up /\ doc' = doc /\ M.at = "commit"
        /\ owned' = owned \/ (M.ci # 0 /\ owned' = [owned EXCEPT ![M.ci] = "zero"])
    BY <1>8, CommitDoes
  <2>2. ASSUME NEW x \in AdSlots, doc[x] # NoDoc PROVE owned'[doc[x].ci] = "key"
    <3>1. owned[doc[x].ci] = "key" /\ doc[x].ci \in Issuers /\ (M.ci # 0 => doc[x].ci # M.ci)
      BY <1>inv, <2>1, <2>2, DocumentFields DEF DocumentsOwned, ClearedFirst, TypeOK
    <3> QED
      BY <1>inv, <2>1, <3>1 DEF TypeOK
  <2> QED
    BY <1>inv, <2>1, <2>2 DEF DocumentsOwned
<1>9. CASE Reset
  BY <1>9, ResetDoes, <1>inv, <1>noFault, SlotFacts, SentinelAssumption, DocumentFields
     DEF DocumentsOwned, AliroInv, MatterInv, Iterating, Writing, RemoveSteps, TypeOK, Storing
<1>10. CASE ClearAccessDocument("aliro")
  BY <1>10, AliroClearDocumentDoes, <1>inv, <1>noFault, SlotFacts, SentinelAssumption,
     DocumentFields
     DEF DocumentsOwned, AliroInv, MatterInv, Iterating, Writing, RemoveSteps, TypeOK, Storing
<1>11. CASE ClearAccessDocument("matter")
  BY <1>11, MatterClearDocumentDoes, <1>inv, <1>noFault, SlotFacts, SentinelAssumption,
     DocumentFields
     DEF DocumentsOwned, AliroInv, MatterInv, Iterating, Writing, RemoveSteps, TypeOK, Storing
<1>12. CASE UNCHANGED <<doc, owned>>
  BY <1>12, <1>inv, <1>noFault, SlotFacts, SentinelAssumption, DocumentFields
     DEF DocumentsOwned, AliroInv, MatterInv, Iterating, Writing, RemoveSteps, TypeOK, Storing
<1> QED
  BY DocumentsOwnedTouched, <1>1, <1>2, <1>3, <1>4, <1>5, <1>6, <1>7, <1>8, <1>9, <1>10, <1>11,
     <1>12

LEMMA ClearedFirstTouched ==
  ASSUME IInv, [Next]_vars
  PROVE  \/ UNCHANGED <<M, doc, key>>
         \/ \E s \in AdSlots : ReadAccessDocument(s)
         \/ PassOver("aliro")
         \/ RemoveOldestCredential
         \/ WriteEntry
         \/ WriteCounter
         \/ \E s \in AcSlots, k \in Keys : SetAccessCredential(s, k)
         \/ \E i \in Issuers : SetCredentialIssuer(i)
         \/ AddPublicKey
         \/ \E s \in Slots : ClearCredential(s)
         \/ \E i \in Issuers : ClearCredentialIssuer(i)
         \/ RemoveIssuerKey
         \/ PassOver("matter")
         \/ RemoveAccessCredentials
         \/ ClearValidityIterations
         \/ Commit
         \/ Reset
         \/ RemoveKey("aliro")
         \/ RemoveKey("matter")
         \/ ClearAccessDocument("aliro")
         \/ ClearAccessDocument("matter")
         \/ RemoveKpersistent("matter")
<1>1. UNCHANGED vars => UNCHANGED <<M, doc, key>>
  BY Zenon DEF vars, ram, store, nvs, A, M
<1> QED
  BY <1>1, Steps, StartDocumentDoes, RemoveOldCredentialsDoes, StoreValidityIterationsDoes,
     RejectDocumentDoes, ChooseSlotDoes, UpdateEvictableDoes, RemoveEvictableDoes,
     VerifyPublicKeyDoes, DestroyOldKpersistentDoes, PreserveKeyDoes,
     AliroRemoveKpersistentDoes

(* The loop of RemoveAccessCredentials ends when no document of the issuer is *)
(* left; each removal it begins finds a key.                                  *)
LEMMA ClearedFirstStep ==
  ASSUME IInv, [Next]_vars, upset' \cap {"delete", "read", "overlap"} = {}
  PROVE  ClearedFirst'
<1>before. upset \cap {"delete", "read", "overlap"} = {}
  BY UpsetGrows
<1>noFault. ~Fault("delete") /\ ~Fault("read") /\ "overlap" \notin upset'
  BY DEF Fault
<1>inv. ClearedFirst /\ NothingSkipped /\ DocumentsHaveKeys /\ DocumentsOwned /\ TurnInv /\ IssuerInv /\
        "overlap" \notin upset /\ AliroInv /\ MatterInv /\ TypeOK
  BY <1>before DEF IInv, Unless
<1>1. ASSUME NEW s \in AdSlots, ReadAccessDocument(s)
      PROVE  ClearedFirst'
  BY <1>1, ReadAccessDocumentDoes, <1>inv, <1>noFault, SlotFacts, SentinelAssumption,
     DocumentFields
     DEF ClearedFirst, MatterInv, RemoveSteps, ReadLost
<1>2. CASE PassOver("aliro")
  BY <1>2, AliroPassOverDoes, <1>inv, <1>noFault, SlotFacts, SentinelAssumption, DocumentFields
     DEF ClearedFirst, MatterInv, RemoveSteps, ReadLost
<1>3. CASE RemoveOldestCredential
  BY <1>3, RemoveOldestCredentialDoes, <1>inv, <1>noFault, SlotFacts, SentinelAssumption,
     DocumentFields
     DEF ClearedFirst, MatterInv, RemoveSteps, ReadLost
<1>4. CASE WriteEntry
  <2>1. M' = M /\ M.then = "none"
    BY <1>4, <1>inv, WriteEntryDoes DEF TurnInv, WriteLost
  <2> QED
    BY <1>inv, <2>1 DEF ClearedFirst, MatterInv, RemoveSteps
<1>5. CASE WriteCounter
  <2>1. M' = M /\ M.then = "none"
    BY <1>5, <1>inv, WriteCounterDoes DEF TurnInv, WriteLost
  <2> QED
    BY <1>inv, <2>1 DEF ClearedFirst, MatterInv, RemoveSteps
<1>6. ASSUME NEW s \in AcSlots, NEW k \in Keys, SetAccessCredential(s, k)
      PROVE  ClearedFirst'
  BY <1>6, SetAccessCredentialDoes, <1>inv, <1>noFault, SlotFacts, SentinelAssumption, DocumentFields
     DEF ClearedFirst, MatterInv, RemoveSteps
<1>7. ASSUME NEW i \in Issuers, SetCredentialIssuer(i)
      PROVE  ClearedFirst'
  BY <1>7, SetCredentialIssuerDoes, <1>inv, <1>noFault, SlotFacts, SentinelAssumption, DocumentFields
     DEF ClearedFirst, MatterInv, RemoveSteps
<1>8. CASE AddPublicKey
  BY <1>8, AddPublicKeyDoes, <1>inv, <1>noFault, SlotFacts, SentinelAssumption, DocumentFields
     DEF ClearedFirst, MatterInv, RemoveSteps
<1>9. ASSUME NEW s \in Slots, ClearCredential(s)
      PROVE  ClearedFirst'
  BY <1>9, ClearCredentialDoes, <1>inv, <1>noFault, SlotFacts, SentinelAssumption, DocumentFields
     DEF ClearedFirst, MatterInv, RemoveSteps
<1>10. ASSUME NEW i \in Issuers, ClearCredentialIssuer(i)
      PROVE  ClearedFirst'
  BY <1>10, ClearCredentialIssuerDoes, <1>inv, <1>noFault, SlotFacts, SentinelAssumption,
     DocumentFields
     DEF ClearedFirst, MatterInv, RemoveSteps
<1>11. CASE RemoveIssuerKey
  BY <1>11, RemoveIssuerKeyDoes, <1>inv, <1>noFault, SlotFacts, SentinelAssumption, DocumentFields
     DEF ClearedFirst, MatterInv, RemoveSteps, IssuerInv, Clearing
<1>12. CASE PassOver("matter")
  BY <1>12, MatterPassOverDoes, <1>inv, <1>noFault, SlotFacts, SentinelAssumption,
     DocumentFields
     DEF ClearedFirst, MatterInv, RemoveSteps, ReadLost
<1>13. CASE RemoveAccessCredentials
  <2>1. M.at = "ciLoop" /\ M.then # "none" /\ A.at = "idle" /\ up /\ M.skip = {}
    BY <1>13, <1>inv, RemoveAccessCredentialsDoes DEF MatterInv, TurnInv, NothingSkipped
  <2>2. \A s \in AdSlots : doc[s] # NoDoc => key[s] # NoKey
    BY <1>inv, <2>1, SentinelAssumption, DocumentFields DEF DocumentsHaveKeys, Gone, TypeOK
  <2>3. doc' = doc /\ key' = key /\ M'.ci = M.ci
    BY <1>13, RemoveAccessCredentialsDoes
  <2> QED
    BY <1>13, <2>1, <2>2, <2>3, RemoveAccessCredentialsDoes DEF ClearedFirst
<1>14. CASE ClearValidityIterations
  BY <1>14, ClearValidityIterationsDoes, <1>inv, <1>noFault, SlotFacts, SentinelAssumption,
     DocumentFields
     DEF ClearedFirst, MatterInv, RemoveSteps
<1>15. CASE Commit
  BY <1>15, CommitDoes, <1>inv, <1>noFault, SlotFacts, SentinelAssumption, DocumentFields
     DEF ClearedFirst, MatterInv, RemoveSteps
<1>16. CASE Reset
  BY <1>16, ResetDoes, <1>inv, <1>noFault, SlotFacts, SentinelAssumption, DocumentFields
     DEF ClearedFirst, MatterInv, RemoveSteps
<1>17. CASE RemoveKey("aliro")
  BY <1>17, AliroRemoveKeyDoes, <1>inv, <1>noFault, SlotFacts, SentinelAssumption, DocumentFields
     DEF ClearedFirst, MatterInv, RemoveSteps, TurnInv
<1>18. CASE RemoveKey("matter")
  BY <1>18, MatterRemoveKeyDoes, <1>inv, <1>noFault, SlotFacts, SentinelAssumption, DocumentFields
     DEF ClearedFirst, MatterInv, RemoveSteps
<1>19. CASE ClearAccessDocument("aliro")
  BY <1>19, AliroClearDocumentDoes, <1>inv, <1>noFault, SlotFacts, SentinelAssumption, DocumentFields
     DEF ClearedFirst, MatterInv, RemoveSteps
<1>20. CASE ClearAccessDocument("matter")
  BY <1>20, MatterClearDocumentDoes, <1>inv, <1>noFault, SlotFacts, SentinelAssumption,
     DocumentFields
     DEF ClearedFirst, MatterInv, RemoveSteps
<1>21. CASE RemoveKpersistent("matter")
  BY <1>21, MatterRemoveKpersistentDoes, <1>inv, <1>noFault, SlotFacts, SentinelAssumption,
     DocumentFields
     DEF ClearedFirst, MatterInv, RemoveSteps
<1>22. CASE UNCHANGED <<M, doc, key>>
  BY <1>22, <1>inv, <1>noFault, SlotFacts, SentinelAssumption, DocumentFields
     DEF ClearedFirst, MatterInv, RemoveSteps
<1> QED
  BY ClearedFirstTouched, <1>1, <1>2, <1>3, <1>4, <1>5, <1>6, <1>7, <1>8, <1>9, <1>10, <1>11,
     <1>12, <1>13, <1>14, <1>15, <1>16, <1>17, <1>18, <1>19, <1>20, <1>21, <1>22

(* The iteration is cleared before the issuer goes, and no update brings it   *)
(* back.                                                                      *)
LEMMA IterationsFreshStep ==
  ASSUME IInv, [Next]_vars, upset' \cap {"iteration", "overlap"} = {}
  PROVE  IterationsFresh'
<1>before. upset \cap {"iteration", "overlap"} = {}
  BY UpsetGrows
<1>noFault. ~Fault("iteration") /\ "overlap" \notin upset'
  BY DEF Fault
<1>inv. IterationsFresh /\ TurnInv /\ IssuerInv /\ "overlap" \notin upset /\ AliroInv /\
        MatterInv /\ TypeOK
  BY <1>before DEF IInv, Unless
<1>1. ASSUME NEW d \in DocumentSet, StartDocument(d)
      PROVE  IterationsFresh'
  <2>1. owned' = owned /\ vi' = vi /\ M' = M /\ A'.ci = d.ci /\ owned[d.ci] = "key"
    BY <1>1, <1>inv, StartDocumentDoes, DocumentFields DEF IssuerInv
  <2> QED
    BY <1>inv, <2>1 DEF IterationsFresh
<1>2. ASSUME NEW s \in AdSlots, ReadAccessDocument(s)
      PROVE  IterationsFresh'
  BY <1>2, ReadAccessDocumentDoes, <1>inv, <1>noFault, SentinelAssumption
     DEF IterationsFresh, Iterating, RemoveSteps, MatterInv, ReadLost
<1>3. CASE PassOver("aliro")
  BY <1>3, AliroPassOverDoes, <1>inv, <1>noFault, SentinelAssumption
     DEF IterationsFresh, Iterating, RemoveSteps, MatterInv, ReadLost
<1>4. CASE RemoveOldCredentials
  BY <1>4, RemoveOldCredentialsDoes, <1>inv, <1>noFault, SentinelAssumption
     DEF IterationsFresh, Iterating, RemoveSteps, MatterInv
<1>5. CASE StoreValidityIterations
  <2>1. owned' = owned /\ M' = M /\ A'.at \in {"check", "idle"} /\ A.at = "iterate"
    BY <1>5, StoreValidityIterationsDoes
  <2>2. \/ vi' = vi
        \/ vi' = [vi EXCEPT ![A.ci] = A.cur] /\ owned[A.ci] = "key"
    BY <1>5, <1>inv, StoreValidityIterationsDoes DEF IterationsFresh, Iterating
  <2>3. M.at # "commit"
    BY <1>inv, <2>1 DEF TurnInv, MatterInv
  <2>4. \A i \in Issuers : owned[i] # "key" => vi'[i] = 0
    BY <1>inv, <2>2 DEF IterationsFresh, TypeOK
  <2> QED
    BY <2>1, <2>3, <2>4 DEF IterationsFresh, Iterating, RemoveSteps
<1>6. CASE RejectDocument
  BY <1>6, RejectDocumentDoes, <1>inv, <1>noFault, SentinelAssumption
     DEF IterationsFresh, Iterating, RemoveSteps, MatterInv
<1>7. CASE ChooseSlot
  BY <1>7, ChooseSlotDoes, <1>inv, <1>noFault, SentinelAssumption
     DEF IterationsFresh, Iterating, RemoveSteps, MatterInv
<1>8. CASE RemoveOldestCredential
  BY <1>8, RemoveOldestCredentialDoes, <1>inv, <1>noFault, SentinelAssumption
     DEF IterationsFresh, Iterating, RemoveSteps, MatterInv, ReadLost
<1>9. CASE UpdateEvictable
  BY <1>9, UpdateEvictableDoes, <1>inv, <1>noFault, SentinelAssumption
     DEF IterationsFresh, Iterating, RemoveSteps, MatterInv
<1>10. CASE WriteEntry
  BY <1>10, WriteEntryDoes, <1>inv, <1>noFault, SentinelAssumption
     DEF IterationsFresh, Iterating, RemoveSteps, MatterInv, WriteLost
<1>11. CASE WriteCounter
  BY <1>11, WriteCounterDoes, <1>inv, <1>noFault, SentinelAssumption
     DEF IterationsFresh, Iterating, RemoveSteps, MatterInv, WriteLost
<1>12. CASE RemoveEvictable
  BY <1>12, RemoveEvictableDoes, <1>inv, <1>noFault, SentinelAssumption
     DEF IterationsFresh, Iterating, RemoveSteps, MatterInv
<1>13. ASSUME NEW k \in Keys \cup {ZeroKey}, NEW fast \in BOOLEAN, fast \/ k \in Keys,
              VerifyPublicKey(k, fast)
      PROVE  IterationsFresh'
  BY <1>13, VerifyPublicKeyDoes, <1>inv, <1>noFault, SentinelAssumption
     DEF IterationsFresh, Iterating, RemoveSteps, MatterInv
<1>14. CASE DestroyOldKpersistent
  BY <1>14, DestroyOldKpersistentDoes, <1>inv, <1>noFault, SentinelAssumption
     DEF IterationsFresh, Iterating, RemoveSteps, MatterInv
<1>15. CASE PreserveKey
  BY <1>15, PreserveKeyDoes, <1>inv, <1>noFault, SentinelAssumption
     DEF IterationsFresh, Iterating, RemoveSteps, MatterInv
<1>16. ASSUME NEW s \in AcSlots, NEW k \in Keys, SetAccessCredential(s, k)
      PROVE  IterationsFresh'
  BY <1>16, SetAccessCredentialDoes, <1>inv, <1>noFault, SentinelAssumption
     DEF IterationsFresh, Iterating, RemoveSteps, MatterInv
<1>17. ASSUME NEW i \in Issuers, SetCredentialIssuer(i)
      PROVE  IterationsFresh'
  <2>1. /\ owned' = [owned EXCEPT ![i] = "key"] /\ vi' = vi /\ A' = A
        /\ M'.at = "addIssuer"
    BY <1>17, SetCredentialIssuerDoes
  <2>2. \A j \in Issuers : owned'[j] = owned[j] \/ owned'[j] = "key"
    BY <1>inv, <2>1 DEF TypeOK
  <2>3. Iterating => A.ci \in Issuers
    BY <1>inv, DocumentFields DEF AliroInv, Storing
  <2> QED
    BY <1>inv, <2>1, <2>2, <2>3 DEF IterationsFresh, Iterating
<1>18. CASE AddPublicKey
  BY <1>18, AddPublicKeyDoes, <1>inv, <1>noFault, SentinelAssumption
     DEF IterationsFresh, Iterating, RemoveSteps, MatterInv
<1>19. ASSUME NEW s \in Slots, ClearCredential(s)
      PROVE  IterationsFresh'
  BY <1>19, ClearCredentialDoes, <1>inv, <1>noFault, SentinelAssumption
     DEF IterationsFresh, Iterating, RemoveSteps, MatterInv
<1>20. ASSUME NEW i \in Issuers, ClearCredentialIssuer(i)
      PROVE  IterationsFresh'
  BY <1>20, ClearCredentialIssuerDoes, <1>inv, <1>noFault, SentinelAssumption
     DEF IterationsFresh, Iterating, RemoveSteps, MatterInv
<1>21. CASE RemoveIssuerKey
  BY <1>21, RemoveIssuerKeyDoes, <1>inv, <1>noFault, SentinelAssumption
     DEF IterationsFresh, Iterating, RemoveSteps, MatterInv
<1>22. CASE PassOver("matter")
  BY <1>22, MatterPassOverDoes, <1>inv, <1>noFault, SentinelAssumption
     DEF IterationsFresh, Iterating, RemoveSteps, MatterInv, ReadLost
<1>23. CASE RemoveAccessCredentials
  BY <1>23, RemoveAccessCredentialsDoes, <1>inv, <1>noFault, SentinelAssumption
     DEF IterationsFresh, Iterating, RemoveSteps, MatterInv
<1>24. CASE ClearValidityIterations
  BY <1>24, ClearValidityIterationsDoes, <1>inv, <1>noFault, SentinelAssumption
     DEF IterationsFresh, Iterating, RemoveSteps, MatterInv, TypeOK
<1>25. CASE Commit
  BY <1>25, CommitDoes, <1>inv, <1>noFault, SentinelAssumption
     DEF IterationsFresh, Iterating, RemoveSteps, MatterInv, TypeOK, TurnInv
<1>26. CASE Reset
  BY <1>26, ResetDoes, <1>inv, <1>noFault, SentinelAssumption
     DEF IterationsFresh, Iterating, RemoveSteps, MatterInv
<1>27. CASE RemoveKey("aliro")
  BY <1>27, AliroRemoveKeyDoes, <1>inv, <1>noFault, SentinelAssumption
     DEF IterationsFresh, Iterating, RemoveSteps, MatterInv
<1>28. CASE RemoveKey("matter")
  BY <1>28, MatterRemoveKeyDoes, <1>inv, <1>noFault, SentinelAssumption
     DEF IterationsFresh, Iterating, RemoveSteps, MatterInv
<1>29. CASE ClearAccessDocument("aliro")
  BY <1>29, AliroClearDocumentDoes, <1>inv, <1>noFault, SentinelAssumption
     DEF IterationsFresh, Iterating, RemoveSteps, MatterInv
<1>30. CASE ClearAccessDocument("matter")
  BY <1>30, MatterClearDocumentDoes, <1>inv, <1>noFault, SentinelAssumption
     DEF IterationsFresh, Iterating, RemoveSteps, MatterInv
<1>31. CASE RemoveKpersistent("aliro")
  BY <1>31, AliroRemoveKpersistentDoes, <1>inv, <1>noFault, SentinelAssumption
     DEF IterationsFresh, Iterating, RemoveSteps, MatterInv
<1>32. CASE RemoveKpersistent("matter")
  BY <1>32, MatterRemoveKpersistentDoes, <1>inv, <1>noFault, SentinelAssumption
     DEF IterationsFresh, Iterating, RemoveSteps, MatterInv
<1>33. CASE UNCHANGED vars
  BY <1>33, <1>inv, <1>noFault, SentinelAssumption
     DEF IterationsFresh, Iterating, RemoveSteps, MatterInv, vars, ram, store, A, M, nvs
<1> QED
  BY Steps, <1>1, <1>2, <1>3, <1>4, <1>5, <1>6, <1>7, <1>8, <1>9, <1>10, <1>11, <1>12, <1>13,
     <1>14, <1>15, <1>16, <1>17, <1>18, <1>19, <1>20, <1>21, <1>22, <1>23, <1>24, <1>25, <1>26,
     <1>27, <1>28, <1>29, <1>30, <1>31, <1>32, <1>33

(* A key leaves its slot with its document and its Kpersistent key; another   *)
(* one enters a slot without Kpersistent key.                                 *)
LEMMA KpHasKeyStep ==
  ASSUME IInv, [Next]_vars, upset' \cap KpCauses = {}
  PROVE  KpHasKey'
<1>before. upset \cap KpCauses = {}
  BY UpsetGrows
<1>noFault. ~Fault("kp") /\ ~Fault("delete") /\ ~Fault("write") /\ ~Fault("read")
            /\ "cut" \notin upset' /\ "torn" \notin upset' /\ "overlap" \notin upset'
  BY DEF Fault, KpCauses
<1> SUFFICES ASSUME NEW x \in Slots, kp'[x] # NoKey
             PROVE  key'[x] = kp'[x] \/ key'[x] = ZeroKey \/ Gone(x)' \/ Kept(x)'
  BY DEF KpHasKey
<1>inv. KpHasKey /\ StoreInv /\ TornEntry /\ TurnInv /\ KpHasCredential /\ KpHasDocument /\ KpSteps /\ DocumentsOwned /\
        FreeSlotInv /\ RemoveInv /\ ProvInv /\ AliroInv /\ MatterInv /\ TypeOK
  BY <1>before DEF IInv, Unless, KpCauses, StartCauses
<1>1. ASSUME NEW d \in DocumentSet, StartDocument(d)
      PROVE  key'[x] = kp'[x] \/ key'[x] = ZeroKey \/ Gone(x)' \/ Kept(x)'
  BY <1>1, StartDocumentDoes, <1>inv, <1>noFault DEF KpHasKey, Gone, Kept
<1>2. ASSUME NEW s \in AdSlots, ReadAccessDocument(s)
      PROVE  key'[x] = kp'[x] \/ key'[x] = ZeroKey \/ Gone(x)' \/ Kept(x)'
  BY <1>2, ReadAccessDocumentDoes, <1>inv, <1>noFault, SlotFacts, SentinelAssumption
     DEF KpHasKey, Gone, Kept, AliroInv, MatterInv, RemoveSteps, TypeOK, FreeSlotInv, KpSteps,
         ProvInv, KpHasCredential, KpHasDocument, DocumentsOwned, Writing, Storing, Between,
         ReadLost
<1>3. CASE PassOver("aliro")
  BY <1>3, AliroPassOverDoes, <1>inv, <1>noFault, SlotFacts, SentinelAssumption
     DEF KpHasKey, Gone, Kept, AliroInv, MatterInv, RemoveSteps, TypeOK, FreeSlotInv, KpSteps,
         ProvInv, KpHasCredential, KpHasDocument, DocumentsOwned, Writing, Storing, Between,
         ReadLost
<1>4. CASE RemoveOldCredentials
  BY <1>4, RemoveOldCredentialsDoes, <1>inv, <1>noFault DEF KpHasKey, Gone, Kept
<1>5. CASE StoreValidityIterations
  BY <1>5, StoreValidityIterationsDoes, <1>inv, <1>noFault DEF KpHasKey, Gone, Kept
<1>6. CASE RejectDocument
  BY <1>6, RejectDocumentDoes, <1>inv, <1>noFault DEF KpHasKey, Gone, Kept
<1>7. CASE ChooseSlot
  BY <1>7, ChooseSlotDoes, <1>inv, <1>noFault DEF KpHasKey, Gone, Kept
<1>8. CASE RemoveOldestCredential
  BY <1>8, RemoveOldestCredentialDoes, <1>inv, <1>noFault, SlotFacts, SentinelAssumption
     DEF KpHasKey, Gone, Kept, AliroInv, MatterInv, RemoveSteps, TypeOK, FreeSlotInv, KpSteps,
         ProvInv, KpHasCredential, KpHasDocument, DocumentsOwned, Writing, Storing, Between,
         ReadLost
<1>9. CASE UpdateEvictable
  BY <1>9, UpdateEvictableDoes, <1>inv, <1>noFault, SlotFacts, SentinelAssumption
     DEF KpHasKey, Gone, Kept, AliroInv, MatterInv, RemoveSteps, TypeOK, FreeSlotInv, KpSteps,
         ProvInv, KpHasCredential, KpHasDocument, DocumentsOwned, Writing, Storing, Between
<1>10. CASE WriteEntry
  BY <1>10, WriteEntryDoes, <1>inv, <1>noFault, SlotFacts, SentinelAssumption
     DEF KpHasKey, Gone, Kept, AliroInv, MatterInv, RemoveSteps, TypeOK, FreeSlotInv, KpSteps,
         ProvInv, KpHasCredential, KpHasDocument, DocumentsOwned, Writing, Storing, Between,
         WriteLost
<1>11. CASE WriteCounter
  BY <1>11, WriteCounterDoes, <1>inv, <1>noFault, SlotFacts, SentinelAssumption
     DEF KpHasKey, Gone, Kept, AliroInv, MatterInv, RemoveSteps, TypeOK, FreeSlotInv, KpSteps,
         ProvInv, KpHasCredential, KpHasDocument, DocumentsOwned, Writing, Storing, Between,
         WriteLost
<1>12. CASE RemoveEvictable
  BY <1>12, RemoveEvictableDoes, <1>inv, <1>noFault, SlotFacts, SentinelAssumption
     DEF KpHasKey, Gone, Kept, AliroInv, MatterInv, RemoveSteps, TypeOK, FreeSlotInv, KpSteps,
         ProvInv, KpHasCredential, KpHasDocument, DocumentsOwned, Writing, Storing, Between
<1>13. ASSUME NEW k \in Keys \cup {ZeroKey}, NEW fast \in BOOLEAN, fast \/ k \in Keys,
              VerifyPublicKey(k, fast)
      PROVE  key'[x] = kp'[x] \/ key'[x] = ZeroKey \/ Gone(x)' \/ Kept(x)'
  BY <1>13, VerifyPublicKeyDoes, <1>inv, <1>noFault DEF KpHasKey, Gone, Kept
<1>14. CASE DestroyOldKpersistent
  BY <1>14, DestroyOldKpersistentDoes, <1>inv, <1>noFault, SlotFacts, SentinelAssumption
     DEF KpHasKey, Gone, Kept, AliroInv, MatterInv, RemoveSteps, TypeOK, FreeSlotInv, KpSteps,
         ProvInv, KpHasCredential, KpHasDocument, DocumentsOwned, Writing, Storing, Between
<1>15. CASE PreserveKey
  BY <1>15, PreserveKeyDoes, <1>inv, <1>noFault, SlotFacts, SentinelAssumption
     DEF KpHasKey, Gone, Kept, AliroInv, MatterInv, RemoveSteps, TypeOK, FreeSlotInv, KpSteps,
         ProvInv, KpHasCredential, KpHasDocument, DocumentsOwned, Writing, Storing, Between
<1>16. ASSUME NEW s \in AcSlots, NEW k \in Keys, SetAccessCredential(s, k)
      PROVE  key'[x] = kp'[x] \/ key'[x] = ZeroKey \/ Gone(x)' \/ Kept(x)'
  BY <1>16, SetAccessCredentialDoes, <1>inv, <1>noFault DEF KpHasKey, Gone, Kept
<1>17. ASSUME NEW i \in Issuers, SetCredentialIssuer(i)
      PROVE  key'[x] = kp'[x] \/ key'[x] = ZeroKey \/ Gone(x)' \/ Kept(x)'
  BY <1>17, SetCredentialIssuerDoes, <1>inv, <1>noFault DEF KpHasKey, Gone, Kept
<1>18. CASE AddPublicKey
  BY <1>18, AddPublicKeyDoes, <1>inv, <1>noFault, SlotFacts, SentinelAssumption
     DEF KpHasKey, Gone, Kept, AliroInv, MatterInv, RemoveSteps, TypeOK, FreeSlotInv, KpSteps,
         ProvInv, KpHasCredential, KpHasDocument, DocumentsOwned, Writing, Storing, Between
<1>19. ASSUME NEW s \in Slots, ClearCredential(s)
      PROVE  key'[x] = kp'[x] \/ key'[x] = ZeroKey \/ Gone(x)' \/ Kept(x)'
  BY <1>19, ClearCredentialDoes, <1>inv, <1>noFault DEF KpHasKey, Gone, Kept
<1>20. ASSUME NEW i \in Issuers, ClearCredentialIssuer(i)
      PROVE  key'[x] = kp'[x] \/ key'[x] = ZeroKey \/ Gone(x)' \/ Kept(x)'
  BY <1>20, ClearCredentialIssuerDoes, <1>inv, <1>noFault DEF KpHasKey, Gone, Kept
<1>21. CASE RemoveIssuerKey
  BY <1>21, RemoveIssuerKeyDoes, <1>inv, <1>noFault DEF KpHasKey, Gone, Kept
<1>22. CASE PassOver("matter")
  BY <1>22, MatterPassOverDoes, <1>inv, <1>noFault, SlotFacts, SentinelAssumption
     DEF KpHasKey, Gone, Kept, AliroInv, MatterInv, RemoveSteps, TypeOK, FreeSlotInv, KpSteps,
         ProvInv, KpHasCredential, KpHasDocument, DocumentsOwned, Writing, Storing, Between,
         ReadLost
<1>23. CASE RemoveAccessCredentials
  BY <1>23, RemoveAccessCredentialsDoes, <1>inv, <1>noFault DEF KpHasKey, Gone, Kept
<1>24. CASE ClearValidityIterations
  BY <1>24, ClearValidityIterationsDoes, <1>inv, <1>noFault DEF KpHasKey, Gone, Kept
<1>25. CASE Commit
  BY <1>25, CommitDoes, <1>inv, <1>noFault DEF KpHasKey, Gone, Kept
<1>26. CASE Reset
  <2>1. A.at # "counter" /\ ~Between(x) /\ (x \in AdSlots => ~Kept(x))
    BY <1>26, <1>noFault, ResetDoes DEF Between, Kept
  <2>2. kp' = kp /\ up' /\ \A s \in AcSlots : key'[s] = prov[s]
    BY <1>26, <1>inv, <2>1, ResetDoes DEF TornEntry, DocumentsOwned, KpCauses
  <2>3. CASE x \in AcSlots
    BY <1>inv, <2>2, <2>3 DEF KpHasCredential
  <2>4. CASE x \in AdSlots
    <3>1. doc[x] # NoDoc /\ doc[x].key = kp[x]
      BY <1>inv, <2>1, <2>2, <2>4 DEF KpHasDocument, Between
    <3>2. prov[x] \in {NoKey, ZeroKey}
      BY <1>inv, <2>4 DEF ProvInv
    <3>3. key'[x] = prov[x] \/ key'[x] = doc[x].key
      BY <1>26, <2>2, <2>4, ResetDoes
    <3>4. prov[x] = NoKey => key'[x] = doc[x].key
      BY <1>26, <2>2, <2>4, <3>1, ResetDoes
    <3> QED
      BY <2>2, <3>1, <3>2, <3>3, <3>4
  <2> QED
    BY <2>3, <2>4, SlotFacts
<1>27. CASE RemoveKey("aliro")
  BY <1>27, AliroRemoveKeyDoes, <1>inv, <1>noFault, SlotFacts, SentinelAssumption
     DEF KpHasKey, Gone, Kept, AliroInv, MatterInv, RemoveSteps, TypeOK, FreeSlotInv, KpSteps,
         ProvInv, KpHasCredential, KpHasDocument, DocumentsOwned, Writing, Storing, Between
<1>28. CASE RemoveKey("matter")
  BY <1>28, MatterRemoveKeyDoes, <1>inv, <1>noFault, SlotFacts, SentinelAssumption
     DEF KpHasKey, Gone, Kept, AliroInv, MatterInv, RemoveSteps, TypeOK, FreeSlotInv, KpSteps,
         ProvInv, KpHasCredential, KpHasDocument, DocumentsOwned, Writing, Storing, Between
<1>29. CASE ClearAccessDocument("aliro")
  BY <1>29, AliroClearDocumentDoes, <1>inv, <1>noFault, SlotFacts, SentinelAssumption
     DEF KpHasKey, Gone, Kept, AliroInv, MatterInv, RemoveSteps, TypeOK, FreeSlotInv, KpSteps,
         ProvInv, KpHasCredential, KpHasDocument, DocumentsOwned, Writing, Storing, Between
<1>30. CASE ClearAccessDocument("matter")
  BY <1>30, MatterClearDocumentDoes, <1>inv, <1>noFault, SlotFacts, SentinelAssumption
     DEF KpHasKey, Gone, Kept, AliroInv, MatterInv, RemoveSteps, TypeOK, FreeSlotInv, KpSteps,
         ProvInv, KpHasCredential, KpHasDocument, DocumentsOwned, Writing, Storing, Between
<1>31. CASE RemoveKpersistent("aliro")
  BY <1>31, AliroRemoveKpersistentDoes, <1>inv, <1>noFault, SlotFacts, SentinelAssumption
     DEF KpHasKey, Gone, Kept, AliroInv, MatterInv, RemoveSteps, TypeOK, FreeSlotInv, KpSteps,
         ProvInv, KpHasCredential, KpHasDocument, DocumentsOwned, Writing, Storing, Between
<1>32. CASE RemoveKpersistent("matter")
  BY <1>32, MatterRemoveKpersistentDoes, <1>inv, <1>noFault, SlotFacts, SentinelAssumption
     DEF KpHasKey, Gone, Kept, AliroInv, MatterInv, RemoveSteps, TypeOK, FreeSlotInv, KpSteps,
         ProvInv, KpHasCredential, KpHasDocument, DocumentsOwned, Writing, Storing, Between
<1>33. CASE UNCHANGED vars
  BY <1>33, <1>inv, <1>noFault DEF KpHasKey, Gone, Kept, vars, ram, store, A, M, nvs
<1> QED
  BY Steps, <1>1, <1>2, <1>3, <1>4, <1>5, <1>6, <1>7, <1>8, <1>9, <1>10, <1>11, <1>12, <1>13,
     <1>14, <1>15, <1>16, <1>17, <1>18, <1>19, <1>20, <1>21, <1>22, <1>23, <1>24, <1>25, <1>26,
     <1>27, <1>28, <1>29, <1>30, <1>31, <1>32, <1>33

LEMMA KpHasCredentialTouched ==
  ASSUME IInv, [Next]_vars
  PROVE  \/ UNCHANGED <<kp, prov>>
         \/ DestroyOldKpersistent
         \/ PreserveKey
         \/ \E s \in AcSlots, k \in Keys : SetAccessCredential(s, k)
         \/ Commit
         \/ RemoveKpersistent("aliro")
         \/ RemoveKpersistent("matter")
<1>1. UNCHANGED vars => UNCHANGED <<kp, prov>>
  BY Zenon DEF vars, ram, store, nvs, A, M
<1> QED
  BY <1>1, Steps, StartDocumentDoes, ReadAccessDocumentDoes, AliroPassOverDoes,
     RemoveOldCredentialsDoes, StoreValidityIterationsDoes, RejectDocumentDoes, ChooseSlotDoes,
     RemoveOldestCredentialDoes, UpdateEvictableDoes, WriteEntryDoes, WriteCounterDoes,
     RemoveEvictableDoes, VerifyPublicKeyDoes, SetCredentialIssuerDoes, AddPublicKeyDoes,
     ClearCredentialDoes, ClearCredentialIssuerDoes, RemoveIssuerKeyDoes, MatterPassOverDoes,
     RemoveAccessCredentialsDoes, ClearValidityIterationsDoes, ResetDoes, AliroRemoveKeyDoes,
     MatterRemoveKeyDoes, AliroClearDocumentDoes, MatterClearDocumentDoes

(* A Kpersistent key is written for the key in its slot, and a credential is  *)
(* replaced when it has none.                                                 *)
LEMMA KpHasCredentialStep ==
  ASSUME IInv, [Next]_vars, upset' \cap KpCauses = {}
  PROVE  KpHasCredential'
<1>before. upset \cap KpCauses = {}
  BY UpsetGrows
<1>noFault. ~Fault("kp") /\ ~Fault("delete") /\ ~Fault("write") /\ ~Fault("read")
            /\ "cut" \notin upset' /\ "torn" \notin upset' /\ "overlap" \notin upset'
  BY DEF Fault, KpCauses
<1>inv. KpHasCredential /\ KpSteps /\ ProvInv /\ AliroInv /\ MatterInv /\ TypeOK
  BY <1>before DEF IInv, Unless, KpCauses
<1>1. CASE DestroyOldKpersistent
  BY <1>1, DestroyOldKpersistentDoes, <1>inv, <1>noFault, SlotFacts, SentinelAssumption
     DEF KpHasCredential, KpSteps, ProvInv, AliroInv, MatterInv, TypeOK, Storing
<1>2. CASE PreserveKey
  BY <1>2, PreserveKeyDoes, <1>inv, <1>noFault, SlotFacts, SentinelAssumption
     DEF KpHasCredential, KpSteps, ProvInv, AliroInv, MatterInv, TypeOK, Storing
<1>3. ASSUME NEW s \in AcSlots, NEW k \in Keys, SetAccessCredential(s, k)
      PROVE  KpHasCredential'
  BY <1>3, SetAccessCredentialDoes, <1>inv, <1>noFault, SlotFacts, SentinelAssumption
     DEF KpHasCredential, KpSteps, ProvInv, AliroInv, MatterInv, TypeOK, Storing
<1>4. CASE Commit
  BY <1>4, CommitDoes, <1>inv, <1>noFault, SlotFacts, SentinelAssumption
     DEF KpHasCredential, KpSteps, ProvInv, AliroInv, MatterInv, TypeOK, Storing
<1>5. CASE RemoveKpersistent("aliro")
  BY <1>5, AliroRemoveKpersistentDoes, <1>inv, <1>noFault, SlotFacts, SentinelAssumption
     DEF KpHasCredential, KpSteps, ProvInv, AliroInv, MatterInv, TypeOK, Storing
<1>6. CASE RemoveKpersistent("matter")
  BY <1>6, MatterRemoveKpersistentDoes, <1>inv, <1>noFault, SlotFacts, SentinelAssumption
     DEF KpHasCredential, KpSteps, ProvInv, AliroInv, MatterInv, TypeOK, Storing
<1>7. CASE UNCHANGED <<kp, prov>>
  BY <1>7, <1>inv, <1>noFault, SlotFacts, SentinelAssumption
     DEF KpHasCredential, KpSteps, ProvInv, AliroInv, MatterInv, TypeOK, Storing
<1> QED
  BY KpHasCredentialTouched, <1>1, <1>2, <1>3, <1>4, <1>5, <1>6, <1>7

(* A document is replaced by one of the same device, or is removed before its *)
(* Kpersistent key.                                                           *)
LEMMA KpHasDocumentStep ==
  ASSUME IInv, [Next]_vars, upset' \cap KpCauses = {}
  PROVE  KpHasDocument'
<1>before. upset \cap KpCauses = {}
  BY UpsetGrows
<1>noFault. ~Fault("kp") /\ ~Fault("delete") /\ ~Fault("write") /\ ~Fault("read")
            /\ "cut" \notin upset' /\ "torn" \notin upset' /\ "overlap" \notin upset'
  BY DEF Fault, KpCauses
<1> SUFFICES ASSUME NEW x \in AdSlots, kp'[x] # NoKey
             PROVE  (doc'[x] # NoDoc /\ doc'[x].key = kp'[x]) \/ Kept(x)' \/ (Between(x)' /\ A'.key = kp'[x])
  BY DEF KpHasDocument, Between
<1>inv. KpHasDocument /\ StoreInv /\ TurnInv /\ KpHasKey /\ KeysHaveDocuments /\ KpSteps /\ FreeSlotInv /\
        AliroInv /\ MatterInv /\ TypeOK
  BY <1>before DEF IInv, Unless, KpCauses
<1>1. ASSUME NEW d \in DocumentSet, StartDocument(d)
      PROVE  (doc'[x] # NoDoc /\ doc'[x].key = kp'[x]) \/ Kept(x)' \/ (Between(x)' /\ A'.key = kp'[x])
  BY <1>1, StartDocumentDoes, <1>inv, <1>noFault DEF KpHasDocument, Kept, Between
<1>2. ASSUME NEW s \in AdSlots, ReadAccessDocument(s)
      PROVE  (doc'[x] # NoDoc /\ doc'[x].key = kp'[x]) \/ Kept(x)' \/ (Between(x)' /\ A'.key = kp'[x])
  BY <1>2, ReadAccessDocumentDoes, <1>inv, <1>noFault, SlotFacts, SentinelAssumption,
     DocumentFields
     DEF KpHasDocument, Kept, AliroInv, MatterInv, RemoveSteps, TypeOK, FreeSlotInv, KpSteps,
         KpHasKey, KeysHaveDocuments, Gone, Writing, Storing, Between, ReadLost
<1>3. CASE PassOver("aliro")
  BY <1>3, AliroPassOverDoes, <1>inv, <1>noFault, SlotFacts, SentinelAssumption, DocumentFields
     DEF KpHasDocument, Kept, AliroInv, MatterInv, RemoveSteps, TypeOK, FreeSlotInv, KpSteps,
         KpHasKey, KeysHaveDocuments, Gone, Writing, Storing, Between, ReadLost
<1>4. CASE RemoveOldCredentials
  BY <1>4, RemoveOldCredentialsDoes, <1>inv, <1>noFault DEF KpHasDocument, Kept, Between
<1>5. CASE StoreValidityIterations
  BY <1>5, StoreValidityIterationsDoes, <1>inv, <1>noFault DEF KpHasDocument, Kept, Between
<1>6. CASE RejectDocument
  BY <1>6, RejectDocumentDoes, <1>inv, <1>noFault DEF KpHasDocument, Kept, Between
<1>7. CASE ChooseSlot
  BY <1>7, ChooseSlotDoes, <1>inv, <1>noFault DEF KpHasDocument, Kept, Between
<1>8. CASE RemoveOldestCredential
  BY <1>8, RemoveOldestCredentialDoes, <1>inv, <1>noFault, SlotFacts, SentinelAssumption,
     DocumentFields
     DEF KpHasDocument, Kept, AliroInv, MatterInv, RemoveSteps, TypeOK, FreeSlotInv, KpSteps,
         KpHasKey, KeysHaveDocuments, Gone, Writing, Storing, Between, ReadLost
<1>9. CASE UpdateEvictable
  BY <1>9, UpdateEvictableDoes, <1>inv, <1>noFault, SlotFacts, SentinelAssumption,
     DocumentFields
     DEF KpHasDocument, Kept, AliroInv, MatterInv, RemoveSteps, TypeOK, FreeSlotInv, KpSteps,
         KpHasKey, KeysHaveDocuments, Gone, Writing, Storing, Between
<1>10. CASE WriteEntry
  <2>1. /\ M' = M /\ kp' = kp /\ A.slot \in AdSlots /\ A.key \in Keys
        /\ A.doc # NoDoc /\ A.key = A.doc.key /\ A.at \notin {"rmKp", "rmDoc"}
        /\ M.at \notin {"rmKp", "rmDoc"} /\ (key[A.slot] = NoKey \/ key[A.slot] = A.key)
    BY <1>10, <1>inv, WriteEntryDoes, DocumentFields
       DEF AliroInv, Writing, Storing, StoreInv, FreeSlotInv, WriteLost
  <2>2. A'.at = "counter" /\ A'.key = A.key /\ A'.slot = A.slot /\ doc' = [doc EXCEPT ![A.slot] = NoDoc]
    BY <1>10, <1>noFault, WriteEntryDoes DEF WriteLost
  <2>3. CASE x = A.slot
    <3>1. kp[x] = A.key
      BY <1>inv, <2>1, <2>3, SlotFacts, SentinelAssumption DEF KpHasKey, Gone, Kept
    <3> QED
      BY <1>inv, <2>1, <2>2, <2>3, <3>1 DEF Between, TypeOK
  <2>4. CASE x # A.slot
    BY <1>inv, <2>1, <2>2, <2>4 DEF KpHasDocument, Kept, Between, TypeOK
  <2> QED
    BY <2>3, <2>4
<1>11. CASE WriteCounter
  <2>1. /\ M' = M /\ kp' = kp /\ A.slot \in AdSlots /\ A.key \in Keys
        /\ A.doc # NoDoc /\ A.key = A.doc.key /\ A.at \notin {"rmKp", "rmDoc"}
        /\ M.at \notin {"rmKp", "rmDoc"} /\ (key[A.slot] = NoKey \/ key[A.slot] = A.key)
    BY <1>11, <1>inv, WriteCounterDoes, DocumentFields
       DEF AliroInv, Writing, Storing, StoreInv, FreeSlotInv, WriteLost
  <2>2. doc' = [doc EXCEPT ![A.slot] = A.doc]
    BY <1>11, <1>noFault, WriteCounterDoes DEF WriteLost
  <2>3. CASE x = A.slot
    <3>1. kp[x] = A.key
      BY <1>inv, <2>1, <2>3, SlotFacts, SentinelAssumption DEF KpHasKey, Gone, Kept
    <3> QED
      BY <1>inv, <2>1, <2>2, <2>3, <3>1 DEF Between, TypeOK
  <2>4. CASE x # A.slot
    BY <1>inv, <2>1, <2>2, <2>4 DEF KpHasDocument, Kept, Between, TypeOK
  <2> QED
    BY <2>3, <2>4
<1>12. CASE RemoveEvictable
  BY <1>12, RemoveEvictableDoes, <1>inv, <1>noFault, SlotFacts, SentinelAssumption,
     DocumentFields
     DEF KpHasDocument, Kept, AliroInv, MatterInv, RemoveSteps, TypeOK, FreeSlotInv, KpSteps,
         KpHasKey, KeysHaveDocuments, Gone, Writing, Storing, Between
<1>13. ASSUME NEW k \in Keys \cup {ZeroKey}, NEW fast \in BOOLEAN, fast \/ k \in Keys,
              VerifyPublicKey(k, fast)
      PROVE  (doc'[x] # NoDoc /\ doc'[x].key = kp'[x]) \/ Kept(x)' \/ (Between(x)' /\ A'.key = kp'[x])
  BY <1>13, VerifyPublicKeyDoes, <1>inv, <1>noFault DEF KpHasDocument, Kept, Between
<1>14. CASE DestroyOldKpersistent
  BY <1>14, DestroyOldKpersistentDoes, <1>inv, <1>noFault, SlotFacts, SentinelAssumption,
     DocumentFields
     DEF KpHasDocument, Kept, AliroInv, MatterInv, RemoveSteps, TypeOK, FreeSlotInv, KpSteps,
         KpHasKey, KeysHaveDocuments, Gone, Writing, Storing, Between
<1>15. CASE PreserveKey
  BY <1>15, PreserveKeyDoes, <1>inv, <1>noFault, SlotFacts, SentinelAssumption, DocumentFields
     DEF KpHasDocument, Kept, AliroInv, MatterInv, RemoveSteps, TypeOK, FreeSlotInv, KpSteps,
         KpHasKey, KeysHaveDocuments, Gone, Writing, Storing, Between
<1>16. ASSUME NEW s \in AcSlots, NEW k \in Keys, SetAccessCredential(s, k)
      PROVE  (doc'[x] # NoDoc /\ doc'[x].key = kp'[x]) \/ Kept(x)' \/ (Between(x)' /\ A'.key = kp'[x])
  BY <1>16, SetAccessCredentialDoes, <1>inv, <1>noFault DEF KpHasDocument, Kept, Between
<1>17. ASSUME NEW i \in Issuers, SetCredentialIssuer(i)
      PROVE  (doc'[x] # NoDoc /\ doc'[x].key = kp'[x]) \/ Kept(x)' \/ (Between(x)' /\ A'.key = kp'[x])
  BY <1>17, SetCredentialIssuerDoes, <1>inv, <1>noFault DEF KpHasDocument, Kept, Between
<1>18. CASE AddPublicKey
  BY <1>18, AddPublicKeyDoes, <1>inv, <1>noFault DEF KpHasDocument, Kept, Between
<1>19. ASSUME NEW s \in Slots, ClearCredential(s)
      PROVE  (doc'[x] # NoDoc /\ doc'[x].key = kp'[x]) \/ Kept(x)' \/ (Between(x)' /\ A'.key = kp'[x])
  BY <1>19, ClearCredentialDoes, <1>inv, <1>noFault DEF KpHasDocument, Kept, Between
<1>20. ASSUME NEW i \in Issuers, ClearCredentialIssuer(i)
      PROVE  (doc'[x] # NoDoc /\ doc'[x].key = kp'[x]) \/ Kept(x)' \/ (Between(x)' /\ A'.key = kp'[x])
  BY <1>20, ClearCredentialIssuerDoes, <1>inv, <1>noFault DEF KpHasDocument, Kept, Between
<1>21. CASE RemoveIssuerKey
  BY <1>21, RemoveIssuerKeyDoes, <1>inv, <1>noFault DEF KpHasDocument, Kept, Between
<1>22. CASE PassOver("matter")
  BY <1>22, MatterPassOverDoes, <1>inv, <1>noFault, SlotFacts, SentinelAssumption,
     DocumentFields
     DEF KpHasDocument, Kept, AliroInv, MatterInv, RemoveSteps, TypeOK, FreeSlotInv, KpSteps,
         KpHasKey, KeysHaveDocuments, Gone, Writing, Storing, Between, ReadLost
<1>23. CASE RemoveAccessCredentials
  BY <1>23, RemoveAccessCredentialsDoes, <1>inv, <1>noFault DEF KpHasDocument, Kept, Between
<1>24. CASE ClearValidityIterations
  BY <1>24, ClearValidityIterationsDoes, <1>inv, <1>noFault DEF KpHasDocument, Kept, Between
<1>25. CASE Commit
  BY <1>25, CommitDoes, <1>inv, <1>noFault DEF KpHasDocument, Kept, Between
<1>26. CASE Reset
  <2>1. ~Between(x) /\ ~Kept(x)
    BY <1>26, <1>noFault, ResetDoes DEF Between, Kept
  <2> QED
    BY <1>26, <1>inv, <2>1, ResetDoes DEF KpHasDocument, KpCauses, Between
<1>27. CASE RemoveKey("aliro")
  BY <1>27, AliroRemoveKeyDoes, <1>inv, <1>noFault DEF KpHasDocument, Kept, Between
<1>28. CASE RemoveKey("matter")
  BY <1>28, MatterRemoveKeyDoes, <1>inv, <1>noFault DEF KpHasDocument, Kept, Between
<1>29. CASE ClearAccessDocument("aliro")
  BY <1>29, AliroClearDocumentDoes, <1>inv, <1>noFault, SlotFacts, SentinelAssumption,
     DocumentFields
     DEF KpHasDocument, Kept, AliroInv, MatterInv, RemoveSteps, TypeOK, FreeSlotInv, KpSteps,
         KpHasKey, KeysHaveDocuments, Gone, Writing, Storing, Between
<1>30. CASE ClearAccessDocument("matter")
  BY <1>30, MatterClearDocumentDoes, <1>inv, <1>noFault, SlotFacts, SentinelAssumption,
     DocumentFields
     DEF KpHasDocument, Kept, AliroInv, MatterInv, RemoveSteps, TypeOK, FreeSlotInv, KpSteps,
         KpHasKey, KeysHaveDocuments, Gone, Writing, Storing, Between
<1>31. CASE RemoveKpersistent("aliro")
  BY <1>31, AliroRemoveKpersistentDoes, <1>inv, <1>noFault, SlotFacts, SentinelAssumption,
     DocumentFields
     DEF KpHasDocument, Kept, AliroInv, MatterInv, RemoveSteps, TypeOK, FreeSlotInv, KpSteps,
         KpHasKey, KeysHaveDocuments, Gone, Writing, Storing, Between
<1>32. CASE RemoveKpersistent("matter")
  BY <1>32, MatterRemoveKpersistentDoes, <1>inv, <1>noFault, SlotFacts, SentinelAssumption,
     DocumentFields
     DEF KpHasDocument, Kept, AliroInv, MatterInv, RemoveSteps, TypeOK, FreeSlotInv, KpSteps,
         KpHasKey, KeysHaveDocuments, Gone, Writing, Storing, Between
<1>33. CASE UNCHANGED vars
  BY <1>33, <1>inv, <1>noFault DEF KpHasDocument, Kept, vars, ram, store, A, M, Between, nvs
<1> QED
  BY Steps, <1>1, <1>2, <1>3, <1>4, <1>5, <1>6, <1>7, <1>8, <1>9, <1>10, <1>11, <1>12, <1>13,
     <1>14, <1>15, <1>16, <1>17, <1>18, <1>19, <1>20, <1>21, <1>22, <1>23, <1>24, <1>25, <1>26,
     <1>27, <1>28, <1>29, <1>30, <1>31, <1>32, <1>33

(* The key whose Kpersistent key is being written stays in its slot; a        *)
(* credential is committed without one.                                       *)
LEMMA KpStepsStep ==
  ASSUME IInv, [Next]_vars, upset' \cap KpCauses = {}
  PROVE  KpSteps'
<1>before. upset \cap KpCauses = {}
  BY UpsetGrows
<1>noFault. ~Fault("kp") /\ ~Fault("delete") /\ ~Fault("write") /\ ~Fault("read")
            /\ "cut" \notin upset' /\ "torn" \notin upset' /\ "overlap" \notin upset'
  BY DEF Fault, KpCauses
<1>inv. KpSteps /\ KpHasKey /\ TurnInv /\ "overlap" \notin upset /\ AliroInv /\
        MatterInv /\ TypeOK
  BY <1>before DEF IInv, Unless, KpCauses
<1>1. ASSUME NEW d \in DocumentSet, StartDocument(d)
      PROVE  KpSteps'
  BY <1>1, StartDocumentDoes, <1>inv, <1>noFault DEF KpSteps, MatterInv, RemoveSteps, TurnInv
<1>2. ASSUME NEW s \in AdSlots, ReadAccessDocument(s)
      PROVE  KpSteps'
  BY <1>2, ReadAccessDocumentDoes, <1>inv, <1>noFault, SlotFacts, SentinelAssumption
     DEF KpSteps, MatterInv, RemoveSteps, TurnInv, AliroInv, TypeOK, Storing, ReadLost
<1>3. CASE PassOver("aliro")
  BY <1>3, AliroPassOverDoes, <1>inv, <1>noFault, SlotFacts, SentinelAssumption
     DEF KpSteps, MatterInv, RemoveSteps, TurnInv, AliroInv, TypeOK, Storing, ReadLost
<1>4. CASE RemoveOldCredentials
  BY <1>4, RemoveOldCredentialsDoes, <1>inv, <1>noFault DEF KpSteps, MatterInv, RemoveSteps, TurnInv
<1>5. CASE StoreValidityIterations
  BY <1>5, StoreValidityIterationsDoes, <1>inv, <1>noFault
     DEF KpSteps, MatterInv, RemoveSteps, TurnInv
<1>6. CASE RejectDocument
  BY <1>6, RejectDocumentDoes, <1>inv, <1>noFault DEF KpSteps, MatterInv, RemoveSteps, TurnInv
<1>7. CASE ChooseSlot
  BY <1>7, ChooseSlotDoes, <1>inv, <1>noFault DEF KpSteps, MatterInv, RemoveSteps, TurnInv
<1>8. CASE RemoveOldestCredential
  BY <1>8, RemoveOldestCredentialDoes, <1>inv, <1>noFault, SlotFacts, SentinelAssumption
     DEF KpSteps, MatterInv, RemoveSteps, TurnInv, AliroInv, TypeOK, Storing, ReadLost
<1>9. CASE UpdateEvictable
  BY <1>9, UpdateEvictableDoes, <1>inv, <1>noFault, SlotFacts, SentinelAssumption
     DEF KpSteps, MatterInv, RemoveSteps, TurnInv, AliroInv, TypeOK, Storing
<1>10. CASE WriteEntry
  BY <1>10, WriteEntryDoes, <1>inv, <1>noFault, SlotFacts, SentinelAssumption
     DEF KpSteps, MatterInv, RemoveSteps, TurnInv, AliroInv, TypeOK, Storing, WriteLost
<1>11. CASE WriteCounter
  BY <1>11, WriteCounterDoes, <1>inv, <1>noFault, SlotFacts, SentinelAssumption
     DEF KpSteps, MatterInv, RemoveSteps, TurnInv, AliroInv, TypeOK, Storing, WriteLost
<1>12. CASE RemoveEvictable
  BY <1>12, RemoveEvictableDoes, <1>inv, <1>noFault, SlotFacts, SentinelAssumption
     DEF KpSteps, MatterInv, RemoveSteps, TurnInv, AliroInv, TypeOK, Storing
<1>13. ASSUME NEW k \in Keys \cup {ZeroKey}, NEW fast \in BOOLEAN, fast \/ k \in Keys,
              VerifyPublicKey(k, fast)
      PROVE  KpSteps'
  BY <1>13, VerifyPublicKeyDoes, <1>inv, <1>noFault DEF KpSteps, MatterInv, RemoveSteps, TurnInv
<1>14. CASE DestroyOldKpersistent
  BY <1>14, DestroyOldKpersistentDoes, <1>inv, <1>noFault, SlotFacts, SentinelAssumption
     DEF KpSteps, MatterInv, RemoveSteps, TurnInv, AliroInv, TypeOK, Storing
<1>15. CASE PreserveKey
  BY <1>15, PreserveKeyDoes, <1>inv, <1>noFault, SlotFacts, SentinelAssumption
     DEF KpSteps, MatterInv, RemoveSteps, TurnInv, AliroInv, TypeOK, Storing
<1>16. ASSUME NEW s \in AcSlots, NEW k \in Keys, SetAccessCredential(s, k)
      PROVE  KpSteps'
  BY <1>16, SetAccessCredentialDoes, <1>inv, <1>noFault DEF KpSteps, MatterInv, RemoveSteps, TurnInv
<1>17. ASSUME NEW i \in Issuers, SetCredentialIssuer(i)
      PROVE  KpSteps'
  BY <1>17, SetCredentialIssuerDoes, <1>inv, <1>noFault DEF KpSteps, MatterInv, RemoveSteps, TurnInv
<1>18. CASE AddPublicKey
  BY <1>18, AddPublicKeyDoes, <1>inv, <1>noFault, SlotFacts, SentinelAssumption
     DEF KpSteps, MatterInv, RemoveSteps, TurnInv, AliroInv, TypeOK, Storing
<1>19. ASSUME NEW s \in Slots, ClearCredential(s)
      PROVE  KpSteps'
  BY <1>19, ClearCredentialDoes, <1>inv, <1>noFault DEF KpSteps, MatterInv, RemoveSteps, TurnInv
<1>20. ASSUME NEW i \in Issuers, ClearCredentialIssuer(i)
      PROVE  KpSteps'
  BY <1>20, ClearCredentialIssuerDoes, <1>inv, <1>noFault
     DEF KpSteps, MatterInv, RemoveSteps, TurnInv
<1>21. CASE RemoveIssuerKey
  BY <1>21, RemoveIssuerKeyDoes, <1>inv, <1>noFault DEF KpSteps, MatterInv, RemoveSteps, TurnInv
<1>22. CASE PassOver("matter")
  BY <1>22, MatterPassOverDoes, <1>inv, <1>noFault, SlotFacts, SentinelAssumption
     DEF KpSteps, MatterInv, RemoveSteps, TurnInv, AliroInv, TypeOK, Storing, ReadLost
<1>23. CASE RemoveAccessCredentials
  BY <1>23, RemoveAccessCredentialsDoes, <1>inv, <1>noFault
     DEF KpSteps, MatterInv, RemoveSteps, TurnInv
<1>24. CASE ClearValidityIterations
  BY <1>24, ClearValidityIterationsDoes, <1>inv, <1>noFault, SlotFacts, SentinelAssumption
     DEF KpSteps, MatterInv, RemoveSteps, TurnInv, AliroInv, TypeOK, Storing
<1>25. CASE Commit
  BY <1>25, CommitDoes, <1>inv, <1>noFault DEF KpSteps, MatterInv, RemoveSteps, TurnInv
<1>26. CASE Reset
  BY <1>26, ResetDoes, <1>inv, <1>noFault, SlotFacts, SentinelAssumption
     DEF KpSteps, MatterInv, RemoveSteps, TurnInv, AliroInv, TypeOK, Storing
<1>27. CASE RemoveKey("aliro")
  BY <1>27, AliroRemoveKeyDoes, <1>inv, <1>noFault, SlotFacts, SentinelAssumption
     DEF KpSteps, MatterInv, RemoveSteps, TurnInv, AliroInv, TypeOK, Storing
<1>28. CASE RemoveKey("matter")
  BY <1>28, MatterRemoveKeyDoes, <1>inv, <1>noFault, SlotFacts, SentinelAssumption
     DEF KpSteps, MatterInv, RemoveSteps, TurnInv, AliroInv, TypeOK, KpHasKey, Gone, Kept,
         Storing
<1>29. CASE ClearAccessDocument("aliro")
  BY <1>29, AliroClearDocumentDoes, <1>inv, <1>noFault DEF KpSteps, MatterInv, RemoveSteps, TurnInv
<1>30. CASE ClearAccessDocument("matter")
  BY <1>30, MatterClearDocumentDoes, <1>inv, <1>noFault DEF KpSteps, MatterInv, RemoveSteps, TurnInv
<1>31. CASE RemoveKpersistent("aliro")
  BY <1>31, AliroRemoveKpersistentDoes, <1>inv, <1>noFault, SlotFacts, SentinelAssumption
     DEF KpSteps, MatterInv, RemoveSteps, TurnInv, AliroInv, TypeOK, Storing
<1>32. CASE RemoveKpersistent("matter")
  BY <1>32, MatterRemoveKpersistentDoes, <1>inv, <1>noFault, SlotFacts, SentinelAssumption
     DEF KpSteps, MatterInv, RemoveSteps, TurnInv, AliroInv, TypeOK, Storing
<1>33. CASE UNCHANGED vars
  BY <1>33, <1>inv, <1>noFault
     DEF KpSteps, MatterInv, RemoveSteps, TurnInv, vars, ram, store, A, M, nvs
<1> QED
  BY Steps, <1>1, <1>2, <1>3, <1>4, <1>5, <1>6, <1>7, <1>8, <1>9, <1>10, <1>11, <1>12, <1>13,
     <1>14, <1>15, <1>16, <1>17, <1>18, <1>19, <1>20, <1>21, <1>22, <1>23, <1>24, <1>25, <1>26,
     <1>27, <1>28, <1>29, <1>30, <1>31, <1>32, <1>33

(* The invariant holds at the start and is kept by every step.                *)
LEMMA Initial == Init => IInv
<1> SUFFICES ASSUME Init PROVE IInv
  OBVIOUS
<1>1. /\ key = [s \in Slots |-> NoKey] /\ kp = key /\ prov = key
      /\ doc = [s \in AdSlots |-> NoDoc] /\ torn = {} /\ evict = [s \in AdSlots |-> NoKey]
      /\ vi = [i \in Issuers |-> 0] /\ issuer = [i \in Issuers |-> "none"] /\ owned = issuer
      /\ up = TRUE /\ sMutex = {} /\ faults = 0 /\ upset = {}
  BY DEF Init
<1>2. /\ op \in [Threads -> OpSet]
      /\ A.at = "idle" /\ A.then = "none" /\ M.at = "idle" /\ M.then = "none"
      /\ A.skip = {} /\ M.skip = {}
  BY NoOpFields DEF Init, A, M, Threads
<1>3. TypeOK
  BY <1>1, BoundsAssumption, SlotFacts DEF TypeOK
<1>4. AliroInv /\ MatterInv
  BY <1>1, <1>2
     DEF AliroInv, MatterInv, Iterating, Writing, Storing, Expiring, RemoveSteps, AliroSteps, MatterSteps
<1>5. TurnInv /\ ProvInv /\ IssuerInv /\ RemoveInv /\ FreeSlotInv
  BY <1>1, <1>2, SlotFacts, SentinelAssumption
     DEF Storing, TurnInv, ProvInv, IssuerInv, Clearing, RemoveSteps, RemoveInv, FreeSlotInv
<1>6. DocumentsHaveKeys /\ KeysHaveDocuments /\ NoZeroKey
  BY <1>1, SlotFacts, SentinelAssumption DEF DocumentsHaveKeys, KeysHaveDocuments, NoZeroKey
<1>7. OneDocument /\ OneSlot /\ OwnSlot /\ CopiesFollow
  BY <1>1, <1>2, SlotFacts, SentinelAssumption
     DEF OneDocument, OneSlot, OwnSlot, Writing, Storing, RemoveSteps, CopiesFollow, CopyOf
<1>8. UpdateRecent /\ CheckedRecent /\ DocumentsRecent /\ DocumentsOwned /\ ClearedFirst /\ IterationsFresh
  BY <1>1, <1>2
     DEF UpdateRecent, CheckedRecent, Iterating, Writing, Storing, RemoveSteps, DocumentsRecent,
         DocumentsOwned, ClearedFirst, IterationsFresh
<1>10. StoreInv /\ TornInv /\ TornEntry /\ NothingSkipped
  BY <1>1, <1>2 DEF StoreInv, TornInv, TornEntry, NothingSkipped
<1>9. KpHasKey /\ KpHasCredential /\ KpHasDocument /\ KpSteps
  BY <1>1, <1>2, SlotFacts DEF KpHasKey, KpHasCredential, KpHasDocument, KpSteps
<1> QED
  BY <1>2, <1>3, <1>4, <1>5, <1>6, <1>7, <1>8, <1>9, <1>10 DEF IInv, Unless

(* Every step keeps the types.                                                *)
LEMMA TypesStep ==
  ASSUME IInv, [Next]_vars
  PROVE  TypeOK' /\ op' \in [Threads -> OpSet]
<1>1. TypeOK'
  BY TypeParts, KeyTypesStep, StoreTypesStep, ControlTypesStep, PTL
<1>2. CASE UNCHANGED vars
  BY <1>1, <1>2 DEF IInv, vars
<1>3. CASE ~UNCHANGED vars
  BY <1>1, <1>3, Steps, StartDocumentDoes, ReadAccessDocumentDoes, AliroPassOverDoes,
     RemoveOldCredentialsDoes, StoreValidityIterationsDoes, RejectDocumentDoes, ChooseSlotDoes,
     RemoveOldestCredentialDoes, UpdateEvictableDoes, WriteEntryDoes, WriteCounterDoes,
     RemoveEvictableDoes, VerifyPublicKeyDoes, DestroyOldKpersistentDoes, PreserveKeyDoes,
     SetAccessCredentialDoes, SetCredentialIssuerDoes, AddPublicKeyDoes, ClearCredentialDoes,
     ClearCredentialIssuerDoes, RemoveIssuerKeyDoes, MatterPassOverDoes,
     RemoveAccessCredentialsDoes, ClearValidityIterationsDoes, CommitDoes, ResetDoes,
     AliroRemoveKeyDoes, MatterRemoveKeyDoes, AliroClearDocumentDoes, MatterClearDocumentDoes,
     AliroRemoveKpersistentDoes, MatterRemoveKpersistentDoes
<1> QED
  BY <1>1, <1>2, <1>3

(* So does every step.                                                        *)
LEMMA Inductive == IInv /\ [Next]_vars => IInv'
<1> SUFFICES ASSUME IInv, [Next]_vars PROVE IInv'
  OBVIOUS
<1>1. TypeOK' /\ op' \in [Threads -> OpSet]
  BY TypesStep
<1>2. /\ AliroInv' /\ MatterInv' /\ TurnInv' /\ ProvInv' /\ IssuerInv' /\ RemoveInv' /\ FreeSlotInv'
      /\ StoreInv' /\ TornInv'
  BY AliroInvStep, MatterInvStep, TurnInvStep, ProvInvStep, IssuerInvStep, RemoveInvStep,
     FreeSlotInvStep, StoreInvStep, TornInvStep
<1>3. /\ Unless({"delete"}, DocumentsHaveKeys)'
      /\ Unless({"write", "read"}, KeysHaveDocuments)'
      /\ Unless({"zero"}, NoZeroKey)'
  BY DocumentsHaveKeysStep, KeysHaveDocumentsStep, NoZeroKeyStep DEF Unless
<1>4. Unless({"delete", "zero"}, OneDocument /\ OneSlot /\ OwnSlot)'
  BY OneDocumentStep, OneSlotStep, OwnSlotStep DEF Unless
<1>5. Unless({"write", "read", "delete", "zero"}, CopiesFollow)'
  BY CopiesFollowStep DEF Unless
<1>6. Unless({"overlap"}, UpdateRecent /\ CheckedRecent)'
  BY UpdateRecentStep, CheckedRecentStep DEF Unless
<1>7. Unless({"delete", "read", "overlap"}, DocumentsRecent /\ DocumentsOwned /\ ClearedFirst)'
  BY DocumentsRecentStep, DocumentsOwnedStep, ClearedFirstStep DEF Unless
<1>8. Unless({"iteration", "overlap"}, IterationsFresh)'
  BY IterationsFreshStep DEF Unless
<1>9. Unless(KpCauses, KpHasKey /\ KpHasCredential /\ KpHasDocument /\ KpSteps)'
  BY KpHasKeyStep, KpHasCredentialStep, KpHasDocumentStep, KpStepsStep DEF Unless, KpCauses
<1>10. Unless(StartCauses, TornEntry)' /\ Unless({"read"}, NothingSkipped)'
  BY TornEntryStep, NothingSkippedStep DEF Unless, StartCauses
<1> QED
  BY <1>1, <1>2, <1>3, <1>4, <1>5, <1>6, <1>7, <1>8, <1>9, <1>10 DEF IInv

LEMMA Invariant == Spec => []IInv
  BY Initial, Inductive, PTL DEF Spec

-----------------------------------------------------------------------------
(* What the runs check.                                                       *)

(* No accepted document is behind its issuer's iteration, whatever the number *)
(* of devices, issuers and slots: UpdateValidityIteration removes the         *)
(* documents before it stores the iteration, and a reset may come between.    *)
THEOREM OldDocumentsAreRemoved == Spec => []NoOldDocument
<1>1. IInv => NoOldDocument
  BY DEF IInv, Unless, DocumentsRecent, NoOldDocument, AdKeys
<1> QED
  BY <1>1, Invariant, PTL

(* A start fails only after a reset that cut the write of a document. Every   *)
(* stored document has an issuer that Matter knows, because the documents of  *)
(* an issuer are removed before Matter commits the removal of the issuer; and *)
(* no entry is without its counter but the one that is being written.         *)
THEOREM StartSucceeds == Spec => StartsAgain
<1>1. ASSUME IInv, Reset, ~up', upset' \cap StartCauses = {}
      PROVE  At("aliro", "counter")
  <2>1. upset \subseteq upset' /\ "read" \notin upset'
    BY <1>1, ResetDoes DEF StartCauses
  <2>2. TornEntry /\ DocumentsOwned
    BY <1>1, <2>1 DEF IInv, Unless, StartCauses
  <2>3. torn # {}
    BY <1>1, <2>1, <2>2, ResetDoes DEF DocumentsOwned
  <2> QED
    BY <2>2, <2>3 DEF TornEntry, At, A
<1>2. IInv /\ [Next]_vars =>
          [~up' /\ Reset /\ upset' \cap {"delete", "write", "read", "overlap"} = {} => At("aliro", "counter")]_vars
  BY <1>1 DEF StartCauses
<1> QED
  BY <1>2, Initial, Inductive, PTL DEF Spec, StartsAgain

(* A device never has two documents: a new one replaces the old one in its    *)
(* slot, and a document is written over no other device's.                    *)
THEOREM OneDocumentPerDevice == Spec => []OneSlotPerKey
<1>1. IInv => OneSlotPerKey
  BY DEF IInv, Unless, OneDocument, OneSlotPerKey
<1> QED
  BY <1>1, Invariant, PTL

(* An issuer that is set begins with the iteration 0, at any index.           *)
THEOREM IterationsStartAtZero == Spec => []FreshIssuer
<1>1. IInv => FreshIssuer
  BY DEF IInv, Unless, IterationsFresh, FreshIssuer
<1> QED
  BY <1>1, Invariant, PTL

(* The fast phase verifies the device whose Kpersistent key was used: the     *)
(* Kpersistent key of a slot is destroyed before another device has the slot. *)
THEOREM FastPhaseIsSafe == Spec => []FastPhaseVerifiesOwner
<1>1. ASSUME IInv PROVE FastPhaseVerifiesOwner
  <2> SUFFICES ASSUME upset \cap KpCauses = {}, A.at = "idle", NEW s \in Slots,
                      kp[s] # NoKey, key[s] \in Keys
               PROVE  kp[s] = key[s]
    BY DEF FastPhaseVerifiesOwner, Unless, Idle, At, A, KpCauses
  <2>1. KpHasKey /\ RemoveInv
    BY <1>1 DEF IInv, Unless
  <2>2. ~Gone(s) /\ ~Kept(s)
    BY <2>1, SentinelAssumption DEF RemoveInv, Gone, Kept
  <2> QED
    BY <2>1, <2>2, SentinelAssumption DEF KpHasKey
<1> QED
  BY <1>1, Invariant, PTL

(* At rest the Access Manager's key, the stored document and Matter's copy    *)
(* are of one device in every slot: no access is granted that Matter would    *)
(* not unlock for.                                                            *)
THEOREM CopiesStayEqual == Spec => []CopiesAgree
<1>1. ASSUME IInv PROVE CopiesAgree
  <2> SUFFICES ASSUME upset \cap {"write", "read", "delete", "zero"} = {}, up, AtRest, NEW s \in AdSlots
               PROVE  evict[s] = key[s] /\ key[s] = CopyOf(doc[s])
    BY DEF CopiesAgree, Unless, CopyOf
  <2>1. DocumentsHaveKeys /\ KeysHaveDocuments /\ NoZeroKey /\ CopiesFollow
    BY <1>1 DEF IInv, Unless
  <2>2. ~Gone(s) /\ ~Between(s) /\ A.at = "idle"
    BY DEF AtRest, Idle, At, Threads, Gone, Between, A, M
  <2>3. key[s] \in Keys \cup {NoKey, ZeroKey} /\ doc[s] \in DocumentSet \cup {NoDoc}
    BY <1>1, SlotFacts DEF IInv, TypeOK
  <2>4. key[s] = CopyOf(doc[s])
    BY <2>1, <2>2, <2>3 DEF DocumentsHaveKeys, KeysHaveDocuments, NoZeroKey, CopyOf
  <2> QED
    BY <2>1, <2>2, <2>4 DEF CopiesFollow
<1> QED
  BY <1>1, Invariant, PTL
=============================================================================
