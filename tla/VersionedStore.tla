--------------------------- MODULE VersionedStore ---------------------------
(***************************************************************************)
(* What the external NVS promises its callers (external_nvs.h): a map from *)
(* entries to values that may lose an entry but never goes back to a value *)
(* that an acknowledged call superseded.                                   *)
(*                                                                         *)
(* Each entry has a version.  Values are first prepared for the next       *)
(* version; the commit moves the entry to it, and then only the values     *)
(* prepared for that version can ever be read there.                       *)
(***************************************************************************)
CONSTANTS Ids, Values, None

VARIABLES
  store,    (* the value a Read of the entry would return, or None         *)
  current,  (* the values valid in the entry's current version             *)
  next,     (* the values prepared for its next version                    *)
  answer    (* the value the last call returned, if it was a Read          *)

vars == <<store, current, next, answer>>

Init ==
  /\ store = [id \in Ids |-> None]
  /\ current = [id \in Ids |-> {}]
  /\ next = [id \in Ids |-> {}]
  /\ answer = None

(* An object for the next version replaces the entry: it reads as absent.  *)
Prepare(id, v) ==
  /\ next' = [next EXCEPT ![id] = @ \union {v}]
  /\ store' = [store EXCEPT ![id] = None]
  /\ UNCHANGED <<current, answer>>

Advance(id) ==
  /\ current' = [current EXCEPT ![id] = next[id]]
  /\ next' = [next EXCEPT ![id] = {}]
  /\ answer' = None

(* A write is acknowledged. *)
Commit(id, v) ==
  /\ v \in next[id]
  /\ store' = [store EXCEPT ![id] = v]
  /\ Advance(id)

(* A removal is acknowledged. *)
Remove(id) ==
  /\ store' = [store EXCEPT ![id] = None]
  /\ Advance(id)

(* Entries get lost: a call failed on them, or they were erased. *)
Drop(S) ==
  /\ store' = [id \in Ids |-> IF id \in S THEN None ELSE store[id]]
  /\ answer' = None
  /\ UNCHANGED <<current, next>>

(* The flash is put back: only a value of the current version reads. *)
Restore(id) ==
  /\ \E v \in current[id] \union {None} : store' = [store EXCEPT ![id] = v]
  /\ UNCHANGED <<current, next, answer>>

Wipe ==
  /\ store' = [id \in Ids |-> None]
  /\ current' = [id \in Ids |-> {}]
  /\ next' = [id \in Ids |-> {}]
  /\ UNCHANGED answer

Answer(id) ==
  /\ store[id] # None
  /\ answer' = store[id]
  /\ UNCHANGED <<store, current, next>>

Forget ==
  /\ answer' = None
  /\ UNCHANGED <<store, current, next>>

Next ==
  \/ \E id \in Ids : \/ \E v \in Values : Prepare(id, v) \/ Commit(id, v)
                     \/ Remove(id) \/ Restore(id) \/ Answer(id)
  \/ \E S \in SUBSET Ids : Drop(S)
  \/ Wipe \/ Forget

Spec == Init /\ [][Next]_vars
=============================================================================
