----------------------- MODULE BleAdvertisingArbiter -----------------------
(***************************************************************************)
(* The BLE advertising arbiter of the builds without Matter                *)
(* (subsys/advertising_arbiter): the requests of its clients are linked    *)
(* into a list sorted by priority, and the advertiser of the default       *)
(* Bluetooth identity carries the first one.                               *)
(*                                                                         *)
(* InsertRequest and CancelRequest hold sMutex throughout, and so does the *)
(* recycled callback; the advertiser cannot start or lose a connection to  *)
(* a central between the stop and the start of one call, so each of the    *)
(* two is one step.  The disconnected callback takes no lock: it           *)
(* interleaves with the statements of the recycled callback.               *)
(*                                                                         *)
(* The list is the sys_slist of the kernel, with its pointers: a client    *)
(* that reuses a request while it is linked changes what the list holds.   *)
(***************************************************************************)
EXTENDS Naturals, FiniteSets, Sequences, FiniteSetsExt

CONSTANTS
  Requests,       (* the Request objects of the clients                    *)
  Priority,       (* mPriority: a lower value is more urgent               *)
  None,           (* the null pointer                                      *)
  MaxConnections, (* CONFIG_DOOR_LOCK_ADVERTISING_ARBITER_MAX_CONNECTIONS  *)
  PoolSize        (* CONFIG_BT_MAX_CONN: connection objects of the host    *)

ASSUME RequestsAssumption == IsFiniteSet(Requests)
ASSUME NoneIsNoRequest == None \notin Requests
ASSUME PriorityAssumption == Priority \in [Requests -> Nat]
ASSUME LimitsAssumption ==
  /\ MaxConnections \in Nat \ {0} /\ PoolSize \in Nat \ {0}
  /\ MaxConnections <= PoolSize

VARIABLES
  head, tail,       (* sRequests: the ends of the list                     *)
  link,             (* the next pointer inside every Request object        *)
  wasDisconnected,  (* sWasDisconnected                                    *)
  retry,            (* sRetry                                              *)
  recycling,        (* where the recycled callback is                      *)
  adv,              (* the request the advertiser carries, or None         *)
  conns,            (* connections of the default identity                 *)
  dead,             (* connection objects not yet recycled after a         *)
                    (* disconnection                                       *)
  result,           (* what the last InsertRequest or CancelRequest        *)
                    (* returned: "ok" or the name of the error             *)
  pending,          (* history: the requests inserted and not cancelled    *)
  failed            (* history: the host failed to start for a reason of   *)
                    (* its own, or failed to stop                          *)

list  == <<head, tail, link>>
flags == <<wasDisconnected, retry>>
radio == <<adv, conns, dead>>
vars  == <<list, flags, recycling, radio, result, pending, failed>>

N == Cardinality(Requests)

(* SYS_SLIST_FOR_EACH_NODE: node number i of the list, None past its end;  *)
(* a walk of more than N nodes goes round in a circle.                     *)
Walk[i \in 1 .. N + 1] ==
  IF i = 1 THEN head ELSE IF Walk[i - 1] = None THEN None ELSE link[Walk[i - 1]]

Ends     == Walk[N + 1] = None
Length   == Cardinality({i \in 1 .. N : Walk[i] # None})
AsSeq    == [i \in 1 .. Length |-> Walk[i]]
IsLinked(r) == \E i \in 1 .. N : Walk[i] = r

(* Mutant: a request goes before those that are as urgent. *)
PredecessorStrict(r) ==
  LET Passed == {i \in 1 .. Length :
                   \A j \in 1 .. i : Priority[Walk[j]] < Priority[r]}
  IN  IF Passed = {} THEN None ELSE Walk[Max(Passed)]

(* AddRequest: the last node before the first one less urgent than r. *)
Predecessor(r) ==
  LET Passed == {i \in 1 .. Length :
                   \A j \in 1 .. i : Priority[Walk[j]] <= Priority[r]}
  IN  IF Passed = {} THEN None ELSE Walk[Max(Passed)]

(* sys_slist_prepend, and sys_slist_insert, which appends after the last.  *)
Prepend(r) ==
  /\ link' = [link EXCEPT ![r] = head]
  /\ head' = r
  /\ tail' = IF tail = None THEN r ELSE tail

InsertAfter(prev, r) ==
  IF link[prev] = None
  THEN /\ link' = [[link EXCEPT ![r] = None] EXCEPT ![tail] = r]
       /\ tail' = r /\ UNCHANGED head
  ELSE /\ link' = [link EXCEPT ![r] = link[prev], ![prev] = r]
       /\ UNCHANGED <<head, tail>>

AddRequest(r) ==
  IF Predecessor(r) = None THEN Prepend(r) ELSE InsertAfter(Predecessor(r), r)

(* Mutant: the tail pointer is left alone. *)
RemoveKeepsTail(r) ==
  LET at == Min({i \in 1 .. N : Walk[i] = r})
  IN  /\ link' = IF at = 1
                 THEN [link EXCEPT ![r] = None]
                 ELSE [link EXCEPT ![Walk[at - 1]] = link[r], ![r] = None]
      /\ head' = IF at = 1 THEN link[r] ELSE head
      /\ UNCHANGED tail

(* RemoveRequest, by sys_slist_find_and_remove: r is in the list. *)
RemoveRequest(r) ==
  LET at == Min({i \in 1 .. N : Walk[i] = r})
  IN  /\ link' = IF at = 1
                 THEN [link EXCEPT ![r] = None]
                 ELSE [link EXCEPT ![Walk[at - 1]] = link[r], ![r] = None]
      /\ head' = IF at = 1 THEN link[r] ELSE head
      /\ tail' = IF tail # r THEN tail
                 ELSE IF at = 1 THEN head' ELSE Walk[at - 1]

(* Mutant: a failed start is not to be retried. *)
StartWithoutRetry(r, on) ==
  \/ /\ conns >= MaxConnections
     /\ adv' = on /\ retry' = FALSE /\ result' = "ENOMEM" /\ UNCHANGED failed
  \/ /\ conns < MaxConnections /\ on # None
     /\ adv' = on /\ retry' = FALSE /\ result' = "EALREADY" /\ UNCHANGED failed
  \/ /\ conns < MaxConnections /\ on = None /\ conns + dead < PoolSize
     /\ adv' = r /\ retry' = FALSE /\ result' = "ok" /\ UNCHANGED failed
  \/ /\ conns < MaxConnections /\ on = None
     /\ adv' = None /\ retry' = FALSE /\ result' = "EIO"
     /\ failed' = (failed \/ conns + dead < PoolSize)

(* StartAdvertising(r), the advertiser carrying on at the time.  A start    *)
(* needs a free connection object.                                         *)
StartAdvertising(r, on) ==
  \/ /\ conns >= MaxConnections
     /\ adv' = on /\ retry' = TRUE /\ result' = "ENOMEM" /\ UNCHANGED failed
  \/ /\ conns < MaxConnections /\ on # None
     /\ adv' = on /\ retry' = TRUE /\ result' = "EALREADY" /\ UNCHANGED failed
  \/ /\ conns < MaxConnections /\ on = None /\ conns + dead < PoolSize
     /\ adv' = r /\ retry' = FALSE /\ result' = "ok" /\ UNCHANGED failed
  \/ /\ conns < MaxConnections /\ on = None
     /\ adv' = None /\ retry' = TRUE /\ result' = "EIO"
     /\ failed' = (failed \/ conns + dead < PoolSize)

(* StopAdvertising fails: only an advertiser that is on can fail to stop. *)
StopFails ==
  /\ adv # None
  /\ adv' = adv /\ retry' = FALSE /\ result' = "EIO" /\ failed' = TRUE

-----------------------------------------------------------------------------
(* Mutant: the previous top request is not stopped. *)
InsertWithoutStop(r) ==
  /\ recycling = "no" /\ Ends
  /\ AddRequest(r)
  /\ pending' = pending \union {r}
  /\ IF head' = head
     THEN result' = "ok" /\ UNCHANGED <<adv, retry, failed>>
     ELSE StartAdvertising(head', adv)
  /\ UNCHANGED <<wasDisconnected, recycling, conns, dead>>

(* InsertRequest(r): the new top request replaces the advertised one. *)
InsertRequest(r) ==
  /\ recycling = "no" /\ Ends
  /\ AddRequest(r)
  /\ pending' = pending \union {r}
  /\ \/ head' = head
        /\ result' = "ok" /\ UNCHANGED <<adv, retry, failed>>
     \/ head' # head /\ head # None /\ StopFails
     \/ head' # head /\ StartAdvertising(head', IF head = None THEN adv ELSE None)
  /\ UNCHANGED <<wasDisconnected, recycling, conns, dead>>

CancelEmpty(r) ==
  /\ recycling = "no" /\ head = None
  /\ result' = "ENOENT" /\ pending' = pending \ {r}
  /\ UNCHANGED <<list, flags, recycling, radio, failed>>

(* The top request is stopped first; it stays in the list if that fails. *)
CancelTop(r) ==
  /\ recycling = "no" /\ head = r
  /\ \/ /\ StopFails
        /\ UNCHANGED <<list, pending>>
     \/ /\ RemoveRequest(r)
        /\ pending' = pending \ {r}
        /\ IF head' = None
           THEN adv' = None /\ retry' = FALSE /\ result' = "ok" /\ UNCHANGED failed
           ELSE StartAdvertising(head', None)
  /\ UNCHANGED <<wasDisconnected, recycling, conns, dead>>

CancelOther(r) ==
  /\ recycling = "no" /\ head \notin {None, r} /\ Ends
  /\ pending' = pending \ {r}
  /\ IF IsLinked(r)
     THEN RemoveRequest(r) /\ StartAdvertising(head', adv)
     ELSE result' = "ENOENT" /\ UNCHANGED <<list, adv, retry, failed>>
  /\ UNCHANGED <<wasDisconnected, recycling, conns, dead>>

CancelRequest(r) == CancelEmpty(r) \/ CancelTop(r) \/ CancelOther(r)

-----------------------------------------------------------------------------
(* The Bluetooth host.  A central connects to the advertiser, which stops. *)
Connected ==
  /\ adv # None /\ conns + dead < PoolSize
  /\ adv' = None /\ conns' = conns + 1
  /\ UNCHANGED <<list, flags, recycling, dead, result, pending, failed>>

(* Mutant: the disconnection is not noted for the recycled callback. *)
DisconnectedUnnoted ==
  /\ conns > 0
  /\ conns' = conns - 1 /\ dead' = dead + 1
  /\ UNCHANGED <<list, flags, recycling, adv, result, pending, failed>>

Disconnected ==
  /\ conns > 0
  /\ conns' = conns - 1 /\ dead' = dead + 1
  /\ wasDisconnected' = TRUE
  /\ UNCHANGED <<list, retry, recycling, adv, result, pending, failed>>

(* The recycled callback, for a connection object or for the one that an    *)
(* advertiser gives back: it checks the flags, clears one, and restarts.    *)
RecycledCheck ==
  /\ recycling = "no"
  /\ dead' = IF dead > 0 THEN dead - 1 ELSE 0
  /\ recycling' = IF wasDisconnected \/ retry THEN "clear" ELSE "no"
  /\ UNCHANGED <<list, flags, adv, conns, result, pending, failed>>

RecycledClear ==
  /\ recycling = "clear"
  /\ wasDisconnected' = FALSE
  /\ recycling' = IF head = None THEN "no" ELSE "start"
  /\ UNCHANGED <<list, retry, radio, result, pending, failed>>

RecycledStart ==
  /\ recycling = "start"
  /\ recycling' = "no"
  /\ StartAdvertising(head, adv)
  /\ UNCHANGED <<list, wasDisconnected, conns, dead, pending>>

Host == Connected \/ Disconnected \/ RecycledCheck \/ RecycledClear \/ RecycledStart

Init ==
  /\ head = None /\ tail = None /\ link = [r \in Requests |-> None]
  /\ wasDisconnected = FALSE /\ retry = FALSE /\ recycling = "no"
  /\ adv = None /\ conns = 0 /\ dead = 0
  /\ result = "ok" /\ pending = {} /\ failed = FALSE

(* A client of the arbiter inserts a request that is not linked, as the     *)
(* header asks, and cancels any.                                            *)
Next ==
  \/ \E r \in Requests : (r \notin pending /\ InsertRequest(r)) \/ CancelRequest(r)
  \/ Host

(* The host hands every connection object back and runs its callbacks.      *)
Fairness == WF_vars(dead > 0 /\ RecycledCheck) /\ WF_vars(RecycledClear) /\ WF_vars(RecycledStart)

Spec == Init /\ [][Next]_vars /\ Fairness

-----------------------------------------------------------------------------
(* Type invariant of the arbiter and of the host around it. *)
TypeOK ==
  /\ head \in Requests \union {None} /\ tail \in Requests \union {None}
  /\ link \in [Requests -> Requests \union {None}]
  /\ wasDisconnected \in BOOLEAN /\ retry \in BOOLEAN
  /\ recycling \in {"no", "clear", "start"} /\ (recycling = "start" => head # None)
  /\ adv \in Requests \union {None}
  /\ conns \in 0 .. PoolSize /\ dead \in 0 .. PoolSize
  /\ result \in {"ok", "ENOMEM", "EALREADY", "EIO", "ENOENT"}
  /\ pending \subseteq Requests /\ failed \in BOOLEAN

(* Refinement: the linked list is a queue sorted by priority.               *)
Queue == INSTANCE PriorityQueue WITH queue <- AsSeq

ImplementsQueue == Queue!Spec

(* The list holds exactly the requests inserted and not cancelled, and its  *)
(* tail pointer is the last of them.                                        *)
ListHoldsPending ==
  /\ TypeOK
  /\ Ends
  /\ pending = {r \in Requests : IsLinked(r)}
  /\ tail = IF pending = {} THEN None ELSE Walk[Length]

(* What is advertised is the most urgent request: never one a client        *)
(* cancelled, and never one that a more urgent request has replaced, unless *)
(* the host failed to stop it.                                              *)
AdvertisesTop == ~failed /\ adv # None => adv = head

(* Advertising that is off while a request waits is resumed by an event     *)
(* that is still to come: a connection is up, or an object is recycled with *)
(* a flag set that makes the callback restart it, or a start failed and     *)
(* sRetry makes the next recycled callback repeat it.                       *)
ResumeIsArmed ==
  head # None /\ adv = None =>
    conns > 0 \/ wasDisconnected \/ retry \/ recycling = "start"

(* Unless centrals stay connected, a request that waits is advertised, as   *)
(* long as the host refuses a start for want of a connection object only.   *)
KeepsAdvertising == [](~failed) => []<>(adv # None \/ head = None \/ conns > 0)

=============================================================================
