------------------------- MODULE AdvertisingClients -------------------------
(***************************************************************************)
(* The two clients of the advertising arbiter: the DFU-over-SMP service,   *)
(* switched by a button, and the Nordic UART service (NUS).  Each has one  *)
(* static Request object, which it fills in anew before every insertion.   *)
(*                                                                         *)
(* The button's interrupt submits a work item; the item, NUSService::Start *)
(* and NUSService::Stop run in threads that the callbacks of the Bluetooth *)
(* host preempt, so each of them is cut where a callback can come between. *)
(* No lock protects the variables of either service.                       *)
(***************************************************************************)
EXTENDS BleAdvertisingArbiter

CONSTANTS DfuSmp, Nus   (* the Request objects of the two services         *)

ASSUME ClientsAssumption == {DfuSmp, Nus} \subseteq Requests /\ DfuSmp # Nus

VARIABLES
  dfuWork,    (* DFU: "no", "queued", or "insert": its request is filled   *)
  dfuActive,  (* DFU: Advertising::sIsAdvertisingActive                    *)
  nusStarted, (* NUS: sIsStarted                                           *)
  nusAdv,     (* NUS: Advertising::sIsStarted                              *)
  nusConn,    (* NUS: sBTConnection: "none", "live", or "stale" when the   *)
              (* connection it refers to is gone                           *)
  nusCall     (* NUS: where Start or Stop is, "no" when neither runs       *)

dfu == <<dfuWork, dfuActive>>
nus == <<nusStarted, nusAdv, nusConn, nusCall>>

(* sRequest = Request{...}: the base class, with its pointer, too. *)
FillIn(r) ==
  /\ link' = [link EXCEPT ![r] = None]
  /\ UNCHANGED <<head, tail, flags, recycling, radio, result, pending, failed>>

-----------------------------------------------------------------------------
DfuToggle ==
  /\ dfuWork = "no" /\ dfuWork' = "queued"
  /\ UNCHANGED <<vars, dfuActive, nus>>

DfuOff ==
  /\ dfuWork = "queued" /\ dfuActive
  /\ CancelRequest(DfuSmp)
  /\ dfuActive' = FALSE /\ dfuWork' = "no"
  /\ UNCHANGED nus

DfuFillIn ==
  /\ dfuWork = "queued" /\ ~dfuActive
  /\ FillIn(DfuSmp)
  /\ dfuWork' = "insert"
  /\ UNCHANGED <<dfuActive, nus>>

DfuInsert ==
  /\ dfuWork = "insert"
  /\ InsertRequest(DfuSmp)
  /\ dfuActive' = (result' = "ok") /\ dfuWork' = "no"
  /\ UNCHANGED nus

-----------------------------------------------------------------------------
NusStart ==
  /\ nusCall = "no" /\ ~nusStarted
  /\ FillIn(Nus)
  /\ nusCall' = "insert"
  /\ UNCHANGED <<dfu, nusStarted, nusAdv, nusConn>>

NusInsert ==
  /\ nusCall = "insert"
  /\ InsertRequest(Nus)
  /\ nusAdv' = (nusAdv \/ result' = "ok")
  /\ nusCall' = IF result' = "ok" THEN "started" ELSE "no"
  /\ UNCHANGED <<dfu, nusStarted, nusConn>>

NusStarted ==
  /\ nusCall = "started"
  /\ nusStarted' = TRUE /\ nusCall' = "no"
  /\ UNCHANGED <<vars, dfu, nusAdv, nusConn>>

NusStop ==
  /\ nusCall = "no" /\ nusStarted
  /\ nusStarted' = FALSE /\ nusCall' = "cancel"
  /\ UNCHANGED <<vars, dfu, nusAdv, nusConn>>

NusCancel ==
  /\ nusCall = "cancel"
  /\ CancelRequest(Nus)
  /\ nusAdv' = FALSE /\ nusCall' = "release"
  /\ UNCHANGED <<dfu, nusStarted, nusConn>>

NusRelease ==
  /\ nusCall = "release"
  /\ nusConn' = "none" /\ nusCall' = "no"
  /\ UNCHANGED <<vars, dfu, nusStarted, nusAdv>>

-----------------------------------------------------------------------------
(* The connection callbacks of NUS run with those of the arbiter. *)
NusConnected ==
  /\ Connected
  /\ nusConn' = IF nusStarted /\ nusAdv /\ nusConn = "none" THEN "live" ELSE nusConn
  /\ UNCHANGED <<dfu, nusStarted, nusAdv, nusCall>>

(* Mutant: the reference to a lost connection is kept. *)
NusDisconnectedKeeps ==
  /\ Disconnected
  /\ nusConn' = IF nusConn = "live" THEN "stale" ELSE nusConn
  /\ UNCHANGED <<dfu, nusStarted, nusAdv, nusCall>>

(* The connection that NUS refers to is lost, or another one. *)
NusDisconnected ==
  /\ Disconnected
  /\ \/ nusConn = "live" /\ nusConn' = IF nusStarted THEN "none" ELSE "stale"
     \/ (nusConn # "live" \/ conns > 1) /\ UNCHANGED nusConn
  /\ UNCHANGED <<dfu, nusStarted, nusAdv, nusCall>>

Recycled ==
  /\ RecycledCheck \/ RecycledClear \/ RecycledStart
  /\ UNCHANGED <<dfu, nus>>

ClientsInit ==
  /\ Init
  /\ dfuWork = "no" /\ dfuActive = FALSE
  /\ nusStarted = FALSE /\ nusAdv = FALSE /\ nusConn = "none" /\ nusCall = "no"

ClientsNext ==
  \/ DfuToggle \/ DfuOff \/ DfuFillIn \/ DfuInsert
  \/ NusStart \/ NusInsert \/ NusStarted \/ NusStop \/ NusCancel \/ NusRelease
  \/ NusConnected \/ NusDisconnected \/ Recycled

ClientsSpec == ClientsInit /\ [][ClientsNext]_<<vars, dfu, nus>>

-----------------------------------------------------------------------------
(* The variables of the two services; NUS starts only with a request that *)
(* was accepted (Start returns early otherwise).                            *)
ClientsTypeOK ==
  /\ dfuWork \in {"no", "queued", "insert"} /\ dfuActive \in BOOLEAN
  /\ nusStarted \in BOOLEAN /\ nusAdv \in BOOLEAN
  /\ nusConn \in {"none", "live", "stale"}
  /\ nusCall \in {"no", "insert", "started", "cancel", "release"}
  /\ nusStarted => nusAdv

(* NUS never keeps a reference to a connection that is gone: the connection *)
(* object would not be recycled, and NUS would take no other connection.    *)
(* Disconnected ignores a connection lost while Stop is at work, which then *)
(* releases it itself.  Once Stop has returned NUS holds no connection at   *)
(* all: no command is dispatched and nothing is sent.                       *)
NusReleasesConnection ==
  /\ ClientsTypeOK
  /\ nusConn = "stale" => nusCall \in {"cancel", "release"}
  /\ ~nusStarted /\ nusCall = "no" => nusConn = "none"

=============================================================================
