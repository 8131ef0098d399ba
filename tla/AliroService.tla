---------------------------- MODULE AliroService ----------------------------
(***************************************************************************)
(* The Aliro Bluetooth service (subsys/aliro/aliro_service) with the L2CAP *)
(* server and the GATT server below it: who may advertise and when, and    *)
(* who holds a reference to which connection object of the host.           *)
(*                                                                         *)
(* Start and Stop run on the Aliro workqueue, one at a time, and are cut   *)
(* at the places where sMutex is free; the callbacks of the host and the   *)
(* work items of the system workqueue come in between.  A callback that    *)
(* submits a work item does so after it has released sMutex, so that the   *)
(* decision and the submission are two steps.                              *)
(*                                                                         *)
(* External: the Bluetooth host, its pool of connection objects, and the   *)
(* Aliro stack, which creates a session for a channel and terminates it    *)
(* once.                                                                   *)
(***************************************************************************)
EXTENDS Naturals, FiniteSets

CONSTANTS
  Conns,        (* connection objects the Aliro identity may get           *)
  Reasons,      (* AdvertisingBlockReason                                  *)
  MaxSessions,  (* CONFIG_DOOR_LOCK_ALIRO_BLE_SERVICE_MAX_SESSIONS         *)
  MaxChannels,  (* CONFIG_DOOR_LOCK_ALIRO_L2CAP_SERVER_MAX_SESSIONS        *)
  PoolSize,     (* CONFIG_BT_MAX_CONN: objects for all identities          *)
  MaxOther,     (* bound: objects in use for the default identity          *)
  HostMayFail   (* stops, starts, disconnects, (un)registrations and the   *)
                (* advertising data may fail                               *)

ASSUME ConnsAssumption == IsFiniteSet(Conns) /\ Cardinality(Conns) <= PoolSize
ASSUME SizesAssumption ==
  /\ PoolSize \in Nat /\ MaxOther \in Nat
  /\ MaxSessions \in 1 .. PoolSize /\ MaxChannels \in 1 .. PoolSize
ASSUME HostAssumption == HostMayFail \in BOOLEAN

VARIABLES
  state,           (* sState                                               *)
  count,           (* sConnectionCount                                     *)
  blocked,         (* sAdvertisingBlockState                               *)
  wasDisconnected, (* sWasDisconnected                                     *)
  call,            (* where Start or Stop is, "no" when neither runs       *)
  submitting,      (* callbacks that are about to submit the restart work  *)
  queued,          (* the work items on the system workqueue               *)
  adv,             (* the advertising set is on the air                    *)
  data,            (* its data: none yet, or as the reader is configured   *)
                   (* now ("fresh") or was earlier ("stale")               *)
  refresh,         (* a change calls for RefreshAdvertising                *)
  registered,      (* the GATT service is registered                       *)
  conn,            (* connection objects: "free", "up", "closing" once a   *)
                   (* disconnection is requested, "down" until released    *)
  refs,            (* their reference counts                               *)
  version,         (* GATT: sConnectionProtocolVersion is a valid one      *)
  wrote,           (* history: it was written on the present connection    *)
  channel,         (* L2CAP: the connection has a node in sL2capChanList   *)
  channels,        (* L2CAP: sChannelCount                                 *)
  session,         (* the stack's session: "none", "active" or "ending"    *)
  other,           (* objects in use for the default identity              *)
  recycled,        (* the host is about to run the recycled callbacks      *)
  stopFailed       (* history: the host failed to stop the advertising, or *)
                   (* to take a disconnection that Stop asked for          *)

service == <<state, count, blocked, wasDisconnected>>
work    == <<call, submitting, queued>>
air     == <<adv, data, refresh, registered>>
links   == <<conn, refs, version, wrote, channel, channels, session>>
host    == <<other, recycled, stopFailed>>
vars    == <<service, work, air, links, host>>

Sources == {"connected", "recycled", "unblock"}

Used == Cardinality({c \in Conns : conn[c] # "free"}) + other

(* CanStartAdvertisingLocked, with the values given of the last two. *)
CanStart(reasons, n) == state = "started" /\ reasons = {} /\ n < MaxSessions

MayAdvertise == CanStart(blocked, count)

(* Advertising::Start: a connectable advertiser takes a connection object. *)
AdvertisingStart ==
  \/ (adv \/ Used < PoolSize) /\ adv' = TRUE
  \/ ~adv /\ (HostMayFail \/ Used >= PoolSize) /\ adv' = FALSE

(* Advertising::Stop gives the object back. *)
AdvertisingStop ==
  \/ adv' = FALSE /\ recycled' = (recycled \/ adv) /\ UNCHANGED stopFailed
  \/ HostMayFail /\ adv /\ stopFailed' = TRUE /\ UNCHANGED <<adv, recycled>>

(* bt_conn_unref, n times: the last one frees the object. *)
Unref(c, n, next) ==
  /\ refs' = [refs EXCEPT ![c] = @ - n]
  /\ conn' = [conn EXCEPT ![c] = IF refs[c] = n THEN "free" ELSE next]
  /\ recycled' = (recycled \/ refs[c] = n)

-----------------------------------------------------------------------------
(* The calls of the service *)

InitService ==
  /\ state = "uninitialized" /\ state' = "initialized"
  /\ UNCHANGED <<count, blocked, wasDisconnected, work, air, links, host>>

StartRegister ==
  /\ call = "no" /\ state = "initialized" /\ ~registered
  /\ registered' = TRUE /\ call' = "startSet"
  /\ UNCHANGED <<service, submitting, queued, adv, data, refresh, links, host>>

StartSet ==
  /\ call = "startSet" /\ call' = "startSubmit"
  /\ state' = "started"
  /\ UNCHANGED <<count, blocked, wasDisconnected, submitting, queued, air, links, host>>

StartSubmit ==
  /\ call = "startSubmit" /\ call' = "no"
  /\ queued' = queued \union {"start"}
  /\ UNCHANGED <<service, submitting, air, links, host>>

StopSet ==
  /\ call = "no" /\ state = "started"
  /\ state' = "initialized" /\ wasDisconnected' = FALSE
  /\ call' = "stopCancel"
  /\ UNCHANGED <<count, blocked, submitting, queued, air, links, host>>

StopCancel ==
  /\ call = "stopCancel" /\ call' = "stopAdvertising"
  /\ queued' = {}
  /\ UNCHANGED <<service, submitting, air, links, host>>

StopAdvertising ==
  /\ call = "stopAdvertising" /\ call' = "stopConnections"
  /\ AdvertisingStop
  /\ UNCHANGED <<service, submitting, queued, data, refresh, registered, links, other>>

(* DisconnectAll; the links go down later. *)
StopConnections ==
  /\ call = "stopConnections" /\ call' = "stopGatt"
  /\ \E failed \in SUBSET {c \in Conns : HostMayFail /\ conn[c] = "up"} :
       /\ conn' = [c \in Conns |-> IF conn[c] = "up" /\ c \notin failed
                                   THEN "closing" ELSE conn[c]]
       /\ stopFailed' = (stopFailed \/ failed # {})
  /\ UNCHANGED <<service, submitting, queued, air, refs, version, wrote,
                 channel, channels, session, other, recycled>>

StopGatt ==
  /\ call = "stopGatt" /\ call' = "no"
  /\ registered' \in {FALSE} \union (IF HostMayFail THEN {registered} ELSE {})
  /\ UNCHANGED <<service, submitting, queued, adv, data, refresh, links, host>>

(* Mutant: what is on the air stays there. *)
BlockWithoutStop(reason) ==
  /\ state # "uninitialized"
  /\ blocked' = blocked \union {reason}
  /\ UNCHANGED <<state, count, wasDisconnected, work, air, links, host>>

BlockAdvertising(reason) ==
  /\ state # "uninitialized"
  /\ blocked' = blocked \union {reason}
  /\ IF blocked = {} /\ state = "started"
     THEN AdvertisingStop
     ELSE UNCHANGED <<adv, recycled, stopFailed>>
  /\ UNCHANGED <<state, count, wasDisconnected, work, data, refresh,
                 registered, links, other>>

(* The restart is decided with the reason removed. *)
UnblockAdvertising(reason) ==
  /\ state # "uninitialized"
  /\ blocked' = blocked \ {reason}
  /\ submitting' = IF reason \in blocked /\ CanStart(blocked', count)
                   THEN submitting \union {"unblock"} ELSE submitting
  /\ UNCHANGED <<state, count, wasDisconnected, call, queued, air, links, host>>

(* The configuration that the advertising data shows has changed; whoever   *)
(* changes it calls RefreshAdvertising next.                                *)
ReaderChanges ==
  /\ data = "fresh" /\ data' = "stale"
  /\ refresh' = TRUE
  /\ UNCHANGED <<service, work, adv, registered, links, host>>

RefreshAdvertising ==
  /\ refresh' = FALSE
  /\ queued' = IF state = "uninitialized" THEN queued ELSE queued \union {"update"}
  /\ UNCHANGED <<service, call, submitting, adv, data, registered, links, host>>

-----------------------------------------------------------------------------
(* The work items; each holds sMutex while it runs. *)

Submit(source) ==
  /\ source \in submitting
  /\ submitting' = submitting \ {source}
  /\ queued' = queued \union {"restart"}
  /\ UNCHANGED <<service, call, air, links, host>>

(* PrepareAdvertisingDataLocked *)
PrepareAdvertisingData ==
  \/ data' = "fresh"
  \/ HostMayFail /\ data' = data

(* The sWasDisconnected of the disconnection that is made up for is cleared *)
(* whether the advertising starts or not; nothing starts without the data.  *)
StartAdvertisingWork ==
  /\ "start" \in queued /\ queued' = queued \ {"start"}
  /\ \/ /\ state = "started" /\ data' = "fresh"
        /\ IF MayAdvertise
           THEN AdvertisingStart /\ wasDisconnected' = FALSE
           ELSE UNCHANGED <<adv, wasDisconnected>>
     \/ /\ state # "started" \/ HostMayFail
        /\ UNCHANGED <<adv, data, wasDisconnected>>
  /\ UNCHANGED <<state, count, blocked, call, submitting, refresh, registered, links, host>>

(* Mutant: what was decided before the submission is not checked again. *)
RestartUnchecked ==
  /\ "restart" \in queued /\ queued' = queued \ {"restart"}
  /\ AdvertisingStart /\ wasDisconnected' = FALSE
  /\ UNCHANGED <<state, count, blocked, call, submitting, data, refresh,
                 registered, links, host>>

RestartAdvertisingWork ==
  /\ "restart" \in queued /\ queued' = queued \ {"restart"}
  /\ IF MayAdvertise
     THEN AdvertisingStart /\ wasDisconnected' = FALSE
     ELSE UNCHANGED <<adv, wasDisconnected>>
  /\ UNCHANGED <<state, count, blocked, call, submitting, data, refresh,
                 registered, links, host>>

(* Mutant: the data is only replaced while it is on the air. *)
UpdateOnlyOnAir ==
  /\ "update" \in queued /\ queued' = queued \ {"update"}
  /\ IF state = "started" /\ adv THEN PrepareAdvertisingData ELSE data' = data
  /\ UNCHANGED <<service, call, submitting, adv, refresh, registered, links, host>>

UpdateAdvertisingDataWork ==
  /\ "update" \in queued /\ queued' = queued \ {"update"}
  /\ IF state = "started" THEN PrepareAdvertisingData ELSE data' = data
  /\ UNCHANGED <<service, call, submitting, adv, refresh, registered, links, host>>

-----------------------------------------------------------------------------
(* Mutant: the advertising is not restarted for the next session. *)
ConnectedOnce(c) ==
  /\ adv /\ conn[c] = "free"
  /\ adv' = FALSE
  /\ conn' = [conn EXCEPT ![c] = "up"] /\ refs' = [refs EXCEPT ![c] = 2]
  /\ wrote' = [wrote EXCEPT ![c] = FALSE]
  /\ count' = count + 1
  /\ UNCHANGED <<state, blocked, wasDisconnected, work, data, refresh,
                 registered, version, channel, channels, session, host>>

(* The connection callbacks.  A central connects: the advertising ends, and *)
(* the object is held by the host and by the service.                       *)
Connected(c) ==
  /\ adv /\ conn[c] = "free"
  /\ adv' = FALSE
  /\ conn' = [conn EXCEPT ![c] = "up"] /\ refs' = [refs EXCEPT ![c] = 2]
  /\ wrote' = [wrote EXCEPT ![c] = FALSE]
  /\ count' = count + 1
  /\ submitting' = IF CanStart(blocked, count + 1)
                   THEN submitting \union {"connected"} ELSE submitting
  /\ UNCHANGED <<state, blocked, wasDisconnected, call, queued, data, refresh,
                 registered, version, channel, channels, session, host>>

(* Mutant: the protocol version of the slot outlives the connection. *)
DisconnectedKeepsVersion(c) ==
  /\ conn[c] \in {"up", "closing"}
  /\ Unref(c, IF channel[c] THEN 3 ELSE 2, "down")
  /\ channel' = [channel EXCEPT ![c] = FALSE]
  /\ channels' = IF channel[c] THEN channels - 1 ELSE channels
  /\ session' = [session EXCEPT ![c] = IF @ = "active" THEN "ending" ELSE @]
  /\ count' = IF count > 0 THEN count - 1 ELSE 0
  /\ wasDisconnected' = TRUE
  /\ UNCHANGED <<state, blocked, work, air, version, wrote, other, stopFailed>>

(* The link is lost: the channel goes first, then the callbacks of the      *)
(* service and of the GATT server run, then the host lets go.               *)
Disconnected(c) ==
  /\ conn[c] \in {"up", "closing"}
  /\ Unref(c, IF channel[c] THEN 3 ELSE 2, "down")
  /\ channel' = [channel EXCEPT ![c] = FALSE]
  /\ channels' = IF channel[c] THEN channels - 1 ELSE channels
  /\ session' = [session EXCEPT ![c] = IF @ = "active" THEN "ending" ELSE @]
  /\ version' = [version EXCEPT ![c] = FALSE]
  /\ count' = IF count > 0 THEN count - 1 ELSE 0
  /\ wasDisconnected' = TRUE
  /\ UNCHANGED <<state, blocked, work, air, wrote, other, stopFailed>>

Recycled ==
  /\ recycled /\ recycled' = FALSE
  /\ submitting' = IF MayAdvertise /\ wasDisconnected
                   THEN submitting \union {"recycled"} ELSE submitting
  /\ UNCHANGED <<service, call, queued, air, links, other, stopFailed>>

-----------------------------------------------------------------------------
(* The GATT and L2CAP servers, and the sessions of the Aliro stack *)

(* UserDeviceBleUwbProtocolversion, with a version that is supported. *)
WriteVersion(c) ==
  /\ registered /\ conn[c] = "up"
  /\ version' = [version EXCEPT ![c] = TRUE]
  /\ wrote' = [wrote EXCEPT ![c] = TRUE]
  /\ UNCHANGED <<service, work, air, conn, refs, channel, channels, session, host>>

(* Accept, then Connected with mOnConnected: a reference for the channel,   *)
(* and one more for the session if the stack creates it.                    *)
OpenChannel(c) ==
  /\ conn[c] = "up" /\ ~channel[c]
  /\ channels < MaxChannels /\ version[c]
  /\ channel' = [channel EXCEPT ![c] = TRUE] /\ channels' = channels + 1
  /\ \/ /\ session[c] = "none"
        /\ session' = [session EXCEPT ![c] = "active"]
        /\ refs' = [refs EXCEPT ![c] = @ + 2]
     \/ /\ session' = session
        /\ refs' = [refs EXCEPT ![c] = @ + 1]
  /\ UNCHANGED <<service, work, air, conn, version, wrote, host>>

(* The peer closes the channel: mOnDisconnected destroys the session. *)
CloseChannel(c) ==
  /\ channel[c]
  /\ channel' = [channel EXCEPT ![c] = FALSE] /\ channels' = channels - 1
  /\ session' = [session EXCEPT ![c] = IF @ = "active" THEN "ending" ELSE @]
  /\ Unref(c, 1, conn[c])
  /\ UNCHANGED <<service, work, air, version, wrote, other, stopFailed>>

(* Mutant: the reference of the session is kept if the link is down already. *)
TerminateKeepsRef(c) ==
  /\ session[c] # "none"
  /\ session' = [session EXCEPT ![c] = "none"]
  /\ IF conn[c] = "up" THEN Unref(c, 1, "closing") ELSE UNCHANGED <<conn, refs, recycled>>
  /\ UNCHANGED <<service, work, air, version, wrote, channel, channels, other, stopFailed>>

(* Terminate: the stack ends a session, on its own or after DestroySession, *)
(* and lets go of the connection even if it cannot be disconnected.         *)
Terminate(c) ==
  /\ session[c] # "none"
  /\ session' = [session EXCEPT ![c] = "none"]
  /\ \/ Unref(c, 1, IF conn[c] = "up" THEN "closing" ELSE conn[c])
     \/ HostMayFail /\ Unref(c, 1, conn[c])
  /\ UNCHANGED <<service, work, air, version, wrote, channel, channels, other, stopFailed>>

-----------------------------------------------------------------------------
(* The default identity: its advertiser and its connections. *)
OtherTakes ==
  /\ other < MaxOther /\ Used + (IF adv THEN 1 ELSE 0) < PoolSize
  /\ other' = other + 1
  /\ UNCHANGED <<service, work, air, links, recycled, stopFailed>>

OtherReleases ==
  /\ other > 0
  /\ other' = other - 1 /\ recycled' = TRUE
  /\ UNCHANGED <<service, work, air, links, stopFailed>>

Init ==
  /\ state = "uninitialized" /\ count = 0 /\ blocked = {} /\ wasDisconnected = FALSE
  /\ call = "no" /\ submitting = {} /\ queued = {}
  /\ adv = FALSE /\ data = "none" /\ refresh = FALSE /\ registered = FALSE
  /\ conn = [c \in Conns |-> "free"] /\ refs = [c \in Conns |-> 0]
  /\ version = [c \in Conns |-> FALSE] /\ wrote = [c \in Conns |-> FALSE]
  /\ channel = [c \in Conns |-> FALSE] /\ channels = 0
  /\ session = [c \in Conns |-> "none"]
  /\ other = 0 /\ recycled = FALSE /\ stopFailed = FALSE

Calls ==
  \/ InitService \/ StartRegister \/ StartSet \/ StartSubmit
  \/ StopSet \/ StopCancel \/ StopAdvertising \/ StopConnections \/ StopGatt
  \/ \E reason \in Reasons : BlockAdvertising(reason) \/ UnblockAdvertising(reason)
  \/ ReaderChanges \/ RefreshAdvertising

Works ==
  \/ StartAdvertisingWork \/ RestartAdvertisingWork \/ UpdateAdvertisingDataWork
  \/ \E source \in submitting : Submit(source)

Bluetooth ==
  \/ \E c \in Conns : \/ Connected(c) \/ Disconnected(c) \/ WriteVersion(c)
                      \/ OpenChannel(c) \/ CloseChannel(c) \/ Terminate(c)
  \/ Recycled \/ OtherTakes \/ OtherReleases

Next == Calls \/ Works \/ Bluetooth

(* A call that began goes on, what was submitted runs, the host completes a *)
(* disconnection that was asked for, and the stack ends a session whose     *)
(* channel is gone.                                                         *)
Fairness ==
  /\ WF_vars(StartSet) /\ WF_vars(StartSubmit)
  /\ WF_vars(StopCancel) /\ WF_vars(StopAdvertising)
  /\ WF_vars(StopConnections) /\ WF_vars(StopGatt)
  /\ \A source \in Sources : WF_vars(Submit(source))
  /\ WF_vars(StartAdvertisingWork) /\ WF_vars(RestartAdvertisingWork)
  /\ WF_vars(Recycled)
  /\ \A c \in Conns : /\ WF_vars(conn[c] = "closing" /\ Disconnected(c))
                       /\ WF_vars(session[c] = "ending" /\ Terminate(c))

Spec == Init /\ [][Next]_vars /\ Fairness

-----------------------------------------------------------------------------
(* Type invariant of the service, the servers and the host around them. *)
TypeOK ==
  /\ state \in {"uninitialized", "initialized", "started"}
  /\ count \in 0 .. PoolSize /\ blocked \subseteq Reasons
  /\ wasDisconnected \in BOOLEAN
  /\ call \in {"no", "startSet", "startSubmit", "stopCancel", "stopAdvertising",
               "stopConnections", "stopGatt"}
  /\ submitting \subseteq Sources
  /\ queued \subseteq {"start", "restart", "update"}
  /\ adv \in BOOLEAN /\ data \in {"none", "stale", "fresh"}
  /\ refresh \in BOOLEAN /\ registered \in BOOLEAN
  /\ conn \in [Conns -> {"free", "up", "closing", "down"}]
  /\ refs \in [Conns -> 0 .. 4]
  /\ version \in [Conns -> BOOLEAN] /\ wrote \in [Conns -> BOOLEAN]
  /\ channel \in [Conns -> BOOLEAN] /\ channels \in 0 .. MaxChannels
  /\ session \in [Conns -> {"none", "active", "ending"}]
  /\ other \in 0 .. MaxOther /\ recycled \in BOOLEAN /\ stopFailed \in BOOLEAN

Live(c) == conn[c] \in {"up", "closing"}

(* A connection object goes back to the pool when its link is down, its     *)
(* channel closed and its session terminated, and never earlier: none leaks *)
(* and none is used after it was freed.  The two counters that limit the    *)
(* sessions agree with the objects they count.                              *)
ObjectsAccounted ==
  /\ TypeOK
  /\ \A c \in Conns :
       conn[c] = "free" <=> ~Live(c) /\ ~channel[c] /\ session[c] = "none"
  /\ count = Cardinality({c \in Conns : Live(c)})
  /\ channels = Cardinality({c \in Conns : channel[c]})

(* A channel is only opened for a peer that negotiated a protocol version   *)
(* on this very connection, not for the next user of a recycled object.     *)
ChannelsAreNegotiated == \A c \in Conns : channel[c] => wrote[c]

(* Nothing is advertised while a block reason is active, while all sessions *)
(* are taken, or once Stop is past stopping the advertising - unless the    *)
(* host could not stop it.                                                  *)
AdvertisesOnlyIfAllowed ==
  ~stopFailed /\ adv =>
    /\ count < MaxSessions
    /\ \/ state = "started" /\ blocked = {}
       \/ call \in {"stopCancel", "stopAdvertising"}

(* When Stop has returned, what was connected is being disconnected and     *)
(* nobody can connect any more, whatever callback was under way.            *)
StopEndsConnections ==
  ~stopFailed /\ state = "initialized" /\ call \in {"no", "stopGatt"} =>
    ~adv /\ \A c \in Conns : conn[c] # "up"

(* While the service is started, advertising data that no longer shows the  *)
(* reader's configuration is about to be replaced - by the refresh that is  *)
(* to be called or queued, or by the start work - even if Stop and Start    *)
(* cancel and submit work items meanwhile (and the host does not fail).     *)
DataWillBeRefreshed ==
  data = "stale" /\ state = "started" =>
    refresh \/ queued \intersect {"start", "update"} # {} \/ call = "startSubmit"

(* As long as the pool always has an object to spare, the service           *)
(* advertises whenever it may: after every Start, Unblock and disconnection,*)
(* and up to the last session.                                              *)
AdvertisesWithSpareObject ==
  [](Used < PoolSize) => []<>(adv \/ ~MayAdvertise)

=============================================================================
