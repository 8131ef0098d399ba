-------------------------- MODULE AliroServiceProofs --------------------------
(***************************************************************************)
(* Proofs about AliroService, for any connections, block reasons and       *)
(* limits.                                                                 *)
(***************************************************************************)
EXTENDS AliroService, FiniteSetTheorems, TLAPS

StopSteps == {"stopCancel", "stopAdvertising", "stopConnections", "stopGatt"}

(* The types, but for the counters.                                        *)
ServiceTypes ==
  /\ state \in {"uninitialized", "initialized", "started"}
  /\ blocked \subseteq Reasons /\ wasDisconnected \in BOOLEAN
  /\ submitting \subseteq Sources
  /\ queued \subseteq {"start", "restart", "update"}
AirTypes ==
  /\ adv \in BOOLEAN /\ data \in {"none", "stale", "fresh"}
  /\ refresh \in BOOLEAN /\ registered \in BOOLEAN
  /\ other \in 0 .. MaxOther /\ recycled \in BOOLEAN /\ stopFailed \in BOOLEAN
LinkTypes ==
  /\ conn \in [Conns -> {"free", "up", "closing", "down"}]
  /\ refs \in [Conns -> Nat]
  /\ version \in [Conns -> BOOLEAN] /\ wrote \in [Conns -> BOOLEAN]
  /\ channel \in [Conns -> BOOLEAN]
  /\ session \in [Conns -> {"none", "active", "ending"}]

(* Where Start or Stop is tells the state.                                 *)
CallInv ==
  /\ call \in {"no", "startSet", "startSubmit"} \union StopSteps
  /\ state = "uninitialized" => call = "no"
  /\ call \in {"startSet"} \union StopSteps => state = "initialized"
  /\ call = "startSubmit" => state = "started"

(* Who holds a reference to a connection object: the host and the service  *)
(* while the link is up, the channel, and the session.                     *)
Holders(c) ==
  (IF Live(c) THEN 2 ELSE 0) + (IF channel[c] THEN 1 ELSE 0)
    + (IF session[c] # "none" THEN 1 ELSE 0)
RefsInv ==
  \A c \in Conns :
    /\ refs[c] = Holders(c)
    /\ conn[c] = "free" <=> refs[c] = 0
    /\ channel[c] => Live(c)
    /\ session[c] = "active" => channel[c]

(* The counters count.                                                     *)
LiveSet == {c \in Conns : Live(c)}
ChannelSet == {c \in Conns : channel[c]}
CountInv ==
  /\ count = Cardinality(LiveSet)
  /\ channels = Cardinality(ChannelSet) /\ channels <= MaxChannels

(* A version was written on the present connection.                        *)
VersionInv ==
  \A c \in Conns : /\ version[c] => wrote[c] /\ Live(c)
                   /\ channel[c] => wrote[c]

(* A service that is not started has no connection that it does not end.   *)
QuietInv ==
  ~stopFailed /\ state # "started" /\ call \notin {"stopCancel", "stopAdvertising", "stopConnections"}
    => \A c \in Conns : conn[c] # "up"

IInv ==
  /\ ServiceTypes /\ AirTypes /\ LinkTypes /\ CallInv /\ RefsInv /\ CountInv
  /\ VersionInv /\ AdvertisesOnlyIfAllowed /\ QuietInv

(* Who changes the state of the service and its work items.                *)
LEMMA ServiceTouched ==
  [Next]_vars =>
    \/ UNCHANGED <<state, blocked, wasDisconnected, call, submitting, queued>>
    \/ InitService
    \/ StartSet
    \/ StartSubmit
    \/ StartRegister
    \/ StopSet
    \/ StopCancel
    \/ StopAdvertising
    \/ StopConnections
    \/ StopGatt
    \/ \E reason \in Reasons : BlockAdvertising(reason)
    \/ \E reason \in Reasons : UnblockAdvertising(reason)
    \/ RefreshAdvertising
    \/ \E source \in submitting : Submit(source)
    \/ StartAdvertisingWork
    \/ RestartAdvertisingWork
    \/ UpdateAdvertisingDataWork
    \/ \E c \in Conns : Connected(c)
    \/ \E c \in Conns : Disconnected(c)
    \/ Recycled
  BY Zenon DEF Next, Calls, Works, Bluetooth, vars, service, work, air, links,
         host, ReaderChanges, WriteVersion, OpenChannel, CloseChannel,
         Terminate, OtherTakes, OtherReleases

(* The state, and where a call is, stay what they should be.               *)
LEMMA ServiceStep == IInv /\ [Next]_vars => (ServiceTypes /\ CallInv)'
<1> SUFFICES ASSUME IInv, [Next]_vars PROVE (ServiceTypes /\ CallInv)'
  OBVIOUS
<1> USE DEF IInv, ServiceTypes, CallInv, StopSteps, Sources
<1>1. CASE UNCHANGED <<state, blocked, wasDisconnected, call, submitting, queued>>
  BY <1>1
<1>2. CASE InitService
  BY <1>2 DEF InitService, service, work, air, links, host
<1>3. CASE StartSet
  BY <1>3 DEF StartSet, service, work, air, links, host
<1>4. CASE StartSubmit
  BY <1>4 DEF StartSubmit, service, work, air, links, host
<1>5. CASE StartRegister
  BY <1>5 DEF StartRegister, service, work, air, links, host
<1>6. CASE StopSet
  BY <1>6 DEF StopSet, service, work, air, links, host
<1>7. CASE StopCancel
  BY <1>7 DEF StopCancel, service, work, air, links, host
<1>8. CASE StopAdvertising
  BY <1>8 DEF StopAdvertising, service, work, air, links, host
<1>9. CASE StopConnections
  BY <1>9 DEF StopConnections, service, work, air, links, host
<1>10. CASE StopGatt
  BY <1>10 DEF StopGatt, service, work, air, links, host
<1>11. ASSUME NEW reason \in Reasons, BlockAdvertising(reason) PROVE (ServiceTypes /\ CallInv)'
  BY <1>11 DEF BlockAdvertising, service, work, air, links, host
<1>12. ASSUME NEW reason \in Reasons, UnblockAdvertising(reason) PROVE (ServiceTypes /\ CallInv)'
  BY <1>12 DEF UnblockAdvertising, service, work, air, links, host
<1>13. CASE RefreshAdvertising
  BY <1>13 DEF RefreshAdvertising, service, work, air, links, host
<1>14. ASSUME NEW source \in submitting, Submit(source) PROVE (ServiceTypes /\ CallInv)'
  BY <1>14 DEF Submit, service, work, air, links, host
<1>15. CASE StartAdvertisingWork
  BY <1>15 DEF StartAdvertisingWork, service, work, air, links, host
<1>16. CASE RestartAdvertisingWork
  BY <1>16 DEF RestartAdvertisingWork, service, work, air, links, host
<1>17. CASE UpdateAdvertisingDataWork
  BY <1>17 DEF UpdateAdvertisingDataWork, service, work, air, links, host
<1>18. ASSUME NEW c \in Conns, Connected(c) PROVE (ServiceTypes /\ CallInv)'
  BY <1>18 DEF Connected, service, work, air, links, host
<1>19. ASSUME NEW c \in Conns, Disconnected(c) PROVE (ServiceTypes /\ CallInv)'
  BY <1>19 DEF Disconnected, service, work, air, links, host
<1>20. CASE Recycled
  BY <1>20 DEF Recycled, service, work, air, links, host
<1> QED
  BY <1>1, <1>2, <1>3, <1>4, <1>5, <1>6, <1>7, <1>8, <1>9, <1>10,
     <1>11, <1>12, <1>13, <1>14, <1>15, <1>16, <1>17, <1>18, <1>19, <1>20,
     ServiceTouched

(* Who changes the advertising and the rest of the host.                   *)
LEMMA AirTouched ==
  [Next]_vars =>
    \/ UNCHANGED <<adv, data, refresh, registered, other, recycled, stopFailed>>
    \/ StartRegister
    \/ StopAdvertising
    \/ StopConnections
    \/ StopGatt
    \/ \E reason \in Reasons : BlockAdvertising(reason)
    \/ ReaderChanges
    \/ RefreshAdvertising
    \/ StartAdvertisingWork
    \/ RestartAdvertisingWork
    \/ UpdateAdvertisingDataWork
    \/ \E c \in Conns : Connected(c)
    \/ \E c \in Conns : Disconnected(c)
    \/ \E c \in Conns : CloseChannel(c)
    \/ \E c \in Conns : Terminate(c)
    \/ Recycled
    \/ OtherTakes
    \/ OtherReleases
  BY Zenon DEF Next, Calls, Works, Bluetooth, vars, service, work, air, links,
         host, InitService, StartSet, StartSubmit, StopSet, StopCancel,
         UnblockAdvertising, Submit, WriteVersion, OpenChannel

(* The advertising and the host keep their types.                          *)
LEMMA AirStep == IInv /\ [Next]_vars => AirTypes'
<1> SUFFICES ASSUME IInv, [Next]_vars PROVE AirTypes'
  OBVIOUS
<1> USE DEF IInv, AirTypes
<1>1. CASE UNCHANGED <<adv, data, refresh, registered, other, recycled, stopFailed>>
  BY <1>1
<1>2. CASE StartRegister
  BY <1>2, SizesAssumption DEF StartRegister, service, work, air, links, host
<1>3. CASE StopAdvertising
  BY <1>3, SizesAssumption DEF StopAdvertising, service, work, air, links,
         host, AdvertisingStop
<1>4. CASE StopConnections
  BY <1>4, SizesAssumption DEF StopConnections, service, work, air, links, host
<1>5. CASE StopGatt
  BY <1>5, SizesAssumption DEF StopGatt, service, work, air, links, host
<1>6. ASSUME NEW reason \in Reasons, BlockAdvertising(reason) PROVE AirTypes'
  BY <1>6, SizesAssumption DEF BlockAdvertising, service, work, air, links,
         host, AdvertisingStop
<1>7. CASE ReaderChanges
  BY <1>7, SizesAssumption DEF ReaderChanges, service, work, air, links, host
<1>8. CASE RefreshAdvertising
  BY <1>8, SizesAssumption DEF RefreshAdvertising, service, work, air, links,
         host
<1>9. CASE StartAdvertisingWork
  BY <1>9, SizesAssumption DEF StartAdvertisingWork, service, work, air, links,
         host, AdvertisingStart
<1>10. CASE RestartAdvertisingWork
  BY <1>10, SizesAssumption DEF RestartAdvertisingWork, service, work, air,
         links, host, AdvertisingStart, PrepareAdvertisingData
<1>11. CASE UpdateAdvertisingDataWork
  BY <1>11, SizesAssumption DEF UpdateAdvertisingDataWork, service, work, air,
         links, host, PrepareAdvertisingData
<1>12. ASSUME NEW c \in Conns, Connected(c) PROVE AirTypes'
  BY <1>12, SizesAssumption DEF Connected, service, work, air, links, host
<1>13. ASSUME NEW c \in Conns, Disconnected(c) PROVE AirTypes'
  BY <1>13, SizesAssumption DEF Disconnected, service, work, air, links, host,
         Unref
<1>14. ASSUME NEW c \in Conns, CloseChannel(c) PROVE AirTypes'
  BY <1>14, SizesAssumption DEF CloseChannel, service, work, air, links, host,
         Unref
<1>15. ASSUME NEW c \in Conns, Terminate(c) PROVE AirTypes'
  BY <1>15, SizesAssumption DEF Terminate, service, work, air, links, host,
         Unref
<1>16. CASE Recycled
  BY <1>16, SizesAssumption DEF Recycled, service, work, air, links, host
<1>17. CASE OtherTakes
  BY <1>17, SizesAssumption DEF OtherTakes, service, work, air, links, host
<1>18. CASE OtherReleases
  BY <1>18, SizesAssumption DEF OtherReleases, service, work, air, links, host
<1> QED
  BY <1>1, <1>2, <1>3, <1>4, <1>5, <1>6, <1>7, <1>8, <1>9, <1>10,
     <1>11, <1>12, <1>13, <1>14, <1>15, <1>16, <1>17, <1>18, AirTouched

(* Who changes a link, its channel or its session.                         *)
LEMMA LinksTouched ==
  [Next]_vars =>
    \/ UNCHANGED <<conn, refs, version, wrote, channel, session>>
    \/ StopConnections
    \/ \E c \in Conns : Connected(c)
    \/ \E c \in Conns : Disconnected(c)
    \/ \E c \in Conns : WriteVersion(c)
    \/ \E c \in Conns : OpenChannel(c)
    \/ \E c \in Conns : CloseChannel(c)
    \/ \E c \in Conns : Terminate(c)
  BY Zenon DEF Next, Calls, Works, Bluetooth, vars, service, work, air, links,
         host, InitService, StartRegister, StartSet, StartSubmit, StopSet,
         StopCancel, StopAdvertising, StopGatt, BlockAdvertising,
         UnblockAdvertising, ReaderChanges, RefreshAdvertising, Submit,
         StartAdvertisingWork, RestartAdvertisingWork,
         UpdateAdvertisingDataWork, Recycled, OtherTakes, OtherReleases

(* Every reference has its holder, and an object is free when it has none. *)
LEMMA RefsStep == IInv /\ [Next]_vars => (LinkTypes /\ RefsInv)'
<1> SUFFICES ASSUME IInv, [Next]_vars PROVE (LinkTypes /\ RefsInv)'
  OBVIOUS
<1> USE DEF IInv, LinkTypes, RefsInv, Holders, Live
<1>1. CASE UNCHANGED <<conn, refs, version, wrote, channel, session>>
  BY <1>1
<1>2. CASE StopConnections
  BY <1>2 DEF StopConnections, service, work, air, links, host
<1>3. ASSUME NEW c \in Conns, Connected(c) PROVE (LinkTypes /\ RefsInv)'
  BY <1>3 DEF Connected, service, work, air, links, host
<1>4. ASSUME NEW c \in Conns, Disconnected(c) PROVE (LinkTypes /\ RefsInv)'
  BY <1>4 DEF Disconnected, service, work, air, links, host, Unref
<1>5. ASSUME NEW c \in Conns, WriteVersion(c) PROVE (LinkTypes /\ RefsInv)'
  BY <1>5 DEF WriteVersion, service, work, air, links, host
<1>6. ASSUME NEW c \in Conns, OpenChannel(c) PROVE (LinkTypes /\ RefsInv)'
  BY <1>6 DEF OpenChannel, service, work, air, links, host
<1>7. ASSUME NEW c \in Conns, CloseChannel(c) PROVE (LinkTypes /\ RefsInv)'
  BY <1>7 DEF CloseChannel, service, work, air, links, host, Unref
<1>8. ASSUME NEW c \in Conns, Terminate(c) PROVE (LinkTypes /\ RefsInv)'
  BY <1>8 DEF Terminate, service, work, air, links, host, Unref
<1> QED
  BY <1>1, <1>2, <1>3, <1>4, <1>5, <1>6, <1>7, <1>8, LinksTouched

(* A channel and a version belong to the present connection.               *)
LEMMA VersionStep == IInv /\ [Next]_vars => VersionInv'
<1> SUFFICES ASSUME IInv, [Next]_vars PROVE VersionInv'
  OBVIOUS
<1> USE DEF IInv, LinkTypes, RefsInv, VersionInv, Holders, Live
<1>1. CASE UNCHANGED <<conn, refs, version, wrote, channel, session>>
  BY <1>1
<1>2. CASE StopConnections
  BY <1>2 DEF StopConnections, service, work, air, links, host
<1>3. ASSUME NEW c \in Conns, Connected(c) PROVE VersionInv'
  BY <1>3 DEF Connected, service, work, air, links, host
<1>4. ASSUME NEW c \in Conns, Disconnected(c) PROVE VersionInv'
  BY <1>4 DEF Disconnected, service, work, air, links, host, Unref
<1>5. ASSUME NEW c \in Conns, WriteVersion(c) PROVE VersionInv'
  BY <1>5 DEF WriteVersion, service, work, air, links, host
<1>6. ASSUME NEW c \in Conns, OpenChannel(c) PROVE VersionInv'
  BY <1>6 DEF OpenChannel, service, work, air, links, host
<1>7. ASSUME NEW c \in Conns, CloseChannel(c) PROVE VersionInv'
  BY <1>7 DEF CloseChannel, service, work, air, links, host, Unref
<1>8. ASSUME NEW c \in Conns, Terminate(c) PROVE VersionInv'
  BY <1>8 DEF Terminate, service, work, air, links, host, Unref
<1> QED
  BY <1>1, <1>2, <1>3, <1>4, <1>5, <1>6, <1>7, <1>8, LinksTouched

(* The sets that are counted are finite.                                   *)
LEMMA Finite == IsFiniteSet(LiveSet) /\ IsFiniteSet(ChannelSet)
  BY ConnsAssumption, FS_Subset DEF LiveSet, ChannelSet

(* Who changes what is counted.                                            *)
LEMMA CountersTouched ==
  [Next]_vars =>
    \/ UNCHANGED <<conn, count, channel, channels>>
    \/ StopConnections
    \/ \E c \in Conns : Connected(c)
    \/ \E c \in Conns : Disconnected(c)
    \/ \E c \in Conns : OpenChannel(c)
    \/ \E c \in Conns : CloseChannel(c)
    \/ \E c \in Conns : Terminate(c)
  BY Zenon DEF Next, Calls, Works, Bluetooth, vars, service, work, air, links,
         host, InitService, StartRegister, StartSet, StartSubmit, StopSet,
         StopCancel, StopAdvertising, StopGatt, BlockAdvertising,
         UnblockAdvertising, ReaderChanges, RefreshAdvertising, Submit,
         StartAdvertisingWork, RestartAdvertisingWork,
         UpdateAdvertisingDataWork, WriteVersion, Recycled, OtherTakes,
         OtherReleases

(* The counters keep counting.                                             *)
LEMMA CountStep == IInv /\ [Next]_vars => CountInv'
<1> SUFFICES ASSUME IInv, [Next]_vars PROVE CountInv'
  OBVIOUS
<1> USE DEF IInv, CountInv, LinkTypes, RefsInv, Holders, Live
<1>1. CASE UNCHANGED <<conn, count, channel, channels>>
  BY <1>1 DEF LiveSet, ChannelSet, Live
<1>2. CASE StopConnections
  <2>1. LiveSet' = LiveSet /\ ChannelSet' = ChannelSet
    BY <1>2 DEF StopConnections, LiveSet, ChannelSet, Live
  <2> QED
    BY <1>2, <2>1 DEF StopConnections, service
<1>3. ASSUME NEW c \in Conns, Connected(c) PROVE CountInv'
  <2>1. c \notin LiveSet /\ LiveSet' = LiveSet \union {c} /\ ChannelSet' = ChannelSet
    BY <1>3 DEF Connected, LiveSet, ChannelSet, Live
  <2>2. Cardinality(LiveSet') = Cardinality(LiveSet) + 1
    BY <2>1, Finite, FS_AddElement
  <2> QED
    BY <1>3, <2>1, <2>2 DEF Connected
<1>4. ASSUME NEW c \in Conns, Disconnected(c) PROVE CountInv'
  <2>1. c \in LiveSet /\ LiveSet' = LiveSet \ {c}
    BY <1>4 DEF Disconnected, Unref, LiveSet, Live
  <2>2. Cardinality(LiveSet') = Cardinality(LiveSet) - 1 /\ Cardinality(LiveSet) > 0
    <3>1. Cardinality(LiveSet') = Cardinality(LiveSet) - 1
      BY <2>1, Finite, FS_RemoveElement
    <3>2. Cardinality(LiveSet) \in Nat /\ Cardinality(LiveSet) # 0
      BY <2>1, Finite, FS_CardinalityType, FS_EmptySet
    <3> QED
      BY <3>1, <3>2
  <2>3. CASE channel[c]
    <3>1. c \in ChannelSet /\ ChannelSet' = ChannelSet \ {c}
      BY <1>4, <2>3 DEF Disconnected, ChannelSet
    <3>2. Cardinality(ChannelSet') = Cardinality(ChannelSet) - 1
      BY <3>1, Finite, FS_RemoveElement
    <3> QED
      BY <1>4, <2>2, <2>3, <3>2, SizesAssumption, Finite, FS_CardinalityType DEF Disconnected
  <2>4. CASE ~channel[c]
    <3>1. ChannelSet' = ChannelSet
      BY <1>4, <2>4 DEF Disconnected, ChannelSet
    <3> QED
      BY <1>4, <2>2, <2>4, <3>1 DEF Disconnected
  <2> QED
    BY <2>3, <2>4
<1>5. ASSUME NEW c \in Conns, OpenChannel(c) PROVE CountInv'
  <2>1. LiveSet' = LiveSet
    BY <1>5 DEF OpenChannel, LiveSet, Live
  <2>2. c \notin ChannelSet /\ ChannelSet' = ChannelSet \union {c}
    BY <1>5 DEF OpenChannel, ChannelSet
  <2>3. Cardinality(ChannelSet') = Cardinality(ChannelSet) + 1
    BY <2>2, Finite, FS_AddElement
  <2> QED
    BY <1>5, <2>1, <2>3, Finite, FS_CardinalityType, SizesAssumption DEF OpenChannel, service
<1>6. ASSUME NEW c \in Conns, CloseChannel(c) PROVE CountInv'
  <2>1. refs[c] # 1 /\ LiveSet' = LiveSet
    BY <1>6 DEF CloseChannel, Unref, LiveSet, Live
  <2>2. c \in ChannelSet /\ ChannelSet' = ChannelSet \ {c}
    BY <1>6 DEF CloseChannel, ChannelSet
  <2>3. Cardinality(ChannelSet') = Cardinality(ChannelSet) - 1
    BY <2>2, Finite, FS_RemoveElement
  <2> QED
    BY <1>6, <2>1, <2>3, Finite, FS_CardinalityType, SizesAssumption DEF CloseChannel, service
<1>7. ASSUME NEW c \in Conns, Terminate(c) PROVE CountInv'
  <2>1. LiveSet' = LiveSet
    BY <1>7 DEF Terminate, Unref, LiveSet, Live
  <2>2. ChannelSet' = ChannelSet
    BY <1>7 DEF Terminate, ChannelSet
  <2> QED
    BY <1>7, <2>1, <2>2 DEF Terminate, service
<1> QED
  BY <1>1, <1>2, <1>3, <1>4, <1>5, <1>6, <1>7, CountersTouched

(* Who changes what permits to advertise, or the advertising.              *)
LEMMA PermissionTouched ==
  [Next]_vars =>
    \/ UNCHANGED <<state, blocked, call, adv, count, stopFailed>>
    \/ InitService
    \/ StartRegister
    \/ StartSet
    \/ StartSubmit
    \/ StopSet
    \/ StopCancel
    \/ StopAdvertising
    \/ StopConnections
    \/ StopGatt
    \/ \E reason \in Reasons : BlockAdvertising(reason)
    \/ \E reason \in Reasons : UnblockAdvertising(reason)
    \/ StartAdvertisingWork
    \/ RestartAdvertisingWork
    \/ \E c \in Conns : Connected(c)
    \/ \E c \in Conns : Disconnected(c)
  BY Zenon DEF Next, Calls, Works, Bluetooth, vars, service, work, air, links,
         host, ReaderChanges, RefreshAdvertising, Submit,
         UpdateAdvertisingDataWork, WriteVersion, OpenChannel, CloseChannel,
         Terminate, Recycled, OtherTakes, OtherReleases

(* The advertising is on only while it is permitted.                       *)
LEMMA PermissionStep == IInv /\ [Next]_vars => AdvertisesOnlyIfAllowed'
<1> SUFFICES ASSUME IInv, [Next]_vars PROVE AdvertisesOnlyIfAllowed'
  OBVIOUS
<1> USE DEF IInv, AdvertisesOnlyIfAllowed, CallInv, CountInv, StopSteps,
            AirTypes
<1>1. CASE UNCHANGED <<state, blocked, call, adv, count, stopFailed>>
  BY <1>1 DEF AdvertisesOnlyIfAllowed
<1>2. CASE InitService
  BY <1>2, SizesAssumption, Finite, FS_CardinalityType DEF InitService,
         service, work, air, host
<1>3. CASE StartRegister
  BY <1>3, SizesAssumption, Finite, FS_CardinalityType DEF StartRegister,
         service, work, air, host
<1>4. CASE StartSet
  BY <1>4, SizesAssumption, Finite, FS_CardinalityType DEF StartSet, service,
         work, air, host
<1>5. CASE StartSubmit
  BY <1>5, SizesAssumption, Finite, FS_CardinalityType DEF StartSubmit,
         service, work, air, host
<1>6. CASE StopSet
  BY <1>6, SizesAssumption, Finite, FS_CardinalityType DEF StopSet, service,
         work, air, host
<1>7. CASE StopCancel
  BY <1>7, SizesAssumption, Finite, FS_CardinalityType DEF StopCancel, service,
         work, air, host
<1>8. CASE StopAdvertising
  BY <1>8, SizesAssumption, Finite, FS_CardinalityType DEF StopAdvertising,
         service, work, AdvertisingStop
<1>9. CASE StopConnections
  BY <1>9, SizesAssumption, Finite, FS_CardinalityType DEF StopConnections,
         service, work, air, host
<1>10. CASE StopGatt
  BY <1>10, SizesAssumption, Finite, FS_CardinalityType DEF StopGatt, service,
         work, air, host
<1>11. ASSUME NEW reason \in Reasons, BlockAdvertising(reason) PROVE AdvertisesOnlyIfAllowed'
  BY <1>11, SizesAssumption, Finite, FS_CardinalityType DEF BlockAdvertising,
         service, work, AdvertisingStop
<1>12. ASSUME NEW reason \in Reasons, UnblockAdvertising(reason) PROVE AdvertisesOnlyIfAllowed'
  BY <1>12, SizesAssumption, Finite, FS_CardinalityType DEF UnblockAdvertising,
         service, work, air, host
<1>13. CASE StartAdvertisingWork
  BY <1>13, SizesAssumption, Finite, FS_CardinalityType DEF
         StartAdvertisingWork, host, MayAdvertise, CanStart
<1>14. CASE RestartAdvertisingWork
  BY <1>14, SizesAssumption, Finite, FS_CardinalityType DEF
         RestartAdvertisingWork, host, MayAdvertise, CanStart
<1>15. ASSUME NEW c \in Conns, Connected(c) PROVE AdvertisesOnlyIfAllowed'
  BY <1>15, SizesAssumption, Finite, FS_CardinalityType DEF Connected, host
<1>16. ASSUME NEW c \in Conns, Disconnected(c) PROVE AdvertisesOnlyIfAllowed'
  BY <1>16, SizesAssumption, Finite, FS_CardinalityType DEF Disconnected, air,
         work
<1> QED
  BY <1>1, <1>2, <1>3, <1>4, <1>5, <1>6, <1>7, <1>8, <1>9, <1>10,
     <1>11, <1>12, <1>13, <1>14, <1>15, <1>16, PermissionTouched

(* Who changes a connection, or the state of the service.                  *)
LEMMA QuietTouched ==
  [Next]_vars =>
    \/ UNCHANGED <<state, call, conn, stopFailed>>
    \/ InitService
    \/ StartRegister
    \/ StartSet
    \/ StartSubmit
    \/ StopSet
    \/ StopCancel
    \/ StopAdvertising
    \/ StopConnections
    \/ StopGatt
    \/ \E reason \in Reasons : BlockAdvertising(reason)
    \/ \E c \in Conns : Connected(c)
    \/ \E c \in Conns : Disconnected(c)
    \/ \E c \in Conns : CloseChannel(c)
    \/ \E c \in Conns : Terminate(c)
  BY Zenon DEF Next, Calls, Works, Bluetooth, vars, service, work, air, links,
         host, UnblockAdvertising, ReaderChanges, RefreshAdvertising, Submit,
         StartAdvertisingWork, RestartAdvertisingWork,
         UpdateAdvertisingDataWork, WriteVersion, OpenChannel, Recycled,
         OtherTakes, OtherReleases

(* A service that is not started gets no connection and ends those it has. *)
LEMMA QuietStep == IInv /\ [Next]_vars => QuietInv'
<1> SUFFICES ASSUME IInv, [Next]_vars PROVE QuietInv'
  OBVIOUS
<1> USE DEF IInv, QuietInv, AdvertisesOnlyIfAllowed, CallInv, StopSteps,
            LinkTypes
<1>1. CASE UNCHANGED <<state, call, conn, stopFailed>>
  BY <1>1
<1>2. CASE InitService
  BY <1>2 DEF InitService, service, work, air, links, host
<1>3. CASE StartRegister
  BY <1>3 DEF StartRegister, service, work, air, links, host
<1>4. CASE StartSet
  BY <1>4 DEF StartSet, service, work, air, links, host
<1>5. CASE StartSubmit
  BY <1>5 DEF StartSubmit, service, work, air, links, host
<1>6. CASE StopSet
  BY <1>6 DEF StopSet, service, work, air, links, host
<1>7. CASE StopCancel
  BY <1>7 DEF StopCancel, service, work, air, links, host
<1>8. CASE StopAdvertising
  BY <1>8 DEF StopAdvertising, service, work, air, links, host, AdvertisingStop
<1>9. CASE StopConnections
  BY <1>9 DEF StopConnections, service, work, air, links, host
<1>10. CASE StopGatt
  BY <1>10 DEF StopGatt, service, work, air, links, host
<1>11. ASSUME NEW reason \in Reasons, BlockAdvertising(reason) PROVE QuietInv'
  BY <1>11 DEF BlockAdvertising, service, work, air, links, host,
         AdvertisingStop
<1>12. ASSUME NEW c \in Conns, Connected(c) PROVE QuietInv'
  BY <1>12 DEF Connected, service, work, air, links, host
<1>13. ASSUME NEW c \in Conns, Disconnected(c) PROVE QuietInv'
  BY <1>13 DEF Disconnected, service, work, air, links, host, Unref
<1>14. ASSUME NEW c \in Conns, CloseChannel(c) PROVE QuietInv'
  BY <1>14 DEF CloseChannel, service, work, air, links, host, Unref
<1>15. ASSUME NEW c \in Conns, Terminate(c) PROVE QuietInv'
  BY <1>15 DEF Terminate, service, work, air, links, host, Unref
<1> QED
  BY <1>1, <1>2, <1>3, <1>4, <1>5, <1>6, <1>7, <1>8, <1>9, <1>10,
     <1>11, <1>12, <1>13, <1>14, <1>15, QuietTouched

(* Who changes the advertising data or what is to refresh it.              *)
LEMMA DataTouched ==
  [Next]_vars =>
    \/ UNCHANGED <<state, call, data, refresh, queued>>
    \/ InitService
    \/ StartRegister
    \/ StartSet
    \/ StartSubmit
    \/ StopSet
    \/ StopCancel
    \/ StopAdvertising
    \/ StopConnections
    \/ StopGatt
    \/ ReaderChanges
    \/ RefreshAdvertising
    \/ StartAdvertisingWork
    \/ RestartAdvertisingWork
    \/ UpdateAdvertisingDataWork
    \/ \E source \in submitting : Submit(source)
  BY Zenon DEF Next, Calls, Works, Bluetooth, vars, service, work, air, links,
         host, BlockAdvertising, UnblockAdvertising, Connected, Disconnected,
         WriteVersion, OpenChannel, CloseChannel, Terminate, Recycled,
         OtherTakes, OtherReleases

(* Data that is stale will be replaced, if the host does not fail.         *)
LEMMA DataStep == IInv /\ ~HostMayFail /\ DataWillBeRefreshed /\ [Next]_vars => DataWillBeRefreshed'
<1> SUFFICES ASSUME IInv, ~HostMayFail, DataWillBeRefreshed, [Next]_vars PROVE DataWillBeRefreshed'
  OBVIOUS
<1> USE DEF IInv, DataWillBeRefreshed, CallInv, ServiceTypes, AirTypes,
            StopSteps
<1>1. CASE UNCHANGED <<state, call, data, refresh, queued>>
  BY <1>1
<1>2. CASE InitService
  BY <1>2 DEF InitService, service, work, air, links, host
<1>3. CASE StartRegister
  BY <1>3 DEF StartRegister, service, work, air, links, host
<1>4. CASE StartSet
  BY <1>4 DEF StartSet, service, work, air, links, host
<1>5. CASE StartSubmit
  BY <1>5 DEF StartSubmit, service, work, air, links, host
<1>6. CASE StopSet
  BY <1>6 DEF StopSet, service, work, air, links, host
<1>7. CASE StopCancel
  BY <1>7 DEF StopCancel, service, work, air, links, host
<1>8. CASE StopAdvertising
  BY <1>8 DEF StopAdvertising, service, work, air, links, host
<1>9. CASE StopConnections
  BY <1>9 DEF StopConnections, service, work, air, links, host
<1>10. CASE StopGatt
  BY <1>10 DEF StopGatt, service, work, air, links, host
<1>11. CASE ReaderChanges
  BY <1>11 DEF ReaderChanges, service, work, air, links, host
<1>12. CASE RefreshAdvertising
  BY <1>12 DEF RefreshAdvertising, service, work, air, links, host
<1>13. CASE StartAdvertisingWork
  BY <1>13 DEF StartAdvertisingWork, service, work, air, links, host
<1>14. CASE RestartAdvertisingWork
  BY <1>14 DEF RestartAdvertisingWork, service, work, air, links, host
<1>15. CASE UpdateAdvertisingDataWork
  BY <1>15 DEF UpdateAdvertisingDataWork, service, work, air, links, host,
         PrepareAdvertisingData
<1>16. ASSUME NEW source \in submitting, Submit(source) PROVE DataWillBeRefreshed'
  BY <1>16 DEF Submit, service, work, air, links, host
<1> QED
  BY <1>1, <1>2, <1>3, <1>4, <1>5, <1>6, <1>7, <1>8, <1>9, <1>10,
     <1>11, <1>12, <1>13, <1>14, <1>15, <1>16, DataTouched

(* Every step keeps the invariant.                                         *)
LEMMA Inductive == IInv /\ [Next]_vars => IInv'
  BY ServiceStep, AirStep, RefsStep, CountStep, VersionStep, PermissionStep, QuietStep DEF IInv

(* The initial state has it.                                               *)
LEMMA Initial == Init => IInv /\ DataWillBeRefreshed
<1> SUFFICES ASSUME Init PROVE IInv /\ DataWillBeRefreshed
  OBVIOUS
<1>1. ServiceTypes /\ CallInv /\ AdvertisesOnlyIfAllowed /\ DataWillBeRefreshed
  BY DEF Init, ServiceTypes, CallInv, StopSteps, AdvertisesOnlyIfAllowed, DataWillBeRefreshed
<1>2. AirTypes
  <2>1. other \in 0 .. MaxOther
    BY SizesAssumption DEF Init
  <2> QED
    BY <2>1, Zenon DEF Init, AirTypes
<1>3. LinkTypes /\ RefsInv /\ VersionInv /\ QuietInv
  BY DEF Init, LinkTypes, RefsInv, Holders, Live, VersionInv, QuietInv
<1>4. CountInv
  <2>1. LiveSet = {} /\ ChannelSet = {}
    BY DEF Init, LiveSet, ChannelSet, Live
  <2> QED
    BY <2>1, FS_EmptySet, SizesAssumption DEF Init, CountInv
<1> QED
  BY <1>1, <1>2, <1>3, <1>4 DEF IInv

(* The invariant says all that is claimed, and the types.                  *)
LEMMA InvariantIsEnough ==
  IInv => ObjectsAccounted /\ ChannelsAreNegotiated /\ StopEndsConnections
<1> SUFFICES ASSUME IInv
             PROVE  ObjectsAccounted /\ ChannelsAreNegotiated /\ StopEndsConnections
  OBVIOUS
<1> USE DEF IInv
<1>1. count \in 0 .. PoolSize /\ channels \in 0 .. MaxChannels
  <2>1. /\ Cardinality(LiveSet) \in Nat /\ Cardinality(ChannelSet) \in Nat
        /\ Cardinality(LiveSet) <= Cardinality(Conns) /\ Cardinality(Conns) \in Nat
    BY Finite, ConnsAssumption, FS_CardinalityType, FS_Subset DEF LiveSet
  <2> QED
    BY <2>1, ConnsAssumption, SizesAssumption DEF CountInv
<1>2. refs \in [Conns -> 0 .. 4]
  BY DEF LinkTypes, RefsInv, Holders
<1>3. TypeOK
  BY <1>1, <1>2 DEF TypeOK, ServiceTypes, AirTypes, LinkTypes, CallInv, StopSteps
<1>4. ObjectsAccounted
  BY <1>3 DEF ObjectsAccounted, LinkTypes, RefsInv, Holders, Live, CountInv, LiveSet, ChannelSet
<1>5. ChannelsAreNegotiated
  BY DEF ChannelsAreNegotiated, VersionInv
<1>6. StopEndsConnections
  BY DEF StopEndsConnections, QuietInv, AdvertisesOnlyIfAllowed
<1> QED
  BY <1>4, <1>5, <1>6

(* A connection object is free exactly when nobody refers to it, and the   *)
(* counters agree with what they count, for any number of connections.     *)
THEOREM ObjectsReturn == Spec => []ObjectsAccounted
  BY Initial, Inductive, InvariantIsEnough, PTL DEF Spec, IInv

(* A channel is opened only on a connection on which a version was written.*)
THEOREM NegotiatedFirst == Spec => []ChannelsAreNegotiated
  BY Initial, Inductive, InvariantIsEnough, PTL DEF Spec, IInv

(* Nothing is advertised that is not permitted, in whatever order the      *)
(* calls, the work items and the callbacks of the host come, unless the    *)
(* host could not stop it.                                                 *)
THEOREM PermittedOnly == Spec => []AdvertisesOnlyIfAllowed
  BY Initial, Inductive, InvariantIsEnough, PTL DEF Spec, IInv

(* After a Stop nothing is advertised and no connection stays that is not  *)
(* being ended, unless the host failed.                                    *)
THEOREM StopIsFinal == Spec => []StopEndsConnections
  BY Initial, Inductive, InvariantIsEnough, PTL DEF Spec, IInv

(* Stale data will be refreshed, however Stop and Start come in between, if*)
(* the host does not fail.                                                 *)
THEOREM RefreshIsNotLost == ~HostMayFail => (Spec => []DataWillBeRefreshed)
<1> SUFFICES ASSUME ~HostMayFail PROVE Spec => []DataWillBeRefreshed
  OBVIOUS
<1>1. IInv /\ DataWillBeRefreshed /\ [Next]_vars => DataWillBeRefreshed'
  BY DataStep
<1> QED
  BY <1>1, Initial, Inductive, PTL DEF Spec

=============================================================================
