# TLA+ models of the door lock and access control software

This directory holds TLA+ specifications of the parts of this repository
whose correctness depends on the order of events: threads, timers, work items
and Bluetooth callbacks that interleave, calls that fail midway, resets between
two writes of the flash. Every definition is translated from the source; the
`map` of `PROJECT.json` names the lines each one stands for.

Abbreviations: `AC` is `src/applications/aliro-access-control-app/src`, `MA` is
`src/applications/matter-aliro-door-lock-app/src`, `SUB` is `src/subsys`.

## The system

Three applications share a set of subsystems. The *access control application*
is an Aliro reader with a simulated lock and a UART service; the *Matter Aliro
application* joins the Aliro reader to a Matter door lock; the *Matter door
lock* has no Aliro. An Aliro user device reaches the reader over NFC or over
Bluetooth LE with UWB ranging. The Aliro protocol itself is in a closed library
of which the repository has the headers.

| Component (sources) | State | Operations | Interacts with |
|---|---|---|---|
| External NVS (`SUB/external_nvs`) | entries on an external flash; a unique ID and one counter per entry on the internal one | `Init`, `Write`, `Read`, `Delete`, `Clear`, all under one mutex | used by the storage of access documents, cleared by a factory reset; a reset of the device comes at any time |
| Advertising arbiter (`SUB/advertising_arbiter`) | linked list of requests, two flags | `InsertRequest`, `CancelRequest`; connection callbacks | called by the NUS and DFU services; drives the advertiser of the default identity |
| NUS service, DFU-over-SMP service (`SUB/nus_service`, `SUB/dfu_smp_service`) | started flag, connection, one static `Request` each | start, stop, toggle; connection callbacks | clients of the arbiter; the DFU mutex of the Matter build |
| Aliro service (`SUB/aliro/aliro_service`) | state, count of connections, block reasons, three work items | `Init`, `Start`, `Stop`, `Block`/`UnblockAdvertising`, `RefreshAdvertising`, `Terminate`; callbacks | advertises on the Aliro identity; started by `AliroStateControl`, blocked by the lock's state, refreshed when the reader changes |
| L2CAP and GATT servers (`SUB/aliro/l2cap_server`, `gatt_server`) | channels and their count; protocol version per connection | accept, connect, disconnect, send; attribute reads and writes | below the Aliro service; create and destroy the sessions of the stack |
| Lock simulator (`SUB/aliro/lock_sim`), callback (`AC/aliro/init.cpp`) | lock state, two timers, a notification work | `Lock`, `Unlock`, timer handlers, `NotifyWorkHandler` | called by sessions and commands; its callback blocks the Aliro advertising |
| Access Manager, ranging (`access_manager_impl.cpp`) | list of ranging contexts, the session's open flag | allocation, configuration, removal; driver callbacks; suspension | between the Aliro stack and the UWB driver; unlocks and locks |
| Access Manager, credentials (same file) | four containers of keys, validity iterations, stored documents | add, remove, clear, process a document, evict | `storage`, `kpersistent_manager`, PSA storage |
| Storage (`*/aliro/storage`) | documents and issuer keys per index | store, load, remove | external NVS or PSA protected storage |
| Kpersistent manager | persistent keys per index | preserve, find, remove | follows the credentials' indices |
| Aliro state control, init (`aliro_state_control.cpp`, `init.cpp`) | started flag | start, stop, clear storage | Aliro stack, NFC transport, Aliro service, NVS |
| Last operation (`last_operation.cpp`) | source of the last lock operation | set, get | written by callers of the lock simulator, read by its callback |
| Reader storage, door lock delegate (`SUB/aliro/reader_storage`, `door_lock_delegate`) | reader identifier, private key, group key, certificates | set, get, clear, notify | Matter cluster, shell; wakes the state control, which starts and stops Aliro |
| Matter access (`SUB/matter_access`) | users, credentials, schedules, lists of used indices, in RAM and stored | set, get, clear, factory reset | Matter door lock cluster |
| Bolt lock manager and Matter glue (`MA/matter`, `src/applications/matter-door-lock-app/src`) | actuator state and timer | lock, unlock; attribute callbacks | Matter SDK |
| NFC transport (`platform/nfc`) | recovery flag, tag state, pending transmission | `Start`, `Stop`, `Send`, `Terminate`, the worker `Execute`, notifications | the state machine of the vendored RFAL driver (`rfal_nfc.c`), the interrupt of the chip, the Aliro workqueue and, through `AliroStop`, the Matter thread |
| Timers (`interface_impl/os/os_timer.cpp`, `platform/timer.cpp`) | timer slots | create, start, stop, expire | kernel timers, Aliro workqueue |
| Aliro workqueue, interface adapters, crypto and time helpers, BLE manager, settings helpers, command line | none of their own, or the host's | forward calls | everything |
| Closed Aliro library, vendored NFC driver, scripts, tests, docs | - | - | modelled only as the environment of the above |

Behaviours that are hard to get right, and to test, are listed line by line as
`hazards` in `PROJECT.json`. In short: resets and failures between the writes
that make one update of the external NVS; callbacks of the Bluetooth host that
run between a decision and the action it leads to; one pool of connection
objects for two identities and references to them in three components;
notifications that report the state at the time they are delivered; two threads
that decide under a mutex and act after releasing it; updates of RAM and of
storage of which only one succeeds.

What makes each component correct:

* External NVS: a value that was superseded is never accepted again; a value
  that was acknowledged is not lost without a cause.
* Arbiter: the list is a priority queue; the first request is the one on the
  air; advertising that stops is resumed. Its clients hold no dead connection.
* Aliro service: nothing is advertised that must not be, and what may be
  advertised is, in the end; no connection object leaks or is freed early; a
  channel needs a version negotiated on its own connection; stop disconnects.
* Lock simulator: movements end, the last state is notified, the door relocks.
* Ranging: the driver has no session without a context and no context outlives
  its session; the door follows the sessions in range; suspending never locks.
* Credentials: RAM, storage and the Matter database agree; no document that is
  too old is accepted; the fast phase verifies the device that owns the slot.
* Matter access: a restart changes nothing and lets nobody in; a secret lets in
  the user it was set for; what was erased stays erased.
* Reader configuration: one that was acknowledged is whole and is the one Aliro
  runs with; a reader without one is silent.
* NFC transport: the worker never stalls; data goes to a phone that is held; an
  exchange is not cut; a stopped reader is silent; discovery starts again.

## Modules

| Module | Models | State and actions against the code |
|---|---|---|
| `ExternalNvs` | the external NVS with rollback protection | one action per change of persistent state of each call; `pc` is where the call under `sExternalNvsMutex` is. `Reset` clears what is in RAM and cuts the call. `StaleEntry`, `StaleUid` put the external flash back to an earlier content. A sealed object is the unique ID and the counter it was sealed with, and its value: it is accepted if both are presented again |
| `VersionedStore` | what the header promises the callers | entries that may be lost and never go back; `ExternalNvs` implements it under the mapping `Store` |
| `ExternalNvsProofs` | theorems about `ExternalNvs` | |
| `BleAdvertisingArbiter` | the arbiter with `sys_slist` and its pointers, and the host's advertiser | `InsertRequest` and `CancelRequest` are one action each (they hold `sMutex`); the recycled callback is cut in three, since `Disconnected` takes no lock and comes between |
| `PriorityQueue` | the list as a sequence sorted by priority | implemented by the arbiter's list (`ImplementsQueue`) |
| `AdvertisingClients` | the NUS and DFU services composed with the arbiter | their statements, with the host's callbacks in between |
| `AliroService` | the Aliro service with the L2CAP and GATT servers below it, the pool of connection objects and the sessions of the stack | `Start` and `Stop` are cut where `sMutex` is free; a callback's decision to restart and its submission of the work item are two steps; `refs` counts the references of host, service, channel and session |
| `AliroServiceProofs` | theorems about `AliroService` | |
| `LockSim` | the lock simulator and the access control application's callback | `StartOperation` is cut into its three statements; the handler reads the state twice, and the callback sends its messages before it blocks or unblocks |
| `AccessControlProofs` | theorems about the arbiter, its clients and `LockSim` | |
| `RangingSessions` | the ranging half of the Access Manager | two threads, each at a step `op[t].at` of `SetOpenAllowed`, which is cut where `sMutex` is free |
| `RangingSessionsProofs` | theorems about `RangingSessions` | |
| `CredentialStore` | the keys of the Access Manager in RAM, the access documents, validity iterations and Kpersistent keys in storage, and what the Matter database knows of them | two threads, each at a step `op[t].at`; the Aliro thread verifies a device, the Matter thread provisions. One action per access to a storage, each of which may fail, reads too, and `Reset` between any two; the write of a document is its entry, then its counter (`torn` between them). `sMutex` and the lock of the Matter stack are taken where the code takes them |
| `CredentialStoreProofs` | theorems about `CredentialStore` | |
| `MatterAccess` | users, credentials, schedules and their lists of indices, in RAM and in storage | one command at a time (the Matter thread), cut into its stores; `Restart` loads everything back |
| `MatterAccessProofs` | theorems about `MatterAccess` | |
| `ReaderProvisioning` | the reader configuration with `SetAliroReaderConfig`, `ClearAliroReaderConfig` and a factory reset on one thread, `AliroStart` and `AliroStop` of the state control on another | one action per store and per part started or stopped; `Reset` keeps the storage |
| `ReaderProvisioningProofs` | theorems about the configuration in `ReaderProvisioning`, and about what it starts and stops | |
| `NfcTransport` | the NFC transport and the part of the RFAL state machine its configuration reaches | the worker is at `pc`, `Stop` of the Matter thread at `stopAt`; `st` is `gNfcDev.state`; an operation of the chip begins in one step of the worker and `Complete` ends it; `Interrupt` and `ReadInterrupt` are the pin and the work item that reads the status |
| `NfcTransportProofs` | theorems about `NfcTransport` | |
| `MC*` | instances for TLC | symmetry, priorities, constraints |

`AdvertisingClients` extends `BleAdvertisingArbiter` and takes its actions as
they are. The other modules are tied by the interfaces in their environment
actions; the plan below composes `LockSim` with `AliroService`.

A definition whose comment begins with "Mutant" is a plausible bug. It is not
part of any specification; replacing the definition after which it is modelled
by it must break the property `PROJECT.json` names, which shows that the
property can fail.

## Runs

| Run | Instance | What it shows |
|---|---|---|
| `nvs` | one entry, one value, counters to 2, two unique IDs | no rollback, durability and the refinement of `VersionedStore` through `Write`, `Read`, `Delete`, `Clear` and repeated `Init`, with a failure or a reset at every step and the flash put back at any time |
| `arbiter` | three requests, two of them equally urgent, two connections, a pool of three | the list with its tail pointer is the priority queue; the top request is the one on the air; advertising that is off has an event to come that resumes it, and is resumed |
| `clients` | both clients, two connections, a pool of two | NUS holds no connection that is gone, and none while it is stopped |
| `aliro_service` | two phones, two sessions, one channel, a pool of three, every host call may fail | references and counters agree with the objects; no channel without a version of its own connection; on the air only if allowed; `Stop` leaves nobody connected |
| `aliro_live` | one phone, two sessions, a pool of two shared with the other identity, host calls succeed | advertising that may run does; data that went stale is about to be replaced, whatever `Stop` and `Start` do to the work items |
| `lock_sim` | two threads | movements end, the last state is notified, the door relocks |
| `ranging` | two sessions, two contexts, two threads, a failing driver, suspension from both sides | no session of the driver without a context; no suspension locks; while things are orderly (below), one context per session, and the door is unlocked exactly while a session is in range |
| `credentials` | two documents, two devices, three iterations, one failure of a write, a removal or a read | no document too old is accepted at any step; a device has one document at most, through replacement, eviction, removal, resets; a start fails only after a reset that cut the write of a document (`StartsAgain`, an action property) |
| `credentials_fast` | an access credential and an access document, two devices, one failure, both threads at any time | a new issuer starts afresh; the Kpersistent key at a slot is that of the key in RAM; RAM, document and Matter's copy agree |
| `matter_access` | two users, one credential, one schedule, two secrets, one failure or cut | a restart changes nothing and grants nothing; a secret lets in its owner; erased is erased |
| `provisioning` | two configurations, failures of every kind, resets | an acknowledged configuration is whole and runs; a reader without one is silent; a clear leaves nothing behind |
| `nfc` | phones and other cards, one or several in the field, two polls in wake-up mode before it wakes | the worker never stalls, the tag flag follows the device, a stopped reader is silent, no exchange is cut, discovery starts again |

### Where the code departs from what is said of it

These were met while the models were written. The models do what the code does;
properties that would fail for one of these reasons say so, and exclude it.

External NVS. `external_nvs.h:100` says that `Delete` increments the counter
before it removes the entry; the code removes it first (`external_nvs.cpp:342`),
so a delete that is cut in between leaves the removed copy acceptable.
`external_nvs.h:64` says that a failed `Write` deletes the partially written
entry; the code also deletes the previous, healthy one when nothing was written
(`external_nvs.cpp:307`).

Advertising. `InsertRequest` keeps a request linked when the advertiser cannot
be restarted, and returns an error. The client takes it as not inserted and
assigns a new `Request` to the linked object at its next start
(`SUB/nus_service/src/advertising.cpp:34`, and the DFU service alike), which
cuts the list behind it; the arbiter's header asks that the object "remain
valid ... until the Request is cancelled". Cancelling a request that is not on
the air starts the advertising that already runs and returns `-EALREADY`
(`ble_advertising_arbiter.cpp:214`). A restart of the Aliro advertising that
finds no free connection object is not repeated (`aliro_service.cpp:229`): this
is why `AdvertisesWithSpareObject` assumes that the pool has one to spare.

Lock simulator. The callback unblocks the advertising in `EnteringSecured` only
(`AC/aliro/init.cpp:277`), and the notification reports the state at the time
it runs. If the movement ends first, the callback hears `Secured`, and the
advertising stays blocked with the door locked.

Ranging. `SetOpenAllowed` decides to lock from the sessions it sees under
`sMutex` and locks after releasing it (`access_manager_impl.cpp:1091`). With a
driver that calls back in a thread of its own, another session may open and
unlock in between; it is then locked out. `DoorFollowsSessions` is therefore
about histories in which the two threads took turns (`orderly`).

Credentials.
* The Aliro thread waits for the lock of the Matter stack with `sMutex` held
  (`access_document_chip.cpp:46`), and the Matter thread, which has that lock,
  waits for `sMutex`: both wait for ever. In the model only a reset leaves this
  state, which is why TLC reports no deadlock.
* A reset inside the write of a document, between `external_nvs.cpp:188` and
  `:194`, leaves an entry whose counter is behind. The read at the next boot
  refuses it, `LoadAccessDocuments` gives up (`access_document.cpp:104`) and the
  application does not start; the same read removes the entry
  (`external_nvs.cpp:321`), so the boot after that succeeds. The document is
  lost, the previous one of the device with it, but not the Kpersistent key of
  the slot: another device that gets the slot may be taken for the old one by
  the fast phase until it has preserved a key of its own. `StartsAgain` says that
  this is the only way for a start to fail while no storage failed and no
  removal ran beside a verification;
  `FastPhaseVerifiesOwner` excludes these histories (`"torn"`).
* A document that cannot be read is passed over by the loops that remove old
  documents (`access_manager_impl.cpp:1377`) and those of an issuer (`:1410`):
  it stays behind the iteration, or outlives its issuer. A read that fails at
  boot makes `AliroInit` fail.
* After a write that failed, a removal that failed or was cut between the
  document and its Kpersistent key, or a credential cleared while
  `PreserveKpersistent` is between destroying the old key and importing the
  new one, a Kpersistent key stays behind at a slot; the next owner of the slot
  is then taken for the old one by the fast phase.
  `kpersistent_manager_impl.cpp:159` calls the map "always available", which it
  is not in these histories.
* A removal by Matter beside a verification leaves a document whose issuer is
  gone, or an iteration behind. `NoOldDocument`, `StartsAgain`, `FreshIssuer`
  and `FastPhaseVerifiesOwner` exclude such histories (`"overlap"`);
  `CopiesAgree` holds in them.
* A document whose issuer is gone makes `LoadAccessDocuments` fail, and with it
  `AliroInit` and the start of the application (`app_task.cpp:352`).
* A credential that was cleared is still loaded at boot, with a key of zeros
  that takes its slot; setting a new one there is then ignored with success
  (`access_manager_impl.cpp:1133`).
* A reset in the middle of the removal of an issuer brings the issuer back with
  iteration 0.

Matter access. A credential that is listed but cannot be read at boot becomes a
copy of the one before it (`access_manager_credentials.cpp:285`). A command cut
between a user and a credential leaves a credential with two users. A
credential that could not be stored is reported as stored. Items that no list
names any more survive a factory reset. A factory reset goes on after a removal
that failed; after several failures in one reset a credential may be removed
while the list and its user stay, and at the next boot it takes the secret of
the credential before it and lets that one in as its own user.
`OwnerIsCredited` therefore excludes a removal that failed. It takes more
failures than the run has: the proof showed it.

Reader configuration. `AliroStop` of the Matter thread may run while the state
control is inside `AliroStart`, without a lock: Aliro then counts as running
with a part off, or the group key of zeros is created after the clear, and the
next configuration fails at its import until it is cleared again. A factory
reset removes the configuration without stopping Aliro. `ClearAll` stops at its
first failure: what it did remove from RAM may be back after a reset. A service
that is already started makes `AliroStart` fail (`-EALREADY`).

NFC.
* An unsupported card stays activated, and polling stops until the next start;
  `nfc_custom_integration.rst:242` says that the reader "continuously polls".
* `Start` does not reset `mSendInProgress` and the other flags. Left set by a
  stop in the middle of an exchange, the first delays the recovery of the next
  session for ever if that one ends before any exchange (`stale`).
* `Start` clears RFAL's state without releasing its timer: each one takes a
  timer of the pool of ten (`ncs_pal_timer.c:48`).
* `Stop` of the Matter thread may come between two statements of the worker:
  RFAL is then left active in a stopped transport, or deactivates a device that
  is not there (`overlap`).
* The Aliro work item may run before the system workqueue has read the status of
  the chip: the wake-up is not seen until the next interrupt.
* After the end of a session the same phone is selected once more before
  discovery starts again, and RFAL never notifies the state that the transport's
  `RFAL_NFC_STATE_DEACTIVATION` case waits for.
* `AliroStop` does not end a session over NFC.

### Bounds

* Counters and unique IDs of the NVS: a rollback needs an object, a later one
  and an operation cut in between, which two counter values on one entry give;
  `Clear` needs two unique IDs, and two entries to fail between. The proofs
  hold for every bound. The wrap of the 32-bit counter is not modelled: 2^32
  writes of one entry are beyond the flash.
* Arbiter: three requests are a first, a middle and a last, with a tie. Two
  connections reach the limit with one more object in the pool, so that both
  the limit and the pool can be the reason why a start fails.
* Aliro service: with two phones the second connects while the first closes;
  one channel and two connections reach the limit of channels; three objects
  for two sessions make the count, not the pool, end the advertising. One
  reason stands for all block reasons, of which the code only asks whether any
  is active. The run with failures lets the other identity take no objects,
  since a start that fails stands for a pool that is empty; in `aliro_live`
  the other identity takes them.
* Lock simulator: two threads interleave inside `StartOperation`; the proofs
  hold for any number.
* Ranging: two sessions are "this one" and "another one", which is all that
  `SetOpenAllowed` asks; `MaxContexts` equal to the number of sessions runs out
  when a context stays behind after a failure. The proofs hold for any number.
* Credentials: two documents are "this one" and "another one" for eviction and
  for the removal of old ones; iterations 0, 1 and 2 with a difference of 2 lie
  on both sides of the boundary. One failure, with resets besides, at any step;
  a read may fail at each place that reads a document. One access credential beside one access
  document is what the offset of the Kpersistent slots needs. Timestamps are
  equal, so that any document may be the oldest. `TakingTurns` stops the run
  with two documents at a history in which the threads overlapped, which the
  other run explores, in which all its properties are excused, or in which a
  Kpersistent key stayed behind, which none of them depends on. `MoreToSay` stops
  the other run at histories that excuse all of its properties. That
  `OneSlotPerKey` holds beside overlapping removals too is left to its theorem.
* Matter access: one credential that two users own in turn, and two secrets to
  tell a new one from the old; one failure or cut.
* Provisioning: two configurations, so that a mixture of them can be told; no
  bound on the commands.
* NFC: `NPolls` only says how often wake-up mode measures before the field is
  turned on; the proofs hold for any number.
* Variables named "history" in the modules (`failed`, `stopFailed`, `pending`,
  `sealed`, `acked`, `gone`, `held`, `seen`, `wrote`, `upset`, `orderly`,
  `stale`, `cut`, `overlap`, ...) are read by properties only. `upset` says
  what failed so far, and `Unless(causes, P)` that `P` holds unless one of the
  causes happened.
* Type invariants: those of `ExternalNvs`, `LockSim` and `NfcTransport` are
  proved on their own; the others are a conjunct of one invariant of a run of
  their module.

Deadlock is checked in every run.

### Fairness

Only what the scheduling guarantees is assumed, as weak fairness but for NFC.

* Arbiter: the host hands every connection object back and its recycled
  callback runs to its end. Nothing makes a client call, or a central connect
  or go.
* Aliro service: a `Start` or `Stop` that began goes on (it waits for `sMutex`
  only, which is held for short stretches); a callback that decided to submit
  does; a submitted work item runs on the system workqueue; the host runs the
  recycled callbacks and completes a disconnection it accepted; the stack ends a
  session whose channel is gone.
* Lock simulator: a started timer expires, a submitted item of the Aliro
  workqueue runs, a call returns. Nobody has to call.
* NFC: the worker, a `Start` or `Stop` that began and a queued work item go on
  (weak). Strong fairness of `Complete` and of the end of a session says that an
  operation of the chip that is begun again and again ends at last, and that
  the stack (external) ends every session.
* External NVS, ranging, credentials, Matter access and provisioning: safety
  only, no fairness.

That a change of the configuration reaches the advertising data is stated as an
invariant, `DataWillBeRefreshed`: the event that replaces stale data is pending
as long as the service is started.

Two liveness properties are conditional. `KeepsAdvertising` assumes that the
host refuses a start for want of a connection object only: a start that fails
for another reason, with no object in use, has no event that would repeat it.
`AdvertisesWithSpareObject` assumes a free object, for the reason given above.
`AdvertisesTop`, `AdvertisesOnlyIfAllowed` and `StopEndsConnections` hold until
the host fails to stop what the code asked it to stop.

## Proofs

All proofs are checked by TLAPS with SMT (Z3), Zenon and LS4.

`ExternalNvsProofs` proves, for every set of entries and values and every bound:

* `TypeCorrect`: `Spec => []TypeOK`.
* `NeverRollsBack`: `Spec => []NoRollback`.
* `StaysDurable`: `Spec => []Durable`.
* `Refines`: `Spec => ImplementsStore`.

The assumptions are `NoneAssumption`, `NoneIsNoObject` and `BoundsAssumption`,
which say that the sentinel is not a value and the bounds are naturals. None of
the properties is inductive. The invariant `IInv` adds, part by part:

* `UidsGrow`: the unique ID in use is never newer than the last one generated.
  `Clear` therefore retires every object sealed before it.
* `SealedBehindCounter`: no object of the present unique ID is more than one
  ahead of its counter - the one a write has prepared.
* `FlashHoldsSealed`: whatever the flash holds, put back or not, was sealed at
  some time.
* `AckedAtCounter`, `GoneBehindCounter`: the acknowledged object is at most at
  the saved counter, a superseded one strictly behind it, so it is not accepted.
* `WriteInv`, `OtherCallsInv`: what the call in progress has done so far.
* `HeldIsOwned`, `Durable`: a value that is promised lies on a flash whose
  unique ID is the device's, so that `InitializeUniqueId` does not erase it.

There is one lemma per part and in it one step per action. `Refines` rests on
`RefinementInit` and on `RefinementStep`, which maps every action to a step of
`VersionedStore` or to a stutter.

`AccessControlProofs` proves, for any finite set of requests, any priorities and
any limits, all that the run `arbiter` checks for safety: `ListIsPending`
(`ListHoldsPending`), `TopIsAdvertised` (`AdvertisesTop`), `ResumptionIsArmed`
(`ResumeIsArmed`) and the refinement `ArbiterIsQueue` (`ImplementsQueue`). The
assumptions are `RequestsAssumption`, `NoneIsNoRequest`, `PriorityAssumption`
and `LimitsAssumption`. `IInv` is the two properties about the advertiser with

* `ListInv`: head, tail and the next pointers represent a sequence of distinct
  requests, sorted by priority, and it holds exactly the requests that wait;
* `AirInv`: the host has `PoolSize` connection objects, and the recycled
  callback restarts the advertising only with a request in the list.

`WalkFacts` says what the walk along the pointers visits. The walk is a
recursive function; a least step at which it would go wrong takes the place of
an induction. `AddDoes` and `DropDoes` say what the pointer updates of
`sys_slist_insert`, `sys_slist_prepend` and `sys_slist_find_and_remove` do to
the sequence, and the refinement is read off them. `NusReleases`
(`NusReleasesConnection`, under `ClientsAssumption`) rests on `NusInv`: `Start`
holds no connection before it is over, and `Stop` clears `sIsStarted` before it
cancels and releases.

For the lock simulator it proves `SimTypeCorrect`, `MovementsComplete` and
`LastStateHeard`, for any set of threads, from `SimTypeOK /\ MovementEnds /\
CallbackHearsLast /\ NotifyInv`. `NotifyInv` says what the handler is about to
tell the callback; without it `CallbackHearsLast` is not inductive.

`NfcTransportProofs` proves `TypesHold`, `WorkerIsAlive`, `TagFollowsDevice`,
`StopSilences` and `EndOfSessionWaits` (an action property) for any `NPolls`,
under `PollsAssumption`, which says that it is a natural number. `WorkerAlive`
is inductive with the types; the others need

* `ExchangeInv`: RFAL is in an exchange only while `mSendInProgress` is set or
  the worker is about to clear it, so that a recovery cannot begin;
* `WakeUpInv`: an interrupt is pending only in wake-up mode with the chip in it;
* `StopInv`: how far a `Stop` of either thread got;
* `TagInv`: in which states of RFAL a device is active and may be counted as
  detected;
* `SilentInv`: what a stop has already silenced.

Together they are `IInv`; there is one lemma per part (`FlagStep`, `StateStep`,
`ExchangeStep`, `WakeUpStep`, `StopStep`, `TagStep`, `SilentStep`,
`WorkerStep`), each with one step per action.

`ReaderProvisioningProofs` proves `AcknowledgedStaysWhole`: `Spec =>
[]AcknowledgedIsWhole`, for any set of configurations and any number of
failures, from `ConfigAssumption` (the sentinels differ and are no
configurations) and `FaultsAssumption`. The inductive invariant adds
`CommandInv`: a command that is under way has nothing acknowledged, and what it
has set so far, in storage and in RAM, is that of its own configuration. It is
what makes the last step of `SetAliroReaderConfig` acknowledge a whole one, and
what makes a reset that cuts the command harmless. One lemma per thread
(`MatterStep`, `AliroStep`, `StopStep`, `ResetStep`), one step per action.

It proves the other two invariants of that run, `ProvisionedRuns`
(`RunsWhenProvisioned`) and `ClearedStaysBlank` (`ClearedIsBlank`), with a
second invariant `JInv`, inductive given the first: `StackInv` says what is
started at each step of `AliroStart` and `AliroStop`, and that the state control
still acts on the configuration it found; `PendingInv` that an acknowledged
configuration runs or is on its way to; `SilentInv` that a reader is silent
before its configuration is broken up; `BlankInv` how far a clear got. All speak
of histories in which no command overlapped with the state control. One lemma
per action.

`RangingSessionsProofs` proves all four invariants of the run `ranging`
(`NobodyIsOrphaned`, `SuspendingNeverLocks`, `ContextsAreOwned`, `DoorIsRight`)
for any set of sessions, any bound on the contexts and all four settings of the
options, from `ContextsAssumption` and `OptionsAssumption`. `IInv` adds what
each thread knows while it is at work:

* `ThreadInv`: which steps a thread may be at; only the driver's opens a session.
* `SuspendInv`: a suspension that is to update the reader found no session open,
  and none was opened since: the thread that could is the one that suspends.
* `TurnsInv`, `OpenInv`, `ClosedInv`, `DoorInv`, while things are orderly: one
  thread works; a session that is open is ranging; one that is about to be
  removed is closed; what the door is at each step of `SetOpenAllowed`.

The lemmas before them say what `Find`, `RemoveAt`, `Append` and an update do to
the list of contexts; then there is one lemma per outcome of an action, and
under it one step per part of `IInv`.

`AliroServiceProofs` proves `ObjectsReturn`, `NegotiatedFirst`, `PermittedOnly`
and `StopIsFinal`, the safety invariants of the run `aliro_service`, and
`RefreshIsNotLost` of `aliro_live`, for any set of connections, any reasons to
block and any limits. `RefreshIsNotLost` is about a host whose calls succeed
(`~HostMayFail`), as the run is. The invariant is

* `CallInv`: at each step of `Start` and `Stop`, what the state is;
* `RefsInv`: the references of a connection object are its holders - host and
  service while the link is up, the channel, the session. It says more than
  `ObjectsAccounted`, which compares them when they must be zero;
* `CountInv`: the counters are the cardinalities of what they count, the
  connections that go down but are not recycled included;
* `VersionInv`: a version that was negotiated belongs to the present connection
  of its object, also while a channel outlives it;
* `QuietInv`: what `Stop` has silenced so far and what may not start again:
  a pending restart is harmless because the work item looks at the state.

`CredentialStoreProofs` proves the five invariants and the action property
(`StartSucceeds`) of the runs `credentials` and `credentials_fast`, for any devices, issuers, slots, iterations, differences and
number of failures: `OldDocumentsAreRemoved`, `StartSucceeds`,
`OneDocumentPerDevice` (with `TypeOK`), `IterationsStartAtZero`,
`FastPhaseIsSafe`, `CopiesStayEqual`. The assumptions are that the sentinels are
no keys and no documents (`SentinelAssumption`, `DocumentAssumption`) and that
there is room for at least one document (`BoundsAssumption`): with
`CONFIG_DOOR_LOCK_STORAGE_MAX_STORED_ACCESS_DOCUMENTS` zero the code that
`ChooseSlot` and `Oldest` model is not built. The invariant `IInv` relates the
five stores while two threads work on them; its parts are excused by the
failures that break them, as the properties are, and no others:

* `AliroInv`, `MatterInv`, `TurnInv`: what each thread knows at each of its
  steps; `sMutex` is held from the choice of a slot to the write, and while an
  expired document goes.
* `StoreInv`: while a document is written the Matter thread waits for `sMutex`,
  so the issuer stays and Matter's copy is there before the document.
* `TornInv`, `TornEntry`: no entry is without its counter but the one that is
  being written, so only a reset at that step leaves one. `NothingSkipped`: the
  loops pass over no document that can be read.
* `DocumentsHaveKeys`, `KeysHaveDocuments`, `CopiesFollow`: documents, keys in
  RAM and Matter's copies agree, except in a slot that `RemoveKey` has left and
  `ClearAccessDocument` has not reached (`Gone`), and in one whose entry is
  written and whose counter is not (`Between`). `CopiesAgree` at rest follows.
* `OneDocument`, `OneSlot`, `OwnSlot`, `FreeSlotInv`: the slot chosen for a
  document is its device's own one, or the device has none.
* `DocumentsRecent`, `UpdateRecent`, `CheckedRecent`: the iteration of an issuer
  does not change between the check of a document against it and the write.
* `DocumentsOwned`, `ClearedFirst`, `IterationsFresh`, `IssuerInv`: how far the
  removal of an issuer got.
* `KpHasKey`, `KpHasCredential`, `KpHasDocument`, `KpSteps`: a Kpersistent key
  is that of the key at its slot, or about to be removed.

A lemma per action (`...Does`) states what it changes; a lemma per part
(`...Step`) has one step for each action that touches the part. The eviction
takes the lowest of a set of slots and the earliest of a set of times:
`LowestIn` proves that there is one, from the library's theorem that finite
sets are well-founded by inclusion, which needs no induction over an operator.

`MatterAccessProofs` proves all that the run `matter_access` checks, for any
users, credentials, schedules, secrets and number of failures:
`RestartIsNeutral` (`RestartChangesNothing`), `RestartLetsNobodyIn` (the action
property `RestartGrantsNothing`), `OwnerIsLetIn` (`OwnerIsCredited`) and
`ErasedForGood` (`ErasedStays`). The assumptions are `IndicesAssumption`
(indices are positive), `FaultsAssumption` and `NoneAssumption` (the sentinels
are no data). `IInv` relates RAM, the stored items and the stored lists at each
step of a command; a part is excused by the failures that break it and by no
others:

* `OpInv`, `TypeInv`; `SecretInv`: a secret that is being set is that of no
  credential yet;
* `Schedule`: a schedule that is off is not stored, or in no list;
* `Stored`, `Loaded`, `Unlisted`: RAM is what storage holds; what a restart loses
  before the lists are stored is what the command has set, and never a user who
  is disabled. A factory reset that was cut breaks them;
* `Removable`: what is stored is listed and, during a factory reset, still to be
  removed - the users first, a credential before its list (`Order`);
* `Kept`, `Owned`: a factory reset that is cut leaves a user with all
  credentials or none, and a credential that is listed but not stored is a copy of
  the one stored before it (`Copies`); a credential has one user, the one its
  secret was set for. A command that was cut breaks them.

`RestartGrantsNothing` has two cases, as its statement has: no factory reset was
cut, and then a restart loses at most what the command has set
(`CutGrantsNothing`); or no command was cut, and then a user who is back has the
same credentials, with the same owner of each secret in front
(`ResetGrantsNothing`). `LoadFacts` says what loading a list with gaps gives.

Every invariant, action property and refinement that a run checks is stated by a
theorem. Only model-checked are the four liveness properties,
`KeepsAdvertising`, `AdvertisesWithSpareObject`, `AutoRelocks` and
`DiscoveryRestarts`: fairness and `ENABLED` are beyond the prover. Induction
over data is too; where a proof needs it, a least or greatest counterexample
takes its place (`LeastIn`, `GreatestIn`). No module uses a `RECURSIVE`
operator.

## Not modelled

`PROJECT.json` lists every component with its status. Inside the modelled ones:

* External NVS: the cryptography (nonce, key derivation, AEAD) is the ideal
  one; its failures are failures of the step that calls it.
* Aliro service: the rescheduling of the dynamic tag, which writes the same data
  again; a connection reported with an error; several channels on one
  connection; an `Init` that fails; the content of the tags. `Start` and `Stop`
  exclude each other in the model (one variable, `call`), although `AliroStop` of
  the Matter thread may come between the two parts of `Start`.
* Arbiter: a request that is not connectable, which needs no connection object.
* L2CAP: the send and receive paths, which own a pool of buffers.
* Ranging: that a context may be freed after the mutex is released and before
  the door is moved, by the code that still uses it; unlocking over NFC; the limit of sessions in
  `_SuspendActiveRangingSessions`, which the contexts never exceed; the build
  options that end a session on access or on a timeout are part of the
  nondeterministic end of a session.
* NUS: the dispatch of commands; the variants of NUS and DFU that use the
  arbiter of the Matter SDK.
* Credentials: issuers learned from certificates; the access rules of a
  document, which keep no state; the encodings; the removal of documents of the
  first version at boot, an option. `ClearAccessDocument` removes the
  document from the storage and Matter's copy in one step, under the lock of the
  Matter stack.
* Matter access: year-day and holiday schedules, which have the code of the
  week-day ones; the flag that a PIN is required; at boot, reads of lists, users
  and schedules that fail (that of a credential is modelled).
* Provisioning: reads that fail at boot, after which `AliroInit` fails; reader certificates, shell commands, the boot sequence.
* NFC: listen mode and the technologies the configuration leaves out; timers.

Most of the lines of the repository are vendored: the RFAL drivers of four NFC
chips and the ISO-DEP and NFC-DEP protocols below `rfal_nfc.c` (about two
thirds of all C code), generated ZAP tables of the Matter data model, and the
headers of the closed Aliro library. Register accesses, generated tables and
interfaces without an implementation have no behaviour of this system to model;
`NfcTransport` takes an operation of the chip as one step that begins and one
that ends.

## Plan

Done: the external NVS, the arbiter and its clients, the Aliro service, the lock
simulator, ranging, credentials, Matter access, provisioning and NFC. Left, in
this order:

1. `DoorAdvertising`: `LockSim` with the block state of `AliroService` and
   `last_operation`, replacing the callback inside `LockSim`.
2. `MatterDoor`: the bolt lock manager with its actuator timer, the Matter stack
   and `MatterAccess`.
3. `AccessDocuments`: the documents of `CredentialStore` over `VersionedStore`,
   which `ExternalNvs` is proved to implement.
4. `StackTimers` and `DfuSync`.
5. Learned issuers in `CredentialStore`; two credentials in `MatterAccess`.

Proofs to come: the invariants of these modules, and that each of them keeps the
theorems about the modules it composes.
