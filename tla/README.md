# SAAB-SUITE: TLA+ models, checks and proofs

This directory holds a formal model of the parts of SAAB-SUITE whose
correctness depends on order: processes that share a file, requests that
outlive their timeout, coroutines that share a list, a flash that dies
half-way. Modules are written from the code; paths below are relative to
the repository root.

- [Inventory](#inventory)
- [Modules](#modules)
- [Runs](#runs)
- [Proofs](#proofs)
- [What the code breaks](#what-the-code-breaks)
- [Not modelled](#not-modelled)
- [Plan](#plan)

## Inventory

| Component | State it keeps | Operations | Hard behaviour | What makes it correct |
|---|---|---|---|---|
| Offline cache and sync client, `src/cloud/sync.py` | SQLite: tables, `sync_queue`, `sync_conflicts`; in memory: `access_token` | `upsert`, `enqueue`, `pending`, `dequeue`, `record_conflict`, `authenticate`, `flush_queue` | two processes on one file; timeouts with a late commit; crash between two commits | no queued change is lost; every change is settled; a flush returns |
| Sync endpoint, `backend/app/routes_sync.py`, `routes_vehicles.py` | the backend's tables | `sync_upsert`, `upsert_vehicle` | check and commit on several worker threads; stamps from two clocks | newer data is not overwritten; a conflict is genuine |
| Remote hub, `backend/app/websocket_remote.py` | `sessions`: peers of each session; a JSON-lines file each | `join`, `leave`, `broadcast`, `remote_session` | coroutines interleave at every await while a broadcast iterates the live list; a send raises in another client's coroutine | order, no duplicates; a miss has a cause |
| Flashing engine, `src/flashing/engine.py` | `progress`; checkpoint file | `start` (checklist, security, erase, transfer, verify), `enter_recovery` | power loss at any point; a torn checkpoint; resumption, with the checkpoint of another image too | COMPLETE means written; the checkpoint never runs ahead; nothing without a clear checklist |
| Flash-safe checklist, `src/flashsafe/checklist.py` | `results` | `evaluate`, `all_clear`, `failures` | results grow stale | a missing reading does not pass |
| OEM plugins and loader, `plugins/`, `src/plugins/loader.py` | `_manifests`, `_plugins`; the directories on disk | `discover`, `load`, `execute_flash`, `prepare_flash` | a class cached across edits; a plugin's own checklist and session | the registry is what the directories say; class and manifest are of one plugin; the plugin does not bypass the gate |
| Accounts, `backend/app/main.py`, `auth.py` | `users` | `register`, `login`, `get_current_user`, `require_role` | registrations overlap on worker threads | one account per name; a token names its user |
| Remote CAN transport, `android/.../RemoteCanTransport.kt` | `socket`, `reconnectAttempt`, `incoming` | `connect`, `connectWithRetry`, `send*`, `close`, the listener's callbacks | callbacks of several sockets on other threads; a field assigned after the callbacks may run | one chain of connections per `connect`; frames neither lost nor doubled; reconnection |
| USB-OTG transport, `android/.../UsbOtgTransport.kt` | device, connection, interface, two endpoints | `discoverDevices`, `requestPermission`, `open`, `write`, `read`, `disconnect`, `close` | refused opens, unplugging, dialogs that overlap | transfers reach the device opened; claims can be released |
| J2534 simulator, `src/j2534/simulator.py` | open flags, `protocol`, `_rx_queue` | `open`, `connect`, `write_msg`, `read_msg`, `disconnect`, `close`, `probe_all_protocols` | answers left in the queue across channels | answers belong to the channel that asked |
| UDS client, Trionic 8, `src/uds/client.py`, `src/ecu/trionic8.py` | connection, `_session` | session control, security access, live data | calls in any order, with failing requests; 16-bit and signed arithmetic | the session follows the connection; readings as documented |
| Tech2 emulator, `src/emulator/tech2.py` | menu, snapshots | `ServiceTable`, `select` | a client of its own per call | snapshots hold what was read |
| Calibration catalog, `src/calibration/catalog.py` | records | `resolve_dependencies`, `update_history`, lookups | diamonds, cycles, missing records | dependencies come first, each once; calls end |
| CAN sniffer, `src/sniffer/engine.py` | frames, filters, statistics | `capture`, filters, `detect_bitrate`, exports | statistics kept beside the buffer | statistics are those of the buffer |
| Session logger and `scripts/diagnostic_scan.py`, `src/logging/session.py` | `session.log`, `session.json` | `log`, `finalize`, ... | a file rewritten per entry; two scans in one directory; a killed script | the JSON says nothing the log does not, and lacks at most one entry of it |
| VIN decoder, `src/vin/decoder.py` | none | `decode` | check digit | typing errors are found |
| PID registry, `src/pid/registry.py` | a table filled at import | lookups | | |
| Dashboard, shell scripts, probes, remote client stub | none that lasts | | | |

The components meet in few places. The diagnostic application writes
through `OfflineCache.upsert`; a second process flushes the queue to the
backend, which also takes direct writes through `PUT /vehicles/{vin}`.
Remote viewers, desktop or Android, meet in the hub. The flashing engine
is called by the technician's tool or by a plugin, gated by a checklist,
and leaves a checkpoint file behind; `prepare_flash` of the plugin asks the
catalog for the order of the images. The phone reaches the hub through the
Remote CAN transport and a cable through the USB one, and uses one of the
two. Everything else runs alone: the command-line tools and the classes one
caller drives share nothing.

## Modules

| Module | Models | Built on |
|---|---|---|
| `SyncContract` | what the offline queue promises, without network or processes | |
| `CloudSync`, `CloudSyncProofs` | sync client, network, sync endpoint | instantiates `SyncContract` |
| `SessionHub`, `SessionHubProofs` | the hub and one coroutine per websocket | |
| `FlashSession`, `FlashSessionProofs` | flashing engine, checklist, GM plugin, an ECU's memory | |
| `RemoteCan`, `RemoteCanProofs` | the phone's websocket transport, OkHttp, the network | |
| `UsbOtg` | the phone's USB transport, the kernel's claims, the user | |
| `DiagnosticScan` | scans of one car and the session logger's files | |
| `PassThru` | J2534 device, simulated ECU, protocol probing | |
| `EcuTools` | UDS client, Trionic 8, Tech2 services and menu | |
| `CalibrationCatalog`, `CatalogProofs` | dependency order and update history | |
| `PluginRegistry` | discovery and loading of OEM plugins | |
| `Sniffer` | capture, filters, statistics, bitrate | |
| `VinDecoder` | decoding of right and mistyped VINs | |
| `Accounts` | registration, login, tokens | |
| `MCAndroid` | both transports of one phone | `RemoteCan`, `UsbOtg` |
| `MCTools` | the eight parts that run alone, one per behaviour | the eight modules above from `DiagnosticScan` to `Accounts` |
| `MCCloudSync`, `MCSessionHub`, `MCFlashSession` | instances for TLC | |
| `AndroidProofs` | theorems about `UsbOtg` and the phone | `MCAndroid`, `RemoteCanProofs` |
| `VehicleProofs` | theorems about `PassThru`, `EcuTools`, `Sniffer`, `VinDecoder` | these four |
| `ToolsProofs` | theorems about `DiagnosticScan`, `Accounts`, `PluginRegistry` and all parts side by side | `MCTools`, `CatalogProofs`, `VehicleProofs` |

Operators whose comment begins with *Faulty variant* are wrong versions of
the definition that follows. Nothing uses them; replacing the definition by
its faulty variant must make a named property fail, which is how each
property is shown to depend on the code it is about.

### CloudSync

A client is one SQLite file with two processes. `UpsertRow` and `Enqueue`
are the two transactions of `upsert`; `AppCrash` is a death between them.
`StartFlush` is `flush_queue` up to its `pending()`; `TakeItem` is one turn
of the loop up to the PUT, which reads the row as it is *now*;
`ReceiveOk`, `ReceiveConflict` and `ReceiveError` are its branches on the
status; `PutFails` is the `except`; `FinishFlush` the return. On the server
`Admit` and `Refuse` are the SELECT with the comparison, `Commit` and
`Clash` the commit. `Deny` is a token that has expired.

The choices that matter:

- The SELECT and the commit of a request are two steps. FastAPI runs these
  handlers on a thread pool, each with its session, and SQLite takes its
  write lock only at the flush before the commit. `Workers` bounds how many
  are between the two.
- A PUT the client has given up on is either gone or goes on to commit
  late. Its answer reaches nobody.
- A payload is represented by (author, version). `Commit` writes a payload
  only if it differs from the one the session has read, as the ORM does,
  and stamps the row with the server's clock in any case.
- A row is stamped by the device's clock, `now + Skew[c]`, on the device
  and by `now` on the server.
- `pending()` has no ORDER BY: the snapshot is a set, taken in any order.
- `sync_conflicts` is a set of rows; rows that differ in their random id
  only are one.
- `promised` and `accepted` are history.
- Steps that leave everything as it was are steps of no action: a token
  request that fails, a `PUT /vehicles` that loses the race to insert a row
  and answers 500. A row is stamped in the step of its commit, so stamps grow
  in the order of commits; in the code two workers may also commit in the
  other order of their stamps, by the time between `time.time()` and
  `commit()`.

`SyncContract` has three actions: a change is promised, stored, settled. It
settles only what is stored in that version or a later one. `Outbox` maps
all the queues to the contract's outbox and `accepted` to its store.

### SessionHub

One session; sessions share only the dict. `pc` says where the coroutine of
a websocket is: greeting (the broadcast after `join`), receiving, relaying,
parting (the broadcast after `leave`), done, or dead of an exception.
`Begin` is a broadcast up to its first await, recording included; `Skip`,
`Send...`, `Finish` are turns of its loop. The loop walks the live list by
position, as Python's list iterator does; `list` is the identity of the
list object, because a deleted key is followed by a new list.

A send to a peer whose connection is gone has three outcomes, all of which
Starlette and its servers produce: nothing (`SendIntoVoid`),
`WebSocketDisconnect` (`SendDisconnects`), any other exception
(`SendRaises`). The second, raised while relaying, lands in the `except`
that was written for the sender's own departure: the sender is taken off
the hub although its client is connected.

`MissedOnlyBehindTheGone` is a step property, of every way a broadcast ends:
the loop running out, and the exceptions of `SendRaises` and
`SendDisconnects`, which end it in front of connected peers. A broadcast
whose list somebody has left is outside of it (`disturbed`); that such a one
skips connected peers is the finding of `hub_missed`. That a broadcast ends
is not claimed: newcomers are appended to the list it walks, and nothing in
the code bounds how many do.

`log` is the session's JSON-lines file; `delivered`, what each client has
been sent.

### FlashSession

One process at a time flashes one ECU. The steps are those between which a
death leaves different durable state: `Erase`, `SendBlock`, `Truncate` and
`Save` (the two halves of `write_text`), `Complete`, `ClearCheckpoint`.
`StartIndex` is `_load_checkpoint`: an absent file and a torn one both give
0. `Fail` is the `except` of `start`. `session` says how the object was
built: with its own checklist (the GM plugin) or the technician's, with a
licensed provider or the null one, with a checkpoint path or without.
`LoadFails` is an unreadable checkpoint file (an `OSError`, or JSON that is
no object), raised before the `try`.

Images have lengths of their own (`Size`), and the checkpoint says nothing of
which image it is of. `Index` is therefore where a run of any image can stand,
`StartIndex` takes it as it is, and a run may start past its image's end:
it sends nothing and reports COMPLETE.

The engine is transport-agnostic and its `_erase` and
`_send_block_with_flow_control` only name what the ECU must do. `memory` is
an ECU that does it: `_erase` erases the regions of all the blocks it is
given, a block sent is written. This is the one external part; the finding
on resumption depends on it for "erased", and not for "not sent".

Blocks are in the order of their indices with one region each, as every
caller in the repository builds them. A checklist is a function from checks
to results; what a reading says is good, bad or missing. `confirmed` is
history.

### RemoteCan

`AppConnect` and `AssignSocket` are the two halves of `connect()`: OkHttp may
run `onOpen` before `socket = ...` has happened, and `overtaken` remembers
the sockets for which it did. `OnOpen`, `OnMessage`, `OnFailure`, `OnClosed`
are the callbacks; the coroutines they launch are counters (`launched`,
`computing`, `waiting`), because `connectWithRetry` increments
`reconnectAttempt` (`CountAttempt`), reads it again for the delay
(`StartDelay`) and calls `connect()` (`Reconnect`), with the callbacks of
other sockets in between. `BackoffDelay` is Kotlin's `shl` with its count
modulo 32. A frame goes from `OnMessage` to a coroutine in `senders`, to the
channel and to `consumed`.

External: OkHttp, as the listener meets it. A socket ends in one of
`onClosed` and `onFailure`; a close frame of the server calls `onClosing`,
which the listener does not override, and leaves it "hung" until a send on it
fails (`SendFails`), if there ever is one. `Failing` says when a socket fails:
opening, when the network is down or the hub refuses the token (`valid`, which
`TokenExpires` makes false for good, as `accessToken` is a `val`); open, when
the network is down. Socket objects
that nothing refers to are used again, which keeps the state finite while
connections are unbounded in number.

### UsbOtg

`OpenRefused` and `Open` are the branches of `open`: the connection is opened
first, the claim tried next, and the fields are assigned last, so a refused
open leaves an open descriptor and the old fields. `connection` is a number,
and `openOn` and `claim` are the kernel's side of it. `Disconnect`, `Close`
and `Unplug` follow. `RequestPermission` registers a receiver, `Broadcast`
resumes every call that is waiting - the action string is the same for all
devices - and `CancelCall` leaves the receiver registered, as the code does
without `invokeOnCancellation`. `holding` and `crossed` are history: whether
each open followed a disconnect, and which calls had another dialog up. A
forced claim (`claimInterface(iface, true)`) takes an interface from a kernel
driver; the model lets it take none from another descriptor of the process.

### The parts of MCTools

They share nothing, so `MCTools` runs each on its own (`part`), from one
initial state: the reachable states are the sum of the parts' and not the
product.

- `DiagnosticScan`. A scan is `scripts/diagnostic_scan.py`; each entry is a
  line appended to `session.log` (`AppendLine`), then `open("w")` and the
  write of `session.json` (`OpenJson`, `WriteJson`); `Finalize` adds the end
  of the session. `ScanDies` is a kill anywhere. The directory is named by
  VIN, minute and prefix, so two scans of a minute interleave on two files:
  `Overlay` is what one open file leaves over another's text. `RunRecorded`
  is about a scan that has its directory to itself; two of one minute do not
  keep a record each, and all that holds of them is `JsonWithinLog`.
- `PassThru`. `PassThruOpen`, `PassThruConnect`, `WriteMsg`, `ReadMsg`,
  `PassThruDisconnect`, `PassThruClose` as called by one thread; `Handle` is
  the simulated ECU. A probe is a loop over a set, so in any order.
- `EcuTools`. Trionic 8 over `UDSClient` with the stub transport, which is
  the only one that works; every request of a call that fails raises out of
  it. Readings are scaled in hundredths. A 16-bit word is the set of its
  bits that are 1, so that `~`, `^` and `&` of `t8_keygen` are operations on
  sets; `unlocks` remembers each seed with the key sent for it. The Tech2
  services and menu make a client for each call.
- `CalibrationCatalog`. The nested `visit` is a stack: `VisitNew`,
  `VisitOrdered` and `VisitCircular` are what a dependency can be, `EndVisit`
  the append. Dependencies are lists, in any order. `FollowSupersedes` is one
  turn of `update_history`.
- `PluginRegistry`. Directories with valid, invalid or scalar manifests are
  edited between calls of `Discover` and `Load`. `fresh` is history: nobody has
  edited them since the last `discover`.
- `Sniffer`. `Capture` is `capture_frame` with the filters installed; `Gap`
  may be negative, as the wall clock may step back.
- `VinDecoder`. `Decode` on a VIN entered right, mistyped, with neighbours
  exchanged, or short; `Total` is the loop of `validate_check_digit` written
  out.
- `Accounts`. `RegisterLookup` and `RegisterCommit` are the two database
  accesses of `register`; `RegisterCollides` is the unique column refusing
  the row. bcrypt, JWT and the database are external: a hash is the password
  it verifies, a token names its user and hour.

## Runs

Bounds are constants named in each module and set in the `.cfg` files.
Deadlock is off where the clock, the faults, the clients or the calls run
out (all but FlashSession), and on for FlashSession.

| Run | Configuration | Bounds | Shows |
|---|---|---|---|
| `cloud_safety` | `CloudSyncSafety` | 2 devices (one clock ahead), 1 record, 2 versions, 2 workers, 2 clock values, 1 fault | `TypeOK`, `NoLostSync`, `ConflictIsGenuine`, and that it implements `SyncContract` |
| `cloud_live` | `CloudSyncLive` | 1 device, 2 records, 1 version, 1 fault, 1 write through `PUT /vehicles` | `SettlesEventually`, `FlushTerminates` |
| `cloud_last_write` | `CloudSyncLastWrite` | small | refutes `LaterVersionWins` |
| `cloud_race` | `CloudSyncRace` | small | refutes `NeverOverwritesNewer` |
| `cloud_crash` | `CloudSyncCrash` | small | refutes `EveryRowQueued` |
| `hub_safety` | `SessionHub` | 3 sockets (symmetric), 1 frame, 1 client that goes away by itself, 2 broadcasts at once | `TypeOK`, `OrderedOnce`, `SilentAfterFarewell`, `MissedOnlyBehindTheGone` |
| `hub_missed` | `SessionHubMissed` | as `hub_safety` | refutes `EveryStableViewerReached` |
| `flash_safety` | `FlashSession` | 2 images, of 3 and of 2 blocks, 2 checks, 6 blocks counted per session object, crashes unbounded | `TypeOK`, `CheckpointBehindTransfer`, `CompleteFromStart`, `TouchedOnlyWhenClear` |
| `flash_resume` | `FlashResume` | 2 images, of 2 blocks and of 1 | refutes `CompleteMeansWritten` |
| `android` | `Android` | 3 sockets, 2 connects, 1 close by either side, 1 loss of the network, 2 failures in a row, 2 frames in a channel of 1; 3 adapters (complete, without OUT endpoint, without vendor interface), 3 opens, 2 permission calls, 1 unplugging | the eight properties below |
| `remote_dropped` | `RemoteCanDropped` | 2 sockets, 1 connect, 1 close by either side, 2 failures in a row | refutes `DroppedIsRetried` |
| `tools` | `Tools` | 2 scans in 2 minutes, 5 entries; 3 protocols, 4 channels, 2 answers unread; 4 seeds; 4 calibrations with at most 2 dependencies each; 2 OEMs in 2 directories, 1 edit; 3 frames of 2 ids, 1 filter; 3 VINs; 3 registrations of 2 names, tokens of 1 hour in 2 | the sixteen properties below |

What the properties of `android` and `tools` say:

| Property | Says |
|---|---|
| `ConnectionsConserved` | sockets that live and retries under way are together as many as calls of `connect()`: no storm, no lost retry |
| `FramesConserved` | a frame is in one place, in its coroutine, the channel or the consumer's hands |
| `GatewayReissued` | an open connection has asked for its gateway once, unless `onOpen` overtook the assignment |
| `Reconnects` | once the network stays, the token is valid and no connection is left that the server closed, the phone is connected again and again |
| `TransfersReachTheDevice` | no transfer goes to a device other than the one opened, or over a closed connection |
| `ClaimsCanBeReleased` | the claim is the held connection's, as long as opens follow disconnects |
| `GrantedToTheCaller` | `true` means granted, unless another dialog was up |
| `JsonWithinLog`, `RunRecorded` | the JSON says nothing the log does not; what a scan alone in its directory leaves, whether it finishes, fails its check or is killed |
| `AnswersOfThisChannel`, `ProbeFindsAll` | answers are of the channel that asked, if the caller reads its own; a probe finds every protocol and keeps the queue's length |
| `SessionFollowsTransport`, `ReadingsAsDocumented`, `KeyDeterminesSeed` | the extended session lasts as long as the connection; values as in the stub's table; each key sent gives back the seed it was sent for |
| `DependenciesFirst`, `ResolvedOrCircular`, `ResolveEnds`, `HistoryEnds` | the order; its contents, and the error if and only if a cycle is reached, against reachability in the graph; both calls end, the history unless it is circular |
| `OnePluginPerOem` | from a `discover` to the next edit, the registry is what the directories say; until the first edit the cached class is of the registered directory |
| `StatsMatchFrames` | statistics are those of the buffered frames, each interval that of two successive ones |
| `SlipsDetected` | which typing errors the check digit lets through |
| `RegisteredOnce` | a name belongs to one registration; a 500 is a lost race, later ones get 400 |

Why the bounds are enough. *Cloud*: the races need two writers of one record
and a second version written while the first is under way; a fault of each
kind can happen at each point, and what a second fault could do is covered
by the proof of the same invariants for any number. Two clock values and a
skew of one give every outcome of the comparison of stamps. *Hub*: a miss or
a duplicate needs a walker, one that shifts the list and one that is
shifted, so two broadcasts at once among three sockets; one closed
connection is enough to make senders fail, and through them their peers.
Three broadcasts at once (`MaxWalks = 3`) give 4.0 million states and the
same verdicts. *Flash*: with three blocks a checkpoint can be before, inside
and at the end of an image; a second, shorter image is what a stale
checkpoint is wrong for in every way, past its end included; one check that
reports a missing reading and the one that cannot cover the two kinds.

*Android*: a fork or a loss of the chain of connections needs two sockets
whose callbacks overlap and a third that replaces one; a channel of one and
two frames give a full channel. Two adapters that differ are enough for
every mix of fields, and three opens for a refused one between two others.
*Tools*: two scans are what can meet in one directory, and the check before
entry 3 fails before the last; one edit is enough to remove what is
registered or cached; four records with two dependencies give
diamonds, chains and cycles away from the root; `MinFrames` is 3 instead of
10, which only moves the threshold; three registrations of two names give
two that race and one that comes after. All 37 characters are tried at all 17
positions of a VIN; the three VINs have a check digit X, an X before a year
code 4, and a digit before the check digit. The seeds are the stub's, the
constant of the derivation, its complement and the top bit; what is shown of
all seeds and all VINs is in the proofs.

### Fairness

`CloudSync!Fairness` is weak fairness of the client's own steps: the sync
process authenticates and flushes "on a schedule" (blueprint, section 1),
its loop moves on, `upsert` runs to its end unless it crashes. The server's
steps on a request are strongly fair because a free worker can be taken by
somebody else again and again; a thread pool serves its queue in order.
Faults, clock and users are not fair. `RemoteCan!RemoteCanFairness` says
that threads, coroutines and OkHttp's callbacks run; the network's return,
sends (`SendFails`) and what else the application and the server do are not
fair. `Reconnects` supposes a network that stays, a token that is valid and
that no connection closed by the server is left over; without the last it
would be false, which `remote_dropped` shows.
`CalibrationCatalog!CatalogFairness` says that a call that has begun goes
on. `ProbeFindsAll` is a step property and needs none.

## Proofs

TLAPS proves the following for every value of the constants, subject to the
assumptions named in the modules: skews and bounds are naturals, there is at
least one worker, sockets are finitely many, `null` is none of the values it
stands beside, seeds have 16 bits, the VINs of cars have right check digits
and year codes, and the like. Every invariant and every step property of the
passing runs is among them; the inductive invariants were checked by TLC, on
the configurations of the runs, before they were proved.

| Theorem | Says | Argument |
|---|---|---|
| `TypeCorrect` | `Spec => []TypeOK` of CloudSync | one lemma per group of actions |
| `NoChangeLost` | `Spec => []NoLostSync` | `SyncInv`, below |
| `ConflictTheorem` | `Spec => []ConflictIsGenuine` | `ReviewInv`, below |
| `SyncImplementsContract` | `Spec => ImplementsContract` | `RefineInv`, below |
| `ContractLosesNothing` | `SyncContract` implies that nothing promised is lost | the invariant is inductive as it stands |
| `FlashTypeCorrect`, `CheckpointNeverAhead`, `CompleteRunsWrite` | the three invariants of `flash_safety` | `FlashInv`, below |
| `TouchedByAdmittedOnly` | `Spec => TouchedOnlyWhenClear` | the conjunct `Admitted` of `FlashInv` |
| `HubTypeCorrect`, `HeardInOrder`, `SilenceAfterFarewell`, `MissedTheorem` | the four properties of `hub_safety` | `HubInv`, below |
| `ConnectionsTheorem`, `FramesTheorem`, `GatewayTheorem` | `ConnectionsConserved`, `FramesConserved`, `GatewayReissued` | `RemoteCanInv`, below |
| `TransfersTheorem`, `ClaimsTheorem` | `TransfersReachTheDevice`, `ClaimsCanBeReleased` | `UsbInv`, below |
| `PermissionTheorem` | `GrantedToTheCaller` | `PermissionInv`: a call that waits has its dialog up (`WaitingIsAsked`), and of two dialogs up together for different devices each has been up during the other's (`DialogsCross`) |
| `AndroidImplementsTransports`, `AndroidTypeTheorem` | `AndroidSpec` implies `RemoteCanSpec` and `UsbSpec`; `AndroidTypeOK` | a step of one transport stutters for the other |
| `LogTheorem` | `JsonWithinLog` | `ScanInv`: the lines in `session.log` are those of the entries a scan has reached, and are written before its document |
| `RecordedTheorem` | `RunRecorded` | `RecordInv`: what a scan alone in its directory finds in `session.json` at each step (`RecordOf`), and where in its list of entries it can be (`StageOf`) |
| `AnswersTheorem`, `ProbeTheorem` | `AnswersOfThisChannel`, `ProbeFindsAll` | `PassThruInv`: the queue holds the unread answers (`QueueOfChannel`), and a probe has found what it has tried (`ProbedSoFar`) |
| `SessionTheorem`, `ReadingsTheorem`, `KeyTheorem` | `SessionFollowsTransport`, `ReadingsAsDocumented`, `KeyDeterminesSeed` | inductive together; the derivation is its own inverse on sets of bits (`KeygenInvolution`) |
| `DependenciesTheorem` | `DependenciesFirst` | `CatalogInv`: the calls on the stack are distinct, none of them is ordered, and what a call has passed is ordered or above it |
| `ResolvedTheorem` | `ResolvedOrCircular` | `ReachInv`, below |
| `PluginTheorem` | `OnePluginPerOem` | `RegistryInv`: after a `discover` what is registered is what it would register now; it says nothing of a class cached before an edit |
| `StatsTheorem` | `StatsMatchFrames` | `StatsInv`: statistics are whole records, and `Matches` holds of each |
| `SlipsTheorem` | `SlipsDetected` | arithmetic modulo 11, below |
| `RegisterTheorem` | `RegisteredOnce` | `AccountsInv`: a registration that is still hashing when its name is taken has lost a race (`RacesKnown`), so only such a one can meet the unique column |
| `ToolsImplementParts`, `ToolsTypeTheorem` | `ToolsSpec` implies the specification of each part; `ToolsTypeOK` | a step of one part stutters for the others |

`NoLostSync` is not inductive: when an answer is received the item leaves
the queue, and one must know that the commit it tells of covers that item.
`SyncInv` adds the chain that leads there: a row is written before its
change is queued (`RowBeforeQueue`), so the row sent is at least as new as
the item (`SentCoversItem`); a request that is not late is the one awaited
(`LiveIsAwaited`); and an "ok" that has reached the client speaks of a
commit of what was sent (`AnswerIsAwaited`). A conflict is genuine because a
request that is awaited carries the stamp of the row it sent (`SentStamp`), a
409 is answered only to an older stamp (`RefusalIsNewer`), and a row the
server holds was committed (`ServerCommitted`); `ReviewInv` is these three
with `SyncInv`. The refinement needs more: that an item queued was not
promised before, and that requests carry versions in range (`RefineInv`).

`FlashInv` says that between its guards and its end a run keeps the
checklist and the provider it was let in on (`Admitted`), that every block
below the next one has been transferred (`RunBehindTransfer`), that
nothing has been passed at the handshake (`StartsTogether`), that the run
has written what it has passed (`RunWritten`), and that COMPLETE is
reached only past the last block (`CompleteAtEnd`). `StartsTogether` is
what makes the erase harmless to `RunWritten`, and shows why it is not
harmless to a resumed image: nothing is claimed below `run.start`.

`HubInv` carries the three hub invariants together. The list of peers has no
one twice and nobody who left (`PeersJoined`); `list.remove` and `append`
move a peer up or add one at the end (`RemoveFirstIsShift`), so what is ahead
of a walk has not heard its frame (`AheadIsDeaf`), which makes `OrderedOnce`
inductive; frames are recorded with growing numbers before they are sent
(`LogNumbered`, `DeliveredIsLogged`, `TaskIsLast`), which gives
`SilentAfterFarewell`; and a walk under which nobody has left still has ahead
of it all it owes its frame (`OwedIsAhead`). At the end of the loop that is
nobody; at an exception it is whoever stands behind the peer that raised it,
and a send to a connected peer does not raise (`StepMissesBehind`). The
types need that a list object is dropped only with a socket that left
(`ListsOfEnded`), a matter of cardinalities.

`RemoteCanInv` counts. Each callback that ends a socket launches one
coroutine, each coroutine that calls `connect` takes a free socket, and
nothing else does either (`LiveCounted`); after the scope is cancelled the
count can only fall, so the inequality is what carries over. A frame moves
from its coroutine to the channel and on to the consumer, one at a time.
With one call of `connect` there is one socket that lives, and it takes no
command before its `onOpen` (`AskedOnce`).

`UsbInv` relates the transport's fields to the kernel's books: a claim is an
open connection's to that device (`ClaimsOfOpen`), the fields name one device
(`InterfaceOfConnection`, `EndpointsOfDevice`), and a transport that has let
go holds nothing (`HoldingIsClaim`).

`ReachInv` follows a resolution through the graph. The visits in progress are
a path from the requested calibration (`PathOfVisits`), so one that is met
again closes a cycle, and the error is right. What is ordered is needed
(`OrderIsReached`) and, by `CatalogInv`, closed under dependencies, so at the
end it is all that is needed; and as each calibration in it comes after its
dependencies, none is on a cycle (`NothingOnCycle`). Being needed is a matter
of closed sets (`Leads`), which needs no induction over paths.

`SlipsTheorem` is about all VINs at once. Two totals differ by the terms that
differ (`OneTermDiffers`, `TwoTermsDiffer`); a slip is undetected only if the
difference, or what the new check digit makes of it, is a multiple of 11; no
weight times a difference of two values is, unless the values are equal
(`NoMultipleOf11`); neighbouring weights differ by 1, save around the check
digit, where the cases that `SlipsDetected` names are left over.

`PluginRegistry!Registered` takes a maximum of a finite set of numbers, which
the standard library only reaches by induction. `LeastNat` gets it from the
well-foundedness of `<` instead, applied to the set of counterexamples.

Only model-checked: liveness (`SettlesEventually`, `FlushTerminates`,
`Reconnects`, `ResolveEnds`, `HistoryEnds`), which this
prover does not reach, and the violations of the next section, which are
counterexamples. The parts of the models that no theorem is about, such as
`detect_bitrate` and the tokens of `Accounts`, are covered by the type
invariants only.

## What the code breaks

Each is a run in which TLC finds the violation.

- *Last write wins* (`sync.py` 152-154): the server stamps the time of the
  sync, `routes_sync.py` 54, so the last **sync** wins. A device can have a
  version refused in favour of its own earlier one.
- *No blind overwrite* (`routes_sync.py` 4-7): two workers pass the check
  together, and the second commits over a row it never saw.
- *Every flash attempt is synced* (blueprint 823-826): `upsert` commits the
  row before it queues it; a crash between the two loses the push.
- *Streams to connected viewers* (`websocket_remote.py` 4-5): a departure
  shifts the list under a broadcast and a connected viewer is skipped.
- *Resume-safe* (`engine.py` 87): a resumed session leaves what was
  transferred before the checkpoint erased, or belongs to another image,
  and reports COMPLETE; with the checkpoint of a longer image it erases the
  regions of a shorter one, sends nothing, and reports COMPLETE.
- *Clients should retry a dropped connection* (`RemoteCanProtocol.md` 49): a
  connection the server closes is never retried by a phone that only listens,
  because `onClosing` is not overridden (`RemoteCanTransport.kt` 46-52).

Seen while modelling and not a run:

- The GM plugin's `execute_flash` cannot succeed, because it evaluates
  nothing on the checklist it creates, whatever the comment on lines 68-69
  asks of the caller; `ExecuteFlash` therefore has one outcome.
- `RemoteCanTransport`: at the 32nd failure in a row the shift gives a
  negative delay, that is none, where `RemoteCanProtocol.md` gives 1 to 30
  seconds (`BackoffWaits` states the range). `open_gateway` is lost if
  `onOpen` runs before the field is assigned. `close()` leads to a
  reconnection. A token that has expired is tried again for ever.
- Flashing: a checkpoint file that cannot be read, or holds JSON that is no
  object, raises outside the `try` of `start` and leaves the state CHECKLIST.
- Hub: a failed send to a client that is gone, raised while relaying, takes
  the connected sender off the hub.
- `UsbOtgTransport`: the answer to one dialog resumes a call for another
  device. `open` of a second device may return false while the transport
  goes on with the first. `open` without `disconnect` leaks the claim.
- J2534: an answer left unread is returned on the next channel, and a probe
  counts it as its own.
- Trionic 8 without a connection: zero readings become plausible values.
- Tech2: the guard of `inject_frame` never refuses, and `select(0)` runs the
  last item, because index -1 is one.
- Catalog: `update_history` does not end on records that supersede each
  other in a circle.
- Session logger: two runs of a minute share their directory, although each
  run is said to create one (`session.py` 4). The second truncates the
  first's `session.json`, even after the first has ended, and two at once can
  leave one that cannot be read.
- Plugins: a manifest that is a JSON scalar ends `discover` with a
  TypeError. A class that is cached stays when its directory is edited or
  removed, even after the next `discover`.
- VIN: the default VIN of the tools, YS3FD45Y381234567, fails its own check
  digit. Exchanging the eighth character and the check digit can go undetected
  if both are digits. So can exchanging a check digit X and a year code 4: an
  X counts 7 as a character and stands for 10 as a remainder, and putting it
  in the tenth place, of weight 9, takes the remainder from 10 to 4. The
  proof of `SlipsTheorem` found the second, which the VINs checked before had
  missed; one of the three has it now.

## Not modelled

`PROJECT.json` lists every component with its status. Left out:

- The PID registry: one-line formulas, filled once at import.
- The dashboard (presentation over demo data), shell scripts and environment
  probes (I/O without state of their own), the remote client stub (a message
  type).
- Libraries: password hashing, JWT and encryption, SQLite, OkHttp, Android's
  USB stack, beyond what the code that calls them meets.
- Of modelled components: `lookup_by_vin`, `check_flash_compatibility` and
  the index of the catalog, `supports_vehicle`, the sniffer's exports and
  overviews, the endpoints for DTCs, notes and listings. Each reads or writes
  one thing in one step, with no state carried on.
- Texts: what is in a frame, a payload or a log line, unless a property is
  about it.

## Plan

Steps 1 to 7 are done: `SyncContract` and `CloudSync`; `SessionHub` and its
proofs; `FlashSession`; `RemoteCan`; `UsbOtg`, `PassThru` and `EcuTools`;
catalog, plugins, sniffer, logger and VIN; `Accounts`. What is left, in this
order:

1. An abstract specification of a flash that is atomic from the outside,
   refuted by resumption, and one of what a run from block 0 promises,
   implemented.
2. `Accounts` composed with `CloudSync`: a role that is missing and a token
   that expires are one refusal there (`Deny`).
