# Verification of the LeEco S2 device repository

This directory is a TLA+ development of the programs in the device tree
`android_device_leeco_s2`. It starts with the part that configures the IPA (the
hardware that forwards and translates packets past the CPU): the NAT driver
library, the NAT application and the conntrack listener that feeds it, and the
event framework all of ipacm runs on. It goes on with the state machine of the
camera HAL and the channels of the camera stack below it and, of the location
services, with the AGPS data connections and the tracking sessions.

Sources are named from the root of the repository; `ipacm/` and `ipanat/` below
stand for `data-ipa-cfg-mgr/ipacm` and `data-ipa-cfg-mgr/ipanat`.

## 1. The system

### 1.1 Components

| Component | State it keeps | Operations | Talks to | What is hard |
|---|---|---|---|---|
| ipanat (`ipanat/src/ipa_nat_drv.c`, `ipa_nat_drvi.c`) | base and expansion tables of rules and of index entries shared with the hardware, software links (`prev`), rule count, table handle | add/delete table, add/delete rule, read time stamp | IPA hardware (DMA writes), NatApp (calls, under `nat_mutex`) | the hardware reads the tables between any two DMA writes; a write may fail |
| NatApp (`ipacm/src/IPACM_Conntrack_NATApp.cpp`) | cache of connections, `curCnt`, power-save list, temporary list, table handle, current and previous public address | AddTable, DeleteTable, AddEntry, CacheEntry, DeleteEntry, Update/ResetPwrSaveIf, DelEntriesOnClntDiscon, DelEntriesOnSTAClntDiscon, Add/Delete/FlushTempEntries, UpdateUDPTimeStamp | ipanat and the PCIe modem (calls), the listener | cache, driver and modem must agree after refused calls; the cache outlives the table |
| Conntrack listener (`ipacm/src/IPACM_ConntrackListener.cpp`) | WAN up, WAN address, NAT and non-NAT clients, targets behind the station interface | WAN up/down, client and target add/delete, TCP/UDP messages | NatApp (calls), the dispatcher (events), the kernel's conntrack | connections, clients and the WAN come and go in any order |
| Conntrack client (`ipacm/src/IPACM_ConntrackClient.cpp`) | netlink handles, UDP time-out thread | read TCP/UDP events, refresh UDP time stamps | dispatcher, NatApp | a second thread in the NatApp cache, without a lock |
| Event queue and dispatcher (`IPACM_CmdQueue.cpp`, `IPACM_EvtDispatcher.cpp`) | two linked lists of messages, the list of registrations | PostEvt, Process, ProcessEvt, registr, deregistr | every thread posts; one thread handles | callbacks change the list that is being walked |
| Interface manager and instances (`IPACM_IfaceManager.cpp`, `IPACM_Lan/Wlan/Wan.cpp`) | instances, categories; filtering, routing and header rules per instance | link up/down, addresses, clients, WAN up/down | dispatcher, kernel | instances delete themselves by events to themselves |
| Offload manager, IPA HAL (`IPACM_OffloadManager.cpp`, `hal/`) | upstream and downstream caches, registered clients | framework calls | dispatcher, framework | calls of the framework against link events |
| Neighbour table (`IPACM_Neighbor.cpp`) | bounded cache of neighbours | new/del neighbour, client MAC | dispatcher | replacement when full |
| Camera HAL1 (`camera/QCamera2/HAL`) | state machine, its two queues and the list of results, channels, post-processor, pending parameters | preview, record, snapshot, live snapshot, parameters, message types | framework (calls, blocking on a result), camera stack and notifier (events) | calls overtake events; eight states each start and stop channels themselves; callers wait for a result by name |
| Camera HAL3 (`camera/QCamera2/HAL3`) | streams, buffers, pending requests | configure, request, flush, results | framework, camera stack | ownership of buffers, abort in mid-request |
| Camera stack (`camera/QCamera2/stack/mm-camera-interface`) | stream and channel state machines, references to buffers, superbuffer queue, command queues of the threads | start, stop, queue buffer, request, cancel, flush, match, dispatch | kernel (poll threads), HAL | several threads hold one buffer; loops over a queue that trust a counter |
| JPEG stack (`camera/QCamera2/stack/mm-jpeg-interface`, `mm-image-codec`) | sessions and jobs | encode, abort | HAL, codec | callbacks against abort |
| AGPS (`gps/gnss/Agps.cpp`) | state and subscribers per network interface | request and release of a data connection, open, failed, closed | modem (requests), framework (connection), the adapter's message task | answers carry no request and may belong to an earlier one |
| GNSS adapter (`gps/gnss/GnssAdapter.cpp`) | clients, time- and distance-based sessions, deferred messages | start, update, stop tracking, client removal, engine up | modem's LocApi (requests with continuations), clients, message task | one fix serves all time-based sessions; continuations run after later commands |
| Location API, core, batching, geofences (`gps/location`, `gps/core`, …) | client map, session of each client, system status | the API calls | adapters | callbacks after removal |
| Location utilities (`gps/utils`) | message queue, timers, threads, IPC | send, receive, unblock, start/stop timer | all of gps | stop against expiry, unblock against receive |
| Amplifier, IR, fingerprint, settings, configuration | none worth a model | | | sequential or data only |

### 1.2 What makes each component correct

* ipanat: while rules are inserted and deleted, the hardware finds every rule a
  client holds, and only those; handles keep their meaning; nothing leaks.
* NatApp: an enabled entry is translated and the driver translates nothing else;
  no connection is inserted twice; counts match; a restored table has every
  connection of a client that is awake.
* Conntrack listener: the table follows the WAN; what a closed connection or a
  departed client left behind is removed; the lists of clients are lists.
* Event queue and dispatcher: no event is lost, overtaken or left waiting; the
  walk stays on registered nodes.
* Interface manager: once events are handled, each interface has the instance
  the events ask for.
* Camera: every call returns and every picture ends; channels stream what the
  state says; a buffer has one owner; a request gets each result once.
* AGPS: a data connection is held for somebody and given back after the last;
  every request is answered.
* GNSS sessions: client, maps and engine agree on what runs; every command is
  answered once. Utilities: a stopped timer does not fire.

## 2. Modules

| Module | Models | EXTENDS / refines |
|---|---|---|
| `NatTable` | what a client of ipanat is promised | – |
| `IpaNat` | `ipa_nat_drvi.c`, `ipa_nat_drv.c` | refines `NatTable` |
| `IpaNatProofs` | theorems about `IpaNat` | `IpaNat`, TLAPS |
| `NatApp` | `IPACM_Conntrack_NATApp.cpp` | – |
| `NatAppProofs` | theorems about `NatApp` | `NatApp`, TLAPS |
| `ConntrackListener` | `IPACM_ConntrackListener.cpp` | `NatApp` |
| `ConntrackListenerProofs` | theorems about `ConntrackListener` | `ConntrackListener`, `NatAppProofs` |
| `EventQueue` | what the event queue promises | – |
| `CmdQueue` | `IPACM_CmdQueue.cpp`, `PostEvt` | refines `EventQueue` |
| `CmdQueueProofs` | theorems about `CmdQueue` | `CmdQueue`, TLAPS |
| `IfaceManager` | dispatcher, interface manager, life of instances | instantiates `EventQueue` |
| `IfaceManagerProofs` | theorems about `IfaceManager` | `IfaceManager`, TLAPS |
| `CamStateMachine` | `QCameraStateMachine.cpp` and what `QCamera2HWI.cpp` does for it | – |
| `CamProofs` | theorems about `CamStateMachine` | `CamStateMachine`, TLAPS |
| `MmChannel` | `mm_camera_channel.c`, the streaming part of `mm_camera_stream.c`, `mm_camera_thread.c` | – |
| `MmChannelProofs` | theorems about `MmChannel` | `MmChannel`, TLAPS |
| `Agps` | `Agps.cpp`, the data-connection messages of `GnssAdapter.cpp` | – |
| `AgpsProofs` | theorems about `Agps` | `Agps`, TLAPS |
| `GnssTracking` | the tracking sessions of `GnssAdapter.cpp`, the tracking calls of `LocationAPIClientBase.cpp` | – |
| `MC…` | small instances of the above for TLC | |

Definitions marked "mistake" are not part of any specification. Each is what the
definition after it would be with a plausible error, kept to show that the
properties notice it.

### 2.1 IpaNat

`tbl`, `idx` and `meta` are the rule table (base and expansion as one range of
entries), the index table and `index_expn_table_meta`. `ruleId` is the handle
each rule was given out under; `op` is the driver call in progress with the DMA
writes it still has to make. One step is one DMA write (`DoWrite`) or the
computation between two ioctls; since the hardware may look up a packet between
any two of them, `Inbound` and `Outbound` evaluate the hardware's walk in every
state. `DmaMayFail` lets any write be refused, after which the driver takes the
error path of the code. Connections are model values; their hashes are
parameters, chosen so that chains of several rules share buckets.

The contract with the client (`AddRule` is not called for a connection that is
already held) is what `NatApp!HeldOnce` says of the only client, which is proved (section 4). All calls are
serialised by `nat_mutex`, so one call is in progress at a time.

A handle is the first free place of `rule_id_array`, as `ipa_nati_make_rule_hdl` finds
it, and what is stored there is the number of the rule in its table and which of the two
tables it is. `DelRule` goes no further than `ipa_nati_parse_ipv4_rule_hdl` lets it,
which refuses the last handle the search can reach, and whose callers refuse the
number 0 (`Accepted`). That no handle in use is such a one is part of `HandlesSound`.

Left out: failures of open, ioctl, mmap and the mutex while a table is made or
freed, the check of PDN 0, the packing of rule ids, the rule counters (`cur_tbl_cnt`,
`cur_expn_tbl_cnt`), failed `malloc`. A deleted
table is reset when it is deleted, not when the next one is added; no lookup
happens in between.

### 2.2 NatApp

`cache`, `curCnt`, `temp`, `pwr`, `pubIp`, `pre`, `tblHdl` are the fields of the
class. `up` and `owner` are the driver as `NatTable` describes it; `modem` is the
set of filter rules in the PCIe modem. An operation is one step, with every
outcome of the calls it makes; `FlushTempEntries` is one step per entry since
each calls `AddEntry`. `Faults` names the calls that may fail beyond a full
driver table.

`PwrSaveIfs` and `pub_ip_addr_pre` are not set by the constructor: Init lets them
be any address. The run `listener`, which only needs them zero, starts from
`MCSpecZeroed`; `natapp` and `natapp_faults` from any memory. Ports, protocol, PDN and time stamps are folded into the
connection; `public_ip` of cached entries, which no other operation reads but
`UpdateUDPTimeStamp`, and the pass-through mode are left out.

### 2.3 ConntrackListener

EXTENDS `NatApp`: the listener is its caller. `wanUp`, `wanIp`, `natIfs`,
`nonNatIfs`, `sta` and `staCnt` are the fields of the class; `alive` is the
kernel's set of connections, which are opened and closed in any order and not
announced twice while open. `reup` marks the two steps of `TriggerWANUp`, which
calls `TriggerWANDown` first when the address changes. A connection is local,
and ignored, when its private address is the WAN's (`Local`), and ignored as well when
it is a public address the WAN no longer has (`Stale`). `wan_ipaddr` and
`backhaul_mode` are uninitialised until the first WAN_UP, which every reader of
them waits for. The lists of addresses are arrays with holes, as in the code: where an
addition stops and whether a removal takes one or all is what the properties
about them depend on.

### 2.4 CmdQueue and EventQueue

All accesses to the lists are between lock and unlock of one mutex, so the code
between a lock and the next unlock or wait is one step. Messages are memory that
is reused (the model has memory for a fixed number of messages); `tail` is never cleared and may point to a deleted message.
`pthread_cond_wait` may return spuriously (`Leave`), but only a signalled one is
owed its return (`WakeUp`).

### 2.5 IfaceManager

The listener list is a sequence of registrations; `cur` is the pointer the walk
of `ProcessEvt` follows next, copied from the node before its callback ran.
Callbacks that do not match are skipped in the same step, as nothing changes
while they are. Posting is modelled for all link events on all interfaces, from
any thread and in any order. `asked` is a history variable: what the events
posted so far add up to for each interface. `deregistr` takes out every node of an
instance; `Delete` cuts them out as one block, which is what they are:
`ListMatchesInstances` says so in every state before, and is proved.

This is the Android build (`ipacm/src/Android.mk`: `FEATURE_IPA_ANDROID`,
`FEATURE_IPACM_HAL`, `FEATURE_ETH_BRIDGE_LE`). In it `IPA_CFG_CHANGE_EVENT` is
never posted, since `firewall_monitor` is not started (`IPACM_Main.cpp:989`); the
mode switch of LAN and of ECM WAN instances belongs to the other build. Left
out: eMBMS, ODU and Ethernet instances, interfaces without IPA properties, a
third access point. Registrations stand for those of the code that matter to
the order: one event handled without effect (`ADDR_ADD`), then the ones that
change an instance's life.

### 2.6 CamStateMachine

`cam` is what the state-machine thread reads and writes: the state, the channels
(none, added or started), the post-processor (`pp`), how far the picture has come
(`pic`), the live-snapshot thread (`live`), the ZSL mode and the recording hint with
their pending values, message types and long shots. `api` and `evts` are the two
queues, `results` is `m_apiResultList`, `call` what is left of the application's
call (some calls of `QCamera2HardwareInterface` post several), `woken` that `m_cond`
was broadcast since it waits. One step is one message handled, as only one thread
handles them; a handler that must join the live-snapshot thread waits for it.
`StateMachine` serves `api` before `evts`, as `QCameraStateMachine.cpp:71` does.
`Faults` lets streams fail to be configured or started, `EarlyRestart` is
`persist.camera.feature.restart`. A live snapshot fails in two ways: its thread posts
CANCEL_PICTURE, or, when the online rotation cannot be configured, stops the
post-processor and tells nobody (`QCamera2HWI.cpp:5027`). START_PREVIEW in READY is
answered NO_ERROR also when the preview did not start (`QCameraStateMachine.cpp:948`).

Left out: queries, auto focus, faces, histograms, thermal events, the
retro-active burst, the muxer's second camera, raw pictures, deferred work, and
live snapshots in low-power mode, which are frames of the video channel
(`QCamera2HWI.cpp:5016`).

### 2.7 Agps

`sm` holds a machine (state, subscribers and those of them that are inactive) per
interface; `queue` is the adapter's message task, `calls` what the framework has
been asked and not done, `net` its connection, `modem` what the modem knows of each
handle, `said` the statuses reported in the last step. `processAgpsEvent…` are the
four handlers of `Agps.cpp`. `WaitForClose` is a parameter: no caller passes
`mWaitForCloseComplete`, so it is empty in the run, but the state RELEASING it
leads to is in the module and under the theorems. `handleModemSSR` has no caller
and is left out, as are the APN and the bearer: a bad APN is the action
`OpenedBadApn`. A release names the type of the latest requester (SUPL or
SUPL_ES), which the model does not tell apart.

### 2.8 GnssTracking

`client` is `LocationAPIClientBase` (its last session, `mTracking`), `reg`, `queue`,
`pend`, `known` and `sess` are the adapter's clients, messages, deferred messages,
`mIsEngineCapabilitiesKnown` and its two maps. `api` are the requests to the engine,
each with the continuation (`then`) that the code passes as a lambda; `engine` is
what runs. The engine is external: it takes requests in order, any time after
they are made, and its answers are messages as `LocApiResponse` makes them.
`opens` are the messages of `LocApiBase`'s own thread, which opens the engine at the
start and after a restart: it runs beside the adapter's thread, and only an engine
that opens is announced. `Mute` are clients that may be registered without a tracking
or measurement callback. `owed` counts the commands of a session not answered yet,
`refused` are sessions whose start was refused, of which nobody is told. Options have an
interval, a distance and a power mode; the minimal interval and the fallback from
M4 to M2 change an option before anything else is done with it and are left out,
as are `mPowerOn`, which says whether a map has an entry, and the engine hub. A
number of a session is its client's own, as numbers are never shared.

### 2.9 MmChannel

One channel with its streams. `queued` and `refs` are `queued_buffer_count` and
`buf_refcnt`, by the frame that is in the buffer; `poll` is what the poll thread has
read and not handed on, `cmds` and `frames` are the queues of the channel's command
thread and of the streams' threads, `using` and `out` what callbacks and the HAL
hold. `ch` is `mm_channel_t` with its superbuffer queue, as a sequence. The
operators of the queue take a channel and return one, with the buffers to give
back (`back`) and the superbuffers to send (`sent`), so that `ChannelStep` is the
handling of one command from `mm_channel_superbuf_comp_and_enqueue` or a request
to the loop that dispatches. `spins` marks a loop that would not end. `call`
follows the HAL's call: streams start and stop one after the other while the
threads run, and a flush waits for the command thread.

The kernel skips frames as it likes. Metadata announces that the picture is
prepared, now or later, which frames are good, and diverted frames. The callback
thread's queue is part of `out`. The HAL gives up what it holds before the channel
is stopped, as the comment at `mm_camera.c:568` assumes, and deletes a channel with
a callback before it starts one like it.

Left out: linked streams and frame synchronisation, bracketing, flash, zoom,
configured and instant capture, batch mode, synchronous callbacks, buffers that
are mapped late, frames numbered 0 (given back at once), a change of the notify mode
(`MM_CAMERA_CMD_TYPE_CONFIG_NOTIFY`: nothing in HAL or HAL3 calls
`configure_notify_mode`), and failing `malloc`.

## 3. What is checked

| Run | Bounds | Shows |
|---|---|---|
| `ipanat` | 4 connections, 4+4 entries | the hardware sees every held rule and no other while rules are inserted and deleted one DMA write at a time; links agree, nothing leaks, the driver implements `NatTable` |
| `ipanat_faults` | 4 connections, 4+2 entries, all of which fill, writes fail | handles stay sound, also of the last entries, and keep their meaning |
| `natapp` | 2 clients, 2 public addresses, 2 cache slots, 1 temporary, 1 power-save slot, no faults | cache, driver and modem agree; a restored table has the connections of all clients awake and a finished flush is complete |
| `natapp_faults` | every driver call may fail, 2 connections, 1 public address, no downlink connections (the modem is not called) | the cache stays sound: its count, no duplicates, enabled entries are held |
| `listener` | a NAT client, a non-NAT one, 2 targets, 2 public addresses, 1 cache slot, 1 temporary; the power-save list is full | the table follows the WAN; nothing of a NAT client's connection survives it |
| `cmd_queue` | 3 events, memory for 3 messages | lists and wake-ups implement `EventQueue` with its fairness: no event is lost, overtaken or left waiting |
| `iface_manager` | USB, modem and WLAN, 1 external event waiting | no event lost, the walk stays on registered nodes, also where an instance is created or deletes itself in mid-walk; closing ends |
| `cam_state_machine` | every call, six of them also while an event waits (`Hurried`), `MaxStale` 0, `MaxStops` 1, parameters that restart the preview in STOPPED, READY and PREVIEWING | channels fit the state, the post-processor works for its own picture, no message type is lost, calls return, undisturbed pictures of streams that work end |
| `cam_rejected_params` | as above, no faults, parameters in RECORDING | violation, see 5 |
| `mm_channel` | 2 streams with 2 buffers, 3 frames per start, 2 starts, 1 request or flush; a ZSL channel, a snapshot channel of one stream and a plain one; metadata announces nothing or all at once; requests for two superbuffers | a buffer has the references it has holders; the queue is what its loops rely on; superbuffers are whole and newer; calls return and buffers come back |
| `agps` | 2 handles, 1 interface, `MaxBacklog` 3 | a connection is held for somebody and given back; answers are due, requests are answered |
| `gnss_tracking` | 2 clients with 1 session each, one of them perhaps mute, the other may leave, 4 commands, 1 restart, `MaxBacklog` 2, requests and openings fail | clients, maps and engine agree at rest; every command for which the code has an answer is answered once |

Why the bounds suffice. Four connections over two buckets make chains of a base
rule and two expansion rules, so heads, middles and tails are deleted, and dead
heads revived. In `ipanat_faults` the hashes differ, so that four rules fill all of a
smaller table and the last expansion entry is given out. Two cache slots and two clients make a full cache and an entry of
another client beside the one concerned; a third connection would repeat the
second. One temporary and one power-save slot make both lists full. Three
messages make a queue of two with one in process, so that tail and head differ
and memory is reused. One waiting external event is enough in `iface_manager`:
callbacks neither read the external queue nor post to it, so an event posted
behind another is handled as if it had been posted when its turn came. It may
still arrive before, during or after any callback, and so before or after the
internal events that callback posts. Three instances are all that three
interfaces can have. In `listener` the power-save list has no free slot; lists
with one are in `natapp`, where clients sleep, leave and return in every order.

In `cam_state_machine` the calls that start and stop previews, recordings and
pictures are also made while an event waits (`Hurried`), so that SNAPSHOT_DONE is
overtaken by any sequence of them. The others (message types, parameters, long shots,
the window, queries) are made when no event waits, which keeps the run short; the
theorems hold for all of them. The notifier posts the next event only when the last is handled, and PREP_SNAPSHOT_DONE
only follows a call. Results left unread (`MaxStale` 0) would
let a call return early; the application of the run asks for a picture only when
there are none. In `agps` two handles are a last and a second-last subscriber; a
backlog of three holds a request, its release and an answer. One interface is
what `AGnss.cpp` registers. In `gnss_tracking` four commands of two clients are a
session joined, changed and left by another, or one driven through a switch and
stopped; a backlog of two lets a command overtake the answer of the one before. Each
client starts once (`MaxStarts` 1): what a later session of the same client meets is
in the list of section 5. Options of size 0 are refused by the same branch as a
missing callback, and are not in the run.
In `mm_channel` all streams of a channel have a callback of their own, as
`QCameraStream.cpp:2553` registers them; three frames on two streams make a matched superbuffer between
unmatched ones, a water mark of one and one unmatched frame make both lists full,
and two starts let what is left of the first meet the second; the snapshot channel
has the image stream only, as in the HAL. Other announcements and requests are covered
by the theorems. The model was also explored with three
streams, other marks and longer runs; only a low-priority channel of three streams,
which nothing adds, gave other results (section 4).
`GnssTracking` allows for an engine without distance-based tracking and for more
sessions; on those see section 5.

`CHECK_DEADLOCK` is off in `gnss_tracking` and `mm_channel` only, where the bounds on
commands, restarts, starts and frames let everything come to rest. `MaxPosted` bounds external events waiting
in `IfaceManager`; `PostSsr` waits for an empty internal queue.

Fairness, always weak: threads that never exit get the mutex and the processor,
and callbacks return. In `CmdQueue` and `IfaceManager` it is that of the steps of
the command-queue thread (`CmdQueue!Fairness`, `IfaceManager!Spec`); external
events may still wait for ever if callbacks keep posting internal ones, as in
`EventQueue`. In `CamStateMachine` it is that of the
state-machine thread, of the caller that is woken, of the live-snapshot thread
and the notifier, and of the hardware: it gets ready and delivers a frame of a
capture that streams. In `Agps` it is that of the message task, and of the framework, which
takes its calls and settles a connection it is opening. In `GnssTracking` it is
that of the message task, of the thread that opens the engine and of the engine,
which answers what it is asked. In
`MmChannel` it is that of the threads, of calls that have begun and of the HAL that
gives buffers back: one condition for all of them, as each comes to the end of its
work and leaves the processor to the others. The kernel need not deliver. No
thread, application, modem or client is obliged to ask for anything. The other
modules state safety only.

Each property is stated by one run, the one where it is hardest to keep; `natapp_faults` and `ipanat_faults` state what survives failing calls,
and the theorems of section 4 hold with failures and without.

## 4. What is proved

`IpaNatProofs` proves for every set of connections, every hash and every size of
the tables:

* `TypeCorrect`: `Spec => []TypeOK`.
* `HandlesAreSound`: a held handle is one the parser of handles accepts and names an
  enabled, valid rule, and two handles never stand for one rule, with and without
  failing writes. The parser's bound is one handle short of the search's; that handle
  is never given out because entry 0 of neither table holds a rule, so that there
  are more handles below it than rules, which is a counting argument
  (`FreeHandleIsParsed`).
* `CallsAreConfined`: the call in progress touches only its own entry.
* `HandlesMeaningKept`: from insertion to deletion a handle means the same
  connection.

The inductive invariant is `TypeOK /\ HandlesSound /\ CallOk`. `HandlesSound` alone
is not inductive: an insertion enables its entry with its last write, and only
`CallOk` says that no handle names the entry before and that no pending write of
the call disables another rule. The action property follows from the same
invariant. The hypotheses are the named assumptions of `IpaNat` (sizes are
natural numbers, hashes are in the base table).

`NatAppProofs` proves for every size of the cache and the lists, every set of
connections and addresses, and every choice of failing calls:

* `TypeCorrect`: `Spec => []TypeOK`.
* `CountIsExact`: `curCnt` is the number of cached connections.
* `CachedOnce`: no connection is cached twice.
* `EnabledHeld`: an enabled entry has its own rule in the driver.
* `CacheAlwaysSound`: the three together, as the run `natapp_faults` checks them.

and, for as long as the calls that each names succeed (others may still fail):

* `HeldEnabled` (`DeletesSucceed`: deletions of rules and of the table): every rule
  of the driver is that of an enabled entry.
* `HeldOnceOnly` (`DeletesSucceed`): no connection has two rules.
* `ModemFollowsCache` (`ModemDeletes`: the modem and the deletion of the table): the
  modem's filter rules are those enabled entries record, one each.
* `RestoredAll` (no insertion is refused and the driver has room, `RoomForAll`):
  no cached connection is lost when the table returns with the address it had, and
  those of clients that are awake are translated again. One of a client in power save may
  or may not be (section 5).
* `FlushedAll` (`DriverReliable`, `RoomForAll`): a connection that still waits when its
  flush ends is one `AddEntry` could not take.

The invariant is the form of the variables with `CountMatches`, `NoDuplicates` and
`EnabledAreHeld`. They need each other: only because keys are unique do two
enabled entries have two handles, so that forgetting the rules of some entries
leaves the others held (`RulesLeave`); only because an entry is held before is
its handle not among the free ones an insertion gives out (`OffloadStep`). Each
operation is one of these two lemmas, or adds a disabled entry first
(`NewEntry`). `HeldEnabled` adds that the table handle is known while a table
exists; without `DeletesSucceed` it is false, since `DeleteEntry` drops an entry
whose rule the driver kept and `AddTable` loses the handle of a table it could
not delete. `ModemFollowsCache` needs in addition that a filter rule is only
recorded for a downlink connection of an entry that is enabled, under the backhaul
mode that is also current when it is removed (`FiltersIn`): the mode may only change
without a table, hence without enabled entries. `FlushedAll` needs that the entries
the walk has passed were refused for a reason that still holds (`PassedAreRefused`).
The other hypotheses are the named assumptions of `NatApp`.

`ConntrackListenerProofs` builds on it, since the listener's actions are `NatApp`'s
operations with arguments. For every number of clients and targets it proves:

* `ListenerTypeCorrect` and `ListenerKeepsCache`: its lists and counters keep their
  form, and `CacheSound` holds below it, whichever calls fail.
* `WanKnowsTable` (`TableCallsSucceed`: tables are made and deleted when asked): the
  WAN is up exactly while there is a table for its address. In the middle of
  `TriggerWANUp` with a new address there is none (`WanKnown`).
* `ClosedForgotten` (`DeletesSucceed`, and `NatClientsArePrivate`: clients of the NAT
  configuration have private addresses, none of them the WAN's): nothing is cached,
  translated or waiting for a connection of NAT clients that is closed. The
  invariant (`TrackInv`) is that an entry of such a connection has the key its
  closing will ask for, in the cache and in the temporary list, that it is in
  the latter once, and that the flush in progress carries none of them.

`CmdQueueProofs` proves, for every memory and every set of events:

* `TypeCorrect`: `Spec => []TypeOK`.
* `QueuesAreFifo`: the safety part of the refinement of `EventQueue`. Each list holds
  a sequence of distinct nodes in memory that nothing else links to
  (`QueuesHold`); an enqueue appends to it although `tail` may be stale, a dequeue
  takes its head, and the other list is not touched as the nodes are disjoint.

`IfaceManagerProofs` proves for every set of interfaces with any categories in the
configuration, any memory for instances and any number of waiting events:

* `TypeCorrect`: `Spec => []LifeTypeOK`.
* `AlwaysListed`: `ListMatchesInstances`, with it that `ProcessEvt` never goes on from a
  registration that was freed.
* `AlwaysDeletedOnce`: `ClosingIsDeletedOnce`.
* `AlwaysSettlesAsAsked`: `SettlesAsAsked`, that no link event is lost.

None of the last three is inductive, and they hold only together. The list is the
manager's four registrations and then one block for each instance (`ListShape`). The
walk survives a callback that deletes the block it stands in because an instance
deletes itself only at the last node of its block: for a LAN or WLAN instance that is
the event to itself, for a WAN instance the link-down event (`VisitDoes`). This needs
that an event an instance deletes itself by is always met by that instance, hence
that a closing instance has one event to itself and that it is ahead of the walk
(`ClosesOnce`); and that no link event is handled while an instance closes, save the one
that closes it (`NoneCloses`), which holds because the internal queue is served
first. `SettlesAsAsked` needs what is still owed to each interface: the event in
progress has had its effect or the registration that will have it is ahead (`Due`),
and the events that wait lead from there to what was asked (`Trace`, a sequence of states,
so that no recursion is needed). One visit of the walk is abstracted into four
kinds, `Quiet`, `Creates`, `Deletes` and `Closes`, and each keeps the invariant. The
hypotheses are the named assumptions of `IfaceManager`.

`CamProofs` proves for every `Hurried`, every bound on results and stops, and for every
`Faults` and `EarlyRestart`:

* `TypeCorrect` and `NoneLost`: `TypeOK` and `NoMessageLost`, whatever fails and
  whatever the application reconfigures.

and, if parameters that restart the preview are changed only in STOPPED, READY and
PREVIEWING (the hypothesis on `Reconfigure`; section 5 says what happens otherwise):

* `StreamsFit`: `StreamsFitState`.
* `PictureOurs`: `PictureIsOurs`.

What makes this hard is that neither is about one handler. `StreamsFitState` needs
the channels of all states (`Shape`), and this needs that no handler of a call runs
between a SET_PARAMS that changes the mode and its COMMIT_PARAMS (`Window`), which in
turn rests on the application having at most one call in the queues or in the list of
results, under the name it waits for (`CallsInTurn`). That a STOP_CAPTURE_CHANNEL
posted without waiting meets its own picture rests on a long shot, a recording or a
ZSL preview not being able to leave PIC_TAKING behind its back, and must be shown
when streams fail, where `Shape` is lost: `Mode` is what remains of it. `IInv` has
both, each under its hypothesis. One turn of the machine is followed three times,
operation by operation through the eight states: `HandleSteps` (channels),
`HandleDrives` (mode) and `HandleSpeaks` (queues); the threads that feed it are one lemma, `FeedKeeps`.

`AgpsProofs` proves for every set of handles and interfaces and, but for the last,
every `WaitForClose`, so that RELEASING is covered:

* `TypeCorrect`: `Spec => []TypeOK`.
* `AlwaysHeldForSomeone`: a machine that asks for or holds a connection has an
  active subscriber and a released one has none.
* `AnswersAlwaysDue`: `AnswersAreDue`, an action property.
* `ConnectionsAlwaysReturned`: `ConnectionsReturned`, if `WaitForClose` is empty:
  `requestATL` subscribes with `waitForClose` false (`Agps.cpp:592-593`). That is also
  what the run checks; other values lead through RELEASING, which is not covered here.

The invariant of the first two is `TypeOK`, `HeldForSomeone` and that inactive
subscribers are subscribers: without the last, a machine whose active subscribers are
exactly the list could be left with an inactive one that is not on it, and the
test for the last active subscriber would be wrong. Each handler keeps it for its
machine, and the other machines do not change.

`AnswersAlwaysDue` needs what the modem thinks of a handle for every place the handle
can be in (`DueInv`): its request is in the queue, once, and nobody's subscriber has
it (`AskedOf`); or it is a subscriber of one machine, active or not, and the
machine's state says what the modem can have been told (`SubscribedOnce`, `Place`). GRANTED names no request, so
that a request made again may be answered by what was meant for the one before: this
is an answer to something asked for, and what is wrong with it shows in
`ConnectionsReturned`.
A release that is still in the queue may be behind a request or alone.

`ConnectionsAlwaysReturned` follows an interface from request to close (`Returning`):
a machine that wants its connection has one request with the framework or its
answer in the queue, never both, and hears of no end that has not come; a released
machine has asked for the end of what there is. Interfaces where a request overtook
an answer (`overtaken`) or a bad APN was reported (`spoilt`) are excepted, as in the
property, and the proof shows where they get into those sets. The hypotheses are the named assumptions of `Agps`.

`MmChannelProofs` proves for any finite set of streams, any channels, metadata and
requests, and any number of buffers, frames and starts:

* `TypeCorrect`: `Spec => []TypeOK`, with it that the command thread's queue holds no
  more than the streams' buffers and the requests made.
* `ReferencesCorrect`: `BuffersHeld`.
* `QueueCorrect`: `QueueSound`.
* `FramesCorrect`: `FramesMatch`, for each superbuffer the HAL gets.

`BuffersHeld` speaks of six holders and of counts, and is not inductive. The invariant
(`IInv`) gathers the holders in two sides, as a buffer is counted once for each side
that uses it: `ChainBufs` (command queue, superbuffer queue, HAL) and `UserBufs` (poll
thread, the stream thread's queue, callback). In each side a buffer has one place (`ChainApart`,
`UserApart`); what anybody holds is older than the kernel's next frame (`Old`), so
that a frame read is new to both; the references are the number of sides
(`Counted`). A step then moves buffers within a side, or takes a set of them out of
one and gives up a reference for each (`DoneCounts`). For the superbuffer queue this
means that each of its operators neither loses a buffer nor has one twice, in
the queue or among those given back (`Keeps`, from `FlushKeeps` to `DispatchKeeps`):
the lemmas on cutting, filling, merging and inserting into the list of superbuffers
are the larger part. `Phase` says which
streams can run where the HAL's call is, so that references are reset only when
nobody holds a buffer; `Flushing` that a flush is in the queue only while its caller
waits.

`QueueSound` and `FramesMatch` rest on a second invariant (`Ordered`, with `IInv` in
`OrderInductive`). The queue is `Ranked`: its complete superbuffers are exactly the
first `match_cnt`, its numbers grow, and a superbuffer holds its own frame of a
stream or none of it (`Even`). That a superbuffer completed takes its place behind the
complete ones follows from what `Join` discards, the older incomplete ones; that a new
one is not put before a complete one, from the order of arrival (`Fifo`): a
stream's frames reach the thread in order and behind all that is in the queue or with
the HAL, so that a complete superbuffer, which holds a frame of every stream, is older
than any frame that comes (`Above`, `OutIsOlder`). `Sized` bounds the incomplete ones:
an insertion adds one and, of too many, removes one, so that the loop that makes
room runs once. As `match_cnt` counts the leading ones, `DropTo` never asks for more
than there are and does not spin. `Limit` is what remains after each command: the
water mark in burst mode, nothing in continuous mode, which never waits (`Steady`).
A stopped channel keeps a count of superbuffers it no longer has, which is why
`Begun` speaks of the others only.

The hypotheses are the named assumptions of `MmChannel`: streams are finitely
many, each has a callback of its own or is of a channel with one (`UsersAssumption`,
from `QCameraStream.cpp:2553`), and a channel of low priority has one stream
(`PriorityAssumption`: `addSnapshotChannel`, `QCamera2HWI.cpp:6595`, adds the only one).
The last is needed: in a low-priority channel of three streams, which nothing adds,
superbuffers filled with the closest frames are completed out of order, and neither
property holds.

Only model-checked:

* the hardware's walk over the tables (`HardwareSeesHeld`), `LinksAgree` and the
  refinement of `NatTable`: what a chain contains is defined by recursion, and an
  insertion changes it by induction over the chain, which the provers cannot do;
* the tracking sessions (`SessionsAgree`), which come next (section 6);
* liveness under fairness everywhere, which is outside what the provers can do.

## 5. Disagreements found

* `cam_rejected_params`: parameters refused during a recording because they need
  a restart stay pending, and the next COMMIT_PARAMS makes them current while
  the channels of the old mode stream.

Met while modelling, kept by no run:

* ipanat: when the enable of an expansion rule is refused, `ipa_nati_add_ipv4_rule`
  (1127) leaves the linked, disabled entry, and the next rule of the bucket can take
  the same entry and become its own successor, which `ipa_nat_drvi.c:1279` says
  must not be. This is why `ipanat_faults` states nothing about chains.
* Camera stack: `mm_channel_superbuf_queue_init` (2301) empties the list but leaves
  `match_cnt` and `pending_cnt`. A burst channel stopped with a matched superbuffer and
  started again would dequeue until `match_cnt` has fallen and never end. The HAL
  deletes such channels before it starts their like.
* NatApp: a client announced or waking while there is no table loses its cached
  connections (`ResetPwrSaveIf`). A table restored after a WAN change translates
  connections of clients in power save (1068), which `AddEntry` (452) would only cache;
  `RestoreIsComplete` asks for those of clients awake and forbids neither. A rule whose
  deletion fails stays in the driver when its entry is forgotten (370, 273), which no
  property denies: `HeldAreEnabled` holds where deletions succeed.
* Listener: the dummy rule of a non-NAT client survives its connection; a target
  behind a hole in the list is not found, and one announced again may be listed
  twice.
* Camera: in PIC_TAKING a COMMIT_PARAMS that changes the ZSL mode makes
  `cancelPicture` leave the capture channel running; one that restarts the preview
  in PREVIEW_PIC_TAKING loses the picture; a failure half-way through an advanced
  capture leaves the channel started while the state is STOPPED; with the early
  restart and a burst PREVIEWING may show nothing (`StreamsFitState` and
  `PictureIsOurs` are about the other cases, hence `Regular` and `Reconfigure`).
* Camera: a SNAPSHOT_DONE that waits while the application cancels, starts the
  preview and takes another picture is handled as the end of that picture
  (`QCameraStateMachine.cpp:71`), which then is never delivered. The run goes through
  it; `PictureEnds` says that a picture ends, not that it ends with a JPEG. A live
  snapshot whose rotation cannot be configured is never reported (above, 2.6) and
  leaves VIDEO_PIC_TAKING only when the application cancels or stops; `PictureEnds` is
  about streams that do not fail.
* AGPS: request, release and request again before the framework answers: GRANTED
  of the first is taken for the second, the CLOSED of the first releases the
  machine, and the GRANTED of the second finds it released and is ignored, so
  that the framework keeps a connection. `overtaken` marks the interfaces where
  this may happen, and `ConnectionsReturned` excepts them. A bad APN is reported
  as a closed connection (`GnssAdapter.cpp:4379`, "In case of failure reporting the
  same"), which a pending machine ignores (`spoilt`, excepted by `RequestsAnswered` and
  `ConnectionsReturned`).
* Tracking sessions, `SessionsAgree` excepts each of these by its premises
  (`upset`, from the first request that failed or was overtaken on; sessions of a
  client that left; the bounds), and so says nothing about what follows them:
  - `stopClientSessions` (2034) stops time-based sessions but does not erase them. A
    later start is then merged with one that does not run and is told SUCCESS
    while the engine does nothing.
  - a distance-based session updated and then stopped before the engine has
    answered is saved again by the continuation (2658): the stop was answered
    SUCCESS and the session runs on. A switch to time-based tracking (2622) does
    the same, and two updates can leave a session in both maps. A start that
    waits for the engine is sent again behind a stop that came later.
  - a failed update saves the old options of a session stopped meanwhile (2545);
    a failed start leaves those that joined it unserved.
  - with three sessions the power mode of a joined fix is that of the session with
    the shortest interval, not the best one (2487).
  - on an engine without distance-based tracking the switch of a lone session to
    distance stops the fix and saves it as a time-based one (2617-2633), which
    nothing serves.
  - a start without a callback or with options of size 0 is refused (2408-2412) and
    never reported, though `LocationAPI.h:67-72` says so. The engine that refuses to
    stop a distance-based session leaves its update unanswered (2650), and an
    engine that fails to open (`LocApiBase.cpp:99`, 121) leaves the commands that wait
    for it: `CommandsAnswered` names these three and demands an answer of all others.
  - a session made slower than the others keeps the engine at the old pace.

## 6. Plan

1. Done: the driver, NatApp, listener and event framework; the HAL1 state
   machine and the channels of the camera stack; AGPS data connections; tracking
   sessions.
2. `NatArith`: hash, checksum, power-of-two and size functions of
   `ipa_nat_drvi.c` against reference definitions, with widths.
3. UDP time-out thread against the NatApp cache (statement-level interleaving).
4. Offload manager with its event cache; neighbour table; WAN up/down between
   WAN, LAN and WLAN instances.
5. Camera: linked streams and frame synchronisation of two channels, JPEG jobs and
   abort, the HAL1 post-processor, HAL3 pending requests.
6. Location: `msg_q`, `LocTimer`, the client map of `LocationAPI`, batching and
   geofences.
7. Theorems: `GnssTracking` (type correctness, then `SessionsAgree`).

Not planned: kernel request builders (filtering, routing, headers), netlink and
XML decoding, NMEA and EXIF text, vendor wrappers and configuration data. They
convert and forward, and keep no protocol of their own.
