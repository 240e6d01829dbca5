# deCONZ in TLA+

deCONZ is the C++/Qt program that drives a Zigbee coordinator: a stick or a board whose firmware owns the
radio, reached through a serial port. This directory holds TLA+ modules of the parts of deCONZ that decide
what is sent, what is waited for and what is given up, the TLC configurations that check them on small
instances, and proofs that TLAPS checks.

Paths below are relative to the repository; most files lie in its `src/`. `PROJECT.json` maps every
definition that models code to the lines it models, lists the components, the runs, the hazards and the
theorems, and for each property a change of a definition under which it fails.

To check a module: `tlc -config QueueRing.cfg MCCommandQueue.tla`; to check a proof:
`tlapm CommandQueueProofs.tla`. The community modules and the library of TLAPS must be in the search path.

Contents: [the system](#the-system), [the modules](#the-modules), [the runs](#the-runs),
[fairness](#fairness), [what is proved](#what-is-proved), [what the checks found](#what-the-checks-found),
[what is not modelled](#what-is-not-modelled), [plan](#plan).

## The system

```
   plugins, REST API (external)     MainWindow and its widgets
            |   apsdeDataRequest          |  connect, disconnect, leave ...
            v   apsdeDataConfirm          v
   +---------------------------- zmController ----------------------------+
   |  m_apsRequestQueue   nodes   fetch items   zombies   binds   links   |
   |  source routes       node database (SQLite)       device state       |
   +----------------------------------------------------------------------+
        |  apsdeDataRequest(id), startNetwork, readParameters ...     ^  signals
        v                                                             |
   +------------------------------ zmMaster ------------------------------+
   |  q_aps: ids of APS requests     q_items: ring of 32 commands         |
   |  status bits of the firmware, task timer, 100 ms timeout timer       |
   +----------------------------------------------------------------------+
        |  SerialCom::send (frame queue)                  ^  COM_OnPacket
        v                                                 |
   +------------- SerialCom: main thread | PL_Thread0 (I/O) --------------+
        |                    framing: escape bytes, checksum
        v
   coordinator firmware (external)
```

Everything but SerialCom's I/O thread and the HTTPS proxy thread runs in Qt's event loop, one handler at a
time. What is hard there is not data races but *re-entrance*: a signal emitted in the middle of a handler
runs slots that come back into the same object, and *staleness*: status bits of the firmware, ids, pointers
and states kept from before.

### Components

For each: its state, its operations, how it interacts, what is hard, and what makes it correct.

**zmMaster, the command queue** (`zm_master.cpp`, `zm_master.h`). State: `struct zm_master` (the ring
`q_items` with its cursors `q_item_sp` and `q_item_wp`, the two counters `q_items_wait_send` and
`q_items_wait_confirm`, the 8-bit sequence number, the ring `q_aps` of APS request ids, the status bytes, the
count of failed commands), the state OFF, CONNECTING or IDLE, a task timer and a 100 ms timer. Operations:
open, close, queue a command (a dozen producers), `processQueue`, `sendNextCommand`, `handleTimeouts`,
`processPacked`. It tells zmController of confirms, indications, states and parameters by signals, and
`commandQueueEmpty` asks it for the next APS request in the middle of its own handlers. Hard: commands are
answered in order but may be lost; a command is sent twice at most; its number is reused; the firmware's status
bits say what to fetch while the query that fetches it may be under way; closing in the middle of a handler.
Correct if: the counters count; no two active commands share a number; at most two commands are in flight;
every command is sent or dropped; whoever waits for a dropped command hears of it; a connection that fails is
closed and left empty; what the controller believes of the network is what the firmware says.

**zmController, the queue of APS requests** (`zm_controller.cpp` 4050-4420, 4430-4960, 7620-7680, 7800-8040,
8360-8480). State: `m_apsRequestQueue`, a vector of requests that are Idle, Busy, Confirmed, Finish or Failure,
each with a timeout and maybe a delay. Operations: `apsdeDataRequest`, `sendNextApsdeDataRequest`,
`onApsdeDataConfirm`, `onApsdeDataIndication`, `timeoutTick`, `apsdeDataRequestDone`,
`clearAllApsRequestsToNode`. It hands ids to zmMaster and looks requests up by id when their turn comes.
Hard: confirms that come late, never, or for an id that is used again; four handlers that end a request in any
order; limits per node; urgent kinds that overtake. Correct if: ids are unique in the queue; a request is
not forgotten before its user was told; nothing starves; no node is flooded.

**zmController, ids of APS requests** (`nextRequestId`). An 8-bit counter that skips ids in use. Users may also
choose ids of their own.

**SerialCom** (`zm_master_com_serial.cpp`, Linux). State: the open port, a ring of received bytes, a queue of
frames to send, event bits, a flag `running`. Two threads share them under two mutexes that do not cover
everything. Hard: closing while the other thread starts, sends or receives; a full receive ring; lost event
bits. Correct if: `close` always ends the thread; a byte is delivered once and in order; a queued frame is sent
once, in the connection it was queued for, or the port is closed. Module `SerialLink`.

**Framing and command serialisation** (`common/protocol.c`, `common/zm_protocol.c`). State: the receive buffer,
the escape flag, a checksum. Correct if: what one side sends the other receives, and noise costs the frames it
hits and no other. Module `Framing`.

**zmController, the network configuration** (`zm_controller.cpp`, setParameter, setNetworkConfig and the responses around
2300-2900; `zm_netedit.cpp`; readParameters and the status in `zm_master.cpp`). State: the parameters in the device, in
the controller and in the dialog. Hard: three copies that each change by themselves, reads that overtake writes, a full
command ring. Correct if: no copy holds a value nobody chose, and the host agrees with the device in the end. Module
`NetConfig`.

**zmController, fetching of node descriptors** (`fetchZdpTick` and around, `zm_node.cpp`). State: per node a list of
fetch items with retries and waits; a fast discovery list. Hard: answers racing timeouts, nodes that vanish,
items that must be fetched before others. Correct if: every item of a node that is heard is fetched, and at most a few
requests are under way. Module `NodeFetch`.

**zmController, the node table** (zombieTick, wakeNode, deleteNode, deviceDiscoverTick, the LQI walk). State: nodes
with addresses, error counts and a zombie flag; the discover queue. Hard: devices that leave, return and exchange
network addresses while answers are under way. Correct if: one node per device, the coordinator first and never a
zombie, and a deleted node comes back only when its device gave a sign or a neighbor named it. Module `NodeTable`.

**zmController, neighbours, links, bindings** (linkTick, linkCreateTick, bindLinkTick, bindTick). State: neighbour
entries with the graphics that stand for them, links put aside, bindings. Hard: nodes deleted and revived while links
wait in queues. Correct if: a link is drawn once and known to its two ends, and one that is old or worth nothing is
taken down. Module `Links`; `bindTick`, which sends bind requests, is not modelled.

**zmController, ZCL attributes and ZDP server.** Encoding and decoding; not modelled.

**Source routing** (`source_routing.cpp` and the route part of the controller). State: a table of routes, each node's
copies, error counts, a trash. Correct if: a route passes no node twice, and copies, table and scene agree about
what was removed. Module `SourceRoutes`.

**Node database** (`db_nodes.cpp`, save timers of the controller). State: marks and a count of pending changes, a
save timer. Correct if: what was moved is on disk in the end. Module `NodeStore`.

**HTTP server and clients** (`zm_http_server.cpp`, `zm_http_client.cpp`). State: per connection the request that is read,
its handlers, a timer. Correct if: a request is answered once however it is cut, and no plugin is called
after it ended. Module `HttpClient`; the TLS proxy thread is not modelled.

**Actor endpoints and VFS model** (`actor_vfs_model.cpp`, the `Core*` actors). State: a tree of entries, two queues of
fetchers that share one timer. The actor library is a submodule that is not part of this tree. Correct if: the
tree shows in the end what the actor tells. Module `VfsModel`.

**User interface, the connection to the device** (`mainwindow.cpp`, the actor `core/dev`). State: what the window
believes of the port, which device comes next, timers and counters. Correct if: the window does not take a closed
port for open, and a device is connected in the end. Module `AutoConnect`. The **widgets** (`gui/`, `zm_g*.cpp`,
`zm_*_info.cpp`, ...) are not modelled.

**Start-up and application**, **other serial back ends** (not part of the build on Linux), **packaging and
scripts**: not modelled.

### Hazards

`PROJECT.json` lists, at the line where each one bites, what can go wrong and which properties would see it.
In short: numbers and ids that wrap, answers that come after their command was given
up, counters kept by eight functions, a retry beside the limit of commands in flight, status bits that ask for
what is being fetched, ports that are closed in the middle of a handler, commands dropped in silence, a device
state that two sides change, cursors moved by retries, requests that are ended twice or never, urgent requests
that starve others; event bits set and cleared by two threads, a thread stopped before it started; bytes lost inside
frames; cursors and lists that walk over nodes which come and go; copies of routes, links and parameters that age;
saves that fail, are refused or come too late; pages and notices that cross each other. Those without a property say
why.

## The modules

| module | models | state |
| --- | --- | --- |
| `CommandRing` | the ring of commands and the `QItem_*` functions, as operators from a ring to a ring | none |
| `RingMachine` | the ring under any calls of these functions, with ghosts that watch the order | `ring`, ghosts |
| `CommandQueue` | zmMaster, SerialCom as a wire that keeps the order, the firmware as environment | `Master` |
| `ApsService` | what the controller promises the users of APS requests (abstract) | `pending`, `told` |
| `ApsRequests` | the controller's queue of APS requests, zmMaster as the controller sees it; implements `ApsService` | 8 variables |
| `SerialLink` | SerialCom: main thread and I/O thread | 24 variables |
| `Framing` | frames, escapes, checksum, layouts of commands, over a faulty line | `line`, both ends |
| `NetConfig` | the configuration in device, controller and dialog | three copies, the commands |
| `NodeFetch` | fetching of descriptors and endpoints | per node, requests, answers |
| `NodeTable` | the node table against the devices, zombies, discovery, deletion | `nodes`, `at`, ... |
| `Links` | what is drawn between nodes | `neighbors`, `bindings`, ... |
| `SourceRoutes` | the table of source routes and the nodes' copies | `routes`, `copies`, ... |
| `NodeStore` | loading and saving of nodes, crashes | memory and database |
| `HttpClient` | one connection of the HTTP server | socket, header, handlers |
| `VfsModel` | the tree of actors and the actor `core/aps` | tree, fetchers, messages |
| `AutoConnect` | the window's auto connect, the actor `core/dev`, the port | window, port, messages |
| `MCCommandQueue`, `MCQueueMaster`, `MCQueueInstances` | `CommandQueue` alone, and three instances of it in one run | `part` |
| `MCQueueLive` | `RingMachine` and an instance of `CommandQueue` that polls, with fairness | `part` |
| `MCApsRequests`, `MCApsSafe`, `MCApsLive` | `ApsRequests` alone, three instances of it, and its liveness | `part` |
| `MCNodes` | `NodeTable` and `SourceRoutes`, one at a time | `part` |
| `MCParts` | `NodeStore`, `SerialLink`, `HttpClient`, `Links`, `AutoConnect`, `NodeFetch`, `VfsModel` and `Framing`, one at a time | `part` |
| `MCPartsLive` | instances of seven components, with the fairness their liveness needs | `part` |
| `MCNetConfig`, `MCAutoConnect` | instances for two of the findings | |
| `NumberLemmas` | remainders, maxima, sequences cut and appended to, passes over a sequence | |
| `CommandRingProofs` | lemmas about the operators of `CommandRing` | |
| `RingMachineProofs`, `CommandQueueProofs`, `ApsRequestsProofs`, `NodeTableProofs` | the theorems about the module of that name | |
| `DeviceProofs` | the theorems about `Framing`, `SerialLink`, `AutoConnect`, `VfsModel` and `NetConfig` | |
| `HostProofs` | the theorems about `NodeStore`, `HttpClient`, `Links` and `NodeFetch` | |

### CommandRing

A ring is a record: the items, the send and the write pointer, the sequence number, the two counters. The
cursors count up without end in the code and are used modulo 32, which divides 2^32, so here they are kept modulo
`NSlots`. A free item is always `Blank`, since its fields are overwritten before they are read again. `late`
stands for a send time more than `TimeoutDelay` = 500 ms ago.

| definition | code |
| --- | --- |
| `QItem_NextSeq` | the loop for a number that no active item carries |
| `QItem_Alloc`, `QItem_Enqueue`, `Queue` | the two calls every producer makes |
| `QItem_NextToSend` | the walk from the send pointer to the first waiting item |
| `QItem_Sent` | the part of `QItem_Send` after the serial port took the frame |
| `QItem_Free`, `QItem_Confirm`, `Requeue`, `Cleared` | the end of an item: freed, answered, sent again, cleared |

`NSlots < SeqSpace` is assumed (32 and 256 in the code): otherwise no number may be free.

### RingMachine

`Produce`, `AllocateInVain`, `SendNext`, `Retry`, `Drop`, `Response` and `Clear` are all that `zm_master.cpp` does
to its ring, without the reasons it does it for. It serves two ends: its invariant holds for any caller, and it
asks about *order*. The ghost `order` lists the waiting items by age, `overtaken` those that saw a newer one sent
first, `strayed` whether something happened that is known to disturb the order.

### CommandQueue

One variable, `Master`, is `struct zm_master` with the statics and members beside it:

| field | code |
| --- | --- |
| `state`, `com` | `m_state` OFF, CONNECTING, IDLE; whether SerialCom is off, being opened, or up |
| `wire` | frames sent and not answered, in order (SerialCom's queue, the line, the firmware) |
| `ring`, `fails`, `qaps` | `q_items` and around, `cmd_fails`, `q_aps` |
| `net`, `conf`, `ind`, `free`, `ipan`... | the bits of `status0` and `status1` as last heard |
| `dev` | zmController's `m_devState`, which zmMaster reads and sets through signals |
| `closing` | the window's disconnect button was clicked and the port is not closed yet |
| `needStatus`, `timer`, `first` | ask for the status, the task timer runs, no packet came yet |
| `quiet`, `statusOld` | more than 60 ms without traffic; the last status is more than a second old |
| `out` | the signals the last handler emitted that matter to a property |

A handler is an operator from one `Master` to the *set* of those it may leave behind. The set has several members
where a signal runs code that may come back: `CommandQueueEmpty` is `emit commandQueueEmpty()`, during which the
controller may hand over one more APS request or none, and this happens where the code emits it: inside
`sendNextCommand`, between taking an id and looking its request up, inside `killCommand`. Actions are the
entries of the event loop: opening, connecting, losing and closing the port (`OpenSerial`,
`OnDeviceConnected`, `LinkLost`, `CloseByUser`, `DevDisconnectClicked`), the two timers (`TaskTimerFired`,
`TimerEvent`), a packet (`Answer`, `StatusChange`), the host's calls (`ApsdeDataRequest`, `HostReads`,
`HostReadsAll`, `HostAsks`, `HostAsksNow`, `StartInterpanMode`, `SendInterpanRequest`), and of the
environment `LoseFrame` and `TimePasses`.

`Dispatch` is the switch of `processPacked`, split by what the host learns from an answer: a status byte (`StatusDone`), the
confirm or indication of an APS request (`ApsDone`), a parameter (`ParamDone`), an inter-PAN frame (`IpanDone`).

The firmware answers what is on the wire in order and with any status byte of `Statuses`, or a frame is lost, or
it reports a change unasked. Answers to commands that were given up meanwhile are possible: the wire keeps them.

Abstractions: 26 parameters are two (`ParamA` and `ParamTC`, whose answer asks for `ParamKey`, as the code does
with the trust centre's address and key); the payloads are gone; time is three flags. Left out: the debug level
of the firmware, the ZLL factory-new state, the bootloader's hint, the timer for reading registers, and the end
of the application.

Bounds: `NSlots`, `SeqSpace`, `QApsLen`, `WireLen`, `MaxCommandFails` are small versions of constants of the code
(32, 256, 15, SerialCom's frame queue, and 10); `HostLimit` bounds how many commands of
the host are in the ring at once and is the only guard that the code does not have.

### ApsService and ApsRequests

`ApsService` is the contract: a request that was accepted is pending until its user was told, and nobody else is
accepted under its id meanwhile. `ApsRequests` implements it with `pending <- QueuedIds(queue)`.

| variable | code |
| --- | --- |
| `queue` | `m_apsRequestQueue`; a request has its id, kind, destination, state, whether it is confirmed, whether its response came before its confirm, whether its timeout (`due`) or send delay (`wait`) is over |
| `qaps`, `cmds` | the ids in zmMaster's `q_aps`; the requests that became commands |
| `air` | requests the firmware has and may confirm, in any order, or never |
| `online` | `zmMaster::netState()` is InNetwork |
| `otau`, `grouped` | `m_otauActivity > 0`; the pause after a broadcast or group frame is not over |
| `told` | history: users that were told since they submitted |

`SendNextApsdeDataRequest` is used inside `ApsdeDataRequest`, `QueNextApsDataRequest`, `OnApsdeDataConfirm` and
`OnApsdeDataIndication`, wherever the code calls it, and as the action `SendNext`. `TimeoutTick` handles the
requests up to the first that is at its end and returns there, as the code does.

Decisions worth knowing:

- A user may submit a request from within the confirm's signal. At each place where the code emits it, the queue is
  left alone until the handler returns, so this equals submitting right before or after the handler.
- `m_apsBusyCounter` stays zero and zmMaster's refusals -1, -2, -3 cannot happen here: the controller asks
  `hasFreeApsRequest` right before, and zmMaster reports only SUCCESS, ERROR and TIMEOUT.
- `sendNextLater`'s timer is not modelled: zmMaster's poll emits `commandQueueEmpty` every second, so `SendNext`
  comes anyway.
- `Tick` has no guard: `m_devState`, which it looks at, may lag behind zmMaster's state (see below).
- A confirm carries an id and a destination; a late one may match a newer request with the same two.
- An indication prolongs the pause between group frames only if it was a broadcast or group frame itself.

### SerialLink

Two threads of control. `caller` says where the main thread is (idle, reading, joining), `th` where `PL_Thread0` is in
its loop; a step is what runs between two accesses to what they share, so the locks appear as which steps there are:
`ThreadTx` is one step since it runs under `mtx_tx`, `Close` resets the same queue in a step of its own, without that lock,
as the code does. `ev` are the event bits; `rxa`, `rxb`, `ring` the circular receive buffer with counters that are
not reduced; `sendPos`, `sendEnd` 8-bit counters. Bytes and frames are numbers, frame ends are the bytes in `FrameEnds`.
The kernel's buffer, unplugging and the bootloader query are environment.

`LinkIntact` joins the stream, the order of frames and the flagging of queued ones. The test for a full ring compares
unreduced counters and never finds it full, so a main thread that lags by a whole ring loses bytes: the first part is
stated for behaviours in which that did not happen (`overrun`). `LinkLive` has its own exception, `Stuck`: a port
closed before the thread's first instruction, which then sets `running` again, is never joined.

Left out: partial writes (`PL_Write` starts from the beginning of the buffer again), the bootloader's text,
the debug recording.

### Framing

`command2buffer`, `buffer2command`, `send_flagged` and the receiver are the C functions on sequences of bytes, with
the real constants (0xC0, 0xDB, ...), little-endian lengths, the 16-bit sum and its complement. `Layout` is the part of
`Type_table` that matters: not implemented, dynamic, or a number of bytes. The loops over bytes are recursive functions
(`Negated`, `Escapes`). `Fault` loses or changes a byte. The instance
has commands whose sequence numbers, data and checksums are SLIP's own bytes, and noise that makes ends and
escapes. The checksum may match by chance; `WholeFramesArrive` is about frames that were not hit, so what such a
chance does to others does not excuse losing them.

### NetConfig

`dev`, `host`, `form` are the configuration in the device, in `zmNet` and in the dialog; `cmds` the commands to the
device, done in order; `inNet` whether the device is in its network, `own` the MAC address of the coordinator's node. A value
is a short sequence. Handlers: the status bit that says the configuration changed, a change of the network state (which makes
the controller read all once more, if it did not know, and two parameters, if the device joined), the three-minute poll,
`setParameter`, the dialog's refresh and accept, each response with the corrections it makes, the timeout. The poll returns at
once out of network (9811-9814), and the model's does so. Accept writes what belongs to the tab that is open, and ends early
where the trust center address is required and empty. A MAC address whose last 24 bits are zero is not taken (2318).
Histories: what was chosen by anyone, whether a command was lost or refused, and whether accept took an old field without
writing it. The watchdog and the frame counter (2232-2265, 2512-2549) are left out; the device stays connected.

### NodeFetch

`fast` is `m_fastDiscover`, `item`, `fetched`, `retries`, `depend` the `FetchInfo` of each node, `zdp` the requests of the three
kinds in the APS queue, `air` answers on their way. `fetchZdpTick` asks for the front of the fast list, or for the next
item of the next node. It does nothing while `others` says that zmMaster has no slot or no network, or that too many other
requests are busy; it passes by nodes that wait or are zombies, and knows the maker whose devices list no more than three
endpoints. Answers and confirms come late, twice, not at all or as errors; an error counts a retry if the frame or the
route did not get through, else the node waits, or nothing happens. A node that becomes a zombie has its request cleared. The
code's oddities are kept: a wait that adds seconds to milliseconds ends at once, a confirm error counts against the item the
cursor is at, `removeFetchEndpoint` drops the last endpoint. The workaround for one vendor's rejoins (8690-8705) and the
item for neighbor tables, which `NodeTable` has, are left out.

### NodeTable

`nodes` is `m_nodes`; `at` is what no program knows: which device is at which network address now. Devices leave, join and
change address, also to one that another had. Actions are the announcement, the indication, answers to node descriptor,
address and LQI requests, failures, the three ticks, deletion and the passage of time. A neighbor table may name any
device under any address, also one that is gone, and so brings back a node that was deleted. When a node was last tried
has four values, since `deviceDiscoverTick` compares with five minutes and with ten. What that tick asks of other parts
(is the APS queue busy, does the node wait, was it heard of by neighbors or source routes), how long a zombie is left
alone and which node `zombieTick` looks at next are left open: the ticks may do either. `TableSafe` is what survives all
of this. Not among it, since the code does not promise it: two nodes may have one network address (`checkAddressChange`
asks nobody), and an announcement that reuses one is first credited to the old node.

### Links

A neighbour table entry (`MgmtLqi`) puts a pair into `createQueue`; `linkCreateTick` makes or refreshes the entry,
`linkTick` takes the graphic of one entry away or puts it back, which is `neighborsDead` and `glinks`. It looks at one entry
per call and runs only in network and with automatic fetching of routers (7640, 9175), which are `inNetwork` and
`autoFetchFFD`. Bindings come in reports and become links when both ends can be drawn. Deleting a node undoes its part in all
of these. Entries of deleted nodes stay in `m_neighbors` (9231) without a link, which the invariant allows. `OldLinksGo`
says of every two nodes, for ever again: what is drawn between them is not old, not of a zombie, and has a quality in one of
the neighbor tables; or links are hidden, or the tick does not run.

### SourceRoutes

`routes` is the controller's table and `copies` what each `zmNode` has; `signalled` are the queued signals between them.
`SR_CalculateRouteForNode` is one call for one node and one route: it brings in the coordinator's own route of one hop
when there is none, then `calculateRoute` ages the trash, judges the route, or extends it by a hop, and at the end of the
table `selectBest` gives the node its best one, unless that has `MaxBestErrors` errors. Users add, activate and remove
routes, requests go through `getSourceRoute` and count answers or errors, nodes are deleted, fail and return. Three things
are simpler: one set `zombies` stands for more than one error (374), three or more (164) and the zombie flag; the trash is
not a ring of 16 (42-57), so no route is forgotten early; the version check for one maker's old devices (379-387) is left
out. `std::sort` is given a comparison that is no order; the model does what the library's insertion sort does with short
vectors.

### NodeStore

Memory (`shown`, `pos`, `dirty`, `changes`, `timer`) and database (`rows` of the plugin, `stored`, `config`).
`Save` walks the nodes with a set `f` of those at which the database fails, as the loop does: it ends at the first failure,
commits and forgets. `Crash` may come at any time, `appAboutToQuit` saves once. What the code loses is in `clean` and the
hypotheses of `StoreSafe`: a failed step, a refusal by the plugin at the end.

### HttpClient

One connection. A request is cut into pieces of header and content that arrive in any portions; `handleHttpRequest` is
`zmHttpClient::handleHttpRequest` with its two states. Plugins take a request by its header and are called at the end, may
end at any time, and web socket requests hand the socket over. That a header has more than 16 and at most 8192 bytes
(174, 196) is left out: its end is found as soon as it is there.

### VfsModel

`dirs` and `vals` are the two queues of fetchers, `fetchTimer` the one timer they share, `asks` and `mail` messages in
order. `ContinueFetching` is the code's: it sends for the front of the directories, else of the values. `allocTag` counts
up to 65535 and starts again; `FreshTag` is any tag that is not in use, which is right as long as no message is overtaken
by 65536 others. `Added` is the loop over the names of a page: those that are known first (`Again`), then those that are
new (`AddEntry`). `core/aps` answers with pages of nodes and with values, and tells of changes. `nodeTable` are the nodes
it lists. The properties say what the code achieves: `Stalled` is the state where a lost answer leaves fetching with no
timer (721, 405), `missed` a page that a deletion shifted.

### AutoConnect

The window is `timerEvent`, two buttons, and the three messages it gets; `core/dev` is `Deliver` of a request;
the port opens, answers first, fails, or is closed after ten missed answers (`ForceReconnect`). Messages are in
order and a response names no request, so the window may take one for another. `deviceStateTimeOut` is never
emitted, hence `m_connTimeout` is left out.

## The runs

All properties of one run are checked together. Several runs hold more than one instance: a variable `part` that never
changes says which instance a behaviour is of, and the variables of the others keep one value. The state spaces
add up, they do not multiply. A module that theorems are about is extended by the module of its run and not
instantiated there, so that the property TLC checks and the one the theorem states are the same definition, and
TLC evaluates the assumptions of the theorem. Deadlock is not checked in `QueueLive`, where the ring may be full of
commands nobody answers, since no environment is part of it, and in `Nodes`, `Parts` and `PartsLive`, where the bounds on
faults, moves, frames and requests let an instance come to rest, as an idle connection or line does.

| run | asks | bounds | states |
| --- | --- | --- | --- |
| `QueueRing` | do counters, numbers and limits survive polling, losses, retries, reconnects, late answers? does a command leave only for a reason? | 3 slots, 4 numbers, wire of 2, 2 failures | 625k |
| `QueueMaster` | APS requests; joining, leaving, parameters; inter-PAN and disconnects: is anything fetched twice, left behind by a close, dropped in silence, does the controller know the device state? | three instances, 2 slots, 3 numbers | 873k |
| `QueueLive` | is the order kept until it is disturbed, and is every command served even then? is every command of zmMaster sent or dropped, the status asked for again and again? | 3 slots, 4 numbers, wire of 1 | 60k |
| `ApsSafe` | do ids stay unique, is `ApsService` implemented, with delays, late confirms, timeouts, closing? are the limits per node kept by ordinary and urgent requests to a sleeping device? | 2 ids; 3 ids; 1 node | 196k |
| `ApsLive` | is each request sent, and each that was sent ended, if the device may be silent? are image blocks starved by ordinary requests, broadcasts and the pause after them? | 2 ids, 1 node, 1 broadcast address | 197k |
| `Nodes` | the safety of the node table and of the source routes | as below | 1144k |
| `Parts` | the safety of the components in `MCParts`, one property each | as below | 963k |
| `PartsLive` | the liveness of those in `MCPartsLive` | as below | 217k |
| `QueueDeviceState`, `ApsCleared`, `ConfigKey`, `NextDevice` | fail: see [what the checks found](#what-the-checks-found) | | |

Why the bounds of the queues suffice. Two commands may be in flight, so three slots give one that waits behind two in
flight, a ring that is full, cursors that wrap, and holes between active items; four numbers for three slots make every
allocation wrap within four commands and collide unless the check works. Two failures separate the first
missed answer from the one that closes the connection, with a success between them that resets the count. A wire
of two holds an answer to a command that was given up together with one that is current. Of the APS requests,
three are needed for the limit of the urgent kinds (`MaxBusyApsPerNode + 1`), two for everything that is about
one request and another; two ids are used again and again, which is when late confirms match the wrong one.

The bounds of the parts, and the case each is there for:

| part | bounds | reaches |
| --- | --- | --- |
| `link` | ring of 2, buffer of 1, 2 send slots with counters of 4; 3 bytes, 2 frames ends, 2 frames, 1 connection | wrap of ring and counters, overrun, a frame that cannot be serialised, close at every point of the thread |
| `frame` | 6 commands, 2 sent, 2 faults | a lost end that joins two frames, an escape made or lost, a length that is wrong |
| `config` | 3 parameters, ring of 4, 1 edit, 1 lost command, 1 change by the device or of its network state | a read that overtakes a write, a full ring, a correction, a MAC address that is none, a poll that ends with the network |
| `fetch`, `sleepy` | a node that listens (2 in `PartsLive`) or one that sleeps is heard of, 2 retries, 2 faults (`PartsLive`: none) | late and double answers, given up items, the fast list in front, a zombie, a full queue |
| `table` (run `Nodes`) | 1 device, 2 addresses, 1 move, 1 deletion or failure | address change, return after deletion, a neighbor table that is wrong, zombies |
| `links` | 2 routers, 1 end device, 2 reports, 2 events (`PartsLive`: 1) | a link put aside and taken back, deletion with links in the queue, the tick switched off |
| `routes` (run `Nodes`) | 2 routers, 6 ids, 3 hops, 2 errors (3 for the best), 1 user action | extension, trash, deletion under way while a route is used |
| `store` | 2 nodes, 2 moves, 2 errors, 2 starts | save while the plugin refuses, row that comes late, crash and restart |
| `http` | 3 requests of 7 kinds, 2 handlers | a header and content cut anywhere, a plugin that ends in between |
| `vfs` | 2 nodes, page of 1, 1 change, 1 fault (`PartsLive`: 1 node, 2 changes) | a change while pages are fetched, a retry with a late answer |
| `window` | 2 devices, 1 click, 1 fault, 1 message when the timer fires | crossing requests, an update, an unplugged device |

`Ids` are symmetric in the safety runs and not in the liveness runs. The view of `ApsSafe` leaves out `told` where
nothing that is checked reads it.

For each property `PROJECT.json` names a change of the code's model, such as a dropped guard or an off-by-one,
under which TLC finds the property violated. They are the definitions with the comment `Mutant` beside
the one they change, and no specification uses them.

### Properties

- `CountersCount`, `SeqsUnique`, `FewUnconfirmed`: `q_items_wait_send` and `q_items_wait_confirm` are the numbers of
  items; no two active commands share a number; the assertion in `processPacked` holds although
  `handleTimeouts` sends again without asking.
- `GivesUpInTime`: a connection that missed `MaxCommandFails` answers in a row is not kept.
- `LeavesOnlyServed`: a command leaves the ring by its answer, by being late after its second send, or with the
  connection. An answer that comes after its command was given up may take another one along only if
  that has the same command id and the numbers have gone round since.
- `FetchedOnce`: the queries for status, confirm and indication are in the ring once at most.
- `OffIsEmpty`: a closed port leaves no APS request queued, and nothing in the ring but inter-PAN requests, which
  are accepted while it is closed. `openSerial` asserts that nothing at all is left (below).
- `DroppedIsReported`, `HostIsTold`: a command somebody waits for is not dropped in silence, by any of the three
  ways to drop it.
- `DeviceStateKnown`: once a fresh status says the device is in the network, the controller believes it.
  It is checked, and proved, for a user who does not disconnect; with one who does it fails (below).
- `EverySendComes`, `StatusIsAsked`: no command waits for ever, polling never dies.
- `OrderKept`, `Served`: first in, first out, until the ring wraps into an item in use or a retry moves a cursor or is
  refused; even then no command starves. The three exceptions were found by TLC one after the other and are all real
  paths of the code.
- `UniqueIds`, `ToldBeforeForgotten`, `BusyPerNode`, `BusyIsTold`, `IdleIsSent`, `BlockIsSent`: as their names say;
  the comments beside them name the code.
- `LinkIntact`, `LinkLive`: bytes in order and without a gap, frames once, in order and in their own connection, no lost
  event bit, a close that comes back.
- `WholeFramesArrive`: a frame that was not hit arrives, in order, however its neighbours are mangled.
- `ConfigLive`: the host agrees with the device in the end; about all parameters if nothing was lost or refused, about
  the polled ones anyhow if the device is in its network; never about a MAC address that is none.
- `FetchSafe`, `FetchLive`: one request to a node at a time, few in all; all of a node that is heard is known in the end.
- `TableSafe`: one node per device, the coordinator first, no deleted node comes back without a sign of its device or of
  a neighbor.
- `LinksSafe`, `OldLinksGo`: a link is drawn once or put aside once and is known to its two ends; one that is old, of a
  zombie or without quality is taken down.
- `RoutesSafe`: no node twice, no id twice; copies hold nothing the table lost, nor does the scene but for deletions under
  way; what is drawn passes only nodes that are there.
- `StoreSafe`, `StoreLive`: what was moved is stored at the end of a clean run, and in the end while it runs.
- `HttpSafe`: each request once, whole, in turn; a plugin that ended is not called.
- `VfsSafe`, `VfsLive`: one request under way, and an answer is about the entry of the fetcher with its tag; in the end the
  tree shows the last state, or stalls in the one known way.
- `WindowSafe`, `WindowLive`: with no message under way the window is not wrong about the port; in the end a device is
  connected if there is one that answers.

## Fairness

`CommandQueue!Fairness` is what the event loop, the I/O thread and the clock give: timers that are due fire
(`TaskTimerFired`, `TimerEvent`, weakly fair), the I/O thread empties the line (an answer comes or the frame is
lost, weakly fair), and time passes. The firmware may lose every frame and the host may never call.

`MCQueueLive!LiveFair` states it for the instance that polls. `RingMachine!FairSpec` asks more, since it has no clock: an
item in flight is answered, retried or given up in the end. Strong fairness, because `Clear` and other items may disable
and enable it again; `CommandQueue` is where this is not assumed but results from its timers.

`ApsRequests!Fairness`: the send, timeout and delay timers, and a zmMaster that turns the ids it holds into commands
while it is online. The last is what `EverySendComes` and `StatusIsAsked` are about one level below: slots become
free and the status is asked for; that the firmware then has a free place for APS requests is assumed. Nothing is
assumed of confirms or responses. `IdleIsSent` and `BlockIsSent` allow the network to be left.

Broadcasts are not in the first part of `ApsLive`: a broadcast waits for a pause between group frames, which those
received prolong, and TLC shows how one may wait for ever in a busy network. The second part has them, and asks about
image blocks only: with two ids and `MaxApsRequests` 1, two requests wait at once, of which one may be an ordinary request
or a broadcast, before or behind the block. A block that is passed over for them until the update's activity has run out,
or that the pause after a broadcast holds back, would be found.

`MCApsLive!ApsFair` and `MCPartsLive!PartsFair` state the fairness for each instance. Everywhere it is weak, and of what
runs by itself: for `SerialLink` the main loop and the thread; for `NodeFetch` the tick, the delivery of answers and
confirms, timeouts and waits, without faults (the run asks nothing of a time without network, in which the code does not
call the tick); for `NodeStore` the save timer, and that a plugin which refuses allows again and an update ends; for
`NetConfig` the timers, the status and the answers; for `Links` its two ticks. The guards of the poll and the ticks, that
the device is in network, are guards of the actions: nothing is promised while they are false. For `VfsModel` the actor,
delivery and the timer; for `AutoConnect` the timer, delivery, and that a port that opened connects, answers if its device
does, or is given up. `NodeFetch`, `SourceRoutes`, `NodeTable`, `HttpClient` and `Framing` promise nothing more that does
not depend on the other side.

## What is proved

Every theorem is about the specification of one module, for every value of its constants that the module's
assumptions admit: rings and queues of any size, any sets of ids, nodes, commands, statuses, requests, frames and
devices, any bounds on faults. `PROJECT.json` lists the theorems and the property each one states.

| theorem | says |
| --- | --- |
| `RingMachineProofs!RingIsSound`, `CountersNeverDrift`, `SeqsNeverClash` | under any calls of the `QItem_*` functions the ring keeps its type, exact counters (`CountersCount`), numbers that differ (`SeqsUnique`), at most two in flight |
| `RingMachineProofs!OrderIsKept` | `OrderKept`: commands are sent in the order in which they were queued, until the ring wraps into an item in use or a retry moves a cursor |
| `CommandQueueProofs!MasterIsSound`, `MasterCounts`, `MasterSeqsUnique`, `MasterFewUnconfirmed`, `MasterGivesUpInTime` | so does zmMaster, and it closes a connection in time |
| `CommandQueueProofs!QueueIsWell`, `MasterTyped`, `QueriesAreSingle`, `ShutIsEmpty` | `TypeOK` in full, `FetchedOnce`, `OffIsEmpty` |
| `CommandQueueProofs!LeavesServed`, `DropsAreReported`, `HostHears` | the action properties `LeavesOnlyServed`, `DroppedIsReported`, `HostIsTold` |
| `CommandQueueProofs!StateIsKnown`, `OnlyTheUserUntells` | `DeviceStateKnown` if no user disconnects; and without that assumption, that the controller's copy of the network state falls behind by the user's click alone, with the port about to be closed |
| `ApsRequestsProofs!QueueIsSound`, `IdsAreUnique`, `BusyIsLimited` | the queue of APS requests: type, `UniqueIds`, `BusyPerNode` |
| `ApsRequestsProofs!QueueImplementsService` | `ApsRequests` implements `ApsService` (`ToldBeforeForgotten`) |
| `NodeTableProofs!TableIsSound`, `RoutesAreSound` | `TableSafe`, `RoutesSafe` |
| `DeviceProofs!LinkIsSound` | `LinkIntact`: bytes in order, frames once, no event lost, whatever the two threads do |
| `DeviceProofs!FramesAreWhole` | `WholeFramesArrive`: a frame that was not hit is received as it was sent and in order, for any bytes, escapes and faults around it |
| `DeviceProofs!WindowIsSound`, `TreeIsSound` | `WindowSafe`, `VfsSafe` |
| `DeviceProofs!ConfigIsSound` | `OnlyTheKeyIsInvented`: a parameter other than the key has, and is written with, a value that someone chose |
| `HostProofs!PositionsAreSaved`, `HttpIsSound`, `LinksAreSound`, `FetchIsSound` | `StoreSafe`, `HttpSafe`, `LinksSafe`, `FetchSafe` |

The assumptions on constants and why the code meets them:

| assumption | code |
| --- | --- |
| `RingAssumption`: `NSlots < SeqSpace` | 32 items, 8-bit numbers; otherwise no number may be free |
| `QueueAssumption`, `StatusAssumption`, `RequestsAssumption` | limits are numbers, the environment's sets are of the right kinds; a broadcast address is no node |
| `TableAssumption` | finitely many devices; network address 0 is the coordinator's alone, whose MAC address no device has |
| `RoutesAssumption` | finitely many routers, the coordinator is none of them; the limits of errors are 6 and 11 (`source_routing.cpp` 20, 23), not zero |
| `LinkAssumption`: `TxSlots < CounterSpace`, a multiple | 4 slots, 8-bit counters |
| `FramingAssumption` | a command has the chars of its layout, an ACK has no frame; a message of the longest data and its checksum fit the receiver's buffer (116 of `zm_protocol.h` 38, and 9) |
| `StoreAssumption` | four words of the model are not nodes |
| `HttpAssumption` | a header has at least one piece; a WebSocket handshake, which is a GET, has no content |
| `LinksAssumption` | `Nobody` stands for no node |
| `FetchAssumption`: `MaxRetrys >= 2` | the zmMaster's own node is always in `m_nodes`, so the walk over them is of a list that is not empty; `MaxRetrys` is 2 (`zm_node.cpp` 28), and a poll asks up to twice |
| `VfsAssumption` | the nodes `m_nodes` begins with differ (`TableSafe`); a page and the tries are not zero (16 and 3) |
| `AutoAssumption` | devices in a list, limits are numbers, the poll interval is not zero |
| `Readable`, a hypothesis of `ConfigIsSound` | what `readParameters` asks for is a list, `setParameter` sets only parameters of it |

### The arguments

Every invariant below is a conjunction of named parts, none of which is inductive alone. For each action there
is one lemma; where handlers share code there is one for the shared operator, and the lemma of the action cites it.

*The ring.* `RingInv(r)` says that a ring is well typed, its counters are the cardinalities of the two sets of
items, and the numbers of active items differ. That the next number is fresh
needs that there are fewer active items than numbers, hence the type of the ring and `NSlots < SeqSpace`; that
counters stay natural when they are lowered needs that they count. `CommandRingProofs` shows for each `QItem_*`
operator that it keeps `RingInv` under the condition its callers establish. The heart of it is `NextSeqFresh`: by
pigeonhole some number is unused, the walk from the current number reaches it, and so the `CHOOSE` of the first
unused one is defined. `ItemReplaced` and `ItemCounted` turn one changed item into changes of the two cardinalities.

*The order.* `Straight` ties the ghosts to the cursors: as long as nothing strayed, the waiting commands are
exactly the slots from the send pointer to the write pointer, without a gap, in the order of the ghost `order`, so that
the first one `QItem_NextToSend` meets is the oldest. The ring is not full whenever a command is queued at
the write pointer, since that slot is blank (`ProduceStraight`); the slots in between differ by `AfterApart`.

*zmMaster.* A handler maps one `Master` to a set of them, so there is one lemma for each handler: if
`Sound(m)`, every member of the handler's result is sound. `Sound` is `RingInv` of the ring, at most two in
flight, the states `state` and `com` in their ranges and `OFF` only with the port off, `qaps` a sequence of ids, and
`fails < MaxCommandFails` unless OFF. `Whole`, which lacks the last part, is what holds in the middle of `GiveUp`,
between counting the failure and closing the port. That the send in `sendNextCommand` finds an item uses `ToSend # {}`;
that the retry in `VisitLate` does not put a third command in flight uses that its item was in flight itself.

`Well` adds to it: the types of all other fields and the bounds of wire and queue, that commands are real and a query
is there once (`Apart`), and that a shut port leaves nothing but inter-PAN requests (`Shut`). The action properties follow
from relations between the `Master` before and after a handler, which compose: `Calm` (nothing sent or dropped), `Onward`
(sent), `Gone` (all dropped and reported), `Visited` (one turn of the loop over late items), `Heard` (answered). In the end
each step of the specification gives every active command one `Fate`: it stays where it is, its answer was at the
head of the wire, or it was overdue a second time or the port was shut, and whoever waits for it is told.

*The APS queue.* `Sound` says that ids differ, the limits per node hold, and the user of each confirmed request was told.
The limits are cardinalities of sets of places in a queue from which entries are removed, so most lemmas say what
removing, marking or appending does to these sets. `Limits` needs two bounds at once: the urgent kinds pass the
limit of the others by one, and only while that is not passed by more. The refinement is `PromiseIs`: what an action does
to `QueuedIds(queue)` and `told` is one of five shapes, and each of them is a step of `ApsService` or stutters.

*The node table.* `Table` says that the coordinator is first, awake and known and that MAC addresses differ. `Waiting`
says of the discover queue that addresses in it are distinct and none is of a device that was deleted and neither heard
nor named since: `NotSilent`, the property, is not inductive without it, since a node is made from that queue. `Asking`
rules out an address request to the coordinator. That the cursor stays in range is the pigeonhole again: there are at most
`Cardinality(Devices) + 1` nodes.

*Source routes.* A route's errors, answers and state change in the table and in the copies apart; its id and hops never do.
So the invariant speaks of `Tag`s, which are these two: each copy of a node has the tag of a route of the table that ends there
(`Copied`), and in the table an id has one tag (`Routed`). Then a deletion that looks a route up by its id in the table
removes the copy that has it, and no other node can have one (`WithoutCopied`). `Fine` says what one call may make of the table:
what is gone is signalled, and what is new has an id that is not drawn. Sorting, the choice of the best and the purge
are passes over a sequence, written as recursive functions; `PassExists` shows that such a function exists, from a minimal
number of steps for which it would not, and what a pass keeps (`SortedIs`, `BestIs`, `PurgedIs`) follows by `Passed`.

*The serial link.* `Roles` says where main thread, I/O thread and connection can be at once. `Bytes` says where each byte
is: byte *k* of a connection has been read, is in the ring at *k* modulo its size, in the chunk being appended, or in the
kernel, as the counters `rxa`, `rxb` say. `Queued` says that the last `Pending` frames sent are in the queue, in order, and
all before them are out or were dropped. With these, `FramesInOrder` and `QueuedIsFlagged` are inductive. `Pending` is
a difference modulo 256 of counters that wrap; that a slot is not taken twice needs that the slots divide the counter's range.

*Frames.* `FramesTraced` gives each frame that was not hit a place: the position on the line before its first byte, which
falls with each byte read and is negative once the receiver is in it. Its bytes that are on the way stand behind that
place (`Placed`). While it is being read, `Reading` says that the buffer holds the first bytes of its data, unescaped, and
that an escape was read or not: true after its first end whatever noise left in the receiver, since an end empties the
buffer and takes back the escape (`ReadFirst`), and kept by each byte (`ReadOn`). At its second end the buffer holds all,
the checksum is that of the data (`ReadLast`), and the message is the command again (`RoundTrip`). When it was read its
command has a place among those taken, later than those of frames in front (`Did`, `Later`). What the loops over bytes
compute is again a pass: `EscapesIs` and `NegatedIs` get by `PassExists` that the recursive function is there, and
`EscapesAt` says where the escape of each byte is on the line, which is all the receiver's proof needs of it.

*The window.* `Told`: if the window takes the port for open and it is not, a message that says so is on its way.
To be inductive it must hold of every prefix of the queue of messages, since each of them carries a state that may be
outdated when it is read: `Fresh`.

*The tree.* `TreeInv` adds to the property the types of fetchers and messages and, the part it needs most, `Matches`:
every message under way, be it a request or an answer, that has the tag of a fetcher is about the entry it fetches. It
stays true because a new tag is in no fetcher and no message; that there is one is the pigeonhole, over all tags in use
(`FreshTagIs`). The names of a page are a pass as above, whose every step stays in `Grown`: the fetchers are well-formed,
and those that were not there before are for entries that were not. So the next page of a directory may be put behind
them: no other fetcher has its entry, unless it is `.actor`, which is listed twice (`AddedOK`, `ListOK`).

*The configuration.* What the device has or a write carries comes from the host, and what the host has from the device or from a
field of the dialog. So `NInv` says of all of these what the property says of some: the fields, too, hold what someone chose
(`Copies`), and so does each write in the ring; a read asks for a parameter of the list (`RingSane`). The key is left out,
since `readParameterResponse` makes one (run `ConfigKey`); the theorem says that this one does not spread to other parameters.

*Positions.* `LastSaved` is the property at the end of a clean run, `Timed` that a change which is due has its timer.
`SaveMarks` and its like say what the loop that saves leaves of marks and rows, for any set of failures.

*HTTP.* `Taken` says what the socket and the peer hold is the rest of the request in hand, from the place that
`m_clientState` implies; `InTurn`, that the peer waits for its answer. Together: no piece is read twice or lost.

*Links.* `Shared` (a node knows exactly the links of its entries), `Single` (one entry for two nodes) and `Numbered`
(links put aside are in no entry). `deleteNode` walks entries in order: `RankIsIn` says that the walk meets each of them.

*Fetching.* `FastWell` and `ZdpWell` are the property's parts about the two lists, with types; a list from which a place
is taken (`QueueLess`) or the last moved to the front (`FastTaken`) keeps them since no two places become one.
The limit counts requests that are sent, so a confirm lowers it and nothing raises it but `AskWell`, under the tick's
guard. `IsAnswer` carries what was true of a device when it answered to the moment it is read: the endpoint
described is active. The property on `sds` is not inductive without it.

### Only model-checked

- Liveness under fairness: `Served`, `EverySendComes`, `StatusIsAsked`, `BusyIsTold`, `IdleIsSent`, `BlockIsSent`, and those of
  `PartsLive`. The prover has no rule for `ENABLED`, on which fairness rests.
- That the copies of the configuration agree in the end (`ConfigLive`), as all liveness.

## What the checks found

**The controller takes an online device to be out of the network** (run `QueueDeviceState`). `checkStatus0`
(`zm_master.cpp` 2328) reports a net state only if it differs from that of the last status byte, and that byte
survives a disconnect. The window's disconnect button sets the controller's state to NotInNetwork at once. After
a reconnect to a device that stayed online the bits do not differ, nobody tells the controller, and it stays out
of network until a packet comes in from the network; until then each `tick()` takes the time from all requests that
were sent. A comment at `zm_controller.cpp` 4779 knows the symptom: "HACK in rare cases we go out of network
despite everything working (TODO check why)".

**A cleared request is sent all the same** (run `ApsCleared`). "clear all requests addressed to this node"
(`zm_controller.cpp` 6624) ends the requests of a node that is deleted, but zmMaster keeps their ids in `q_aps`, and
`queNextApsDataRequest` (`zm_master.cpp` 616) sends a request in whatever state it finds it.

**A network key nobody chose** (run `ConfigKey`). The answer to `ZM_DID_STK_NETWORK_KEY2` is an index, a sequence number and
the key (comment at `zm_controller.cpp` 2635). It is compared from its third byte on and stored from the second (2648):
the host then has the sequence number and fifteen bytes of the key. The answer to the plain read of the key, which
comes first, hides this unless it is lost or the firmware does not have it. The dialog writes the stored key to the device.
Of the other parameters `ConfigIsSound` proves that none is made up.

**A silent device is tried for ever** (run `NextDevice`). "if connecting to m_devs[0] fails the next attemp will be
with m_devs[1]" (`mainwindow.cpp` 1719). A device whose port opens but which never answers counts as connected at once;
the poll remembers it for reconnecting, and when zmMaster gives it up the index is not advanced for that reason (880).

Other places where code and comments or assertions disagree, met while modelling. The models do what the code
does:

- `zm_master.cpp` 1822: `sendInterpanRequest` is accepted while the port is closed if the last connection
  was in inter-PAN mode, since `ipanState` survives; the command then waits in the ring when `openSerial`
  asserts that nothing does (589). `OffIsEmpty` allows these requests for this reason.
- `zm_master.cpp` 2506: a read parameter that is dropped is reported under the first byte of its buffer, which is its
  length, and not under its id.
- `zm_master.cpp` 2683: `readParameters` promises in its comment (2680) to read all and ignores which commands a
  full ring refused.
- `zm_master.cpp` 1230: only a successful answer to an APS request is passed on, although the controller has code for
  other outcomes (`zm_controller.cpp` 4305); a refused request ends by its timeout.
- `zm_controller.cpp` 4067: `nextRequestId` yields 0 after 255, "ID must be non-zero" (4060).
- `zm_master.cpp` 676 and 683: a request of exactly the buffer's size passes the check and fails the assertion.
- `zm_http_client.cpp` 303: "for non Websockets keep the timer going", but an upgrade request that no server takes
  leaves a connection without its timer.
- `zm_controller.cpp` 2534: "this param is read every 60 seconds", but the timer (9837) has 180.
- `zm_controller.cpp` 3285: setting the network address writes the parameter of the PAN id.
- `mainwindow.cpp` 1626: auto connect "must be activated", but the default is on (998, 1674).

Places where a component does less than one would expect of it, which its property therefore does not ask for:

- `zm_master_com_serial.cpp` 277, 339: a close before the thread's first instruction never returns; a full receive ring is
  not noticed.
- `zm_controller.cpp` 3285-3400 and `zm_netedit.cpp`: accept stores the MAC address and the extended PAN id of old fields
  without writing them.
- `zm_controller.cpp` 6483: two nodes may have one network address after an address change; a deletion purges neighbour
  tables only of nodes before the deleted one.
- `source_routing.cpp`: a user who removes the coordinator's own one-hop route ends the making of new routes until
  a restart; a user's route broken at its first hop does not mend.
- `db_nodes.cpp` 570: marks are cleared before the commit, a commit that fails loses them; a failing row ends the loop and the
  timer is not started again. `zm_controller.cpp` 10566: a save the plugin refuses at quit is lost.
- `actor_vfs_model.cpp` 721: any answer stops the one timer; if another fetcher waited and its answer is lost, fetching
  stalls. Entries of deleted nodes stay in the tree (460), and a deletion between two pages hides a node.
- `mainwindow.cpp`: no message tells the window that its port opened, so its next tick asks again and is refused, after
  which it may be idle while a device is connected; a response names no request.
- `zm_controller.cpp` 9454: `bindTick` drops a bind request that the APS queue refused.

## What is not modelled

Of the command queue the items under *Abstractions* above, and the sizes of payloads; in the APS queue the refusal of
requests for want of a source route, and memory addresses, although `timeoutTick` and `apsdeDataRequest` write through
references after emitting signals. `nextRequestId`'s walk is not modelled: ids are model values and any unused one may be
drawn. What each of the other modules leaves out is said in its section and in `PROJECT.json`.

Not modelled yet: the TLS proxy thread (`zm_http_server.cpp` 162-315), whose library is not part of the tree, and which is
started before its mutex is initialised (445, 487); `bindTick` and the binding drop box; the actor `core/net`. For good:
what the window draws, ZCL encoding (the database is part of an external library), the actor library (external), start-up,
back ends for other platforms, packaging.

## Plan

| module | state | left |
| --- | --- | --- |
| `CommandRing`, `RingMachine` | modelled, proved | |
| `CommandQueue` | modelled, proved | |
| `ApsService`, `ApsRequests` | modelled, proved | |
| `Framing` | modelled, proved | |
| `SerialLink` | modelled, proved | partial writes; that it implements the wire of `CommandQueue` |
| `NodeStore`, `HttpClient`, `Links`, `AutoConnect`, `VfsModel`, `NodeTable`, `NodeFetch`, `SourceRoutes` | modelled, proved | larger instances |
| `NetConfig` | modelled, proved | the key, once the code reads it as it was written |
| `HttpProxy` | not written | TLS thread, word queue, shutdown, if a model of the library can be justified |
| `BindQueue` | not written | `bindTick`: what leaves the queue was sent, which the code does not keep |

Composition: `ApsRequests` sees zmMaster through `qaps`, `cmds` and `online`; that `CommandQueue` behaves so (an id that is
handed over becomes a command, is reported, or is reported dropped) is the next abstract specification worth
stating, with `DroppedIsReported` as its core. `NodeFetch` and `NodeTable` see the APS queue as a bag of requests that are
confirmed, answered or lost; `AutoConnect` sees zmMaster as a port that is open, answered or given up.
