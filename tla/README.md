# msa_broker in TLA+

A verification project for the message broker under `src/` (broker, `libs/elem.c`, the
sample client and the table library it links): TLA+ modules of its threads and data
structures, TLC runs on small instances, and TLAPS proofs for instances of any size.

## 1. The system

A broker process relays messages between client processes over ZeroMQ sockets on ipc paths.
It has four threads, each with a libevent base of its own; they share memory and pass work
to each other only with `event_base_once`, which appends a one-shot event to the other
thread's base.

    client PUSH --> PULL  TR_RECV --event_base_once--> TR_SEND  PUSH(service) --> client PULL
    client PUB  --> SUB   TR_MGNT --event_base_once--> TR_SEND  ROUTER        --> client DEALER
                                                       main thread: statistics once a second

| Component | State | Operations | Talks to |
|---|---|---|---|
| context pool (`tr_recv.c`, `broker.h`) | `occupied` flag, head and buffer of 10240 contexts, `CURR_POS` | `get_msg_ctx`, `free_msg_ctx` | taken by TR_RECV, freed by TR_SEND, no lock |
| TR_RECV (`tr_recv.c`) | the PULL socket, the context in hand | `evsock_pull_read`, `err_msg_reply`, `zsock_drain_remain_part` | clients; posts contexts to TR_SEND |
| TR_SEND (`tr_send.c`, socket list of `main.c`) | list of sockets by name, ROUTER first; queue of events | `evsock_push_relay`, `evsock_router_err_reply`, `evsock_push_create`, `evsock_push_remove` | clients; frees contexts; posts to itself |
| TR_MGNT (`tr_mgnt.c`) | list of clients by uuid with service and timestamp | `evsock_sub_read`, `handle_regi`, `manage_appls`, `check_svc_alive`, `find_svc_exist` | clients; posts socket events to TR_SEND |
| element list (`libs/elem.c`) | a doubly linked list in key order with an unkeyed root | `new_element`, `add_element`, `get_element`, `rem_element`, `list_element` | each list belongs to one thread |
| main thread (`main.c`) | three counters, six reason counters | `STAT_INC` by TR_RECV and TR_SEND, `tick_stat` every second | shared counters |
| startup (`main.c`) | the threads and what each has set up | `initialize_main`, `io_thread`, `initialize_thread` | `sleep(1)` between threads |
| sample client (`zutil.c`) | five sockets, uuid, traffic counters | `zutil_init`, `zutil_regi`, `zutil_send`, `zutil_recv`, `zutil_close_all` | the broker |
| libfort (`libfort/fort.c`, linked but called by nobody in the repository) | rows of cells, separators, cursor; property list; buffer of a printed table | `ft_write`, `ft_ln`, `ft_erase_range`, `ft_set_cell_span`, `ft_set_*_prop`, `ft_to_string` and the like | its caller |

Left aside: `libzmq/zhelpers.h` (only its `#include`s are used) and the build scripts of libzmq, libevent and gperftools. The repository has no tests,
and its README is one sentence, so the comments of the code are the only other statement of
what it should do.

### What makes each part correct, and what makes it hard

- **Context pool.** Every context in use has one owner, from `get_msg_ctx` in one thread to
  `free_msg_ctx` in another, over every error path; a context is `malloc`-ed only when the pool
  is exhausted, though the flags are read without a lock while the other thread clears them.
- **TR_RECV.** Each message is received whole, whatever its parts; each one leads to exactly
  one event of TR_SEND; the thread never sleeps with a message in the socket, though the
  descriptor of a ZeroMQ socket is edge triggered.
- **TR_SEND.** What is sent is what was received, in the order of receipt; a failed relay is
  answered by an event posted from inside a handler to the very base that runs it; sockets are
  created and removed between the receipt of a message and its relay.
- **TR_MGNT.** A service has a socket exactly while it has clients. Announcements, the sweep of
  every second and the events already waiting in TR_SEND meet in any order.
- **Element list.** The links stay right while a walk's callback frees the element it visits.
- **Statistics.** Two threads count while a third reads and resets.
- **Startup.** Threads use each other's event bases; one second of sleep is all that orders
  their creation, and clients may be there before any of them.
- **Client.** One announcement a second at most, with counters that restart at each, from a
  loop that ends only when nothing is left to receive.
- **The whole.** A message, a reply and an order to open or close a socket wait in one queue: a
  service that has clients when a message is received has its socket when the message is sent.
- **libfort.** An allocation may fail in the middle of any call. The cursor may stand beyond the
  cells there are. The buffer of a printed table is measured beforehand, row by row, from the
  same properties that the printing reads again.

The full list of hazards, each at its line and with the properties that cover it, is in
`PROJECT.json`.

## 2. The modules

    ZMessage          ZSock                Delivery       OrderedList
      |   \             |                     ^              ^
    MsgCtx SendBase ----+                     | refines      | refines
      |     |  |        |                     |              |
      +-- TrRecv --- TrSend --- Relay --------+           ElemList
            |  |                  |  \
            |  +-- (ZSock)     MCRelay RelayProofs           |
          TrMgnt (SendBase, ZSock) --- Registry              ElemListProofs
                                         |   \
                                 MCRegistry   RegistryProofs

    Relay + TrMgnt --- Broker --- MCBroker, BrokerProofs    refines Relay!Spec and Registry!Spec

    TickStat, Startup, Client --- MainProofs

    DataLemmas  used by the proofs of all but Relay and the main threads

    FortVector --- FortTable --- FortTableProofs      FortProps --- FortPrint --- MCFortPrint
                     | refines                                         |
                   FortGrid                                         FortPrintProofs

| Module | Models | How its state corresponds to the code |
|---|---|---|
| `ZMessage` | `zmessage.h` | Names, codes, envelopes. A body is its size and the message it came with; reading it into a context keeps how many of its bytes the buffer holds (`Buffer`, `Stored`). |
| `ZSock` | external: a receiving ZeroMQ socket | `q` the messages, `more` the unread parts (`ZMQ_RCVMORE`), `signal`/`armed` the edge-triggered `ZMQ_FD`. `zsock_drain_remain_part` is the broker's own. |
| `MsgCtx` | `get_msg_ctx`, `free_msg_ctx` | `busy` is the set of contexts with `occupied` set or not yet freed; `ctx` their contents; `probe` the `i` of a scan, one step per slot because TR_SEND frees meanwhile. |
| `SendBase` | the queue of TR_SEND's event base (external) and its socket list | `sendq` the active events in order, `zsocks` the type of the socket under each name. |
| `TrRecv` | `evsock_pull_read`, `err_msg_reply` | `rpc` is the point in the handler, `cur` its `msg_ctx`. One action per point another thread can observe: wake, drain, each slot of the scan, take, receive and check, post. |
| `TrSend` | the four handlers of TR_SEND | Each handler is one step: it owns its context and its socket list, and the only thing another thread sees of it is the event it posts and the context it frees. |
| `Relay` | clients, TR_RECV, TR_SEND | TR_MGNT is any creation or removal of any service's socket at any time, a superset of what `Registry` lets it post. |
| `Delivery` | abstract: the promise about messages | One variable, the fate of each message. |
| `TrMgnt` | `tr_mgnt.c` | `appls`, `svcname` and `age` are the list of clients (`age` counts seconds since the timestamp); the sweep is one step per client, `cursor` its place. |
| `Registry` | clients, TR_MGNT, the socket handlers of TR_SEND | `status` of each process, `told` the `zutil_regi` throttle. |
| `ElemList` | `elem.c`, with `insque` and `remque` | `heap`, `key`, `forward`, `backward` are memory; freed fields read as `Junk`; `now` is `list_element`'s. |
| `OrderedList` | abstract: the contract of `elem.c` | A set of keys and the last one visited. `SendBase` (a map by name) and `TrMgnt` (a walk by rank) are written against it. |
| `TickStat` | `tick_stat` and the `STAT_INC`s | `val` the counters; each atomic operation is one step. |
| `Startup` | `initialize_main`, `io_thread` | `mpc` and `i` are main's; `th` says how far each thread is; `Post` is `event_base_once` on a base that may not be there. |
| `Client` | `zutil.c` in the loop of the sample client | `turn` is the next call of the loop; `inq` how many messages wait in each socket; `age` the seconds since the timestamp. |
| `Broker` | the three threads around one event base, with clients of both kinds | The variables of `Relay` and `TrMgnt` with `Registry`'s clients; `Relay`'s arbitrary socket events are replaced by what TR_MGNT posts. |
| `FortVector` | the vectors of `fort.c` | A vector is its items and its capacity; what no call has written reads as `Junk`. One that could not grow is `Nowhere`: its items are lost, `vector_reallocate_` has put a null pointer in their place. |
| `FortTable` | cells, rows, cursor, strategies, erasing, spans, separators, copies | `rows` and `separators` are vectors; `cur_row`, `cur_col` the cursor; a call is split where it allocates, and `todo` is what is left of it, so that it can fail at each point. `spoiled` is the end: a call that does not come back, or that has lost a vector in growing it. |
| `FortGrid` | abstract: what a table promises its caller | The texts with their places, the cursor and the strategy; no rows, cells or memory; `End` takes all texts, those of one row or none. |
| `FortProps` | cell, column, row and table properties | An entry for each position that was set, with its flags and values, and how a cell's value is looked for in them. |
| `FortPrint` | `ft_to_string` for `char`: widths, heights, borders, spans, the buffer | What is measured before printing and what each line then writes; `conv_buffer` is the size of the buffer, `shown` what became of the last printing: a string, a failure, an overrun of the buffer by a byte, no memory, or the assertion a colour without a tag runs into. |
| `MCRelay`, `MCRegistry`, `MCBroker`, `MCFortPrint` | | Small instances for TLC. |
| `RelayProofs` | | The theorems about `Relay`: its inductive invariant, then where messages are and what the statistics say, then the refinement of `Delivery`. |
| `RegistryProofs`, `BrokerProofs`, `ElemListProofs`, `FortTableProofs`, `FortPrintProofs` | | The theorems about the module each is named for. |
| `MainProofs` | | Those about main threads: `Startup` (whose specification is `StartSpec`) and `TickStat`, which are the broker's `main.c`, and `Client` (`ClientSpec`), the sample client's. |
| `DataLemmas` | | Lemmas about data that several of them cite: sockets and queues, induction up to a number, functions defined by recursion. |

Histories, read by no guard but the bounds': `msgs` beyond those in the socket or a context,
`stat`, `reasons` (which `Relay` counts without the reset of `tick_stat`; `TickStat` has that),
`wire`, `scanned`, `visited`, `done`, `printed`, `raced`, `owed`, `nowhere`, `from`, `tally`,
`last` and `strayed`. Definitions that a comment calls a mutant are plausible mistakes in the code, defined
beside the operator they would replace; each property of each run is known to fail when its
mutant, named in `PROJECT.json`, takes the place of the original.

### Assumptions about what the repository does not contain

- `event_base_once` with no timeout activates the event at once, under the base's lock
  (`evthread_use_pthreads`), and active events run first in, first out.
- `ZMQ_FD` fires on the transition from empty, and for a peer that connects; reading
  `ZMQ_EVENTS` or meeting `EAGAIN` re-arms it. A multipart message arrives whole.
- Any relay may be refused (no peer, queue full, no such routing id: the ROUTER socket is
  mandatory, `main.c:97`), as a whole. A PUSH socket with a peer may also accept it.
- `occupied` is a plain `int` shared by two threads. A read returns the old or the new value;
  a stale value makes TR_RECV skip a slot, which the interleavings contain.
- `event_base_loop` runs every event that is active before it polls again, the expired timer
  of the sweep among them.
- In the broker `calloc` and `malloc` succeed: the program does not survive their failure. In
  libfort every allocation of a row, a cell, a separator or a text may fail, as `fort.c` checks
  each, and so may the growing of any vector. A vector that could not grow has lost what it held
  (`fort.c:7242` sets its memory to the null pointer and keeps its size), and that is where the
  model of the table ends: what a later call does through that pointer is undefined.
- A PUB socket drops what nobody can take, a PUSH socket takes a message whole or refuses it.
- A client process keeps its service name and takes a fresh uuid when it starts
  (`zutil.c:32-41`).

## 3. The runs

| Run | Instance | Distinct states | Shows |
|---|---|---|---|
| `relay_safety` | 2 slots, 1 malloc, 2 messages of 6 kinds (good; for an instance and longer than the buffer; bad type; bad route; no body; wrong size with an extra part), services `svc` and one called `ROUTER`, 1 pending socket event; fair | 300 280 | `TypeOK`, `MessageBoundary`, `NoLostWakeup`, `FaithfulDelivery`, `StatBalance`, `RouterKept`, `EverySettled`, and `Relay` implements `Delivery` (`KeepsPromise`) |
| `relay_pool` | 2 slots, 2 mallocs (symmetric), 4 messages of 2 kinds | 904 438 | `ContextOwnership`, `MallocMeansExhausted`, `ExactlyOnce`, `RelayOrder` |
| `registry_safety` | 3 clients (2 of one service, 1 of none), strays, queue 2, events 3, no grace; TR_MGNT may lag | 1 975 631 | `SocketFollowsRegistry`, `NoLostAnnouncement` |
| `registry_live` | 2 clients of one service, grace 1, each of the three paces; fair | 40 668 | `DeadForgotten`, `DeadServiceClosed`, `ServiceOpened`, `OnlySilentExpire` |
| `broker` | 2 clients of one service, 1 message, 2 slots, queue 1, 2 socket events, no grace | 802 226 | `SocketWaits`, and `Broker` implements `Relay` (`ImplementsRelay`) and `Registry` (`ImplementsRegistry`) |
| `startup` | threads get into their loop within main's second, creation may fail, 3 early messages; fair | 713 | `NothingPostedNowhere`, `EarlyServed` |
| `client` | 2 messages in each of 3 sockets, counters to 1; fair | 3 895 | `AnnouncesSinceLast`, `KeepsAnnouncing`, `TrafficRead` |
| `elem_list` | 4 addresses, 4 keys | 4 477 | `WellLinked`, `NeverDangles`, and `ElemList` implements `OrderedList` (`KeepsOrder`) |
| `tick_stat` | 2 messages, all 9 counters; the tick is fair | 246 319 | `NoneTwice`, `LostOnlyInWindow`, `EveryCounterReset` |
| `fort_table` | vectors of 1 that must grow, cursor within 2 rows and 3 columns, 4 calls, any allocation and any growth may fail | 336 156 | `TypeOK`, `GapsOnlyBehindEnd`, `SeparatorsStay`, `OnlyThreeTear`, and `FortTable` implements `FortGrid` (`ImplementsGrid`) |
| `fort_print` | 6 small tables with rows of unequal length, spans, slaves without a master and separators; 2 calls of any setting or style between printings | 167 965 | `FailsOnlySpanned`, `LinesLevel`, `SetReachesItsCells` |
| `relay_oversize` | | | the finding of section 5 |

**Why the bounds are enough.** Two slots and four messages are the least that fill the pool
while one context is queued, one is being relayed and TR_RECV scans: the scan then wraps,
skips, is overtaken by a free, and ends in a malloc, twice. `MAX_MSGCTX_NUM` is any number
above one in the proofs, so the slots TLC uses are not where the confidence comes from. Two
messages are enough for the properties of `relay_safety`, which relate a message to its
neighbour in the socket, in a reused buffer or in the queue. Sizes go to 3 against a buffer
of 2. The only interactions of `Registry` are among clients of the same service, hence two of
them, with a third that has no service. `Expiry` stands for 10 seconds; 0 and 1 are enough for
a client to be dropped, to come back within its grace, and to be listed again by a late
announcement. Bounds are CONSTANTS used in a guard and named `bound` where they are declared:
`MaxMsgs`, `MaxMgnt`, `MaxQueue`, `MaxEvents`, and the sets `Temps` and `Nodes` of addresses.
With all `Temps` in use TR_RECV waits, which malloc does not; there are as many as can be
needed in `relay_safety`. One message is enough for `broker`: what the two paths add to each
other is the order of one message and the orders to open and close one socket. `startup` needs a
message more than it has threads to be served by, `client` two messages in a socket to tell
"one left" from "empty"; a counter to 1 distinguishes a counter that was reset from one that was
not. In `fort_table` a vector of 1 grows, or is lost, at its second item, 4 calls are enough to write,
move beyond the end, write again and erase or separate; the printing run starts from whole
tables instead. 2 calls are one setting on top of another (a later one wins, a column's under
a cell's).

`CHECK_DEADLOCK FALSE` is said only where the system may stop: `startup` (main may give up, and
clients may have nothing left to push), `fort_table` and `fort_print` (a caller need not call,
and a spoiled table ends the program).

**Fairness.** Weak fairness of the next step of TR_RECV, TR_SEND and TR_MGNT: each runs
`event_base_loop` and blocks only when it has nothing to do (every socket call is
`ZMQ_DONTWAIT`). Weak fairness of the clock, of the main thread and its
periodic timer, of each thread's way into its loop. Strong fairness of the start of the sweep
(`SweepStart`): the base runs every active event before it polls again, so a timer that has
expired runs when TR_MGNT comes back to its base, however seldom. Nothing is assumed of
clients: they may stop at any time, and the loop of one that does run (`Client`) is weakly fair.

What `Registry` says of liveness depends on who is how fast, and `pace`, constant in a
behaviour, names the three cases. `lagging`: nothing is known; a dead client is then forgotten
if TR_MGNT finds its socket empty again and again, because the loop of `evsock_sub_read`
(`tr_mgnt.c:134`) has no other end and no sweep runs inside it. `prompt`: TR_MGNT is done with
a second before the next one begins, which the client's throttle (`zutil.c:107`) makes likely,
not certain. `punctual`: besides, a client that is up announces itself every second;
`OnlySilentExpire` is about such clients, and no liveness is claimed there, since time waits
for them. `Client` has the same condition on its own side: a client whose sockets are never
found empty stays in its inner loop and does not announce itself (`KeepsAnnouncing`).

**Refinement.** `Delivery` has no threads, contexts or queues: messages are received in order,
accepted ones are decided upon in order, rejected ones are answered in any order, and service
never stops. `Relay` maps the fate of a message from where it is: in the socket, in a context
(by its response code), or on the wire. `ElemList` maps its chain to the set of its keys, and
the walk to the greatest key it has visited. `Broker` is `Relay` as it stands (TR_MGNT's events
are among those `Relay` allows), and `Registry` with the queue restricted to socket events;
so the theorems about both hold of the whole; that is proved (section 4). `FortTable` maps its
rows to the set of texts with their places; a call that only makes room, sets types or fails early
is a stutter, one that fails half way leaves the grid as `PutFails` or `LineFails` says, and a vector
that cannot grow is its `End`: all texts are lost, or those of one row. That is proved too.

## 4. The proofs

Everything in this section holds for every value of the constants the named assumptions admit.

| Theorem | Module | What is proved |
|---|---|---|
| `RelayInvariant` | `RelayProofs` | `[]IInv`, the inductive invariant of `Relay` |
| `TypeCorrect` | | `TypeOK`, with the scan and `CURR_POS` inside the pool |
| `OneOwner` | | `ContextOwnership` |
| `DeliveryIsFaithful` | | `FaithfulDelivery`: of a body, as far as a context's buffer reaches; `BodyFitsBuffer` (section 5) is about the rest |
| `RelaysInOrder` | | `RelayOrder` |
| `NoSleepOnMessage` | | `NoLostWakeup` |
| `ReceivesAtBoundary` | | `MessageBoundary` |
| `RouterSurvives` | | `RouterKept` |
| `OnePlace` | | `ExactlyOnce` |
| `MallocNeedsFullPool` | | `MallocMeansExhausted` |
| `StatisticsAddUp` | | `StatBalance` |
| `DeliversAsPromised` | | `Relay` implements the safety part of `Delivery` (of `KeepsPromise`) |
| `WholeImplementsRelay` | `BrokerProofs` | `ImplementsRelay` |
| `WholeImplementsRegistry` | | `ImplementsRegistry` |
| `WholeLosesNothing` | | `ContextOwnership` and `ExactlyOnce` of the broker whole |
| `WholeDelivers` | | the same of the broker whole as `DeliversAsPromised` of `Relay` |
| `WholeFollowsRegistry` | | `SocketFollowsRegistry` and `NoLostAnnouncement` of the broker whole |
| `SocketInTime` | | `SocketWaits` |
| `RegistryInvariant` | `RegistryProofs` | `[]IInv`, the inductive invariant of `Registry` |
| `TypeCorrect` | | `TypeOK` of `Registry`: in particular only services are posted about |
| `SocketsFollow` | | `SocketFollowsRegistry` |
| `NoSleepOnAnnouncement` | | `NoLostAnnouncement` |
| `SilentOnly` | | `OnlySilentExpire`, if there are no strays and `Expiry > 0` |
| `ElemListInvariant` | `ElemListProofs` | `[]IInv`, the inductive invariant of `ElemList` |
| `StaysLinked`, `WalksOnLiving` | | `WellLinked`, `NeverDangles` |
| `ImplementsOrderedList` | | `KeepsOrder`: `ElemList` implements `OrderedList` |
| `NothingNowhere` | `MainProofs` | `NothingPostedNowhere`, if `SleepSuffices` |
| `TallyInvariant` | | `[]IInv`, the inductive invariant of `TickStat` |
| `NoCountTwice`, `LossNeedsRace` | | `NoneTwice`, `LostOnlyInWindow` |
| `AnnouncesWhatItDid` | | `AnnouncesSinceLast` |
| `FortInvariant` | `FortTableProofs` | `[]FInv`: the inductive invariant of `FortTable`, or (`Lost`) what remains once a vector could not grow |
| `TypeCorrect` | | `TypeOK` of `FortTable`: every vector fits its memory, unless it could not grow and has ended the table |
| `NoGapOfItsOwn` | | `GapsOnlyBehindEnd` |
| `TornByThreeOnly` | | `OnlyThreeTear` |
| `TextsApart` | | no text is in two cells |
| `SeparatorsGoWithRows` | | `SeparatorsStay` |
| `TableIsGrid` | | `ImplementsGrid`: `FortTable` implements `FortGrid` |
| `TypesKept` | `FortPrintProofs` | the types of entries, defaults, style, margins and buffer |
| `PrintingFits` | | `FailsOnlySpanned` |
| `LinesAreLevel` | | `LinesLevel` |
| `SettingReaches` | | `SetReachesItsCells` |

Those about `Relay` rest on `PoolAssumption` (the pool has more than one slot, malloc returns
no slot), `NoCtxAssumption`, `EnvelopesAssumption`, `BoundsAssumption` and `MsgSizeAssumption`;
those about `Registry` on `ExpiryAssumption`, `RankAssumption`, `SvcOfAssumption`,
`StraysAssumption` (a client keeps its service name) and `NamesAssumption` (the empty name is
no service's); those about `Broker` on its own parts' and `ClientsAssumption`, which is the same
for its clients (besides, the empty name is no client's uuid: `zutil_init` makes one up), and from
which `RegAssumed` derives what `Registry` assumes. Those about `ElemList` rest on
`KeysAssumption` (a key of the list comes after the root's) and `AddressAssumption` (the root and
what is freed are no elements, and addresses are finitely many). Those about `FortTable` rest on
`FortAssumption` (a vector is made with room for at least one item, and the cursor starts inside the
bound) and `JunkAssumption` (what nobody has written is no cell); its bounds `MaxRows`, `MaxCols` and
`MaxCalls` may have any value, so the theorems are about tables of any size. Those about `FortPrint`
rest on `PrintAssumption`: cells, positions, values, styles and margins have the types the C calls
admit; tables may have any size and any mixture of cell types, properties any value of their type.

### The relay path

**The invariant.** None of the properties above is inductive by itself. `IInv` adds what holds
them up:

- `QueueIsRest`: the socket holds exactly the messages not received yet, so that the next one
  received is new;
- `ContextsReady`: what is in a context follows from where it is: clear when TR_RECV is about
  to receive, filled from its message and marked OK on its way to `push_relay`, marked with an
  error on its way to `router_err_reply`; this is what makes a send faithful. A filled buffer holds
  as many of its own message's bytes as there is room for (`OwnBody`, by lemma `StoredIs`), and
  nothing of a message that was in the context before;
- `WireReceived` and `OnlyLastInHand`: the message in TR_RECV's hands is the last received,
  and is neither queued nor sent;
- `QueueOrder`: messages wait for their relay in order, behind all that were relayed, although
  replies are posted in between; with `OnlyLastInHand` it gives `RelayOrder`;
- `WaitsArmed`: TR_RECV waits with a signal pending, or armed at an empty socket.

The parts that are properties are checked by `relay_safety` and `relay_pool`. The proof has one
lemma per group of its
conjuncts (`TypeStep`, `OwnershipStep`, `ReadyStep`, `CountStep`, `WireStep`, `RouterStep`,
`SocketStep`, `LastStep`, `OrderStep`), each with a step per action. They share lemmas on what
`event_base_once` and running an event do to the queue (`AfterPost`, `AfterRun`,
`AfterRunAndPost`), on what receiving does to the socket and the context (`HeadReceived`,
`HeadFills`), and on where the events and wire entries of a step come from (`EventsOrigin`,
`WireOrigin`).

**Where the messages are.** The next part goes on from `IInv`. Of everything the handlers do,
only five kinds of step matter to the contexts, the wire and the messages (lemma `Moves`):
nothing moves, a context is taken, given back, filled, or sent off. `Places` says without any
counting that a received message is in a context or on the wire, not in both and nowhere twice,
and is kept by each of the five if a context about to be filled is empty (`Fresh`);
`ExactlyOnce` counts the same. In the same way only four kinds of step matter to the statistics
(`StatMoves`). `ScanSaw` is the invariant of a scan: the positions it has passed, and whatever it
will still find occupied, were occupied when it began, for TR_SEND only frees and nobody else
takes; with `ScanCovers` (the N positions from `CURR_POS` round the end are all slots) it gives
`MallocMeansExhausted`.

**The promise.** The last part reads the fate of a message off its place (`FateIs`), shows
that it changes only if the message moves or the code of its context does (`FateKept`), and maps
each action: a receipt is of the first queued message since the socket holds the rest in order, a
decision of TR_SEND is on the first accepted one by `QueueOrder` (`HeadIsFirst`), a reply ends a
rejected one; all other steps stutter.

### The registration path

`IInv` of `RegistryProofs` is `TypeOK`, `NamesKept` (a client that is listed, and one that waits
in the SUB socket to be, has its own name), `WaitsArmed` (as in `Relay`), `OnlyPush` (no service
but one of that name has the ROUTER socket) and `SocketFollowsRegistry`. The last is an
alternation: the pending events of a service open and close its socket in turn, the first
changes what there is and the last leaves what the list says. It is kept by one more event at the
end exactly when the service gets its first client or loses its last (lemma `OneMore`), by one
event less at the front exactly when the socket changes (`OneLess`), and by whatever concerns
another service (`OtherPosts`). That `find_svc_exist` counts the client in hand and its caller
compares with one is what makes an event be posted at those two moments and at no other
(`ListStep`, `UnlistStep`); without `NamesKept` an update could take a service its last client
with no event at all.

`OnlySilentExpire` has an invariant of its own, `Punctual`: no client is listed that has not
started (`ListedNotNew`), what waits in the SUB socket is some client's own announcement
(`OwnOnly`), and the stamp of a listed client that is up is at most a second old, and of this very
second if the client has announced itself in it, unless that announcement still waits
(`FreshStamps`). Its two hypotheses are what it takes: a stray could carry
any client's uuid, while `zutil.c` publishes nothing but a client's own; and with an expiry of
zero the sweep drops whoever announced himself a second ago.

### The whole

`BrokerProofs` needs no more of TR_MGNT, for the relay path, than the types of what it has heard:
a step of it posts at most one event, about a service, and touches nothing else (`MgntPosts`).

For the registration path its queue must be found in TR_SEND's. `SocketEvents` picks the socket
events out of a queue, one by one; that it does so with any queue, and what it picks when one is
appended or run (`EventsAppend`, `EventsTail`), is proved by induction on the queue's length.
Then each step of TR_MGNT is one of `Registry`'s with that queue (`MgntIsReg`), running a socket
event is too (`SocketEventRun`), and traffic is a stutter (`TrafficFrame`).

With both, `SocketWaits` follows from an invariant about places in the one queue. A message is
`owed` when its service had a client at its posting and has had one ever since. `NoneBehind`: no
event about that service is posted behind an owed message. An order to open the socket is posted
for the first client only, and then the service had none; an order to close it for the last, and
then the message is owed no more. So when the message is at the head the service's events have all
run, and by `SocketFollowsRegistry`, which `WholeImplementsRegistry` brings over, what they left
is what the list says: an open socket (`HeadFindsSocket`).

### The list

`IInv` of `ElemListProofs` has two parts. `Links` is local: what an element points to points back,
and has a smaller key on the one side and a greater one on the other. It is inductive by cases on
the two or three elements that `insque` or `remque` touches (`InsertKeeps`, `RemoveKeeps`), given
that an insertion happens at the right place. `Walk` says that what was visited lies before the
element at hand, and that nothing is listed in between.

That `Links` makes one chain is a fact about any memory of that shape. `NthIs` shows that
following `forward` is well defined, `Ascending` that keys ascend along it (by induction on the
steps), `Ends` that it ends: otherwise it would pass more elements than there are addresses.
`AllReached` is then by the smallest key that is missed, whose predecessor is not; `Ordered` says
that a successor has the next key. From these, `get_element` finds a key if it is there (`Found`)
and the loop of `add_element` stops at the place for a new one (`TargetIs`), which is what
`InsertKeeps` was given. The refinement reads the same facts as facts about sets: a visit is of
the least key ahead, and the walk ends when there is none (`ListStep`).

### Startup, statistics and client

`MainProofs` needs, for `Startup`, one invariant, `InOrder`: the threads created so far, but for the last, are
in their loops or were never born. Where TR_RECV or TR_MGNT can post, TR_SEND is then there or
has failed. The assumption `SleepSuffices` is the very one the code makes with `sleep(1)`.

For `TickStat` the strengthening is `ReadIsLeft`: in the window, a counter holds at least what
was read of it, and no more unless it raced. Without it a reset might throw away more than what
came after the read.

For `Client`: the counters are at any time those of the time since the last announcement
(`CountsSinceLast`).

### The table

**Vectors.** The first part of `FortTableProofs` says what each operation of `FortVector` makes of
a vector that fits its memory (`Vec(S)`: the vectors of members of S), item by item: `BeforeIs`,
`PadIs`, `SplitIs`, `EraseIs`, `InsertRowIs`, `SwapRowIs` and so on. Loops are recursive
functions; `PadIs` says what the one that pads makes, and `RemoveRule`, which stands for induction
over the other, says of the loop of `ft_erase_range` that what is so before it and stays so in each
turn is so behind it. All later proofs of erasing choose a set of loop states and cite that rule.

**The invariant.** `TypeOK` is not inductive: a call on a row with an unwritten cell would follow
a pointer to nowhere. `IInv` says that such cells exist only if the caller strayed (`HeldOf`), and
that until then the cursor is in its row or right at its end; for inserting or replacing there
leaves no gap, and wherever a call leaves the cursor, or shortens the row under it, it is there
again or `strayed` is set. `Whole` adds what the guard of `Next` adds: no gap at all when a call
begins. Memory follows from the vector lemmas, each of which keeps `VectorFits`.
`GrowthStep` leads from `Whole` to `Lost`: one vector is `Nowhere`, the others are as they were, and
as the table is spoiled no call follows. What is proved of the steps of a whole table is proved of
this one beside them (`LostTear`, `LostApart`, `GridLost`).

**Groups.** `TornByThreeOnly` looks at each row: a row is torn if some slave is first or follows
a common cell. Padding, replacing one text and copying tear no row; and `row_set_cell_span`,
complete or stopped after any number of cells, writes a master before its slaves, so that what it
leaves of an older group to the right is slaves behind a slave, or behind the new master.

**Texts and separators.** That a separator stays above its texts can only be followed if a text
is in one place, which is a fact of all calls together: `Apart`, with new texts numbered upwards.
`CameBy` gives each cell of a changed row the cell its text came from, no two the same one, and
each way to change a row has such a map. `Under` then says of changed rows that whatever they
show was shown before under the same separator, or is new; it is the loop state for erasing,
where rows and separators move up together.

**The grid.** `PlacedAt` reads off a row and a column what text is there, and `Placed` is the set
of that (`PlacedIs`); two tables have the same grid if they agree at every place (`SamePlaces`).
Each way to change a row is then described by what it shows at each column (`PutIn` for what is
written at the cursor, `FedAt` for a row split in two, `ClosedAt` for a rectangle erased), and
shown to be the abstract call's set (`GridWrite`, `GridPrintf`, `GridLn`, `GridErase`, one lemma
per call). For the rows that erasing removes, `Gone` is the loop state: the set of rows gone so
far, of which the abstract call names one, with the place `RowLeft` counts for every row that is
left.

### The printed table

`FortPrintProofs` keeps three things, and only the types (`PrintInv`) are inductive in the usual
sense: what a printing shows depends on nothing but the state it is made in, every other step takes
back what was shown (`ShownByPrinting`), and what the properties speak of changes only with the
table (`Unmoved`). So the work is in two facts about one printing, `RenderedFits` and
`RenderedLevel`, for all tables.

**Widths.** `Total` is a sum up to a number, and a group's width a difference of two (`BetweenIs`).
What `Widen` adds to the columns of a group is what the group lacks, whatever is left over when that
is divided (`SpreadIs`), so behind it the group is as wide as it has to be (`WidenIs`). The two
loops over columns and rows are recursive functions with widths that only grow (`ColumnRuns`,
`TableRuns`): a column stays as wide as its widest cell and a group as wide as it was made, however
many groups overlap it afterwards (`ColWidthsIs`). This makes `cell_printf` accept every cell that
has its master (`CellsFit`).

**Two measurements.** The buffer is measured with the tags, and printed in widths without them.
If there is no group, the columns with tags are wider by at least the tags of any of their cells.
If there is no tag, both measurements are the same, loop by loop (`WidenSame`, `WidthsSame`). In both
cases the cells of a row, with their tags, fit into the columns measured (`RowsFit`). With groups
and tags neither holds, and the run shows that the exception is real. What happens then, failure or
overrun, both happen for want of room and so are excluded together (`RenderedIs`).

**Lines.** The printed cells of a row cover each column once (`TilesCover`, by climbing along the
columns), so a row's line is the sum of all columns, a separator for each but the last, ends and
margins; a line between rows is that by its shape. The first sum against what was measured, each
element at most `max_border_elem_strlen` bytes, gives the bytes of a line (`RowBytesLe`,
`SepBytesLe`) and then of all lines (`BytesLe`): never more than the product of height and width, to
which the buffer adds the closing zero. On the screen each element counts one, and if the style is
not ragged the two sums are one (`RowLevel`, `SepLevel`).

**Properties.** A lookup takes the first of four places that decides (`LookupIs`), and an entry that
is closer is one that is looked at before (`CloserIs`). What no entry was given reads as 0, which a
refused value relies on (`PrintInv`: its flag is set, its value is not). `ReadAfterSet` compares what is found before
and after a call at each of the four. The case that matters is the entry for all cells: it is made
as a copy of the defaults, flags and all, and changes nothing only because its values are the
defaults at that moment, which the lookup would have come to.

### Induction

The library's induction rules take the statement to prove as an operator, which the provers
cannot instantiate. `DataLemmas` states them about sets instead: a set of naturals has a least
element (`Least`, from the library's `WFMin`), so a set with 0 and the successors of its members
is all of `0 .. N` (`Climb`), so a recursion up to N has a solution (`Recursion`). `EventsAppend`,
`NthIs`, `Ascending`, `AllReached`, `PadIs`, `RemoveRule`, the sums of `FortPrintProofs` and its loops
over columns and rows (`ColumnRuns`, `TableRuns`, `TilesCover`) rest on these.

### Only model-checked

All liveness (`EverySettled`, the fair part of `KeepsPromise`, `DeadForgotten`,
`DeadServiceClosed`, `ServiceOpened`, `EveryCounterReset`, `EarlyServed`, `KeepsAnnouncing`,
`TrafficRead`) stays with TLC, as fairness and ENABLED are out of the prover's reach.

Every safety property, action property and refinement that a passing run checks is thus proved;
`OnlySilentExpire` and `NothingPostedNowhere` under the hypotheses the table names, which their runs
share.

## 5. Findings

- **`BodyFitsBuffer`** (run `relay_oversize`, `tr_recv.c:110`). `zmq_recv` returns the size of
  the part, not of what fitted into the buffer. A body of the claimed size, longer than
  `MAX_MSGSIZE_BYTE`, passes the check and is relayed with its full length from a shorter
  buffer. The sample client sends bodies of 4096 bytes against a buffer of 1024.

Noted while modelling, and carried by no run of their own. In the broker and its client:

- The reason of a size mismatch names the received size twice: `n_bytes` is overwritten before
  it is printed (`tr_recv.c:111`). `TrRecv` models it so.
- A counter is read and reset in two operations (`main.c:248`): what is counted in between is in
  no line of the log. `LostOnlyInWindow` is what remains true.
- `pthread_create` reports failure by a positive number, which `< 0` (`main.c:64`) does not see.
  `Startup` has it, and its properties say what is then lost.
- `zutil_recv` ends the body with a zero at the size `zmq_recv` returned (`zutil.c:200`), which is
  behind the buffer if the body fills it, and further behind if it was cut.
- A listed uuid that announced another name (`tr_mgnt.c:54`) would move without an event;
  `zutil.c` never does that.

In libfort, as `FortTable`, `FortProps` and `FortPrint` model it:

- A table with a spanned cell over columns that have a colour or text style may be measured too
  small; `ft_to_string` then returns NULL although it has just determined the size
  (`fort.c:3318`), or writes one byte behind the buffer, as the test of `ft_nprint`
  (`fort.c:4087`) lets a text pass that is a byte longer than what is left. So it may for a slave
  cell that lost its master. These are the exceptions of `FailsOnlySpanned`.
- A vector that cannot grow loses what it held and keeps its size, with a null pointer behind it
  (`fort.c:7242`), also where the call then reports the failure: the cells of a row or all rows in
  `ft_write` and `ft_set_cell_span`, all rows in `ft_ln`, all separators in `ft_add_separator`.
  `ft_copy_table` does not look at the result of `vector_push`.
- `ft_erase_range` takes the current row for the current column (`fort.c:2846`): `ColArgs`. And
  `ft_set_cell_span` tests the row against `FT_CUR_COLUMN` (`fort.c:3644`), so that this value as a
  column makes it fill the row with cells until memory is out (`SpanLoses`).
- `FT_COLOR_LIGHT_WHYTE` is 17 (`fort.h:815`; no colour is 14), but the tables of tags have the
  17 entries 0 to 16 (`fort.c:4248`). Printing a cell of that colour comes to the `assert(0)` of
  `fort.c:4336`, which its comment calls unreachable: `Abort`.
- A default for `FT_CPROP_ROW_TYPE` sets that flag in the defaults (`fort.c:4648`), and with them in
  the entry for all cells if it is made later (`fort.c:4595`). A value that is refused has set
  its flag before the refusal, so it may hide what an entry farther away says;
  `SetReachesItsCells` allows for that.
- Writing in INSERT mode behind the end of a row leaves cells nobody has written (`fort.c:7330`),
  and so does replacing them behind the end through `vector_swap`. `GapsOnlyBehindEnd` says where.
- `ft_ln` in INSERT mode splits a row but moves no separator, and when it fails it may have lost
  the rest of the row; the functions that write a line do not look at its result. It is one of
  three calls that can part a slave cell from its master (`OnlyThreeTear`).
- The range of `ft_erase_range` is not limited by the row (`fort.c:2866`, `fort.c:5386`).
- Besides: an empty header line clears the border characters of the body instead
  (`fort.c:3531`); defaults set with `ft_set_default_cell_prop` reach tables that exist already
  (`fort.h:851`); the buffer of
  `ft_to_string` is used again by `ft_to_wstring` (`fort.c:3328`).

## 6. Not modelled

- The text of reasons and logs, stamps, application names and traffic counters of an
  announcement, as nothing depends on them.
- Failure of socket creation and of memory in the broker, which does not survive it, and the
  failure of the second part of a message whose first part was taken (`tr_send.c:12`), which
  ZeroMQ rules out.
- A listed uuid that announces another service name (`tr_mgnt.c:54`) is in `TrMgnt` but outside
  `Registry`'s clients, which keep theirs (`zutil.c`).
- The PUB socket of TR_MGNT and the PAIR socket of the main thread are created and never used.
- `zutil_close_all`, which nothing calls (`Leave` of `Registry` is a process that dies), and the memory behind a received body (`zutil.c:200`).
- Of libfort: what a call does to a table one of whose vectors could not grow, as it goes through
  a null pointer; output in wide characters and UTF-8 and the width of a character, the parsing of
  format strings and of separated text, alignment within a cell, the choice of memory functions,
  and `ft_strerror`. They are data conversion, and most of it is the same code once more for
  another character type.
- `zhelpers.h` and the builds of the libraries.

## 7. Plan

What is left is the wide-character and UTF-8 variants of printing, if the broker ever calls libfort.
