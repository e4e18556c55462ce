# Modbus Devices: formal models

TLA+ models of `custom_components/modbus_devices`, a Home Assistant
integration that polls and commands Modbus equipment over a shared client:
TLC checks the models on small instances, and TLAPS proves the most important
properties for every instance.

## The system

Everything runs on one asyncio loop. Interleavings happen at `await`s only; the
locks are asyncio locks (FIFO). The parts, their state, and what makes them
correct:

| part | state | operations | correct when |
|---|---|---|---|
| `modbus_client.py`: shared client | request lock | one request, or one section of several (`async_execute_serialized`) | sections are not interleaved |
| `s2000_pp.py`: selector transactions | per client and gateway: parked request, session lock | `async_read` of numeric and counter values | a READY value belongs to the zone asked for; nobody is blocked for ever |
| `s2000_pp.py`: relay writes | none (one section) | FC05 with repetition on exception 15, FC01 readback | success means the relay is in that state |
| `s2000_pp.py`: configuration, cache | cached tables | chunked read, parse, `async_get_or_load`, `invalidate` | a reload sees edits; no mapping is refused on an old table |
| `coordinator.py` + entities | `data`, write generation, pending patches, running poll | refresh, optimistic and confirmed writes | what is shown never goes back, and converges |
| `rtu_over_udp.py` | socket, epoch, taint, quarantine, closed flag | connect, close, request | an answer belongs to its request; it recovers; closed stays closed |
| `rtu_over_tcp.py` | stream, buffer, closed flag | connect, close, request | the same, and no connection leaks |
| `__init__.py`, `runtime.py`: lifecycle | entries, clients and their owners | setup, unload, reconciliation | every open client has one owner that closes it; no duplicate claims |
| `gateway.py`, `mapping.py` | the mapping stored with an entry | resolution, validation, repair, DPLS identities | a stored mapping fits its device and the table; unique and non-overlapping claims |
| `config_flow.py` | the flow's choices, an open client | steps | no device or DPLS address is claimed twice; mappings come from the table as it is; a refusal is reported |
| `equipment/*.py` | cursors, latches, clocks, cached outputs | snapshots and commands of 30-odd devices | every value is read again; a latch follows evidence; a confirmed command took effect |
| sensors, presentation, dashboard | none | show data | - |

How they interact: an entity's command calls its device object, which uses the
shared client (request lock) and then tells the coordinator. The coordinator's
refresh calls the same device object. Child entries of an S2000-PP gateway use
the gateway entry's client, the selector session of that client, and the
configuration cache of the gateway. The transports are used by the client under
its lock, one request at a time; `close()` alone comes from outside, at any
moment.

The hard behaviours: a poll overtaken by a command; a request that stays parked
over several polls of several children; exchanges that time out or are
cancelled after the gateway acted on them; transports without transaction ids;
`close()` during a connect, a quarantine or a request; loads of a table that
take seconds while it is edited, invalidated or loaded by somebody else.
`PROJECT.json` lists them line by line under `hazards`.

## The modules

| module | models |
|---|---|
| `S2000PPSelector` | selector sessions of an S2000-PP gateway and its children |
| `SelectorService` | what that protocol promises (abstract) |
| `S2000PPSelector_proofs` | proofs about it |
| `Coordinator` | one device coordinator, its polls, the commands, the device |
| `MonotoneView` | what a coordinator promises (abstract) |
| `Coordinator_proofs` | proofs about it |
| `RtuOverUdp` | the RTU-over-UDP client, the network, time |
| `RtuOverTcp` | the RTU-over-TCP client and its peer |
| `ExchangeService` | what both transports promise (abstract) |
| `RtuOverUdp_proofs`, `RtuOverTcp_proofs` | proofs about them |
| `ConfigurationCache` | the configuration cache of a gateway and the setups that use it |
| `ConfigurationCache_proofs` | proofs about it |
| `ConfigFlow` | concurrent config flows, the gateway's entry, the entries they create |
| `ConfigFlow_proofs` | proofs about it |
| `BolidModels` | what each Bolid class behind a gateway offers, accepts and repairs (data) |
| `GatewayMapping` | the life of the mapping stored with a child entry |
| `Lifecycle` | setups and unloads of entries, and the clients they make, borrow and close |
| `Lifecycle_proofs` | proofs about it |
| `ExclusiveHolding` | what config flows promise of identities and addresses, and the lifecycle of clients (abstract) |
| `DevicePolling` | polls of several exchanges: cursors, latches, torn reads of a zone |
| `DeviceCommands` | write commands: repeated, awaited, read back, depending on each other |
| `Devices` | one device with both, under the request lock |
| `RuntimeReads` | how the S2000-PP reader splits addresses into requests |
| `Equipment_proofs` | proofs about `GatewayMapping`, `Devices` and `RuntimeReads` |
| `MC*` | instances for TLC |

Definitions named in a comment as "Mutant" are wrong on purpose: each is one
plausible bug, and the property it is listed with in `PROJECT.json` is violated
when it takes the place of the original.

### S2000PPSelector

One action per await-free section of `async_read`: queue for the session lock
(`StartRead`), decide under it (`NumericRead`, `CounterRead`), get the client
(`AcquireClient`), the FC06 exchange (`NumericSelect`, `CounterSelect`) and the
FC03 exchange (`NumericResult`, `CounterResult`). `Interrupt` is the
`except BaseException` of either exchange or of the wait for the client;
`CancelQueued` is a cancellation before the session lock is held. `pending_request`
is the session's field; `sessionLock` and `requestLock` are the two locks. The
gateway is external: it takes a selection (`armed`), measures (`ready`), and may
restart. It answers exception 15 to a result read only while it measures; all
other exceptions are possible at any time. `answered` is a history variable.

A value is identified by family and zone, as in the key of the parked request:
one row of the zone table has one type and so one kind of value
(`ChannelAssumption`).

Not modelled: the numbers themselves, and a selection that the gateway executes
after the client has given the exchange up and somebody else has the client.

### Coordinator

A value is its version: `dev[p]` counts how often path `p` of the device
changed, so "older" and "newer" are comparisons. `PollStart` takes the
generation, `PollRead` reads one path under the request lock, `PollPublish` is
`_reconcile_pending_writes` followed by the publication, `PollFail` is
`UpdateFailed`. A command is one section of the request lock (`WriteStart`,
`WriteExchange`, then `ApplyOptimistic`, `ApplyConfirmed` or `WriteFail`): a
command of one register is one request, one of several uses
`async_execute_serialized` (`daikin.py:165-171` and its like). The lock is
released and the writes are published without an await in between. `WriteFail`
also covers a write that the device executed but did not acknowledge.

### RtuOverUdp

State as in the client; `remaining` is the rest of the quarantine in ticks,
`deadline` the rest of the response timeout. A datagram is a record of the
request and epoch it answers, its shape (what the client checks: device,
function, length), its part, and its remaining life. `PutOnWire` decides what
becomes of a request: nothing, a reply in one datagram or in two, noise and a
reply, or a duplicate. `Deliver`, `Lose` and `Tick` reorder, lose and age
datagrams. Datagrams of other sources come without end: a waiting request
ignores them (`Ignore`; the bit `ignored` makes each of them a step, so that an
endless stream of them is a behaviour that `CallEnds` has to exclude), and since
they count against the limit of the drain, what `Drains` discards may be less
than the limit. The one assumption on the network is `MaxDelay <= Quarantine`: the
comment at `rtu_over_udp.py:18-22` admits that a datagram later than that
cannot be told apart. `ImplementsExchange` is checked without duplicates: with
them, the second copy of an answered request that arrives during the next one
of the same shape in the same epoch is taken for its answer, as it must be by
any client of this protocol. `EpochsKeptApart` is proved with duplicates too.

### RtuOverTcp

`opened` is the set of connections whose transport is open, so that leaks can
be stated; `conn` is the client's, `fresh` the one `create_connection` has made
and nobody knows yet. `wire` and `buffer` hold pieces of replies. `Abort` is the
deadline or a cancellation. The peer may answer late, in parts, or with noise,
but answers a request on the connection it came from
(`docs/rtu_over_tcp.md`: the gateway must preserve the association).

### ConfigurationCache

One gateway. A chunk's content is its version; `Readable` says in which
versions the rows of an entry are unambiguous. `Setup`, `ReadChunk` and
`FinishLoad` are `_async_reconcile_gateway_mapping` with `async_get_or_load`:
between the lookup and the store lies the load. `Reconcile` is the comparison
with its one retry. `Unload` and `Refresh` invalidate. Three history variables
are what the properties compare with: `began`, the table when the entry's setup
began or, if a first table did not fit, when it began to read again; `since`,
the table at the entry's last unload; and `quiet`, whether no other setup was
reading at that time. `RefusalIsFresh` is about the first: a table that another
child cached and that was edited since, or that this setup read before an edit,
refuses nobody. `QuietReloadSeesEdits` is about the other two.

Neither says that a table that was read existed at one moment: reads torn by an
edit are in the model, and the code cannot tell them from others.

### ConfigFlow

`flow[f]` is a record: the form shown (`page`, `error`), what the step behind
it waits for (`busy`), and the choices made (`route`, `model`, `address`,
`claim`, `objects`). One action per form submission, named after its step; the
steps a submission passes without a form (`_next_step`, `gateway_device` without
DPLS addresses, `mapping_source` into `discovered_device`) are part of it. The
waits are the ones that other flows can use: `connect_modbus` (`Connected`,
`ConnectFails`, `AutomaticConnected`), the load of the table (`ReadEnds`,
`ReadFails`), and the validation in a worker thread (`Check`). Lookups of static
model data in a worker thread are not waits of the model: what they return
never changes. `Check` is `_async_validate_and_store_mapping` after its only
await, with the creation of the entry: no await lies between.

A created entry stays in `flow[f]` (`page = "entry"`), so each flow owns at most
one entry at a time. The gateway's table is one version with one outcome per
model (`Found`); a load returns some version of while it ran (torn loads are
`ConfigurationCache`'s). The route through the gateway's entry and the one
through a transport of the flow are two gateways to the code, and to the model:
the same gateway entered in both ways is not noticed (see hazards).

Recursion without end (`Refused` with nothing left to map) is the page
`crashed`. Not modelled: the fields of the connection forms (only whether the
connection succeeds) and the form `manual_object`, which no model reaches.

### BolidModels and GatewayMapping

A row of the gateway's table is a *cell*: kind, local number (relative to the
DPLS base), zone type. `BolidModels` has one definition per equipment class of
`bolid.py`: the cells it offers for mapping, those its `apply_gateway_mapping`
accepts and requires, groups of alternatives, its number of DPLS addresses, and
which `reconcile_gateway_mapping` it has (`"none"`, the exact footprint, or the
power supply's, which also keeps a mapping of an older version). Partitions and
Modbus addresses are functions of the row and left out.

`GatewayMapping` follows one entry: `CreateAutomatic` and `CreateManual` are the
flow (resolution, validation, storing), `Setup` is `_async_reconcile_gateway_mapping`
followed by `apply_gateway_mapping`, with the phases `refused` (the hook raises)
and `rejected` (the class does not accept what is stored). Between setups rows
are copied over others or the table is written anew. The cached table that a
setup may read first is `ConfigurationCache`'s matter.

### Lifecycle

`phase[e]` is where `async_setup_entry` or `async_unload_entry` of an entry has
come to; each await is a boundary between two actions, and `SetupFails` is the
`finally` of a setup whatever ended it, a cancellation included. Clients are
numbered as they are made. `using` is the local variable of the running setup,
`runtime` the client in `entry.runtime_data`, which is there from before the
platforms are set up until the setup fails or the entry is unloaded. A child
reads the gateway's `runtime_data` whatever the gateway is doing (`BeginChild`),
as the code does. An open client may fail any exchange: only a closed one fails
all. `Restart` of Home Assistant forgets everything.

A gateway that is reloaded leaves its loaded children with a closed client; the
model does so too (`runtime[child]` keeps the old number).

### DevicePolling, DeviceCommands, Devices

`DevicePolling` is `async_get_snapshot` of the classes whose snapshot takes
several exchanges or remembers something. `Program` is the order of the
exchanges of a poll; `cursor` is `_numeric_cursor` or `_extended_cursor`;
`latch` is one of the binary states that follow alarm and restore codes of a
zone, and `Latches` says by which codes and which rule (the classes use five).
Zone codes are the real ones, one alarm and one restore code per latch in every
combination. The zone may change between the read of its primary state
(`ReadPrimary`) and of its expanded states (`ReadExpanded`); `shown` collects
what it was meanwhile. A latch may follow codes of two moments: the code decides
by both reads together, and `LatchSeen` claims no more than that each position
had a code while the poll ran. `"meter"` is `SVK15_3_2_B`; `SVK15_3_8_1_B3` has
its automatic counter polling switched off (`bolid.py:3889`) and reads zone
states only. What the selector answers is `Ready` or `NotReady`.
Twenty-five extended values are three here, and five per poll are two.

`DeviceCommands` has one action per exchange of a command: S2000-PP relays
(`WritePending` is exception 15), the Haier and Samsung controllers of
`fourvrs.py` (`WriteAccepted`, then `Wait` on the result register), ER-G and
TRM-138 (`Check`, write, `ReadBack`). `accepted` is what the device has taken
and not executed; it goes on with it when the command that sent it has failed,
so its result may turn up during the next command. A write of the other devices
that times out was executed by then or never is: of ER-G this is an assumption,
since a write of P101 executed after the next command has lowered P102 would
exceed the new limit. `FrontPanel` is anybody else.
`Deadline` sets what `loop.time() >= deadline` reads, and `Wait` looks at the
result before it looks at that, as in the code.

`Devices` composes the two: a poll and a command never overlap in the request
lock of the client (`Next`).

### RuntimeReads

One read of `S2000PPRuntimeReader`: `_consecutive_ranges` for coils and
registers (`width` 1), `_read_expanded_blocks` for zone states (a block of
registers per address). `group` is the run being formed, `Breaks` the condition
that ends it, `Formed` the request it becomes. Runs of single registers are all
formed before the first request, a run of blocks is read at once (`Grows`,
`Reads`). A register's content is its own address, so that `found`, the result,
shows which registers were kept for which address. The order of addresses is
`Smallest`; a loop over a sorted list is a step per address.

### ExclusiveHolding

Two parts of the system hand out things that two holders must never have at the
same time, and both are shown to implement this one module: config entries take
an identity and DPLS addresses (`Claimed` of `ConfigFlow`; they may be taken
again when the entry is removed), and owners make clients (`Held` of
`Lifecycle`; a closed client is never held again).

## What TLC checks

| run | instance | result |
|---|---|---|
| `selector` | 2 children, 3 values (two numeric, one counter); everything may fail, restart or be unloaded | 7 properties hold |
| `selector_unload` | 2 children, 2 values; one child may be unloaded | `ParkedIsReleased` **violated** |
| `coordinator` | 2 paths, a two-path and a confirmed command, 2 changes each | 4 properties hold |
| `udp` | 3 requests of one kind, datagrams of other sources without end, no duplicates | 5 properties hold |
| `tcp` | 4 requests, 3 pieces in the buffer | 3 properties hold |
| `cache` | 2 entries, 2 chunks, one edited twice and the other once | 3 properties hold |
| `cache_edits` | the same | `ReloadSeesEdits` **violated** |
| `flow` | 2 flows, 5 models, 2 DPLS addresses, one edit | 4 properties hold |
| `flow_refused` | the same | `RefusalIsShown` **violated** |
| `mapping` | every Bolid class, up to 8 tables of its cells and a foreign row, two edits; beside it, the reads of every set of 8 neighbours, single registers or blocks of two, 5 registers per request | 6 properties hold |
| `lifecycle` | a gateway with 2 children, one device of its own, 3 connections made | 3 properties hold |
| `devices` | a device of every kind, 3 values in turn, 3 attempts, 2 accepted writes | 5 properties hold |

The types of the variables are checked where they bound something that is not
obvious (`TypeOK` of `ConfigFlow`: every claim fits into the DPLS addresses) and
proved for every protocol (`TypeCorrect`) and for the mapping (`MappingsValid`). The mapping of an entry and the reads of its
rows share no variable; one run takes both, each with the other at rest
(`MCNext` of `MCGatewayMapping`).

Bounds, and why they are enough. Two children are enough for one to park and
the other to meet it; the third value lets one child park two zones in turn and
two families share a zone number. Two changes of a path allow an old value on
display, a newer one in the running poll and the newest by a command. Three
requests allow one that fails, one that might get its answer, and one after the
recovery. They are of one kind, so that every late answer looks like the answer;
of several kinds, some would be refused. `MaxDelay = Quarantine` is the tightest
quarantine the assumption allows, and both are longer than `Timeout`, so that
answers come after their request timed out; two ticks of `Timeout` tell a
deadline that stays from one that every datagram restarts. `MaxStale = 1` lets
the drain discard one datagram or none. That does not put the drain to a test:
after a quarantine there is nothing but noise to drain, and the properties hold
however little it takes. Two entries and two chunks allow a load torn by an edit
and a load in flight across an unload; the first edit of a chunk makes its rows
ambiguous and the second repairs them, so that a mapping refused by one table is
right in the next one. Two flows are
enough for a claim to be checked against an entry and against a flow that is
checked at the same time; two DPLS addresses and claims of one or two of them
allow equal, overlapping, adjacent and too long ranges. The five models take
every branch of the flow. The flows are interchangeable (symmetry).
Two edits allow a mapping that is repaired, spoilt and repaired again. Three
connections allow the gateway to be set up twice more while a child still holds
its first client; two children, that one fails while the other is loaded. Three
values in turn are the fewest for which a wrong wrap loses one in the middle of
a burst of two. Two accepted writes allow a late one of an earlier command in
front of the current one. Eight neighbours fill more than one request of five
registers, in blocks of two as well; five is no multiple of two, as 120 is none
of sixteen. The mapping run stops where a user gives up a form, a read where it
ends (no deadlock check there).

### Findings

1. `selector_unload`: a child unloaded while its request is pending parks the
   selector for ever. Nothing in `async_unload_entry` clears `pending_request`;
   the session lives as long as the client. The comment at `s2000_pp.py:388-391`
   promises not to block another gateway child indefinitely.
2. `cache_edits`: a load in flight across an unload stores the old table after
   the invalidation; the reload then uses it, against the comment at
   `__init__.py:447-448`. Undisturbed reloads are right (`QuietReloadSeesEdits`).
3. `flow_refused`: a refused mapping by hand is never reported
   (`_manual_mapping_error` is only read by the form that is not shown), the
   refused rows stay, and with nothing left to map the two steps call each other
   until the recursion limit.

Also noticed, and noted under `hazards`: after "Refine the configuration ..."
(`strings.json:36`) the same flow never reads the refined table; children that
are loaded when their gateway is reloaded stay with the closed client.

### Fairness

- `S2000PPSelector`: weak fairness of a call's steps and strong fairness of the
  two lock acquisitions, since asyncio locks are FIFO and every exchange has a
  deadline; strong fairness of a child's polls, since the coordinator polls at an
  interval and does not always cancel; while a value of the child is parked it
  is the one that is polled, since the cursors of the equipment classes advance
  on READY only; the gateway measures, and does not answer "busy" for ever.
- `Coordinator`: a poll is published again and again. Nothing of the commands.
- `RtuOverUdp`: time passes, a started request gets on (be it only by ignoring
  datagrams of other sources), requests keep coming, and the port can be bound now and then (strong fairness of `Recover`).
- `ConfigurationCache`: a load that was started gets on: each chunk is a request
  with a deadline.
- `Lifecycle`: for children only. A setup that reads gets on or fails (every
  exchange ends, see `CallEnds` of `RtuOverUdp`); Home Assistant retries for ever
  (strong fairness of `BeginChild`: the gateway's client must be there now and
  then); a gateway that answers again and again lets a read through (strong
  fairness of `ReadSucceeds`); the platforms are set up.
- `Devices`: polls are started for ever and the lock is FIFO (strong fairness of
  `StartPoll`); exchanges and deadlines end; each read succeeds now and then if
  it is made again and again: for values of the S2000-PP that is
  `PolledIsReleased`. It is not assumed that a waiting command fails by itself.

## What is proved

For all values of the constants that satisfy the named assumptions:

| module | theorems |
|---|---|
| `S2000PPSelector_proofs` | `TypeCorrect`, `SessionConsistent`, `ReadyCorrelated`, `NotStolen`, `NoStale`, `EndedUnparks`, `ProtocolImplementsService` |
| `Coordinator_proofs` | `TypeCorrect`, `BarrierHolds`, `NeverBack`, `CoordinatorImplementsView` |
| `RtuOverUdp_proofs` | `TypeCorrect`, `EpochsKeptApart`, `ClosedIsFinal`, `ClientImplementsExchange` |
| `RtuOverTcp_proofs` | `TypeCorrect`, `ClosedIsFinal`, `NoLeaks`, `ClientImplementsExchange` |
| `ConfigurationCache_proofs` | `TypeCorrect`, `RefusalFresh`, `QuietReload` |
| `ConfigFlow_proofs` | `TypeCorrect`, `EntriesStayDisjoint`, `FlowsImplementHolding`, `FlowIsLive` |
| `Lifecycle_proofs` | `TypeCorrect`, `OwnersHoldClients`, `LifecycleImplementsHolding` |
| `Equipment_proofs` | of the mapping `MappingsValid`, `StoredApply`, `OwnRowsOnly`, `AutomaticNeverRefused`; of polls and commands `LatchFollowsZone`, `DoneTookEffect`, `LimitIsKept`; of the reads `EachReadItsOwn`, `RequestsAlwaysFit`, `NoRequestTooMany` |

- Selector: `SessionInv` is inductive with the types. It ties the phase of each
  call to the holders of both locks and to the parked request, and the parked
  request to what the gateway is selected for. READY is correlated because a
  child in its result phase has its own request parked and the gateway is
  selected for that or has restarted, in which case nothing is ready.
- Coordinator: `Barrier` is inductive with the types. A path that the running
  poll has read is either not older than what is shown or hidden by a patch of
  a newer generation; a command's writes are newer than what is shown and read.
- UDP: `Epochs` is the strengthening. Nothing on the wire outlives the rest of
  the quarantine while the client is tainted, so nothing is on the wire when it
  binds again; while it is bound all there is belongs to its epoch. `OwnReply`
  adds, for a network that duplicates nothing: what a bound socket can be given
  and what the request in progress was given is noise and one reply to it, so
  that an answer taken leaves only noise behind it for the next request of the
  same epoch. `ClientImplementsExchange` assumes `~Duplicates`; the other
  theorems do not.
- TCP: `Holding` is the strengthening: only a call that was just given a
  connection has a fresh one, and then the client has no other. `OwnReply` says
  whose reply can be on the stream: only the request in progress is owed, and
  all the stream and the buffer of a connection in use hold is noise and one
  reply to it, because a call that fails in any way discards the stream.
- Configuration cache: `Order` is inductive with the types. What a setup reads
  itself is not older than when it began to read, and only what it has read the
  second time refuses it; after a quiet unload, what is cached and what any
  setup is reading is not older than the unload; and the table only grows newer.
- Config flow: every step is of one of five kinds (`StepKinds`): a form follows a
  form, the table is taken or a read starts, a read ends, a flow becomes an
  entry, or something happens elsewhere; `Types` says which form goes with which
  model and wait. Entries are disjoint because the check for overlaps and the
  creation are one step; that step is also the one that takes the identity and
  the addresses of `ExclusiveHolding`, and every other kind of step takes none.
  `Live` strengthens `QuietFlowIsLive` by what is cached
  and what other flows are reading for the same route.
- Lifecycle: `Ownership` is the strengthening. Every phase says whether `using`
  and `runtime` hold a client, both are the same while platforms are set up, and
  no client that an owner holds is newer than the last one made, so the next one
  is nobody's. `ClientSteps` says what a step does to the clients: nothing, one
  owner makes or closes its client, or all are forgotten. Both `Ownership` and
  the refinement of `ExclusiveHolding` follow from that.
- Gateway mapping: `TypeOK` is inductive. The rows of a table are finitely many and
  a known cell tells the section of its row (`RowsOfAKind`), so rows of different
  cells are a mapping (`RowsValid`), those that hold each cell of a footprint once
  (`OnceValid`) and the six of the older version (`LegacyValid`) among them; this
  needs `TablesAssumption` (a table lists zones as zones and relays as relays).
  `Fitting` says that what is stored applies as soon as there is something; a reconciliation returns it as it was, or rows that hold each cell
  of an accepted footprint once. `Owning` keeps its rows in the table.
  `Recognised` says that what the provider resolved and the class accepted, its
  hook finds again in the same table, and again after that. All this needs
  `ModelsAssumption` of the classes (what the hook looks for is accepted; the
  power supply accepts all or nothing), which TLC evaluates for every class of
  `BolidModels` in the run `mapping`.

- Latches: `Showing` says that, while a poll runs, what the zone is now and all
  that was read of it since the poll began is in `shown`. Whatever rule decides,
  the position it gives is one of a code it was given (`LeadsSeen`), so the two
  reads need not show the same moment.
- Commands: `Holding` says of a confirmed command that each value it asks for
  was held by the device since the command began, or is still to be confirmed
  by a later exchange; and that what the device has now is in that history. A
  readback of an older state or the result of an earlier command confirms
  nothing because the readback compares the value itself.
- ER-G: `Limited` says that what the running command has still to write keeps
  P101 at or below P102 after each write, and that the second of two writes is
  sent only after the first was read back.
- Reads: `Reading` says that the run being formed is one without gaps and not
  too long (`Run`), lies before the addresses not looked at yet (`Growing`) and
  behind all runs formed before, which it could not have continued (`Behind`);
  and that each address asked for, and no other, is not looked at yet, being
  formed, to be read, or kept (`Accounted`). It needs `ReadsAssumption`: blocks
  do not overlap and one fits in a request.

The refinement theorems map every step of the detailed module to a step of the
abstract one or a stutter, using the inductive invariant.

Every safety property of every passing run is stated by a theorem. Liveness
(`PolledIsReleased`, `Converges`, `CallEnds`, `Recovers`, `SetupEnds`,
`ChildrenComeBack`, `EachIsRefreshed`, `CommandEnds`) is model-checked only: the
prover cannot do it under fairness.

## Plan

Done: selector, coordinator, the two transports, the configuration cache, the
config flow, the gateway mappings, the lifecycle of entries, polls and commands
of the equipment, the splitting of reads into requests. Next, in this order:

1. The composition of `Lifecycle` with the selector sessions: children on a
   closed client, and what their polls do to the new one.
2. Pure functions against a reference: the decoders.
3. The M3000 and its clock synchronization.

## Not modelled

Logging, translations, presentation and dashboard, the static registry of
equipment, pymodbus and Home Assistant themselves (external: only how the code
uses them), the bytes of frames, the formatting of values, snapshots that are
one or two reads without memory, and the M3000 with its clock. `PROJECT.json`
lists every part with its status.
