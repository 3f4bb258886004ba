# A TLA+ model of ocpi-simulator

This directory holds a formal model of the simulator's concurrent core: TLA+
modules translated from the Go sources under `src/`, TLC configurations that
check them on small instances, and proofs that TLAPS checks for every value of
the constants. Paths such as `handlers_fleet.go:338` refer to
`src/internal/app/`, `fleet/store.go` to `src/internal/fleet/`, and so on.

## 1. The system

One process serves HTTP and WebSocket requests, each on a goroutine of its own,
next to four long-lived goroutines that `App.StartBackground` starts
(`app.go:82-93`): the WebSocket hub, the fleet event hub, the meter loop and the
fleet event loop. Everything is in memory; nothing is persisted, so there is no
crash recovery to model.

| component | state | operations | interacts with |
|---|---|---|---|
| fleet store, `fleet/store.go` | map of chargers (configuration, connection state, connectors, runtime with active transactions), map of bulk jobs, one `RWMutex` | `AddCharger`, `UpdateCharger`, `RemoveCharger`, `UpdateConnectionState`, `UpdateRuntime`, `PatchConfig`, reads that return deep copies, `SetJob`/`UpdateJob` | called by every fleet handler and the event loop |
| fleet handlers, `handlers_fleet.go` | none of their own: local copies between two store calls, goroutines for dialling and bulk work | create, delete, config, connect, disconnect, status, faults, charging start/stop, bulk add/connect/disconnect, list, stats | fleet store, `App.eventCycle`, connector client, event hub |
| fleet event loop, `fleet_event_loop.go` | the list of copies of the current tick; `App.eventCycle` (a counter modulo 5 per charger, own mutex) | tick: meter a charger that has a transaction, or execute one step of the cycle DMS, START, METER_VALUE, STOP, UNPLUG for a connected one | fleet store, connector client, event hub |
| session store and handlers, `store/store.go`, `handlers_api.go`, `handlers_ocpi.go` | map of OCPI sessions | start, create, stop, stop any, meter reading, PATCH | meter loop |
| meter loop, `app.go:95-124` | the list of active sessions of the current tick | adds 0.2 kWh to each copy and writes it back | session store, WebSocket hub |
| WebSocket hub and clients, `ws/hub.go`, `ws/client.go` | registered clients; a buffered broadcast channel; per client a buffered `send` channel, a reading and a writing goroutine | register, unregister, broadcast, close, shutdown | everything that emits events |
| fleet event hub, `fleet/events.go` | subscribers, ring of 60 per-second counters | publish, subscribe, unsubscribe, record metric | SSE handler, `/stats` |
| legacy charger registry, locations, tariffs, credentials | maps behind the store's mutex | CRUD | OCPI handlers |
| OCPP endpoint, `handlers_ocpp.go`, `ws/conn.go` | one goroutine per connection | answers boots and pings, announces boots | looks chargers up in the fleet store and in the legacy registry, event stream |
| connector client, `ws_connector_client.go` | none | HTTP calls with a timeout | external ws-connector |
| frames and handshake, `ws/frame.go`, `ws/handshake.go` | none | length encoding, masking, upgrade | clients |
| router, configuration, `main.go` | route tables, environment | start and graceful stop | all |

### What is hard here

Every store method is one critical section and hands out copies, so no data race
exists on the maps. The difficulty is *between* critical sections:

- Handlers read a copy, change it and write it back later. What happened to the
  stored value in between must survive (transactions, connection state) or is
  lost (configuration, connector status).
- The two loops list copies once per tick and act on them one after the other;
  they may act on a charger or a session that was changed, stopped, deleted or
  re-created after the listing.
- Dialling and hanging up take up to ten seconds in a goroutine that outlives its
  request; its outcome arrives in any order with other requests' outcomes.
- Two stops of one transaction race; a stop races with a disconnect that clears
  all transactions, and with a deletion.
- Bulk creation runs in a goroutine that ignores what fails; the paged list is
  read anew for each page, between which chargers come and go.
- A boot is looked up in two registries, one critical section after the other.
- WebSocket clients have two goroutines and a hub that close each other down
  over channels; a send on a closed channel would end the whole process.

`PROJECT.json` lists these at the lines where they bite ("hazards") with the
properties that would catch each of them going wrong.

### What makes each component correct

- *Fleet*: a transaction id is active at most once; it goes through its life
  forward only; TX_STOPPED is published at most once; the event cycle does not
  interfere with charging; a charger never gets stuck CONNECTING or
  DISCONNECTING.
- *Sessions*: no energy is counted twice; a completed session has an end time;
  a stop is final once the copies read before it have been written.
- *WebSocket hub*: no send on a closed channel, order and integrity of each
  client's event sequence, complete clean-up, no slow client holds up the hub.
- *Registry*: a bulk job always completes, and only with all its chargers there;
  a client that follows the list's cursor misses nothing.
- *OCPP endpoint*: answers come once and in order; a boot is announced for a
  charger that has the identity; a broken connection is given up. A frame is
  read with the length it was written with.
- *Event hub and counters*: the same, for SSE; the counters hold exactly the last
  60 seconds whatever the gaps between operations.

## 2. Modules

| module | models | extends / composes |
|---|---|---|
| `FleetStore` | `fleet/store.go`, `fleet/models.go`: one operator per critical section | |
| `Fleet` | `handlers_fleet.go`, `fleet_event_loop.go` over the store | `FleetStore` |
| `TxLedger` | abstract specification: the life of one transaction id | |
| `FleetProperties` | properties of `Fleet`, its inductive invariants, the refinement mapping to `TxLedger` | `Fleet`, `INSTANCE TxLedger` |
| `FleetProofs` | theorems about `Fleet`: types, transaction ids, connection states | `FleetProperties` |
| `FleetLoopProofs` | theorems about the event loop, its copies and its readings | `FleetProofs` |
| `LedgerProofs` | `Fleet` implements `TxLedger` | `FleetLoopProofs` |
| `Sessions` | session map, REST and OCPI handlers, meter loop, with their properties | |
| `SessionsProofs` | theorems about `Sessions` | `Sessions` |
| `WsHub` | hub, clients, broadcasting, shutdown, with their properties | |
| `WsHubProofs` | theorems about `WsHub` | `WsHub` |
| `Metrics` | the ring of per-second counters in `fleet/events.go` | |
| `EventHub` | event hub of `fleet/events.go`, SSE handlers, `/stats`, with their properties | `Metrics` |
| `EventHubProofs` | theorems about `EventHub` and `Metrics` | `EventHub` |
| `FleetRegistry` | bulk jobs and the paged list of `handlers_fleet.go`, with their properties | |
| `RegistryProofs` | theorems about `FleetRegistry` | `FleetRegistry` |
| `Frames` | the length of a frame, `ws/frame.go`: pure operators | |
| `OcppEndpoint` | `handlers_ocpp.go` over `ws/conn.go`, with its properties | `Frames` |
| `EndpointProofs` | theorems about `OcppEndpoint` and `Frames` | `OcppEndpoint` |
| `MCFleet`, `MCFleetRegistry`, `MCOcppEndpoint`, `MCSessions`, `MCWsHub`, `MCEventHub` | instances for TLC | |

A definition whose comment starts with "Mutant:" is a plausible bug in the
definition after it. It is part of no specification; substituted for that
definition it makes the property named in `PROJECT.json` fail, which shows that
the property depends on the code being as it is.

### How `Fleet` corresponds to the code

- `chargers` is `Store.chargers`; the ids 1..`NumChargers` are in the order in
  which `ListChargers` and the bulk filters sort them. `cycle` is
  `App.eventCycle`.
- `req[h]` is one request or spawned goroutine: `at` names the critical section
  it executes next, `snap` the copy it read, `tx` the transaction it carries,
  `todo` the chargers a bulk operation has still to visit. Every action is one
  critical section with the local computation up to the next; a request whose
  early return changes nothing (404, 400, 409) is no step.
  A connect request, for instance, is `BeginConnect` (read the copy), `SaveUrl`,
  `SaveConnecting` (two write-backs of the same copy), `DialOk` or `DialFail`,
  `Announce`.
- `loop` is the event loop inside `tickFleetEvents`: `snap` holds the copies of
  this tick not yet visited, `at` is where it is with the current charger, `step`
  and `wh` are the local variables read later.
- `used` is what `NewJobID` has handed out (taken to be fresh, see section 6);
  `log[t]` is the part of the published events the properties need: how often
  TX_STOPPED was published, METER_VALUEs published afterwards, and the last
  reading.
- Of a charger the model keeps the connection state, the status of each
  connector, the transactions and one configuration value: `Heartbeats` stands
  for all of `ChargerConfig`, 0 for a field `applyDefaults` fills in.
- `Ops` selects the operations clients use in an instance. It only removes
  behaviours; every operation is in at least one passing run.

### How `Sessions` corresponds to the code

`sessions` is `Store.sessions`; `req[h].copy` is the copy that a meter reading
or a PATCH holds between its `GetSession` and its `UpdateSession`; `listed` are
the copies of the meter loop. `StopById` is a single critical section
(`Store.StopSession`), `BeginStopAny`/`StopPicked` is STOP_SESSION without a
session id, which lists first. `credit` is a history variable: all energy
anyone has reported for an id. Energy is in units of the loop's 0.2 kWh.

### How `WsHub` corresponds to the code

Each `select` case of `Hub.Run` is an action. Sends on the unbuffered `register`
and `unregister` are joint steps of the client's goroutine and the hub;
`broadcast` and `send` are bounded sequences that drop what does not fit. Reader
and writer of a client are two program counters; `link` is the TCP connection,
which the peer (`PeerGone`) or `Client.Close` (`Close`) takes down for both of
them. A close frame (`ReadClose`) ends the reading only: the link stays up, and the
writing goroutine goes on, or stays blocked on a peer that does not read, until
the hub closes the client. A ping is answered by the reading goroutine on the
same `bufio.Writer` the writing goroutine uses, with no lock. When both are in a
write, `garbled` records that the bytes may have mixed, and one `Flush` may find
a short write (`ShortWrite`): its goroutine leaves, the `bufio.Writer` keeps the
error (`failed`), and every later write returns it (`WriteRefused`), all of it with
the link up.

### How `EventHub` and `Metrics` correspond to the code

`EventHub.Run` is `Receive`, `Record` (`RecordOut`, under the mutex of the
counters) and `Round`, which offers the event to every subscriber under the read
lock; nobody else can change the map or add to a channel meanwhile, so it is one
step. `Unsubscribe` is two: the map is changed under the lock, the channel is
closed after it. `Take` and `Write` are one turn of the SSE handler, with the
filter; `PeerChange` is what the peer does. When it is gone, a write fails (its
error is ignored) and the context of the request ends. In `Metrics`, `now` is
the wall clock, which both operations read under the mutex, and `out` a history
of what was recorded in each second.

### How `FleetRegistry` corresponds to the code

`registry` is `Store.chargers` again, this time with what the list filters by:
version and connection state; of `UpdateCharger` it keeps that a copy of a deleted
and re-created charger brings its version along. `jobs` is `Store.jobs`, `adder[j]` the goroutine
of a job with the payload it closed over; `AddNext` and `CountNext` are the two
critical sections of a turn of its loop. Templates are functions from the index
to an id: `c` + 9, 10 sorts backwards, which is why the order of the indices is
not that of the ids. `PickVersion` is the *set* of versions the walk over the
distribution may end at, since Go's map order changes at every call. `list` is a
client with its query and its cursor, and `ListPage` one request for a page:
only `ListChargers` touches shared state. `owed` and `due` are history: what the
job, and the listing, have still to answer for.

### How `OcppEndpoint` and `Frames` correspond to the code

`at[k]` is where the goroutine of connection k is; the two lookups of a boot,
the reply, the event and the pong are a step each. `fleet` and `legacy` give the
identity of each charger, changed by `ChangeFleet` and `ChangeLegacy` as the
handlers of other requests do: in the fleet a stale copy written back to a
re-created charger changes the identity, in the legacy registry a create
replaces what was there. Several chargers may have one identity (a bulk job
without an identity template gives every job's chargers the same ones): either
may be found. `Frames` writes the length bytes of a frame and reads them back.

## 3. Runs

All bounds are constants of the configurations. Sizes and times are with two
workers on a small machine.

| run | question | instance | states |
|---|---|---|---|
| `fleet_tx` | is a transaction active once and stopped once, whatever starts, stops, deletion, the stale write-backs of a connect, a disconnect that clears all of them, and the event loop do? | 1 charger, 2 requests in flight, 2 ids | 2.4 M |
| `fleet_pair` | do two chargers visited by one tick stay apart, do published readings grow? | 2 chargers, 2 requests, 2 ids, meter up to 2 | 1.2 M |
| `fleet_connection` | does every charger leave CONNECTING and DISCONNECTING? | 1 charger, 3 requests, fairness | 0.45 M |
| `fleet_delete_active`, `fleet_config_lost`, `fleet_cycle_stop` | what the repository states and the code does not do | smallest that shows it | small |
| `registry` | do bulk jobs create what they count, does a paged listing miss or repeat a charger? | 3 ids, 2 versions, 2 states, 1 job of up to 2, pages of 1 and 2, fairness | 0.68 M |
| `ocpp` | answers, announcements and clean-up of an OCPP connection; frame lengths | 1 connection, 3 frames, 2 fleet and 1 legacy charger, 2 identities, fairness | 0.56 M |
| `sessions` | energy, end times and finality of a stop | 1 session, 3 requests, meter loop | 1.15 M |
| `sessions_stop_lost` | a stopped session is made active again | 1 request, meter loop | small |
| `wshub` | does the hub send to open channels only, do events stay whole and in order, is a client that breaks cleaned up, does a blocked one hold up the hub? | 2 clients, one of which pings, buffers of 1, 2 events, fairness | 0.11 M |
| `eventhub` | the same for SSE, and the counters | 2 subscribers, buffers of 1, 2 events, window of 3 seconds, fairness | 1.1 M |

Why the bounds are enough to meet the interesting cases:

- Two requests in flight next to the event loop are two writers and the loop's
  stale copy: every race in the hazard list is between two of these three. Two
  transaction ids allow one that ends while the other begins, and removal from
  the front and from the end of a list. In `fleet_connection` no transaction is
  involved, and three requests let one outcome overtake two others.
- `MaxWh` and `MaxKwh` are where meters saturate. They only merge states; in
  `fleet_pair` the meter takes three values, so a decrease would be visible.
- A bulk operation occupies one of `Handlers` and its timer goroutines others;
  `BeginBulk` leaves one free, since otherwise the bound, not the code, would
  stop the walk.
- Channel capacities of 1 make "full" and "empty" both a step away; two
  broadcasts suffice to fill both buffers, to be dropped at either, and for
  reordering to be visible. Safety is proved for every capacity. In `wshub` the
  peer of one client pings (`Pingers`) and so has the unsynchronised writes; either
  may stall, send a close frame or go. Clients share nothing but the hub.
- With a window of 3 seconds and 4 seconds of time, gaps of 1 and 2 clear one and
  two slots, and a gap of 3 is the boundary at which all are cleared.
- In `registry` three ids leave one on each side of a cursor. One job suffices:
  what another job would do to it, create and delete the same ids, clients do.
  The distributions are mixed, one-sided and empty.
- In `ocpp` connections share nothing but the registries, so one is enough; two
  fleet chargers let one with the identity go while another comes. The lengths
  are those around each change of form and each byte.
- `Symmetry` permutes handlers and ids, which no definition orders. It is not
  used with liveness properties.
- Deadlock is checked everywhere but in `wshub` and `eventhub`: after shutdown the
  process is allowed to do nothing more. The other specifications never end, since clients
  can always send another request.

### Properties

Fleet, in `FleetProperties`: `OnePlace` (with `ActiveOnce` and `StopOnce` as its
visible consequences), `CopiedInPlace`, `LateTelemetryBounded`, `OneSimulatedTx`,
`CycleIdleWhileSimulating`, `CopyShowsSimulated`, `TransitionalOwned`,
`PublishedMeterGrows`, the refinement `LedgerSpec`, and `Settles` (liveness).
Sessions: `EnergyNeverInvented`, `CompletedHasEnd`, `OverIsFinal`. Hub:
`HubSendsToOpen`, `QueueIntact`, `EventsInOrder`, `BrokenClientsGo` and
`BroadcastsDrain` (liveness). Event hub: `HubSendsToOpen`, `StreamIntact`,
`RingShowsWindow` and `HandedOn` (liveness). Registry: `CompletedJobCreated`,
`ListingComplete`, `ListingOnce`, `VersionShares` and `JobsComplete` (liveness). OCPP
endpoint: `AnswersInOrder`, `BootNamesBearer`, `FramesReadBack` and `BrokenEnds`
(liveness). Each is stated in words above its definition.

Some say what happens when things fail. `AnswersInOrder` also counts the
announcements of a boot whose reply could not be written, since the handler
ignores the error. `BrokenClientsGo` covers a client whose link is up and one of
whose goroutines has left. `BroadcastsDrain` is stated per event: each one that
is in the hub's buffer leaves it.

Some positive results are less obvious than they look. `UpdateCharger` keeps
the stored runtime and connection state when a copy is written back; without
that (mutant `UpdateChargerWhole`) a stopped transaction comes back and a charger
stays CONNECTING for ever. `OneSimulatedTx` holds although the loop decides on
copies, because it is the only starter of simulated transactions and finishes
with a charger before it lists it again; the invariant behind it is
`CopyShowsSimulated`.

### Fairness

`Fleet!Fairness`: each handler in flight eventually takes its next step, and so
does the event loop. Goroutines are scheduled fairly by the Go runtime, no
handler waits for another one (the store's mutex is held for short computations
only), and calls to the connector end by a timeout at the latest, with either
outcome. No request is ever assumed to arrive.

`WsHub!Fairness`: strong fairness of each case of the hub's `select`, which
picks at random among the ready ones; weak fairness of a client goroutine that
can take from `send` or whose read or write has failed because the link is down. A
write to a peer that does not read may block for ever while the link is up, even
one that the `bufio.Writer` would refuse; nobody has to send a close frame, to
connect, ping, broadcast or shut down.

`EventHub!Fairness`: the hub's goroutine is scheduled, and a publication that is
waiting again and again is received. Nothing is assumed of handlers and peers.

`FleetRegistry!FairSpec`: the goroutine of a job is scheduled; it waits for the
store's mutex only. `OcppEndpoint!Fairness`: the goroutine of a connection takes a
step that waits for nobody; a write may block as long as the peer holds the
connection and does not read, and returns once the link is down.

### Where the code and the repository's own words differ

Four runs are expected to fail; `PROJECT.json` quotes the lines.

1. `fleet_delete_active`: a delete without `force=true` checks for active
   transactions on a copy, and removes the charger later.
2. `fleet_config_lost`: a patched configuration is overwritten by the copy of a
   connect, status or fault request that began before.
3. `fleet_cycle_stop`: the STOP and UNPLUG steps are unreachable for a charger
   with a transaction, so a simulated transaction never ends.
4. `sessions_stop_lost`: the meter loop undoes a stop that came after its listing.

One more needs no model checker: the connect handler announces CONNECTING
(`handlers_fleet.go:340`) but stores it through `UpdateCharger`, which discards the
connection state of its argument (`fleet/store.go:55`), so no GET ever shows it.
`SaveConnecting` models the store as it is.

## 4. Proofs

The theorems hold for any number of chargers, connectors, requests, ids, clients,
subscribers, connections, jobs, versions, frames and events, any page size,
buffer capacity and window of the counters, from the assumptions named in the
modules they extend: counts and capacities are positive naturals, readings are
naturals (within the bound), `Versions` is finite, and the "no value" constants
are not values. Every invariant and every action property that a passing run
checks, and the refinement of the ledger, is a theorem.

### Transactions, `FleetProofs`

- `FleetTypeOK`. The invariant includes `LocalsOK`: a handler at a program point
  that uses a copy or a transaction holds one.
- `FleetOnePlace`, and from it `FleetStopOnce` and `FleetActiveOnce`. "TX_STOPPED
  at most once" is not inductive: the stop handler publishes after it has left
  the critical section, so two things have to be known in between: that the
  transaction is in no store any more, and that no other handler carries it.
  `OnePlace` says that each id handed out is in one place only, in a charger's
  runtime, or with a handler about to store it, or with one about to announce
  it, and that only an id in none of these has been announced. The lemmas
  `TxsAfter` and `OnePlaceKept` reduce each action to what it does to the stored
  transactions and to the carriers; `RemoveAtFact` is the fact about
  `SequencesExt!RemoveAt` that the stop needs.
- `FleetTransitionalOwned` is inductive as it stands. `StateAfter` says what each
  operation of the store does to the connection states. A state CONNECTING or
  DISCONNECTING is stored only together with the goroutine that will settle it
  (`OwnedMark`, `OwnedBulkNext`), and a goroutine that ends has stored a settled
  state first (`SettlerDone`); a charger that was deleted shows none. It is here
  that `UpdateCharger` not writing the connection state matters.

### The event loop, `FleetLoopProofs`

Most of the steps do nothing to the loop's copies. `StepKinds` says so once: every
step other than storing a new transaction, announcing a stop and the loop's own
is `Quiet`: it hands out no id and may only take transactions away. `PlainSteps`
says the same of all steps but a tick and the two that deal with a reading, with
what a start may add. The invariants are proved for these two kinds and for the
few steps that remain.

- `FleetCopyShows` (`CopyShowsSimulated`, inductive): only the loop starts
  simulated transactions, for the charger it is at, whose copy it then forgets.
  `FleetCycleIdle` follows. `FleetOneSimulated` needs one detour: what a start
  adds is preserved as "any two simulated transactions of a charger have the same
  id" (`OneSimulatedId`), from which `TxUnique` gives the same position.
- `FleetCopiedInPlace`: the transaction a copy shows first is the first of that
  charger in the store, or is not active any more. Inductive, since stopping takes
  out of a list and starting appends to it, so nothing comes to stand before it.
- `FleetLateBounded` through `LateInv`: a transaction a copy shows first has
  had no late reading, and copies show different ones (`CopiedInPlace`). A
  tick copies active transactions only, which have not been announced.
- `FleetMeterGrows` through `MeterInv`: only a charger's first transaction has
  had a reading published, and none above its meter, above its copy's meter, or
  above the reading computed and not yet published. The reading may be written
  to a transaction other than the copy's, when that one was stopped in between; this
  one has no published reading then, so none can decrease.

### Refinement, `LedgerProofs`

`FleetLedger`: `Spec => LedgerSpec`. `PhaseFacts` turns `OnePlace` into the phase of
an id; `LedgerStep` takes the step kinds in turn. The steps that move a phase move
that of one id (`OneMoves`), but for those that clear or delete: they end any
number of active transactions at once, which is one step of the ledger, too
(`QuietEnds`).

### Sessions, WebSocket hub

- `SessionsTypeOK`, `SessionsEnergy` (through `EnergyInv`: the store *and every
  copy in flight* stay below the credit, and the credit below the bound),
  `SessionsEnd`, and the action property `SessionsOver`. The lemmas
  `InFlightNext` and `StoredNext` say what one step can put into the copies in
  flight and into the store; all four results rest on them.
- `WsHubTypeOK`, `WsHubSendsToOpen`, `WsHubQueueIntact`, `WsHubEventsInOrder`.
  That the hub sends to open channels needs to know that a client that has yet
  to be registered is open and not in the map (`MapOpen`), or an unregistration
  could close one that registers later. Order needs that whatever the hub still
  holds is newer than whatever it has queued (`OldestFirst`); integrity, that
  the writing goroutine has an event in hand exactly while it writes
  (`InHandOK`). `EventSteps` says what one step can do to one client's events.

### Event hub and counters, `EventHubProofs`

- `EventHubSendsToOpen` and `EventHubRing`. The first rests on `ChannelsOpen`: a
  channel in the map belongs to a handler that has not unsubscribed. The second
  on `RingInv`: nothing has been recorded after `lastSec`, so a slot cleared for
  a later second is right; that clearing the slots of the new seconds touches no
  other second of the window is the arithmetic of `SlotsApart`.
- `EventHubTypeOK`, and `EventHubStreamIntact` from two invariants: `HubOrder`, what
  the hub buffers is newer than what it holds, and this newer than all it has
  queued for anyone; and `StreamInv`, what a subscriber was written came before
  what waits in its channel, and the two together are what was queued, less what
  the filter skipped. `StreamIntact` says "exactly those, in order" as a set and an
  order (`Ascending`), which is the same as a filtered sequence since
  an event is published once, and needs no recursion over data.

### Registry, `RegistryProofs`

- `RegistryTypeOK`; it includes that a job's goroutine is at the index that its
  counter says, below the total.
- `RegistryCompletedJob` through `StillToAdd`: what a job owes is there or is
  still to be added, at an index that the goroutine has not done with. `AddNext`
  that fails found the id there.
- `RegistryListingComplete` and `RegistryListingOnce` through `CursorDivides`: what
  is due is ahead of the cursor, and what was seen is not, unless the charger of a
  cursor was gone. `PageFacts` is the counting behind it: what a page leaves out
  comes after all that is in it, and then the page is full, so that the cursor is
  its greatest id and a page that is not full ends the listing.
- `RegistryVersionShares`. The sums over the distribution are a fold over a set,
  that is, a recursion over data. `SumsExist` shows by a least
  counterexample (the naturals being well founded) that a function on all subsets
  of the versions has the recursion of the fold, `SumUnfolds` that the fold is
  this function, and `SumFacts` that a sum is 0 only if each part is: a version
  at which the walk passes the bucket, for the first time, has a share.

### OCPP endpoint, `EndpointProofs`

- `EndpointTypeOK`, `EndpointBearer`, `EndpointFrames` and `LengthReadsBack`. That a
  boot names a charger of the fleet if there was one all the time needs that a
  handler that goes on to the legacy registry has met a moment when there was
  none (`BootOK`), and that the bearers of the identity are followed while a boot
  is at hand. `LengthReadsBack` holds for every length below 2^31, by the
  arithmetic of `Octets16` and `Octets32`.
- `EndpointAnswersInOrder`. The frames are identified by their positions, and the
  answers are counted: `Answered` says how many of the first frames ask for
  something and that each answer is the one asked for. `InboxOK` relates
  what waits to be read to what was sent, `AnsweredSoFar` what was written to
  what was read, as long as the link is up, and `AnnouncedSoFar` the announcements
  to the boots read, whether their replies could be written or not. `PositionFacts` is the counting (the positions of the frames that
  ask, below a bound, when one more frame is taken).

### Only model-checked

Liveness under fairness (`Settles`, `BrokenClientsGo`, `BroadcastsDrain`,
`HandedOn`, `JobsComplete`, `BrokenEnds`): the prover has no rule for ENABLED and
so none for fairness. And what the violation runs show, which is a
counterexample.

## 5. Plan

Done: the fleet (store, handlers, event loop), its ledger, the sessions, the
WebSocket hub, the event hub with its counters, bulk jobs and listing, the OCPP
endpoint with its frames, and the proofs of section 4. Left, in this order:

1. What liveness rests on, as far as it is safety: that a job's counter never
   decreases and reaches the total exactly when its goroutine ends; that a client
   of the hub that broke has a goroutine that can take a step.
2. A relation of the event hub to an abstract broadcast (each subscriber is given
   a subsequence of what was published) that the WebSocket hub implements, too.

## 6. Not modelled, and simplifications

- `NewJobID` and `newID` draw four random bytes; the models take them as fresh.
  (The mutant of `CopiedInPlace`, `BeginStartAnyId`, shows what a repetition
  would do.)
- A charger is created from a payload as the README documents it, without
  `runtime` and `connectionState`. The handler would accept those too.
- The legacy registry deletion (`handlers_api.go`) also resets the event step of
  a fleet charger with the same id. Resets already occur at any time in `Fleet`
  through delete, connect and disconnect.
- Distributions have natural counts. (The handler accepts negative ones; what
  they should mean is stated nowhere.) `GetJob` has no caller: clients cannot ask
  for a job.
- Events of the session handlers reach the WebSocket hub through `Broadcast` like
  any others; which of two requests' events comes first is not promised, so the
  two modules are not composed. Each fleet event is also forwarded to the
  connector by a goroutine of its own, in no order.
- Frames: `Frames` has lengths below 2^31. A first fragment is read as a whole
  text; a peer that fragments its calls gets no answer, which no text promises.
- Event publication is left out except for the stop and the readings of a
  transaction; the order of events from different goroutines is not promised by
  the code. Tap, plug-and-charge, heartbeats, meter-values/send and forwarded
  OCPP actions only publish, set a timestamp or call the connector.
- In `WsHub` the hub's loop over its clients is one step: only the hub adds to
  `send`, so nobody can tell. A partial write that fails is a failed write. That
  the two goroutines' unsynchronised use of one `bufio.Writer` might panic is not
  modelled: what it leaves is garbled bytes, or a short write.
- The server's `WriteTimeout` (`main.go:30-31`), which ends an event stream whose
  peer is still there, is folded into the peer going away.
- The wall clock is taken not to be set back. (If it is, slots of later seconds
  stay uncleared until it catches up; what the rate should be then is stated
  nowhere.)
- Panics are not modelled: `meter-values/send` with an invalid body writes to a
  nil map and is recovered by the router; it changes no state.
- OCPI credentials, versions, tariffs and CDRs are constants or a single
  lock-protected overwrite. Routing, configuration, TLS and payload building are
  data or I/O.
