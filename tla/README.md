# A TLA+ model of VoidMC

VoidMC is a Minecraft server library in Rust: a Tokio front end that owns the
sockets, and a game thread that runs a Bevy ECS at twenty ticks a second. This
directory holds TLA+ modules of the parts of it in which an order of events
nobody wrote a test for can go wrong, TLC configurations that check them on small
instances, and proofs, checked by TLAPS, that hold for every instance.

`PROJECT.json` maps each definition to the lines of `src/` it translates, lists
the runs, a faulty variant of the code that each property catches (the
definitions commented "Fault" or "Mutant of"), the hazards and the theorems.

## 1. The system

| Part | State it keeps | Operations | Talks to | Model |
|---|---|---|---|---|
| Connections (`server.rs`, `client.rs`, `network.rs`, `players.rs`) | abort handles; a task with a reader and a writer loop per client; `ClientSenders`, `ClientToEntityMap`, six channels | accept, forward a packet, write, end, report, kick; per tick: sync senders, drain packets within a limit, drain disconnects, send | everything that sends packets, through `Players` | `Connection` |
| Login and configuration (`handshake.rs`, `login.rs`, `configuration.rs`) | `ConnectionState`, name, uuid | dispatch by state; insert the player's components; send the spawn chunks | roster, streaming | its end, in `Roster` and `Streaming` |
| Roster and movement (`systems/player.rs`, `systems/position.rs`, `passengers.rs`) | `PlayerReady`, `Position`, `PreviousPosition`, `Mount`; in the clients: the list and the entities of others | ready, quit, move, mount, dismount; broadcast, update previous positions | every ready client | `Roster` |
| Keep-alive and list entries (`systems/keep_alive.rs`, `tab_list.rs`) | `KeepAliveState`, `TabEntry`, what was sent of it | ask, answer, change an entry, remove it, sync | every ready client | `Entries` |
| Teleport barrier (`plugins/teleport.rs`, `movement.rs`) | `Teleport`, `TeleportProgress`, `TeleportState`, `ServerControlledPosition`, `ChunkSendBudget` | begin, advance, fence, sync, confirm, time out, cancel, restore | streaming, the client's pongs and confirmations, `/tp` | `Teleport` |
| Chunk streaming and block updates (`systems/chunk.rs`, `world/mutation.rs`, `block_entity.rs`) | `ChunkIndex`; per player `LoadedChunks`, position, backlog, budget | load or generate, send, unload; change blocks and block entities and tell their viewers | persistence, visibility | `Streaming` |
| Digging and using (`interaction.rs`, `item_use.rs`, `item_behavior.rs`) | the queue of a tick; in the clients: predictions by sequence number | queue, drain, change blocks, acknowledge | streaming, inventory | `ItemUse` |
| Persistence (`void-world-io`) | `ChunkDirty`, save ticker, one region file per 32×32 chunks with its location table and sector map | mark, flush within a limit, flush on exit, read, write, allocate, open | the loader of streaming | `RegionFile`, `Persistence` |
| Entity visibility (`entity.rs`, `visibility_index.rs`, `systems/entities.rs`, `passengers.rs`) | viewers of each entity, index of viewers by chunk | reconcile, show, hide, move, passengers, metadata | streaming | `Visibility` |
| Inventory and menus (`plugins/inventory.rs`, `window.rs`, `menu.rs`) | slots, cursor, dirty marks, state ids, the open menu, queued clicks | click, close, replace, drain, give, take, sync | the client's window | `Window`, `Containers` |
| Viewer plugins (`scoreboard.rs`, `sidebar.rs`, `weather.rs`, `world_time.rs`, `world_border.rs`, `tab_list.rs`, `boss_bar.rs`) | what was sent, to whom, and who holds a name, a slot or a screen | show, change, withdraw, refuse, try again | ready players | `Scoreboard`, `Teams`, `Overlays`, `Clocks` |
| Entity state (`entity/effects.rs`, `entity/attributes.rs`) | effects with durations, overrides, dirty sets, what was sent and to whom | add, remove, count down, expire, override, reset, sync | visibility, ready players | `Effects`, `Attributes` |
| The demo's race (`void-demo/src/race.rs`, `arena.rs`, `travel.rs`) | phase, roster, laps, chunks still to build or demolish, karts, transfers | join, leave, launch, build, board, count down, drive, demolish; arrivals and those that fail | the teleport barrier | `Race` |
| Commands, chat, simulation, world data, framing, codec, generated data, the rest of the demo, example games | | | | section 6 |

**What is hard.** The two halves of the server share channels only, and the game
reads each of them once per tick: what arrives in one order may be handled in
another. Clients answer late, twice or never, and run ahead of the server with what
they expect it to do. A tick is cut into sets of systems, some of them unordered, and ECS
commands take effect after the system that gave them. Most plugins send differences
to an audience that changes in the same tick as the thing itself. The region file is
written in place, while the process may die or a write may fail. `PROJECT.json` lists
these hazards at their lines, each with the properties that cover it, or with a note why none does.

**What makes each part correct.** Connections: nobody is half removed, quits are
announced exactly for players who were ready, a client sees a gapless prefix of
what was sent to it. Teleports: the player arrives with its chunks, stands where it
was put, is released in the end and gets back what it had. Persistence: what was saved is read
again, as it was, after growing, moving, stopping and starting. All that is mirrored
in clients (players, entities, lists, blocks, effects, attributes, objectives, teams, weathers,
clocks): at the end of a tick what a client was told, added up, is what the server has. Menus: no
item is lost or doubled, and the client's window follows the server's. The race: a round that was launched ends,
nobody is left between two seats, and a circuit is gone before the next is built.

## 2. Modules

| Module | Models | Used by |
|---|---|---|
| `ClientLifecycle` | abstract: absent, linked, joined, ready, gone; packets seen in order | implemented by `Connection` |
| `Connection` | accept loop, client tasks, channels, ingest, delivery | `MCConnection`, `ConnectionProofs` |
| `Teleport` | the barrier, the streaming and the client of one player | `MCTeleport`, `MCLive`, `TeleportProofs` |
| `ChunkStore` | abstract: a map from chunks to the payload saved last | implemented by `RegionFile` |
| `RegionFile` | the sectorized file, each write a step of its own | extended by `Persistence` |
| `Persistence` | markers, flushes, loading, exit, kill, start | `MCPersistence`, `MCLive`, `PersistenceProofs` |
| `Streaming` | chunks and changes in them on their way to several players | `MCStreaming`, `StreamingProofs` |
| `Visibility` | entities at the clients | `MCViewers`, `ViewersProofs` |
| `Scoreboard`, `Teams`, `Overlays` | objectives and sidebars; teams; weathers, borders, lists, bars | `MCViewers`, `ViewersProofs` |
| `Roster` | players as the other clients mirror them | `MCMirrors`, `MirrorsProofs` |
| `Effects`, `Attributes`, `Entries`, `Clocks` | status effects; overrides; list entries and keep-alives; world clocks | `MCMirrors`, `MirrorsProofs` |
| `ItemUse` | digging and using, with the client's predictions | `MCMirrors`, `MirrorsProofs` |
| `Window` | container clicks, as operators on a window | extended by `Containers` |
| `Containers` | one player's inventory, menus and client | `MCContainers`, `ContainersProofs` |
| `Race` | the rounds of the demo, on top of the barrier | `MCLive`, `LiveProofs` |

`MCViewers`, `MCMirrors` and `MCLive` put several components side by side: a behaviour is one of
the component its variable `part` names, and what the others start with is fixed. The
components share nothing there; where they do interact the interaction is inside one module
(streaming and the barrier in `Teleport`, the file and the markers in `Persistence`, the window
and the menu in `Containers`).

**Packets.** `Connection` models the queues between the game and a client and shows
that what a client reads is what was sent, in order and without gaps. The modules of what
clients mirror therefore apply a packet at the step that sends it. `Teleport`, `Containers` and `ItemUse`,
where the client answers, keep packets on their way in both directions.

### Connection

The accept loop's `select!` arms are `Accept` (with `Spawn`, as the game may run
between the announcement of a client and the spawn of its task), `HandleEnded` and
`HandleKick`. A client's task is `Forward` (its reader), `Write` (its writer),
`Fail` (the socket ends, or all senders of its queue are gone), `AbortLands`
and `Report` (its watcher). The game's tick is the sequence `TickStart`, `Drain`,
then `KnownPacket`/`FirstPacket`/`DropPacket` per packet, `DrainDisconnects`,
`DisconnectSync`, `Disconnect` per client, `Send`, `TickEnd`; `step` says where it is.
`Deliver` is `Outbox::deliver`: a full queue marks the client kicked once and asks
the accept loop to close it. Packets are numbered per client; what is sent to a
client that is being kicked is lost with the connection.

### Teleport

A tick is `Receive` (one packet of the client) until `EndPackets`, the inserts of
other systems (`MovePlayer`, which is `Insert` or `Tp`, and `Cancel`), `Advance` (`advance_teleports`: `Expire`,
`RaiseFence`, `Confirm` or `Wait`), `ApplyDeferred` (the removal `advance` asked for,
with `end_teleport`) and `Stream` (`stream_chunks` for this player). `Begin` is the
observer on insertion, `End` the one on removal. The client (`Reads`, `Answer`,
`Moves`) reads its packets in order and may always stop; it confirms syncs, answers
pings, and sends moves from wherever it thinks it is. With `Ordered = FALSE` systems that
insert or remove a teleport may run beside the barrier, between `Advance` and its commands.

### RegionFile and Persistence

`write_chunk` is `BeginWrite` (choose the sectors, in memory), `WriteData` and
`WriteHeader`, each of which may fail (`DataFails`, `HeaderFails`) or be the last
thing the process does (`FileKilled`). `Opened` rebuilds the table and the sector
map from the file. A payload is its chunk, a version and a length in sectors;
`ReadChunk` finds the payload whose pieces lie one after the other. `Persistence`
puts the ECS round it: `Edit` marks, `SaveTick` starts a flush, `Visit` goes through
the marked entities, `Break` stops at the limit, `Clear` applies the commands that remove
markers (the last entity takes the place of the one removed), `Exit` is the flush of the
`Last` schedule, `Kill` and `Start` the rest of the process's life.

### Streaming

A tick is any number of actions of the game (`Join`, `PlayerLoaded`, `Settings`, `Move`,
`ChangeDimension`, `Leave`, `MutateBlock`, `EditBlockEntity`), then `SyncBlockEntities` and one
`Stream(p)` per ready player in an order of the ECS's choosing. The pass is `stream_chunks`: a player that
stands still with nothing left is skipped (`Settled`), the rest get up to their budget of what
they need, generated chunks within what is left of the cap they share, and what is left over becomes the
backlog (`Carried`). `copy[p]` is what the client holds, `missed[p]` the chunks that changed
between its spawn chunks and `PlayerLoaded`.

### Visibility

After the game's actions come `MaintainIndex` (`maintain_chunk_viewer_index`, from each player's
mirror of `LoadedChunks`), `BroadcastMovement` (differences from `PreviousPosition` to the viewers of
the last tick), `SyncEntities` (metadata and passengers) and `Track` (`track_entities`: spawn and remove
packets by `Desired`). `client[p][e]` is what p's client shows of e.

### Scoreboard, Teams, Overlays, Clocks

Each keeps what it sent and to whom. `Scoreboard`: `RenderSidebars` writes the lines of sidebars to
their objective, `Begin` withdraws, `Sync(e)` sends and claims names and display slots per viewer in an order of
the ECS's choosing; a claim that fails waits until a claim was released (`stale`, `pending`). `Teams`: all
leaves (`Leaves`) before any joins (`Joins(e)`). `Overlays` and `Clocks`: explicit audiences claim their players
before broad ones are synced, and whoever an entity of the pass lets go is forgotten by the others (`Forget`),
so that they send all of it again; weathers ramp over ticks (`Towards`). Clients of `Clocks` run on their own.

### Roster, Entries, Effects, Attributes, ItemUse

`Roster`: packets (`FinishConfiguration`, `PlayerLoaded`, `Move`, `Rotate`), disconnects (`Quit`), systems
(`ServerMove`, `Mount`, `Dismount`), then `Broadcast`. `view[q][p]` is where q's client has p: its spawn
packet plus the deltas, or the last absolute sync. One coordinate stands for three, in units of 1/4096 of a
block, in which deltas are exact. `Entries`: `Loaded`, `Quit`, `Answer`, changes of a `TabEntry`; `SendKeepAlive` and
`SyncTabEntries`, driven by change detection (`fresh`). `Effects` and `Attributes`: the component's dirty and
removed sets against what was sent and to whom, joins and quits, riding or the sight of mobs; one `Sync` a
tick. `ItemUse`: clients act and predict (`ClientUses`, `ClientBreaks`), `Receive` queues or does at once, `Drain` does what
was queued with the world and hand it finds, and acknowledges; a client drops its expectation at the acknowledgement.

### Window and Containers

`Window` has one operator per kind of click (`Pickup`, `QuickMove`, `Swap`, `Throw`, `CloneStack`, `PickupAll`, `QuickCraft` with
its drag) and `ApplyClick`, the dispatch. `Containers` runs it twice: in the client, which applies its click at once,
and in the server, which applies inventory clicks while it reads packets (`InventoryClick`) and queues the clicks in a menu
(`MenuClick`, `DrainClick`), with state ids that turn a stale click into a full sync. From `DrainClick` to `EndAnswer` a click whose
menu is still open is answered: by the observers of the event and then by the menu's handler, of which each may open, close and
edit menus and take items, whatever the ones before it left open (`GameRuns`). `Removal` is every way a menu goes:
`ReceiveClose`, `CloseIt`, replacement in `OpenIt`, `Quit`. `Sync` is `sync_containers` and `sync_menus`: what is marked, but
for the slots behind an open menu, which keep their marks.

### Race

A game written against the library: it shows what the guarantees of the barrier are worth to their user. A tick is any number
of the game's actions (`Connect`, `Quit`, `Join`, `Leave`, `Launch`, and `Cancel`, a teleport that another system takes
away), then `Barrier`, in which teleports end (`Confirmed`, `TimedOut`), then one step of `Chain`, the systems of the
race: `Generate`, `Load`, `Count`, `Drive`, `Demolish`, or `Rest`. Every teleport ends in `Arrives`, the observer `arrived`: a
pilot mounts its kart (`Mount`), watches this round from the lobby (`GiveUp`) or from where it is (`Dismiss`). The barrier is
here what `Teleport` shows of it: it confirms within the time-out or reports that it did not, and gives back what the first of a
chain of teleports found. Left out are where karts stand, bonuses, `/reset`, results and records, the chat.

## 3. Runs

| Run | Instance | Shows |
|---|---|---|
| `connection_safety` | 2 clients, queue of 1, drains cut anywhere, 2 packets each way | no half-removed client, drops only after the end, refinement of `ClientLifecycle` (packets in order, no gaps; quits for the ready) |
| `connection_live` | 2 clients, one packet per tick | ended and kicked clients leave |
| `teleport_safety` | 3 places in 2 dimensions, 2 teleports, time-out 4, systems beside the barrier | restoration, the hold, syncs land in loaded chunks, what a confirmation means |
| `live` | teleports: time-out 2, own budget 1, `/tp`, systems beside the barrier; saving: 2 chunks, endless edits, one failing write; races: 3 players, a grid of 2, 2 circuits, 1 lap | every teleport ends, every marked chunk is saved, every round ends; seats and circuits of the race |
| `persistence_safety` | 3 chunks of 1 to 3 sectors (2 at most fit an entry), 12 payload sectors, 5 edits, one save per flush, one stop | no overlap, nothing lost or mixed up, clean chunks are stored, exits keep all, refinement of `ChunkStore` |
| `streaming` | 2 players, 3 chunks in a row, 2 dimensions, cap 1, budget 1, 2 edits, 2 moves | copies are true, no chunk is forgotten, everyone is served |
| `containers_safety` | 1 slot of each kind; 2 clicks in flight against 2 menus and an edit; 6 clicks of every kind in the inventory alone | items are conserved, the window settles, no click reaches another menu, one close per menu |
| `viewers` | 2 players; 2 entities in 2 dimensions of 2 columns (5 actions); 2 objectives (4), 2 teams (3); 1 player and 2 overlays of each kind (3) | who sees what and as what; refusals have a cause; a sidebar's order |
| `mirrors` | 3 players, two with one uuid; effects with 3 actions, attributes, entries, blocks and clocks with 4 | what clients were told of each adds up |

Three runs find that the code does something other than a comment of it says; `PROJECT.json` quotes them:

| Run | What it shows |
|---|---|
| `teleport_tp_confirmed` | `/tp` during the fence: a teleport is confirmed with its destination unloaded |
| `persistence_write_error` | after a failed payload write a chunk may be read as another one |
| `item_use_late_hand` | the item used is the one in hand when the queue is drained, not when the action was queued |

**Bounds.** Two clients are enough for one to interfere with the other's packets in the shared channel; a third would repeat
the second. A queue of one is full at the second packet, and two packets make a gap visible. Two teleports are a
replacement; a longer chain replaces the same record. The time-out is long enough for every stage to be passed and short
enough for each to be cut. Three chunks let one move into the hole of another while the third stands in the way; two sectors
in an entry make 3 the size that is too large. The safety run of `Persistence` has as many versions as edits, so none comes twice; in
the liveness run they are one, as only the marker matters. A row of three chunks is one more than is generated at startup plus
one more than a view holds at one end; a cap and a budget of one make two players compete and a backlog last over ticks. In
`Containers` two clicks in flight are one that is stale; six clicks are a drag (begin, two slots, end) with one click before and
after. In `viewers` and `mirrors` a player, an entity or a component that comes or goes, changes, and comes again takes at most four
actions of the game, in one tick or spread over several; five let an entity do so while another rides it. Larger bounds (seven
actions of the entities, five of attributes, entries and clocks, four of teams, overlays and effects) were checked apart; the
proofs of section 4 have none. Three clients in the roster
are a mover, a viewer and one that shares the viewer's uuid; the places 0, 1 and 3 are within, at and beyond the reach of a
delta. In the race two players fill the grid and a third is moved without being a pilot; the circuits share a chunk, so that one
built over what another left would show. `Race` alone was checked too with 2 laps, 2 ticks of racing and of time-out and a chunk
every second tick (417 000 states). Every bound is a CONSTANT described as such where it is declared. Symmetry is used in safety runs only, among values that
no definition tells apart.

**Fairness.** The accept loop's `select!` polls every arm at random, so each waiting
message is taken: weak fairness per arm and client. Aborts land and watchers run because
Tokio runs ready tasks. The game loop ticks: weak fairness on each step of a tick (`Ticking` in `Teleport` and
`Persistence`, `Tick` in `Streaming`, `Ticking` in `Race`, where a teleport that is late ends). `MCLive` states it
action by action for the behaviours of each part. Nothing is assumed of clients, peers or systems of a game. In `Persistence` a
flush that began is finished, as it runs inside one system: a write (`Data`, `Header`) ends, well or with an error.

**Deadlock.** Where `CHECK_DEADLOCK FALSE` is set the system may stop: the bound on teleports, clicks or edits is used up, clients
are gone, or the process is down. The other runs (`streaming`, `viewers`, `mirrors`) check it: their ticks go on for ever.

## 4. Proofs

Each `*Proofs` module defines an inductive invariant, shows that the initial
states satisfy it and each action keeps it, and derives the theorems. TLC agrees with the properties
on the instances above first. `PersistenceProofs` holds the theorems of the file and of the server above it; `ViewersProofs`, `MirrorsProofs` and
`LiveProofs` those of components that `MCViewers`, `MCMirrors` and `MCLive` run side by side, about the composed specification, for any values
of its constants (those about entities and about the roster are about `Visibility` and `Roster` themselves).

* **Connection** (`Typing`, `Ghostless`, `QuitsAnnounced`, `Drops`, `Gapless`, `Implements`):
  for any clients, capacity, limits and bounds. `NoGhost` alone is not inductive: that nothing brings a client
  back rests on where its sender is (`Placement`), on what is known of it once its task
  ended (`Departure`), on which clients have packets on their way (`InFlight`) and on whose
  quit was announced (`Announced`). `Gapless` adds that the queue holds the numbers that follow
  the last one written (`Stream`). `QuitsAnnounced` is checked by the runs as part of the refinement. `Implements` maps each step to a step of `ClientLifecycle` or to none.
* **Teleport** (`GivesBack`; `Holds`, `SyncLands` and `ConfirmedLands`, without `/tp`): for any places, budgets, time-outs and lengths of
  the queues. `IInv` says what the restore record holds while a teleport is in flight. The two action properties are about a client that may be
  any number of packets behind, so their invariant (`RouteInv`) is about the packets in flight: `Will` is what a client will have of a
  chunk once it has read the first n packets of its queue. The server's `loaded` is what the client will have after all of them
  (`Mirrored`), every fenced sync stands behind the chunks of its destination (`Gated`), ids grow along the queue and no answer
  carries one that was not sent (`Numbered`), so a pending id is that of the last sync, still unread or still unanswered, until the client stands
  where it was sent and nothing in flight takes it away from there (`Landing`). With `/tp` a player can be taken out of a teleport that is
  then confirmed all the same (section 5).
* **RegionFile** (`ChunksApart`, `SavedIsRead`, `ReadIsOwn`, `FileIsStore`): for any chunks, run length and file
  size, assuming `Sound` (no failed write, no kill between the steps of a write); section 5 shows that both
  are needed. `ChunksApart` says that runs never meet and are marked used, so that `allocate` finds them taken; only the chunk being
  written may have an old run that is not. The invariant ties the entries, the sector map and the pieces on disk together: besides
  that, a run holds the payload stored, and the write in progress owns its sectors. The theorems are about `FileSpec`, the file under any caller.
* **Persistence** (`ServerUsesFile`, `EditsKept`, `ExitKeeps`), under `Sound`: the server goes through steps of `FileSpec`, so the
  theorems of the file hold of the server's; a chunk without its marker would be loaded as it is; a stop keeps
  everything. The invariant adds to the file's that markers, queue and saved chunks are lists without repetitions, that the
  chunk being written is marked, visited and written as memory has it (`Saving`), and that on exit all that is marked is
  still to be visited, written or about to be cleared (`Exiting`). `SwapRemoved` says that removing a marker loses no other.
* **Visibility** (`Typed`, `Exactly`, `AsIs`): for any players, entities, dimensions and chunks. What is inductive (`VisInv`) is that
  the index is the union of the mirrors (`Indexed`) and lags behind `LoadedChunks` only for players marked for
  reconciliation (`Reconciled`), and that viewers, positions and looks agree with what the last pass of each system knew
  (`Viewed`, `Told`, `Looked`, `Based`, `Caught`).
  `RidersAlike`, without riders their vehicle's viewers do not know yet (`~FreshRiders`): `RidersInv` adds that a rider stands with
  its vehicle and is seen by all who see it (`SeenAlike`), that what is shown of a rider nobody sees any more does not come
  back (`SeatsKnown`), and that seats are as told but for vehicles whose passengers changed in this tick (`SeatsTrue`).
* **Overlays** (`OverlaysTold`): for any players, components, levels and transitions, with the audiences of one kind apart, borders that take
  over no player another is about to let go, and no weather withdrawn while players it let go wait for it (`OverlaysDistinct`). A client
  has one place for what several components send, so `OverlaysInv` follows a tick like that of the clocks below, with `Rivals` for
  the components that share a place (none for bars): `BeforeSync` and `AfterSync` say who holds a viewer, `ScreensAnswered` that what a client
  shows is some component's to take back. That the difference of two values makes the one of the other (`PatchedSays`), and that a ramp
  ends at its target (`TowardsSays`), are lemmas.
* **Teams** (`TeamsTold`): for any players, entities, names and members; all that is assumed is that `None` is no other value
  (`TeamsDistinct`). What is inductive (`TeamsInv`): a viewer owns the name it knows a team by and nobody owns anything else
  (`NamesOwned`); a member plays for one of the teams that list it (`Enlisted`); clients are as the claims say (`TeamClaimsShown`);
  and whoever is refused a team that will not be tried again is refused because another has the name (`TeamRefusedFor`).
* **Scoreboard** (`ObjectivesTold`, `BoardsRead`; `RefusalsHaveCauses`, without an objective that changes slot while nobody is shown it): for any
  players, entities, names, slots, lines and number of rows (`ObjectivesDistinct`). `ObjectivesShown` speaks of the end of a tick; the invariant
  (`ObjectivesInv`) of every step in it: the name and the slot a viewer knows an objective by are held for that objective and nothing else is held
  (`ObjectivesClaimed`), so a player wins a claim only where nothing is shown yet and nothing is created twice; who loses a slot
  that another objective took while this one moved gives up the name too. A refusal is kept only while its cause is
  (`ObjectiveRefusedFor`): a release marks every objective for the next tick, and the second loop releases only claims of an
  objective that moves (`ObjectivesMoving`). `BoardsRendered` says that what is not to be redrawn is drawn.
* **Streaming** (`Typed`, `CopiesAreTrue`, `NothingIsForgotten`): for any players, dimensions, chunks, radii, view distances, budgets and
  caps. `StreamInv` is the two properties together with types and with what they lean on: only chunks of the index change or wait
  for a sync, only a sign carries a block entity, a player that has not finished its configuration holds nothing, and `todo`
  names ready players only. Neither property is inductive without the other parts: a pass over a player trusts its backlog
  to name what is missing.
* **Roster** (`Typed`, `Mirrored`, `AddUp`): for any clients, uuids, places and reach. `DeltasAddUp` holds at the end
  of a tick only; what is inductive is that each viewer has a player at `PreviousPosition`, riders aside, and
  that a player whose change flag is down is at it too (`Based`).
* **Entries** (`EntriesTold`): for any players, intervals, round trips and colours. Clients always list what was last sent
  (`ListsSent`), and what change detection does not report shows as it was sent (`FreshOnly`); `DifferenceAdds` says that
  `changes_since` applied to the old row gives the new one.
* **Attributes** (`AttributesTold`): for any players, mobs and attributes, without overrides before a player is ready. What is not
  marked was sent if and only if it is overridden (`Remembered`); a client shows defaults for what was never sent, and
  what is not marked as it is once it was told (`RowsShowing`).
* **Effects** (`EffectsTold`): for any players, mounts, effects and durations, without a component inserted over another (`~Replaced`). What a
  client shows of a bearer it was told about is what the bearer has, one tick further or not yet counted down, but for the effects in
  the dirty and removed sets (`Pending`, `EffectsHad`); whoever is no longer told shows nothing (`Unworn`).
* **Clocks** (`ClocksTold`): for any players, components, times and resend intervals, with one world clock in use and no component
  withdrawn while players it let go wait for it (`ClocksDistinct`). `ClocksInv` follows a tick through its two passes: a component that is
  yet to sync shares its viewers with none that is (`BeforeSync`), one that has synced holds all it covers but those that another of its pass
  let go (`AfterSync`), and for each frozen clock at a client a component answers, now or when it syncs again (`FrozenAnswered`).
* **ItemUse** (`PredictionsEnd`): for any players, cells, items and behaviours, where survival clients have to dig (`ItemsDistinct`; a block that
  breaks at the first touch is the deviation of section 5). The invariant is about packets in flight: a client's last word on a block, or what
  its queue still says of it, is the block (`BlocksHeard`), and for every prediction there is the answer, the action in the queue of
  the tick or the packet with that sequence number or a later one on its way (`Answering`). That a change of dimension starts the numbers anew, so that
  an old answer may end a new prediction, does no harm: what the client then returns to is what it heard.
* **Containers** (`MenusReported`, `ClicksInTheirMenus`, `ItemsConserved`, `WindowsSettle`): for any windows, stacks, clicks and bounds. The first
  rests on menus being reported in turn (`Reported`) and on the client showing, and being told of, announced ones only (`Told`). The
  second is about ids: the pairs of an id and a menu that are anywhere (`Sighted`: on the server, at the client, in packets both ways, in
  the queue) are a function of the id, and none is beyond the last one given (`Sights`). That holds while the ids have not gone round
  (`MaxMenus <= MaxId`, 100 in the code): a click may be on its way for as long as one likes, so without that an old one could meet
  a new menu with its id. Neither depends on what clicks do to slots. The third does: with stack sizes of at least 1
  (`StackSizes`), any sizes of window and any first inventory (`Sizes`), what was made of each item is in the inventory, on the cursor, in the
  open menu or on the ground. `StoreInv` is that ledger with the types of stacks and slots, which it needs because a
  stack of an unknown count would not add up. `ClickKeeps` says that each click of `window.rs` outside creative mode keeps what its window
  holds, by a lemma per click; quick moves, double clicks and drags are folds, for which there is one induction each (`MergesStay`, `FillsStay`,
  `GathersStay`, `SharesStay`): a set that no step leaves is not left by the fold, stated with a set because the provers cannot
  instantiate an operator. Over a menu the window is made of the menu's slots and some of the inventory's, and a click there keeps the
  rest as it was (`WindowCounts`, `WindowReturns`). How many of an item a set of slots holds is a sum that no order of its
  terms changes (`Sum`, `CountSums`).
  `WindowsSettle` says that `Settled` holds, under three assumptions. `Regular`: stacks and windows are sound, ids do not go round, nobody is in
  creative mode or renames an open menu, the game changes things in its own phase of the tick and while a click in a menu is answered (not between the
  packets the server reads), and a window has the 64 slots, or 128 with a menu, that the code's masks of slots hold. `Waits`: a click is made when the last one has been answered
  (section 5 has what happens otherwise). `Steady`: the 15 bits of the state id do not come round while a click is on its way. The
  invariant (`SettleInv`) says of each part of the window what the client will show once it has read all that was sent
  (`HeardAs`). The client is `Informed`: the player is closing the window; or a click of its own is `Pending`; or every part will show as the server has it
  or is marked (`Heard`). A pending click either carries a state id that is no longer the server's, so its answer is
  the whole window, or the client has made of it what the server will (`Foresees`). The rest is about screens: whatever the last new one shows is filled
  (`Covered`), a menu is opened at the client once (`Once`), the last screen sent is the one that is open (`Ends`), contents come for
  the screen they are read in (`Channel`), and a drag is at the same point on both sides (`DragsMatch`). A change of a slot marks it
  (`EditKeeps`, `MarksKeep`); `Sync` tells what is marked, in a window the client knows (`Still`) or in a new one (`First`);
  a click that is answered does on the server what it did at the client (`DragsAgree`, `ClickAlike`), and slots the
  client did not name as changed are sent back.
* **Race** (`NobodyBetweenSeats`, `CircuitStands`): for any players, grid, laps, times and circuits. `PilotsInv` says of each player
  which combinations of kart, transfer, control and flight there are (`PilotOk`): one that is moved to its kart is a participant of a round still
  loading, one moved to the lobby sits nowhere. `CircuitInv` adds to `CircuitWhole` that pending pieces are pieces of the round's
  circuit, each once.

Assumptions on constants are named where the theorems state them (`Sound`, `~WithTp`, `~FreshRiders`, `RaceDistinct`, `EntriesDistinct`,
`AttributesDistinct`, `EffectsDistinct`, `ClocksDistinct`, `ItemsDistinct`, `StackSizes`, `Sizes`, `Regular`, `OverlaysDistinct`, `TeamsDistinct`, `ObjectivesDistinct`, `~MovesRefused`); each leaves out a deviation of section 5, or says that a model value such as `None` is no other
value, or what a number or a stack is. `Waits` and `Steady` are about the steps of a behaviour and stand
beside `Spec` in `WindowsSettle`. The other ASSUMEs are evaluated by TLC.

Every safety property of a passing run is stated by a theorem. Model-checked only: `Settled` with two clicks in flight, as `MCContainers`
has it for a few kinds of click; the liveness properties (out of the prover's reach); the ECS part of `TypeOK` in `Persistence`.

## 5. Known deviations

What the code does against its documentation, or what it does that a user of the library may not expect. Each is kept out of the passing
runs by a constant or by the wording of a property, named here, so that it can be seen by changing it.

| Where | What happens | To see it |
|---|---|---|
| `commands/defaults.rs:377` | `/tp` while the fence is up: confirmed with the destination unloaded | run `teleport_tp_confirmed` (`WithTp`) |
| `plugins/teleport.rs:226`, against `:39-40`, `:87` | an unthrottled teleport that replaces a throttled one keeps the throttle | `UnthrottledOwnBudget` on `MCTeleport.cfg` |
| `plugins/teleport.rs:358` | a removal queued for the old teleport can end the new one, which is reported cancelled | `Ordered = FALSE`; allowed by `Restored` |
| `region/file.rs:156` | a failed payload write: the chunk may be read as another one | run `persistence_write_error` (`MaxFailures`) |
| `region/file.rs:176`, against `world-serialization.md:127` | a kill between payload and entry can lose a chunk that had been saved | `KillMidWrite = TRUE`: `SavedSurvives` |
| `void-world-io/src/systems.rs:36` | with a limit per flush a chunk in the middle of the table may wait for ever while others are edited | `MaxSaves = 1`, 3 chunks in `MCLive.cfg`: `EverySaved` |
| `systems/player.rs:91` (`ecs.md:30`) | a player that moved before it was announced is shown beside its position | `MirrorExact` of `Roster` |
| `plugins/configuration.rs:217` | what changes between a joining player's spawn chunks and its `PlayerLoaded` never reaches it | `missed`, left out by `CopiesTrue` |
| `plugins/configuration.rs` | an initial radius beyond the spawn radius names chunks that are not there | `StreamingAssumption` |
| `plugins/inventory.rs:314`, against `:1-2` | a menu that gets a new title is opened again at the client, whose cursor is not sent | `Retitles = TRUE`: `Settled` |
| `plugins/inventory.rs:105-114` | clicks made faster than the server answers can leave a phantom stack on the client's cursor | `NextContainers` without `Waits`: `Settled` |
| `entity/passengers.rs:131` | a rider its vehicle's viewers do not know yet is not shown riding | `FreshRiders = TRUE`: `RidersShown` |
| `scoreboard.md:143-149`, `sidebar.md:147-150` | an objective that changes slot while nobody is shown it stays refused | `MovesRefused = TRUE`: `RefusedForCause` |
| `world-border.md:94-107`, `tab-list.md:44` | a player that changes borders or lists within a tick may be left with a reset | `Handover = TRUE`: `OverlaysShown` |
| `time-and-weather.md:111-115`, `:130-140` | overlapping audiences; a weather or clock withdrawn before it has sent again | `Overlap = TRUE`, `Hasty = TRUE`: `OverlaysShown`, `ClocksShown` |
| `time-and-weather.md:59-61` | with two world clocks in use, a component that goes from one to the other leaves the first frozen | `Clock` of two elements: `ClocksShown` |
| `effects.md:3-7` | a `StatusEffects` inserted over another leaves the old effects at the clients | `Replaced = TRUE`: `EffectsShown` |
| `effects.md:173-178` | overrides given before the player is ready are not shown | `Early = TRUE`: `AttributesShown` |
| `item_behavior.rs:370`, against `:66` | the item used is the one in hand when the queue is drained | run `item_use_late_hand` |
| `interaction.rs` | in survival, a block that breaks at the first touch is never acknowledged | `Instant = TRUE`: `PredictionsSettle` |
| `item_behavior.rs:370` | an action queued before a change of dimension is done in the new one | `Travel` in `ItemUse` |
| `systems/keep_alive.rs:45` | a player that does not answer once is not asked again and not disconnected | `SendKeepAlive` |

## 6. Not modelled

* **Conversions of data** (codec, packet derives, chunk format, palettes, biomes, generators, generated tables, build scripts,
  NBT, text components): pure functions of their input, without state or interleaving, which unit tests and round trips reach. A
  model of them would be a transliteration. They are more than half of the implementation's lines, with the demo's.
* **The demo but for its races, the example games, the prototypes**: users of the library. Their lines are contents (menus, items, displays,
  messages), and what they do to the library's state is what the models let a game do.
* **Simulation**: floating-point motion, collisions and physics; numeric.
* **Framing**: length prefixes and partial reads of one socket by one task.
* **Login states and status pages**: one packet at a time by connection state; the encryption is external.
* **Chat, the command parser, selectors**: pure functions of strings; `/tp` is in `Teleport`.
* **Messages without state**: titles, toasts, sounds, particles.
* In modelled parts: rotations, velocities, equipment and block displays of entities; lighting; creative slots, crafting and armour
  rules, merging of dropped items; the map of open region files; the interpolation of a border in real time; metrics and configuration files.
* Widths of counters (connection ids, teleport ids, `offset << 8`) are hazards of this code in principle; reaching their limit takes
  longer than a server runs. State ids do wrap in `Containers` (`NextState`). Loss of power, which writes to the page cache
  do not survive, is beyond the model of a kill.

For these reasons the map covers a ninth of all lines, which is a fifth of those that are not tests, benchmarks or prototypes, and most of
the lines of the files that hold the server's protocols.

## 7. What could come next

1. The login as a component of its own: states, what may be dispatched in each, the two channels of a client that is not
   yet an entity; as a refinement of the packets of `Connection`.
2. An abstract "audience" module (what a client shows is what covers it) that `Overlays`, `Clocks`, `Scoreboard` and `Teams` implement, in place of one
   property each.
3. Proofs: `Settled` for which series of quick clicks, beyond those of a player who waits, the client still settles; the invariant
   has to say of a queue of clicks what it now says of one.
4. `Race`: its results and records, its sidebar and menus.
