------------------------------ MODULE Visibility ------------------------------
(***************************************************************************)
(* Which entity a client sees (entity.rs), by the index of viewers per     *)
(* chunk (entity/visibility_index.rs), and what it is told of the ones it  *)
(* sees: movement (systems/entities.rs), metadata (entity/metadata.rs) and *)
(* passengers (entity/passengers.rs).                                      *)
(*                                                                         *)
(* A tick is any number of actions of the game, then the systems of        *)
(* PostUpdate in their order: maintain_chunk_viewer_index, the broadcast   *)
(* of movement, the sync of metadata and passengers, and the tracker.      *)
(* Chunk streaming and teleports change LoadedChunks (Streaming); here     *)
(* they do so in any way, as part of the game.                             *)
(*                                                                         *)
(* The clients' state is what they make of the packets they were sent, in  *)
(* order and without loss (Connection).                                    *)
(***************************************************************************)
EXTENDS Naturals, FiniteSets

CONSTANTS Player, Entity, Dimension, Column,
          None,         \* no vehicle, no tracked chunk
          FreshRiders,  \* may a rider be one the vehicle's viewers do not know yet?
          MaxActs       \* actions of the game that are explored

Key == Dimension \X Column

ASSUME VisibilityAssumption ==
  /\ Dimension # {} /\ Column # {}
  /\ None \notin Key /\ None \notin Entity
  /\ FreshRiders \in BOOLEAN /\ MaxActs \in Nat

VARIABLES
  phase,    \* the part of the tick that is next
  acts,     \* bound: actions of the game so far
  \* players
  ready,    \* those with PlayerReady
  gone,     \* those who left
  dim,      \* PlayerDimension
  loaded,   \* LoadedChunks
  touched,  \* ready players whose loaded chunks, dimension or readiness changed
  mirror,   \* IndexedChunks: the keys a player contributes to the index
  \* the world
  index,    \* ChunkViewerIndex, as pairs of a key and a player
  dirty,    \* DirtyChunks
  alive,    \* the spawned entities
  at,       \* dimension and chunk of an entity
  prev,     \* PreviousPosition
  hidden,   \* those with Hidden
  seen,     \* EntityViewers: chunk and players
  riders,   \* Passengers
  remount,  \* vehicles whose Passengers changed since the last sync
  meta,     \* EntityMetadata: one value
  unsent,   \* entities whose metadata is dirty
  \* what each client has
  shown, where, look, mount

players  == <<ready, gone, dim, loaded, touched, mirror>>
entities == <<alive, at, prev, hidden, riders, remount, meta, unsent>>
client   == <<shown, where, look, mount>>
vars == <<phase, acts, players, index, dirty, entities, seen, client>>

Init ==
  /\ phase = "game" /\ acts = 0
  /\ ready = {} /\ gone = {} /\ touched = {}
  /\ dim \in [Player -> {CHOOSE d \in Dimension : TRUE}]
  /\ loaded = [p \in Player |-> {}]
  /\ mirror = [p \in Player |-> {}]
  /\ index = {} /\ dirty = {}
  /\ alive = {} /\ hidden = {} /\ remount = {} /\ unsent = {}
  /\ at \in [Entity -> {CHOOSE k \in Key : TRUE}]
  /\ prev = at
  /\ seen = [e \in Entity |-> [chunk |-> None, viewers |-> {}]]
  /\ riders = [e \in Entity |-> {}]
  /\ meta = [e \in Entity |-> 0]
  /\ shown = [p \in Player |-> {}]
  /\ where = [p \in Player |-> at]
  /\ look = [p \in Player |-> meta]
  /\ mount = [p \in Player |-> [e \in Entity |-> None]]

(* What the player's components say it contributes to the index. *)
Contribution(p) == {dim[p]} \X loaded[p]

Act == phase = "game" /\ acts < MaxActs /\ acts' = acts + 1 /\ phase' = phase

-----------------------------------------------------------------------------
(* Players. *)

(* stream_chunks, begin_teleport or the chunks of a joining player. *)
SetLoaded(p, C) ==
  /\ Act /\ p \notin gone /\ C # loaded[p]
  /\ loaded' = [loaded EXCEPT ![p] = C]
  /\ touched' = IF p \in ready THEN touched \cup {p} ELSE touched
  /\ UNCHANGED <<ready, gone, dim, mirror, index, dirty, entities, seen, client>>

(* begin_teleport across dimensions: LoadedChunks is drained. *)
ChangeDimension(p, d) ==
  /\ Act /\ p \notin gone /\ d # dim[p]
  /\ dim' = [dim EXCEPT ![p] = d]
  /\ loaded' = [loaded EXCEPT ![p] = {}]
  /\ touched' = IF p \in ready THEN touched \cup {p} ELSE touched
  /\ UNCHANGED <<ready, gone, mirror, index, dirty, entities, seen, client>>

GetReady(p) ==
  /\ Act /\ p \notin ready \cup gone
  /\ ready' = ready \cup {p}
  /\ touched' = touched \cup {p}
  /\ UNCHANGED <<gone, dim, loaded, mirror, index, dirty, entities, seen, client>>

(* The entity is despawned; on_player_leave unwinds the index by the mirror. *)
Leave(p) ==
  /\ Act /\ p \in ready
  /\ ready' = ready \ {p} /\ gone' = gone \cup {p}
  /\ touched' = touched \ {p}
  /\ index' = {kp \in index : ~(kp[2] = p /\ kp[1] \in mirror[p])}
  /\ dirty' = dirty \cup mirror[p]
  /\ mirror' = [mirror EXCEPT ![p] = {}]
  /\ UNCHANGED <<dim, loaded, entities, seen, client>>

-----------------------------------------------------------------------------
(* Entities. *)

(* EntityBuilder::spawn *)
Spawn(e, k) ==
  /\ Act /\ e \notin alive
  /\ alive' = alive \cup {e}
  /\ at' = [at EXCEPT ![e] = k] /\ prev' = [prev EXCEPT ![e] = k]
  /\ meta' = [meta EXCEPT ![e] = 0]
  /\ seen' = [seen EXCEPT ![e] = [chunk |-> None, viewers |-> {}]]
  /\ UNCHANGED <<players, index, dirty, hidden, riders, remount, unsent, client>>

(* The vehicles that list e. *)
VehiclesOf(e) == {v \in alive : e \in riders[v]}

(***************************************************************************)
(* Despawning: remove_from_clients tells the viewers, and the entity is    *)
(* pruned from the passengers of its vehicle (prune_despawned_passenger,   *)
(* prune_hidden_passenger), which marks them changed.                      *)
(***************************************************************************)
Off(m, e) == [r \in Entity |-> IF r = e \/ m[r] = e THEN None ELSE m[r]]

Despawn(e) ==
  /\ Act /\ e \in alive
  /\ alive' = alive \ {e} /\ hidden' = hidden \ {e} /\ unsent' = unsent \ {e}
  /\ riders' = [v \in Entity |-> IF v = e THEN {} ELSE riders[v] \ {e}]
  /\ remount' = (remount \cup VehiclesOf(e)) \ {e}
  /\ shown' = [p \in Player |-> IF p \in seen[e].viewers THEN shown[p] \ {e}
                                                         ELSE shown[p]]
  /\ mount' = [p \in Player |-> IF p \in seen[e].viewers THEN Off(mount[p], e)
                                                         ELSE mount[p]]
  /\ seen' = [seen EXCEPT ![e] = [chunk |-> None, viewers |-> {}]]
  /\ UNCHANGED <<players, index, dirty, at, prev, meta, where, look>>

(* A vehicle takes its riders along; an entity that rides does not move. *)
Move(e, k) ==
  /\ Act /\ e \in alive /\ k # at[e] /\ VehiclesOf(e) = {}
  /\ at' = [x \in Entity |-> IF x = e \/ x \in riders[e] THEN k ELSE at[x]]
  /\ UNCHANGED <<players, index, dirty, alive, prev, hidden, riders, remount,
                 meta, unsent, seen, client>>

(* Hidden is inserted or removed: the chunk where the entity is tracked is  *)
(* marked (mark_tracked_chunk).                                            *)
SetHidden(e) ==
  /\ Act /\ e \in alive /\ VehiclesOf(e) = {}
  /\ hidden' = IF e \in hidden THEN hidden \ {e} ELSE hidden \cup {e}
  /\ dirty' = IF seen[e].chunk = None THEN dirty ELSE dirty \cup {seen[e].chunk}
  /\ UNCHANGED <<players, index, alive, at, prev, riders, remount, meta, unsent,
                 seen, client>>

(* EntityMetadata::set, by a component's projection or directly. *)
SetMeta(e) ==
  /\ Act /\ e \in alive
  /\ meta' = [meta EXCEPT ![e] = 1 - @]
  /\ unsent' = unsent \cup {e}
  /\ UNCHANGED <<players, index, dirty, alive, at, prev, hidden, riders, remount,
                 seen, client>>

(* Passengers::push.  "Passengers must be visible to the same viewers as   *)
(* the vehicle": a rider is one that the vehicle's viewers know and that   *)
(* stands with it; with FreshRiders they need not know it yet.             *)
KnownAlike(v, r) ==
  /\ r \notin hidden /\ riders[r] = {} /\ at[r] = at[v]
  /\ FreshRiders \/ seen[v].viewers \subseteq seen[r].viewers

Mount(v, r) ==
  /\ Act /\ v \in alive /\ r \in alive /\ v # r
  /\ VehiclesOf(r) = {} /\ VehiclesOf(v) = {} /\ KnownAlike(v, r)
  /\ riders' = [riders EXCEPT ![v] = @ \cup {r}]
  /\ remount' = remount \cup {v}
  /\ UNCHANGED <<players, index, dirty, alive, at, prev, hidden, meta, unsent,
                 seen, client>>

(* Passengers::remove *)
Dismount(v, r) ==
  /\ Act /\ v \in alive /\ r \in riders[v]
  /\ riders' = [riders EXCEPT ![v] = @ \ {r}]
  /\ remount' = remount \cup {v}
  /\ UNCHANGED <<players, index, dirty, alive, at, prev, hidden, meta, unsent,
                 seen, client>>

-----------------------------------------------------------------------------
(* The end of a tick. *)

(* reconcile: the keys a player no longer contributes, and the new ones.    *)
(* Mutant of Withdrawn: only the keys of the dimension the player is in. *)
WithdrawnHere(p) == {k \in mirror[p] \ Contribution(p) : k[1] = dim[p]}

(* reconcile: the keys a player no longer contributes, and the new ones. *)
Withdrawn(p) == mirror[p] \ Contribution(p)
Added(p)     == Contribution(p) \ mirror[p]

(* maintain_chunk_viewer_index reconciles the players that changed, and     *)
(* marks the keys that leave the index or enter it.                        *)
MaintainIndex ==
  /\ phase = "game" /\ phase' = "broadcast"
  /\ index' = (index \ {kp \in index : kp[2] \in touched /\ kp[1] \in Withdrawn(kp[2])})
              \cup {kp \in Key \X touched : kp[1] \in Added(kp[2])}
  /\ dirty' = dirty \cup UNION {Withdrawn(p) \cup Added(p) : p \in touched}
  /\ mirror' = [p \in Player |-> IF p \in touched THEN Contribution(p)
                                                  ELSE mirror[p]]
  /\ touched' = {}
  /\ UNCHANGED <<acts, ready, gone, dim, loaded, entities, seen, client>>

(* broadcast_entity_movement and update_previous_entity_positions: a delta *)
(* from PreviousPosition to the viewers, who add it to where they have it. *)
Shifted(k, from, to) == IF k = from THEN to ELSE k

Moved == {e \in alive : at[e] # prev[e]}

(* Mutant of Remember: for those who have viewers only. *)
RememberSeen == [e \in Entity |-> IF seen[e].viewers = {} THEN prev[e] ELSE at[e]]

(* update_previous_entity_positions *)
Remember == at

BroadcastMovement ==
  /\ phase = "broadcast" /\ phase' = "sync"
  /\ where' = [p \in Player |-> [e \in Entity |->
       IF e \in Moved /\ p \in seen[e].viewers \ gone
       THEN Shifted(where[p][e], prev[e], at[e]) ELSE where[p][e]]]
  /\ prev' = Remember
  /\ UNCHANGED <<acts, players, index, dirty, alive, at, hidden, riders, remount,
                 meta, unsent, seen, shown, look, mount>>

(* SetPassengers of the vehicles V, as the client p applies it: those it    *)
(* knows ride, those who rode and are not listed do not.                   *)
Seated(m, V, known) ==
  [r \in Entity |->
     LET vs == {v \in V : r \in riders[v] \cap known}
     IN IF vs # {} THEN CHOOSE v \in vs : TRUE
        ELSE IF m[r] \in V THEN None ELSE m[r]]

(* sync_entity_metadata and sync_passengers: to the viewers that are known *)
(* before the tracker runs.                                                *)
SyncEntities ==
  /\ phase = "sync" /\ phase' = "track"
  /\ look' = [p \in Player |-> [e \in Entity |->
       IF e \in unsent /\ p \in seen[e].viewers \cap ready
       THEN meta[e] ELSE look[p][e]]]
  /\ mount' = [p \in Player |->
       Seated(mount[p], {v \in remount : p \in seen[v].viewers \cap ready},
               shown[p])]
  /\ unsent' = {} /\ remount' = {}
  /\ UNCHANGED <<acts, players, index, dirty, alive, at, prev, hidden, riders,
                 meta, seen, shown, where>>

(* What the tracker wants the viewers of e to be. *)
Desired(e) == IF e \in hidden THEN {}
              ELSE {p \in Player : <<at[e], p>> \in index}

(* The entities the tracker looks at: those that changed chunk, and those  *)
(* whose chunk is marked.                                                  *)
Tracked == {e \in alive : seen[e].chunk # at[e] \/ at[e] \in dirty}

(* Mutant of Mounted: those whose passengers were not sent yet. *)
MountedLately(C) == {v \in C : riders[v] # {} /\ v \in remount}

(* send_passengers_on_shown: of the entities just shown, those with riders. *)
Mounted(C) == {v \in C : riders[v] # {}}

(***************************************************************************)
(* track_entity_visibility, with the observers of EntityShownEvent that    *)
(* run after it: RemoveEntities to the viewers that go, SpawnEntity at the *)
(* current position to those that come, then to these the metadata in full *)
(* and the passengers, if there are any.                                   *)
(***************************************************************************)
Track ==
  /\ phase = "track" /\ phase' = "done"
  /\ LET come(p) == {e \in Tracked : p \in Desired(e) \ seen[e].viewers}
         go(p) == {e \in Tracked : p \in seen[e].viewers \ Desired(e)}
     IN /\ seen' = [e \in Entity |-> IF e \in Tracked
                      THEN [chunk |-> at[e], viewers |-> Desired(e)] ELSE seen[e]]
        /\ shown' = [p \in Player |-> (shown[p] \ go(p)) \cup come(p)]
        /\ where' = [p \in Player |-> [e \in Entity |->
                       IF e \in come(p) THEN at[e] ELSE where[p][e]]]
        /\ look' = [p \in Player |-> [e \in Entity |->
                       IF e \in come(p) THEN meta[e] ELSE look[p][e]]]
        /\ mount' = [p \in Player |->
             LET left == [r \in Entity |->
                            IF r \in come(p) \cup go(p) \/ mount[p][r] \in go(p)
                            THEN None ELSE mount[p][r]]
             IN Seated(left, Mounted(come(p)),
                       (shown[p] \ go(p)) \cup come(p))]
  /\ dirty' = {}
  /\ UNCHANGED <<acts, players, index, entities>>

EndTick ==
  /\ phase = "done" /\ phase' = "game"
  /\ UNCHANGED <<acts, players, index, dirty, entities, seen, client>>

-----------------------------------------------------------------------------
Game ==
  \/ \E p \in Player :
       \/ GetReady(p) \/ Leave(p)
       \/ \E C \in SUBSET Column : SetLoaded(p, C)
       \/ \E d \in Dimension : ChangeDimension(p, d)
  \/ \E e \in Entity :
       \/ Despawn(e) \/ SetHidden(e) \/ SetMeta(e)
       \/ \E k \in Key : Spawn(e, k) \/ Move(e, k)
       \/ \E r \in Entity : Mount(e, r) \/ Dismount(e, r)

Tick == MaintainIndex \/ BroadcastMovement \/ SyncEntities \/ Track \/ EndTick

Next == Game \/ Tick

Spec == Init /\ [][Next]_vars

-----------------------------------------------------------------------------
(***************************************************************************)
(* At the end of a tick a ready player sees exactly the entities that are  *)
(* not hidden and stand in a chunk it has loaded, in its dimension: none   *)
(* is left behind by a quit, a change of dimension, an unloaded chunk or a *)
(* despawn, and none is missing (entity.rs 335-407, visibility_index.rs).  *)
(***************************************************************************)
Sees(p, e) == e \in alive \ hidden /\ at[e] \in Contribution(p)

ShownExactly ==
  phase = "done" => \A p \in ready : shown[p] = {e \in Entity : Sees(p, e)}

(***************************************************************************)
(* ... and has each of them where it is, looking as it does, although      *)
(* movement and metadata are sent as differences, to the viewers of the    *)
(* last tick, and a new viewer gets all of it (entities.rs 21-95,          *)
(* metadata.rs 619-668).                                                   *)
(***************************************************************************)
ShownAsIs ==
  phase = "done" => \A p \in ready : \A e \in shown[p] :
    where[p][e] = at[e] /\ look[p][e] = meta[e]

(***************************************************************************)
(* Who rides what is the same for every client that sees both, as long as  *)
(* a rider is one the vehicle's viewers know and goes where it goes        *)
(* (passengers.rs 103-178).                                                *)
(***************************************************************************)
RidersShown ==
  phase = "done" => \A p \in ready : \A v, r \in shown[p] :
    (mount[p][r] = v) <=> (r \in riders[v])

TypeOK ==
  /\ phase \in {"game", "broadcast", "sync", "track", "done"} /\ acts \in Nat
  /\ ready \subseteq Player /\ gone \subseteq Player \ ready /\ touched \subseteq ready
  /\ dim \in [Player -> Dimension]
  /\ loaded \in [Player -> SUBSET Column] /\ mirror \in [Player -> SUBSET Key]
  /\ index \subseteq Key \X Player /\ dirty \subseteq Key
  /\ alive \subseteq Entity /\ at \in [Entity -> Key] /\ prev \in [Entity -> Key]
  /\ hidden \subseteq alive /\ unsent \subseteq alive /\ remount \subseteq alive
  /\ seen \in [Entity -> [chunk : Key \cup {None}, viewers : SUBSET Player]]
  /\ riders \in [Entity -> SUBSET Entity] /\ meta \in [Entity -> {0, 1}]
  /\ shown \in [Player -> SUBSET Entity]
  /\ where \in [Player -> [Entity -> Key]] /\ look \in [Player -> [Entity -> {0, 1}]]
  /\ mount \in [Player -> [Entity -> Entity \cup {None}]]
=============================================================================
