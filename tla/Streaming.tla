------------------------------ MODULE Streaming ------------------------------
(***************************************************************************)
(* Chunks on their way to several players (systems/chunk.rs), while blocks *)
(* and block entities in them change (world/mutation.rs,                   *)
(* world/chunk_entity.rs, plugins/block_entity.rs), players join with the  *)
(* chunks around the spawn point (plugins/configuration.rs), become ready, *)
(* move, change their view distance or dimension, and leave.               *)
(*                                                                         *)
(* A tick is any number of actions of the game, then the two systems of    *)
(* PostUpdate: the sync of block entities and the streaming pass, which    *)
(* visits the ready players one by one in an order of the ECS's choosing.  *)
(* No packet is lost here and a client applies them in order (Connection), *)
(* so copy[p] is changed at the step that sends.                           *)
(***************************************************************************)
EXTENDS Integers, FiniteSets

CONSTANTS Player, Dimension, Overworld,
          Column,          \* chunk positions, on a line
          SpawnColumn,     \* the chunk of the spawn point
          SpawnRadius,     \* spawn_chunk_radius: generated at startup
          InitialRadius,   \* initial_chunk_radius: sent to a joining player
          ServerView,      \* view_distance of the server
          ClientView,      \* the view distances a client may ask for
          Cap,             \* max_chunk_generations_per_tick, 0: none
          Budget,          \* values of ChunkSendBudget that are set
          None,            \* no ChunkStreamBacklog
          MaxEdits, MaxMoves   \* bounds of the exploration

ASSUME StreamingAssumption ==
  /\ Overworld \in Dimension
  /\ Column \subseteq Int /\ SpawnColumn \in Column
  /\ SpawnRadius \in Nat /\ InitialRadius \in 0..SpawnRadius
  /\ ServerView \in Nat /\ ClientView \subseteq Nat
  /\ \A S \in SUBSET Column : None # S
  /\ Cap \in Nat /\ Budget \subseteq Nat
  /\ MaxEdits \in Nat /\ MaxMoves \in Nat

VARIABLES
  phase,    \* "game", or "stream" during the pass of stream_chunks
  todo,     \* players the pass has yet to visit
  fresh,    \* chunks generated in this pass: indexed, not yet spawned
  index,    \* ChunkIndex: the chunks that exist
  world,    \* ChunkData of each chunk, of those not generated as they will be
  pending,  \* chunks with pending_block_entities
  player,   \* the components of each player
  copy,     \* what each client holds: a function from chunks
  missed,   \* history: chunks that changed after a joining client got them
  edits, moves

vars == <<phase, todo, fresh, index, world, pending, player, copy, missed,
          edits, moves>>

Chunk == Dimension \X Column

InRadius(c, r) == {x \in Column : x - c \in (-r)..r}

(***************************************************************************)
(* A chunk is one block and its block entity.  A "sign" may have a block   *)
(* entity, whose content is a number other than 0; "stone" has none.       *)
(***************************************************************************)
Content == [block : {"stone", "sign"}, be : 0..MaxEdits]

Unlimited == -1

Has(p) == player[p].stage \in {"joined", "ready"}
Ready == {p \in Player : player[p].stage = "ready"}

(* Mutant of Seeing: only the chunk the player stands in. *)
SeeingOwnChunk(k) == {p \in Ready : player[p].dim = k[1] /\ k[2] = player[p].cur}

(* Recipients::seeing_chunk over the ready players. *)
Seeing(k) == {p \in Ready : player[p].dim = k[1] /\ k[2] \in player[p].loaded}

(* The clients that hold k and are not told of a change, as they are not   *)
(* ready yet.                                                              *)
Waiting(k) == {p \in Player : player[p].stage = "joined" /\ k \in DOMAIN copy[p]}

Absent == [stage |-> "config", dim |-> Overworld, at |-> SpawnColumn,
           cur |-> SpawnColumn, vd |-> 0, view |-> ServerView, loaded |-> {},
           backlog |-> None, budget |-> Unlimited]

Drop(f, S) == [k \in DOMAIN f \ S |-> f[k]]
Store(f, S) == [k \in DOMAIN f \cup S |-> IF k \in S THEN world[k] ELSE f[k]]

(* init_world at startup. *)
Init ==
  /\ phase = "game" /\ todo = {} /\ fresh = {} /\ pending = {}
  /\ index = {Overworld} \X InRadius(SpawnColumn, SpawnRadius)
  /\ world = [k \in Chunk |-> [block |-> "stone", be |-> 0]]
  /\ player = [p \in Player |-> Absent]
  /\ copy = [p \in Player |-> << >>]
  /\ missed = [p \in Player |-> {}]
  /\ edits = 0 /\ moves = 0

-----------------------------------------------------------------------------
(* The game. *)

(* handle_finish_configuration: the components, and the chunks around the  *)
(* spawn point that exist.                                                 *)
Join(p) ==
  /\ phase = "game" /\ player[p].stage = "config"
  /\ LET near == InRadius(SpawnColumn, InitialRadius)
         sent == ({Overworld} \X near) \cap index
     IN /\ player' = [player EXCEPT ![p] =
             [@ EXCEPT !.stage = "joined", !.vd = InitialRadius,
                       !.loaded = {k[2] : k \in sent}]]
        /\ copy' = [copy EXCEPT ![p] = Store(@, sent)]
  /\ UNCHANGED <<phase, todo, fresh, index, world, pending, missed, edits, moves>>

(* handle_player_loaded *)
PlayerLoaded(p) ==
  /\ phase = "game" /\ player[p].stage = "joined"
  /\ player' = [player EXCEPT ![p].stage = "ready"]
  /\ UNCHANGED <<phase, todo, fresh, index, world, pending, copy, missed, edits,
                 moves>>

(* handle_client_information *)
Settings(p, v) ==
  /\ phase = "game" /\ player[p].stage # "gone" /\ moves < MaxMoves
  /\ player' = [player EXCEPT ![p].view = v]
  /\ moves' = moves + 1
  /\ UNCHANGED <<phase, todo, fresh, index, world, pending, copy, missed, edits>>

(* A change of Position, by the client or the game. *)
Move(p, c) ==
  /\ phase = "game" /\ Has(p) /\ c # player[p].at /\ moves < MaxMoves
  /\ player' = [player EXCEPT ![p].at = c]
  /\ moves' = moves + 1
  /\ UNCHANGED <<phase, todo, fresh, index, world, pending, copy, missed, edits>>

(* begin_teleport to another dimension, with or without a chunk budget:    *)
(* everything the player held is unloaded at once, and an empty backlog    *)
(* asks the next pass for the new surroundings.                            *)
ChangeDimension(p, d, c, b) ==
  /\ phase = "game" /\ Has(p) /\ d # player[p].dim /\ moves < MaxMoves
  /\ player' = [player EXCEPT ![p] =
       [@ EXCEPT !.dim = d, !.at = c, !.loaded = {}, !.backlog = {},
                 !.budget = IF b = Unlimited THEN player[p].budget ELSE b]]
  /\ copy' = [copy EXCEPT ![p] = Drop(@, {player[p].dim} \X player[p].loaded)]
  /\ missed' = [missed EXCEPT ![p] = {}]
  /\ moves' = moves + 1
  /\ UNCHANGED <<phase, todo, fresh, index, world, pending, edits>>

Leave(p) ==
  /\ phase = "game" /\ Has(p)
  /\ player' = [player EXCEPT ![p] = [Absent EXCEPT !.stage = "gone"]]
  /\ copy' = [copy EXCEPT ![p] = << >>]
  /\ missed' = [missed EXCEPT ![p] = {}]
  /\ UNCHANGED <<phase, todo, fresh, index, world, pending, edits, moves>>

(***************************************************************************)
(* mutate_block: set_block drops a block entity the new block cannot host, *)
(* with its pending update; the change is broadcast, and a client drops    *)
(* such a block entity of its own accord.                                  *)
(***************************************************************************)
Hosted(content, block) ==
  [block |-> block, be |-> IF block = "sign" THEN content.be ELSE 0]

MutateBlock(k, block) ==
  /\ phase = "game" /\ k \in index /\ block # world[k].block /\ edits < MaxEdits
  /\ world' = [world EXCEPT ![k] = Hosted(@, block)]
  /\ pending' = IF block # "sign" /\ world[k].be # 0 THEN pending \ {k}
                                                     ELSE pending
  /\ copy' = [p \in Player |-> IF p \in Seeing(k)
                               THEN [copy[p] EXCEPT ![k] = Hosted(@, block)]
                               ELSE copy[p]]
  /\ missed' = [p \in Player |-> IF p \in Waiting(k) THEN missed[p] \cup {k}
                                                     ELSE missed[p]]
  /\ edits' = edits + 1
  /\ UNCHANGED <<phase, todo, fresh, index, player, moves>>

(* set_block_entity and remove_block_entity (be = 0): only marked. *)
EditBlockEntity(k, be) ==
  /\ phase = "game" /\ k \in index /\ edits < MaxEdits
  /\ IF be = 0 THEN world[k].be # 0 ELSE world[k].block = "sign"
  /\ world' = [world EXCEPT ![k].be = be]
  /\ pending' = pending \cup {k}
  /\ edits' = edits + 1
  /\ UNCHANGED <<phase, todo, fresh, index, player, copy, missed, moves>>

-----------------------------------------------------------------------------
(* The end of a tick. *)

(* sync_block_entities, which starts PostUpdate.  A client ignores the     *)
(* data of a block entity whose block it does not have.                    *)
SyncBlockEntities ==
  /\ phase = "game"
  /\ copy' = [p \in Player |-> [k \in DOMAIN copy[p] |->
       IF k \in pending /\ p \in Seeing(k) /\ copy[p][k].block = "sign"
       THEN [copy[p][k] EXCEPT !.be = world[k].be]
       ELSE copy[p][k]]]
  /\ missed' = [p \in Player |-> missed[p] \cup
                                 {k \in pending : p \in Waiting(k)}]
  /\ pending' = {}
  /\ phase' = "stream" /\ todo' = Ready /\ fresh' = {}
  /\ UNCHANGED <<index, world, player, edits, moves>>

EffectiveView(p) ==
  IF player[p].view < ServerView THEN player[p].view ELSE ServerView

(***************************************************************************)
(* What the pass sends of the chunks a player needs: as many as the budget *)
(* and the cap on generations allow, in the order of the list, which is    *)
(* left open here.  A chunk generated for an earlier player of this pass   *)
(* cannot be read yet and waits.                                           *)
(***************************************************************************)
Allowance(n) == IF n = Unlimited THEN Cardinality(Column)
                ELSE IF n = 0 THEN 1 ELSE n
GenerationsLeft == IF Cap = 0 THEN Cardinality(Column)
                   ELSE Cap - Cardinality(fresh)

Batches(p, need) ==
  LET key(c) == <<player[p].dim, c>>
      stored == {c \in need : key(c) \in index \ fresh}
      absent == {c \in need : key(c) \notin index}
      budget == Allowance(player[p].budget)
  IN {S \in SUBSET (stored \cup absent) :
        LET new == Cardinality(S \cap absent) IN
        /\ Cardinality(S) <= budget /\ new <= GenerationsLeft
        /\ \/ Cardinality(S) = budget
           \/ stored \subseteq S /\ (absent \subseteq S \/ new = GenerationsLeft)}

(* Mutant of Settled: a backlog alone does not bring the pass back. *)
SettledStandingStill(p) ==
  player[p].at = player[p].cur /\ EffectiveView(p) = player[p].vd

(* A player with nothing to do: neither moved, nor view changed, nor backlog. *)
Settled(p) ==
  /\ player[p].at = player[p].cur
  /\ EffectiveView(p) = player[p].vd
  /\ player[p].backlog = None

Skip(p) ==
  /\ phase = "stream" /\ p \in todo /\ Settled(p)
  /\ todo' = todo \ {p}
  /\ UNCHANGED <<phase, fresh, index, world, pending, player, copy, missed,
                 edits, moves>>

(* Mutant of Carried: the backlog is carried on with another view distance. *)
CarriedAcrossViews(p) ==
  player[p].at = player[p].cur /\ player[p].backlog \notin {None, {}}

(* The backlog is carried on while the player stays where it is; otherwise *)
(* the list is made anew and what fell out of range unloaded.              *)
Carried(p) ==
  /\ player[p].at = player[p].cur /\ EffectiveView(p) = player[p].vd
  /\ player[p].backlog \notin {None, {}}

Stream(p) ==
  /\ phase = "stream" /\ p \in todo /\ ~Settled(p)
  /\ LET range == InRadius(player[p].at, EffectiveView(p))
         out   == IF Carried(p) THEN {} ELSE player[p].loaded \ range
         kept  == player[p].loaded \ out
         list  == IF Carried(p) THEN player[p].backlog ELSE range
         here(S) == {player[p].dim} \X S
     IN \E S \in Batches(p, list \ kept) :
          LET rest == (list \ kept) \ S IN
          /\ fresh' = fresh \cup (here(S) \ index)
          /\ index' = index \cup here(S)
          /\ player' = [player EXCEPT ![p] =
               [@ EXCEPT !.cur = player[p].at, !.vd = EffectiveView(p),
                         !.loaded = kept \cup S,
                         !.backlog = IF rest = {} THEN None ELSE rest]]
          /\ copy' = [copy EXCEPT ![p] = Store(Drop(@, here(out)), here(S))]
          /\ missed' = [missed EXCEPT ![p] = @ \ here(out)]
  /\ todo' = todo \ {p}
  /\ UNCHANGED <<phase, world, pending, edits, moves>>

(* The commands of the pass are applied: what it generated can be read. *)
EndTick ==
  /\ phase = "stream" /\ todo = {}
  /\ phase' = "game" /\ fresh' = {}
  /\ UNCHANGED <<todo, index, world, pending, player, copy, missed, edits, moves>>

-----------------------------------------------------------------------------
Game ==
  \/ \E p \in Player :
       \/ Join(p) \/ PlayerLoaded(p) \/ Leave(p)
       \/ \E v \in ClientView : Settings(p, v)
       \/ \E c \in Column : Move(p, c)
       \/ \E d \in Dimension, c \in Column, b \in Budget \cup {Unlimited} :
            ChangeDimension(p, d, c, b)
  \/ \E k \in Chunk :
       \/ \E block \in {"stone", "sign"} : MutateBlock(k, block)
       \/ \E be \in {0, edits + 1} : EditBlockEntity(k, be)

Tick ==
  \/ SyncBlockEntities
  \/ \E p \in Player : Skip(p) \/ Stream(p)
  \/ EndTick

Next == Game \/ Tick

Spec == Init /\ [][Next]_vars

(* The application loop runs tick after tick. *)
FairSpec == Spec /\ WF_vars(Tick)

-----------------------------------------------------------------------------
TypeOK ==
  /\ phase \in {"game", "stream"} /\ todo \subseteq Ready
  /\ fresh \subseteq index /\ index \subseteq Chunk /\ pending \subseteq index
  /\ world \in [Chunk -> Content]
  /\ \A p \in Player :
       /\ player[p] \in [stage : {"config", "joined", "ready", "gone"},
                         dim : Dimension, at : Column, cur : Column,
                         vd : Int, view : ClientView \cup {ServerView},
                         loaded : SUBSET Column,
                         backlog : {None} \cup SUBSET Column,
                         budget : Budget \cup {Unlimited}]
       /\ missed[p] \subseteq DOMAIN copy[p]
       /\ \A k \in DOMAIN copy[p] : copy[p][k] \in Content

(***************************************************************************)
(* What a client holds is what the server keeps for it in LoadedChunks and *)
(* shows the world as it is: every block that changed before, while and    *)
(* after the chunk was on its way, and every block entity but those about  *)
(* to be synced.  Only what changed between the spawn chunks of a joining  *)
(* player and its PlayerLoaded is missing (chunk.rs 117-189, mutation.rs   *)
(* 56-69, plugins/block_entity.rs 31-55).                                  *)
(***************************************************************************)
CopiesTrue ==
  \A p \in Player :
    /\ DOMAIN copy[p] = IF Has(p) THEN {player[p].dim} \X player[p].loaded ELSE {}
    /\ \A k \in DOMAIN copy[p] \ missed[p] :
         /\ copy[p][k].block = world[k].block
         /\ k \notin pending => copy[p][k].be = world[k].be

(***************************************************************************)
(* No chunk is forgotten: a player without a backlog holds exactly the     *)
(* chunks within the view distance of where the pass last saw it, and a    *)
(* backlog in use names just what is missing of them, whatever the budget, *)
(* the cap and the chunks generated for others in the same pass held up    *)
(* (chunk.rs 95-201).                                                      *)
(***************************************************************************)
NothingForgotten ==
  \A p \in Player : Has(p) =>
    LET range == InRadius(player[p].cur, player[p].vd)
        left  == player[p].backlog
    IN \/ left = {}
       \/ left = None /\ player[p].loaded = range
       \/ left # None /\ player[p].loaded \cap left = {}
                      /\ player[p].loaded \cup left = range

(***************************************************************************)
(* Once the players stay where they are, every ready one gets all the      *)
(* chunks in its view, although they share the generation cap (chunk.rs    *)
(* 136-201).                                                               *)
(***************************************************************************)
Complete(p) ==
  /\ player[p].dim \in Dimension
  /\ player[p].loaded = InRadius(player[p].at, EffectiveView(p))
Streamed ==
  \A p \in Player : <>[](player[p].stage = "ready" => Complete(p))
=============================================================================
