------------------------------- MODULE ItemUse -------------------------------
(***************************************************************************)
(* Digging and using items: what players do to blocks is queued while      *)
(* packets are read and done later in the tick, with the world at hand     *)
(* (plugins/interaction.rs, plugins/item_use.rs, item_behavior.rs,         *)
(* world/mutation.rs).  A client shows what it expects at once, keeps what *)
(* the server last said of the block, and returns to that once the server  *)
(* acknowledges the sequence number of the action.                         *)
(*                                                                         *)
(* A hotbar holds each item in a slot of its own, so the item stands for   *)
(* the slot.  An action names the cell it changes: the one clicked at, or  *)
(* the one beside it.  Every cell is in a chunk that all players of its    *)
(* dimension have; when chunks arrive is the matter of Streaming, and a    *)
(* client that changes dimension has the new one in one piece.  A use in   *)
(* the air is one whose behaviour sets nothing.  What behaviours give and  *)
(* take reaches the client as in Containers.                               *)
(***************************************************************************)
EXTENDS Naturals, Sequences

CONSTANTS Player, Cell, Dim,
          Block,    \* items that place their block
          Tool,     \* items with a behaviour, which may set a block
          Air,      \* no block
          None,     \* no item, no expectation, no change
          Start,    \* where players start
          Creative, \* whether the server's game mode is creative
          Instant,  \* may a survival client break a block at the first touch?
          MaxActs   \* actions of clients and the game that are explored

Item == Block \cup Tool

VARIABLES
  phase,   \* "ingest" or "update"
  acts,    \* bound: actions so far
  present, \* players that are connected
  dim,     \* PlayerDimension
  hotbar,  \* of each player, the slot selected and the items that are there
  queue,   \* ItemUseQueue; with what was in hand then
  world,   \* the blocks
  client,  \* what clients show, expect and hold
  up, down \* packets on their way

vars == <<phase, acts, present, dim, hotbar, queue, world, client, up, down>>

FullHotbar == [selected |-> CHOOSE i \in Item : TRUE, items |-> Item]
Expects == [c \in Cell |-> None]

Init ==
  /\ phase = "ingest" /\ acts = 0 /\ present = Player
  /\ dim = [p \in Player |-> Start]
  /\ hotbar = [p \in Player |-> FullHotbar]
  /\ queue = <<>>
  /\ world = [d \in Dim |-> [c \in Cell |-> Air]]
  /\ client = [p \in Player |-> [shown |-> world[Start], expects |-> Expects, seq |-> 0,
                                 hotbar |-> FullHotbar]]
  /\ up = [p \in Player |-> <<>>] /\ down = [p \in Player |-> <<>>]

(* Inventory::held *)
Held(bar) == IF bar.selected \in bar.items THEN bar.selected ELSE None

Select(bar, i) == [bar EXCEPT !.selected = i]
DropHeld(bar) == [bar EXCEPT !.items = @ \ {bar.selected}]

Act == acts < MaxActs /\ acts' = acts + 1

-----------------------------------------------------------------------------
(* The clients (external). *)

Sends(p, m) == up' = [up EXCEPT ![p] = Append(@, m)]

(* The client shows block b in c until action n is acknowledged. *)
Predicted(cl, c, b, n) ==
  [cl EXCEPT !.seq = n, !.shown[c] = b,
             !.expects[c] = [seq |-> n, was |-> IF @ = None THEN cl.shown[c] ELSE @.was]]

ClientUses(p, c) ==
  LET cl == client[p]
      n  == cl.seq + 1
      i  == Held(cl.hotbar)
  IN /\ Act /\ p \in present
     /\ client' = [client EXCEPT ![p] = IF i \in Block /\ cl.shown[c] = Air
                                        THEN Predicted(cl, c, i, n) ELSE [cl EXCEPT !.seq = n]]
     /\ Sends(p, [kind |-> "use", seq |-> n, cell |-> c])
     /\ UNCHANGED <<phase, present, dim, hotbar, queue, world, down>>

(* A survival client that has to dig tells of its start too, which changes nothing. *)
ClientBreaks(p, c) ==
  LET cl == client[p]
  IN /\ Act /\ p \in present /\ cl.shown[c] # Air
     /\ client' = [client EXCEPT ![p] = Predicted(cl, c, Air, cl.seq + 1)]
     /\ \E kind \in IF Creative THEN {"start"} ELSE {"finish"} \cup IF Instant THEN {"start"} ELSE {} :
          Sends(p, [kind |-> kind, seq |-> cl.seq + 1, cell |-> c])
     /\ UNCHANGED <<phase, present, dim, hotbar, queue, world, down>>

ClientSelects(p, i) ==
  /\ Act /\ p \in present /\ client[p].hotbar.selected # i
  /\ client' = [client EXCEPT ![p].hotbar = Select(@, i)]
  /\ Sends(p, [kind |-> "select", item |-> i])
  /\ UNCHANGED <<phase, present, dim, hotbar, queue, world, down>>

ClientDrops(p) ==
  /\ Act /\ p \in present /\ Held(client[p].hotbar) # None
  /\ client' = [client EXCEPT ![p].hotbar = DropHeld(@)]
  /\ Sends(p, [kind |-> "drop"])
  /\ UNCHANGED <<phase, present, dim, hotbar, queue, world, down>>

Acknowledged(cl, n) ==
  LET over == {c \in Cell : cl.expects[c] # None /\ cl.expects[c].seq <= n}
  IN [cl EXCEPT !.shown = [c \in Cell |-> IF c \in over THEN cl.expects[c].was ELSE @[c]],
                !.expects = [c \in Cell |-> IF c \in over THEN None ELSE @[c]]]

ClientReads(p) ==
  LET m  == Head(down[p])
      cl == client[p]
  IN /\ p \in present /\ down[p] # <<>>
     /\ down' = [down EXCEPT ![p] = Tail(@)]
     /\ client' = [client EXCEPT ![p] =
          CASE m.kind = "ack" -> Acknowledged(cl, m.seq)
            [] m.kind = "world" -> [cl EXCEPT !.shown = m.blocks, !.expects = Expects, !.seq = 0]
            [] m.kind = "block" /\ cl.expects[m.cell] = None -> [cl EXCEPT !.shown[m.cell] = m.block]
            [] OTHER -> [cl EXCEPT !.expects[m.cell].was = m.block]]
     /\ UNCHANGED <<phase, acts, present, dim, hotbar, queue, world, up>>

-----------------------------------------------------------------------------
(* Packets: what touches the hotbar is done, what touches blocks is queued. *)

(* queue_use_on_block, queue_break, queue_creative_break *)
Queues(m) == m.kind \in {"use", "finish"} \/ (m.kind = "start" /\ Creative)

Receive(p) ==
  LET m == Head(up[p])
  IN /\ phase = "ingest" /\ p \in present /\ up[p] # <<>>
     /\ up' = [up EXCEPT ![p] = Tail(@)]
     /\ hotbar' = [hotbar EXCEPT ![p] = CASE m.kind = "select" -> Select(@, m.item)
                                          [] m.kind = "drop" -> DropHeld(@)
                                          [] OTHER -> @]
     /\ queue' = IF Queues(m)
                 THEN Append(queue, [player |-> p, seq |-> m.seq, cell |-> m.cell,
                                     breaks |-> m.kind # "use", hand |-> Held(hotbar[p])])
                 ELSE queue
     /\ UNCHANGED <<phase, acts, present, dim, world, client, down>>

(* What is left in the queue of a player that quits is passed over. *)
Quit(p) ==
  /\ Act /\ phase = "ingest" /\ p \in present
  /\ present' = present \ {p}
  /\ up' = [up EXCEPT ![p] = <<>>] /\ down' = [down EXCEPT ![p] = <<>>]
  /\ UNCHANGED <<phase, dim, hotbar, queue, world, client>>

EndIngest ==
  /\ phase = "ingest" /\ phase' = "update"
  /\ UNCHANGED <<acts, present, dim, hotbar, queue, world, client, up, down>>

(* The game moves a player to another dimension. *)
Travel(p, d) ==
  /\ Act /\ phase = "update" /\ p \in present /\ d # dim[p]
  /\ dim' = [dim EXCEPT ![p] = d]
  /\ down' = [down EXCEPT ![p] = Append(@, [kind |-> "world", blocks |-> world[d]])]
  /\ UNCHANGED <<phase, present, hotbar, queue, world, client, up>>

-----------------------------------------------------------------------------
(* The queue. *)

(* mutate_block: a real change is told to all who have the chunk. *)
Mutate(acc, change) ==
  IF change = None \/ acc.blocks[change.cell] = change.block THEN acc
  ELSE [blocks |-> [acc.blocks EXCEPT ![change.cell] = change.block],
        told |-> Append(acc.told, [kind |-> "block", cell |-> change.cell, block |-> change.block])]

(* What a behaviour sets: a block or none. *)
Sets == {None} \cup [cell : Cell, block : Block \cup {Air}]

(* The changes that a use may make, one after the other: a behaviour sets a *)
(* block or not, and handles the use or passes; what it passes, an item     *)
(* without one, and nothing in hand, place their block if they have one.    *)
UseChanges(item, c) ==
  LET placed == IF item \in Block THEN [cell |-> c, block |-> item] ELSE None
  IN IF item \in Tool THEN Sets \X {None, placed} ELSE {<<None, placed>>}

(* A behaviour is told of the break if there was a block to break. *)
BreakChanges(item, c, was) ==
  {[cell |-> c, block |-> Air]} \X (IF item \in Tool /\ was # Air THEN Sets ELSE {None})

Changes(q) ==
  LET item == Held(hotbar[q.player])
  IN IF q.breaks THEN BreakChanges(item, q.cell, world[dim[q.player]][q.cell])
     ELSE UseChanges(item, q.cell)

(* Fault in drain_item_use_queue: only what changed something is acknowledged. *)
AckOfChange(q, told) == IF told = <<>> THEN <<>> ELSE <<[kind |-> "ack", seq |-> q.seq]>>

Ack(q, told) == <<[kind |-> "ack", seq |-> q.seq]>>

Drain ==
  LET q == Head(queue)
      d == dim[q.player]
  IN /\ phase = "update" /\ queue # <<>>
     /\ queue' = Tail(queue)
     /\ IF q.player \in present
        THEN \E changes \in Changes(q) :
               LET after == Mutate(Mutate([blocks |-> world[d], told |-> <<>>], changes[1]), changes[2])
               IN /\ world' = [world EXCEPT ![d] = after.blocks]
                  /\ down' = [p \in Player |->
                       (IF p \in present /\ dim[p] = d THEN down[p] \o after.told ELSE down[p])
                       \o IF p = q.player THEN Ack(q, after.told) ELSE <<>>]
        ELSE UNCHANGED <<world, down>>
     /\ UNCHANGED <<phase, acts, present, dim, hotbar, client, up>>

EndTick ==
  /\ phase = "update" /\ queue = <<>> /\ phase' = "ingest"
  /\ UNCHANGED <<acts, present, dim, hotbar, queue, world, client, up, down>>

Next ==
  \/ \E p \in Player :
       \/ \E c \in Cell : ClientUses(p, c) \/ ClientBreaks(p, c)
       \/ \E i \in Item : ClientSelects(p, i)
       \/ ClientDrops(p) \/ ClientReads(p)
       \/ Receive(p) \/ Quit(p)
       \/ \E d \in Dim : Travel(p, d)
  \/ EndIngest \/ Drain \/ EndTick

Spec == Init /\ [][Next]_vars
-----------------------------------------------------------------------------
(***************************************************************************)
(* Whatever clients expected of actions that came to nothing, to something *)
(* else, or to a block that another player changed meanwhile, each shows   *)
(* the blocks of its dimension as they are once all is said               *)
(* (drain_item_use_queue, mutate_block).                                   *)
(***************************************************************************)
PredictionsSettle ==
  \A p \in present :
    up[p] = <<>> /\ down[p] = <<>> /\ (\A k \in DOMAIN queue : queue[k].player # p) =>
      client[p].expects = Expects /\ client[p].shown = world[dim[p]]

(***************************************************************************)
(* "Snapshot of the item in hand when the action was queued"               *)
(* (item_behavior.rs 66): an item is used by the action that was made with *)
(* it.                                                                     *)
(***************************************************************************)
UsedAsHeld ==
  phase = "update" /\ queue # <<>> =>
    LET q == Head(queue)
    IN q.player \in present /\ ~q.breaks => Held(hotbar[q.player]) = q.hand
=============================================================================
