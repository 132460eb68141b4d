------------------------------ MODULE Teleport ------------------------------
(***************************************************************************)
(* The teleport barrier for one ready player: the Teleport and             *)
(* TeleportProgress components (void/src/plugins/teleport.rs), the          *)
(* TeleportState id handshake (void/src/plugins/movement.rs), the player's  *)
(* own chunk streaming (void/src/systems/chunk.rs) and the /tp command      *)
(* (void/src/commands/defaults.rs), against a client that reads its packets *)
(* in order.  A tick is: packets, Update (inserts, then the barrier, then   *)
(* its deferred commands), PostUpdate (streaming).                          *)
(*                                                                         *)
(* A place stands for a position: it has a centre chunk, the chunks around  *)
(* it and a dimension.  Chunk positions do not name a dimension, so two     *)
(* places of different dimensions may share their chunk positions.          *)
(***************************************************************************)
EXTENDS Integers, FiniteSets, SequencesExt

CONSTANTS
  Places,        \* destinations
  Home,          \* where the player spawns
  Center,        \* Center[p]: chunk of place p
  Near,          \* Near[p]: chunks in range of p, the preload radius included
  Dim,           \* Dim[p]: dimension of p
  NoTeleport,    \* no Teleport component
  OwnBudget,     \* the player's own ChunkSendBudget, 0 when absent
  Budgets,       \* chunk_budget of the teleports inserted, 0 for unthrottled
  Timeout,       \* timeout_ticks
  Ordered,       \* TRUE: systems that insert teleports run before or after the
                 \* barrier; FALSE: they may run beside it
  WithTp,        \* TRUE: the player may use /tp
  MaxTeleports,  \* bound: teleports inserted and /tp used
  MaxQueue       \* bound: packets the client leaves unread by the server

(* The Teleport components callers insert *)
Teleports == [to : Places, budget : Budgets]

NoDim == "absent"                  \* a chunk the client does not have

ASSUME TeleportAssumption ==
  /\ Home \in Places /\ NoTeleport \notin Teleports
  /\ \A p \in Places : Center[p] \in Near[p] /\ Dim[p] # NoDim
  /\ \A p, q \in Places : Center[p] = Center[q] => Near[p] = Near[q]
  /\ OwnBudget \in Nat /\ Budgets \subseteq Nat
  /\ Timeout \in Nat /\ MaxTeleports \in Nat /\ MaxQueue \in Nat
  /\ Ordered \in BOOLEAN /\ WithTp \in BOOLEAN

Chunks == UNION {Near[p] : p \in Places}

(* A backlog without carried chunks makes stream_chunks take the whole range. *)
StreamAnew == {{}}

Outcomes == {"confirmed", "timedOut", "cancelled"}

VARIABLES
  phase,       \* "packets", "update", "deferred" (commands not yet applied), "post"
  teleport,    \* the Teleport component, or NoTeleport
  stage,       \* TeleportProgress: "streaming", "fence", "sync"
  fence,       \* id of the Ping when stage = "fence"
  elapsed,     \* ticks since the teleport was inserted
  restore,     \* TeleportProgress::restore: <<>> or <<had_control, budget>>
  outcome,     \* TeleportProgress::outcome, or "none"
  removing,    \* a removal of Teleport is queued
  control,     \* ServerControlledPosition is present
  budget,      \* ChunkSendBudget, 0 when absent
  pos, dim,    \* Position as a place, PlayerDimension
  nextId, pendingId,             \* TeleportState; -1 for no pending id
  center, loaded,                \* CurrentChunkPos, LoadedChunks
  backlog,                       \* {} or {pending}: ChunkStreamBacklog
  toClient, fromClient,          \* packets in flight
  clientAt, clientHas,           \* where the client is, dimension of its chunks
  inserted,    \* teleports inserted so far
  event,       \* the last PlayerTeleportEvent as <<outcome, destination>>, or <<>>
  seated       \* control was held before any teleport, by a vehicle seat

teleVars == <<teleport, stage, fence, elapsed, restore, outcome, removing>>
playerVars == <<control, budget, pos, dim, nextId, pendingId>>
streamVars == <<center, loaded, backlog>>
clientVars == <<clientAt, clientHas>>
logVars == <<inserted, event, seated>>
vars == <<phase, teleVars, playerVars, streamVars, toClient, fromClient,
          clientVars, logVars>>

SyncPacket(id, place, fenced) ==
  [kind |-> "sync", id |-> id, to |-> place, fenced |-> fenced]

(* handle_finish_configuration: the spawn chunks and the first sync are on  *)
(* their way.                                                               *)
Init ==
  /\ phase = "packets"
  /\ teleport = NoTeleport /\ stage = "streaming" /\ fence = 0 /\ elapsed = 0
  /\ restore = <<>> /\ outcome = "none" /\ removing = FALSE
  /\ seated \in BOOLEAN /\ control = seated /\ budget = OwnBudget
  /\ pos = Home /\ dim = Dim[Home] /\ nextId = 1 /\ pendingId = 0
  /\ center = Center[Home] /\ loaded = Near[Home] /\ backlog = {}
  /\ toClient = <<SyncPacket(0, Home, FALSE)>> /\ fromClient = <<>>
  /\ clientAt = Home
  /\ clientHas = [c \in Chunks |-> IF c \in Near[Home] THEN Dim[Home] ELSE NoDim]
  /\ inserted = 0 /\ event = <<>>

-----------------------------------------------------------------------------
(* Beginning *)

(* Fault: every teleport of a chain records what it finds. *)
RestoringLatest == <<control, budget>>

(* The restore record is written by the first of a chain of teleports only. *)
Restoring == IF restore = <<>> THEN <<control, budget>> ELSE restore

(* One packet stands for the chunk, or unload, packets of one pass. *)
Unloading(S) == IF S = {} THEN <<>> ELSE <<[kind |-> "unload", chunks |-> S]>>
Loading(S, d) == IF S = {} THEN <<>> ELSE <<[kind |-> "chunks", chunks |-> S, dim |-> d]>>

(* begin_teleport, the observer of an inserted or replaced Teleport *)
Begin(t) ==
  LET crosses == Dim[t.to] # dim IN
  /\ teleport' = t
  /\ stage' = "streaming" /\ elapsed' = 0 /\ outcome' = "none"
  /\ restore' = Restoring
  /\ pos' = t.to /\ dim' = Dim[t.to]
  /\ loaded' = IF crosses THEN {} ELSE loaded
  /\ backlog' = IF crosses THEN StreamAnew ELSE backlog
  /\ toClient' = IF crosses THEN toClient \o Unloading(loaded) ELSE toClient
  /\ control' = TRUE
  /\ budget' = IF t.budget = 0 THEN budget ELSE t.budget
  /\ UNCHANGED <<fence, removing, nextId, pendingId, center, fromClient, clientVars>>

(* Inserts happen in packet handlers, in commands and in Update systems;    *)
(* a system running beside the barrier has its insert applied after the     *)
(* barrier ran and before the barrier's own removal.                        *)
Insert(t) ==
  /\ phase \in {"packets", "update"} \cup (IF Ordered THEN {} ELSE {"deferred"})
  /\ Begin(t)
  /\ UNCHANGED <<phase, event, seated>>

-----------------------------------------------------------------------------
(* Ending *)

(* end_teleport, the observer of a removed Teleport *)
End ==
  /\ teleport' = NoTeleport
  /\ event' = <<IF outcome = "none" THEN "cancelled" ELSE outcome, teleport.to>>
  /\ control' = IF restore # <<>> /\ ~restore[1] THEN FALSE ELSE control
  /\ budget' = IF restore # <<>> THEN restore[2] ELSE budget
  /\ restore' = <<>> /\ outcome' = "none" /\ stage' = "streaming" /\ elapsed' = 0
  /\ UNCHANGED <<fence, pos, dim, nextId, pendingId, streamVars, toClient,
                 fromClient, clientVars, inserted, seated>>

(* A caller removes the component. *)
Cancel ==
  /\ phase \in {"packets", "update"}
  /\ teleport # NoTeleport
  /\ End
  /\ UNCHANGED <<phase, removing>>

-----------------------------------------------------------------------------
(* Packets, PreUpdate *)

Head1 == Head(fromClient)

(* Fault: a Pong of the fence of a replaced teleport is taken. *)
PongAnyStage == teleport # NoTeleport /\ Head1.id = fence

(* fence_acknowledged: the fence's own Pong sends the position sync. *)
PongMatches == teleport # NoTeleport /\ stage = "fence" /\ Head1.id = fence

HandlePong ==
  /\ Head1.kind = "pong"
  /\ IF PongMatches
     THEN /\ stage' = "sync"
          /\ pendingId' = nextId /\ nextId' = nextId + 1
          /\ toClient' = Append(toClient, SyncPacket(nextId, teleport.to, TRUE))
     ELSE UNCHANGED <<stage, pendingId, nextId, toClient>>
  /\ UNCHANGED pos

(* handle_confirm_teleportation: only the pending id is cleared. *)
HandleConfirm ==
  /\ Head1.kind = "confirm"
  /\ pendingId' = IF pendingId = Head1.id THEN -1 ELSE pendingId
  /\ UNCHANGED <<stage, nextId, toClient, pos>>

(* Fault: a late move of the client is applied. *)
HandleMoveAlways ==
  /\ Head1.kind = "move"
  /\ pos' = Head1.at
  /\ UNCHANGED <<stage, pendingId, nextId, toClient>>

(* apply_position: ignored while the server owns the position. *)
HandleMove ==
  /\ Head1.kind = "move"
  /\ pos' = IF control THEN pos ELSE Head1.at
  /\ UNCHANGED <<stage, pendingId, nextId, toClient>>

Receive ==
  /\ phase = "packets"
  /\ fromClient # <<>>
  /\ fromClient' = Tail(fromClient)
  /\ HandlePong \/ HandleConfirm \/ HandleMove
  /\ UNCHANGED <<phase, teleport, fence, elapsed, restore, outcome, removing,
                 control, budget, dim, streamVars, clientVars, logVars>>

EndPackets ==
  /\ phase = "packets"
  /\ phase' = "update"
  /\ UNCHANGED <<teleVars, playerVars, streamVars, toClient, fromClient,
                 clientVars, logVars>>

(* handle_tp, in CommandDrain *)
Tp(p) ==
  /\ WithTp
  /\ phase = "update"
  /\ Dim[p] = dim
  /\ pendingId' = nextId /\ nextId' = nextId + 1
  /\ pos' = p
  /\ toClient' = Append(toClient, SyncPacket(nextId, p, FALSE))
  /\ UNCHANGED <<phase, teleVars, control, budget, dim, streamVars, fromClient,
                 clientVars, event, seated>>

(* Both ways to move a player, which MaxTeleports bounds together. *)
MovePlayer ==
  /\ inserted < MaxTeleports /\ inserted' = inserted + 1
  /\ (\E t \in Teleports : Insert(t)) \/ (\E p \in Places : Tp(p))

-----------------------------------------------------------------------------
(* advance_teleports, Update *)

Expire ==
  /\ elapsed >= Timeout
  /\ IF stage # "sync"
     THEN /\ pendingId' = nextId /\ nextId' = nextId + 1
          /\ toClient' = Append(toClient, SyncPacket(nextId, teleport.to, FALSE))
     ELSE UNCHANGED <<pendingId, nextId, toClient>>
  /\ outcome' = "timedOut" /\ removing' = TRUE
  /\ UNCHANGED <<stage, fence>>

(* Every chunk around the destination was sent: fence the stream. *)
RaiseFence ==
  /\ elapsed < Timeout
  /\ stage = "streaming"
  /\ Near[teleport.to] \subseteq loaded
  /\ stage' = "fence" /\ fence' = nextId /\ nextId' = nextId + 1
  /\ toClient' = Append(toClient, [kind |-> "ping", id |-> nextId])
  /\ UNCHANGED <<pendingId, outcome, removing>>

(* Fault: the teleport is confirmed when the sync is sent. *)
ConfirmUnanswered ==
  /\ elapsed < Timeout
  /\ stage = "sync"
  /\ outcome' = "confirmed" /\ removing' = TRUE
  /\ UNCHANGED <<stage, fence, pendingId, nextId, toClient>>

Confirm ==
  /\ elapsed < Timeout
  /\ stage = "sync" /\ pendingId = -1
  /\ outcome' = "confirmed" /\ removing' = TRUE
  /\ UNCHANGED <<stage, fence, pendingId, nextId, toClient>>

Wait ==
  /\ elapsed < Timeout
  /\ \/ stage = "streaming" /\ ~(Near[teleport.to] \subseteq loaded)
     \/ stage = "fence"
     \/ stage = "sync" /\ pendingId # -1
  /\ UNCHANGED <<stage, fence, pendingId, nextId, toClient, outcome, removing>>

(* Fault: the ticks spent waiting for the client are not counted. *)
AdvanceUncounted ==
  /\ phase = "update"
  /\ phase' = "deferred"
  /\ IF teleport = NoTeleport
     THEN UNCHANGED <<stage, fence, elapsed, pendingId, nextId, toClient, outcome,
                      removing>>
     ELSE /\ elapsed' = IF stage = "streaming" THEN elapsed + 1 ELSE elapsed
          /\ Expire \/ RaiseFence \/ Confirm \/ Wait
  /\ UNCHANGED <<teleport, restore, control, budget, pos, dim, streamVars,
                 fromClient, clientVars, logVars>>

Advance ==
  /\ phase = "update"
  /\ phase' = "deferred"
  /\ IF teleport = NoTeleport
     THEN UNCHANGED <<stage, fence, elapsed, pendingId, nextId, toClient, outcome,
                      removing>>
     ELSE elapsed' = elapsed + 1 /\ (Expire \/ RaiseFence \/ Confirm \/ Wait)
  /\ UNCHANGED <<teleport, restore, control, budget, pos, dim, streamVars,
                 fromClient, clientVars, logVars>>

(* The commands advance_teleports queued are applied. *)
ApplyDeferred ==
  /\ phase = "deferred"
  /\ phase' = "post"
  /\ removing' = FALSE
  /\ IF removing /\ teleport # NoTeleport THEN End
     ELSE UNCHANGED <<teleport, stage, fence, elapsed, restore, outcome,
                      playerVars, streamVars, toClient, fromClient, clientVars, logVars>>

-----------------------------------------------------------------------------
(* stream_chunks for this player, PostUpdate *)

Moved == Center[pos] # center

(* The chunks still to send: those carried over by a stationary player's    *)
(* backlog, else the whole range.                                           *)
Wanted ==
  LET carried == IF Moved THEN {} ELSE UNION backlog
  IN  IF carried = {} THEN Near[pos] ELSE carried

Kept == IF Wanted = Near[pos] THEN loaded \cap Near[pos] ELSE loaded

(* The chunks one pass sends: all that are missing, up to the budget.       *)
Sendable ==
  LET missing == Wanted \ Kept
      most    == IF budget = 0 \/ Cardinality(missing) <= budget
                 THEN Cardinality(missing) ELSE budget
  IN  {S \in SUBSET missing : Cardinality(S) = most}

Stream ==
  /\ phase = "post"
  /\ phase' = "packets"
  /\ IF Moved \/ backlog # {}
     THEN \E S \in Sendable :
            /\ center' = Center[pos]
            /\ loaded' = Kept \cup S
            /\ backlog' = IF Wanted \ loaded' = {} THEN {} ELSE {Wanted \ loaded'}
            /\ toClient' = toClient \o Unloading(loaded \ Kept) \o Loading(S, dim)
     ELSE UNCHANGED <<streamVars, toClient>>
  /\ UNCHANGED <<teleVars, playerVars, fromClient, clientVars, logVars>>

-----------------------------------------------------------------------------
(* The client: reads in order, answers pings and syncs, reports where it is *)

(* What the client has once it has read m *)
Having(has, m) ==
  CASE m.kind = "chunks" -> [c \in Chunks |-> IF c \in m.chunks THEN m.dim ELSE has[c]]
    [] m.kind = "unload" -> [c \in Chunks |-> IF c \in m.chunks THEN NoDim ELSE has[c]]
    [] OTHER -> has

Answer(m) ==
  CASE m.kind = "ping" -> <<[kind |-> "pong", id |-> m.id]>>
    [] m.kind = "sync" -> <<[kind |-> "confirm", id |-> m.id]>>
    [] OTHER -> <<>>

Reads ==
  /\ toClient # <<>>
  /\ Len(fromClient) < MaxQueue
  /\ toClient' = Tail(toClient)
  /\ clientHas' = Having(clientHas, Head(toClient))
  /\ clientAt' = IF Head(toClient).kind = "sync" THEN Head(toClient).to ELSE clientAt
  /\ fromClient' = fromClient \o Answer(Head(toClient))
  /\ UNCHANGED <<phase, teleVars, playerVars, streamVars, logVars>>

Moves ==
  /\ Len(fromClient) < MaxQueue
  /\ fromClient' = Append(fromClient, [kind |-> "move", at |-> clientAt])
  /\ UNCHANGED <<phase, teleVars, playerVars, streamVars, toClient, clientVars, logVars>>

-----------------------------------------------------------------------------
Server ==
  \/ Receive \/ EndPackets \/ Advance \/ ApplyDeferred \/ Stream

Next ==
  \/ Server
  \/ MovePlayer \/ Cancel
  \/ Reads \/ Moves

Spec == Init /\ [][Next]_vars

(* The tick loop runs; the client owes nothing. *)
Ticking ==
  /\ WF_vars(EndPackets) /\ WF_vars(Advance) /\ WF_vars(ApplyDeferred)
  /\ WF_vars(Stream)

FairSpec == Spec /\ Ticking
-----------------------------------------------------------------------------
TypeOK ==
  /\ phase \in {"packets", "update", "deferred", "post"}
  /\ teleport \in Teleports \cup {NoTeleport}
  /\ stage \in {"streaming", "fence", "sync"} /\ fence \in Nat /\ elapsed \in 0..(Timeout + 1)
  /\ restore \in {<<>>} \cup (BOOLEAN \X Nat)
  /\ outcome \in {"none", "confirmed", "timedOut"} /\ removing \in BOOLEAN
  /\ control \in BOOLEAN /\ budget \in Nat
  /\ pos \in Places /\ dim \in {Dim[p] : p \in Places}
  /\ nextId \in Nat /\ pendingId \in (-1)..(nextId - 1)
  /\ center \in Chunks /\ loaded \subseteq Chunks
  /\ backlog = {} \/ \E S \in SUBSET Chunks : backlog = {S}
  /\ clientAt \in Places
  /\ clientHas \in [Chunks -> {Dim[p] : p \in Places} \cup {NoDim}]
  /\ Len(fromClient) <= MaxQueue
  /\ inserted \in 0..MaxTeleports
  /\ event = <<>> \/ event \in Outcomes \X Places

(* Once no teleport is in flight, whatever chain of replacements, timeouts  *)
(* and cancellations led there, the player has the control and the chunk    *)
(* budget it had before the first of them (TeleportProgress::restore).      *)
Restored ==
  teleport = NoTeleport =>
    control = seated /\ budget = OwnBudget /\ restore = <<>> /\ outcome = "none"

(* While a teleport is in flight the player's position is its destination,  *)
(* whatever the client still reports of the place it left.                  *)
HeldAtDestination == teleport # NoTeleport => pos = teleport.to /\ control

(* The fenced position sync reaches a client that has every chunk around    *)
(* the destination: no late Pong of an earlier fence lets it through.       *)
SyncLandsLoaded ==
  [][Reads /\ Head(toClient).kind = "sync" /\ Head(toClient).fenced =>
       \A c \in Near[Head(toClient).to] : clientHas[c] # NoDim]_vars

(* "Confirmed: the client confirmed the position sync with the destination  *)
(* loaded": when the event fires the client stands there, with the chunks.  *)
ConfirmedThere ==
  [][event' # event /\ event'[1] = "confirmed" =>
       /\ clientAt = event'[2]
       /\ \A c \in Near[event'[2]] : clientHas[c] = Dim[event'[2]]]_vars

(* "None leaves the player's own ChunkSendBudget untouched": an unthrottled *)
(* teleport streams at the player's usual rate.                             *)
UnthrottledOwnBudget ==
  teleport # NoTeleport /\ teleport.budget = 0 => budget = OwnBudget

(* A client that never answers is not held forever. *)
Released == (teleport # NoTeleport) ~> (teleport = NoTeleport)

=============================================================================
