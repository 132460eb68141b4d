----------------------------- MODULE Connection -----------------------------
(***************************************************************************)
(* The life of client connections across the two halves of the server:    *)
(* the Tokio side (accept loop, one task and one watcher per client, in    *)
(* void/src/server.rs and void/src/client.rs) and the game thread, which   *)
(* once per tick ingests packets and disconnects                           *)
(* (void/src/network.rs) and sends packets with a non-blocking outbox      *)
(* (void/src/players.rs).  The halves share only channels:                 *)
(*   connected   accept loop -> game     the new client's outbound sender  *)
(*   incoming    client tasks -> game    packets, one shared FIFO          *)
(*   out[c]      game -> client task c   bounded queue                     *)
(*   ended       watchers -> accept loop                                   *)
(*   disconnect  accept loop -> game                                       *)
(*   kick        game -> accept loop                                       *)
(* Channels whose receiver drains them or treats every item by itself      *)
(* (all but incoming and out) are sets: the order of two clients in them   *)
(* is then free, and a client asked to be kicked twice is kicked once,     *)
(* which is what the second request amounts to in the code.                *)
(* Client ids are handed out by a counter and never reused, so a client    *)
(* and its id are one value, and the entity of a client is named by it.    *)
(***************************************************************************)
EXTENDS Naturals, Sequences

CONSTANTS
  Clients,        \* client ids the accept loop may hand out
  Capacity,       \* OUTBOUND_QUEUE_CAPACITY
  PacketLimit,    \* max_packets_per_tick, 0 for no limit
  TimeBudget,     \* TRUE when packet_ingest_budget_ms may cut a drain short
  MaxReceived,    \* bound: packets one client sends
  MaxSends        \* bound: packets the systems send to one client

ASSUME ConnectionAssumption ==
  /\ Capacity \in Nat \ {0}
  /\ PacketLimit \in Nat
  /\ TimeBudget \in BOOLEAN
  /\ MaxReceived \in Nat
  /\ MaxSends \in Nat

Accepting == "accepting"          \* the accept loop is in its select!
Packets   == {"join", "loaded"}   \* join stands for everything up to Play
Levels    == {"none", "connecting", "play", "ready"}
Steps     == {"sync", "drain", "packets", "discSync", "disconnects", "update"}

VARIABLES
  (* accept loop and client tasks *)
  accepted,      \* clients accepted so far: the ids below next_id
  accepting,     \* Accepting, or the client between its announcement and its spawn
  connections,   \* Server::connections: clients with an abort handle
  task,          \* task[c]: "none", "running" or "ended"
  aborted,       \* clients whose abort handle was used
  reported,      \* clients whose watcher has sent ended
  received,      \* received[c]: packets forwarded by c's reader
  written,       \* written[c]: number of the last packet written to c's socket
  (* channels *)
  connected, incoming, out, ended, disconnect, kick,
  (* game thread *)
  step,          \* where ingest_network_packets, or the rest of the tick, stands
  batch,         \* packets drained this tick and not yet dispatched
  leaving,       \* disconnects drained this tick and not yet handled
  pending,       \* ClientSenders::pending
  active,        \* ClientSenders::active
  kicked,        \* clients whose ClientSender is marked kicked
  entities,      \* ClientToEntityMap, and the entities alive
  level,         \* level[c]: how far c's entity is in the protocol
  attempts,      \* attempts[c]: packets the game tried to send to c
  quits,         \* clients whose PlayerQuitEvent was triggered
  gone           \* clients whose disconnect was handled

taskVars == <<accepted, accepting, connections, task, aborted, reported>>
sockVars == <<received, written>>
chanVars == <<connected, incoming, out, ended, disconnect, kick>>
gameVars == <<step, batch, leaving, pending, active, kicked, entities, level,
              attempts, quits, gone>>
vars == <<taskVars, sockVars, chanVars, gameVars>>

Init ==
  /\ accepted = {} /\ accepting = Accepting /\ connections = {}
  /\ task = [c \in Clients |-> "none"]
  /\ aborted = {} /\ reported = {}
  /\ received = [c \in Clients |-> 0] /\ written = [c \in Clients |-> 0]
  /\ connected = {} /\ incoming = <<>> /\ out = [c \in Clients |-> <<>>]
  /\ ended = {} /\ disconnect = {} /\ kick = {}
  /\ step = "sync" /\ batch = <<>> /\ leaving = {}
  /\ pending = {} /\ active = {} /\ kicked = {} /\ entities = {}
  /\ level = [c \in Clients |-> "none"]
  /\ attempts = [c \in Clients |-> 0]
  /\ quits = {} /\ gone = {}

-----------------------------------------------------------------------------
(* The accept loop, server.rs *)

(* A socket was accepted: take an id and announce the outbound sender to    *)
(* the game thread, before the task that could forward packets exists.      *)
Accept(c) ==
  /\ accepting = Accepting
  /\ c \notin accepted
  /\ accepted' = accepted \cup {c}
  /\ connected' = connected \cup {c}
  /\ accepting' = c
  /\ UNCHANGED <<connections, task, aborted, reported, sockVars, incoming, out,
                 ended, disconnect, kick, gameVars>>

(* Spawn the client's task and its watcher and keep the abort handle. *)
Spawn ==
  /\ accepting # Accepting
  /\ task' = [task EXCEPT ![accepting] = "running"]
  /\ connections' = connections \cup {accepting}
  /\ accepting' = Accepting
  /\ UNCHANGED <<accepted, aborted, reported, sockVars, chanVars, gameVars>>

(* Fault in HandleEnded: the disconnect is passed on only for a connection *)
(* still listed, which a kicked one is not.                                 *)
HandleEndedListed(c) ==
  /\ accepting = Accepting
  /\ c \in ended
  /\ ended' = ended \ {c}
  /\ connections' = connections \ {c}
  /\ disconnect' = IF c \in connections THEN disconnect \cup {c} ELSE disconnect
  /\ UNCHANGED <<accepted, accepting, task, aborted, reported, sockVars,
                 connected, incoming, out, kick, gameVars>>

(* The ended_rx branch: the disconnect reaches the game only from here,     *)
(* that is, only after the task has ended.                                  *)
HandleEnded(c) ==
  /\ accepting = Accepting
  /\ c \in ended
  /\ ended' = ended \ {c}
  /\ connections' = connections \ {c}
  /\ disconnect' = disconnect \cup {c}
  /\ UNCHANGED <<accepted, accepting, task, aborted, reported, sockVars,
                 connected, incoming, out, kick, gameVars>>

(* The kick_rx branch: abort the task if the connection is still listed. *)
HandleKick(c) ==
  /\ accepting = Accepting
  /\ c \in kick
  /\ kick' = kick \ {c}
  /\ connections' = connections \ {c}
  /\ aborted' = IF c \in connections THEN aborted \cup {c} ELSE aborted
  /\ UNCHANGED <<accepted, accepting, task, reported, sockVars, connected,
                 incoming, out, ended, disconnect, gameVars>>

-----------------------------------------------------------------------------
(* A client's task, client.rs, and its watcher, server.rs *)

(* The reader loop forwards a packet. *)
Forward(c, p) ==
  /\ task[c] = "running"
  /\ received[c] < MaxReceived
  /\ received' = [received EXCEPT ![c] = @ + 1]
  /\ incoming' = Append(incoming, [client |-> c, packet |-> p])
  /\ UNCHANGED <<taskVars, written, connected, out, ended, disconnect, kick,
                 gameVars>>

(* The writer loop takes one packet of the queue and writes it. *)
Write(c) ==
  /\ task[c] = "running"
  /\ out[c] # <<>>
  /\ written' = [written EXCEPT ![c] = Head(out[c])]
  /\ out' = [out EXCEPT ![c] = Tail(@)]
  /\ UNCHANGED <<taskVars, received, connected, incoming, ended, disconnect,
                 kick, gameVars>>

(* The task is over; its end of the outbound queue goes with it. *)
TaskEnds(c) ==
  /\ task[c] = "running"
  /\ task' = [task EXCEPT ![c] = "ended"]
  /\ out' = [out EXCEPT ![c] = <<>>]
  /\ UNCHANGED <<accepted, accepting, connections, aborted, reported, sockVars,
                 connected, incoming, ended, disconnect, kick, gameVars>>

(* The peer closes, or reading or writing fails: at any time. *)
Fail(c) == c \notin aborted /\ TaskEnds(c)

(* An abort takes effect some time after it was requested. *)
AbortLands(c) == c \in aborted /\ TaskEnds(c)

(* The watcher awaits the task and reports its end. *)
Report(c) ==
  /\ task[c] = "ended"
  /\ c \notin reported
  /\ reported' = reported \cup {c}
  /\ ended' = ended \cup {c}
  /\ UNCHANGED <<accepted, accepting, connections, task, aborted, sockVars,
                 connected, incoming, out, disconnect, kick, gameVars>>

-----------------------------------------------------------------------------
(* Fault in Reached: the kicked flag is not looked at. *)
ReachedKicked(S) == S \cap active

(* Outbox::deliver, players.rs.  A packet for an entity without a direct    *)
(* sender goes to the fallback channel nobody reads: it is lost.  A kicked  *)
(* client gets nothing more, a full queue marks it kicked and asks for the  *)
(* kick, and a queue whose task has ended swallows the packet.              *)
Reached(S) == (S \cap active) \ kicked

Full(S) == {c \in Reached(S) : task[c] # "ended" /\ Len(out[c]) = Capacity}

Queued(S) == {c \in Reached(S) : task[c] # "ended"} \ Full(S)

(* One packet for every client of S. *)
Deliver(S) ==
  /\ out' = [c \in Clients |->
               IF c \in Queued(S) THEN Append(out[c], attempts[c] + 1) ELSE out[c]]
  /\ attempts' = [c \in Clients |-> IF c \in S THEN attempts[c] + 1 ELSE attempts[c]]
  /\ kick' = kick \cup Full(S)

-----------------------------------------------------------------------------
(* The game thread: ingest_network_packets, network.rs, then the systems    *)

(* ClientSenders::sync *)
Sync(known) == pending' = known \cup connected /\ connected' = {}

TickStart ==
  /\ step = "sync"
  /\ Sync(pending)
  /\ step' = "drain"
  /\ UNCHANGED <<taskVars, sockVars, incoming, out, ended, disconnect, kick,
                 batch, leaving, active, kicked, entities, level, attempts,
                 quits, gone>>

(* Packets one tick takes: all that wait up to the limit, fewer only when   *)
(* the time budget runs out.                                                *)
Drainable ==
  LET most == IF PacketLimit = 0 \/ Len(incoming) <= PacketLimit
              THEN Len(incoming) ELSE PacketLimit
  IN  IF TimeBudget THEN 0..most ELSE {most}

Drain(n) ==
  /\ step = "drain"
  /\ n \in Drainable
  /\ batch' = SubSeq(incoming, 1, n)
  /\ incoming' = SubSeq(incoming, n + 1, Len(incoming))
  /\ step' = "packets"
  /\ UNCHANGED <<taskVars, sockVars, connected, out, ended, disconnect, kick,
                 leaving, pending, active, kicked, entities, level, attempts,
                 quits, gone>>

(* Fault in NextLevel: PlayerLoaded is honoured in every protocol state. *)
NextLevelAnyState(l, p) ==
  IF p = "loaded" THEN "ready"
  ELSE IF l = "connecting" /\ p = "join" THEN "play"
  ELSE l

(* dispatch_packet by protocol state, down to what later steps depend on:   *)
(* whether the entity carries PlayerReady.                                  *)
NextLevel(l, p) ==
  IF l = "connecting" /\ p = "join" THEN "play"
  ELSE IF l = "play" /\ p = "loaded" THEN "ready"
  ELSE l

(* The next packet of the batch *)
NextClient == Head(batch).client
NextPacket == Head(batch).packet

(* client_entity finds the entity of the packet's client; the handlers of   *)
(* the packet may send something to any entities S.                         *)
KnownPacket(S) ==
  /\ step = "packets" /\ batch # <<>>
  /\ NextClient \in entities
  /\ S \subseteq {c \in entities : attempts[c] < MaxSends}
  /\ batch' = Tail(batch)
  /\ level' = [level EXCEPT ![NextClient] = NextLevel(@, NextPacket)]
  /\ Deliver(S)
  /\ kicked' = kicked \cup Full(S)
  /\ UNCHANGED <<taskVars, sockVars, connected, incoming, ended, disconnect,
                 step, leaving, pending, active, entities, quits, gone>>

(* Fault in HasSender: take_pending does not look again. *)
HasSenderAtStart(c) == c \in pending

(* take_pending looks in the connected channel again before giving up. *)
HasSender(c) == c \in pending \cup connected

TakePending(c) ==
  IF c \in pending
  THEN pending' = pending \ {c} /\ connected' = connected
  ELSE pending' = (pending \cup connected) \ {c} /\ connected' = {}

(* client_entity spawns an entity for a client it has a sender for.  The    *)
(* packet is handled as a handshake, whose handler sends nothing.           *)
FirstPacket ==
  /\ step = "packets" /\ batch # <<>>
  /\ NextClient \notin entities
  /\ HasSender(NextClient)
  /\ TakePending(NextClient)
  /\ batch' = Tail(batch)
  /\ entities' = entities \cup {NextClient}
  /\ active' = active \cup {NextClient}
  /\ level' = [level EXCEPT ![NextClient] = NextLevel("connecting", NextPacket)]
  /\ UNCHANGED <<taskVars, sockVars, incoming, out, ended, disconnect, kick,
                 step, leaving, kicked, attempts, quits, gone>>

(* Neither entity nor sender: the packet is dropped. *)
DropPacket ==
  /\ step = "packets" /\ batch # <<>>
  /\ NextClient \notin entities
  /\ ~HasSender(NextClient)
  /\ TakePending(NextClient)
  /\ batch' = Tail(batch)
  /\ UNCHANGED <<taskVars, sockVars, incoming, out, ended, disconnect, kick,
                 step, leaving, active, kicked, entities, level, attempts,
                 quits, gone>>

DrainDisconnects ==
  /\ step = "packets" /\ batch = <<>>
  /\ leaving' = disconnect
  /\ disconnect' = {}
  /\ step' = IF disconnect = {} THEN "update" ELSE "discSync"
  /\ UNCHANGED <<taskVars, sockVars, connected, incoming, out, ended, kick,
                 batch, pending, active, kicked, entities, level, attempts,
                 quits, gone>>

(* Fault in DisconnectSync: no sync before the disconnects. *)
DisconnectNoSync ==
  /\ step = "discSync"
  /\ step' = "disconnects"
  /\ UNCHANGED <<taskVars, sockVars, chanVars, batch, leaving, pending, active,
                 kicked, entities, level, attempts, quits, gone>>

(* Senders announced since the tick started are taken in first, so that     *)
(* detach finds the sender of a client that came and went meanwhile.        *)
DisconnectSync ==
  /\ step = "discSync"
  /\ Sync(pending)
  /\ step' = "disconnects"
  /\ UNCHANGED <<taskVars, sockVars, incoming, out, ended, disconnect, kick,
                 batch, leaving, active, kicked, entities, level, attempts,
                 quits, gone>>

(* Entities with PlayerReady. *)
Ready == {c \in entities : level[c] = "ready"}

(* One disconnect: a ready player's quit is announced to the other ready    *)
(* players, then the entity is despawned and its sender detached.           *)
Disconnect(c) ==
  /\ step = "disconnects"
  /\ c \in leaving
  /\ LET others == IF c \in Ready THEN Ready \ {c} ELSE {} IN
       /\ Deliver(others)
       /\ kicked' = (kicked \cup Full(others)) \ {c}
  /\ quits' = IF c \in Ready THEN quits \cup {c} ELSE quits
  /\ entities' = entities \ {c}
  /\ pending' = pending \ {c}
  /\ active' = active \ {c}
  /\ gone' = gone \cup {c}
  /\ leaving' = leaving \ {c}
  /\ step' = IF leaving = {c} THEN "update" ELSE step
  /\ UNCHANGED <<taskVars, sockVars, connected, incoming, ended, disconnect,
                 batch, level>>

(* The systems of the tick send packets to client entities. *)
Send(c) ==
  /\ step = "update"
  /\ c \in entities
  /\ attempts[c] < MaxSends
  /\ Deliver({c})
  /\ kicked' = kicked \cup Full({c})
  /\ UNCHANGED <<taskVars, sockVars, connected, incoming, ended, disconnect,
                 step, batch, leaving, pending, active, entities, level, quits,
                 gone>>

TickEnd ==
  /\ step = "update"
  /\ step' = "sync"
  /\ UNCHANGED <<taskVars, sockVars, chanVars, batch, leaving, pending, active,
                 kicked, entities, level, attempts, quits, gone>>

-----------------------------------------------------------------------------
Accepter == Spawn \/ \E c \in Clients : Accept(c) \/ HandleEnded(c) \/ HandleKick(c)

ClientTask(c) ==
  \/ \E p \in Packets : Forward(c, p)
  \/ Write(c) \/ Fail(c) \/ AbortLands(c) \/ Report(c)

Game ==
  \/ TickStart
  \/ \E n \in 0..Len(incoming) : Drain(n)
  \/ \E S \in SUBSET Clients : KnownPacket(S)
  \/ FirstPacket \/ DropPacket \/ DrainDisconnects \/ DisconnectSync
  \/ \E c \in Clients : Disconnect(c) \/ Send(c)
  \/ TickEnd

Next == Accepter \/ (\E c \in Clients : ClientTask(c)) \/ Game

Spec == Init /\ [][Next]_vars

(* The accept loop serves its channels, aborts land, watchers run and the   *)
(* game keeps ticking.  Nobody makes a peer send, read or close.            *)
Fairness ==
  /\ WF_vars(Spawn)
  /\ WF_vars(Game)
  /\ \A c \in Clients :
       /\ WF_vars(HandleEnded(c)) /\ WF_vars(HandleKick(c))
       /\ WF_vars(AbortLands(c)) /\ WF_vars(Report(c))

FairSpec == Spec /\ Fairness

-----------------------------------------------------------------------------
TypeOK ==
  /\ accepted \subseteq Clients
  /\ accepting \in Clients \cup {Accepting}
  /\ connections \subseteq Clients
  /\ task \in [Clients -> {"none", "running", "ended"}]
  /\ aborted \subseteq Clients /\ reported \subseteq Clients
  /\ received \in [Clients -> Nat] /\ written \in [Clients -> Nat]
  /\ connected \subseteq Clients
  /\ incoming \in Seq([client : Clients, packet : Packets])
  /\ out \in [Clients -> Seq(Nat)]
  /\ \A c \in Clients : Len(out[c]) <= Capacity
  /\ ended \subseteq Clients /\ disconnect \subseteq Clients /\ kick \subseteq Clients
  /\ step \in Steps
  /\ batch \in Seq([client : Clients, packet : Packets])
  /\ leaving \subseteq Clients
  /\ pending \subseteq Clients /\ active \subseteq Clients /\ kicked \subseteq Clients
  /\ entities \subseteq Clients
  /\ level \in [Clients -> Levels]
  /\ attempts \in [Clients -> Nat]
  /\ quits \subseteq Clients /\ gone \subseteq Clients

(* A client is never half removed: once its disconnect was handled, no      *)
(* channel, map or entity knows it any more, whatever packets of it are     *)
(* still queued, so nothing can bring it back and no sender leaks           *)
(* (network.rs sync and detach around ingest_network_packets).              *)
NoGhost ==
  gone \cap (connected \cup pending \cup active \cup entities \cup kicked) = {}

(* The game half holds the outbound sender of every connection whose task   *)
(* runs, in one place, so a writer never sees its queue closed under it     *)
(* (client.rs write_loop returns when all senders are dropped).             *)
SenderHeld ==
  \A c \in Clients : task[c] = "running" =>
    /\ c \in connected \cup pending \cup active
    /\ c \in active <=> c \in entities
    /\ c \notin pending \/ c \notin active \cup connected

(* A departed client left a quit event exactly when it had been ready: no   *)
(* other player keeps seeing it, and nobody is told of a player who never   *)
(* appeared (network.rs, PlayerQuitEvent before the despawn).               *)
QuitIffReady == \A c \in gone : c \in quits <=> level[c] = "ready"

(* A packet is dropped as "from a client whose connection already ended"    *)
(* only when its client's disconnect was handled: never the packets of a    *)
(* connection the game merely has not heard of yet.                         *)
DropOnlyGone ==
  [][DropPacket => task[NextClient] = "ended" /\ NextClient \in gone]_vars

(* "Never drops individual packets": what is written to a socket is the     *)
(* game's packet stream for that client in order and without a gap.         *)
NoGap == [][\A c \in Clients : written'[c] \in {written[c], written[c] + 1}]_vars

(* A connection that ended is despawned in the end, and one that was        *)
(* marked kicked is closed and despawned even if its peer never reads.      *)
Leaves == \A c \in Clients : (task[c] = "ended" \/ c \in kicked) ~> (c \in gone)

(* The connection layer implements the promise of ClientLifecycle. *)
PhaseOf(c) ==
  IF c \in gone THEN "gone"
  ELSE IF c \in entities THEN IF level[c] = "ready" THEN "ready" ELSE "joined"
  ELSE IF c \in accepted THEN "linked"
  ELSE "absent"

Lifecycle == INSTANCE ClientLifecycle
               WITH phase <- [c \in Clients |-> PhaseOf(c)], seen <- written

LifecycleSpec == Lifecycle!Spec

=============================================================================
