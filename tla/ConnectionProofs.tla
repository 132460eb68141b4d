-------------------------- MODULE ConnectionProofs --------------------------
(***************************************************************************)
(* Theorems about Connection, for any set of clients, any queue capacity    *)
(* and any packet limit.                                                   *)
(***************************************************************************)
EXTENDS Connection, SequenceTheorems, TLAPS

-----------------------------------------------------------------------------
(* Typing *)

(* What Deliver does to the typed state. *)
LEMMA DeliverTyped ==
  ASSUME TypeOK, NEW S \in SUBSET Clients, Deliver(S)
  PROVE  /\ out' \in [Clients -> Seq(Nat)]
         /\ \A c \in Clients : Len(out'[c]) <= Capacity
         /\ attempts' \in [Clients -> Nat]
         /\ kick' \subseteq Clients
         /\ Full(S) \subseteq Clients
<1>0. attempts \in [Clients -> Nat]
  BY DEF TypeOK
<1>1. \A c \in Clients : attempts[c] + 1 \in Nat
  BY <1>0
<1>2. attempts' \in [Clients -> Nat]
  BY <1>1 DEF TypeOK, Deliver
<1>3. ASSUME NEW c \in Clients
      PROVE  out'[c] \in Seq(Nat) /\ Len(out'[c]) <= Capacity
  <2>1. CASE c \in Queued(S)
    <3>1. out'[c] = Append(out[c], attempts[c] + 1)
      BY <2>1 DEF Deliver
    <3>2. Len(out[c]) # Capacity /\ Len(out[c]) <= Capacity
      BY <2>1 DEF Queued, Full, TypeOK
    <3>3. out[c] \in Seq(Nat) /\ Len(out[c]) \in Nat
      BY DEF TypeOK
    <3>4. Len(Append(out[c], attempts[c] + 1)) = Len(out[c]) + 1
      BY <3>3
    <3> QED
      BY <1>1, <3>1, <3>2, <3>3, <3>4, ConnectionAssumption DEF TypeOK
  <2>2. CASE c \notin Queued(S)
    BY <2>2 DEF Deliver, TypeOK
  <2> QED
    BY <2>1, <2>2
<1>4. out' \in [Clients -> Seq(Nat)]
  BY <1>3 DEF Deliver
<1>5. Full(S) \subseteq Clients
  BY DEF Full, Reached, TypeOK
<1> QED
  BY <1>2, <1>3, <1>4, <1>5 DEF Deliver, TypeOK

(* The packet being dispatched is a well-formed packet. *)
LEMMA BatchHead ==
  ASSUME TypeOK, batch # <<>>
  PROVE  /\ NextClient \in Clients
         /\ NextPacket \in Packets
         /\ Tail(batch) \in Seq([client : Clients, packet : Packets])
<1> DEFINE Packet == [client : Clients, packet : Packets]
<1>1. batch \in Seq(Packet)
  BY DEF TypeOK
<1> HIDE DEF Packet
<1>2. Head(batch) \in Packet /\ Tail(batch) \in Seq(Packet)
  BY <1>1, HeadTailProperties
<1> QED
  BY <1>2 DEF NextClient, NextPacket, Packet

(* Levels are closed under packets. *)
LEMMA NextLevelTyped ==
  ASSUME NEW l \in Levels, NEW p \in Packets PROVE NextLevel(l, p) \in Levels
BY DEF NextLevel, Levels, Packets

(* TypeOK is kept by every step. *)
LEMMA TypeOKStep ==
  ASSUME TypeOK, [Next]_vars PROVE TypeOK'
<1> USE DEF taskVars, sockVars, chanVars, gameVars
<1>1. CASE Spawn
  BY <1>1 DEF TypeOK, Spawn
<1>2. ASSUME NEW c \in Clients, Accept(c) PROVE TypeOK'
  BY <1>2 DEF TypeOK, Accept
<1>3. ASSUME NEW c \in Clients, HandleEnded(c) PROVE TypeOK'
  BY <1>3 DEF TypeOK, HandleEnded
<1>4. ASSUME NEW c \in Clients, HandleKick(c) PROVE TypeOK'
  BY <1>4 DEF TypeOK, HandleKick
<1>5. ASSUME NEW c \in Clients, NEW p \in Packets, Forward(c, p) PROVE TypeOK'
  <2> DEFINE Packet == [client : Clients, packet : Packets]
  <2>1. incoming \in Seq(Packet) /\ [client |-> c, packet |-> p] \in Packet
    BY DEF TypeOK
  <2> HIDE DEF Packet
  <2>2. incoming' \in Seq(Packet)
    BY <1>5, <2>1, AppendProperties DEF Forward
  <2>3. incoming' \in Seq([client : Clients, packet : Packets])
    BY <2>2 DEF Packet
  <2>4. received' \in [Clients -> Nat]
    BY <1>5 DEF TypeOK, Forward
  <2> QED
    BY <1>5, <2>3, <2>4 DEF TypeOK, Forward
<1>6. ASSUME NEW c \in Clients, Write(c) PROVE TypeOK'
  <2>1. /\ Head(out[c]) \in Nat /\ Tail(out[c]) \in Seq(Nat)
        /\ Len(Tail(out[c])) <= Capacity
    BY <1>6, ConnectionAssumption DEF TypeOK, Write
  <2> QED
    BY <1>6, <2>1 DEF TypeOK, Write
<1>7. ASSUME NEW c \in Clients, Fail(c) \/ AbortLands(c) PROVE TypeOK'
  <2>1. TaskEnds(c)
    BY <1>7 DEF Fail, AbortLands
  <2> QED
    BY <2>1, ConnectionAssumption DEF TypeOK, TaskEnds
<1>8. ASSUME NEW c \in Clients, Report(c) PROVE TypeOK'
  BY <1>8 DEF TypeOK, Report
<1>9. CASE TickStart
  BY <1>9 DEF TypeOK, TickStart, Sync, Steps
<1>10. ASSUME NEW n \in 0..Len(incoming), Drain(n) PROVE TypeOK'
  <2>1. /\ SubSeq(incoming, 1, n) \in Seq([client : Clients, packet : Packets])
        /\ SubSeq(incoming, n + 1, Len(incoming)) \in Seq([client : Clients, packet : Packets])
    <3> DEFINE Packet == [client : Clients, packet : Packets]
    <3>1. incoming \in Seq(Packet)
      BY DEF TypeOK
    <3> HIDE DEF Packet
    <3>2. Len(incoming) \in Nat /\ \A i \in 1..Len(incoming) : incoming[i] \in Packet
      BY <3>1
    <3>3. SubSeq(incoming, 1, n) \in Seq(Packet)
      BY <3>2, SubSeqProperties
    <3>4. SubSeq(incoming, n + 1, Len(incoming)) \in Seq(Packet)
      BY <3>2, SubSeqProperties
    <3> QED
      BY <3>3, <3>4 DEF Packet
  <2> QED
    BY <1>10, <2>1 DEF TypeOK, Drain, Steps
<1>11. ASSUME NEW S \in SUBSET Clients, KnownPacket(S) PROVE TypeOK'
  <2>1. Deliver(S) /\ batch # <<>>
    BY <1>11 DEF KnownPacket
  <2>2. level' \in [Clients -> Levels]
    BY <1>11, <2>1, BatchHead, NextLevelTyped DEF TypeOK, KnownPacket
  <2> QED
    BY <1>11, <2>1, <2>2, BatchHead, DeliverTyped DEF TypeOK, KnownPacket
<1>12. CASE FirstPacket
  <2>1. batch # <<>>
    BY <1>12 DEF FirstPacket
  <2>2. level' \in [Clients -> Levels]
    BY <1>12, <2>1, BatchHead, NextLevelTyped DEF TypeOK, FirstPacket, Levels
  <2> QED
    BY <1>12, <2>1, <2>2, BatchHead DEF TypeOK, FirstPacket, TakePending
<1>13. CASE DropPacket
  BY <1>13, BatchHead DEF TypeOK, DropPacket, TakePending
<1>14. CASE DrainDisconnects
  BY <1>14 DEF TypeOK, DrainDisconnects, Steps
<1>15. CASE DisconnectSync
  BY <1>15 DEF TypeOK, DisconnectSync, Sync, Steps
<1>16. ASSUME NEW c \in Clients, Disconnect(c) PROVE TypeOK'
  <2> DEFINE others == IF c \in Ready THEN Ready \ {c} ELSE {}
  <2>1. others \in SUBSET Clients
    BY DEF Ready, TypeOK
  <2>2. Deliver(others) /\ kicked' = (kicked \cup Full(others)) \ {c}
    BY <1>16 DEF Disconnect
  <2> HIDE DEF others
  <2> QED
    BY <1>16, <2>1, <2>2, DeliverTyped DEF TypeOK, Disconnect, Steps
<1>17. ASSUME NEW c \in Clients, Send(c) PROVE TypeOK'
  <2>1. Deliver({c}) /\ {c} \in SUBSET Clients
    BY <1>17 DEF Send
  <2> QED
    BY <1>17, <2>1, DeliverTyped DEF TypeOK, Send
<1>18. CASE TickEnd
  BY <1>18 DEF TypeOK, TickEnd, Steps
<1>19. CASE UNCHANGED vars
  BY <1>19 DEF TypeOK, vars
<1> QED
  BY <1>1, <1>2, <1>3, <1>4, <1>5, <1>6, <1>7, <1>8, <1>9, <1>10, <1>11, <1>12,
     <1>13, <1>14, <1>15, <1>16, <1>17, <1>18, <1>19
  DEF Next, Accepter, ClientTask, Game

(* The variables of Connection keep their types, and no outbound queue ever *)
(* holds more than its capacity.                                            *)
THEOREM Typing == Spec => []TypeOK
<1>1. Init => TypeOK
  BY ConnectionAssumption DEF Init, TypeOK, Levels, Steps
<1> QED
  BY <1>1, TypeOKStep, PTL DEF Spec
-----------------------------------------------------------------------------
(* Where every client is *)

(* Every accepted client's sender is in exactly one place until its         *)
(* disconnect was handled, and then in none; an entity lives exactly as     *)
(* long as its sender is active.                                            *)
Placement ==
  /\ accepted = connected \cup pending \cup active \cup gone
  /\ connected \cap pending = {}
  /\ connected \cap active = {}
  /\ pending \cap active = {}
  /\ gone \cap (connected \cup pending \cup active) = {}
  /\ entities = active
  /\ kicked \subseteq active

(* A disconnect is on its way only for a task that has ended, a task was    *)
(* spawned only for an announced client, and when disconnects are handled   *)
(* the announcements of their clients have been taken in.                   *)
Departure ==
  /\ ended \cup disconnect \cup leaving \cup gone \subseteq reported
  /\ \A c \in reported : task[c] = "ended"
  /\ \A c \in Clients : task[c] # "none" => c \in accepted
  /\ accepting # Accepting => accepting \in accepted /\ task[accepting] = "none"
  /\ step = "disconnects" => leaving \cap connected = {}

(* Packets in flight were sent by accepted clients. *)
InFlight ==
  /\ \A i \in 1..Len(incoming) : incoming[i].client \in accepted
  /\ \A i \in 1..Len(batch) : batch[i].client \in accepted

(* A level other than "none" is that of a client with or past its entity,   *)
(* and the quits are those of the ready ones among the gone.                *)
Announced ==
  /\ \A c \in Clients : c \notin entities \cup gone => level[c] = "none"
  /\ quits \subseteq gone
  /\ QuitIffReady

IInv == TypeOK /\ Placement /\ Departure /\ InFlight /\ Announced

(* Senders move from one place to the next only, and entities with them:   *)
(* the reasoning of client_entity and sync_connected_clients.              *)
LEMMA PlacementStep ==
  ASSUME IInv, [Next]_vars PROVE Placement'
<1> USE DEF taskVars, sockVars, chanVars, gameVars
<1>1. CASE Spawn
  BY <1>1 DEF IInv, Placement, Spawn
<1>2. ASSUME NEW c \in Clients, Accept(c) PROVE Placement'
  BY <1>2 DEF IInv, Placement, Accept
<1>3. ASSUME NEW c \in Clients, HandleEnded(c) \/ HandleKick(c) PROVE Placement'
  BY <1>3 DEF IInv, Placement, HandleEnded, HandleKick
<1>4. ASSUME NEW c \in Clients, ClientTask(c) PROVE Placement'
  BY <1>4 DEF IInv, Placement, ClientTask, Forward, Write, Fail, AbortLands,
              TaskEnds, Report
<1>5. CASE TickStart
  BY <1>5 DEF IInv, Placement, TickStart, Sync
<1>6. ASSUME NEW n \in 0..Len(incoming), Drain(n) PROVE Placement'
  BY <1>6 DEF IInv, Placement, Drain
<1>7. ASSUME NEW S \in SUBSET Clients, KnownPacket(S) PROVE Placement'
  <2>1. Full(S) \subseteq active
    BY DEF Full, Reached
  <2> QED
    BY <1>7, <2>1 DEF IInv, Placement, KnownPacket
<1>8. CASE FirstPacket
  BY <1>8, BatchHead DEF IInv, Placement, FirstPacket, HasSender, TakePending
<1>9. CASE DropPacket
  BY <1>9, BatchHead DEF IInv, Placement, DropPacket, HasSender, TakePending
<1>10. CASE DrainDisconnects
  BY <1>10 DEF IInv, Placement, DrainDisconnects
<1>11. CASE DisconnectSync
  BY <1>11 DEF IInv, Placement, DisconnectSync, Sync
<1>12. ASSUME NEW c \in Clients, Disconnect(c) PROVE Placement'
  <2>1. \A S : Full(S) \subseteq active
    BY DEF Full, Reached
  <2>2. kicked' \subseteq active'
    BY <1>12, <2>1 DEF IInv, Placement, Disconnect
  <2>3. c \in accepted /\ c \notin connected
    BY <1>12 DEF IInv, Departure, Disconnect, TypeOK
  <2> QED
    BY <1>12, <2>2, <2>3 DEF IInv, Placement, Disconnect
<1>13. ASSUME NEW c \in Clients, Send(c) PROVE Placement'
  <2>1. Full({c}) \subseteq active
    BY DEF Full, Reached
  <2> QED
    BY <1>13, <2>1 DEF IInv, Placement, Send
<1>14. CASE TickEnd
  BY <1>14 DEF IInv, Placement, TickEnd
<1>15. CASE UNCHANGED vars
  BY <1>15 DEF IInv, Placement, vars
<1> QED
  BY <1>1, <1>2, <1>3, <1>4, <1>5, <1>6, <1>7, <1>8, <1>9, <1>10, <1>11, <1>12,
     <1>13, <1>14, <1>15
  DEF Next, Accepter, Game

(* Ends are reported before disconnects are sent, and a disconnect handled  *)
(* finds its client's announcement taken in (sync_connected_clients runs    *)
(* again between draining the disconnects and handling them).               *)
LEMMA DepartureStep ==
  ASSUME IInv, [Next]_vars PROVE Departure'
<1> USE DEF taskVars, sockVars, chanVars, gameVars
<1>1. CASE Spawn
  BY <1>1 DEF IInv, TypeOK, Departure, Spawn
<1>2. ASSUME NEW c \in Clients, Accept(c) PROVE Departure'
  <2>1. c \notin leaving /\ task[c] = "none"
    BY <1>2 DEF IInv, TypeOK, Departure, Accept
  <2> QED
    BY <1>2, <2>1 DEF IInv, TypeOK, Departure, Accept
<1>3. ASSUME NEW c \in Clients, HandleEnded(c) PROVE Departure'
  BY <1>3 DEF IInv, Departure, HandleEnded
<1>4. ASSUME NEW c \in Clients, HandleKick(c) PROVE Departure'
  BY <1>4 DEF IInv, Departure, HandleKick
<1>5. ASSUME NEW c \in Clients, ClientTask(c) PROVE Departure'
  <2>1. ASSUME NEW p \in Packets, Forward(c, p) PROVE Departure'
    BY <2>1 DEF IInv, Departure, Forward
  <2>2. CASE Write(c)
    BY <2>2 DEF IInv, Departure, Write
  <2>3. CASE TaskEnds(c)
    BY <2>3 DEF IInv, TypeOK, Departure, TaskEnds
  <2>4. CASE Report(c)
    BY <2>4 DEF IInv, TypeOK, Departure, Report
  <2> QED
    BY <1>5, <2>1, <2>2, <2>3, <2>4 DEF ClientTask, Fail, AbortLands
<1>6. CASE TickStart
  BY <1>6 DEF IInv, Departure, TickStart, Sync
<1>7. ASSUME NEW n \in 0..Len(incoming), Drain(n) PROVE Departure'
  BY <1>7 DEF IInv, Departure, Drain
<1>8. ASSUME NEW S \in SUBSET Clients, KnownPacket(S) PROVE Departure'
  BY <1>8 DEF IInv, Departure, KnownPacket
<1>9. CASE FirstPacket
  BY <1>9 DEF IInv, Departure, FirstPacket
<1>10. CASE DropPacket
  BY <1>10 DEF IInv, Departure, DropPacket
<1>11. CASE DrainDisconnects
  BY <1>11 DEF IInv, Departure, DrainDisconnects
<1>12. CASE DisconnectSync
  BY <1>12 DEF IInv, Departure, DisconnectSync, Sync
<1>13. ASSUME NEW c \in Clients, Disconnect(c) PROVE Departure'
  BY <1>13 DEF IInv, Departure, Disconnect
<1>14. ASSUME NEW c \in Clients, Send(c) PROVE Departure'
  BY <1>14 DEF IInv, Departure, Send
<1>15. CASE TickEnd
  BY <1>15 DEF IInv, Departure, TickEnd
<1>16. CASE UNCHANGED vars
  BY <1>16 DEF IInv, Departure, vars
<1> QED
  BY <1>1, <1>2, <1>3, <1>4, <1>5, <1>6, <1>7, <1>8, <1>9, <1>10, <1>11, <1>12,
     <1>13, <1>14, <1>15, <1>16
  DEF Next, Accepter, Game

(* Packets only come from tasks, and a task's client was accepted.          *)
LEMMA InFlightStep ==
  ASSUME IInv, [Next]_vars PROVE InFlight'
<1> USE DEF taskVars, sockVars, chanVars, gameVars
<1> DEFINE Packet == [client : Clients, packet : Packets]
<1>0. /\ incoming \in Seq(Packet) /\ batch \in Seq(Packet)
      /\ Len(incoming) \in Nat /\ Len(batch) \in Nat
  BY DEF IInv, TypeOK
<1> HIDE DEF Packet
<1>1. CASE Accepter
  BY <1>1 DEF IInv, InFlight, Accepter, Spawn, Accept, HandleEnded, HandleKick
<1>2. ASSUME NEW c \in Clients, ClientTask(c) PROVE InFlight'
  <2>1. ASSUME NEW p \in Packets, Forward(c, p) PROVE InFlight'
    <3>1. c \in accepted
      BY <2>1 DEF IInv, Departure, Forward
    <3>2. incoming' = Append(incoming, [client |-> c, packet |-> p])
      BY <2>1 DEF Forward
    <3>3. /\ Len(incoming') = Len(incoming) + 1
          /\ \A i \in 1..Len(incoming) : incoming'[i] = incoming[i]
          /\ incoming'[Len(incoming) + 1].client = c
      BY <1>0, <3>2
    <3> QED
      BY <1>0, <2>1, <3>1, <3>3 DEF IInv, InFlight, Forward
  <2> QED
    BY <1>2, <2>1 DEF IInv, InFlight, ClientTask, Write, Fail, AbortLands,
                      TaskEnds, Report
<1>3. ASSUME NEW n \in 0..Len(incoming), Drain(n) PROVE InFlight'
  <2>1. n \in Int /\ n + 1 \in Int /\ n <= Len(incoming)
    BY <1>0
  <2>2. \A i \in 1..n : incoming[i] \in Packet
    BY <1>0, <2>1
  <2>3. /\ Len(batch') = IF 1 <= n THEN n ELSE 0
        /\ \A i \in 1..n : batch'[i] = incoming[i]
    BY <1>0, <1>3, <2>1, <2>2, SubSeqProperties DEF Drain
  <2>4. \A i \in (n + 1)..Len(incoming) : incoming[i] \in Packet
    BY <1>0, <2>1
  <2>5. /\ Len(incoming') = Len(incoming) - n
        /\ \A i \in 1..(Len(incoming) - n) : incoming'[i] = incoming[i + n]
    BY <1>0, <1>3, <2>1, <2>4, SubSeqProperties DEF Drain
  <2>6. accepted' = accepted
    BY <1>3 DEF Drain
  <2>7. \A i \in 1..Len(incoming) : incoming[i].client \in accepted
    BY DEF IInv, InFlight
  <2>8. \A i \in 1..Len(batch') : batch'[i].client \in accepted
    <3>1. \A i \in 1..n : i \in 1..Len(incoming)
      BY <1>0, <2>1
    <3>2. \A i \in 1..Len(batch') : i \in 1..n
      BY <2>1, <2>3
    <3> QED
      BY <2>3, <2>7, <3>1, <3>2
  <2>9. \A i \in 1..Len(incoming') : incoming'[i].client \in accepted
    <3>1. \A i \in 1..(Len(incoming) - n) : i + n \in 1..Len(incoming)
      BY <1>0, <2>1
    <3> QED
      BY <2>5, <2>7, <3>1
  <2> QED
    BY <2>6, <2>8, <2>9 DEF InFlight
<1>4. ASSUME batch # <<>>, batch' = Tail(batch), UNCHANGED <<incoming, accepted>>
      PROVE  InFlight'
  <2>1. /\ Len(batch') = Len(batch) - 1
        /\ \A i \in 1..Len(batch') : batch'[i] = batch[i + 1]
    BY <1>0, <1>4, HeadTailProperties
  <2> QED
    BY <1>0, <1>4, <2>1 DEF IInv, InFlight
<1>5. ASSUME NEW S \in SUBSET Clients, KnownPacket(S) PROVE InFlight'
  BY <1>4, <1>5 DEF KnownPacket
<1>6. CASE FirstPacket
  BY <1>4, <1>6 DEF FirstPacket
<1>7. CASE DropPacket
  BY <1>4, <1>7 DEF DropPacket
<1>8. ASSUME UNCHANGED <<incoming, batch, accepted>> PROVE InFlight'
  BY <1>8 DEF IInv, InFlight
<1>9. CASE TickStart \/ DrainDisconnects \/ DisconnectSync \/ TickEnd
  BY <1>8, <1>9 DEF TickStart, DrainDisconnects, DisconnectSync, TickEnd
<1>10. ASSUME NEW c \in Clients, Disconnect(c) \/ Send(c) PROVE InFlight'
  BY <1>8, <1>10 DEF Disconnect, Send
<1>11. CASE UNCHANGED vars
  BY <1>8, <1>11 DEF vars
<1> QED
  BY <1>1, <1>2, <1>3, <1>5, <1>6, <1>7, <1>9, <1>10, <1>11 DEF Next, Game

(* Levels rise only while the entity lives, so what a disconnect sees is    *)
(* what it announces.                                                       *)
LEMMA AnnouncedStep ==
  ASSUME IInv, [Next]_vars PROVE Announced'
<1> USE DEF taskVars, sockVars, chanVars, gameVars, QuitIffReady
<1>1. CASE Accepter
  BY <1>1 DEF IInv, Announced, Accepter, Spawn, Accept, HandleEnded, HandleKick
<1>2. ASSUME NEW c \in Clients, ClientTask(c) PROVE Announced'
  BY <1>2 DEF IInv, Announced, ClientTask, Forward, Write, Fail, AbortLands,
              TaskEnds, Report
<1>3. ASSUME NEW n \in 0..Len(incoming), Drain(n) PROVE Announced'
  BY <1>3 DEF IInv, Announced, Drain
<1>4. ASSUME NEW S \in SUBSET Clients, KnownPacket(S) PROVE Announced'
  <2>1. NextClient \in entities /\ NextClient \notin gone
    BY <1>4 DEF IInv, Placement, KnownPacket
  <2>2. \A c \in Clients : c # NextClient => level'[c] = level[c]
    BY <1>4 DEF KnownPacket, IInv, TypeOK
  <2> QED
    BY <1>4, <2>1, <2>2 DEF IInv, TypeOK, Announced, KnownPacket
<1>5. CASE FirstPacket
  <2>1. NextClient \notin gone
    BY <1>5 DEF IInv, Placement, FirstPacket, HasSender
  <2>2. \A c \in Clients : c # NextClient => level'[c] = level[c]
    BY <1>5 DEF FirstPacket, IInv, TypeOK
  <2> QED
    BY <1>5, <2>1, <2>2 DEF IInv, TypeOK, Announced, FirstPacket
<1>6. CASE DropPacket
  BY <1>6 DEF IInv, Announced, DropPacket
<1>7. CASE TickStart \/ DrainDisconnects \/ DisconnectSync \/ TickEnd
  BY <1>7 DEF IInv, Announced, TickStart, DrainDisconnects, DisconnectSync, TickEnd
<1>8. ASSUME NEW c \in Clients, Disconnect(c) PROVE Announced'
  <2>1. c \in gone \/ c \in entities \/ level[c] = "none"
    BY DEF IInv, Announced
  <2>2. c \in Ready <=> c \in entities /\ level[c] = "ready"
    BY DEF Ready
  <2>3. gone \cap entities = {}
    BY DEF IInv, Placement
  <2>4. /\ entities' = entities \ {c} /\ gone' = gone \cup {c} /\ level' = level
        /\ quits' = IF c \in Ready THEN quits \cup {c} ELSE quits
    BY <1>8 DEF Disconnect
  <2> QED
    BY <2>1, <2>2, <2>3, <2>4 DEF IInv, TypeOK, Announced
<1>9. ASSUME NEW c \in Clients, Send(c) PROVE Announced'
  BY <1>9 DEF IInv, Announced, Send
<1>10. CASE UNCHANGED vars
  BY <1>10 DEF IInv, Announced, vars
<1> QED
  BY <1>1, <1>2, <1>3, <1>4, <1>5, <1>6, <1>7, <1>8, <1>9, <1>10 DEF Next, Game

(* IInv is inductive. *)
LEMMA Inductive == Spec => []IInv
<1>1. Init => IInv
  BY ConnectionAssumption
  DEF Init, IInv, TypeOK, Levels, Steps, Placement, Departure, InFlight,
      Announced, QuitIffReady, Accepting
<1>2. IInv /\ [Next]_vars => IInv'
  BY TypeOKStep, PlacementStep, DepartureStep, InFlightStep, AnnouncedStep DEF IInv
<1> QED
  BY <1>1, <1>2, PTL DEF Spec

(* Once a client's disconnect was handled nothing of it is left, and a      *)
(* running connection's sender is always held in one place.                 *)
THEOREM Ghostless == Spec => [](NoGhost /\ SenderHeld)
<1>1. IInv => NoGhost
  BY DEF IInv, Placement, NoGhost
<1>2. IInv => SenderHeld
  BY DEF IInv, Placement, Departure, SenderHeld
<1> QED
  BY <1>1, <1>2, Inductive, PTL

(* The quits announced are those of the ready players that left. *)
THEOREM QuitsAnnounced == Spec => []QuitIffReady
<1>1. IInv => QuitIffReady
  BY DEF IInv, Announced
<1> QED
  BY <1>1, Inductive, PTL

(* No packet of a connection that is still known or not yet known to the    *)
(* game is ever dropped.                                                    *)
THEOREM Drops == Spec => DropOnlyGone
<1>1. IInv /\ [Next]_vars => [DropPacket => task[NextClient] = "ended" /\ NextClient \in gone]_vars
  <2> SUFFICES ASSUME IInv, DropPacket
               PROVE  task[NextClient] = "ended" /\ NextClient \in gone
    OBVIOUS
  <2> DEFINE Packet == [client : Clients, packet : Packets]
  <2>1. batch \in Seq(Packet) /\ batch # <<>>
    BY DEF IInv, TypeOK, DropPacket
  <2> HIDE DEF Packet
  <2>2. 1 \in 1..Len(batch) /\ Head(batch) = batch[1]
    BY <2>1
  <2>3. NextClient \in accepted
    BY <2>2 DEF IInv, InFlight, NextClient
  <2>4. NextClient \in gone
    BY <2>3 DEF IInv, Placement, DropPacket, HasSender
  <2> QED
    BY <2>4 DEF IInv, Departure
<1> QED
  BY <1>1, Inductive, PTL DEF Spec, DropOnlyGone
-----------------------------------------------------------------------------
(* The outbound stream *)

(* A queue holds the packets that follow the last one written, without a    *)
(* gap, and for a client that may still get packets its end is the last one *)
(* the game tried to send.                                                  *)
Contiguous(c) == \A i \in 1..Len(out[c]) : out[c][i] = written[c] + i

Current(c) ==
  c \in active \ kicked /\ task[c] # "ended" => attempts[c] = written[c] + Len(out[c])

Untouched(c) ==
  c \notin active \cup gone => attempts[c] = 0 /\ written[c] = 0 /\ out[c] = <<>>

Stream == \A c \in Clients : Contiguous(c) /\ Current(c) /\ Untouched(c)

(* Deliver extends the streams of those it reaches by exactly one packet    *)
(* and leaves the others alone, or marks them kicked.                       *)
LEMMA DeliverStream ==
  ASSUME IInv, Stream, NEW S \in SUBSET entities, Deliver(S),
         UNCHANGED <<task, written>>
  PROVE  \A c \in Clients :
           /\ \A i \in 1..Len(out'[c]) : out'[c][i] = written[c] + i
           /\ c \in active \ (kicked \cup Full(S)) /\ task[c] # "ended"
                => attempts'[c] = written[c] + Len(out'[c])
           /\ c \notin active => out'[c] = out[c] /\ attempts'[c] = attempts[c]
<1> SUFFICES ASSUME NEW c \in Clients
             PROVE  /\ \A i \in 1..Len(out'[c]) : out'[c][i] = written[c] + i
                    /\ c \in active \ (kicked \cup Full(S)) /\ task[c] # "ended"
                         => attempts'[c] = written[c] + Len(out'[c])
                    /\ c \notin active => out'[c] = out[c] /\ attempts'[c] = attempts[c]
  OBVIOUS
<1>1. /\ out[c] \in Seq(Nat) /\ Len(out[c]) \in Nat
      /\ attempts[c] \in Nat /\ written[c] \in Nat
  BY DEF IInv, TypeOK
<1>2. S \subseteq active
  BY DEF IInv, Placement
<1>3. Contiguous(c) /\ Current(c)
  BY DEF Stream
<1>4. CASE c \in Queued(S)
  <2>1. c \in S /\ c \in active \ kicked /\ task[c] # "ended"
    BY <1>4 DEF Queued, Reached
  <2>2. out'[c] = Append(out[c], attempts[c] + 1) /\ attempts'[c] = attempts[c] + 1
    BY <1>4, <2>1 DEF Deliver
  <2>3. attempts[c] = written[c] + Len(out[c])
    BY <1>3, <2>1 DEF Current
  <2>4. /\ Len(out'[c]) = Len(out[c]) + 1
        /\ \A i \in 1..Len(out[c]) : out'[c][i] = out[c][i]
        /\ out'[c][Len(out[c]) + 1] = attempts[c] + 1
    BY <1>1, <2>2
  <2>5. ASSUME NEW i \in 1..Len(out'[c]) PROVE out'[c][i] = written[c] + i
    <3>1. i \in 1..Len(out[c]) \/ i = Len(out[c]) + 1
      BY <1>1, <2>4
    <3>2. CASE i \in 1..Len(out[c])
      BY <1>3, <2>4, <3>2 DEF Contiguous
    <3>3. CASE i = Len(out[c]) + 1
      BY <1>1, <2>3, <2>4, <3>3
    <3> QED
      BY <3>1, <3>2, <3>3
  <2>6. attempts'[c] = written[c] + Len(out'[c])
    BY <1>1, <2>2, <2>3, <2>4
  <2> QED
    BY <2>1, <2>5, <2>6
<1>5. CASE c \notin Queued(S)
  <2>1. out'[c] = out[c]
    BY <1>5 DEF Deliver
  <2>2. c \in active \ (kicked \cup Full(S)) /\ task[c] # "ended" => c \notin S
    BY <1>5 DEF Queued, Reached
  <2>3. c \notin S => attempts'[c] = attempts[c]
    BY DEF Deliver
  <2> QED
    BY <1>2, <1>3, <2>1, <2>2, <2>3 DEF Contiguous, Current
<1> QED
  BY <1>4, <1>5

(* Queues and sockets hold consecutive packets at every step: a client that *)
(* misses one is kicked and sent nothing afterwards.                        *)
LEMMA StreamStep ==
  ASSUME IInv, Stream, [Next]_vars PROVE Stream'
<1> USE DEF taskVars, sockVars, chanVars, gameVars
<1>1. ASSUME UNCHANGED <<out, written, attempts, task, active, kicked, gone>>
      PROVE  Stream'
  BY <1>1 DEF Stream, Contiguous, Current, Untouched
<1>2. CASE Spawn
  <2>1. /\ UNCHANGED <<out, written, attempts, active, kicked, gone>>
        /\ \A c \in Clients : task[c] # "ended" => task'[c] # "ended"
        /\ \A c \in Clients : task[c] = "ended" => c # accepting
    BY <1>2 DEF Spawn, IInv, TypeOK, Departure
  <2>2. \A c \in Clients : task'[c] # "ended" => task[c] # "ended"
    BY <1>2, <2>1 DEF Spawn, IInv, TypeOK
  <2> QED
    BY <2>1, <2>2 DEF Stream, Contiguous, Current, Untouched
<1>3. ASSUME NEW c \in Clients, Accept(c) \/ HandleEnded(c) \/ HandleKick(c)
      PROVE  Stream'
  BY <1>1, <1>3 DEF Accept, HandleEnded, HandleKick
<1>4. ASSUME NEW c \in Clients, ClientTask(c) PROVE Stream'
  <2>1. CASE \E p \in Packets : Forward(c, p)
    BY <1>1, <2>1 DEF Forward
  <2>2. CASE Write(c)
    <3>1. /\ out[c] \in Seq(Nat) /\ out[c] # <<>> /\ Len(out[c]) \in Nat
          /\ written[c] \in Nat
      BY <2>2 DEF Write, IInv, TypeOK
    <3>2. /\ Head(out[c]) = out[c][1] /\ Len(out[c]) >= 1
          /\ Len(Tail(out[c])) = Len(out[c]) - 1
          /\ \A i \in 1..Len(Tail(out[c])) : Tail(out[c])[i] = out[c][i + 1]
      BY <3>1, HeadTailProperties
    <3>3. Contiguous(c) /\ Current(c) /\ Untouched(c)
      BY DEF Stream
    <3>4. Head(out[c]) = written[c] + 1
      BY <3>1, <3>2, <3>3 DEF Contiguous
    <3>5. /\ written'[c] = written[c] + 1 /\ out'[c] = Tail(out[c])
          /\ UNCHANGED <<attempts, task, active, kicked, gone>>
      BY <2>2, <3>4 DEF Write, IInv, TypeOK
    <3>6. Contiguous(c)'
      <4>1. ASSUME NEW i \in 1..Len(out'[c]) PROVE out'[c][i] = written'[c] + i
        <5>1. i + 1 \in 1..Len(out[c]) /\ out'[c][i] = out[c][i + 1]
          BY <3>1, <3>2, <3>5
        <5>2. out[c][i + 1] = written[c] + (i + 1)
          BY <3>3, <5>1 DEF Contiguous
        <5>3. i \in Int /\ written[c] \in Int
          BY <3>1, <4>1
        <5>4. written[c] + (i + 1) = (written[c] + 1) + i
          BY <5>3
        <5>5. out'[c][i] = (written[c] + 1) + i
          BY <5>1, <5>2, <5>4, Zenon
        <5> QED
          BY <3>5, <5>5, Zenon
      <4> QED
        BY <4>1 DEF Contiguous
    <3>7. Current(c)'
      BY <3>1, <3>2, <3>3, <3>5 DEF Current
    <3>8. Untouched(c)'
      BY <3>1, <3>3, <3>5 DEF Untouched
    <3>9. ASSUME NEW d \in Clients, d # c
          PROVE  Contiguous(d)' /\ Current(d)' /\ Untouched(d)'
      <4>1. written'[d] = written[d] /\ out'[d] = out[d]
        BY <2>2, <3>9 DEF Write, IInv, TypeOK
      <4> QED
        BY <3>5, <4>1 DEF Stream, Contiguous, Current, Untouched
    <3> QED
      BY <3>6, <3>7, <3>8, <3>9 DEF Stream
  <2>3. CASE TaskEnds(c)
    <3>1. /\ out'[c] = <<>> /\ task'[c] = "ended"
          /\ UNCHANGED <<written, attempts, active, kicked, gone>>
      BY <2>3 DEF TaskEnds, IInv, TypeOK
    <3>2. \A d \in Clients : d # c => out'[d] = out[d] /\ task'[d] = task[d]
      BY <2>3 DEF TaskEnds, IInv, TypeOK
    <3>3. Contiguous(c)' /\ Current(c)' /\ Untouched(c)'
      BY <3>1 DEF Stream, Contiguous, Current, Untouched
    <3> QED
      BY <3>1, <3>2, <3>3 DEF Stream, Contiguous, Current, Untouched
  <2>4. CASE Report(c)
    BY <1>1, <2>4 DEF Report
  <2> QED
    BY <1>4, <2>1, <2>2, <2>3, <2>4 DEF ClientTask, Fail, AbortLands
<1>5. ASSUME NEW n \in 0..Len(incoming), Drain(n) PROVE Stream'
  BY <1>1, <1>5 DEF Drain
<1>6. CASE TickStart \/ DropPacket \/ DrainDisconnects \/ DisconnectSync \/ TickEnd
  BY <1>1, <1>6 DEF TickStart, DropPacket, DrainDisconnects, DisconnectSync, TickEnd
<1>7. ASSUME NEW S \in SUBSET entities, Deliver(S), kicked' = kicked \cup Full(S),
             UNCHANGED <<task, written, active, gone>>
      PROVE  Stream'
  BY <1>7, DeliverStream DEF Stream, Contiguous, Current, Untouched
<1>8. ASSUME NEW S \in SUBSET Clients, KnownPacket(S) PROVE Stream'
  BY <1>7, <1>8 DEF KnownPacket
<1>9. ASSUME NEW c \in Clients, Send(c) PROVE Stream'
  BY <1>7, <1>9 DEF Send
<1>10. CASE FirstPacket
  <2>1. NextClient \notin active \cup gone
    BY <1>10 DEF IInv, Placement, FirstPacket, HasSender
  <2>2. /\ UNCHANGED <<out, written, attempts, task, kicked, gone>>
        /\ active' = active \cup {NextClient}
    BY <1>10 DEF FirstPacket
  <2> QED
    BY <2>1, <2>2 DEF Stream, Contiguous, Current, Untouched
<1>11. ASSUME NEW c \in Clients, Disconnect(c) PROVE Stream'
  <2> DEFINE others == IF c \in Ready THEN Ready \ {c} ELSE {}
  <2>1. /\ Deliver(others) /\ kicked' = (kicked \cup Full(others)) \ {c}
        /\ active' = active \ {c} /\ gone' = gone \cup {c}
        /\ UNCHANGED <<task, written>>
    BY <1>11 DEF Disconnect
  <2>2. others \in SUBSET entities
    BY DEF Ready
  <2> HIDE DEF others
  <2>3. \A d \in Clients :
           /\ \A i \in 1..Len(out'[d]) : out'[d][i] = written[d] + i
           /\ d \in active \ (kicked \cup Full(others)) /\ task[d] # "ended"
                => attempts'[d] = written[d] + Len(out'[d])
           /\ d \notin active => out'[d] = out[d] /\ attempts'[d] = attempts[d]
    BY <2>1, <2>2, DeliverStream
  <2> QED
    BY <2>1, <2>3 DEF Stream, Contiguous, Current, Untouched
<1>12. CASE UNCHANGED vars
  BY <1>1, <1>12 DEF vars
<1> QED
  BY <1>2, <1>3, <1>4, <1>5, <1>6, <1>8, <1>9, <1>10, <1>11, <1>12
  DEF Next, Accepter, Game

(* The placement and the packet streams hold together in every behaviour.   *)
LEMMA StreamInvariant == Spec => [](IInv /\ Stream)
<1>1. Init => Stream
  <2> SUFFICES ASSUME Init, NEW c \in Clients
               PROVE  Contiguous(c) /\ Current(c) /\ Untouched(c)
    BY DEF Stream
  <2>1. /\ out[c] = <<>> /\ Len(out[c]) = 0 /\ 1..0 = {}
        /\ active = {} /\ attempts[c] = 0 /\ written[c] = 0
    BY DEF Init
  <2> QED
    BY <2>1 DEF Contiguous, Current, Untouched
<1>2. IInv /\ Stream /\ [Next]_vars => Stream'
  BY StreamStep
<1> QED
  BY <1>1, <1>2, Inductive, PTL DEF Spec

(* The socket of every client carries the game's packets in order, none     *)
(* missing: the outbox never drops a single packet.                         *)
THEOREM Gapless == Spec => NoGap
<1>1. IInv /\ Stream /\ [Next]_vars
        => [\A c \in Clients : written'[c] \in {written[c], written[c] + 1}]_vars
  <2> SUFFICES ASSUME IInv, Stream, Next, NEW c \in Clients
               PROVE  written'[c] \in {written[c], written[c] + 1}
    OBVIOUS
  <2> USE DEF taskVars, sockVars, chanVars, gameVars
  <2>1. ASSUME NEW d \in Clients, Write(d)
        PROVE  written'[c] \in {written[c], written[c] + 1}
    <3>1. out[d] \in Seq(Nat) /\ out[d] # <<>> /\ Len(out[d]) \in Nat
      BY <2>1 DEF Write, IInv, TypeOK
    <3>2. Head(out[d]) = out[d][1] /\ 1 \in 1..Len(out[d])
      BY <3>1
    <3>3. Head(out[d]) = written[d] + 1
      BY <3>2 DEF Stream, Contiguous
    <3> QED
      BY <2>1, <3>3 DEF Write, IInv, TypeOK
  <2>2. CASE UNCHANGED written
    BY <2>2
  <2>3. CASE Accepter
    BY <2>2, <2>3 DEF Accepter, Spawn, Accept, HandleEnded, HandleKick
  <2>4. ASSUME NEW d \in Clients, ClientTask(d)
        PROVE  written'[c] \in {written[c], written[c] + 1}
    BY <2>1, <2>2, <2>4 DEF ClientTask, Forward, Fail, AbortLands, TaskEnds, Report
  <2>5. CASE Game
    BY <2>2, <2>5 DEF Game, TickStart, Drain, KnownPacket, FirstPacket, DropPacket,
                      DrainDisconnects, DisconnectSync, Disconnect, Send, TickEnd
  <2> QED
    BY <2>3, <2>4, <2>5 DEF Next
<1> QED
  BY <1>1, StreamInvariant, PTL DEF Spec, NoGap
-----------------------------------------------------------------------------
(* Refinement *)

(* A step that moves at most c, from one phase to another, is a Become. *)
LEMMA OneMoves ==
  ASSUME NEW c \in Clients, \A d \in Clients \ {c} : PhaseOf(d)' = PhaseOf(d)
  PROVE  [d \in Clients |-> PhaseOf(d)]'
           = [[d \in Clients |-> PhaseOf(d)] EXCEPT ![c] = PhaseOf(c)']
OBVIOUS

(* Every step is a step of the lifecycle or leaves it as it is.             *)
LEMMA Maps ==
  ASSUME IInv, Stream, [Next]_vars
  PROVE  [Lifecycle!Next]_(Lifecycle!vars)
<1> USE DEF taskVars, sockVars, chanVars, gameVars
<1> DEFINE phase == [d \in Clients |-> PhaseOf(d)]
<1>1. ASSUME UNCHANGED <<accepted, entities, level, quits, gone, written>>
      PROVE  UNCHANGED Lifecycle!vars
  BY <1>1 DEF Lifecycle!vars, PhaseOf
<1>2. ASSUME NEW c \in Clients, Accept(c) PROVE Lifecycle!Next
  <2>1. c \notin gone \cup entities \cup accepted
    BY <1>2 DEF IInv, Placement, Accept
  <2>2. /\ accepted' = accepted \cup {c}
        /\ UNCHANGED <<entities, level, quits, gone, written>>
    BY <1>2 DEF Accept
  <2>3. PhaseOf(c) = "absent" /\ PhaseOf(c)' = "linked"
    BY <2>1, <2>2 DEF PhaseOf
  <2>4. \A d \in Clients \ {c} : PhaseOf(d)' = PhaseOf(d)
    BY <2>2 DEF PhaseOf
  <2>5. Lifecycle!Link(c)
    BY <2>2, <2>3, <2>4, OneMoves DEF Lifecycle!Link, Lifecycle!Become
  <2> QED
    BY <2>5 DEF Lifecycle!Next
<1>3. CASE FirstPacket
  <2>0. PICK c \in Clients : c = NextClient
    BY <1>3, BatchHead DEF IInv, FirstPacket
  <2>1. c \notin gone \cup entities /\ c \in accepted
    BY <1>3, <2>0 DEF IInv, Placement, FirstPacket, HasSender
  <2>2. /\ entities' = entities \cup {c}
        /\ level' = [level EXCEPT ![c] = NextLevel("connecting", NextPacket)]
        /\ UNCHANGED <<accepted, quits, gone, written>>
    BY <1>3, <2>0 DEF FirstPacket
  <2>3. level'[c] # "ready"
    BY <2>1, <2>2 DEF IInv, TypeOK, NextLevel
  <2>4. PhaseOf(c) = "linked" /\ PhaseOf(c)' = "joined"
    BY <2>1, <2>2, <2>3 DEF PhaseOf
  <2>5. \A d \in Clients \ {c} : PhaseOf(d)' = PhaseOf(d)
    BY <2>1, <2>2 DEF PhaseOf, IInv, TypeOK
  <2>6. Lifecycle!Join(c)
    BY <2>1, <2>2, <2>4, <2>5, OneMoves DEF Lifecycle!Join, Lifecycle!Become
  <2> QED
    BY <2>1, <2>6 DEF Lifecycle!Next
<1>4. ASSUME NEW S \in SUBSET Clients, KnownPacket(S)
      PROVE  Lifecycle!Next \/ UNCHANGED Lifecycle!vars
  <2>0. PICK c \in Clients : c = NextClient
    BY <1>4, BatchHead DEF IInv, KnownPacket
  <2>1. c \in entities /\ c \notin gone
    BY <1>4, <2>0 DEF IInv, Placement, KnownPacket
  <2>2. /\ level' = [level EXCEPT ![c] = NextLevel(level[c], NextPacket)]
        /\ UNCHANGED <<accepted, entities, quits, gone, written>>
    BY <1>4, <2>0 DEF KnownPacket
  <2>3. \A d \in Clients \ {c} : PhaseOf(d)' = PhaseOf(d)
    BY <2>1, <2>2 DEF PhaseOf, IInv, TypeOK
  <2>4. level'[c] = NextLevel(level[c], NextPacket)
    BY <2>1, <2>2 DEF IInv, TypeOK
  <2>5. CASE PhaseOf(c)' = PhaseOf(c)
    BY <2>2, <2>3, <2>5 DEF Lifecycle!vars
  <2>6. CASE PhaseOf(c)' # PhaseOf(c)
    <3>1. PhaseOf(c) = "joined" /\ PhaseOf(c)' = "ready"
      BY <2>1, <2>2, <2>4, <2>6 DEF PhaseOf, NextLevel
    <3>2. Lifecycle!GetReady(c)
      BY <2>1, <2>2, <2>3, <3>1, OneMoves DEF Lifecycle!GetReady, Lifecycle!Become
    <3> QED
      BY <2>1, <3>2 DEF Lifecycle!Next
  <2> QED
    BY <2>5, <2>6
<1>5. ASSUME NEW c \in Clients, Disconnect(c)
      PROVE  Lifecycle!Next \/ UNCHANGED Lifecycle!vars
  <2>1. c \in accepted
    BY <1>5 DEF IInv, Departure, TypeOK, Disconnect
  <2>2. /\ entities' = entities \ {c} /\ gone' = gone \cup {c}
        /\ quits' = IF c \in Ready THEN quits \cup {c} ELSE quits
        /\ UNCHANGED <<accepted, level, written>>
    BY <1>5 DEF Disconnect
  <2>3. \A d \in Clients \ {c} : PhaseOf(d)' = PhaseOf(d)
    BY <2>2 DEF PhaseOf
  <2>4. PhaseOf(c)' = "gone"
    BY <2>2 DEF PhaseOf
  <2>5. CASE c \in gone
    <3>1. c \notin entities
      BY <2>5 DEF IInv, Placement
    <3>2. UNCHANGED <<entities, gone, quits>>
      BY <2>2, <2>5, <3>1 DEF Ready
    <3> QED
      BY <1>1, <2>2, <3>2
  <2>6. CASE c \notin gone
    <3>1. PhaseOf(c) \in {"linked", "joined", "ready"}
      BY <2>1, <2>6 DEF PhaseOf
    <3>2. PhaseOf(c) = "ready" <=> c \in Ready
      BY <2>6 DEF PhaseOf, Ready
    <3>3. Lifecycle!Leave(c)
      BY <2>2, <2>3, <2>4, <3>1, <3>2, OneMoves DEF Lifecycle!Leave, Lifecycle!Become
    <3> QED
      BY <3>3 DEF Lifecycle!Next
  <2> QED
    BY <2>5, <2>6
<1>6. ASSUME NEW c \in Clients, Write(c) PROVE Lifecycle!Next
  <2>1. c \in active /\ c \notin gone
    BY <1>6 DEF Write, Stream, Untouched, IInv, Departure
  <2>2. written' = [written EXCEPT ![c] = @ + 1]
    <3>1. out[c] \in Seq(Nat) /\ out[c] # <<>> /\ Len(out[c]) \in Nat
      BY <1>6 DEF Write, IInv, TypeOK
    <3>2. Head(out[c]) = out[c][1] /\ 1 \in 1..Len(out[c])
      BY <3>1
    <3>3. Head(out[c]) = written[c] + 1
      BY <3>2 DEF Stream, Contiguous
    <3> QED
      BY <1>6, <3>3 DEF Write
  <2>3. PhaseOf(c) \in {"joined", "ready"}
    BY <2>1 DEF PhaseOf, IInv, Placement
  <2>4. UNCHANGED <<accepted, entities, level, quits, gone>>
    BY <1>6 DEF Write
  <2>5. Lifecycle!See(c)
    BY <2>2, <2>3, <2>4 DEF Lifecycle!See, PhaseOf
  <2> QED
    BY <2>5 DEF Lifecycle!Next
<1>7. ASSUME NEW c \in Clients, ClientTask(c)
      PROVE  Lifecycle!Next \/ UNCHANGED Lifecycle!vars
  BY <1>1, <1>6, <1>7 DEF ClientTask, Forward, Fail, AbortLands, TaskEnds, Report
<1>8. CASE Accepter
  BY <1>1, <1>2, <1>8 DEF Accepter, Spawn, HandleEnded, HandleKick
<1>9. CASE Game
  <2>1. ASSUME NEW n \in 0..Len(incoming), Drain(n) PROVE UNCHANGED Lifecycle!vars
    BY <1>1, <2>1 DEF Drain
  <2>2. CASE TickStart \/ DropPacket \/ DrainDisconnects \/ DisconnectSync \/ TickEnd
    BY <1>1, <2>2 DEF TickStart, DropPacket, DrainDisconnects, DisconnectSync, TickEnd
  <2>3. ASSUME NEW c \in Clients, Send(c) PROVE UNCHANGED Lifecycle!vars
    BY <1>1, <2>3 DEF Send
  <2> QED
    BY <1>3, <1>4, <1>5, <1>9, <2>1, <2>2, <2>3 DEF Game
<1>10. CASE UNCHANGED vars
  BY <1>1, <1>10 DEF vars
<1> QED
  BY <1>7, <1>8, <1>9, <1>10 DEF Next

(* The accept loop, the client tasks and the game thread together keep the  *)
(* promise of ClientLifecycle.                                              *)
THEOREM Implements == Spec => LifecycleSpec
<1>1. Init => Lifecycle!Init
  BY DEF Init, Lifecycle!Init, PhaseOf
<1>2. IInv /\ Stream /\ [Next]_vars => [Lifecycle!Next]_(Lifecycle!vars)
  BY Maps
<1> QED
  BY <1>1, <1>2, StreamInvariant, PTL DEF Spec, LifecycleSpec, Lifecycle!Spec

=============================================================================
