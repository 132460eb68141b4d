--------------------------- MODULE TeleportProofs ---------------------------
(***************************************************************************)
(* What a teleport gives back to the player, where it holds it, and where   *)
(* its client is when it ends, for every set of places, budgets, time-out   *)
(* and bound of Teleport.                                                   *)
(***************************************************************************)
EXTENDS Teleport, TLAPS

(* In flight: what will be restored is what the player had before the first *)
(* teleport of the chain, and the server owns the position.                 *)
InFlight == teleport # NoTeleport => restore = <<seated, OwnBudget>> /\ control

IInv == seated \in BOOLEAN /\ teleport \in Teleports \cup {NoTeleport} /\ Restored /\ InFlight

(* A teleport inserted, first or as a replacement, keeps the record of what *)
(* the player had (Restoring).                                              *)
LEMMA InsertKeeps ==
  ASSUME IInv, NEW t \in Teleports, Insert(t) PROVE IInv'
<1>1. t # NoTeleport  BY TeleportAssumption
<1>2. restore' = <<seated, OwnBudget>>
  <2>1. CASE teleport = NoTeleport
    BY <2>1 DEF IInv, Restored, Insert, Begin, Restoring
  <2>2. CASE teleport # NoTeleport
    BY <2>2 DEF IInv, InFlight, Insert, Begin, Restoring
  <2> QED BY <2>1, <2>2
<1> QED BY <1>1, <1>2 DEF IInv, Restored, InFlight, Insert, Begin

(* The end of a teleport puts back control and budget (end_teleport).       *)
LEMMA EndRestores ==
  ASSUME IInv, teleport # NoTeleport, End PROVE IInv'
<1>1. restore = <<seated, OwnBudget>> /\ control  BY DEF IInv, InFlight
<1>2. restore # <<>> /\ restore[1] = seated /\ restore[2] = OwnBudget  BY <1>1
<1>3. control' = seated
  <2>1. CASE seated   BY <1>1, <1>2, <2>1 DEF End, IInv
  <2>2. CASE ~seated  BY <1>2, <2>2 DEF End, IInv
  <2> QED BY <2>1, <2>2 DEF IInv
<1>4. budget' = OwnBudget  BY <1>2 DEF End
<1>5. seated' = seated  BY DEF End
<1> QED BY <1>3, <1>4, <1>5 DEF IInv, Restored, InFlight, End

(* Every step of the server, of the callers and of the client keeps IInv.   *)
LEMMA Keeps == IInv /\ [Next]_vars => IInv'
<1> SUFFICES ASSUME IInv, [Next]_vars PROVE IInv'  OBVIOUS
<1>1. CASE UNCHANGED vars
  BY <1>1 DEF IInv, Restored, InFlight, vars, teleVars, playerVars, logVars
<1>2. CASE Receive
  BY <1>2 DEF IInv, Restored, InFlight, Receive, logVars
<1>3. CASE EndPackets
  BY <1>3 DEF IInv, Restored, InFlight, EndPackets, teleVars, playerVars, logVars
<1>4. CASE Advance
  <2>1. UNCHANGED <<teleport, restore, control, budget, seated>>
    BY <1>4 DEF Advance, logVars
  <2>2. teleport = NoTeleport => outcome' = outcome  BY <1>4 DEF Advance
  <2> QED BY <2>1, <2>2 DEF IInv, Restored, InFlight
<1>5. CASE ApplyDeferred
  <2>1. CASE removing /\ teleport # NoTeleport
    BY <1>5, <2>1, EndRestores DEF ApplyDeferred
  <2>2. CASE ~(removing /\ teleport # NoTeleport)
    BY <1>5, <2>2 DEF ApplyDeferred, IInv, Restored, InFlight, playerVars, logVars
  <2> QED BY <2>1, <2>2
<1>6. CASE Stream
  BY <1>6 DEF IInv, Restored, InFlight, Stream, teleVars, playerVars, logVars
<1>7. ASSUME NEW t \in Teleports, Insert(t) PROVE IInv'  BY <1>7, InsertKeeps
<1>8. CASE Cancel  BY <1>8, EndRestores DEF Cancel
<1>9. ASSUME NEW p \in Places, Tp(p) PROVE IInv'
  BY <1>9 DEF IInv, Restored, InFlight, Tp, teleVars
<1>10. CASE Reads
  BY <1>10 DEF IInv, Restored, InFlight, Reads, teleVars, playerVars, logVars
<1>11. CASE Moves
  BY <1>11 DEF IInv, Restored, InFlight, Moves, teleVars, playerVars, logVars
<1> QED
  BY <1>1, <1>2, <1>3, <1>4, <1>5, <1>6, <1>7, <1>8, <1>9, <1>10, <1>11
     DEF Next, Server, MovePlayer

(* However teleports are chained, cancelled, timed out or confirmed, a      *)
(* player without one has the control and chunk budget it came with.        *)
THEOREM GivesBack == Spec => []Restored
<1>1. Init => IInv  BY DEF Init, IInv, Restored, InFlight
<1> QED BY <1>1, Keeps, PTL DEF Spec, IInv

(* Where a teleport in flight holds the player *)
Held == IInv /\ HeldAtDestination

(* Without /tp, nothing moves a player out of a teleport: late moves of the *)
(* client are ignored because the server owns the position (apply_position).*)
LEMMA HeldKept == ASSUME ~WithTp PROVE Held /\ [Next]_vars => Held'
<1> SUFFICES ASSUME Held, [Next]_vars PROVE HeldAtDestination'
  BY Keeps DEF Held
<1> USE DEF HeldAtDestination, Held, teleVars, playerVars, logVars
<1>1. CASE UNCHANGED vars
  BY <1>1 DEF vars
<1>2. CASE Receive
  BY <1>2 DEF Receive, HandlePong, HandleConfirm, HandleMove
<1>3. CASE EndPackets
  BY <1>3 DEF EndPackets
<1>4. CASE Advance
  BY <1>4 DEF Advance
<1>5. CASE ApplyDeferred
  BY <1>5 DEF ApplyDeferred, End
<1>6. CASE Stream
  BY <1>6 DEF Stream
<1>7. ASSUME NEW t \in Teleports, Insert(t) PROVE HeldAtDestination'
  BY <1>7 DEF Insert, Begin
<1>8. CASE Cancel
  BY <1>8 DEF Cancel, End
<1>9. ASSUME NEW p \in Places, Tp(p) PROVE HeldAtDestination'
  BY <1>9, WithTp = FALSE DEF Tp
<1>10. CASE Reads
  BY <1>10 DEF Reads
<1>11. CASE Moves
  BY <1>11 DEF Moves
<1> QED
  BY <1>1, <1>2, <1>3, <1>4, <1>5, <1>6, <1>7, <1>8, <1>9, <1>10, <1>11
     DEF Next, Server, MovePlayer

LEMMA InitHeld == Init => Held
BY DEF Init, Held, IInv, Restored, InFlight, HeldAtDestination

(* A player in flight is at its destination, whatever its client still      *)
(* reports.                                                                 *)
THEOREM Holds == ASSUME ~WithTp PROVE Spec => []HeldAtDestination
BY InitHeld, HeldKept, PTL DEF Spec, Held

-----------------------------------------------------------------------------
(* What a client will have of a chunk: messages that give it the chunk c of *)
(* dimension d, those that take it away, and what is left of c after n      *)
(* messages of a queue.                                                     *)

Packets ==
  [kind : {"sync"}, id : Nat, to : Places, fenced : BOOLEAN]
    \cup [kind : {"ping"}, id : Nat]
    \cup [kind : {"unload"}, chunks : SUBSET Chunks]
    \cup [kind : {"chunks"}, chunks : SUBSET Chunks, dim : {Dim[p] : p \in Places}]

Reports ==
  [kind : {"pong", "confirm"}, id : Nat] \cup [kind : {"move"}, at : Places]

Gives(m, c, d) == m.kind = "chunks" /\ c \in m.chunks /\ m.dim = d
Takes(m, c, d) == m.kind \in {"chunks", "unload"} /\ c \in m.chunks /\ ~Gives(m, c, d)

Will(has, q, n, c, d) ==
  /\ has[c] = d \/ \E j \in 1..n : Gives(q[j], c, d)
  /\ \A k \in 1..n : Takes(q[k], c, d) => \E j \in (k + 1)..n : Gives(q[j], c, d)

(***************************************************************************)
(* What a client makes of one message.                                     *)
(***************************************************************************)
LEMMA ReadOne ==
  ASSUME NEW m \in Packets, NEW has, NEW c \in Chunks, NEW d, d # NoDim
  PROVE  /\ Gives(m, c, d) => Having(has, m)[c] = d
         /\ ~Gives(m, c, d) /\ ~Takes(m, c, d) => Having(has, m)[c] = has[c]
<1>1. CASE m.kind = "chunks"
  <2>1. Having(has, m) = [x \in Chunks |-> IF x \in m.chunks THEN m.dim ELSE has[x]]
    BY <1>1 DEF Having
  <2> QED
    BY <1>1, <2>1 DEF Gives, Takes
<1>2. CASE m.kind = "unload"
  <2>1. Having(has, m) = [x \in Chunks |-> IF x \in m.chunks THEN NoDim ELSE has[x]]
    BY <1>2 DEF Having
  <2> QED
    BY <1>2, <2>1 DEF Gives, Takes
<1>3. CASE m.kind \notin {"chunks", "unload"}
  <2>1. Having(has, m) = has
    BY <1>3 DEF Having
  <2> QED
    BY <1>3, <2>1 DEF Gives, Takes
<1> QED
  BY <1>1, <1>2, <1>3

(***************************************************************************)
(* Reading a message does not change what the client will have.            *)
(***************************************************************************)
LEMMA WillRead ==
  ASSUME NEW q \in Seq(Packets), q # <<>>, NEW has, NEW n \in 1..Len(q),
         NEW c \in Chunks, NEW d, d # NoDim, Will(has, q, n, c, d)
  PROVE  Will(Having(has, Head(q)), Tail(q), n - 1, c, d)
<1> DEFINE m == q[1]
           new == Having(has, m)
           t == Tail(q)
<1>1. m \in Packets /\ Head(q) = m /\ n \in Nat /\ Len(q) \in Nat
  OBVIOUS
<1>2. \A i \in 1..(n - 1) : t[i] = q[i + 1]
  OBVIOUS
<1>3. /\ Gives(m, c, d) => new[c] = d
      /\ ~Gives(m, c, d) /\ ~Takes(m, c, d) => new[c] = has[c]
  BY <1>1, ReadOne
<1> HIDE DEF m, new, t
<1>4. ASSUME NEW k \in 1..(n - 1), Takes(t[k], c, d)
      PROVE  \E j \in (k + 1)..(n - 1) : Gives(t[j], c, d)
  <2>1. k + 1 \in 1..n /\ Takes(q[k + 1], c, d)
    BY <1>1, <1>2, <1>4
  <2>2. PICK j \in (k + 1 + 1)..n : Gives(q[j], c, d)
    BY <2>1 DEF Will
  <2>3. j - 1 \in (k + 1)..(n - 1) /\ j - 1 \in 1..(n - 1) /\ (j - 1) + 1 = j
    BY <1>1, <1>4, <2>2
  <2> QED
    BY <1>2, <2>2, <2>3
<1>5. new[c] = d \/ \E j \in 1..(n - 1) : Gives(t[j], c, d)
  <2>1. CASE Takes(m, c, d)
    <3>1. 1 \in 1..n /\ Takes(q[1], c, d)
      BY <1>1, <2>1 DEF m
    <3>2. PICK j \in (1 + 1)..n : Gives(q[j], c, d)
      BY <3>1 DEF Will
    <3>3. j - 1 \in 1..(n - 1) /\ (j - 1) + 1 = j
      BY <1>1, <3>2
    <3> QED
      BY <1>2, <3>2, <3>3
  <2>2. CASE Gives(m, c, d)
    BY <1>3, <2>2
  <2>3. CASE ~Takes(m, c, d) /\ ~Gives(m, c, d)
    <3>1. CASE has[c] = d
      BY <1>3, <2>3, <3>1
    <3>2. CASE has[c] # d
      <4>1. PICK j \in 1..n : Gives(q[j], c, d)
        BY <3>2 DEF Will
      <4>2. j # 1
        BY <2>3, <4>1 DEF m
      <4>3. j - 1 \in 1..(n - 1) /\ (j - 1) + 1 = j
        BY <1>1, <4>1, <4>2
      <4> QED
        BY <1>2, <4>1, <4>3
    <3> QED
      BY <3>1, <3>2
  <2> QED
    BY <2>1, <2>2, <2>3
<1> QED
  BY <1>1, <1>4, <1>5 DEF Will, new, t

(***************************************************************************)
(* A message more does not change what the ones before it leave; one that  *)
(* gives a chunk leaves it there, one that does not take it keeps it.       *)
(***************************************************************************)
LEMMA WillAppend ==
  ASSUME NEW q \in Seq(Packets), NEW m \in Packets, NEW has, NEW c, NEW d
  PROVE  /\ \A n \in 0..Len(q) : Will(has, q, n, c, d) => Will(has, Append(q, m), n, c, d)
         /\ Will(has, q, Len(q), c, d) /\ ~Takes(m, c, d)
              => Will(has, Append(q, m), Len(q) + 1, c, d)
         /\ Gives(m, c, d) => Will(has, Append(q, m), Len(q) + 1, c, d)
<1> DEFINE a == Append(q, m)
           l == Len(q)
<1>1. l \in Nat /\ a[l + 1] = m /\ \A i \in 1..l : a[i] = q[i]
  OBVIOUS
<1> HIDE DEF a, l
<1>2. ASSUME NEW n \in 0..l, Will(has, q, n, c, d) PROVE Will(has, a, n, c, d)
  <2>1. n \in Nat /\ \A i \in 1..n : a[i] = q[i]
    BY <1>1
  <2>2. \A k \in 1..n : \A j \in (k + 1)..n : j \in 1..n
    BY <2>1
  <2> QED
    BY <1>2, <2>1, <2>2 DEF Will
<1>3. ASSUME Will(has, q, l, c, d), ~Takes(m, c, d) PROVE Will(has, a, l + 1, c, d)
  <2>1. \A i \in 1..l : i \in 1..(l + 1)
    BY <1>1
  <2>2. ASSUME NEW k \in 1..(l + 1), Takes(a[k], c, d)
        PROVE  \E j \in (k + 1)..(l + 1) : Gives(a[j], c, d)
    <3>1. k \in 1..l
      BY <1>1, <1>3, <2>2
    <3>2. PICK j \in (k + 1)..l : Gives(q[j], c, d)
      BY <1>1, <1>3, <2>2, <3>1 DEF Will
    <3>3. j \in 1..l /\ j \in (k + 1)..(l + 1)
      BY <1>1, <3>1, <3>2
    <3> QED
      BY <1>1, <3>2, <3>3
  <2>3. has[c] = d \/ \E j \in 1..(l + 1) : Gives(a[j], c, d)
    BY <1>1, <1>3, <2>1 DEF Will
  <2> QED
    BY <2>2, <2>3 DEF Will
<1>4. ASSUME Gives(m, c, d) PROVE Will(has, a, l + 1, c, d)
  <2>1. l + 1 \in 1..(l + 1) /\ Gives(a[l + 1], c, d)
    BY <1>1, <1>4
  <2>2. ASSUME NEW k \in 1..(l + 1), Takes(a[k], c, d)
        PROVE  \E j \in (k + 1)..(l + 1) : Gives(a[j], c, d)
    <3>1. k # l + 1
      BY <2>1, <2>2 DEF Takes
    <3>2. l + 1 \in (k + 1)..(l + 1)
      BY <1>1, <2>2, <3>1
    <3> QED
      BY <2>1, <3>2
  <2> QED
    BY <2>1, <2>2 DEF Will
<1> QED
  BY <1>2, <1>3, <1>4 DEF a, l

-----------------------------------------------------------------------------
(* Packets and answers in flight *)

(* Ids grow along the stream, and those still to be answered are known. *)
Numbered(q, r, next) ==
  /\ \A i \in 1..Len(q) : q[i].kind = "sync" => q[i].id < next
  /\ \A i, j \in 1..Len(q) :
       i < j /\ q[i].kind = "sync" /\ q[j].kind = "sync" => q[i].id < q[j].id
  /\ \A i \in 1..Len(r) : r[i].kind = "confirm" => r[i].id < next

(* Whoever reads a fenced sync has the chunks around the destination. *)
Gated(q, has) ==
  \A i \in 1..Len(q) : q[i].kind = "sync" /\ q[i].fenced =>
    \A c \in Near[q[i].to] : Will(has, q, i - 1, c, Dim[q[i].to])

(* A message that neither moves the client nor takes a chunk around to. *)
Quiet(m, to) == m.kind # "sync" /\ \A c \in Near[to] : ~Takes(m, c, Dim[to])

(* The sync that is waited for is the last one, and is not confirmed yet. *)
OnItsWay(q, r, id, to) ==
  /\ \E i \in 1..Len(q) : /\ q[i] = SyncPacket(id, to, TRUE)
                          /\ \A k \in (i + 1)..Len(q) : Quiet(q[k], to)
  /\ \A k \in 1..Len(r) : r[k].kind = "confirm" => r[k].id # id

(* The client stands at the destination, and nothing will take it away. *)
Landed(q, at, has, to) ==
  /\ at = to /\ \A c \in Near[to] : has[c] = Dim[to]
  /\ \A k \in 1..Len(q) : Quiet(q[k], to)

LEMMA NearChunks == \A p \in Places : Near[p] \subseteq Chunks
BY DEF Chunks

(***************************************************************************)
(* Messages other than a sync change nothing for the syncs in flight.      *)
(***************************************************************************)
LEMMA AppendOther ==
  ASSUME NEW q \in Seq(Packets), NEW m \in Packets, m.kind # "sync", NEW r, NEW has,
         NEW next, Numbered(q, r, next), Gated(q, has)
  PROVE  Numbered(Append(q, m), r, next) /\ Gated(Append(q, m), has)
<1> DEFINE a == Append(q, m)
<1>1. /\ Len(q) \in Nat /\ Len(a) = Len(q) + 1 /\ a[Len(q) + 1] = m
      /\ \A i \in 1..Len(q) : a[i] = q[i]
  OBVIOUS
<1>2. \A i \in 1..Len(q) : \A c, d :
        Will(has, q, i - 1, c, d) => Will(has, a, i - 1, c, d)
  <2> TAKE i \in 1..Len(q)
  <2> TAKE c, d
  <2>1. i - 1 \in 0..Len(q)
    BY <1>1
  <2> HIDE DEF a
  <2> QED
    BY <2>1, WillAppend DEF a
<1> HIDE DEF a
<1>3. \A i \in 1..Len(a) : a[i].kind = "sync" => i \in 1..Len(q) /\ a[i] = q[i]
  BY <1>1
<1>4. Numbered(a, r, next)
  BY <1>1, <1>3 DEF Numbered
<1>5. Gated(a, has)
  <2> SUFFICES ASSUME NEW i \in 1..Len(a), a[i].kind = "sync", a[i].fenced,
                      NEW c \in Near[a[i].to]
               PROVE  Will(has, a, i - 1, c, Dim[a[i].to])
    BY DEF Gated
  <2>1. i \in 1..Len(q) /\ a[i] = q[i]
    BY <1>3
  <2>2. Will(has, q, i - 1, c, Dim[q[i].to])
    BY <2>1 DEF Gated
  <2> QED
    BY <1>2, <2>1, <2>2
<1> QED
  BY <1>4, <1>5 DEF a

LEMMA AppendQuiet ==
  ASSUME NEW q \in Seq(Packets), NEW m \in Packets, NEW to, Quiet(m, to),
         NEW r, NEW id, NEW at, NEW has
  PROVE  /\ OnItsWay(q, r, id, to) => OnItsWay(Append(q, m), r, id, to)
         /\ Landed(q, at, has, to) => Landed(Append(q, m), at, has, to)
<1> DEFINE a == Append(q, m)
<1>1. /\ Len(q) \in Nat /\ Len(a) = Len(q) + 1 /\ a[Len(q) + 1] = m
      /\ \A i \in 1..Len(q) : a[i] = q[i]
  OBVIOUS
<1> HIDE DEF a
<1>2. ASSUME OnItsWay(q, r, id, to) PROVE OnItsWay(a, r, id, to)
  <2> DEFINE sync == SyncPacket(id, to, TRUE)
  <2>1. PICK i \in 1..Len(q) : /\ q[i] = sync
                               /\ \A k \in (i + 1)..Len(q) : Quiet(q[k], to)
    BY <1>2 DEF OnItsWay
  <2> HIDE DEF sync
  <2>2. i \in 1..Len(a) /\ a[i] = sync
    BY <1>1, <2>1
  <2>3. ASSUME NEW k \in (i + 1)..Len(a) PROVE Quiet(a[k], to)
    <3>1. CASE k = Len(q) + 1
      BY <1>1, <3>1
    <3>2. CASE k # Len(q) + 1
      <4>1. k \in (i + 1)..Len(q) /\ k \in 1..Len(q)
        BY <1>1, <2>1, <3>2
      <4> QED
        BY <1>1, <2>1, <4>1
    <3> QED
      BY <3>1, <3>2
  <2> QED
    BY <1>2, <2>2, <2>3 DEF OnItsWay, sync
<1>3. ASSUME Landed(q, at, has, to) PROVE Landed(a, at, has, to)
  <2>1. ASSUME NEW k \in 1..Len(a) PROVE Quiet(a[k], to)
    <3>1. CASE k = Len(q) + 1
      BY <1>1, <3>1
    <3>2. CASE k # Len(q) + 1
      <4>1. k \in 1..Len(q)
        BY <1>1, <3>2
      <4> QED
        BY <1>1, <1>3, <4>1 DEF Landed
    <3> QED
      BY <3>1, <3>2
  <2> QED
    BY <1>3, <2>1 DEF Landed
<1> QED
  BY <1>2, <1>3 DEF a

(***************************************************************************)
(* A new sync has the next id, and is fenced only if what was sent before  *)
(* it leaves the client with the chunks around the destination.            *)
(***************************************************************************)
LEMMA AppendSync ==
  ASSUME NEW q \in Seq(Packets), NEW r \in Seq(Reports), NEW has, NEW next \in Nat,
         NEW to \in Places, NEW fenced \in BOOLEAN, Numbered(q, r, next), Gated(q, has),
         fenced => \A c \in Near[to] : Will(has, q, Len(q), c, Dim[to])
  PROVE  LET a == Append(q, SyncPacket(next, to, fenced))
         IN /\ Numbered(a, r, next + 1) /\ Gated(a, has)
            /\ fenced => OnItsWay(a, r, next, to)
            /\ a \in Seq(Packets)
<1> DEFINE m == SyncPacket(next, to, fenced)
           a == Append(q, m)
<1>1. m \in Packets /\ m.kind = "sync" /\ m.id = next /\ m.to = to /\ m.fenced = fenced
  BY DEF SyncPacket, Packets
<1>2. /\ Len(q) \in Nat /\ Len(a) = Len(q) + 1 /\ a[Len(q) + 1] = m
      /\ \A i \in 1..Len(q) : a[i] = q[i] /\ q[i] \in Packets
      /\ a \in Seq(Packets)
  BY <1>1
<1>3. /\ \A i \in 1..Len(q) : \A c, d :
           Will(has, q, i - 1, c, d) => Will(has, a, i - 1, c, d)
      /\ \A c, d : Will(has, q, Len(q), c, d) => Will(has, a, Len(q), c, d)
  <2> HIDE DEF m
  <2>1. ASSUME NEW n \in 0..Len(q), NEW c, NEW d, Will(has, q, n, c, d)
        PROVE  Will(has, a, n, c, d)
    BY <1>1, <2>1, WillAppend
  <2>2. \A i \in 1..Len(q) : i - 1 \in 0..Len(q)
    BY <1>2
  <2>3. Len(q) \in 0..Len(q)
    BY <1>2
  <2> HIDE DEF a
  <2> QED
    BY <2>1, <2>2, <2>3
<1> HIDE DEF a, m
<1>4. \A i \in 1..Len(q) : q[i].kind = "sync" => q[i].id \in Nat /\ q[i].id < next
  BY <1>2 DEF Numbered, Packets
<1>5. Numbered(a, r, next + 1)
  <2>1. \A i \in 1..Len(a) : a[i].kind = "sync" => a[i].id < next + 1
    <3> SUFFICES ASSUME NEW i \in 1..Len(a), a[i].kind = "sync"
                 PROVE  a[i].id < next + 1
      OBVIOUS
    <3>1. CASE i = Len(q) + 1
      BY <1>1, <1>2, <3>1
    <3>2. CASE i # Len(q) + 1
      <4>1. i \in 1..Len(q) /\ a[i] = q[i]
        BY <1>2, <3>2
      <4> QED
        BY <1>4, <4>1
    <3> QED
      BY <3>1, <3>2
  <2>2. \A i \in 1..Len(a) : i \in 1..Len(q) \/ i = Len(q) + 1
    BY <1>2
  <2>3. ASSUME NEW i \in 1..Len(a), NEW j \in 1..Len(a), i < j,
               a[i].kind = "sync", a[j].kind = "sync"
        PROVE  a[i].id < a[j].id
    <3>1. i \in 1..Len(q)
      BY <1>2, <2>3
    <3>2. CASE j = Len(q) + 1
      BY <1>1, <1>2, <1>4, <2>3, <3>1, <3>2
    <3>3. CASE j \in 1..Len(q)
      BY <1>2, <2>3, <3>1, <3>3 DEF Numbered
    <3> QED
      BY <2>2, <3>2, <3>3
  <2>4. \A i \in 1..Len(r) : r[i].kind = "confirm" => r[i].id < next + 1
    <3> SUFFICES ASSUME NEW i \in 1..Len(r), r[i].kind = "confirm"
                 PROVE  r[i].id < next + 1
      OBVIOUS
    <3>1. r[i].id < next /\ r[i] \in Reports
      BY DEF Numbered
    <3>2. r[i].id \in Nat
      BY <3>1 DEF Reports
    <3> QED
      BY <3>1, <3>2
  <2> QED
    BY <2>1, <2>3, <2>4 DEF Numbered
<1>6. Gated(a, has)
  <2> SUFFICES ASSUME NEW i \in 1..Len(a), a[i].kind = "sync", a[i].fenced,
                      NEW c \in Near[a[i].to]
               PROVE  Will(has, a, i - 1, c, Dim[a[i].to])
    BY DEF Gated
  <2>1. CASE i = Len(q) + 1
    <3>1. i - 1 = Len(q) /\ a[i].to = to
      BY <1>1, <1>2, <2>1
    <3>2. fenced
      BY <1>1, <1>2, <2>1
    <3> QED
      BY <1>3, <3>1, <3>2
  <2>2. CASE i # Len(q) + 1
    <3>1. i \in 1..Len(q) /\ a[i] = q[i]
      BY <1>2, <2>2
    <3>2. Will(has, q, i - 1, c, Dim[q[i].to])
      BY <3>1 DEF Gated
    <3> QED
      BY <1>3, <3>1, <3>2
  <2> QED
    BY <2>1, <2>2
<1>7. ASSUME fenced PROVE OnItsWay(a, r, next, to)
  <2>1. m = SyncPacket(next, to, TRUE)
    <3>1. fenced = TRUE
      BY <1>7
    <3> QED
      BY <3>1 DEF m
  <2>2. Len(a) \in 1..Len(a) /\ a[Len(a)] = m
    BY <1>2
  <2>3. \A k \in (Len(a) + 1)..Len(a) : Quiet(a[k], to)
    BY <1>2
  <2>4. \A k \in 1..Len(r) : r[k].kind = "confirm" => r[k].id # next
    <3> SUFFICES ASSUME NEW k \in 1..Len(r), r[k].kind = "confirm"
                 PROVE  r[k].id # next
      OBVIOUS
    <3>1. r[k].id < next /\ r[k] \in Reports
      BY DEF Numbered
    <3>2. r[k].id \in Nat
      BY <3>1 DEF Reports
    <3> QED
      BY <3>1, <3>2
  <2> QED
    BY <2>1, <2>2, <2>3, <2>4 DEF OnItsWay
<1> QED
  BY <1>2, <1>5, <1>6, <1>7 DEF a, m

(***************************************************************************)
(* The client reads its next message: what it answers is known, and what   *)
(* it had coming it has or still has coming.                               *)
(***************************************************************************)
LEMMA ReadNumbered ==
  ASSUME NEW q \in Seq(Packets), q # <<>>, NEW r \in Seq(Reports), NEW next \in Nat,
         Numbered(q, r, next)
  PROVE  /\ r \o Answer(Head(q)) \in Seq(Reports)
         /\ Numbered(Tail(q), r \o Answer(Head(q)), next)
         /\ \A i \in 1..Len(r \o Answer(Head(q))) :
              \/ i \in 1..Len(r) /\ (r \o Answer(Head(q)))[i] = r[i]
              \/ (r \o Answer(Head(q)))[i].kind = "pong"
              \/ /\ q[1].kind = "sync"
                 /\ (r \o Answer(Head(q)))[i] = [kind |-> "confirm", id |-> q[1].id]
<1> DEFINE m == q[1]
           t == Tail(q)
           b == r \o Answer(m)
<1>1. m \in Packets /\ Head(q) = m /\ Len(q) \in Nat /\ Len(t) = Len(q) - 1 /\ Len(r) \in Nat
      /\ 1 \in 1..Len(q)
      /\ \A i \in 1..Len(t) : t[i] = q[i + 1] /\ i + 1 \in 1..Len(q)
  OBVIOUS
<1>2. /\ \A i \in 1..Len(t) : t[i].kind = "sync" => t[i].id < next
      /\ \A i, j \in 1..Len(t) :
           i < j /\ t[i].kind = "sync" /\ t[j].kind = "sync" => t[i].id < t[j].id
  <2> HIDE DEF t
  <2>1. ASSUME NEW i \in 1..Len(t), t[i].kind = "sync" PROVE t[i].id < next
    BY <1>1, <2>1 DEF Numbered
  <2>2. ASSUME NEW i \in 1..Len(t), NEW j \in 1..Len(t), i < j,
               t[i].kind = "sync", t[j].kind = "sync"
        PROVE  t[i].id < t[j].id
    <3>1. i + 1 < j + 1 /\ i + 1 \in 1..Len(q) /\ j + 1 \in 1..Len(q)
          /\ t[i] = q[i + 1] /\ t[j] = q[j + 1]
      BY <1>1, <2>2
    <3> QED
      BY <2>2, <3>1 DEF Numbered
  <2> QED
    BY <2>1, <2>2
<1>3. \A i \in 1..Len(r) : r[i].kind = "confirm" => r[i].id < next
  BY DEF Numbered
<1>4. CASE m.kind = "ping"
  <2>1. Answer(m) = <<[kind |-> "pong", id |-> m.id]>> /\ m.id \in Nat
    BY <1>1, <1>4 DEF Answer, Packets
  <2> DEFINE x == [kind |-> "pong", id |-> m.id]
  <2>2. x \in Reports /\ x.kind = "pong"
    BY <2>1 DEF Reports
  <2>3. b = r \o <<x>>
    BY <2>1
  <2> HIDE DEF x, m
  <2>4. b \in Seq(Reports) /\ Len(b) = Len(r) + 1 /\ b[Len(r) + 1] = x
        /\ \A i \in 1..Len(r) : b[i] = r[i]
    BY <2>2, <2>3
  <2> HIDE DEF b, t
  <2>5. \A i \in 1..Len(b) : i \in 1..Len(r) \/ i = Len(r) + 1
    BY <1>1, <2>4
  <2>6. \A i \in 1..Len(b) : b[i].kind = "confirm" => i \in 1..Len(r) /\ b[i] = r[i]
    BY <2>2, <2>4, <2>5
  <2>7. Numbered(t, b, next)
    BY <1>2, <1>3, <2>4, <2>6 DEF Numbered
  <2> QED
    BY <1>1, <2>2, <2>4, <2>5, <2>7 DEF b, t, m
<1>5. CASE m.kind = "sync"
  <2>1. Answer(m) = <<[kind |-> "confirm", id |-> m.id]>> /\ m.id \in Nat
    BY <1>1, <1>5 DEF Answer, Packets
  <2> DEFINE x == [kind |-> "confirm", id |-> m.id]
  <2>2. x \in Reports /\ x.kind = "confirm" /\ x.id = m.id /\ m.id < next
    BY <1>1, <1>5, <2>1 DEF Reports, Numbered
  <2>3. b = r \o <<x>>
    BY <2>1
  <2> HIDE DEF x, m
  <2>4. b \in Seq(Reports) /\ Len(b) = Len(r) + 1 /\ b[Len(r) + 1] = x
        /\ \A i \in 1..Len(r) : b[i] = r[i]
    BY <2>2, <2>3
  <2> HIDE DEF b, t
  <2>5. \A i \in 1..Len(b) : i \in 1..Len(r) \/ i = Len(r) + 1
    BY <1>1, <2>4
  <2>6. \A i \in 1..Len(b) : b[i].kind = "confirm" => b[i].id < next
    BY <2>2, <2>4, <2>5 DEF Numbered
  <2>7. Numbered(t, b, next)
    BY <1>2, <1>3, <2>4, <2>6 DEF Numbered
  <2> QED
    BY <1>1, <1>5, <2>2, <2>4, <2>5, <2>7 DEF b, t, m, x
<1>6. CASE m.kind \notin {"ping", "sync"}
  <2>1. Answer(m) = <<>>
    BY <1>6 DEF Answer
  <2>2. b = r
    BY <2>1
  <2> HIDE DEF b, t
  <2>3. Numbered(t, r, next)
    BY <1>2, <1>3 DEF Numbered
  <2> QED
    BY <1>1, <2>2, <2>3 DEF b, t
<1> QED
  BY <1>4, <1>5, <1>6

LEMMA ReadGated ==
  ASSUME NEW q \in Seq(Packets), q # <<>>, NEW has, Gated(q, has), TeleportAssumption
  PROVE  Gated(Tail(q), Having(has, Head(q)))
<1> DEFINE t == Tail(q)
           new == Having(has, Head(q))
<1>1. Len(q) \in Nat /\ Len(t) = Len(q) - 1
      /\ \A i \in 1..Len(t) : t[i] = q[i + 1] /\ i + 1 \in 1..Len(q) /\ q[i + 1] \in Packets
  OBVIOUS
<1> SUFFICES ASSUME NEW i \in 1..Len(t), t[i].kind = "sync", t[i].fenced,
                    NEW c \in Near[t[i].to]
             PROVE  Will(new, t, i - 1, c, Dim[t[i].to])
  BY DEF Gated
<1>2. t[i].to \in Places
  BY <1>1 DEF Packets
<1>3. c \in Chunks /\ Dim[t[i].to] # NoDim
  BY <1>2, NearChunks DEF TeleportAssumption
<1> DEFINE d == Dim[t[i].to]
<1>4. Will(has, q, i, c, d)
  <2> DEFINE n == i + 1
  <2>1. n - 1 = i /\ n \in 1..Len(q) /\ q[n] = t[i]
    BY <1>1
  <2> HIDE DEF t, n
  <2>2. Will(has, q, n - 1, c, Dim[q[n].to])
    BY <2>1 DEF Gated
  <2> QED
    BY <2>1, <2>2
<1>5. i \in 1..Len(q)
  BY <1>1
<1> HIDE DEF d, t, new
<1> QED
  BY <1>3, <1>4, <1>5, WillRead DEF t, new, d

LEMMA ReadMirrors ==
  ASSUME NEW q \in Seq(Packets), q # <<>>, NEW has, NEW c \in Chunks, NEW d, d # NoDim,
         Will(has, q, Len(q), c, d)
  PROVE  Will(Having(has, Head(q)), Tail(q), Len(Tail(q)), c, d)
<1>1. Len(q) \in 1..Len(q) /\ Len(Tail(q)) = Len(q) - 1
  OBVIOUS
<1> QED
  BY <1>1, WillRead

(***************************************************************************)
(* Reading the sync that is waited for puts the client at the destination, *)
(* and reading anything else leaves it on its way there.                   *)
(***************************************************************************)
LEMMA ReadLands ==
  ASSUME NEW q \in Seq(Packets), q # <<>>, NEW r \in Seq(Reports), NEW next \in Nat,
         NEW has, NEW to \in Places, NEW id, TeleportAssumption,
         Numbered(q, r, next), Gated(q, has), OnItsWay(q, r, id, to), NEW at,
         at = (IF Head(q).kind = "sync" THEN Head(q).to ELSE clientAt)
  PROVE  \/ OnItsWay(Tail(q), r \o Answer(Head(q)), id, to)
         \/ Landed(Tail(q), at, Having(has, Head(q)), to)
<1> DEFINE t == Tail(q)
           b == r \o Answer(Head(q))
           new == Having(has, Head(q))
           sync == SyncPacket(id, to, TRUE)
<1>1. /\ Len(q) \in Nat /\ Len(t) = Len(q) - 1 /\ Head(q) = q[1] /\ 1 \in 1..Len(q)
      /\ \A i \in 1..Len(t) : t[i] = q[i + 1] /\ i + 1 \in 1..Len(q)
      /\ \A i \in 1..Len(q) : q[i] \in Packets
  OBVIOUS
<1>2. PICK i \in 1..Len(q) : q[i] = sync /\ \A k \in (i + 1)..Len(q) : Quiet(q[k], to)
  BY DEF OnItsWay
<1>3. sync.kind = "sync" /\ sync.id = id /\ sync.to = to /\ sync.fenced = TRUE
  BY DEF SyncPacket
<1> HIDE DEF t, new, sync
<1>4. CASE i = 1
  <2>1. ASSUME NEW c \in Near[to] PROVE new[c] = Dim[to]
    <3>1. c \in Chunks /\ Dim[to] # NoDim
      BY NearChunks DEF TeleportAssumption
    <3>2. Will(has, q, 1 - 1, c, Dim[to])
      BY <1>1, <1>2, <1>3, <1>4 DEF Gated
    <3>3. has[c] = Dim[to]
      BY <3>2 DEF Will
    <3>4. new = Having(has, q[1]) /\ q[1] \in Packets
          /\ ~Gives(q[1], c, Dim[to]) /\ ~Takes(q[1], c, Dim[to])
      BY <1>1, <1>2, <1>3, <1>4 DEF Gives, Takes, new
    <3> QED
      BY <3>1, <3>3, <3>4, ReadOne
  <2>2. at = to
    BY <1>1, <1>2, <1>3, <1>4
  <2>3. ASSUME NEW k \in 1..Len(t) PROVE Quiet(t[k], to)
    <3>1. k + 1 \in (i + 1)..Len(q) /\ t[k] = q[k + 1]
      BY <1>1, <1>4
    <3> QED
      BY <1>2, <3>1
  <2>4. Landed(t, at, new, to)
    BY <2>1, <2>2, <2>3 DEF Landed
  <2> QED
    BY <2>4 DEF t, new
<1>5. CASE i # 1
  <2>1. i - 1 \in 1..Len(t) /\ t[i - 1] = sync
    <3>1. i - 1 \in 1..Len(t) /\ (i - 1) + 1 = i
      BY <1>1, <1>5
    <3> QED
      BY <1>1, <1>2, <3>1
  <2>2. ASSUME NEW k \in ((i - 1) + 1)..Len(t) PROVE Quiet(t[k], to)
    <3>1. k \in 1..Len(t) /\ k + 1 \in (i + 1)..Len(q)
      BY <1>1, <1>5
    <3> QED
      BY <1>1, <1>2, <3>1
  <2>3. q[1].kind = "sync" => q[1].id # id
    <3> SUFFICES ASSUME q[1].kind = "sync" PROVE q[1].id # id
      OBVIOUS
    <3>1. 1 < i /\ q[i].kind = "sync" /\ q[i].id = id
      BY <1>2, <1>3, <1>5
    <3>2. q[1].id < id
      BY <1>1, <3>1 DEF Numbered
    <3>3. q[1].id \in Nat
      BY <1>1 DEF Packets
    <3> QED
      BY <3>2, <3>3
  <2>4. ASSUME NEW k \in 1..Len(b), b[k].kind = "confirm" PROVE b[k].id # id
    <3>1. \/ k \in 1..Len(r) /\ b[k] = r[k]
          \/ b[k].kind = "pong"
          \/ q[1].kind = "sync" /\ b[k] = [kind |-> "confirm", id |-> q[1].id]
      <4>1. \A j \in 1..Len(b) :
              \/ j \in 1..Len(r) /\ b[j] = r[j]
              \/ b[j].kind = "pong"
              \/ q[1].kind = "sync" /\ b[j] = [kind |-> "confirm", id |-> q[1].id]
        BY ReadNumbered
      <4> HIDE DEF b
      <4> QED
        BY <4>1
    <3>2. \A j \in 1..Len(r) : r[j].kind = "confirm" => r[j].id # id
      BY DEF OnItsWay
    <3> HIDE DEF b
    <3> QED
      BY <2>3, <2>4, <3>1, <3>2
  <2> HIDE DEF b
  <2>5. OnItsWay(t, b, id, to)
    BY <2>1, <2>2, <2>4 DEF OnItsWay, sync
  <2> QED
    BY <2>5 DEF t, b
<1> QED
  BY <1>4, <1>5

LEMMA ReadStays ==
  ASSUME NEW q \in Seq(Packets), q # <<>>, NEW has, NEW to \in Places, NEW at,
         Landed(q, at, has, to), TeleportAssumption
  PROVE  /\ Head(q).kind # "sync"
         /\ Landed(Tail(q), at, Having(has, Head(q)), to)
<1> DEFINE t == Tail(q)
           new == Having(has, Head(q))
<1>1. /\ Len(q) \in Nat /\ Len(t) = Len(q) - 1 /\ Head(q) = q[1] /\ 1 \in 1..Len(q)
      /\ \A i \in 1..Len(t) : t[i] = q[i + 1] /\ i + 1 \in 1..Len(q)
      /\ q[1] \in Packets
  OBVIOUS
<1>2. Quiet(q[1], to)
  BY <1>1 DEF Landed
<1> HIDE DEF t, new
<1>3. ASSUME NEW c \in Near[to] PROVE new[c] = Dim[to]
  <2>1. c \in Chunks /\ Dim[to] # NoDim
    BY NearChunks DEF TeleportAssumption
  <2>2. has[c] = Dim[to] /\ ~Takes(q[1], c, Dim[to])
    BY <1>2 DEF Landed, Quiet
  <2>3. new = Having(has, q[1])
    BY <1>1 DEF new
  <2> QED
    BY <1>1, <2>1, <2>2, <2>3, ReadOne
<1>4. \A k \in 1..Len(t) : Quiet(t[k], to)
  BY <1>1 DEF Landed
<1>5. Landed(t, at, new, to)
  BY <1>3, <1>4 DEF Landed
<1> QED
  BY <1>1, <1>2, <1>5 DEF Quiet, t, new

(***************************************************************************)
(* The server takes an answer.                                             *)
(***************************************************************************)
LEMMA TakeAnswer ==
  ASSUME NEW q, NEW r \in Seq(Reports), r # <<>>, NEW next, NEW id, NEW to
  PROVE  /\ Tail(r) \in Seq(Reports)
         /\ Numbered(q, r, next) => Numbered(q, Tail(r), next)
         /\ OnItsWay(q, r, id, to) => /\ OnItsWay(q, Tail(r), id, to)
                                      /\ ~(Head(r).kind = "confirm" /\ Head(r).id = id)
<1> DEFINE t == Tail(r)
<1>1. Len(r) \in Nat /\ Len(t) = Len(r) - 1 /\ Head(r) = r[1] /\ 1 \in 1..Len(r)
      /\ t \in Seq(Reports)
      /\ \A i \in 1..Len(t) : t[i] = r[i + 1] /\ i + 1 \in 1..Len(r)
  OBVIOUS
<1> HIDE DEF t
<1>2. Numbered(q, r, next) => Numbered(q, t, next)
  BY <1>1 DEF Numbered
<1>3. OnItsWay(q, r, id, to) => OnItsWay(q, t, id, to)
                                /\ ~(r[1].kind = "confirm" /\ r[1].id = id)
  BY <1>1 DEF OnItsWay
<1> QED
  BY <1>1, <1>2, <1>3 DEF t

LEMMA MoreMoves ==
  ASSUME NEW q, NEW r \in Seq(Reports), NEW place \in Places, NEW next, NEW id, NEW to
  PROVE  LET b == Append(r, [kind |-> "move", at |-> place])
         IN /\ b \in Seq(Reports)
            /\ Numbered(q, r, next) => Numbered(q, b, next)
            /\ OnItsWay(q, r, id, to) => OnItsWay(q, b, id, to)
<1> DEFINE x == [kind |-> "move", at |-> place]
           b == Append(r, x)
<1>1. x \in Reports /\ x.kind = "move"
  BY DEF Reports
<1> HIDE DEF x
<1>2. Len(r) \in Nat /\ Len(b) = Len(r) + 1 /\ b[Len(r) + 1] = x /\ b \in Seq(Reports)
      /\ \A i \in 1..Len(r) : b[i] = r[i]
  BY <1>1
<1> HIDE DEF b
<1>3. \A i \in 1..Len(b) : b[i].kind = "confirm" => i \in 1..Len(r) /\ b[i] = r[i]
  BY <1>1, <1>2
<1>4. Numbered(q, r, next) => Numbered(q, b, next)
  BY <1>3 DEF Numbered
<1>5. OnItsWay(q, r, id, to) => OnItsWay(q, b, id, to)
  BY <1>3 DEF OnItsWay
<1> QED
  BY <1>2, <1>4, <1>5 DEF b, x

(***************************************************************************)
(* The packets of one pass: chunks taken away, chunks given.               *)
(***************************************************************************)
LEMMA UnloadSent ==
  ASSUME NEW q \in Seq(Packets), NEW S \in SUBSET Chunks, NEW r, NEW has, NEW next,
         Numbered(q, r, next), Gated(q, has)
  PROVE  /\ q \o Unloading(S) \in Seq(Packets)
         /\ Numbered(q \o Unloading(S), r, next)
         /\ Gated(q \o Unloading(S), has)
         /\ \A c, d : c \notin S /\ Will(has, q, Len(q), c, d)
                        => Will(has, q \o Unloading(S), Len(q \o Unloading(S)), c, d)
         /\ \A to, id, at : Near[to] \cap S = {} =>
              /\ OnItsWay(q, r, id, to) => OnItsWay(q \o Unloading(S), r, id, to)
              /\ Landed(q, at, has, to) => Landed(q \o Unloading(S), at, has, to)
<1>1. CASE S = {}
  <2>1. q \o Unloading(S) = q
    BY <1>1 DEF Unloading
  <2> QED
    BY <2>1
<1>2. CASE S # {}
  <2> DEFINE m == [kind |-> "unload", chunks |-> S]
             a == Append(q, m)
  <2>1. m \in Packets /\ m.kind = "unload" /\ m.chunks = S
    BY DEF Packets
  <2>2. q \o Unloading(S) = a
    <3>1. Unloading(S) = <<m>>
      BY <1>2 DEF Unloading
    <3> HIDE DEF m
    <3> QED
      BY <2>1, <3>1
  <2> HIDE DEF m
  <2>3. a \in Seq(Packets) /\ Len(a) = Len(q) + 1
    BY <2>1
  <2>4. Numbered(a, r, next) /\ Gated(a, has)
    BY <2>1, AppendOther
  <2>5. ASSUME NEW c, NEW d, c \notin S, Will(has, q, Len(q), c, d)
        PROVE  Will(has, a, Len(q) + 1, c, d)
    BY <2>1, <2>5, WillAppend DEF Takes
  <2>6. ASSUME NEW to, NEW id, NEW at, Near[to] \cap S = {}
        PROVE  /\ OnItsWay(q, r, id, to) => OnItsWay(a, r, id, to)
               /\ Landed(q, at, has, to) => Landed(a, at, has, to)
    <3>1. Quiet(m, to)
      BY <2>1, <2>6 DEF Quiet, Takes
    <3> QED
      BY <2>1, <3>1, AppendQuiet
  <2> HIDE DEF a
  <2> QED
    BY <2>2, <2>3, <2>4, <2>5, <2>6
<1> QED
  BY <1>1, <1>2

LEMMA LoadSent ==
  ASSUME NEW q \in Seq(Packets), NEW S \in SUBSET Chunks, NEW r, NEW has, NEW next,
         Numbered(q, r, next), Gated(q, has), NEW d \in {Dim[p] : p \in Places}
  PROVE  /\ q \o Loading(S, d) \in Seq(Packets)
         /\ Numbered(q \o Loading(S, d), r, next)
         /\ Gated(q \o Loading(S, d), has)
         /\ \A c : c \in S \/ Will(has, q, Len(q), c, d)
                     => Will(has, q \o Loading(S, d), Len(q \o Loading(S, d)), c, d)
         /\ \A to, id, at : Dim[to] = d =>
              /\ OnItsWay(q, r, id, to) => OnItsWay(q \o Loading(S, d), r, id, to)
              /\ Landed(q, at, has, to) => Landed(q \o Loading(S, d), at, has, to)
<1>1. CASE S = {}
  <2>1. q \o Loading(S, d) = q
    BY <1>1 DEF Loading
  <2> QED
    BY <1>1, <2>1
<1>2. CASE S # {}
  <2> DEFINE m == [kind |-> "chunks", chunks |-> S, dim |-> d]
             a == Append(q, m)
  <2>1. m \in Packets /\ m.kind = "chunks" /\ m.chunks = S /\ m.dim = d
    BY DEF Packets
  <2>2. q \o Loading(S, d) = a
    <3>1. Loading(S, d) = <<m>>
      BY <1>2 DEF Loading
    <3> HIDE DEF m
    <3> QED
      BY <2>1, <3>1
  <2> HIDE DEF m
  <2>3. a \in Seq(Packets) /\ Len(a) = Len(q) + 1
    BY <2>1
  <2>4. Numbered(a, r, next) /\ Gated(a, has)
    BY <2>1, AppendOther
  <2>5. ASSUME NEW c, c \in S \/ Will(has, q, Len(q), c, d)
        PROVE  Will(has, a, Len(q) + 1, c, d)
    <3>1. ~Takes(m, c, d) /\ (c \in S => Gives(m, c, d))
      BY <2>1 DEF Takes, Gives
    <3> QED
      BY <2>1, <2>5, <3>1, WillAppend
  <2>6. ASSUME NEW to, NEW id, NEW at, Dim[to] = d
        PROVE  /\ OnItsWay(q, r, id, to) => OnItsWay(a, r, id, to)
               /\ Landed(q, at, has, to) => Landed(a, at, has, to)
    <3>1. Quiet(m, to)
      BY <2>1, <2>6 DEF Quiet, Takes, Gives
    <3> QED
      BY <2>1, <3>1, AppendQuiet
  <2> HIDE DEF a
  <2> QED
    BY <2>2, <2>3, <2>4, <2>5, <2>6
<1> QED
  BY <1>1, <1>2

-----------------------------------------------------------------------------
(* The way of a teleported player: the server's record of its chunks is     *)
(* what it will have, the sync is sent once they are all under way, and it  *)
(* is confirmed only by a client that read it.                              *)

Flow ==
  /\ pos \in Places /\ clientAt \in Places /\ nextId \in Nat
  /\ dim \in {Dim[p] : p \in Places}
  /\ loaded \in SUBSET Chunks /\ backlog \in SUBSET SUBSET Chunks
  /\ toClient \in Seq(Packets) /\ fromClient \in Seq(Reports)
  /\ Numbered(toClient, fromClient, nextId)
  /\ Gated(toClient, clientHas)

Mirrored == \A c \in loaded : Will(clientHas, toClient, Len(toClient), c, dim)

Reached ==
  teleport # NoTeleport =>
    /\ dim = Dim[teleport.to]
    /\ stage # "streaming" => Near[teleport.to] \subseteq loaded

Landing ==
  teleport # NoTeleport /\ stage = "sync" =>
    \/ OnItsWay(toClient, fromClient, pendingId, teleport.to)
    \/ Landed(toClient, clientAt, clientHas, teleport.to)

Confirming ==
  outcome = "confirmed" =>
    /\ phase = "deferred" /\ removing
    /\ teleport # NoTeleport /\ stage = "sync" /\ pendingId = -1

Route == Flow /\ Mirrored /\ Reached /\ Landing /\ Confirming
RouteInv == Held /\ Route

LEMMA InitOnRoute == Init => Route
<1> SUFFICES ASSUME Init PROVE Route
  OBVIOUS
<1> DEFINE m == SyncPacket(0, Home, FALSE)
<1>1. m \in Packets /\ m.kind = "sync" /\ m.id = 0 /\ m.fenced = FALSE /\ Home \in Places
  BY TeleportAssumption DEF SyncPacket, Packets
<1>2. toClient = <<m>> /\ fromClient = <<>>
  BY DEF Init
<1> HIDE DEF m
<1>3. toClient \in Seq(Packets) /\ fromClient \in Seq(Reports)
      /\ Len(toClient) = 1 /\ Len(fromClient) = 0 /\ toClient[1] = m
  BY <1>1, <1>2
<1>4. Flow
  <2>1. Numbered(toClient, fromClient, nextId)
    <3>1. nextId = 1
      BY DEF Init
    <3>2. \A i \in 1..Len(toClient) : i = 1 /\ toClient[i].id = 0
      BY <1>1, <1>3
    <3>3. \A i \in 1..Len(fromClient) : FALSE
      BY <1>3
    <3> QED
      BY <3>1, <3>2, <3>3 DEF Numbered
  <2>2. Gated(toClient, clientHas)
    BY <1>1, <1>3 DEF Gated
  <2> QED
    BY <1>1, <1>3, <2>1, <2>2, NearChunks DEF Flow, Init
<1>5. Mirrored
  <2> SUFFICES ASSUME NEW c \in loaded
               PROVE  Will(clientHas, toClient, Len(toClient), c, dim)
    BY DEF Mirrored
  <2>1. clientHas[c] = dim
    BY <1>1, NearChunks DEF Init
  <2>2. \A d : ~Takes(m, c, d)
    BY <1>1 DEF Takes
  <2> QED
    BY <1>3, <2>1, <2>2 DEF Will
<1> QED
  BY <1>4, <1>5 DEF Route, Reached, Landing, Confirming, Init

(* Steps that touch neither what is in flight nor the barrier *)
LEMMA SameRoute ==
  ASSUME Route, outcome # "confirmed" \/ phase' = phase,
         UNCHANGED <<teleport, stage, outcome, removing, pos, dim, nextId, pendingId,
                     loaded, backlog, toClient, fromClient, clientAt, clientHas>>
  PROVE  Route'
BY DEF Route, Flow, Mirrored, Reached, Landing, Confirming

(* A new destination starts its own route. *)
LEMMA InsertOnRoute ==
  ASSUME RouteInv, NEW t \in Teleports, Insert(t) PROVE Route'
<1>1. t.to \in Places /\ t # NoTeleport
  BY TeleportAssumption DEF Teleports
<1> DEFINE crosses == Dim[t.to] # dim
<1>2. /\ teleport' = t /\ stage' = "streaming" /\ outcome' = "none"
      /\ pos' = t.to /\ dim' = Dim[t.to]
      /\ loaded' = IF crosses THEN {} ELSE loaded
      /\ backlog' = IF crosses THEN StreamAnew ELSE backlog
      /\ toClient' = IF crosses THEN toClient \o Unloading(loaded) ELSE toClient
      /\ UNCHANGED <<nextId, fromClient, clientAt, clientHas>>
  BY DEF Insert, Begin, clientVars
<1>3. Reached' /\ Landing' /\ Confirming'
  BY <1>2 DEF Reached, Landing, Confirming
<1>4. CASE crosses
  <2>1. loaded' = {} /\ backlog' = StreamAnew /\ toClient' = toClient \o Unloading(loaded)
    BY <1>2, <1>4
  <2>2. /\ toClient' \in Seq(Packets)
        /\ Numbered(toClient', fromClient, nextId) /\ Gated(toClient', clientHas)
    BY <2>1, UnloadSent DEF RouteInv, Route, Flow
  <2>3. Flow'
    BY <1>1, <1>2, <2>1, <2>2 DEF RouteInv, Route, Flow, StreamAnew
  <2>4. Mirrored'
    BY <2>1 DEF Mirrored
  <2> QED
    BY <1>3, <2>3, <2>4 DEF Route
<1>5. CASE ~crosses
  <2>1. UNCHANGED <<dim, loaded, backlog, toClient>>
    BY <1>2, <1>5
  <2>2. Flow' /\ Mirrored'
    BY <1>1, <1>2, <2>1 DEF RouteInv, Route, Flow, Mirrored
  <2> QED
    BY <1>3, <2>2 DEF Route
<1> QED
  BY <1>4, <1>5

(* A teleport that ends leaves the client's chunks as they are. *)
LEMMA EndOnRoute ==
  ASSUME RouteInv, End PROVE Route'
<1>1. /\ teleport' = NoTeleport /\ outcome' = "none"
      /\ UNCHANGED <<pos, dim, nextId, loaded, backlog, toClient, fromClient, clientAt, clientHas>>
  BY DEF End, streamVars, clientVars
<1> QED
  BY <1>1 DEF RouteInv, Route, Flow, Mirrored, Reached, Landing, Confirming

(* Only the fence's own Pong sends the fenced sync; an answer to the sync   *)
(* waited for comes from a client that has read it.                         *)
LEMMA ReceiveOnRoute ==
  ASSUME RouteInv, Receive PROVE Route'
<1> DEFINE m == Head(fromClient)
           r == Tail(fromClient)
<1>1. /\ Flow /\ Mirrored /\ Reached /\ Landing /\ Confirming
      /\ phase = "packets" /\ fromClient # <<>> /\ fromClient' = r
      /\ UNCHANGED <<phase, teleport, outcome, removing, dim, loaded, backlog, clientAt,
                     clientHas>>
  BY DEF RouteInv, Route, Receive, streamVars, clientVars
<1>2. m \in Reports /\ r \in Seq(Reports) /\ Numbered(toClient, r, nextId)
      /\ toClient \in Seq(Packets) /\ nextId \in Nat
  BY <1>1, TakeAnswer DEF Flow
<1>3. \A id, to : OnItsWay(toClient, fromClient, id, to) =>
        OnItsWay(toClient, r, id, to) /\ ~(m.kind = "confirm" /\ m.id = id)
  BY <1>1, TakeAnswer DEF Flow
<1>4. Confirming'
  BY <1>1 DEF Confirming
<1>5. HandlePong \/ HandleConfirm \/ HandleMove
  BY DEF Receive
<1> HIDE DEF r
<1>6. CASE HandlePong /\ PongMatches
  <2>1. /\ stage' = "sync" /\ pendingId' = nextId /\ nextId' = nextId + 1 /\ pos' = pos
        /\ toClient' = Append(toClient, SyncPacket(nextId, teleport.to, TRUE))
        /\ teleport # NoTeleport /\ stage = "fence"
    BY <1>6 DEF HandlePong, PongMatches
  <2>2. teleport.to \in Places
    BY <2>1 DEF RouteInv, Held, IInv, Teleports
  <2>3. dim = Dim[teleport.to] /\ Near[teleport.to] \subseteq loaded
    BY <1>1, <2>1 DEF Reached
  <2>4. \A c \in Near[teleport.to] :
          Will(clientHas, toClient, Len(toClient), c, Dim[teleport.to])
    BY <1>1, <2>3 DEF Mirrored
  <2> DEFINE to == teleport.to
             has == clientHas
             q == toClient
             next == nextId
             a == Append(q, SyncPacket(next, to, TRUE))
  <2>5. Gated(q, has)
    BY <1>1 DEF Flow
  <2>6. /\ q \in Seq(Packets) /\ r \in Seq(Reports) /\ next \in Nat /\ to \in Places
        /\ Numbered(q, r, next)
        /\ \A c \in Near[to] : Will(has, q, Len(q), c, Dim[to])
    BY <1>2, <2>2, <2>4
  <2> HIDE DEF to, has, q, next
  <2>7. /\ Numbered(a, r, next + 1) /\ Gated(a, has) /\ OnItsWay(a, r, next, to)
        /\ a \in Seq(Packets)
    BY <2>5, <2>6, AppendSync
  <2>8. SyncPacket(next, to, TRUE) \in Packets
        /\ \A c, d : ~Takes(SyncPacket(next, to, TRUE), c, d)
    BY <2>6 DEF SyncPacket, Packets, Takes
  <2>9. Len(a) = Len(q) + 1
    BY <2>6, <2>8
  <2>10. \A c, d : Will(has, q, Len(q), c, d) => Will(has, a, Len(a), c, d)
    <3> DEFINE x == SyncPacket(next, to, TRUE)
    <3>1. x \in Packets /\ \A c, d : ~Takes(x, c, d)
      BY <2>8
    <3>2. a = Append(q, x)
      OBVIOUS
    <3> HIDE DEF x, a
    <3> TAKE c, d
    <3> QED
      BY <2>6, <2>9, <3>1, <3>2, WillAppend
  <2>11. toClient' = a /\ fromClient' = r /\ nextId' = next + 1 /\ pendingId' = next
         /\ clientHas' = has /\ teleport' = teleport /\ teleport.to = to /\ q = toClient
         /\ has = clientHas
    BY <1>1, <2>1 DEF q, next, to, has
  <2> HIDE DEF a
  <2>12. next + 1 \in Nat
    BY <2>6
  <2>13. Flow'
    BY <1>1, <2>1, <2>6, <2>7, <2>11, <2>12 DEF Flow
  <2>14. Mirrored'
    BY <1>1, <2>10, <2>11 DEF Mirrored
  <2>15. Reached' /\ Landing'
    BY <1>1, <2>1, <2>3, <2>7, <2>11 DEF Reached, Landing
  <2> QED
    BY <1>4, <2>13, <2>14, <2>15 DEF Route
<1>7. CASE HandlePong /\ ~PongMatches
  <2>1. UNCHANGED <<stage, pendingId, nextId, toClient, pos>>
    BY <1>7 DEF HandlePong
  <2> QED
    BY <1>1, <1>2, <1>3, <1>4, <2>1 DEF Route, Flow, Mirrored, Reached, Landing
<1>8. CASE HandleConfirm
  <2>1. UNCHANGED <<stage, nextId, toClient, pos>> /\ m.kind = "confirm"
        /\ pendingId' = IF pendingId = m.id THEN -1 ELSE pendingId
    BY <1>8 DEF HandleConfirm, Head1
  <2>2. \A to : OnItsWay(toClient, fromClient, pendingId, to) =>
          pendingId' = pendingId /\ OnItsWay(toClient, r, pendingId, to)
    BY <1>3, <2>1
  <2> HIDE DEF m
  <2>3. Landing'
    BY <1>1, <2>1, <2>2 DEF Landing
  <2> QED
    BY <1>1, <1>2, <1>4, <2>1, <2>3 DEF Route, Flow, Mirrored, Reached
<1>9. CASE HandleMove
  <2>1. UNCHANGED <<stage, pendingId, nextId, toClient>> /\ m.kind = "move"
        /\ pos' = IF control THEN pos ELSE m.at
    BY <1>9 DEF HandleMove, Head1
  <2>2. m.at \in Places
    BY <1>2, <2>1 DEF Reports
  <2>3. pos' \in Places
    BY <1>1, <2>1, <2>2 DEF Flow
  <2> HIDE DEF m
  <2> QED
    BY <1>1, <1>2, <1>3, <1>4, <2>1, <2>3 DEF Route, Flow, Mirrored, Reached, Landing
<1> QED
  BY <1>5, <1>6, <1>7, <1>8, <1>9

(* The barrier raises its fence once every chunk is under way, and confirms *)
(* an answered sync only.                                                   *)
LEMMA AdvanceOnRoute ==
  ASSUME RouteInv, Advance PROVE Route'
<1>1. /\ Flow /\ Mirrored /\ Reached /\ Landing /\ Confirming
      /\ phase = "update" /\ phase' = "deferred"
      /\ UNCHANGED <<teleport, pos, dim, loaded, backlog, fromClient, clientAt, clientHas>>
  BY DEF RouteInv, Route, Advance, streamVars, clientVars
<1>2. outcome # "confirmed"
  BY <1>1 DEF Confirming
<1>3. CASE UNCHANGED <<stage, pendingId, nextId, toClient>>
           /\ (outcome' # "confirmed" \/ (teleport # NoTeleport /\ stage = "sync"
                                          /\ pendingId = -1 /\ removing'))
  BY <1>1, <1>3 DEF Route, Flow, Mirrored, Reached, Landing, Confirming
<1>4. CASE teleport = NoTeleport
  BY <1>2, <1>3, <1>4 DEF Advance
<1>5. CASE teleport # NoTeleport
  <2> DEFINE q == toClient
             r == fromClient
             has == clientHas
             next == nextId
             to == teleport.to
  <2>1. /\ q \in Seq(Packets) /\ r \in Seq(Reports) /\ next \in Nat /\ to \in Places
        /\ Numbered(q, r, next) /\ Gated(q, has) /\ next + 1 \in Nat
    BY <1>1, <1>5 DEF Flow, RouteInv, Held, IInv, Teleports
  <2>2. CASE Expire /\ stage # "sync"
    <3> DEFINE x == SyncPacket(next, to, FALSE)
               a == Append(q, x)
    <3>1. /\ toClient' = a /\ nextId' = next + 1 /\ outcome' = "timedOut" /\ stage' = stage
      BY <2>2 DEF Expire
    <3> HIDE DEF q, r, has, next, to
    <3>2. Numbered(a, r, next + 1) /\ Gated(a, has) /\ a \in Seq(Packets)
      BY <2>1, AppendSync
    <3>3. x \in Packets /\ \A c, d : ~Takes(x, c, d)
      BY <2>1 DEF SyncPacket, Packets, Takes
    <3> HIDE DEF x
    <3>4. Len(a) = Len(q) + 1
      BY <2>1, <3>3
    <3>5. \A c, d : Will(has, q, Len(q), c, d) => Will(has, a, Len(a), c, d)
      <4> TAKE c, d
      <4> QED
        BY <2>1, <3>3, <3>4, WillAppend
    <3> HIDE DEF a
    <3>6. Flow'
      BY <1>1, <2>1, <3>1, <3>2 DEF Flow, has, r
    <3>7. Mirrored'
      BY <1>1, <3>1, <3>5 DEF Mirrored, has, q
    <3> QED
      BY <1>1, <2>2, <3>1, <3>6, <3>7 DEF Route, Reached, Landing, Confirming
  <2>3. CASE RaiseFence
    <3> DEFINE x == [kind |-> "ping", id |-> next]
               a == Append(q, x)
    <3>1. /\ toClient' = a /\ nextId' = next + 1 /\ outcome' = outcome /\ stage' = "fence"
          /\ Near[teleport.to] \subseteq loaded
      BY <2>3 DEF RaiseFence
    <3> HIDE DEF q, r, has, next, to
    <3>2. x \in Packets /\ x.kind = "ping" /\ \A c, d : ~Takes(x, c, d)
      BY <2>1 DEF Packets, Takes
    <3> HIDE DEF x
    <3>3. Numbered(a, r, next) /\ Gated(a, has) /\ a \in Seq(Packets) /\ Len(a) = Len(q) + 1
      BY <2>1, <3>2, AppendOther
    <3>4. \A c, d : Will(has, q, Len(q), c, d) => Will(has, a, Len(a), c, d)
      <4> TAKE c, d
      <4> QED
        BY <2>1, <3>2, <3>3, WillAppend
    <3> HIDE DEF a
    <3>5. Numbered(a, r, next + 1)
      <4>1. \A i \in 1..Len(a) : a[i] \in Packets
        BY <3>3
      <4>2. \A i \in 1..Len(r) : r[i] \in Reports
        BY <2>1
      <4>3. \A i \in 1..Len(a) : a[i].kind = "sync" => a[i].id \in Nat
        BY <4>1 DEF Packets
      <4>4. \A i \in 1..Len(r) : r[i].kind = "confirm" => r[i].id \in Nat
        BY <4>2 DEF Reports
      <4>5. \A i \in Nat : i < next => i < next + 1
        BY <2>1
      <4> QED
        BY <3>3, <4>3, <4>4, <4>5 DEF Numbered
    <3>6. Flow'
      BY <1>1, <2>1, <3>1, <3>3, <3>5 DEF Flow, has, r
    <3>7. Mirrored'
      BY <1>1, <3>1, <3>4 DEF Mirrored, has, q
    <3> QED
      BY <1>1, <1>2, <3>1, <3>6, <3>7 DEF Route, Reached, Landing, Confirming
  <2>4. CASE Expire /\ stage = "sync"
    BY <1>3, <2>4 DEF Expire
  <2>5. CASE Confirm
    BY <1>3, <1>5, <2>5 DEF Confirm
  <2>6. CASE Wait
    BY <1>2, <1>3, <2>6 DEF Wait
  <2> QED
    BY <1>5, <2>2, <2>3, <2>4, <2>5, <2>6 DEF Advance
<1> QED
  BY <1>4, <1>5

(* A pass gives chunks of the player's dimension, and takes none around the *)
(* destination away once they are under way.                                *)
LEMMA StreamOnRoute ==
  ASSUME RouteInv, Stream PROVE Route'
<1>1. /\ Flow /\ Mirrored /\ Reached /\ Landing /\ Confirming
      /\ phase = "post" /\ outcome # "confirmed"
      /\ UNCHANGED <<teleport, stage, outcome, pos, dim, nextId, pendingId, fromClient,
                     clientAt, clientHas>>
  BY DEF RouteInv, Route, Confirming, Stream, teleVars, playerVars, clientVars
<1>2. CASE UNCHANGED <<streamVars, toClient>>
  BY <1>1, <1>2 DEF Route, Flow, Mirrored, Reached, Landing, Confirming, streamVars
<1>3. CASE Moved \/ backlog # {}
  <2>1. PICK S \in Sendable :
           /\ loaded' = Kept \cup S
           /\ backlog' = IF Wanted \ loaded' = {} THEN {} ELSE {Wanted \ loaded'}
           /\ toClient' = toClient \o Unloading(loaded \ Kept) \o Loading(S, dim)
    BY <1>3 DEF Stream
  <2>2. Wanted \in SUBSET Chunks
    BY <1>1, NearChunks DEF Wanted, Flow
  <2>3. Kept \subseteq loaded /\ (Near[pos] \subseteq loaded => Near[pos] \subseteq Kept)
    BY DEF Kept
  <2>4. S \in SUBSET Chunks /\ loaded \in SUBSET Chunks
    BY <1>1, <2>2 DEF Sendable, Flow
  <2> DEFINE gone == loaded \ Kept
             q == toClient \o Unloading(gone)
             a == q \o Loading(S, dim)
  <2>5. toClient' = a
    BY <2>1
  <2>6. gone \in SUBSET Chunks
    BY <2>4
  <2> HIDE DEF gone
  <2>7. /\ q \in Seq(Packets)
        /\ Numbered(q, fromClient, nextId) /\ Gated(q, clientHas)
        /\ \A c, d : c \notin gone /\ Will(clientHas, toClient, Len(toClient), c, d)
                       => Will(clientHas, q, Len(q), c, d)
        /\ \A to, id, at : Near[to] \cap gone = {} =>
             /\ OnItsWay(toClient, fromClient, id, to) => OnItsWay(q, fromClient, id, to)
             /\ Landed(toClient, at, clientHas, to) => Landed(q, at, clientHas, to)
    BY <1>1, <2>6, UnloadSent DEF Flow
  <2> HIDE DEF q
  <2>8. /\ a \in Seq(Packets)
        /\ Numbered(a, fromClient, nextId) /\ Gated(a, clientHas)
        /\ \A c : c \in S \/ Will(clientHas, q, Len(q), c, dim)
                    => Will(clientHas, a, Len(a), c, dim)
        /\ \A to, id, at : Dim[to] = dim =>
             /\ OnItsWay(q, fromClient, id, to) => OnItsWay(a, fromClient, id, to)
             /\ Landed(q, at, clientHas, to) => Landed(a, at, clientHas, to)
    BY <1>1, <2>4, <2>7, LoadSent DEF Flow
  <2> HIDE DEF a
  <2>9. loaded' \in SUBSET Chunks /\ backlog' \in SUBSET SUBSET Chunks
    BY <2>1, <2>2, <2>3, <2>4
  <2>10. Flow'
    BY <1>1, <2>5, <2>8, <2>9 DEF Flow
  <2>11. Mirrored'
    <3> SUFFICES ASSUME NEW c \in loaded' PROVE Will(clientHas, a, Len(a), c, dim)
      BY <1>1, <2>5 DEF Mirrored
    <3>1. CASE c \in S
      BY <2>8, <3>1
    <3>2. CASE c \in Kept
      <4>1. c \notin gone /\ c \in loaded
        BY <2>3, <3>2 DEF gone
      <4>2. Will(clientHas, toClient, Len(toClient), c, dim)
        BY <1>1, <4>1 DEF Mirrored
      <4> QED
        BY <2>7, <2>8, <4>1, <4>2
    <3> QED
      BY <2>1, <3>1, <3>2
  <2>12. ASSUME teleport # NoTeleport
         PROVE  pos = teleport.to /\ Dim[teleport.to] = dim
    BY <1>1, <2>12 DEF Reached, RouteInv, Held, HeldAtDestination
  <2>13. Reached'
    BY <1>1, <2>1, <2>3, <2>12 DEF Reached
  <2>14. Landing'
    <3> SUFFICES ASSUME teleport # NoTeleport, stage = "sync"
                 PROVE  \/ OnItsWay(a, fromClient, pendingId, teleport.to)
                        \/ Landed(a, clientAt, clientHas, teleport.to)
      BY <1>1, <2>5 DEF Landing
    <3>1. Near[teleport.to] \cap gone = {}
      BY <1>1, <2>3, <2>12 DEF Reached, gone
    <3>2. \/ OnItsWay(toClient, fromClient, pendingId, teleport.to)
          \/ Landed(toClient, clientAt, clientHas, teleport.to)
      BY <1>1 DEF Landing
    <3>3. \/ OnItsWay(q, fromClient, pendingId, teleport.to)
          \/ Landed(q, clientAt, clientHas, teleport.to)
      BY <2>7, <3>1, <3>2
    <3> QED
      BY <2>8, <2>12, <3>3
  <2> QED
    BY <1>1, <2>10, <2>11, <2>13, <2>14 DEF Route, Confirming
<1> QED
  BY <1>2, <1>3 DEF Stream

(* The client reads on. *)
LEMMA ReadsOnRoute ==
  ASSUME RouteInv, Reads PROVE Route'
<1> DEFINE q == toClient
           r == fromClient
           has == clientHas
           b == r \o Answer(Head(q))
           new == Having(has, Head(q))
           at == IF Head(q).kind = "sync" THEN Head(q).to ELSE clientAt
<1>1. /\ Flow /\ Mirrored /\ Reached /\ Landing /\ Confirming
      /\ toClient' = Tail(q) /\ fromClient' = b /\ clientHas' = new /\ clientAt' = at
      /\ UNCHANGED <<phase, teleport, stage, outcome, removing, pos, dim, nextId, pendingId,
                     loaded, backlog>>
  BY DEF RouteInv, Route, Reads, teleVars, playerVars, streamVars
<1>2. /\ q \in Seq(Packets) /\ q # <<>> /\ r \in Seq(Reports) /\ nextId \in Nat
      /\ Numbered(q, r, nextId) /\ Gated(q, has)
  BY DEF RouteInv, Route, Flow, Reads
<1>3. at \in Places
  <2>1. Head(q) \in Packets
    BY <1>2
  <2> QED
    BY <1>1, <2>1 DEF Flow, Packets
<1> HIDE DEF q, r, has
<1>4. b \in Seq(Reports) /\ Numbered(Tail(q), b, nextId)
  BY <1>2, ReadNumbered
<1>5. Gated(Tail(q), new)
  BY <1>2, ReadGated, TeleportAssumption
<1>6. Tail(q) \in Seq(Packets)
  BY <1>2
<1>7. Mirrored'
  <2> SUFFICES ASSUME NEW c \in loaded
               PROVE  Will(new, Tail(q), Len(Tail(q)), c, dim)
    BY <1>1 DEF Mirrored
  <2>1. Will(has, q, Len(q), c, dim) /\ c \in Chunks /\ dim # NoDim
    BY <1>1, TeleportAssumption DEF Mirrored, has, q, Flow, TeleportAssumption
  <2> QED
    BY <1>2, <2>1, ReadMirrors
<1>8. Landing'
  <2> DEFINE to == teleport.to
  <2> SUFFICES ASSUME teleport # NoTeleport, stage = "sync"
               PROVE  \/ OnItsWay(Tail(q), b, pendingId, to)
                      \/ Landed(Tail(q), at, new, to)
    BY <1>1 DEF Landing
  <2>1. to \in Places
    BY DEF RouteInv, Held, IInv, Teleports
  <2>2. OnItsWay(q, r, pendingId, to) \/ Landed(q, clientAt, has, to)
    BY <1>1 DEF Landing, q, r, has
  <2> HIDE DEF to
  <2>3. CASE OnItsWay(q, r, pendingId, to)
    <3> HIDE DEF at
    <3>1. at = (IF Head(q).kind = "sync" THEN Head(q).to ELSE clientAt)
      BY DEF at
    <3> QED
      BY <1>2, <2>1, <2>3, <3>1, ReadLands, TeleportAssumption
  <2>4. CASE Landed(q, clientAt, has, to)
    <3>1. Head(q).kind # "sync" /\ Landed(Tail(q), clientAt, new, to)
      BY <1>2, <2>1, <2>4, ReadStays, TeleportAssumption
    <3> QED
      BY <3>1
  <2> QED
    BY <2>2, <2>3, <2>4
<1> HIDE DEF b, new, at
<1>9. Flow'
  BY <1>1, <1>3, <1>4, <1>5, <1>6 DEF Flow
<1> QED
  BY <1>1, <1>7, <1>8, <1>9 DEF Route, Reached, Confirming

LEMMA MovesOnRoute ==
  ASSUME RouteInv, Moves PROVE Route'
<1> DEFINE b == Append(fromClient, [kind |-> "move", at |-> clientAt])
<1>1. /\ Flow /\ Mirrored /\ Reached /\ Landing /\ Confirming
      /\ fromClient' = b
      /\ UNCHANGED <<phase, teleport, stage, outcome, removing, pos, dim, nextId, pendingId,
                     loaded, backlog, toClient, clientAt, clientHas>>
  BY DEF RouteInv, Route, Moves, teleVars, playerVars, streamVars, clientVars
<1>2. /\ b \in Seq(Reports) /\ Numbered(toClient, b, nextId)
      /\ \A id, to : OnItsWay(toClient, fromClient, id, to) => OnItsWay(toClient, b, id, to)
  BY <1>1, MoreMoves DEF Flow
<1> HIDE DEF b
<1> QED
  BY <1>1, <1>2 DEF Route, Flow, Mirrored, Reached, Landing, Confirming

(* Every step of the server, of the callers and of the client keeps to the  *)
(* route.                                                                   *)
LEMMA KeepsRoute == ASSUME ~WithTp PROVE RouteInv /\ [Next]_vars => RouteInv'
<1> SUFFICES ASSUME RouteInv, [Next]_vars PROVE Route'
  BY HeldKept DEF RouteInv
<1> USE DEF RouteInv
<1>1. CASE UNCHANGED vars
  BY <1>1, SameRoute DEF vars, teleVars, playerVars, streamVars, clientVars
<1>2. CASE Receive
  BY <1>2, ReceiveOnRoute
<1>3. CASE EndPackets
  BY <1>3, SameRoute
     DEF EndPackets, teleVars, playerVars, streamVars, clientVars, Route, Confirming
<1>4. CASE Advance
  BY <1>4, AdvanceOnRoute
<1>5. CASE ApplyDeferred
  <2>1. CASE removing /\ teleport # NoTeleport
    BY <1>5, <2>1, EndOnRoute DEF ApplyDeferred
  <2>2. CASE ~(removing /\ teleport # NoTeleport)
    <3>1. /\ outcome # "confirmed"
          /\ UNCHANGED <<teleport, stage, outcome, pos, dim, nextId, pendingId,
                         loaded, backlog, toClient, fromClient, clientAt, clientHas>>
      BY <1>5, <2>2 DEF ApplyDeferred, playerVars, streamVars, clientVars, Route, Confirming
    <3> QED
      BY <3>1 DEF Route, Flow, Mirrored, Reached, Landing, Confirming
  <2> QED
    BY <2>1, <2>2
<1>6. CASE Stream
  BY <1>6, StreamOnRoute
<1>7. ASSUME NEW t \in Teleports, Insert(t) PROVE Route'
  BY <1>7, InsertOnRoute
<1>8. CASE Cancel
  BY <1>8, EndOnRoute DEF Cancel
<1>9. ASSUME NEW p \in Places, Tp(p) PROVE Route'
  BY <1>9, WithTp = FALSE DEF Tp
<1>10. CASE Reads
  BY <1>10, ReadsOnRoute
<1>11. CASE Moves
  BY <1>11, MovesOnRoute
<1> QED
  BY <1>1, <1>2, <1>3, <1>4, <1>5, <1>6, <1>7, <1>8, <1>9, <1>10, <1>11
     DEF Next, Server, MovePlayer

LEMMA OnRoute == ASSUME ~WithTp PROVE Spec => []RouteInv
<1>1. Init => RouteInv
  BY InitHeld, InitOnRoute DEF RouteInv
<1>2. RouteInv /\ [Next]_vars => RouteInv'
  BY KeepsRoute
<1> QED
  BY <1>1, <1>2, PTL DEF Spec

(* Whoever reads the sync of a teleport that streamed its destination has   *)
(* every chunk around it, whatever was cancelled, replaced or answered late *)
(* (fence_acknowledged, stream_chunks).                                     *)
THEOREM SyncLands == ASSUME ~WithTp PROVE Spec => SyncLandsLoaded
<1> DEFINE Lands == Reads /\ Head(toClient).kind = "sync" /\ Head(toClient).fenced =>
                      \A c \in Near[Head(toClient).to] : clientHas[c] # NoDim
<1>1. RouteInv => Lands
  <2> SUFFICES ASSUME RouteInv, Reads, Head(toClient).kind = "sync", Head(toClient).fenced,
                      NEW c \in Near[Head(toClient).to]
               PROVE  clientHas[c] # NoDim
    OBVIOUS
  <2>1. toClient \in Seq(Packets) /\ toClient # <<>> /\ Gated(toClient, clientHas)
    BY DEF RouteInv, Route, Flow, Reads
  <2>2. 1 \in 1..Len(toClient) /\ toClient[1] = Head(toClient) /\ toClient[1] \in Packets
    BY <2>1
  <2>3. toClient[1].to \in Places
    BY <2>2 DEF Packets
  <2>4. Will(clientHas, toClient, 1 - 1, c, Dim[toClient[1].to])
    BY <2>1, <2>2 DEF Gated
  <2>5. clientHas[c] = Dim[toClient[1].to]
    BY <2>4 DEF Will
  <2> QED
    BY <2>3, <2>5, TeleportAssumption DEF TeleportAssumption
<1>2. Spec => [][Lands]_vars
  BY <1>1, OnRoute, PTL DEF Spec
<1> QED
  BY <1>2 DEF SyncLandsLoaded

(* A cleared pending id is no sync's. *)
LEMMA NoneAwaited ==
  ASSUME NEW q \in Seq(Packets), NEW r, NEW id, id \notin Nat, NEW to
  PROVE  ~OnItsWay(q, r, id, to)
<1>1. \A i \in 1..Len(q) : q[i] \in Packets
  OBVIOUS
<1>2. SyncPacket(id, to, TRUE) \notin Packets
  BY DEF SyncPacket, Packets
<1> QED
  BY <1>1, <1>2 DEF OnItsWay

(* "Confirmed" is the truth: the client stands at the destination, with     *)
(* every chunk around it (advance_teleports, end_teleport).                 *)
THEOREM ConfirmedLands == ASSUME ~WithTp PROVE Spec => ConfirmedThere
<1> DEFINE There == event' # event /\ event'[1] = "confirmed" =>
                      /\ clientAt = event'[2]
                      /\ \A c \in Near[event'[2]] : clientHas[c] = Dim[event'[2]]
<1>1. RouteInv /\ [Next]_vars => There
  <2> SUFFICES ASSUME RouteInv, [Next]_vars, event' # event, event'[1] = "confirmed"
               PROVE  /\ clientAt = event'[2]
                      /\ \A c \in Near[event'[2]] : clientHas[c] = Dim[event'[2]]
    OBVIOUS
  <2>1. End
    BY DEF Next, Server, MovePlayer, vars, logVars, Receive, EndPackets, Advance,
           ApplyDeferred, Stream, Insert, Tp, Cancel, Reads, Moves
  <2>2. event' = <<"confirmed", teleport.to>> /\ outcome = "confirmed"
    BY <2>1 DEF End
  <2>3. teleport # NoTeleport /\ stage = "sync" /\ pendingId = -1 /\ Landing
        /\ toClient \in Seq(Packets)
    BY <2>2 DEF RouteInv, Route, Confirming, Flow
  <2>4. ~OnItsWay(toClient, fromClient, -1, teleport.to)
    <3>1. -1 \notin Nat
      OBVIOUS
    <3> QED
      BY <2>3, <3>1, NoneAwaited
  <2>5. Landed(toClient, clientAt, clientHas, teleport.to)
    BY <2>3, <2>4 DEF Landing
  <2> QED
    BY <2>2, <2>5 DEF Landed
<1>2. Spec => [][There]_vars
  BY <1>1, OnRoute, PTL DEF Spec
<1> QED
  BY <1>2 DEF ConfirmedThere
=============================================================================
