--------------------------- MODULE ContainersProofs ---------------------------
(***************************************************************************)
(* Menus: for any windows, clicks, offers and sizes each menu that was      *)
(* announced is reported closed once, a click is answered for the menu it   *)
(* was made in, and no item is lost or made.                                *)
(*                                                                         *)
(* The first two are about the life of a menu, from its announcement over   *)
(* the packets that name it to its end; what clicks do to slots plays no    *)
(* part in them.  The third is about just that: each click keeps what the   *)
(* window it is applied to holds, each action balances what it takes from   *)
(* one place with what it puts in another.  Clicks fold over sequences of   *)
(* slots, so it rests on lemmas about sums and about such folds.            *)
(***************************************************************************)
EXTENDS Containers, FiniteSetTheorems, SequenceTheorems, WellFoundedInduction, TLAPS

IsList(s) == \E S : s \in Seq(S)
Indexes(s) == 1..Len(s)

(* Menus that the client has been told of *)
Announced(gen) ==
  (open.gen = gen /\ open.id # 0) \/ \E k \in Indexes(closed) : closed[k] = gen

-----------------------------------------------------------------------------
(* The inductive invariant *)

MenuTypes ==
  /\ done \in [clicks : Nat, edits : Nat, menus : Nat] /\ lastId \in Nat
  /\ {"gen", "id"} \subseteq DOMAIN open /\ open.id \in Nat
  /\ {"win", "gen"} \subseteq DOMAIN client
  /\ open.gen \in 0..done.menus /\ (open.id # 0 => open.gen # 0)
  /\ closed \in Seq(Nat) /\ IsList(down)

(* Menus are reported in turn, and not the one that is open. *)
Reported ==
  /\ \A k \in Indexes(closed) : closed[k] \in 1..done.menus /\ closed[k] # open.gen
  /\ \A j, k \in Indexes(closed) : closed[j] = closed[k] => j = k

(* The client shows, and is told of, announced menus only. *)
Told ==
  /\ client.gen # 0 => Announced(client.gen)
  /\ \A k \in Indexes(down) : down[k].type = "open" => Announced(down[k].gen)

MenuInv == MenuTypes /\ Reported /\ Told

-----------------------------------------------------------------------------
(* Lists *)

LEMMA Joined ==
  ASSUME NEW s, NEW t, IsList(s), IsList(t)
  PROVE  /\ IsList(s \o t) /\ Len(s) \in Nat /\ Len(t) \in Nat /\ Len(s \o t) = Len(s) + Len(t)
         /\ \A k \in Indexes(s) : k \in Indexes(s \o t) /\ (s \o t)[k] = s[k]
         /\ \A k \in Indexes(t) : Len(s) + k \in Indexes(s \o t) /\ (s \o t)[Len(s) + k] = t[k]
         /\ \A k \in Indexes(s \o t) : \/ k \in Indexes(s) /\ (s \o t)[k] = s[k]
                                       \/ k - Len(s) \in Indexes(t) /\ (s \o t)[k] = t[k - Len(s)]
<1>1. PICK S, T : s \in Seq(S) /\ t \in Seq(T)  BY DEF IsList
<1> DEFINE U == S \cup T
<1>2. s \in Seq(U) /\ t \in Seq(U)  BY <1>1
<1> HIDE DEF U
<1>3. s \o t \in Seq(U)  BY <1>2
<1> QED BY <1>2, <1>3 DEF IsList, Indexes

(* Entry k of s \o t is one of s, or one of t. *)
Half(k, all, s, t) ==
  \/ k \in Indexes(s) /\ all[k] = s[k]
  \/ k - Len(s) \in Indexes(t) /\ all[k] = t[k - Len(s)]

LEMMA Split ==
  ASSUME NEW s, NEW t, NEW all, IsList(s), IsList(t), all = s \o t, NEW k \in Indexes(all)
  PROVE  Half(k, all, s, t)
<1> DEFINE joined == s \o t
<1>1. \A j \in Indexes(joined) : Half(j, joined, s, t)  BY Joined DEF Half
<1>2. k \in Indexes(joined) /\ all = joined  OBVIOUS
<1> HIDE DEF joined
<1> QED BY <1>1, <1>2

LEMMA Single == ASSUME NEW m PROVE IsList(<<m>>) /\ Len(<<m>>) = 1 /\ <<m>>[1] = m
<1>1. <<m>> \in Seq({m})  OBVIOUS
<1> QED BY <1>1 DEF IsList

LEMMA Nothing == IsList(<<>>) /\ Indexes(<<>>) = {}
<1>1. <<>> \in Seq({})  OBVIOUS
<1> QED BY <1>1 DEF IsList, Indexes

LEMMA Rest ==
  ASSUME NEW s, IsList(s), s # <<>>
  PROVE  /\ IsList(Tail(s)) /\ 1 \in Indexes(s) /\ Head(s) = s[1]
         /\ \A k \in Indexes(Tail(s)) : k + 1 \in Indexes(s) /\ Tail(s)[k] = s[k + 1]
<1>1. PICK S : s \in Seq(S)  BY DEF IsList
<1>2. Tail(s) \in Seq(S)  BY <1>1
<1> QED BY <1>1, <1>2 DEF IsList, Indexes

(* Slot packets announce no menu. *)
LEMMA SlotsAnnounceNone ==
  ASSUME NEW id, NEW state, NEW slots, NEW window
  PROVE  /\ IsList(SlotPackets(id, state, slots, window))
         /\ \A k \in Indexes(SlotPackets(id, state, slots, window)) :
              SlotPackets(id, state, slots, window)[k].type = "slot"
<1> DEFINE mask == slots \cap 0..127
           n == Cardinality(mask)
           Slot(k) == CHOOSE s \in mask : Cardinality({t \in mask : t < s}) = k - 1
           Packet(k) == [type |-> "slot", id |-> id, state |-> NextState(state, k),
                         slot |-> Slot(k), stack |-> window[Slot(k)]]
           packets == [k \in 1..n |-> Packet(k)]
           S == {Packet(k) : k \in 1..n}
<1>1. n \in Nat
  <2>1. IsFiniteSet(0..127)
    <3>1. 0 \in Int /\ 127 \in Int  OBVIOUS
    <3> QED BY <3>1, FS_Interval, Zenon
  <2>2. IsFiniteSet(mask)  BY <2>1, FS_Subset
  <2> QED BY <2>2, FS_CardinalityType
<1>2. packets = SlotPackets(id, state, slots, window)  BY DEF SlotPackets
<1>3. \A k \in 1..n : Packet(k).type = "slot"  OBVIOUS
<1> HIDE DEF n, Packet
<1>4. packets \in Seq(S)  BY <1>1
<1>5. Len(packets) = n /\ \A k \in 1..n : packets[k] = Packet(k)  BY <1>1
<1> HIDE DEF packets, S
<1> QED BY <1>2, <1>3, <1>4, <1>5 DEF IsList, Indexes

LEMMA Associative ==
  ASSUME NEW s, NEW t, NEW u, IsList(s), IsList(t), IsList(u)
  PROVE  (s \o t) \o u = s \o (t \o u)
<1>1. PICK S, T, U : s \in Seq(S) /\ t \in Seq(T) /\ u \in Seq(U)  BY DEF IsList
<1> DEFINE V == S \cup T \cup U
<1>2. s \in Seq(V) /\ t \in Seq(V) /\ u \in Seq(V)  BY <1>1
<1> HIDE DEF V
<1> QED BY <1>2, ConcatAssociative

LEMMA CursorAnnouncesNone ==
  IsList(CursorPacket) /\ \A k \in Indexes(CursorPacket) : CursorPacket[k].type = "cursor"
<1> DEFINE m == [type |-> "cursor", cursor |-> inv.cursor]
<1>1. CursorPacket = <<m>> \/ CursorPacket = <<>>  BY DEF CursorPacket
<1>2. m.type = "cursor"  OBVIOUS
<1> HIDE DEF m
<1>3. IsList(<<m>>) /\ \A k \in Indexes(<<m>>) : <<m>>[k] = m
  <2>1. \A k \in 1..1 : k = 1  OBVIOUS
  <2> QED BY <2>1, Single DEF Indexes
<1> QED BY <1>1, <1>2, <1>3, Nothing

LEMMA PartsAnnounceNone ==
  ASSUME NEW s, NEW t, IsList(s), IsList(t),
         \A k \in Indexes(s) : s[k].type = "slot", \A k \in Indexes(t) : t[k].type = "cursor"
  PROVE  IsList(s \o t) /\ \A k \in Indexes(s \o t) : (s \o t)[k].type # "open"
<1> DEFINE all == s \o t
<1>1. IsList(all)  BY Joined
<1>2. ASSUME NEW k \in Indexes(all) PROVE all[k].type # "open"
  <2>1. all = s \o t  OBVIOUS
  <2> HIDE DEF all
  <2>2. Half(k, all, s, t)  BY <1>2, <2>1, Split, Zenon
  <2> QED BY <2>2 DEF Half
<1> QED BY <1>1, <1>2

-----------------------------------------------------------------------------
(***************************************************************************)
(* What may happen to menus in a step: the one that is open stays, or is    *)
(* announced; or it goes, is reported if it was announced, and another may  *)
(* take its place.                                                         *)
(***************************************************************************)
Stays ==
  /\ open'.gen = open.gen /\ (open.id # 0 => open'.id # 0) /\ (open.gen = 0 => open'.id = 0)
  /\ closed' = closed /\ done'.menus = done.menus

Goes ==
  /\ closed' = IF open.id = 0 THEN closed ELSE Append(closed, open.gen)
  /\ open'.id = 0
  /\ \/ open'.gen = 0 /\ done'.menus = done.menus
     \/ open'.gen = done.menus + 1 /\ done'.menus = done.menus + 1

Shapes ==
  /\ done \in [clicks : Nat, edits : Nat, menus : Nat] /\ lastId \in Nat
  /\ {"gen", "id"} \subseteq DOMAIN open /\ open.id \in Nat
  /\ {"win", "gen"} \subseteq DOMAIN client /\ IsList(down)

LEMMA MenusKeep ==
  ASSUME MenuInv, Shapes', Stays \/ Goes,
         client'.gen # 0 => Announced(client'.gen) \/ (client'.gen = open'.gen /\ open'.id # 0),
         \A k \in Indexes(down') : down'[k].type = "open" =>
           Announced(down'[k].gen) \/ (down'[k].gen = open'.gen /\ open'.id # 0)
  PROVE  MenuInv'
<1>1. MenuTypes /\ Reported /\ Told  BY DEF MenuInv
<1>2. /\ open.gen \in 0..done.menus /\ (open.id # 0 => open.gen # 0) /\ done.menus \in Nat
      /\ closed \in Seq(Nat)
  BY <1>1 DEF MenuTypes
<1>3. CASE Stays
  <2>1. MenuTypes'  BY <1>2, <1>3 DEF Stays, Shapes, MenuTypes
  <2>2. Reported'  BY <1>1, <1>3 DEF Stays, Reported
  <2>3. \A gen : Announced(gen) => Announced(gen)'  BY <1>3 DEF Stays, Announced
  <2>4. \A gen : gen = open'.gen /\ open'.id # 0 => Announced(gen)'  BY DEF Announced
  <2>5. Told'  BY <2>3, <2>4 DEF Told
  <2> QED BY <2>1, <2>2, <2>5 DEF MenuInv
<1>4. CASE Goes
  <2>1. closed' \in Seq(Nat) /\ \A k \in Indexes(closed) : k \in Indexes(closed') /\ closed'[k] = closed[k]
    BY <1>2, <1>4 DEF Goes, Indexes
  <2>2. /\ open.id # 0 => \E k \in Indexes(closed') : closed'[k] = open.gen
        /\ \A k \in Indexes(closed') : \/ k \in Indexes(closed) /\ closed'[k] = closed[k]
                                       \/ open.id # 0 /\ closed'[k] = open.gen /\ k = Len(closed) + 1
    BY <1>2, <1>4 DEF Goes, Indexes
  <2>3. MenuTypes'  BY <1>2, <1>4, <2>1 DEF Goes, Shapes, MenuTypes
  <2>4. Reported'
    <3>1. \A k \in Indexes(closed) : closed[k] \in 1..done.menus /\ closed[k] # open.gen
      BY <1>1 DEF Reported
    <3>2. done'.menus \in Nat /\ done'.menus >= done.menus /\ (open'.gen = 0 \/ open'.gen > done.menus)
      BY <1>2, <1>4 DEF Goes
    <3>3. ASSUME NEW k \in Indexes(closed') PROVE closed'[k] \in 1..done'.menus /\ closed'[k] # open'.gen
      BY <1>2, <2>2, <3>1, <3>2
    <3>4. ASSUME NEW j \in Indexes(closed'), NEW k \in Indexes(closed'), closed'[j] = closed'[k]
          PROVE  j = k
      <4>1. (j \in Indexes(closed) /\ k \in Indexes(closed)) => j = k
        BY <1>1, <2>2, <3>4, <1>2 DEF Reported, Indexes
      <4> QED BY <2>2, <3>1, <3>4, <4>1
    <3> QED BY <3>3, <3>4 DEF Reported
  <2>5. \A gen : Announced(gen) => Announced(gen)'  BY <2>1, <2>2 DEF Announced
  <2>6. Told'  BY <1>4, <2>5 DEF Told, Goes
  <2> QED BY <2>3, <2>4, <2>6 DEF MenuInv
<1> QED BY <1>3, <1>4

LEMMA TellsKeep ==
  ASSUME MenuInv, Shapes', Stays \/ Goes, client'.gen = client.gen,
         NEW more, down' = down \o more, IsList(more),
         \A k \in Indexes(more) : more[k].type = "open" => more[k].gen = open'.gen /\ open'.id # 0
  PROVE  MenuInv'
<1>1. Told /\ IsList(down)  BY DEF MenuInv, MenuTypes
<1>2. \A k \in Indexes(down') : down'[k].type = "open" =>
        Announced(down'[k].gen) \/ (down'[k].gen = open'.gen /\ open'.id # 0)
  <2> SUFFICES ASSUME NEW k \in Indexes(down'), down'[k].type = "open"
               PROVE  Announced(down'[k].gen) \/ (down'[k].gen = open'.gen /\ open'.id # 0)
    OBVIOUS
  <2>1. Half(k, down', down, more)  BY <1>1, Split, Zenon
  <2> QED BY <1>1, <2>1 DEF Told, Half
<1>3. client'.gen # 0 => Announced(client'.gen)  BY <1>1 DEF Told
<1> QED BY <1>2, <1>3, MenusKeep

LEMMA QuietKeeps ==
  ASSUME MenuInv, Shapes', Stays \/ Goes, client'.gen = client.gen, down' = down
  PROVE  MenuInv'
<1>1. Told  BY DEF MenuInv
<1>2. client'.gen # 0 => Announced(client'.gen)  BY <1>1 DEF Told
<1>3. \A k \in Indexes(down') : down'[k].type = "open" => Announced(down'[k].gen)
  BY <1>1 DEF Told
<1> QED BY <1>2, <1>3, MenusKeep

LEMMA MenuShapes ==
  ASSUME MenuInv
  PROVE  /\ done \in [clicks : Nat, edits : Nat, menus : Nat] /\ lastId \in Nat
         /\ {"gen", "id"} \subseteq DOMAIN open /\ {"win", "gen"} \subseteq DOMAIN client
         /\ IsList(down) /\ open.id \in Nat
         /\ open.gen \in Nat /\ (open.id # 0 => open.gen # 0)
BY DEF MenuInv, MenuTypes

LEMMA MenusStart == ASSUME Init PROVE MenuInv
<1>1. /\ open.gen = 0 /\ open.id = 0 /\ {"gen", "id"} \subseteq DOMAIN open
  BY DEF Init, Closed
<1>2. /\ client.gen = 0 /\ {"win", "gen"} \subseteq DOMAIN client  BY DEF Init
<1>3. done \in [clicks : Nat, edits : Nat, menus : Nat] /\ done.menus = 0 /\ lastId \in Nat
  BY DEF Init
<1>4. closed = <<>> /\ closed \in Seq(Nat) /\ Indexes(closed) = {} /\ Indexes(down) = {} /\ IsList(down)
  <2>1. <<>> \in Seq(Nat)  OBVIOUS
  <2> QED BY <2>1, Nothing DEF Init
<1>5. MenuTypes  BY <1>1, <1>2, <1>3, <1>4 DEF MenuTypes
<1> QED BY <1>2, <1>4, <1>5 DEF MenuInv, Reported, Told

-----------------------------------------------------------------------------
(* The client *)

LEMMA ClickSent == ASSUME MenuInv, NEW click, ClientClicks(click) PROVE MenuInv'
<1>1. /\ client'.gen = client.gen /\ DOMAIN client' = DOMAIN client
      /\ done' = [done EXCEPT !.clicks = @ + 1] /\ UNCHANGED <<open, closed, lastId, down>>
  BY MenuShapes DEF ClientClicks
<1>2. done' \in [clicks : Nat, edits : Nat, menus : Nat] /\ done'.menus = done.menus
  BY <1>1, MenuShapes
<1> QED BY <1>1, <1>2, MenuShapes, QuietKeeps DEF Shapes, Stays

LEMMA CloseSent == ASSUME MenuInv, ClientCloses PROVE MenuInv'
<1>1. /\ client'.gen = 0 /\ DOMAIN client' = DOMAIN client
      /\ UNCHANGED <<open, closed, lastId, down, done>>
  BY MenuShapes DEF ClientCloses
<1>2. \A k \in Indexes(down') : down'[k].type = "open" => Announced(down'[k].gen)
  BY <1>1 DEF MenuInv, Told
<1> QED BY <1>1, <1>2, MenuShapes, MenusKeep DEF Shapes, Stays

(* A client shows the menu that the packet it reads announces, none, or the *)
(* one it showed.                                                           *)
LEMMA ReadShows ==
  ASSUME {"win", "gen"} \subseteq DOMAIN client, ClientReads
  PROVE  /\ DOMAIN client' = DOMAIN client
         /\ \/ Head(down).type = "open" /\ client'.win = Head(down).id /\ client'.gen = Head(down).gen
            \/ client'.win = 0 /\ client'.gen = 0
            \/ client'.win = client.win /\ client'.gen = client.gen
<1> DEFINE m == Head(down)
           shown == client.win # 0 /\ client.win = m.id
           Screen(id, gen, menu) ==
             [client EXCEPT !.win = id, !.gen = gen, !.menu = menu, !.cursor = Empty,
                            !.drag = NoDrag, !.state.menu = 0]
           FromMenu(slots) == [i \in DOMAIN client.inv |->
                                 IF i \in Visible THEN slots[i - Gear + MenuSize] ELSE client.inv[i]]
<1>1. CASE m.type = "open"
  <2>1. client' = Screen(m.id, m.gen, [s \in 0..MenuSize - 1 |-> Empty])
    BY <1>1, Zenon DEF ClientReads
  <2> QED BY <1>1, <2>1
<1>2. CASE m.type = "close"
  <2>1. client' = Screen(0, 0, <<>>)  BY <1>2, Zenon DEF ClientReads
  <2> QED BY <2>1
<1>3. CASE m.type = "content" /\ m.id = 0
  <2>1. client' = [client EXCEPT !.inv = m.slots, !.state.inventory = m.state,
                                 !.cursor = IF client.win = 0 THEN m.cursor ELSE @]
    BY <1>3, Zenon DEF ClientReads
  <2> QED BY <2>1
<1>4. CASE m.type = "content" /\ m.id # 0 /\ shown
  <2>1. client' = [client EXCEPT !.menu = [s \in DOMAIN @ |-> m.slots[s]], !.inv = FromMenu(m.slots),
                                 !.state.menu = m.state, !.cursor = m.cursor]
    BY <1>4, Zenon DEF ClientReads
  <2> HIDE DEF FromMenu
  <2> QED BY <2>1
<1>5. CASE m.type = "slot" /\ m.id = 0
  <2>1. client' = [client EXCEPT !.inv[m.slot] = m.stack, !.state.inventory = m.state]
    BY <1>5, Zenon DEF ClientReads
  <2> QED BY <2>1
<1>6. CASE m.type = "slot" /\ m.id # 0 /\ shown
  <2>1. client' = IF m.slot < MenuSize
                  THEN [client EXCEPT !.menu[m.slot] = m.stack, !.state.menu = m.state]
                  ELSE [client EXCEPT !.inv[InInventory(m.slot)] = m.stack, !.state.menu = m.state]
    BY <1>6, Zenon DEF ClientReads
  <2> QED BY <2>1
<1>7. CASE m.type = "cursor"
  <2>1. client' = [client EXCEPT !.cursor = m.cursor]  BY <1>7, Zenon DEF ClientReads
  <2> QED BY <2>1
<1>8. CASE /\ m.type \notin {"open", "close", "cursor"}
           /\ ~(m.type = "content" /\ m.id = 0) /\ ~(m.type = "content" /\ shown)
           /\ ~(m.type = "slot" /\ m.id = 0) /\ ~(m.type = "slot" /\ shown)
  <2>1. client' = client  BY <1>8, Zenon DEF ClientReads
  <2> QED BY <2>1
<1> QED BY <1>1, <1>2, <1>3, <1>4, <1>5, <1>6, <1>7, <1>8

LEMMA WordRead == ASSUME MenuInv, ClientReads PROVE MenuInv'
<1>1. Told /\ IsList(down) /\ {"win", "gen"} \subseteq DOMAIN client  BY DEF MenuInv, MenuTypes
<1>2. down # <<>> /\ down' = Tail(down) /\ UNCHANGED <<open, closed, lastId, done>>  BY DEF ClientReads
<1>3. /\ IsList(Tail(down)) /\ 1 \in Indexes(down) /\ Head(down) = down[1]
      /\ \A k \in Indexes(Tail(down)) : k + 1 \in Indexes(down) /\ Tail(down)[k] = down[k + 1]
  BY <1>1, <1>2, Rest
<1>4. \A k \in Indexes(down') : down'[k].type = "open" => Announced(down'[k].gen)
  BY <1>1, <1>2, <1>3 DEF Told
<1>5. DOMAIN client' = DOMAIN client /\ (client'.gen # 0 => Announced(client'.gen))
  BY <1>1, <1>3, ReadShows DEF Told
<1>6. Shapes' /\ Stays  BY <1>1, <1>2, <1>3, <1>5, MenuShapes DEF Shapes, Stays
<1> QED BY <1>4, <1>5, <1>6, MenusKeep

-----------------------------------------------------------------------------
(* The server *)

(* on_menu_removed: a menu that was announced is reported, and what the client *)
(* is told names none.                                                         *)
LEMMA GoneSays ==
  ASSUME NEW reason
  PROVE  /\ Gone(reason).closed = IF open.id = 0 THEN closed ELSE Append(closed, open.gen)
         /\ IsList(Gone(reason).told)
         /\ \A k \in Indexes(Gone(reason).told) : Gone(reason).told[k].type = "close"
<1> DEFINE m == [type |-> "close", id |-> open.id]
<1>1. Gone(reason).closed = IF open.id = 0 THEN closed ELSE Append(closed, open.gen)
  BY DEF Gone
<1>2. Gone(reason).told = <<>> \/ Gone(reason).told = <<m>>  BY DEF Gone
<1>3. m.type = "close"  OBVIOUS
<1> HIDE DEF m
<1>4. IsList(<<m>>) /\ \A k \in Indexes(<<m>>) : <<m>>[k] = m
  <2>1. \A k \in 1..1 : k = 1  OBVIOUS
  <2> QED BY <2>1, Single DEF Indexes
<1> QED BY <1>1, <1>2, <1>3, <1>4, Nothing

LEMMA RemovalKeeps ==
  ASSUME MenuInv, NEW reason, Removal(reason), open' = Closed,
         UNCHANGED <<lastId, client, done>>
  PROVE  MenuInv'
<1>1. closed' = Gone(reason).closed /\ down' = down \o Gone(reason).told  BY DEF Removal
<1>2. open'.gen = 0 /\ open'.id = 0 /\ DOMAIN open' = {"gen", "id"}  BY DEF Closed
<1>3. Goes  BY <1>1, <1>2, GoneSays DEF Goes
<1>4. IsList(down')  BY <1>1, GoneSays, MenuShapes, Joined
<1>5. Shapes'  BY <1>2, <1>4, MenuShapes DEF Shapes
<1> QED BY <1>1, <1>3, <1>5, GoneSays, TellsKeep

LEMMA ReceiveKeeps ==
  ASSUME MenuInv, InventoryClick \/ MenuClick \/ IgnoreClick \/ ReceiveClose
  PROVE  MenuInv'
<1>1. CASE InventoryClick \/ IgnoreClick
  <2>1. UNCHANGED <<open, closed, lastId, down, done, client>>
    BY <1>1 DEF InventoryClick, IgnoreClick
  <2> QED BY <2>1, MenuShapes, QuietKeeps DEF Shapes, Stays
<1>2. CASE MenuClick
  <2>1. /\ UNCHANGED <<closed, lastId, down, done, client>>
        /\ open'.gen = open.gen /\ open'.id = open.id /\ DOMAIN open' = DOMAIN open
    <3> DEFINE after == IF open.editable THEN AppliedToMenu(Head(up).click) ELSE Restored(Head(up).changed)
    <3>1. /\ UNCHANGED <<closed, lastId, down, done, client>>
          /\ open' = [after.open EXCEPT !.full = @ \/ Head(up).state # open.state]
      BY <1>2 DEF MenuClick
    <3>2. after.open.gen = open.gen /\ after.open.id = open.id /\ DOMAIN after.open = DOMAIN open
      BY MenuShapes DEF AppliedToMenu, Restored
    <3> HIDE DEF after
    <3> QED BY <3>1, <3>2, MenuShapes
  <2> QED BY <2>1, MenuShapes, QuietKeeps DEF Shapes, Stays
<1>3. CASE ReceiveClose
  <2>1. CASE IsOpen /\ open.id = Head(up).id
    BY <1>3, <2>1, RemovalKeeps DEF ReceiveClose
  <2>2. CASE ~(IsOpen /\ open.id = Head(up).id)
    <3>1. UNCHANGED <<open, closed, lastId, down, done, client>>  BY <1>3, <2>2 DEF ReceiveClose
    <3> QED BY <3>1, MenuShapes, QuietKeeps DEF Shapes, Stays
  <2> QED BY <2>1, <2>2
<1> QED BY <1>1, <1>2, <1>3

LEMMA QuitKeeps == ASSUME MenuInv, Quit PROVE MenuInv'
BY RemovalKeeps DEF Quit

LEMMA OpenKeeps ==
  ASSUME MenuInv, NEW slots, NEW editable, OpenIt(slots, editable), UNCHANGED <<lastId, client>>
  PROVE  MenuInv'
<1>1. done' = [done EXCEPT !.menus = @ + 1] /\ open' = NewMenu(slots, editable)  BY DEF OpenIt
<1>2. /\ done' \in [clicks : Nat, edits : Nat, menus : Nat] /\ done'.menus = done.menus + 1
      /\ open'.gen = done.menus + 1 /\ open'.id = 0 /\ {"gen", "id"} \subseteq DOMAIN open'
  BY <1>1, MenuShapes DEF NewMenu
<1>3. CASE IsOpen
  <2>1. closed' = Gone("replaced").closed /\ down' = down \o Gone("replaced").told
    BY <1>3 DEF OpenIt
  <2>2. Goes  BY <1>2, <2>1, GoneSays DEF Goes
  <2>3. IsList(down')  BY <2>1, GoneSays, MenuShapes, Joined
  <2>4. Shapes'  BY <1>2, <2>3, MenuShapes DEF Shapes
  <2> QED BY <2>1, <2>2, <2>4, GoneSays, TellsKeep
<1>4. CASE ~IsOpen
  <2>1. closed' = closed /\ down' = down  BY <1>4 DEF OpenIt
  <2>2. open.id = 0  BY <1>4, MenuShapes DEF IsOpen
  <2>3. Goes  BY <1>2, <2>1, <2>2 DEF Goes
  <2>4. Shapes'  BY <1>2, <2>1, MenuShapes DEF Shapes
  <2> QED BY <2>1, <2>3, <2>4, QuietKeeps
<1> QED BY <1>3, <1>4

LEMMA CloseKeeps == ASSUME MenuInv, CloseIt, UNCHANGED <<lastId, client>> PROVE MenuInv'
BY RemovalKeeps DEF CloseIt

LEMMA GameKeeps ==
  ASSUME MenuInv,
         \/ GameOpens \/ GameCloses \/ DrainClick \/ EndAnswer \/ EndIngest
         \/ \E i \in 0..Size - 1 : TakeStack(i)
         \/ \E s \in 0..MenuSize - 1 : \E stack \in {Empty} \cup {o[s] : o \in Offers} : EditMenu(s, stack)
         \/ \E x \in Items : PickupItems(x)
  PROVE  MenuInv'
<1>1. CASE GameOpens  BY <1>1, OpenKeeps DEF GameOpens
<1>2. CASE GameCloses  BY <1>2, CloseKeeps DEF GameCloses
<1>3. CASE DrainClick \/ EndAnswer
  <2>1. UNCHANGED <<open, closed, lastId, down, done, client>>  BY <1>3 DEF DrainClick, EndAnswer
  <2> QED BY <2>1, MenuShapes, QuietKeeps DEF Shapes, Stays
<1>4. CASE EndIngest \/ \E x \in Items : PickupItems(x)
  <2>1. UNCHANGED <<open, closed, lastId, down, done, client>>  BY <1>4 DEF EndIngest, PickupItems
  <2> QED BY <2>1, MenuShapes, QuietKeeps DEF Shapes, Stays
<1>5. CASE (\E i \in 0..Size - 1 : TakeStack(i))
           \/ \E s \in 0..MenuSize - 1 : \E stack \in {Empty} \cup {o[s] : o \in Offers} : EditMenu(s, stack)
  <2>1. done' = [done EXCEPT !.edits = @ + 1] /\ UNCHANGED <<closed, lastId, down, client>>
    BY <1>5 DEF TakeStack, EditMenu, Edits
  <2>2. done' \in [clicks : Nat, edits : Nat, menus : Nat] /\ done'.menus = done.menus
    BY <2>1, MenuShapes
  <2>3. open'.gen = open.gen /\ open'.id = open.id /\ DOMAIN open' = DOMAIN open
    BY <1>5, MenuShapes DEF TakeStack, EditMenu
  <2> QED BY <2>1, <2>2, <2>3, MenuShapes, QuietKeeps DEF Shapes, Stays
<1> QED BY <1>1, <1>2, <1>3, <1>4, <1>5

(* sync_containers: a menu that is open has an id then, a new one the next. *)
LEMMA SyncNames ==
  ASSUME MaxId \in Nat \ {0}, MenuInv, Sync
  PROVE  /\ open'.gen = open.gen /\ DOMAIN open' = DOMAIN open
         /\ UNCHANGED <<closed, client, done, up, clicks>>
         /\ IF IsOpen THEN /\ open'.id = IF open.id = 0 THEN NextContainerId ELSE open.id
                           /\ open'.id \in Nat \ {0} /\ lastId' = open'.id
            ELSE UNCHANGED <<open, lastId>>
<1>1. UNCHANGED <<closed, client, done, up, clicks>>  BY DEF Sync
<1>2. CASE IsOpen
  <2> DEFINE new == open.id = 0
             id == IF new THEN NextContainerId ELSE open.id
             marked == open.marked \cup {i - Gear + MenuSize : i \in inv.dirty.slots \cap Visible}
             whole == new \/ open.title \/ open.full \/ inv.dirty.full
  <2>1. /\ open' = [open EXCEPT !.id = id, !.full = FALSE, !.title = FALSE, !.marked = {},
                      !.state = NextState(@, IF whole THEN 1 ELSE Cardinality(marked))]
        /\ lastId' = id
    BY <1>2 DEF Sync, SyncMenu
  <2>2. id \in Nat \ {0}  BY MenuShapes DEF NextContainerId
  <2> HIDE DEF marked, whole, new
  <2>3. open'.id = id /\ open'.gen = open.gen /\ DOMAIN open' = DOMAIN open
    BY <2>1, MenuShapes
  <2> QED BY <1>1, <1>2, <2>1, <2>2, <2>3 DEF new
<1>3. CASE ~IsOpen
  <2>1. UNCHANGED <<open, lastId>>  BY <1>3 DEF Sync, SyncInventory
  <2> QED BY <1>1, <1>3, <2>1
<1> QED BY <1>2, <1>3

(* What is sent then announces the menu that is open. *)
LEMMA SyncTells ==
  ASSUME MaxId \in Nat \ {0}, MenuInv, Sync
  PROVE  \E more : /\ down' = down \o more /\ IsList(more)
                   /\ \A k \in Indexes(more) : more[k].type = "open" =>
                        IsOpen /\ more[k].gen = open.gen /\ more[k].id = open'.id
<1>1. CASE IsOpen
  <2> DEFINE new == open.id = 0
             id == IF new THEN NextContainerId ELSE open.id
             window == WindowOf(open.slots, inv.slots)
             first == [type |-> "open", id |-> id, gen |-> open.gen]
             screen == IF new \/ open.title THEN <<first>> ELSE <<>>
             marked == open.marked \cup {i - Gear + MenuSize : i \in inv.dirty.slots \cap Visible}
             whole == new \/ open.title \/ open.full \/ inv.dirty.full
             rest == IF whole THEN <<Content(id, open.state, window)>>
                     ELSE SlotPackets(id, open.state, marked, window) \o CursorPacket
  <2>1. down' = down \o screen \o rest  BY <1>1 DEF Sync, SyncMenu
  <2>2. open'.id = id  BY <1>1, SyncNames
  <2> HIDE DEF id, marked, whole
  <2>5. /\ IsList(screen)
        /\ \A k \in Indexes(screen) : screen[k].gen = open.gen /\ screen[k].id = id
    <3> HIDE DEF first
    <3>1. IsList(<<first>>) /\ \A k \in Indexes(<<first>>) : <<first>>[k] = first
      <4>1. \A k \in 1..1 : k = 1  OBVIOUS
      <4> QED BY <4>1, Single DEF Indexes
    <3>2. first.gen = open.gen /\ first.id = id  BY DEF first
    <3> QED BY <3>1, <3>2, Nothing
  <2> HIDE DEF screen
  <2>6. IsList(rest) /\ \A k \in Indexes(rest) : rest[k].type # "open"
    <3> DEFINE content == Content(id, open.state, window)
               slots == SlotPackets(id, open.state, marked, window)
    <3>1. CASE whole
      <4>1. rest = <<content>>  BY <3>1
      <4>2. content.type = "content"  BY DEF Content
      <4> HIDE DEF content
      <4>3. IsList(<<content>>) /\ \A k \in Indexes(<<content>>) : <<content>>[k] = content
        <5>1. \A k \in 1..1 : k = 1  OBVIOUS
        <5> QED BY <5>1, Single DEF Indexes
      <4> HIDE DEF rest
      <4> QED BY <4>1, <4>2, <4>3
    <3>2. CASE ~whole
      <4>1. rest = slots \o CursorPacket  BY <3>2
      <4>2. IsList(slots) /\ \A k \in Indexes(slots) : slots[k].type = "slot"
        BY SlotsAnnounceNone
      <4> HIDE DEF rest, slots
      <4> QED BY <4>1, <4>2, CursorAnnouncesNone, PartsAnnounceNone
    <3> QED BY <3>1, <3>2
  <2> HIDE DEF rest
  <2>7. IsList(screen \o rest)  BY <2>5, <2>6, Joined
  <2>8. down' = down \o (screen \o rest)
    <3>1. IsList(down) /\ IsList(screen) /\ IsList(rest)  BY <2>5, <2>6, MenuShapes
    <3>2. (down \o screen) \o rest = down \o (screen \o rest)  BY <3>1, Associative
    <3> QED BY <2>1, <3>2
  <2> DEFINE all == screen \o rest
  <2>9. ASSUME NEW k \in Indexes(all), all[k].type = "open"
        PROVE  all[k].gen = open.gen /\ all[k].id = id
    <3>1. all = screen \o rest  OBVIOUS
    <3> HIDE DEF all
    <3>2. Half(k, all, screen, rest)  BY <2>5, <2>6, <2>9, <3>1, Split, Zenon
    <3> QED BY <2>5, <2>6, <2>9, <3>2 DEF Half
  <2>10. down' = down \o all /\ IsList(all)  BY <2>7, <2>8
  <2> HIDE DEF all
  <2> QED BY <1>1, <2>2, <2>9, <2>10
<1>2. CASE ~IsOpen
  <2> DEFINE whole == inv.dirty.full \/ Cardinality(inv.dirty.slots) > Size \div 2
             content == Content(0, inv.state, inv.slots)
             slots == SlotPackets(0, inv.state, inv.dirty.slots, inv.slots)
             rest == IF whole THEN <<content>> ELSE slots \o CursorPacket
  <2>1. down' = down \o rest
    BY <1>2 DEF Sync, SyncInventory
  <2> HIDE DEF whole
  <2>2. IsList(rest) /\ \A k \in Indexes(rest) : rest[k].type # "open"
    <3>1. CASE whole
      <4>1. rest = <<content>>  BY <3>1
      <4>2. content.type = "content"  BY DEF Content
      <4> HIDE DEF content
      <4>3. IsList(<<content>>) /\ \A k \in Indexes(<<content>>) : <<content>>[k] = content
        <5>1. \A k \in 1..1 : k = 1  OBVIOUS
        <5> QED BY <5>1, Single DEF Indexes
      <4> HIDE DEF rest
      <4> QED BY <4>1, <4>2, <4>3
    <3>2. CASE ~whole
      <4>1. rest = slots \o CursorPacket  BY <3>2
      <4>2. IsList(slots) /\ \A k \in Indexes(slots) : slots[k].type = "slot"
        BY SlotsAnnounceNone
      <4> HIDE DEF rest, slots
      <4> QED BY <4>1, <4>2, CursorAnnouncesNone, PartsAnnounceNone
    <3> QED BY <3>1, <3>2
  <2> HIDE DEF rest
  <2> QED BY <2>1, <2>2
<1> QED BY <1>1, <1>2

LEMMA SyncKeeps == ASSUME MaxId \in Nat \ {0}, MenuInv, Sync PROVE MenuInv'
<1>1. PICK more : /\ down' = down \o more /\ IsList(more)
                  /\ \A k \in Indexes(more) : more[k].type = "open" =>
                       IsOpen /\ more[k].gen = open.gen /\ more[k].id = open'.id
  BY SyncTells
<1>2. IsList(down')  BY <1>1, MenuShapes, Joined
<1>3. Shapes' /\ Stays  BY <1>2, SyncNames, MenuShapes DEF Shapes, Stays, IsOpen
<1>4. \A k \in Indexes(more) : more[k].type = "open" => more[k].gen = open'.gen /\ open'.id # 0
  BY <1>1, SyncNames
<1> QED BY <1>1, <1>3, <1>4, SyncNames, TellsKeep

-----------------------------------------------------------------------------
LEMMA MenusStep == ASSUME MaxId \in Nat \ {0}, MenuInv, [Next]_vars PROVE MenuInv'
<1>1. CASE \E click \in Clicks : ClientClicks(click)  BY <1>1, ClickSent
<1>2. CASE ClientCloses  BY <1>2, CloseSent
<1>3. CASE ClientReads  BY <1>3, WordRead
<1>4. CASE InventoryClick \/ MenuClick \/ IgnoreClick \/ ReceiveClose  BY <1>4, ReceiveKeeps
<1>5. CASE Quit  BY <1>5, QuitKeeps
<1>6. CASE \/ GameOpens \/ GameCloses \/ DrainClick \/ EndAnswer \/ EndIngest
           \/ \E i \in 0..Size - 1 : TakeStack(i)
           \/ \E s \in 0..MenuSize - 1 :
                \E stack \in {Empty} \cup {o[s] : o \in Offers} : EditMenu(s, stack)
           \/ \E x \in Items : PickupItems(x)
  BY <1>6, GameKeeps
<1>7. CASE Sync  BY <1>7, SyncKeeps
<1>8. CASE UNCHANGED vars
  <2>1. UNCHANGED <<open, closed, lastId, down, done, client>>  BY <1>8 DEF vars
  <2> QED BY <2>1, MenuShapes, QuietKeeps DEF Shapes, Stays
<1> QED BY <1>1, <1>2, <1>3, <1>4, <1>5, <1>6, <1>7, <1>8 DEF Next, StepWith

(* on_menu_removed, sync_containers: every menu that was announced is       *)
(* reported closed once, in whatever way it went.                          *)
THEOREM MenusReported == ASSUME MaxId \in Nat \ {0} PROVE Spec => []ClosedOnce
<1>1. Init => MenuInv  BY MenusStart
<1>2. MenuInv /\ [Next]_vars => MenuInv'  BY MenusStep
<1>3. MenuInv => ClosedOnce
  <2> SUFFICES ASSUME MenuInv PROVE ClosedOnce
    OBVIOUS
  <2>1. DOMAIN closed = Indexes(closed)  BY DEF MenuInv, MenuTypes, Indexes
  <2>2. client.gen # 0 => client.gen = open.gen \/ client.gen \in {closed[k] : k \in DOMAIN closed}
    BY <2>1 DEF MenuInv, Told, Announced
  <2>3. \A j, k \in DOMAIN closed : closed[j] = closed[k] => j = k
    BY <2>1 DEF MenuInv, Reported
  <2> QED BY <2>2, <2>3 DEF ClosedOnce
<1> QED BY <1>1, <1>2, <1>3, PTL DEF Spec

-----------------------------------------------------------------------------
(***************************************************************************)
(* Clicks.  An id names one menu as long as the ids have not gone round,    *)
(* wherever the id is: on the server, at the client, in a packet either     *)
(* way, or in the queue.                                                    *)
(***************************************************************************)
InAnnouncement(id, gen) ==
  \E k \in Indexes(down) : down[k].type = "open" /\ down[k].id = id /\ down[k].gen = gen
InClick(id, gen) ==
  \E k \in Indexes(up) : up[k].type = "click" /\ up[k].id = id /\ up[k].gen = gen
InQueue(id, gen) == \E k \in Indexes(clicks) : clicks[k].id = id /\ clicks[k].gen = gen

Sighted(id, gen) ==
  /\ id # 0
  /\ \/ open.id = id /\ open.gen = gen
     \/ client.win = id /\ client.gen = gen
     \/ InAnnouncement(id, gen) \/ InClick(id, gen) \/ InQueue(id, gen)

Lists == IsList(up) /\ IsList(clicks) /\ \A k \in Indexes(clicks) : clicks[k].id # 0

(* As many ids were given as menus announced. *)
Counted ==
  /\ done.menus <= MaxMenus /\ lastId \in Nat /\ lastId <= done.menus
  /\ open.id # 0 => open.id = lastId
  /\ IsOpen /\ open.id = 0 => lastId < done.menus

Sights ==
  /\ \A id, gen : Sighted(id, gen) => id \in 1..lastId
  /\ \A id, g, h : Sighted(id, g) /\ Sighted(id, h) => g = h

SightInv == Lists /\ Counted /\ Sights

(* Nothing is sighted that was not, but a menu that is given the next id. *)
LEMMA SightsKeep ==
  ASSUME SightInv, Lists', Counted',
         \/ /\ lastId' = lastId
            /\ \A id, gen : Sighted(id, gen)' => Sighted(id, gen)
         \/ /\ lastId' = lastId + 1
            /\ \A id, gen : Sighted(id, gen)' =>
                 Sighted(id, gen) \/ (id = lastId + 1 /\ gen = open.gen)
  PROVE  SightInv'
<1>1. lastId \in Nat /\ Sights  BY DEF SightInv, Counted
<1>2. Sights'  BY <1>1 DEF Sights
<1> QED BY <1>2 DEF SightInv

LEMMA Appended ==
  ASSUME NEW s, NEW m, IsList(s)
  PROVE  /\ IsList(Append(s, m))
         /\ \A k \in Indexes(Append(s, m)) : \/ k \in Indexes(s) /\ Append(s, m)[k] = s[k]
                                            \/ Append(s, m)[k] = m
<1>1. PICK S : s \in Seq(S)  BY DEF IsList
<1> DEFINE U == S \cup {m}
<1>2. s \in Seq(U) /\ m \in U  BY <1>1
<1> HIDE DEF U
<1>3. Append(s, m) \in Seq(U)  BY <1>2
<1> QED BY <1>2, <1>3 DEF IsList, Indexes

(* What a step leaves alone, or takes the first of. *)
LEMMA AnnouncedBefore ==
  ASSUME MenuInv, down' = down \/ (down # <<>> /\ down' = Tail(down)), NEW id, NEW gen,
         InAnnouncement(id, gen)'
  PROVE  InAnnouncement(id, gen)
<1>1. down # <<>> => \A k \in Indexes(Tail(down)) : k + 1 \in Indexes(down) /\ Tail(down)[k] = down[k + 1]
  BY Rest, MenuShapes
<1> QED BY <1>1 DEF InAnnouncement

LEMMA ClickedBefore ==
  ASSUME IsList(up), up' = up \/ (up # <<>> /\ up' = Tail(up)), NEW id, NEW gen, InClick(id, gen)'
  PROVE  InClick(id, gen)
<1>1. up # <<>> => \A k \in Indexes(Tail(up)) : k + 1 \in Indexes(up) /\ Tail(up)[k] = up[k + 1]
  BY Rest
<1> QED BY <1>1 DEF InClick

LEMMA QueuedBefore ==
  ASSUME Lists, clicks' = clicks \/ (clicks # <<>> /\ clicks' = Tail(clicks))
  PROVE  /\ IsList(clicks') /\ \A k \in Indexes(clicks') : clicks'[k].id # 0
         /\ \A id, gen : InQueue(id, gen)' => InQueue(id, gen)
<1>1. clicks # <<>> => /\ IsList(Tail(clicks))
                       /\ \A k \in Indexes(Tail(clicks)) : k + 1 \in Indexes(clicks) /\ Tail(clicks)[k] = clicks[k + 1]
  BY Rest DEF Lists
<1>2. IsList(clicks') /\ \A k \in Indexes(clicks') : \E j \in Indexes(clicks) : clicks'[k] = clicks[j]
  BY <1>1 DEF Lists
<1> QED BY <1>2 DEF Lists, InQueue

LEMMA UpBefore ==
  ASSUME IsList(up), up' = up \/ (up # <<>> /\ up' = Tail(up))
  PROVE  IsList(up')
BY Rest

(* What is sent besides names no new menu. *)
LEMMA AnnouncedWith ==
  ASSUME MenuInv, NEW more, down' = down \o more, IsList(more), NEW id, NEW gen,
         InAnnouncement(id, gen)'
  PROVE  \/ InAnnouncement(id, gen)
         \/ \E k \in Indexes(more) : more[k].type = "open" /\ more[k].id = id /\ more[k].gen = gen
<1>1. PICK k \in Indexes(down') : down'[k].type = "open" /\ down'[k].id = id /\ down'[k].gen = gen
  BY DEF InAnnouncement
<1>2. Half(k, down', down, more)
  <2>1. IsList(down)  BY MenuShapes
  <2> QED BY <2>1, <1>1, Split, Zenon
<1> QED BY <1>1, <1>2 DEF Half, InAnnouncement

LEMMA GoneNames ==
  ASSUME MenuInv, NEW reason, down' = down \o Gone(reason).told, NEW id, NEW gen,
         InAnnouncement(id, gen)'
  PROVE  InAnnouncement(id, gen)
<1> DEFINE told == Gone(reason).told
<1>1. IsList(told) /\ \A k \in Indexes(told) : told[k].type = "close"  BY GoneSays
<1>2. down' = down \o told  OBVIOUS
<1> HIDE DEF told
<1>3. \/ InAnnouncement(id, gen)
      \/ \E k \in Indexes(told) : told[k].type = "open" /\ told[k].id = id /\ told[k].gen = gen
  BY <1>1, <1>2, AnnouncedWith
<1> QED BY <1>1, <1>3

(* Steps that leave the open menu's id, or close it, and name no new menu. *)
LEMMA QuietSights ==
  ASSUME MenuInv, SightInv, lastId' = lastId,
         done'.menus \in Nat, done'.menus <= MaxMenus, done'.menus >= done.menus,
         \/ open'.id = open.id /\ open'.gen = open.gen
         \/ open'.id = 0 /\ (open'.gen # 0 => done'.menus > done.menus),
         \/ client'.win = client.win /\ client'.gen = client.gen
         \/ client'.win = 0
         \/ InAnnouncement(client'.win, client'.gen),
         up' = up \/ (up # <<>> /\ up' = Tail(up)),
         clicks' = clicks \/ (clicks # <<>> /\ clicks' = Tail(clicks)),
         \A id, gen : InAnnouncement(id, gen)' => InAnnouncement(id, gen)
  PROVE  SightInv'
<1>1. Lists'  BY QueuedBefore, UpBefore DEF SightInv, Lists
<1>2. Counted'  BY MenuShapes DEF SightInv, Counted, IsOpen
<1>3. ASSUME NEW id, NEW gen, Sighted(id, gen)' PROVE Sighted(id, gen)
  <2>1. InClick(id, gen)' => InClick(id, gen)  BY ClickedBefore DEF SightInv, Lists
  <2>2. InQueue(id, gen)' => InQueue(id, gen)  BY QueuedBefore DEF SightInv
  <2> QED BY <1>3, <2>1, <2>2 DEF Sighted
<1> QED BY <1>1, <1>2, <1>3, SightsKeep

LEMMA SightsStart == ASSUME Init, MaxMenus \in Nat PROVE SightInv
<1>1. /\ open.gen = 0 /\ open.id = 0 /\ client.win = 0
      /\ done.menus = 0 /\ lastId = 0
  BY DEF Init, Closed
<1>2. up = <<>> /\ down = <<>> /\ clicks = <<>>  BY DEF Init
<1>3. Lists  BY <1>2, Nothing DEF Lists
<1>4. Counted  BY <1>1 DEF Counted, IsOpen
<1>5. \A id, gen : ~Sighted(id, gen)
  BY <1>1, <1>2, Nothing DEF Sighted, InAnnouncement, InClick, InQueue
<1>6. Sights  BY <1>5 DEF Sights
<1> QED BY <1>3, <1>4, <1>6 DEF SightInv

-----------------------------------------------------------------------------
LEMMA ClickSighted == ASSUME MenuInv, SightInv, NEW click, ClientClicks(click) PROVE SightInv'
<1> DEFINE menu == client.win # 0
           after == ApplyClick([slots |-> Shown, cursor |-> client.cursor, drag |-> client.drag],
                               IF menu THEN MenuLayout ELSE PlayerLayout, Creative, click)
           m == [type |-> "click", id |-> client.win, gen |-> client.gen,
                 state |-> IF menu THEN client.state.menu ELSE client.state.inventory,
                 click |-> click, changed |-> Differ(after.slots, Shown)]
<1>1. up' = Append(up, m)  BY Zenon DEF ClientClicks
<1>2. m.id = client.win /\ m.gen = client.gen  OBVIOUS
<1> HIDE DEF m
<1>3. /\ client'.win = client.win /\ client'.gen = client.gen
      /\ done' = [done EXCEPT !.clicks = @ + 1] /\ UNCHANGED <<open, lastId, clicks, down>>
  BY MenuShapes DEF ClientClicks
<1>4. done'.menus = done.menus  BY <1>3, MenuShapes
<1>5. IsList(up') /\ \A k \in Indexes(up') : (k \in Indexes(up) /\ up'[k] = up[k]) \/ up'[k] = m
  BY <1>1, Appended DEF SightInv, Lists
<1>6. Lists' /\ Counted'  BY <1>3, <1>4, <1>5 DEF SightInv, Lists, Counted, IsOpen
<1>7. ASSUME NEW id, NEW gen, Sighted(id, gen)' PROVE Sighted(id, gen)
  <2>1. InClick(id, gen)' => InClick(id, gen) \/ (id = client.win /\ gen = client.gen)
    BY <1>2, <1>5 DEF InClick
  <2> QED BY <1>3, <1>7, <2>1 DEF Sighted, InAnnouncement, InQueue
<1> QED BY <1>3, <1>6, <1>7, SightsKeep

LEMMA CloseSighted == ASSUME MenuInv, SightInv, ClientCloses PROVE SightInv'
<1> DEFINE m == [type |-> "close", id |-> client.win]
<1>1. up' = Append(up, m)  BY Zenon DEF ClientCloses
<1>2. m.type = "close"  OBVIOUS
<1> HIDE DEF m
<1>3. client'.win = 0 /\ UNCHANGED <<open, lastId, clicks, down, done>>
  BY MenuShapes DEF ClientCloses
<1>4. IsList(up') /\ \A k \in Indexes(up') : (k \in Indexes(up) /\ up'[k] = up[k]) \/ up'[k] = m
  BY <1>1, Appended DEF SightInv, Lists
<1>5. Lists' /\ Counted'  BY <1>3, <1>4 DEF SightInv, Lists, Counted, IsOpen
<1>6. ASSUME NEW id, NEW gen, Sighted(id, gen)' PROVE Sighted(id, gen)
  <2>1. InClick(id, gen)' => InClick(id, gen)  BY <1>2, <1>4 DEF InClick
  <2> QED BY <1>3, <1>6, <2>1 DEF Sighted, InAnnouncement, InQueue
<1> QED BY <1>3, <1>5, <1>6, SightsKeep

LEMMA ReadSighted == ASSUME MenuInv, SightInv, ClientReads PROVE SightInv'
<1>1. /\ down # <<>> /\ down' = Tail(down) /\ UNCHANGED <<open, lastId, clicks, up, done>>
      /\ {"win", "gen"} \subseteq DOMAIN client
  BY MenuShapes DEF ClientReads
<1>2. 1 \in Indexes(down) /\ Head(down) = down[1]  BY <1>1, Rest, MenuShapes
<1>3. \/ client'.win = client.win /\ client'.gen = client.gen
      \/ client'.win = 0
      \/ InAnnouncement(client'.win, client'.gen)
  BY <1>1, <1>2, ReadShows DEF InAnnouncement
<1>4. \A id, gen : InAnnouncement(id, gen)' => InAnnouncement(id, gen)  BY <1>1, AnnouncedBefore
<1>5. done'.menus = done.menus /\ done.menus \in Nat /\ done.menus <= MaxMenus
  BY <1>1, MenuShapes DEF SightInv, Counted
<1> QED BY <1>1, <1>3, <1>4, <1>5, QuietSights

(* on_menu_removed names no menu but the one that goes. *)
LEMMA RemovalSighted ==
  ASSUME MenuInv, SightInv, NEW reason, Removal(reason), open' = Closed,
         UNCHANGED <<lastId, client, done>>, up' = up \/ (up # <<>> /\ up' = Tail(up)),
         clicks' = clicks \/ (clicks # <<>> /\ clicks' = Tail(clicks))
  PROVE  SightInv'
<1>1. down' = down \o Gone(reason).told  BY DEF Removal
<1>2. open'.id = 0 /\ open'.gen = 0  BY DEF Closed
<1>3. \A id, gen : InAnnouncement(id, gen)' => InAnnouncement(id, gen)
  BY <1>1, GoneNames
<1>4. done'.menus = done.menus /\ done.menus \in Nat /\ done.menus <= MaxMenus
  BY MenuShapes DEF SightInv, Counted
<1> QED BY <1>2, <1>3, <1>4, QuietSights

LEMMA OpenSighted ==
  ASSUME MenuInv, SightInv, NEW slots, NEW editable, OpenIt(slots, editable),
         UNCHANGED <<lastId, client, up>>,
         clicks' = clicks \/ (clicks # <<>> /\ clicks' = Tail(clicks)), MaxMenus \in Nat
  PROVE  SightInv'
<1>1. /\ done' = [done EXCEPT !.menus = @ + 1] /\ open' = NewMenu(slots, editable)
      /\ done.menus < MaxMenus
  BY DEF OpenIt
<1>2. /\ done'.menus = done.menus + 1 /\ done'.menus \in Nat /\ done'.menus <= MaxMenus
      /\ open'.id = 0
  BY <1>1, MenuShapes DEF NewMenu
<1>3. \A id, gen : InAnnouncement(id, gen)' => InAnnouncement(id, gen)
  <2>1. CASE IsOpen
    <3>1. down' = down \o Gone("replaced").told  BY <2>1 DEF OpenIt
    <3> QED BY <3>1, GoneNames
  <2>2. CASE ~IsOpen
    <3>1. down' = down  BY <2>2 DEF OpenIt
    <3> QED BY <3>1, AnnouncedBefore
  <2> QED BY <2>1, <2>2
<1>4. done.menus \in Nat  BY MenuShapes
<1> QED BY <1>2, <1>3, <1>4, QuietSights

LEMMA ReceiveSighted ==
  ASSUME MenuInv, SightInv, InventoryClick \/ MenuClick \/ IgnoreClick \/ ReceiveClose
  PROVE  SightInv'
<1>1. done.menus \in Nat /\ done.menus <= MaxMenus  BY MenuShapes DEF SightInv, Counted
<1>2. CASE InventoryClick \/ IgnoreClick
  <2>1. UNCHANGED <<open, lastId, down, done, client, clicks>> /\ up # <<>> /\ up' = Tail(up)
    BY <1>2 DEF InventoryClick, IgnoreClick
  <2>2. \A id, gen : InAnnouncement(id, gen)' => InAnnouncement(id, gen)  BY <2>1, AnnouncedBefore
  <2> QED BY <1>1, <2>1, <2>2, QuietSights
<1>3. CASE MenuClick
  <2> DEFINE m == [id |-> Head(up).id, gen |-> Head(up).gen]
  <2>1. /\ UNCHANGED <<lastId, down, done, client>> /\ up # <<>> /\ up' = Tail(up)
        /\ Head(up).type = "click" /\ Head(up).id # 0 /\ clicks' = Append(clicks, m)
    BY <1>3, Zenon DEF MenuClick
  <2>2. open'.gen = open.gen /\ open'.id = open.id
    <3> DEFINE after == IF open.editable THEN AppliedToMenu(Head(up).click) ELSE Restored(Head(up).changed)
    <3>1. open' = [after.open EXCEPT !.full = @ \/ Head(up).state # open.state]
      BY <1>3 DEF MenuClick
    <3>2. after.open.gen = open.gen /\ after.open.id = open.id /\ DOMAIN after.open = DOMAIN open
      BY MenuShapes DEF AppliedToMenu, Restored
    <3> HIDE DEF after
    <3> QED BY <3>1, <3>2, MenuShapes
  <2>3. m.id = Head(up).id /\ m.gen = Head(up).gen  OBVIOUS
  <2> HIDE DEF m
  <2>4. /\ IsList(clicks')
        /\ \A k \in Indexes(clicks') : (k \in Indexes(clicks) /\ clicks'[k] = clicks[k]) \/ clicks'[k] = m
    BY <2>1, Appended DEF SightInv, Lists
  <2>5. InClick(m.id, m.gen)  BY <2>1, <2>3, Rest DEF InClick, SightInv, Lists
  <2>6. Lists'
    <3>1. IsList(up')  BY <2>1, UpBefore DEF SightInv, Lists
    <3> QED BY <2>1, <2>3, <2>4, <3>1 DEF SightInv, Lists
  <2>7. Counted'  BY <2>1, <2>2 DEF SightInv, Counted, IsOpen
  <2>8. ASSUME NEW id, NEW gen, Sighted(id, gen)' PROVE Sighted(id, gen)
    <3>1. InClick(id, gen)' => InClick(id, gen)  BY <2>1, ClickedBefore DEF SightInv, Lists
    <3>2. InQueue(id, gen)' => InQueue(id, gen) \/ (id = m.id /\ gen = m.gen)  BY <2>4 DEF InQueue
    <3> QED BY <2>1, <2>2, <2>5, <2>8, <3>1, <3>2 DEF Sighted, InAnnouncement
  <2> QED BY <2>1, <2>6, <2>7, <2>8, SightsKeep
<1>4. CASE ReceiveClose
  <2>1. UNCHANGED <<lastId, done, client, clicks>> /\ up # <<>> /\ up' = Tail(up)
    BY <1>4 DEF ReceiveClose
  <2>2. CASE IsOpen /\ open.id = Head(up).id
    BY <1>4, <2>1, <2>2, RemovalSighted DEF ReceiveClose
  <2>3. CASE ~(IsOpen /\ open.id = Head(up).id)
    <3>1. UNCHANGED <<open, down>>  BY <1>4, <2>3 DEF ReceiveClose
    <3>2. \A id, gen : InAnnouncement(id, gen)' => InAnnouncement(id, gen)  BY <3>1, AnnouncedBefore
    <3> QED BY <1>1, <2>1, <3>1, <3>2, QuietSights
  <2> QED BY <2>2, <2>3
<1> QED BY <1>2, <1>3, <1>4

LEMMA GameSighted ==
  ASSUME MenuInv, SightInv, MaxMenus \in Nat,
         \/ GameOpens \/ GameCloses \/ DrainClick \/ EndAnswer \/ EndIngest \/ Quit
         \/ \E i \in 0..Size - 1 : TakeStack(i)
         \/ \E s \in 0..MenuSize - 1 : \E stack \in {Empty} \cup {o[s] : o \in Offers} : EditMenu(s, stack)
         \/ \E x \in Items : PickupItems(x)
  PROVE  SightInv'
<1>1. done.menus \in Nat /\ done.menus <= MaxMenus  BY MenuShapes DEF SightInv, Counted
<1>2. CASE GameOpens  BY <1>2, OpenSighted DEF GameOpens
<1>3. CASE GameCloses  BY <1>3, RemovalSighted DEF GameCloses, CloseIt
<1>4. CASE Quit  BY <1>4, RemovalSighted DEF Quit
<1>5. CASE DrainClick
  <2>1. /\ UNCHANGED <<lastId, client, up>> /\ clicks # <<>> /\ clicks' = Tail(clicks)
        /\ UNCHANGED <<open, down, done>>
    BY <1>5 DEF DrainClick
  <2>2. \A id, gen : InAnnouncement(id, gen)' => InAnnouncement(id, gen)  BY <2>1, AnnouncedBefore
  <2> QED BY <1>1, <2>1, <2>2, QuietSights
<1>6. CASE EndAnswer \/ EndIngest \/ \E x \in Items : PickupItems(x)
  <2>1. UNCHANGED <<open, lastId, down, done, client, clicks, up>>
    BY <1>6 DEF EndAnswer, EndIngest, PickupItems
  <2>2. \A id, gen : InAnnouncement(id, gen)' => InAnnouncement(id, gen)  BY <2>1, AnnouncedBefore
  <2> QED BY <1>1, <2>1, <2>2, QuietSights
<1>7. CASE (\E i \in 0..Size - 1 : TakeStack(i))
           \/ \E s \in 0..MenuSize - 1 : \E stack \in {Empty} \cup {o[s] : o \in Offers} : EditMenu(s, stack)
  <2>1. done' = [done EXCEPT !.edits = @ + 1] /\ UNCHANGED <<lastId, down, client, up, clicks>>
    BY <1>7 DEF TakeStack, EditMenu, Edits
  <2>2. done'.menus = done.menus  BY <2>1, MenuShapes
  <2>3. open'.gen = open.gen /\ open'.id = open.id
    BY <1>7, MenuShapes DEF TakeStack, EditMenu
  <2>4. \A id, gen : InAnnouncement(id, gen)' => InAnnouncement(id, gen)  BY <2>1, AnnouncedBefore
  <2> QED BY <1>1, <2>1, <2>2, <2>3, <2>4, QuietSights
<1> QED BY <1>2, <1>3, <1>4, <1>5, <1>6, <1>7

(* sync_containers: the ids have not gone round, so the next one is new. *)
LEMMA SyncSighted ==
  ASSUME MenuInv, SightInv, MaxMenus \in Nat, MaxId \in Nat \ {0}, MaxMenus <= MaxId, Sync
  PROVE  SightInv'
<1>1. /\ open'.gen = open.gen /\ UNCHANGED <<client, done, up, clicks>>
      /\ IF IsOpen THEN /\ open'.id = IF open.id = 0 THEN NextContainerId ELSE open.id
                        /\ lastId' = open'.id
         ELSE UNCHANGED <<open, lastId>>
  BY SyncNames
<1>2. PICK more : /\ down' = down \o more /\ IsList(more)
                  /\ \A k \in Indexes(more) : more[k].type = "open" =>
                       IsOpen /\ more[k].gen = open.gen /\ more[k].id = open'.id
  BY SyncTells
<1>3. \A id, gen : InAnnouncement(id, gen)' =>
        InAnnouncement(id, gen) \/ (IsOpen /\ gen = open.gen /\ id = open'.id)
  <2> SUFFICES ASSUME NEW id, NEW gen, InAnnouncement(id, gen)'
               PROVE  InAnnouncement(id, gen) \/ (IsOpen /\ gen = open.gen /\ id = open'.id)
    OBVIOUS
  <2>1. \/ InAnnouncement(id, gen)
        \/ \E k \in Indexes(more) : more[k].type = "open" /\ more[k].id = id /\ more[k].gen = gen
    BY <1>2, AnnouncedWith
  <2> QED BY <1>2, <2>1
<1>4. /\ done.menus \in Nat /\ done.menus <= MaxMenus /\ lastId \in Nat /\ lastId <= done.menus
      /\ (open.id # 0 => open.id = lastId) /\ (IsOpen /\ open.id = 0 => lastId < done.menus)
  BY MenuShapes DEF SightInv, Counted
<1>5. Lists'  BY <1>1 DEF SightInv, Lists
<1>6. CASE IsOpen /\ open.id = 0
  <2>1. NextContainerId = lastId + 1  BY <1>4, <1>6 DEF NextContainerId
  <2>2. open'.id = lastId + 1 /\ lastId' = lastId + 1  BY <1>1, <1>6, <2>1
  <2>3. Counted'  BY <1>1, <1>4, <1>6, <2>2 DEF Counted, IsOpen
  <2>4. \A id, gen : Sighted(id, gen)' => Sighted(id, gen) \/ (id = lastId + 1 /\ gen = open.gen)
    BY <1>1, <1>3, <2>2 DEF Sighted, InClick, InQueue
  <2> QED BY <1>5, <2>2, <2>3, <2>4, SightsKeep
<1>7. CASE ~(IsOpen /\ open.id = 0)
  <2>1. open'.id = open.id /\ lastId' = lastId  BY <1>1, <1>4, <1>7
  <2>2. Counted'  BY <1>1, <1>4, <1>7, <2>1 DEF Counted, IsOpen
  <2>3. \A id, gen : Sighted(id, gen)' => Sighted(id, gen)
    BY <1>1, <1>3, <2>1 DEF Sighted, InClick, InQueue
  <2> QED BY <1>5, <2>1, <2>2, <2>3, SightsKeep
<1> QED BY <1>6, <1>7

LEMMA SightsStep ==
  ASSUME MaxMenus \in Nat, MaxId \in Nat \ {0}, MaxMenus <= MaxId, MenuInv, SightInv, [Next]_vars
  PROVE  SightInv'
<1>1. CASE \E click \in Clicks : ClientClicks(click)  BY <1>1, ClickSighted
<1>2. CASE ClientCloses  BY <1>2, CloseSighted
<1>3. CASE ClientReads  BY <1>3, ReadSighted
<1>4. CASE InventoryClick \/ MenuClick \/ IgnoreClick \/ ReceiveClose  BY <1>4, ReceiveSighted
<1>5. CASE \/ GameOpens \/ GameCloses \/ DrainClick \/ EndAnswer \/ EndIngest \/ Quit
           \/ \E i \in 0..Size - 1 : TakeStack(i)
           \/ \E s \in 0..MenuSize - 1 :
                \E stack \in {Empty} \cup {o[s] : o \in Offers} : EditMenu(s, stack)
           \/ \E x \in Items : PickupItems(x)
  BY <1>5, GameSighted
<1>6. CASE Sync  BY <1>6, SyncSighted
<1>7. CASE UNCHANGED vars
  <2>1. UNCHANGED <<open, lastId, down, done, client, clicks, up>>  BY <1>7 DEF vars
  <2>2. done.menus \in Nat /\ done.menus <= MaxMenus  BY MenuShapes DEF SightInv, Counted
  <2>3. \A id, gen : InAnnouncement(id, gen)' => InAnnouncement(id, gen)  BY <2>1, AnnouncedBefore
  <2> QED BY <2>1, <2>2, <2>3, QuietSights
<1> QED BY <1>1, <1>2, <1>3, <1>4, <1>5, <1>6, <1>7 DEF Next, StepWith

(* handle_container_click, drain_menu_clicks: a click is answered for the   *)
(* menu it was made in, however long it is on its way and whatever took     *)
(* that menu's place, as long as the ids have not gone round.               *)
THEOREM ClicksInTheirMenus ==
  ASSUME MaxMenus \in Nat, MaxId \in Nat \ {0}, MaxMenus <= MaxId
  PROVE  Spec => ClickInItsMenu
<1>1. Init => MenuInv /\ SightInv  BY MenusStart, SightsStart
<1>2. MenuInv /\ SightInv /\ [Next]_vars => MenuInv' /\ SightInv'  BY MenusStep, SightsStep
<1>3. MenuInv /\ SightInv =>
        [clicks' # clicks /\ clicks # <<>> /\ Len(clicks') < Len(clicks)
         /\ Answers(Head(clicks)) => Head(clicks).gen = open.gen]_vars
  <2> SUFFICES ASSUME SightInv, clicks # <<>>, Answers(Head(clicks)) PROVE Head(clicks).gen = open.gen
    OBVIOUS
  <2>1. 1 \in Indexes(clicks) /\ Head(clicks) = clicks[1] /\ Head(clicks).id # 0
    BY Rest DEF SightInv, Lists
  <2>2. Sighted(open.id, open.gen) /\ Sighted(open.id, Head(clicks).gen)
    BY <2>1 DEF Sighted, InQueue, Answers
  <2> QED BY <2>2 DEF SightInv, Sights
<1> QED BY <1>1, <1>2, <1>3, PTL DEF Spec, ClickInItsMenu

-----------------------------------------------------------------------------
(***************************************************************************)
(* Induction, with a set for the statement: what the theorems of the library *)
(* state with an operator is out of the provers' reach.                     *)
(***************************************************************************)
LEMMA Smallest ==
  ASSUME NEW T, T \subseteq Nat, T # {}
  PROVE  \E n \in T : \A m \in T : n <= m
<1> DEFINE R == OpToRel(<, Nat)
<1>1. IsWellFoundedOn(R, Nat)  BY NatLessThanWellFounded
<1>2. \A a, b \in Nat : a < b => <<a, b>> \in R  BY DEF OpToRel
<1> HIDE DEF R
<1>3. PICK n \in T : \A m \in T : ~(<<m, n>> \in R)  BY <1>1, WFMin
<1>4. ASSUME NEW m \in T PROVE n <= m
  <2>1. ~(m < n)  BY <1>2, <1>3
  <2> QED BY <2>1
<1> QED BY <1>4

LEMMA Induction ==
  ASSUME NEW P, 0 \in P, \A n \in Nat : n \in P => n + 1 \in P
  PROVE  \A n \in Nat : n \in P
<1> DEFINE T == {n \in Nat : n \notin P}
<1>1. SUFFICES ASSUME T # {} PROVE FALSE
  OBVIOUS
<1>2. PICK n \in T : \A m \in T : n <= m  BY <1>1, Smallest
<1>3. n # 0 /\ n - 1 \in Nat /\ n - 1 \notin T  BY <1>2
<1> QED BY <1>3

(* What a fold over a finite set computes exists, and stays in a set that *)
(* each step stays in.                                                    *)
Computes(g, D, base, pick, F) ==
  \A T \in SUBSET D : g[T] = IF T = {} THEN base ELSE F[<<pick[T], g[T \ {pick[T]}]>>]

LEMMA Recursion ==
  ASSUME NEW D, IsFiniteSet(D), NEW X, NEW base \in X, NEW pick,
         \A T \in SUBSET D : T # {} => pick[T] \in T,
         NEW F \in [D \X X -> X]
  PROVE  \E g \in [SUBSET D -> X] : Computes(g, D, base, pick, F)
<1> DEFINE Upto(n) == {T \in SUBSET D : Cardinality(T) <= n}
           Solves(g, n) == \A T \in Upto(n) :
             g[T] = IF T = {} THEN base ELSE F[<<pick[T], g[T \ {pick[T]}]>>]
           P == {n \in Nat : \E g \in [Upto(n) -> X] : Solves(g, n)}
<1>1. \A T \in SUBSET D : IsFiniteSet(T) /\ Cardinality(T) \in Nat
  BY FS_Subset, FS_CardinalityType
<1>2. \A T \in SUBSET D : T # {} => /\ pick[T] \in D /\ T \ {pick[T]} \in SUBSET D
                                    /\ Cardinality(T \ {pick[T]}) = Cardinality(T) - 1
  BY <1>1, FS_RemoveElement
<1>3. {} \in SUBSET D /\ Cardinality({}) = 0 /\ \A T \in SUBSET D : Cardinality(T) = 0 => T = {}
  BY <1>1, FS_EmptySet
<1>4. 0 \in P
  <2> DEFINE g == [T \in Upto(0) |-> base]
  <2>1. \A T \in Upto(0) : T = {}  BY <1>1, <1>3
  <2>2. g \in [Upto(0) -> X] /\ Solves(g, 0)  BY <2>1
  <2> QED BY <2>2
<1>5. ASSUME NEW n \in Nat, n \in P PROVE n + 1 \in P
  <2>1. PICK g \in [Upto(n) -> X] : Solves(g, n)  BY <1>5
  <2> DEFINE h == [T \in Upto(n + 1) |->
                     IF T = {} THEN base ELSE F[<<pick[T], g[T \ {pick[T]}]>>]]
  <2>2. \A T \in Upto(n + 1) : T # {} => pick[T] \in D /\ T \ {pick[T]} \in Upto(n)
    BY <1>1, <1>2
  <2>3. h \in [Upto(n + 1) -> X]  BY <2>1, <2>2
  <2>4. \A T \in Upto(n) : T \in Upto(n + 1) /\ h[T] = g[T]
    <3>1. \A T \in Upto(n) : T \in SUBSET D /\ T \in Upto(n + 1)  BY <1>1
    <3>2. \A T \in Upto(n) : g[T] = IF T = {} THEN base ELSE F[<<pick[T], g[T \ {pick[T]}]>>]
      BY <2>1
    <3> QED BY <3>1, <3>2
  <2>5. Solves(h, n + 1)  BY <2>2, <2>4
  <2>6. n + 1 \in Nat  OBVIOUS
  <2> HIDE DEF Solves, Upto, h
  <2> QED BY <2>3, <2>5, <2>6
<1>6. Cardinality(D) \in P
  <2>1. Cardinality(D) \in Nat  BY <1>1
  <2> HIDE DEF P
  <2> QED BY <1>4, <1>5, <2>1, Induction
<1>7. Upto(Cardinality(D)) = SUBSET D  BY <1>1, FS_Subset
<1> QED BY <1>6, <1>7 DEF Computes

LEMMA Invariance ==
  ASSUME NEW D, IsFiniteSet(D), NEW X, NEW pick, \A T \in SUBSET D : T # {} => pick[T] \in T,
         NEW g, g[{}] \in X,
         \A T \in SUBSET D : T # {} /\ g[T \ {pick[T]}] \in X => g[T] \in X
  PROVE  \A T \in SUBSET D : g[T] \in X
<1> DEFINE P == {n \in Nat : \A T \in SUBSET D : Cardinality(T) = n => g[T] \in X}
<1>1. \A T \in SUBSET D : IsFiniteSet(T) /\ Cardinality(T) \in Nat
  BY FS_Subset, FS_CardinalityType
<1>2. 0 \in P  BY <1>1, FS_EmptySet
<1>3. ASSUME NEW n \in Nat, n \in P PROVE n + 1 \in P
  <2> SUFFICES ASSUME NEW T \in SUBSET D, Cardinality(T) = n + 1 PROVE g[T] \in X
    OBVIOUS
  <2>1. T # {}
    <3>1. n + 1 # 0  OBVIOUS
    <3> QED BY <3>1, FS_EmptySet
  <2>2. T \ {pick[T]} \in SUBSET D /\ Cardinality(T \ {pick[T]}) = n
    <3>1. pick[T] \in T /\ IsFiniteSet(T)  BY <1>1, <2>1
    <3>2. Cardinality(T \ {pick[T]}) = Cardinality(T) - 1  BY <3>1, FS_RemoveElement
    <3> QED BY <3>2
  <2>3. g[T \ {pick[T]}] \in X  BY <1>3, <2>2
  <2> QED BY <2>1, <2>3
<1>4. \A n \in Nat : n \in P
  <2> HIDE DEF P
  <2> QED BY <1>2, <1>3, Induction
<1> QED BY <1>1, <1>4

LEMMA Largest ==
  ASSUME NEW n \in Nat
  PROVE  IsFiniteSet(1..n) /\ \A T \in SUBSET (1..n) : T # {} => Max(T) \in T
<1>1. IsFiniteSet(1..n)
  <2>1. 1 \in Int /\ n \in Int  OBVIOUS
  <2> QED BY <2>1, FS_Interval, Zenon
<1>2. ASSUME NEW T \in SUBSET (1..n), T # {} PROVE Max(T) \in T
  <2> DEFINE U == {m \in Nat : \A k \in T : k <= m}
  <2>1. n \in U  OBVIOUS
  <2>2. PICK m \in U : \A k \in U : m <= k  BY <2>1, Smallest
  <2>3. m \in T
    <3>1. SUFFICES ASSUME m \notin T PROVE FALSE
      OBVIOUS
    <3>2. \A k \in T : k <= m - 1  BY <2>2, <3>1
    <3>3. m - 1 \in Nat
      <4>1. PICK k \in T : k \in 1..n  BY <1>2
      <4> QED BY <2>2, <3>2, <4>1
    <3> QED BY <2>2, <3>2, <3>3
  <2>4. \A k \in T : m >= k  BY <2>2
  <2> QED BY <2>3, <2>4 DEF Max
<1> QED BY <1>1, <1>2

LEMMA MergesStay ==
  ASSUME NEW X, NEW base \in X, NEW n \in Nat, NEW order, DOMAIN order = 1..n,
         \A a \in X : \A k \in 1..n : Merge(a, order[k]) \in X
  PROVE  FoldLeft(Merge, base, order) \in X
<1> DEFINE D == 1..n
           pick == [T \in SUBSET D |-> Max(T)]
           F == [p \in D \X X |-> Merge(p[2], order[p[1]])]
           Next1(g) == [T \in SUBSET D |-> IF T = {} THEN base
                                          ELSE Merge(g[T \ {Max(T)}], order[Max(T)])]
           iter == CHOOSE g : g = Next1(g)
<1>1. IsFiniteSet(D) /\ (\A T \in SUBSET D : T # {} => pick[T] \in T)  BY Largest
<1>2. F \in [D \X X -> X]  OBVIOUS
<1>3. PICK g \in [SUBSET D -> X] : Computes(g, D, base, pick, F)
  <2> HIDE DEF D, pick, F
  <2> QED BY <1>1, <1>2, Recursion, Zenon
<1>4. g = Next1(g)
  <2>1. \A T \in SUBSET D : T # {} => g[T] = Merge(g[T \ {Max(T)}], order[Max(T)])
    BY <1>1, <1>3 DEF Computes
  <2>2. g[{}] = base  BY <1>3 DEF Computes
  <2>3. g = [T \in SUBSET D |-> g[T]]  BY <1>3
  <2> QED BY <2>1, <2>2, <2>3
<1>5. iter = Next1(iter)  BY <1>4
<1>6. \A T \in SUBSET D : iter[T] \in X
  <2> HIDE DEF iter
  <2>1. iter[{}] \in X
    <3>1. {} \in SUBSET D  OBVIOUS
    <3> QED BY <1>5, <3>1
  <2>2. ASSUME NEW T \in SUBSET D, T # {}, iter[T \ {pick[T]}] \in X PROVE iter[T] \in X
    <3>1. pick[T] = Max(T) /\ Max(T) \in D  BY <1>1, <2>2
    <3>2. iter[T] = Merge(iter[T \ {Max(T)}], order[Max(T)])  BY <1>5, <2>2
    <3> QED BY <2>2, <3>1, <3>2
  <2> HIDE DEF D, pick
  <2> QED BY <1>1, <2>1, <2>2, Invariance
<1>7. FoldLeft(Merge, base, order) = iter[D]  BY Zenon DEF FoldLeft, MapThenFoldSet
<1> QED BY <1>6, <1>7

-----------------------------------------------------------------------------
(***************************************************************************)
(* Sums over finite sets, in whatever order the terms are taken: how many  *)
(* items of a kind the slots of a window hold                              *)
(***************************************************************************)

Pick(T) == CHOOSE t \in T : TRUE
Round(g, f, D) == [T \in SUBSET D |-> IF T = {} THEN 0 ELSE f[Pick(T)] + g[T \ {Pick(T)}]]
Sums(f, D) == CHOOSE g : g = Round(g, f, D)
Sum(f, D) == Sums(f, D)[D]

LEMMA SumsSolve ==
  ASSUME NEW D, IsFiniteSet(D), NEW f, \A t \in D : f[t] \in Nat
  PROVE  Sums(f, D) = Round(Sums(f, D), f, D) /\ \A T \in SUBSET D : Sums(f, D)[T] \in Nat
<1> DEFINE pick == [T \in SUBSET D |-> Pick(T)]
           F == [p \in D \X Nat |-> f[p[1]] + p[2]]
           iter == Sums(f, D)
<1>1. \A T \in SUBSET D : T # {} => pick[T] \in T  BY DEF Pick
<1>2. F \in [D \X Nat -> Nat] /\ 0 \in Nat  OBVIOUS
<1>3. PICK g \in [SUBSET D -> Nat] : Computes(g, D, 0, pick, F)
  <2> HIDE DEF pick, F
  <2> QED BY <1>1, <1>2, Recursion, Zenon
<1>4. g = Round(g, f, D)
  <2>1. \A T \in SUBSET D : T # {} => g[T] = f[Pick(T)] + g[T \ {Pick(T)}]
    BY <1>1, <1>3 DEF Computes
  <2>2. g[{}] = 0  BY <1>3 DEF Computes
  <2>3. g = [T \in SUBSET D |-> g[T]]  BY <1>3
  <2> QED BY <2>1, <2>2, <2>3 DEF Round
<1>5. iter = Round(iter, f, D)  BY <1>4 DEF Sums
<1>6. \A T \in SUBSET D : iter[T] \in Nat
  <2> HIDE DEF iter
  <2>1. iter[{}] \in Nat
    <3>1. {} \in SUBSET D  OBVIOUS
    <3> QED BY <1>5, <3>1 DEF Round
  <2>2. ASSUME NEW T \in SUBSET D, T # {}, iter[T \ {pick[T]}] \in Nat PROVE iter[T] \in Nat
    <3>1. pick[T] = Pick(T) /\ Pick(T) \in D  BY <1>1, <2>2
    <3>2. iter[T] = f[Pick(T)] + iter[T \ {Pick(T)}]  BY <1>5, <2>2 DEF Round
    <3> QED BY <2>2, <3>1, <3>2
  <2> HIDE DEF pick
  <2> QED BY <1>1, <2>1, <2>2, Invariance
<1> QED BY <1>5, <1>6

LEMMA SumsAgree ==
  ASSUME NEW D, NEW E, IsFiniteSet(D), NEW f, NEW e, NEW g, NEW h,
         g = Round(g, f, D), h = Round(h, e, E), D \subseteq E, \A t \in D : f[t] = e[t]
  PROVE  \A T \in SUBSET D : g[T] = h[T]
<1> DEFINE pick == [T \in SUBSET D |-> Pick(T)]
           d == [T \in SUBSET D |-> g[T] = h[T]]
           Yes == {TRUE}
<1>1. \A T \in SUBSET D : T # {} => pick[T] \in T  BY DEF Pick
<1>2. d[{}] \in Yes
  <2>1. {} \in SUBSET D /\ {} \in SUBSET E  OBVIOUS
  <2>2. g[{}] = 0  BY <2>1 DEF Round
  <2>3. h[{}] = 0  BY <2>1 DEF Round
  <2> QED BY <2>1, <2>2, <2>3
<1>3. ASSUME NEW T \in SUBSET D, T # {}, d[T \ {pick[T]}] \in Yes PROVE d[T] \in Yes
  <2>1. Pick(T) \in D /\ pick[T] = Pick(T) /\ T \ {Pick(T)} \in SUBSET D /\ T \in SUBSET E
    BY <1>1, <1>3
  <2>2. g[T] = f[Pick(T)] + g[T \ {Pick(T)}]  BY <1>3 DEF Round
  <2>3. h[T] = e[Pick(T)] + h[T \ {Pick(T)}]  BY <1>3, <2>1 DEF Round
  <2>4. g[T \ {Pick(T)}] = h[T \ {Pick(T)}]  BY <1>3, <2>1
  <2> QED BY <2>1, <2>2, <2>3, <2>4
<1>4. \A T \in SUBSET D : d[T] \in Yes
  <2> HIDE DEF d, pick, Yes
  <2> QED BY <1>1, <1>2, <1>3, Invariance
<1> QED BY <1>4

LEMMA SumType ==
  ASSUME NEW D, IsFiniteSet(D), NEW f, \A t \in D : f[t] \in Nat PROVE Sum(f, D) \in Nat
BY SumsSolve DEF Sum

(* Only the terms count. *)
LEMMA SumSame ==
  ASSUME NEW D, IsFiniteSet(D), NEW f, NEW e, \A t \in D : f[t] \in Nat,
         \A t \in D : f[t] = e[t]
  PROVE  Sum(f, D) = Sum(e, D)
<1>1. Sums(f, D) = Round(Sums(f, D), f, D)  BY SumsSolve
<1>2. Sums(e, D) = Round(Sums(e, D), e, D)  BY SumsSolve
<1> QED BY <1>1, <1>2, SumsAgree DEF Sum

LEMMA SumAdds ==
  ASSUME NEW D, IsFiniteSet(D), NEW f, \A t \in D : f[t] \in Nat, NEW x \in D
  PROVE  Sum(f, D) = f[x] + Sum(f, D \ {x})
<1> DEFINE g == Sums(f, D)
           Splits(T) == \A t \in T : g[T] = f[t] + g[T \ {t}]
           P == {n \in Nat : \A T \in SUBSET D : Cardinality(T) = n => Splits(T)}
<1>1. g = Round(g, f, D) /\ \A T \in SUBSET D : g[T] \in Nat  BY SumsSolve
<1>2. \A T \in SUBSET D : IsFiniteSet(T) /\ Cardinality(T) \in Nat
  BY FS_Subset, FS_CardinalityType
<1>3. 0 \in P
  <2>1. \A T \in SUBSET D : Cardinality(T) = 0 => T = {}  BY <1>2, FS_EmptySet
  <2> QED BY <2>1
<1>4. ASSUME NEW n \in Nat, n \in P PROVE n + 1 \in P
  <2> SUFFICES ASSUME NEW T \in SUBSET D, Cardinality(T) = n + 1, NEW t \in T
               PROVE  g[T] = f[t] + g[T \ {t}]
    OBVIOUS
  <2> DEFINE y == Pick(T)
  <2>1. y \in T  BY DEF Pick
  <2>2. g[T] = f[y] + g[T \ {y}]  BY <1>1 DEF Round
  <2> HIDE DEF y, g
  <2>3. CASE t = y  BY <2>2, <2>3
  <2>4. CASE t # y
    <3>1. /\ T \ {y} \in SUBSET D /\ t \in T \ {y} /\ T \ {t} \in SUBSET D /\ y \in T \ {t}
          /\ (T \ {y}) \ {t} = (T \ {t}) \ {y} /\ (T \ {y}) \ {t} \in SUBSET D
      BY <2>1, <2>4
    <3>2. Cardinality(T \ {y}) = n /\ Cardinality(T \ {t}) = n
      <4>1. Cardinality(T \ {y}) = Cardinality(T) - 1  BY <1>2, <2>1, FS_RemoveElement
      <4>2. Cardinality(T \ {t}) = Cardinality(T) - 1  BY <1>2, FS_RemoveElement
      <4> QED BY <4>1, <4>2
    <3>3. g[T \ {y}] = f[t] + g[(T \ {y}) \ {t}]  BY <1>4, <3>1, <3>2
    <3>4. g[T \ {t}] = f[y] + g[(T \ {t}) \ {y}]  BY <1>4, <3>1, <3>2
    <3> DEFINE rest == g[(T \ {y}) \ {t}]
    <3>5. f[t] \in Nat /\ f[y] \in Nat /\ rest \in Nat  BY <1>1, <2>1, <3>1
    <3>6. g[T \ {y}] = f[t] + rest /\ g[T \ {t}] = f[y] + rest  BY <3>1, <3>3, <3>4
    <3> HIDE DEF rest
    <3> QED BY <2>2, <3>5, <3>6
  <2> QED BY <2>3, <2>4
<1>5. Cardinality(D) \in P
  <2> HIDE DEF P
  <2> QED BY <1>2, <1>3, <1>4, Induction
<1>6. g[D] = f[x] + g[D \ {x}]  BY <1>5
<1>7. g[D \ {x}] = Sum(f, D \ {x})
  <2> DEFINE E == D \ {x}
  <2>1. IsFiniteSet(E) /\ E \subseteq D /\ E \in SUBSET E  BY <1>2
  <2>2. Sums(f, E) = Round(Sums(f, E), f, E)
    <3>1. \A t \in E : f[t] \in Nat  OBVIOUS
    <3> HIDE DEF E
    <3> QED BY <2>1, <3>1, SumsSolve
  <2> DEFINE h == Sums(f, E)
  <2>3. h = Round(h, f, E)  BY <2>2
  <2>4. \A t \in E : f[t] = f[t]  OBVIOUS
  <2>5. Sum(f, E) = h[E]  BY DEF Sum
  <2> HIDE DEF E, g, h
  <2>6. \A T \in SUBSET E : h[T] = g[T]  BY <1>1, <2>1, <2>3, SumsAgree
  <2>7. h[E] = g[E]  BY <2>1, <2>6
  <2> QED BY <2>5, <2>7 DEF E
<1> QED BY <1>6, <1>7 DEF Sum

LEMMA SumNothing == ASSUME NEW f PROVE Sum(f, {}) = 0
<1>1. IsFiniteSet({})  BY FS_EmptySet
<1>2. Sums(f, {}) = Round(Sums(f, {}), f, {})  BY <1>1, SumsSolve
<1>3. {} \in SUBSET {}  OBVIOUS
<1> QED BY <1>2, <1>3 DEF Sum, Round

LEMMA SumSplits ==
  ASSUME NEW D, IsFiniteSet(D), NEW f, \A t \in D : f[t] \in Nat, NEW V \in SUBSET D
  PROVE  /\ Sum(f, D) = Sum(f, V) + Sum(f, D \ V)
         /\ Sum(f, V) \in Nat /\ Sum(f, D \ V) \in Nat
<1> DEFINE pick == [T \in SUBSET V |-> Pick(T)]
           d == [T \in SUBSET V |-> Sum(f, D) = Sum(f, T) + Sum(f, D \ T)]
           Yes == {TRUE}
<1>1. \A T \in SUBSET V : T # {} => pick[T] \in T  BY DEF Pick
<1>2. \A T \in SUBSET D : IsFiniteSet(T) /\ Sum(f, T) \in Nat
  <2> SUFFICES ASSUME NEW T \in SUBSET D PROVE IsFiniteSet(T) /\ Sum(f, T) \in Nat
    OBVIOUS
  <2>1. IsFiniteSet(T) /\ \A t \in T : f[t] \in Nat  BY FS_Subset
  <2> QED BY <2>1, SumType
<1>3. d[{}] \in Yes
  <2>1. D \ {} = D /\ D \in SUBSET D /\ {} \in SUBSET V  OBVIOUS
  <2>2. Sum(f, D) = 0 + Sum(f, D)  BY <1>2, <2>1
  <2>3. Sum(f, D) = Sum(f, {}) + Sum(f, D \ {})  BY <2>1, <2>2, SumNothing
  <2> QED BY <2>1, <2>3
<1>4. ASSUME NEW T \in SUBSET V, T # {}, d[T \ {pick[T]}] \in Yes PROVE d[T] \in Yes
  <2> DEFINE y == pick[T]
             rest == T \ {y}
             more == D \ rest
  <2>1. y \in T /\ T \in SUBSET D /\ rest \in SUBSET D /\ more \in SUBSET D /\ y \in more
    BY <1>1, <1>4
  <2>2. more \ {y} = D \ T  BY <2>1
  <2>3. Sum(f, D) = Sum(f, rest) + Sum(f, more)  BY <1>4
  <2> HIDE DEF y, d, Yes
  <2>4. Sum(f, T) = f[y] + Sum(f, rest)
    <3>1. IsFiniteSet(T) /\ \A t \in T : f[t] \in Nat  BY <1>2, <2>1
    <3> QED BY <2>1, <3>1, SumAdds
  <2> HIDE DEF rest, more
  <2>5. Sum(f, more) = f[y] + Sum(f, D \ T)
    <3>1. IsFiniteSet(more) /\ \A t \in more : f[t] \in Nat  BY <1>2, <2>1
    <3>2. Sum(f, more) = f[y] + Sum(f, more \ {y})  BY <2>1, <3>1, SumAdds
    <3> QED BY <2>2, <3>2
  <2>6. f[y] \in Nat /\ Sum(f, rest) \in Nat /\ Sum(f, D \ T) \in Nat  BY <1>2, <2>1
  <2>7. Sum(f, D) = Sum(f, T) + Sum(f, D \ T)  BY <2>3, <2>4, <2>5, <2>6
  <2> QED BY <2>7 DEF d, Yes
<1>5. IsFiniteSet(V)  BY <1>2
<1>6. \A T \in SUBSET V : d[T] \in Yes
  <2> HIDE DEF d, pick, Yes
  <2> QED BY <1>1, <1>3, <1>4, <1>5, Invariance
<1>7. V \in SUBSET V  OBVIOUS
<1> QED BY <1>2, <1>6, <1>7

(* The same n terms under other indices *)
Shifted(f, a, e, b, n) == \A j \in 0..n - 1 : f[a + j] \in Nat /\ f[a + j] = e[b + j]

LEMMA SumShifts ==
  ASSUME NEW f, NEW e, NEW a \in Int, NEW b \in Int, NEW n \in Nat, Shifted(f, a, e, b, n)
  PROVE  Sum(f, a..a + n - 1) = Sum(e, b..b + n - 1)
<1> DEFINE P == {k \in Nat : k <= n => Sum(f, a..a + k - 1) = Sum(e, b..b + k - 1)}
<1> USE DEF Shifted
<1>1. 0 \in P
  <2>1. a..a + 0 - 1 = {} /\ b..b + 0 - 1 = {}  OBVIOUS
  <2>2. Sum(f, a..a + 0 - 1) = Sum(e, b..b + 0 - 1)  BY <2>1, SumNothing
  <2> QED BY <2>2
<1>2. ASSUME NEW k \in Nat, k \in P PROVE k + 1 \in P
  <2> SUFFICES ASSUME k + 1 <= n PROVE Sum(f, a..a + (k + 1) - 1) = Sum(e, b..b + (k + 1) - 1)
    OBVIOUS
  <2> DEFINE A == a..a + k
             B == b..b + k
  <2>1. Sum(f, a..a + k - 1) = Sum(e, b..b + k - 1)  BY <1>2
  <2>2. /\ A \ {a + k} = a..a + k - 1 /\ B \ {b + k} = b..b + k - 1
        /\ A = a..a + (k + 1) - 1 /\ B = b..b + (k + 1) - 1 /\ a + k \in A /\ b + k \in B
    OBVIOUS
  <2>3. IsFiniteSet(A) /\ IsFiniteSet(B)
    <3>1. a + k \in Int /\ b + k \in Int  OBVIOUS
    <3> QED BY <3>1, FS_Interval, Zenon
  <2>4. \A t \in A : f[t] \in Nat
    <3>1. \A t \in A : t - a \in 0..n - 1 /\ a + (t - a) = t  OBVIOUS
    <3> QED BY <3>1
  <2>5. \A t \in B : e[t] \in Nat
    <3>1. \A t \in B : t - b \in 0..n - 1 /\ b + (t - b) = t  OBVIOUS
    <3> QED BY <3>1
  <2> HIDE DEF A, B
  <2>6. Sum(f, A) = f[a + k] + Sum(f, A \ {a + k})  BY ONLY <2>2, <2>3, <2>4, SumAdds
  <2>7. Sum(e, B) = e[b + k] + Sum(e, B \ {b + k})  BY ONLY <2>2, <2>3, <2>5, SumAdds
  <2>8. f[a + k] = e[b + k]  OBVIOUS
  <2> QED BY <2>1, <2>2, <2>6, <2>7, <2>8
<1>3. n \in P
  <2> HIDE DEF P
  <2> QED BY <1>1, <1>2, Induction
<1> QED BY <1>3

-----------------------------------------------------------------------------
(* Stacks and slots *)
Stacks == {Empty} \cup [item : Items, count : Nat \ {0}]
Slots(n) == [0..n - 1 -> Stacks]
Of(slots, x) == [i \in DOMAIN slots |-> OfStack(slots[i], x)]

LEMMA OfStackType == ASSUME NEW s \in Stacks, NEW x PROVE OfStack(s, x) \in Nat
BY DEF Stacks, OfStack, Empty

LEMMA SlotsFinite ==
  ASSUME NEW n \in Nat, NEW slots \in Slots(n), NEW x
  PROVE  /\ DOMAIN slots = 0..n - 1 /\ IsFiniteSet(DOMAIN slots)
         /\ \A i \in DOMAIN slots : Of(slots, x)[i] = OfStack(slots[i], x) /\ Of(slots, x)[i] \in Nat
<1>1. IsFiniteSet(0..n - 1)
  <2>1. 0 \in Int /\ n - 1 \in Int  OBVIOUS
  <2> QED BY <2>1, FS_Interval, Zenon
<1> QED BY <1>1, OfStackType DEF Slots, Of

LEMMA CountSums ==
  ASSUME NEW n \in Nat, NEW slots \in Slots(n), NEW x
  PROVE  Count(slots, x) = Sum(Of(slots, x), DOMAIN slots) /\ Count(slots, x) \in Nat
<1> DEFINE D == DOMAIN slots
           f == Of(slots, x)
           Next1(g) == [T \in SUBSET D |-> IF T = {} THEN 0
                         ELSE (IF slots[Pick(T)].item = x THEN slots[Pick(T)].count ELSE 0)
                              + g[T \ {Pick(T)}]]
           iter == CHOOSE g : g = Next1(g)
<1>1. IsFiniteSet(D) /\ \A t \in D : f[t] \in Nat  BY SlotsFinite
<1>2. Count(slots, x) = iter[D]  BY Zenon DEF Count, MapThenSumSet, MapThenFoldSet, Pick
<1>3. \A g : Next1(g) = Round(g, f, D)
  <2>1. \A T \in SUBSET D : T # {} => Pick(T) \in D  BY DEF Pick
  <2>2. \A t \in D : f[t] = IF slots[t].item = x THEN slots[t].count ELSE 0  BY DEF Of, OfStack
  <2> HIDE DEF D, f
  <2> QED BY <2>1, <2>2 DEF Round
<1>4. Sums(f, D) = Round(Sums(f, D), f, D)
  <2> HIDE DEF D, f
  <2> QED BY <1>1, SumsSolve
<1>5. iter = Round(iter, f, D)
  <2> HIDE DEF Next1, f, D
  <2>1. Sums(f, D) = Next1(Sums(f, D))  BY <1>3, <1>4
  <2>2. iter = Next1(iter)  BY <2>1
  <2> QED BY <1>3, <2>2
<1>6. iter[D] = Sums(f, D)[D]
  <2> DEFINE h == Sums(f, D)
  <2>1. h = Round(h, f, D)  BY <1>4
  <2> HIDE DEF iter, f, D, h
  <2>2. \A T \in SUBSET D : iter[T] = h[T]  BY <1>1, <1>5, <2>1, SumsAgree
  <2>3. iter[D] = h[D]  BY <2>2
  <2> QED BY <2>3 DEF h
<1>7. Sum(f, D) \in Nat
  <2> HIDE DEF f, D
  <2> QED BY <1>1, SumType
<1> QED BY <1>2, <1>6, <1>7 DEF Sum

(* A slot that gets another stack *)
LEMMA CountSets ==
  ASSUME NEW n \in Nat, NEW slots \in Slots(n), NEW i \in 0..n - 1, NEW v \in Stacks, NEW x
  PROVE  /\ [slots EXCEPT ![i] = v] \in Slots(n)
         /\ Count([slots EXCEPT ![i] = v], x) = Count(slots, x) - OfStack(slots[i], x) + OfStack(v, x)
         /\ Count(slots, x) \in Nat /\ OfStack(slots[i], x) \in Nat /\ OfStack(v, x) \in Nat
<1> DEFINE after == [slots EXCEPT ![i] = v]
           D == DOMAIN slots
           f == Of(slots, x)
           e == Of(after, x)
           E == D \ {i}
<1>1. after \in Slots(n) /\ DOMAIN after = D /\ i \in D  BY DEF Slots
<1>2. /\ IsFiniteSet(D)
      /\ \A t \in D : f[t] \in Nat /\ f[t] = OfStack(slots[t], x)
  BY SlotsFinite
<1>3. \A t \in D : e[t] \in Nat /\ e[t] = OfStack(after[t], x)
  <2> HIDE DEF after
  <2> QED BY <1>1, SlotsFinite
<1>4. Count(slots, x) = Sum(f, D) /\ Count(slots, x) \in Nat  BY CountSums
<1>5. Count(after, x) = Sum(e, D)
  <2> HIDE DEF after
  <2> QED BY <1>1, CountSums
<1>6. e[i] = OfStack(v, x) /\ f[i] = OfStack(slots[i], x) /\ \A t \in E : f[t] = e[t]
  <2>1. after[i] = v /\ \A t \in E : after[t] = slots[t]  BY <1>1
  <2> HIDE DEF after, f, e, D
  <2> QED BY <1>1, <1>2, <1>3, <2>1
<1>7. IsFiniteSet(E)  BY <1>2, FS_Subset
<1> HIDE DEF f, e, D, after
<1>8. Sum(f, D) = f[i] + Sum(f, E)  BY <1>1, <1>2, SumAdds
<1>9. Sum(e, D) = e[i] + Sum(e, E)  BY <1>1, <1>2, <1>3, SumAdds
<1> HIDE DEF E
<1>10. Sum(f, E) = Sum(e, E) /\ Sum(f, E) \in Nat
  <2>1. \A t \in E : f[t] \in Nat  BY <1>2 DEF E
  <2> QED BY <1>6, <1>7, <2>1, SumSame, SumType
<1>11. OfStack(v, x) \in Nat /\ OfStack(slots[i], x) \in Nat  BY <1>1, <1>2, <1>3, <1>6
<1> QED BY <1>1, <1>4, <1>5, <1>6, <1>8, <1>9, <1>10, <1>11 DEF after

-----------------------------------------------------------------------------
(***************************************************************************)
(* Filling slots: what deposit and its passes make of slots and a stack holds*)
(* what these held                                                         *)
(***************************************************************************)

StackSizes == MaxStack \in [Items -> Nat \ {0}]

LEMMA StackFacts ==
  ASSUME NEW s \in Stacks
  PROVE  /\ s.count \in Nat /\ (s.count = 0 <=> s = Empty)
         /\ s.count > 0 => s \in [item : Items, count : Nat \ {0}] /\ s.item \in Items
         /\ \A x : OfStack(s, x) = IF s.item = x THEN s.count ELSE 0
         /\ \A x : OfStack(Empty, x) = 0
BY DEF Stacks, Empty, OfStack

LEMMA EmptyStack == Empty \in Stacks /\ Empty.count = 0 /\ \A x : OfStack(Empty, x) = 0
BY DEF Stacks, Empty, OfStack

LEMMA WithCountSays ==
  ASSUME NEW s \in Stacks, s.count > 0, NEW m \in Nat
  PROVE  /\ WithCount(s, m) \in Stacks /\ WithCount(s, m).count = m
         /\ m > 0 => WithCount(s, m).item = s.item
         /\ \A x : OfStack(WithCount(s, m), x) = IF s.item = x THEN m ELSE 0
<1>1. s \in [item : Items, count : Nat \ {0}]  BY StackFacts
<1>2. CASE m = 0
  <2>1. WithCount(s, m) = Empty  BY <1>2 DEF WithCount
  <2> QED BY <1>2, <2>1, EmptyStack
<1>3. CASE m # 0
  <2>1. WithCount(s, m) = [s EXCEPT !.count = m]  BY <1>3 DEF WithCount
  <2>2. [s EXCEPT !.count = m] \in [item : Items, count : Nat \ {0}]  BY <1>1, <1>3
  <2> QED BY <1>1, <2>1, <2>2 DEF Stacks, OfStack
<1> QED BY <1>2, <1>3

(* What slots and a stack hold together *)
Held(n, total) ==
  {a \in [slots : Slots(n), stack : Stacks] :
     \A x \in Items : Count(a.slots, x) + OfStack(a.stack, x) = total[x]}

LEMMA Exchange ==
  ASSUME NEW n \in Nat, NEW slots \in Slots(n), NEW stack \in Stacks, NEW i \in 0..n - 1,
         NEW v \in Stacks, NEW u \in Stacks, NEW x,
         OfStack(v, x) + OfStack(u, x) = OfStack(slots[i], x) + OfStack(stack, x)
  PROVE  Count([slots EXCEPT ![i] = v], x) + OfStack(u, x) = Count(slots, x) + OfStack(stack, x)
<1>1. /\ Count([slots EXCEPT ![i] = v], x) = Count(slots, x) - OfStack(slots[i], x) + OfStack(v, x)
      /\ Count(slots, x) \in Nat /\ OfStack(slots[i], x) \in Nat /\ OfStack(v, x) \in Nat
  BY CountSets
<1>2. OfStack(u, x) \in Nat /\ OfStack(stack, x) \in Nat  BY OfStackType
<1> QED BY <1>1, <1>2

LEMMA HeldStays ==
  ASSUME NEW n \in Nat, NEW total, NEW a \in Held(n, total), NEW i \in 0..n - 1,
         NEW v \in Stacks, NEW u \in Stacks,
         \A x \in Items : OfStack(v, x) + OfStack(u, x) = OfStack(a.slots[i], x) + OfStack(a.stack, x)
  PROVE  [slots |-> [a.slots EXCEPT ![i] = v], stack |-> u] \in Held(n, total)
<1>1. a.slots \in Slots(n) /\ a.stack \in Stacks  BY DEF Held
<1> DEFINE after == [a.slots EXCEPT ![i] = v]
<1>2. after \in Slots(n)  BY <1>1 DEF Slots
<1>3. ASSUME NEW x \in Items PROVE Count(after, x) + OfStack(u, x) = total[x]
  <2>1. Count(after, x) + OfStack(u, x) = Count(a.slots, x) + OfStack(a.stack, x)
    BY <1>1, Exchange
  <2> QED BY <2>1 DEF Held
<1> HIDE DEF after
<1>4. [slots |-> after, stack |-> u] \in Held(n, total)  BY <1>2, <1>3 DEF Held
<1> QED BY <1>4 DEF after

LEMMA MergeHolds ==
  ASSUME StackSizes, NEW n \in Nat, NEW total, NEW a \in Held(n, total), NEW i \in 0..n - 1
  PROVE  Merge(a, i) \in Held(n, total)
<1> DEFINE moved == Least(MaxStack[a.stack.item] - a.slots[i].count, a.stack.count)
<1>1. CASE a.stack.count > 0 /\ SameItem(a.slots[i], a.stack) /\ moved > 0
  <2>1. a.slots \in Slots(n) /\ a.stack \in Stacks /\ a.slots[i] \in Stacks  BY DEF Held, Slots
  <2>2. /\ a.stack.item \in Items /\ a.stack.count \in Nat /\ a.slots[i].count \in Nat
        /\ a.slots[i] \in [item : Items, count : Nat \ {0}] /\ a.slots[i].item = a.stack.item
    BY <1>1, <2>1, StackFacts DEF SameItem
  <2>3. moved \in Nat /\ moved <= a.stack.count  BY <1>1, <2>2 DEF StackSizes, Least
  <2> DEFINE v == [a.slots[i] EXCEPT !.count = @ + moved]
             u == WithCount(a.stack, a.stack.count - moved)
  <2>4. Merge(a, i) = [slots |-> [a.slots EXCEPT ![i] = v], stack |-> u]
    <3>1. Merge(a, i) = [slots |-> [a.slots EXCEPT ![i].count = @ + moved], stack |-> u]
      BY <1>1 DEF Merge
    <3>2. [a.slots EXCEPT ![i].count = @ + moved] = [a.slots EXCEPT ![i] = v]  OBVIOUS
    <3> QED BY <3>1, <3>2
  <2> HIDE DEF moved
  <2>5. /\ v \in Stacks
        /\ \A x : OfStack(v, x) = IF a.stack.item = x THEN a.slots[i].count + moved ELSE 0
    BY <2>2, <2>3 DEF Stacks, OfStack
  <2>6. /\ u \in Stacks
        /\ \A x : OfStack(u, x) = IF a.stack.item = x THEN a.stack.count - moved ELSE 0
    BY <1>1, <2>1, <2>2, <2>3, WithCountSays
  <2> HIDE DEF v, u
  <2>7. \A x : OfStack(v, x) + OfStack(u, x) = OfStack(a.slots[i], x) + OfStack(a.stack, x)
    <3>1. \A x : OfStack(a.slots[i], x) = IF a.stack.item = x THEN a.slots[i].count ELSE 0
      BY <2>2 DEF OfStack
    <3>2. \A x : OfStack(a.stack, x) = IF a.stack.item = x THEN a.stack.count ELSE 0  BY DEF OfStack
    <3> QED BY <2>2, <2>3, <2>5, <2>6, <3>1, <3>2
  <2> QED BY <2>4, <2>5, <2>6, <2>7, HeldStays
<1>2. CASE ~(a.stack.count > 0 /\ SameItem(a.slots[i], a.stack) /\ moved > 0)
  <2>1. Merge(a, i) = a  BY <1>2 DEF Merge
  <2> QED BY <2>1
<1> QED BY <1>1, <1>2

LEMMA FillHolds ==
  ASSUME StackSizes, NEW n \in Nat, NEW total, NEW a \in Held(n, total), NEW i \in 0..n - 1
  PROVE  Fill(a, i) \in Held(n, total)
<1> DEFINE moved == Least(MaxStack[a.stack.item], a.stack.count)
<1>1. CASE a.stack.count > 0 /\ a.slots[i].count = 0
  <2>1. a.slots \in Slots(n) /\ a.stack \in Stacks /\ a.slots[i] \in Stacks  BY DEF Held, Slots
  <2>2. a.stack.item \in Items /\ a.stack.count \in Nat /\ a.slots[i] = Empty
    BY <1>1, <2>1, StackFacts
  <2>3. moved \in Nat /\ moved <= a.stack.count  BY <1>1, <2>2 DEF StackSizes, Least
  <2> DEFINE v == WithCount(a.stack, moved)
             u == WithCount(a.stack, a.stack.count - moved)
  <2>4. Fill(a, i) = [slots |-> [a.slots EXCEPT ![i] = v], stack |-> u]  BY <1>1 DEF Fill
  <2> HIDE DEF moved
  <2>5. v \in Stacks /\ \A x : OfStack(v, x) = IF a.stack.item = x THEN moved ELSE 0
    BY <1>1, <2>1, <2>3, WithCountSays
  <2>6. /\ u \in Stacks
        /\ \A x : OfStack(u, x) = IF a.stack.item = x THEN a.stack.count - moved ELSE 0
    BY <1>1, <2>1, <2>2, <2>3, WithCountSays
  <2> HIDE DEF v, u
  <2>7. \A x : OfStack(v, x) + OfStack(u, x) = OfStack(a.slots[i], x) + OfStack(a.stack, x)
    <3>1. \A x : OfStack(a.slots[i], x) = 0  BY <2>2, EmptyStack
    <3>2. \A x : OfStack(a.stack, x) = IF a.stack.item = x THEN a.stack.count ELSE 0  BY DEF OfStack
    <3> QED BY <2>2, <2>3, <2>5, <2>6, <3>1, <3>2
  <2> QED BY <2>4, <2>5, <2>6, <2>7, HeldStays
<1>2. CASE ~(a.stack.count > 0 /\ a.slots[i].count = 0)
  <2>1. Fill(a, i) = a  BY <1>2 DEF Fill
  <2> QED BY <2>1
<1> QED BY <1>1, <1>2

LEMMA FillsStay ==
  ASSUME NEW X, NEW base \in X, NEW n \in Nat, NEW order, DOMAIN order = 1..n,
         \A a \in X : \A k \in 1..n : Fill(a, order[k]) \in X
  PROVE  FoldLeft(Fill, base, order) \in X
<1> DEFINE D == 1..n
           pick == [T \in SUBSET D |-> Max(T)]
           F == [p \in D \X X |-> Fill(p[2], order[p[1]])]
           Next1(g) == [T \in SUBSET D |-> IF T = {} THEN base
                                          ELSE Fill(g[T \ {Max(T)}], order[Max(T)])]
           iter == CHOOSE g : g = Next1(g)
<1>1. IsFiniteSet(D) /\ (\A T \in SUBSET D : T # {} => pick[T] \in T)  BY Largest
<1>2. F \in [D \X X -> X]  OBVIOUS
<1>3. PICK g \in [SUBSET D -> X] : Computes(g, D, base, pick, F)
  <2> HIDE DEF D, pick, F
  <2> QED BY <1>1, <1>2, Recursion, Zenon
<1>4. g = Next1(g)
  <2>1. \A T \in SUBSET D : T # {} => g[T] = Fill(g[T \ {Max(T)}], order[Max(T)])
    BY <1>1, <1>3 DEF Computes
  <2>2. g[{}] = base  BY <1>3 DEF Computes
  <2>3. g = [T \in SUBSET D |-> g[T]]  BY <1>3
  <2> QED BY <2>1, <2>2, <2>3
<1>5. iter = Next1(iter)  BY <1>4
<1>6. \A T \in SUBSET D : iter[T] \in X
  <2> HIDE DEF iter
  <2>1. iter[{}] \in X
    <3>1. {} \in SUBSET D  OBVIOUS
    <3> QED BY <1>5, <3>1
  <2>2. ASSUME NEW T \in SUBSET D, T # {}, iter[T \ {pick[T]}] \in X PROVE iter[T] \in X
    <3>1. pick[T] = Max(T) /\ Max(T) \in D  BY <1>1, <2>2
    <3>2. iter[T] = Fill(iter[T \ {Max(T)}], order[Max(T)])  BY <1>5, <2>2
    <3> QED BY <2>2, <3>1, <3>2
  <2> HIDE DEF D, pick
  <2> QED BY <1>1, <2>1, <2>2, Invariance
<1>7. FoldLeft(Fill, base, order) = iter[D]  BY Zenon DEF FoldLeft, MapThenFoldSet
<1> QED BY <1>6, <1>7
(* What deposit does not put into slots stays in the stack. *)
LEMMA DepositHolds ==
  ASSUME StackSizes, NEW n \in Nat, NEW slots \in Slots(n), NEW stack \in Stacks,
         NEW order \in Seq(0..n - 1)
  PROVE  /\ Deposit(slots, stack, order).slots \in Slots(n)
         /\ Deposit(slots, stack, order).stack \in Stacks
         /\ \A x \in Items : Count(Deposit(slots, stack, order).slots, x)
                             + OfStack(Deposit(slots, stack, order).stack, x)
                           = Count(slots, x) + OfStack(stack, x)
<1> DEFINE total == [x \in Items |-> Count(slots, x) + OfStack(stack, x)]
           X == Held(n, total)
           base == [slots |-> slots, stack |-> stack]
           m == Len(order)
           merged == FoldLeft(Merge, base, order)
<1>1. base \in X  BY DEF Held
<1>2. m \in Nat /\ DOMAIN order = 1..m /\ \A k \in 1..m : order[k] \in 0..n - 1  OBVIOUS
<1>3. merged \in X
  <2>1. \A a \in X : \A k \in 1..m : Merge(a, order[k]) \in X  BY <1>2, MergeHolds
  <2> HIDE DEF X, base, m
  <2> QED BY <1>1, <1>2, <2>1, MergesStay
<1>4. FoldLeft(Fill, merged, order) \in X
  <2>1. \A a \in X : \A k \in 1..m : Fill(a, order[k]) \in X  BY <1>2, FillHolds
  <2> HIDE DEF X, m, merged
  <2> QED BY <1>2, <1>3, <2>1, FillsStay
<1>5. Deposit(slots, stack, order) \in X  BY <1>4 DEF Deposit
<1> HIDE DEF merged, base, m
<1> QED BY <1>5 DEF Held

-----------------------------------------------------------------------------
(***************************************************************************)
(* Windows: a click keeps what the slots, the cursor and what is thrown hold*)
(***************************************************************************)

(* Windows, and what they hold with what is on the cursor and what is thrown *)
Drags(n) == [kind : {"none", "left", "right"}, slots : Seq(0..n - 1)]
Apart(layout) ==
  \A i : /\ Among(i, layout.container) => ~Among(i, layout.main) /\ ~Among(i, layout.hotbar)
         /\ Among(i, layout.main) => ~Among(i, layout.hotbar)
Layouts(n) ==
  {layout \in [player : BOOLEAN, container : Seq(0..n - 1), main : Seq(0..n - 1),
               hotbar : Seq(0..n - 1), offhand : SUBSET (0..n - 1), output : SUBSET Int] :
     Apart(layout)}
Windows(n) ==
  [slots : Slots(n), cursor : Stacks, layout : Layouts(n), drag : Drags(n), dropped : Stacks]
Total(w, x) == Count(w.slots, x) + OfStack(w.cursor, x) + OfStack(w.dropped, x)
(* w is after, in place of before: everything is still somewhere. *)
Keeps(n, before, after) ==
  after \in Windows(n) /\ \A x \in Items : Total(after, x) = Total(before, x)

LEMMA WindowFacts ==
  ASSUME NEW n \in Nat, NEW w \in Windows(n)
  PROVE  /\ w.slots \in Slots(n) /\ w.cursor \in Stacks /\ w.layout \in Layouts(n)
         /\ w.drag \in Drags(n) /\ w.dropped \in Stacks
         /\ \A i \in 0..n - 1 : w.slots[i] \in Stacks
         /\ \A x : Count(w.slots, x) \in Nat /\ OfStack(w.cursor, x) \in Nat /\ OfStack(w.dropped, x) \in Nat
<1>1. /\ w.slots \in Slots(n) /\ w.cursor \in Stacks /\ w.layout \in Layouts(n)
      /\ w.drag \in Drags(n) /\ w.dropped \in Stacks
  BY DEF Windows
<1>2. \A i \in 0..n - 1 : w.slots[i] \in Stacks  BY <1>1 DEF Slots
<1>3. \A x : Count(w.slots, x) \in Nat  BY <1>1, CountSums
<1> QED BY <1>1, <1>2, <1>3, OfStackType

(* From a slot to the cursor or back *)
LEMMA PutKeeps ==
  ASSUME NEW n \in Nat, NEW w \in Windows(n), NEW i \in 0..n - 1, NEW v \in Stacks, NEW u \in Stacks,
         \A x \in Items : OfStack(v, x) + OfStack(u, x) = OfStack(w.slots[i], x) + OfStack(w.cursor, x)
  PROVE  Keeps(n, w, [w EXCEPT !.slots[i] = v, !.cursor = u])
<1> DEFINE after == [w.slots EXCEPT ![i] = v]
           z == [w EXCEPT !.slots = after, !.cursor = u]
<1>1. after \in Slots(n)  BY WindowFacts DEF Slots
<1>2. z = [w EXCEPT !.slots[i] = v, !.cursor = u]  OBVIOUS
<1>3. ASSUME NEW x \in Items
      PROVE  Count(after, x) + OfStack(u, x) = Count(w.slots, x) + OfStack(w.cursor, x)
  BY WindowFacts, Exchange
<1>4. \A x : Count(after, x) \in Nat  BY <1>1, CountSums
<1> HIDE DEF after
<1>5. z \in Windows(n) /\ z.slots = after /\ z.cursor = u /\ z.dropped = w.dropped
  BY <1>1 DEF Windows
<1>6. \A x \in Items : Total(z, x) = Total(w, x)
  BY <1>3, <1>4, <1>5, WindowFacts, OfStackType DEF Total
<1> QED BY <1>2, <1>5, <1>6 DEF Keeps

(* From a slot to the ground *)
LEMMA SlotThrownKeeps ==
  ASSUME NEW n \in Nat, NEW w \in Windows(n), w.dropped = Empty, NEW i \in 0..n - 1,
         NEW v \in Stacks, NEW d \in Stacks,
         \A x \in Items : OfStack(v, x) + OfStack(d, x) = OfStack(w.slots[i], x)
  PROVE  Keeps(n, w, Thrown([w EXCEPT !.slots[i] = v], d))
<1> DEFINE after == [w.slots EXCEPT ![i] = v]
           z == [w EXCEPT !.slots = after, !.dropped = d]
<1>1. after \in Slots(n)  BY WindowFacts DEF Slots
<1>2. z = Thrown([w EXCEPT !.slots[i] = v], d)  BY DEF Thrown
<1>3. ASSUME NEW x \in Items
      PROVE  Count(after, x) + OfStack(d, x) = Count(w.slots, x)
  <2>1. OfStack(Empty, x) = 0 /\ Empty \in Stacks  BY EmptyStack
  <2>2. OfStack(v, x) + OfStack(d, x) = OfStack(w.slots[i], x) + OfStack(Empty, x)
    BY <2>1, WindowFacts, OfStackType
  <2>3. Count(after, x) + OfStack(d, x) = Count(w.slots, x) + OfStack(Empty, x)
    BY <2>1, <2>2, WindowFacts, Exchange
  <2> QED BY <2>1, <2>3, WindowFacts
<1>4. \A x : Count(after, x) \in Nat  BY <1>1, CountSums
<1> HIDE DEF after
<1>5. z \in Windows(n) /\ z.slots = after /\ z.cursor = w.cursor /\ z.dropped = d
  BY <1>1 DEF Windows
<1>6. \A x \in Items : Total(z, x) = Total(w, x)
  BY <1>3, <1>4, <1>5, WindowFacts, OfStackType, EmptyStack DEF Total
<1> QED BY <1>2, <1>5, <1>6 DEF Keeps

(* From the cursor to the ground *)
LEMMA CursorThrownKeeps ==
  ASSUME NEW n \in Nat, NEW w \in Windows(n), w.dropped = Empty,
         NEW u \in Stacks, NEW d \in Stacks,
         \A x \in Items : OfStack(u, x) + OfStack(d, x) = OfStack(w.cursor, x)
  PROVE  Keeps(n, w, Thrown([w EXCEPT !.cursor = u], d))
<1> DEFINE z == [w EXCEPT !.cursor = u, !.dropped = d]
<1>1. z = Thrown([w EXCEPT !.cursor = u], d)  BY DEF Thrown
<1>2. z \in Windows(n) /\ z.slots = w.slots /\ z.cursor = u /\ z.dropped = d  BY DEF Windows
<1>3. ASSUME NEW x \in Items PROVE Total(z, x) = Total(w, x)
  <2>1. OfStack(w.dropped, x) = 0  BY EmptyStack
  <2>2. OfStack(u, x) \in Nat /\ OfStack(d, x) \in Nat /\ Count(w.slots, x) \in Nat
    BY WindowFacts, OfStackType
  <2>3. OfStack(u, x) + OfStack(d, x) = OfStack(w.cursor, x)  OBVIOUS
  <2>4. Total(w, x) = Count(w.slots, x) + OfStack(w.cursor, x) + OfStack(w.dropped, x)  BY DEF Total
  <2>5. Total(z, x) = Count(w.slots, x) + OfStack(u, x) + OfStack(d, x)  BY <1>2 DEF Total
  <2> HIDE DEF z
  <2> QED BY <2>1, <2>2, <2>3, <2>4, <2>5
<1> QED BY <1>1, <1>2, <1>3 DEF Keeps

LEMMA KeepsItself == ASSUME NEW n \in Nat, NEW w \in Windows(n) PROVE Keeps(n, w, w)
BY DEF Keeps

LEMMA PickupKeeps ==
  ASSUME StackSizes, NEW n \in Nat, NEW w \in Windows(n), NEW s \in 0..n - 1, NEW right \in BOOLEAN
  PROVE  Keeps(n, w, Pickup(w, s, right))
<1> DEFINE target == w.slots[s]
           cursor == w.cursor
           half == (target.count + 1) \div 2
           space == MaxStack[cursor.item] - target.count
           moved == Least(IF right THEN 1 ELSE cursor.count, space)
           Put(t, c) == [w EXCEPT !.slots[s] = t, !.cursor = c]
<1>1. target \in Stacks /\ cursor \in Stacks  BY WindowFacts
<1>2. \A t, c \in Stacks :
        (\A x \in Items : OfStack(t, x) + OfStack(c, x) = OfStack(target, x) + OfStack(cursor, x))
          => Keeps(n, w, Put(t, c))
  BY PutKeeps
<1>3. /\ target.count \in Nat /\ cursor.count \in Nat
      /\ \A x : OfStack(target, x) = IF target.item = x THEN target.count ELSE 0
      /\ \A x : OfStack(cursor, x) = IF cursor.item = x THEN cursor.count ELSE 0
      /\ (target.count = 0 => target = Empty) /\ (cursor.count = 0 => cursor = Empty)
      /\ Empty \in Stacks /\ \A x : OfStack(Empty, x) = 0
  BY <1>1, StackFacts, EmptyStack
<1>4. \A x : OfStack(target, x) \in Nat /\ OfStack(cursor, x) \in Nat  BY <1>1, OfStackType
<1>5. CASE cursor.count = 0 /\ target.count = 0
  <2>1. Pickup(w, s, right) = w  BY <1>5 DEF Pickup
  <2> QED BY <2>1, KeepsItself
<1>6. CASE cursor.count = 0 /\ target.count # 0 /\ right
  <2> DEFINE t == WithCount(target, target.count - half)
             c == WithCount(target, half)
  <2>1. Pickup(w, s, right) = Put(t, c)  BY <1>6 DEF Pickup
  <2>2. half \in Nat /\ target.count - half \in Nat /\ target.count > 0  BY <1>3, <1>6
  <2> HIDE DEF half, target, cursor
  <2>3. /\ t \in Stacks /\ \A x : OfStack(t, x) = IF target.item = x THEN target.count - half ELSE 0
        /\ c \in Stacks /\ \A x : OfStack(c, x) = IF target.item = x THEN half ELSE 0
    BY <1>1, <2>2, WithCountSays
  <2> HIDE DEF t, c, Put
  <2>4. \A x \in Items : OfStack(t, x) + OfStack(c, x) = OfStack(target, x) + OfStack(cursor, x)
    BY <1>3, <1>6, <2>2, <2>3
  <2> QED BY <1>2, <2>1, <2>3, <2>4
<1>7. CASE cursor.count = 0 /\ target.count # 0 /\ ~right
  <2>1. Pickup(w, s, right) = Put(Empty, target)  BY <1>7 DEF Pickup
  <2> HIDE DEF target, cursor, Put
  <2>2. \A x \in Items : OfStack(Empty, x) + OfStack(target, x) = OfStack(target, x) + OfStack(cursor, x)
    BY <1>3, <1>4, <1>7
  <2> QED BY <1>1, <1>2, <1>3, <2>1, <2>2
<1>8. CASE cursor.count # 0 /\ target.count = 0 /\ right
  <2> DEFINE t == WithCount(cursor, 1)
             c == WithCount(cursor, cursor.count - 1)
  <2>1. Pickup(w, s, right) = Put(t, c)  BY <1>8 DEF Pickup
  <2>2. 1 \in Nat /\ cursor.count - 1 \in Nat /\ cursor.count > 0  BY <1>3, <1>8
  <2> HIDE DEF target, cursor
  <2>3. /\ t \in Stacks /\ \A x : OfStack(t, x) = IF cursor.item = x THEN 1 ELSE 0
        /\ c \in Stacks /\ \A x : OfStack(c, x) = IF cursor.item = x THEN cursor.count - 1 ELSE 0
    BY <1>1, <2>2, WithCountSays
  <2> HIDE DEF t, c, Put
  <2>4. \A x \in Items : OfStack(t, x) + OfStack(c, x) = OfStack(target, x) + OfStack(cursor, x)
    BY <1>3, <1>8, <2>2, <2>3
  <2> QED BY <1>2, <2>1, <2>3, <2>4
<1>9. CASE cursor.count # 0 /\ target.count = 0 /\ ~right
  <2>1. Pickup(w, s, right) = Put(cursor, Empty)  BY <1>9 DEF Pickup
  <2> HIDE DEF target, cursor, Put
  <2>2. \A x \in Items : OfStack(cursor, x) + OfStack(Empty, x) = OfStack(target, x) + OfStack(cursor, x)
    BY <1>3, <1>4, <1>9
  <2> QED BY <1>1, <1>2, <1>3, <2>1, <2>2
<1>10. CASE cursor.count # 0 /\ target.count # 0 /\ SameItem(target, cursor) /\ space > 0
  <2> DEFINE t == WithCount(target, target.count + moved)
             c == WithCount(cursor, cursor.count - moved)
  <2>1. Pickup(w, s, right) = Put(t, c)  BY <1>10 DEF Pickup
  <2>2. cursor.item = target.item /\ cursor.item \in Items  BY <1>1, <1>3, <1>10, StackFacts DEF SameItem
  <2>3. /\ target.count + moved \in Nat /\ cursor.count - moved \in Nat /\ moved \in Nat
        /\ cursor.count > 0 /\ target.count > 0
    BY <1>3, <1>10, <2>2 DEF StackSizes, Least
  <2> HIDE DEF moved, target, cursor
  <2>4. /\ t \in Stacks
        /\ \A x : OfStack(t, x) = IF target.item = x THEN target.count + moved ELSE 0
    BY <1>1, <2>3, WithCountSays
  <2>5. /\ c \in Stacks
        /\ \A x : OfStack(c, x) = IF cursor.item = x THEN cursor.count - moved ELSE 0
    BY <1>1, <2>3, WithCountSays
  <2> HIDE DEF t, c, Put
  <2>6. \A x \in Items : OfStack(t, x) + OfStack(c, x) = OfStack(target, x) + OfStack(cursor, x)
    BY <1>3, <2>2, <2>3, <2>4, <2>5
  <2> QED BY <1>2, <2>1, <2>4, <2>5, <2>6
<1>11. CASE cursor.count # 0 /\ target.count # 0 /\ SameItem(target, cursor) /\ ~(space > 0)
  <2>1. Pickup(w, s, right) = w  BY <1>11 DEF Pickup
  <2> QED BY <2>1, KeepsItself
<1>12. CASE cursor.count # 0 /\ target.count # 0 /\ ~SameItem(target, cursor)
  <2>1. Pickup(w, s, right) = Put(cursor, target)  BY <1>12 DEF Pickup
  <2> HIDE DEF target, cursor, Put
  <2>2. \A x \in Items : OfStack(cursor, x) + OfStack(target, x) = OfStack(target, x) + OfStack(cursor, x)
    BY <1>4
  <2> QED BY <1>1, <1>2, <2>1, <2>2
<1> QED BY <1>5, <1>6, <1>7, <1>8, <1>9, <1>10, <1>11, <1>12

LEMMA TargetsElsewhere ==
  ASSUME NEW n \in Nat, NEW layout \in Layouts(n), NEW s
  PROVE  /\ QuickMoveTargets(layout, s) \in Seq(0..n - 1)
         /\ \A k \in 1..Len(QuickMoveTargets(layout, s)) : QuickMoveTargets(layout, s)[k] # s
<1> DEFINE c == layout.container
           m == layout.main
           h == layout.hotbar
           both == m \o h
           T == QuickMoveTargets(layout, s)
<1>1. layout.player \in BOOLEAN /\ c \in Seq(0..n - 1) /\ m \in Seq(0..n - 1) /\ h \in Seq(0..n - 1)
  BY DEF Layouts
<1>2. /\ Among(s, c) => ~Among(s, m) /\ ~Among(s, h)
      /\ Among(s, m) => ~Among(s, h)
  BY DEF Layouts, Apart
<1> HIDE DEF c, m, h
<1>3. both \in Seq(0..n - 1) /\ Len(both) = Len(m) + Len(h) /\ Len(m) \in Nat /\ Len(h) \in Nat
  BY <1>1
<1>4. \A k \in 1..Len(both) : \/ \E j \in 1..Len(m) : both[k] = m[j]
                              \/ \E j \in 1..Len(h) : both[k] = h[j]
  <2> SUFFICES ASSUME NEW k \in 1..Len(both)
               PROVE  \/ \E j \in 1..Len(m) : both[k] = m[j]
                      \/ \E j \in 1..Len(h) : both[k] = h[j]
    OBVIOUS
  <2>1. CASE k <= Len(m)
    <3>1. k \in 1..Len(m) /\ both[k] = m[k]  BY <1>1, <1>3, <2>1
    <3> QED BY <3>1
  <2>2. CASE k > Len(m)
    <3>1. k - Len(m) \in 1..Len(h) /\ both[k] = h[k - Len(m)]  BY <1>1, <1>3, <2>2
    <3> QED BY <3>1
  <2> QED BY <1>3, <2>1, <2>2
<1> HIDE DEF both
<1>5. /\ Reverse(both) \in Seq(0..n - 1) /\ Len(Reverse(both)) = Len(both)
      /\ \A k \in 1..Len(both) : \E j \in 1..Len(both) : Reverse(both)[k] = both[j]
  <2>1. Reverse(both) = [i \in 1..Len(both) |-> both[(Len(both) - i) + 1]]  BY DEF Reverse
  <2>2. Len(both) \in Nat /\ \A j \in 1..Len(both) : both[j] \in 0..n - 1  BY <1>3
  <2>3. \A i \in 1..Len(both) : (Len(both) - i) + 1 \in 1..Len(both)  BY <2>2
  <2>4. \A i \in 1..Len(both) : Reverse(both)[i] = both[(Len(both) - i) + 1]  BY <2>1
  <2>5. Reverse(both) \in [1..Len(both) -> 0..n - 1]  BY <2>1, <2>2, <2>3
  <2>6. Reverse(both) \in Seq(0..n - 1) /\ Len(Reverse(both)) = Len(both)  BY <2>2, <2>5
  <2> QED BY <2>3, <2>4, <2>6
<1>6. CASE layout.player /\ Among(s, h)
  <2>1. T = m  BY <1>6 DEF QuickMoveTargets, m, h
  <2> QED BY <1>1, <1>2, <1>6, <2>1 DEF Among
<1>7. CASE layout.player /\ ~Among(s, h) /\ Among(s, m)
  <2>1. T = h  BY <1>7 DEF QuickMoveTargets, m, h
  <2> QED BY <1>1, <1>2, <1>7, <2>1 DEF Among
<1>8. CASE layout.player /\ ~Among(s, h) /\ ~Among(s, m)
  <2>1. T = both  BY <1>8 DEF QuickMoveTargets, m, h, both
  <2>2. \A k \in 1..Len(both) : both[k] # s  BY <1>4, <1>8 DEF Among
  <2> QED BY <1>3, <2>1, <2>2
<1>9. CASE ~layout.player /\ Among(s, c)
  <2>1. T = Reverse(both)  BY <1>9 DEF QuickMoveTargets, m, h, c, both
  <2>2. \A k \in 1..Len(both) : both[k] # s  BY <1>2, <1>4, <1>9 DEF Among
  <2>3. \A k \in 1..Len(both) : Reverse(both)[k] # s  BY <1>5, <2>2
  <2> QED BY <1>5, <2>1, <2>3
<1>10. CASE ~layout.player /\ ~Among(s, c)
  <2>1. T = c  BY <1>10 DEF QuickMoveTargets, c
  <2> QED BY <1>1, <1>10, <2>1 DEF Among
<1> QED BY <1>1, <1>6, <1>7, <1>8, <1>9, <1>10

(* A slot that is no target keeps its stack. *)
LEMMA DepositSpares ==
  ASSUME StackSizes, NEW n \in Nat, NEW slots \in Slots(n), NEW stack \in Stacks,
         NEW order \in Seq(0..n - 1), NEW s, \A k \in 1..Len(order) : order[k] # s
  PROVE  Deposit(slots, stack, order).slots[s] = slots[s]
<1> DEFINE total == [x \in Items |-> Count(slots, x) + OfStack(stack, x)]
           X == {a \in Held(n, total) : a.slots[s] = slots[s]}
           base == [slots |-> slots, stack |-> stack]
           m == Len(order)
           merged == FoldLeft(Merge, base, order)
<1>1. base \in X  BY DEF Held
<1>2. m \in Nat /\ DOMAIN order = 1..m /\ \A k \in 1..m : order[k] \in 0..n - 1 /\ order[k] # s
  OBVIOUS
<1>3. merged \in X
  <2>1. ASSUME NEW a \in X, NEW i \in 0..n - 1, i # s PROVE Merge(a, i) \in X
    <3>1. a \in Held(n, total) /\ a.slots[s] = slots[s] /\ a.slots \in Slots(n)  BY DEF Held
    <3>2. Merge(a, i) \in Held(n, total)  BY <3>1, MergeHolds
    <3>3. Merge(a, i).slots[s] = a.slots[s]  BY <2>1, <3>1 DEF Merge, Slots
    <3> QED BY <3>1, <3>2, <3>3
  <2>2. \A a \in X : \A k \in 1..m : Merge(a, order[k]) \in X  BY <1>2, <2>1
  <2> HIDE DEF X, base, m
  <2> QED BY <1>1, <1>2, <2>2, MergesStay
<1>4. FoldLeft(Fill, merged, order) \in X
  <2>1. ASSUME NEW a \in X, NEW i \in 0..n - 1, i # s PROVE Fill(a, i) \in X
    <3>1. a \in Held(n, total) /\ a.slots[s] = slots[s] /\ a.slots \in Slots(n)  BY DEF Held
    <3>2. Fill(a, i) \in Held(n, total)  BY <3>1, FillHolds
    <3>3. Fill(a, i).slots[s] = a.slots[s]  BY <2>1, <3>1 DEF Fill, Slots
    <3> QED BY <3>1, <3>2, <3>3
  <2>2. \A a \in X : \A k \in 1..m : Fill(a, order[k]) \in X  BY <1>2, <2>1
  <2> HIDE DEF X, m, merged
  <2> QED BY <1>2, <1>3, <2>2, FillsStay
<1>5. Deposit(slots, stack, order) \in X  BY <1>4 DEF Deposit
<1> HIDE DEF merged, base, m
<1> QED BY <1>5

(* One part of a window changes *)
LEMMA SlotsKeep ==
  ASSUME NEW n \in Nat, NEW w \in Windows(n), NEW after \in Slots(n),
         \A x \in Items : Count(after, x) = Count(w.slots, x)
  PROVE  Keeps(n, w, [w EXCEPT !.slots = after])
<1> DEFINE z == [w EXCEPT !.slots = after]
<1>1. z \in Windows(n) /\ z.slots = after /\ z.cursor = w.cursor /\ z.dropped = w.dropped
  BY DEF Windows
<1> HIDE DEF z
<1>2. \A x \in Items : Total(z, x) = Total(w, x)  BY <1>1 DEF Total
<1> QED BY <1>1, <1>2 DEF Keeps, z

LEMMA QuickMoveKeeps ==
  ASSUME StackSizes, NEW n \in Nat, NEW w \in Windows(n), NEW s \in 0..n - 1
  PROVE  Keeps(n, w, QuickMove(w, s))
<1>1. CASE w.slots[s].count = 0
  <2>1. QuickMove(w, s) = w  BY <1>1 DEF QuickMove
  <2> QED BY <2>1, KeepsItself
<1>2. CASE w.slots[s].count # 0
  <2> DEFINE v == w.slots[s]
             without == [w.slots EXCEPT ![s] = Empty]
             T == QuickMoveTargets(w.layout, s)
             d == Deposit(without, v, T)
             after == [d.slots EXCEPT ![s] = d.stack]
  <2>1. QuickMove(w, s) = [w EXCEPT !.slots = after]  BY <1>2 DEF QuickMove
  <2>2. w.slots \in Slots(n) /\ v \in Stacks /\ w.layout \in Layouts(n)  BY WindowFacts
  <2>3. T \in Seq(0..n - 1) /\ \A k \in 1..Len(T) : T[k] # s  BY <2>2, TargetsElsewhere
  <2>4. without \in Slots(n) /\ without[s] = Empty  BY <2>2, EmptyStack DEF Slots
  <2>5. ASSUME NEW x \in Items
        PROVE  Count(without, x) + OfStack(v, x) = Count(w.slots, x)
    <3>1. /\ Count(without, x) = Count(w.slots, x) - OfStack(v, x) + OfStack(Empty, x)
          /\ Count(w.slots, x) \in Nat /\ OfStack(v, x) \in Nat
      BY <2>2, EmptyStack, CountSets
    <3> QED BY <3>1, EmptyStack
  <2> HIDE DEF v, without, T
  <2>6. d.slots \in Slots(n) /\ d.stack \in Stacks
    BY <2>2, <2>3, <2>4, DepositHolds
  <2>7. \A x \in Items : Count(d.slots, x) + OfStack(d.stack, x) = Count(without, x) + OfStack(v, x)
    BY <2>2, <2>3, <2>4, DepositHolds
  <2>8. d.slots[s] = Empty  BY <2>2, <2>3, <2>4, DepositSpares
  <2> HIDE DEF d
  <2>9. after \in Slots(n)  BY <2>6 DEF Slots
  <2>10. ASSUME NEW x \in Items PROVE Count(after, x) = Count(w.slots, x)
    <3>1. /\ Count(after, x) = Count(d.slots, x) - OfStack(Empty, x) + OfStack(d.stack, x)
          /\ Count(d.slots, x) \in Nat /\ OfStack(d.stack, x) \in Nat
      BY <2>6, <2>8, CountSets
    <3> QED BY <2>5, <2>7, <3>1, EmptyStack
  <2> HIDE DEF after
  <2> QED BY <2>1, <2>9, <2>10, SlotsKeep
<1> QED BY <1>1, <1>2

LEMMA SwapKeeps ==
  ASSUME NEW n \in Nat, NEW w \in Windows(n), NEW s \in 0..n - 1, NEW button
  PROVE  Keeps(n, w, Swap(w, s, button))
<1> DEFINE targets == SwapTargets(w.layout, button) \ {s}
           t == CHOOSE x \in targets : TRUE
<1>1. CASE targets = {}
  <2>1. Swap(w, s, button) = w  BY <1>1 DEF Swap
  <2> QED BY <2>1, KeepsItself
<1>2. CASE targets # {}
  <2>1. t \in targets  BY <1>2
  <2>2. targets \subseteq 0..n - 1
    <3>1. w.layout.offhand \subseteq 0..n - 1 /\ w.layout.hotbar \in Seq(0..n - 1)
      BY WindowFacts DEF Layouts
    <3>2. \A k \in 1..Len(w.layout.hotbar) : w.layout.hotbar[k] \in 0..n - 1  BY <3>1
    <3> QED BY <3>1, <3>2 DEF SwapTargets
  <2>3. t \in 0..n - 1 /\ t # s  BY <2>1, <2>2
  <2> HIDE DEF t, targets
  <2> DEFINE one == [w.slots EXCEPT ![s] = w.slots[t]]
             after == [one EXCEPT ![t] = w.slots[s]]
  <2>4. Swap(w, s, button) = [w EXCEPT !.slots = after]
    <3>1. Swap(w, s, button) =
            [w EXCEPT !.slots = [w.slots EXCEPT ![s] = w.slots[t], ![t] = w.slots[s]]]
      BY <1>2 DEF Swap, t, targets
    <3> QED BY <3>1
  <2>5. w.slots \in Slots(n) /\ w.slots[s] \in Stacks /\ w.slots[t] \in Stacks  BY <2>3, WindowFacts
  <2>6. one \in Slots(n) /\ one[t] = w.slots[t]  BY <2>3, <2>5 DEF Slots
  <2>7. ASSUME NEW x
        PROVE /\ Count(one, x) = Count(w.slots, x) - OfStack(w.slots[s], x) + OfStack(w.slots[t], x)
              /\ Count(w.slots, x) \in Nat /\ OfStack(w.slots[s], x) \in Nat
              /\ OfStack(w.slots[t], x) \in Nat
    BY <2>5, CountSets
  <2> HIDE DEF one
  <2>8. ASSUME NEW x PROVE Count(after, x) = Count(w.slots, x)
    <3>1. Count(after, x) = Count(one, x) - OfStack(w.slots[t], x) + OfStack(w.slots[s], x)
      BY <2>3, <2>5, <2>6, CountSets
    <3> QED BY <2>7, <3>1
  <2>9. after \in Slots(n)  BY <2>3, <2>5, <2>6 DEF Slots
  <2> HIDE DEF after
  <2> QED BY <2>4, <2>8, <2>9, SlotsKeep
<1> QED BY <1>1, <1>2

LEMMA ThrowKeeps ==
  ASSUME NEW n \in Nat, NEW w \in Windows(n), w.dropped = Empty, NEW s \in 0..n - 1, NEW button
  PROVE  Keeps(n, w, Throw(w, s, button))
<1> DEFINE v == w.slots[s]
           m == IF button = 1 THEN v.count ELSE 1
<1>1. CASE v.count = 0
  <2>1. Throw(w, s, button) = w  BY <1>1 DEF Throw
  <2> QED BY <2>1, KeepsItself
<1>2. CASE v.count # 0
  <2>1. v \in Stacks  BY WindowFacts
  <2>2. v.count \in Nat /\ v.count > 0  BY <1>2, <2>1, StackFacts
  <2> DEFINE rest == WithCount(v, v.count - m)
             out == WithCount(v, m)
  <2>3. Throw(w, s, button) = Thrown([w EXCEPT !.slots[s] = rest], out)  BY <1>2 DEF Throw
  <2>4. m \in Nat /\ v.count - m \in Nat  BY <2>2
  <2> HIDE DEF m, v
  <2>5. /\ rest \in Stacks /\ \A x : OfStack(rest, x) = IF v.item = x THEN v.count - m ELSE 0
        /\ out \in Stacks /\ \A x : OfStack(out, x) = IF v.item = x THEN m ELSE 0
    BY <2>1, <2>2, <2>4, WithCountSays
  <2> HIDE DEF rest, out
  <2>6. \A x \in Items : OfStack(rest, x) + OfStack(out, x) = OfStack(v, x)
    <3>1. \A x : OfStack(v, x) = IF v.item = x THEN v.count ELSE 0  BY DEF OfStack
    <3> QED BY <2>2, <2>4, <2>5, <3>1
  <2> QED BY <2>3, <2>5, <2>6, SlotThrownKeeps DEF v
<1> QED BY <1>1, <1>2

LEMMA DropCursorKeeps ==
  ASSUME NEW n \in Nat, NEW w \in Windows(n), w.dropped = Empty, NEW single \in BOOLEAN
  PROVE  Keeps(n, w, DropCursor(w, single))
<1> DEFINE v == w.cursor
           m == IF single THEN 1 ELSE v.count
<1>1. CASE v.count = 0
  <2>1. DropCursor(w, single) = w  BY <1>1 DEF DropCursor
  <2> QED BY <2>1, KeepsItself
<1>2. CASE v.count # 0
  <2>1. v \in Stacks  BY WindowFacts
  <2>2. v.count \in Nat /\ v.count > 0  BY <1>2, <2>1, StackFacts
  <2> DEFINE rest == WithCount(v, v.count - m)
             out == WithCount(v, m)
  <2>3. DropCursor(w, single) = Thrown([w EXCEPT !.cursor = rest], out)  BY <1>2 DEF DropCursor
  <2>4. m \in Nat /\ v.count - m \in Nat  BY <2>2
  <2> HIDE DEF m, v
  <2>5. /\ rest \in Stacks /\ \A x : OfStack(rest, x) = IF v.item = x THEN v.count - m ELSE 0
        /\ out \in Stacks /\ \A x : OfStack(out, x) = IF v.item = x THEN m ELSE 0
    BY <2>1, <2>2, <2>4, WithCountSays
  <2> HIDE DEF rest, out
  <2>6. \A x \in Items : OfStack(rest, x) + OfStack(out, x) = OfStack(v, x)
    <3>1. \A x : OfStack(v, x) = IF v.item = x THEN v.count ELSE 0  BY DEF OfStack
    <3> QED BY <2>2, <2>4, <2>5, <3>1
  <2> QED BY <2>3, <2>5, <2>6, CursorThrownKeeps DEF v
<1> QED BY <1>1, <1>2

-----------------------------------------------------------------------------
(***************************************************************************)
(* Folds over slots: a double click gathers them, a drag shares a stack out*)
(***************************************************************************)

LEMMA GathersStay ==
  ASSUME NEW X, NEW base \in X, NEW n \in Nat, NEW order, DOMAIN order = 1..n,
         \A a \in X : \A k \in 1..n : Gather(a, order[k]) \in X
  PROVE  FoldLeft(Gather, base, order) \in X
<1> DEFINE D == 1..n
           pick == [T \in SUBSET D |-> Max(T)]
           F == [p \in D \X X |-> Gather(p[2], order[p[1]])]
           Next1(g) == [T \in SUBSET D |-> IF T = {} THEN base
                                          ELSE Gather(g[T \ {Max(T)}], order[Max(T)])]
           iter == CHOOSE g : g = Next1(g)
<1>1. IsFiniteSet(D) /\ (\A T \in SUBSET D : T # {} => pick[T] \in T)  BY Largest
<1>2. F \in [D \X X -> X]  OBVIOUS
<1>3. PICK g \in [SUBSET D -> X] : Computes(g, D, base, pick, F)
  <2> HIDE DEF D, pick, F
  <2> QED BY <1>1, <1>2, Recursion, Zenon
<1>4. g = Next1(g)
  <2>1. \A T \in SUBSET D : T # {} => g[T] = Gather(g[T \ {Max(T)}], order[Max(T)])
    BY <1>1, <1>3 DEF Computes
  <2>2. g[{}] = base  BY <1>3 DEF Computes
  <2>3. g = [T \in SUBSET D |-> g[T]]  BY <1>3
  <2> QED BY <2>1, <2>2, <2>3
<1>5. iter = Next1(iter)  BY <1>4
<1>6. \A T \in SUBSET D : iter[T] \in X
  <2> HIDE DEF iter
  <2>1. iter[{}] \in X
    <3>1. {} \in SUBSET D  OBVIOUS
    <3> QED BY <1>5, <3>1
  <2>2. ASSUME NEW T \in SUBSET D, T # {}, iter[T \ {pick[T]}] \in X PROVE iter[T] \in X
    <3>1. pick[T] = Max(T) /\ Max(T) \in D  BY <1>1, <2>2
    <3>2. iter[T] = Gather(iter[T \ {Max(T)}], order[Max(T)])  BY <1>5, <2>2
    <3> QED BY <2>2, <3>1, <3>2
  <2> HIDE DEF D, pick
  <2> QED BY <1>1, <2>1, <2>2, Invariance
<1>7. FoldLeft(Gather, base, order) = iter[D]  BY Zenon DEF FoldLeft, MapThenFoldSet
<1> QED BY <1>6, <1>7

LEMMA KeepsOn ==
  ASSUME NEW n, NEW a, NEW b, NEW c, Keeps(n, a, b), Keeps(n, b, c)
  PROVE  Keeps(n, a, c)
BY DEF Keeps

LEMMA GatherKeeps ==
  ASSUME StackSizes, NEW n \in Nat, NEW w \in Windows(n), w.cursor.count > 0, NEW i \in 0..n - 1
  PROVE  Keeps(n, w, Gather(w, i)) /\ Gather(w, i).cursor.count > 0
<1> DEFINE cursor == w.cursor
           v == w.slots[i]
           moved == Least(MaxStack[cursor.item] - cursor.count, v.count)
<1>1. CASE moved > 0 /\ i \notin w.layout.output /\ SameItem(v, cursor)
  <2>1. cursor \in Stacks /\ v \in Stacks  BY WindowFacts
  <2>2. /\ cursor.item \in Items /\ cursor.count \in Nat /\ v.count \in Nat /\ v.count > 0
        /\ cursor \in [item : Items, count : Nat \ {0}] /\ v.item = cursor.item
    BY <1>1, <2>1, StackFacts DEF SameItem
  <2>3. moved \in Nat /\ moved <= v.count  BY <1>1, <2>2 DEF StackSizes, Least
  <2> DEFINE u == [cursor EXCEPT !.count = @ + moved]
             rest == WithCount(v, v.count - moved)
  <2>4. Gather(w, i) = [w EXCEPT !.slots[i] = rest, !.cursor = u]
    <3>1. Gather(w, i) = [w EXCEPT !.cursor.count = @ + moved, !.slots[i] = WithCount(@, @.count - moved)]
      BY <1>1 DEF Gather
    <3> QED BY <3>1
  <2> HIDE DEF moved
  <2>5. /\ u \in Stacks /\ u.count > 0
        /\ \A x : OfStack(u, x) = IF cursor.item = x THEN cursor.count + moved ELSE 0
    BY <2>2, <2>3 DEF Stacks, OfStack
  <2>6. /\ rest \in Stacks
        /\ \A x : OfStack(rest, x) = IF v.item = x THEN v.count - moved ELSE 0
    BY <2>1, <2>2, <2>3, WithCountSays
  <2> HIDE DEF u, rest, v, cursor
  <2>7. \A x \in Items : OfStack(rest, x) + OfStack(u, x) = OfStack(v, x) + OfStack(cursor, x)
    <3>1. \A x : OfStack(v, x) = IF v.item = x THEN v.count ELSE 0  BY DEF OfStack
    <3>2. \A x : OfStack(cursor, x) = IF cursor.item = x THEN cursor.count ELSE 0  BY DEF OfStack
    <3> QED BY <2>2, <2>3, <2>5, <2>6, <3>1, <3>2
  <2>8. Keeps(n, w, Gather(w, i))
    <3>1. \A x \in Items :
            OfStack(rest, x) + OfStack(u, x) = OfStack(w.slots[i], x) + OfStack(w.cursor, x)
      BY <2>7 DEF v, cursor
    <3>2. Keeps(n, w, [w EXCEPT !.slots[i] = rest, !.cursor = u])  BY <2>5, <2>6, <3>1, PutKeeps
    <3> QED BY <2>4, <3>2
  <2>9. Gather(w, i).cursor = u  BY <2>4 DEF Windows
  <2> QED BY <2>5, <2>8, <2>9
<1>2. CASE ~(moved > 0 /\ i \notin w.layout.output /\ SameItem(v, cursor))
  <2>1. Gather(w, i) = w  BY <1>2 DEF Gather
  <2> QED BY <2>1, KeepsItself
<1> QED BY <1>1, <1>2

LEMMA InSequence ==
  ASSUME NEW n \in Nat, NEW S \in SUBSET (0..n - 1)
  PROVE  SetToSeq(S) \in Seq(0..n - 1)
<1>1. IsFiniteSet(0..n - 1)
  <2>1. 0 \in Int /\ n - 1 \in Int  OBVIOUS
  <2> QED BY <2>1, FS_Interval, Zenon
<1>2. IsFiniteSet(S)  BY <1>1, FS_Subset
<1>3. Cardinality(S) \in Nat /\ ExistsBijection(1..Cardinality(S), S)  BY <1>2, FS_CardinalityType
<1>4. \E f \in [1..Cardinality(S) -> S] : IsInjective(f)
  BY <1>3 DEF ExistsBijection, Bijection, Injection, IsInjective
<1>5. SetToSeq(S) \in [1..Cardinality(S) -> S]  BY <1>4, Zenon DEF SetToSeq
<1>6. SetToSeq(S) \in [1..Cardinality(S) -> 0..n - 1]  BY <1>5
<1> QED BY <1>3, <1>6

LEMMA PickupAllKeeps ==
  ASSUME StackSizes, NEW n \in Nat, NEW w \in Windows(n)
  PROVE  Keeps(n, w, PickupAll(w)) /\ PickupAll(w).drag = w.drag
<1>1. CASE w.cursor.count = 0
  <2>1. PickupAll(w) = w  BY <1>1 DEF PickupAll
  <2> QED BY <2>1, KeepsItself
<1>2. CASE w.cursor.count # 0
  <2> DEFINE order == w.layout.container \o w.layout.main \o w.layout.hotbar
                      \o SetToSeq(w.layout.offhand)
             m == Len(order)
             X == {z \in Windows(n) : Keeps(n, w, z) /\ z.cursor.count > 0 /\ z.drag = w.drag}
  <2>1. order \in Seq(0..n - 1)
    <3>1. /\ w.layout.container \in Seq(0..n - 1) /\ w.layout.main \in Seq(0..n - 1)
          /\ w.layout.hotbar \in Seq(0..n - 1) /\ w.layout.offhand \in SUBSET (0..n - 1)
      BY WindowFacts DEF Layouts
    <3>2. SetToSeq(w.layout.offhand) \in Seq(0..n - 1)  BY <3>1, InSequence
    <3> QED BY <3>1, <3>2
  <2> HIDE DEF order
  <2>2. m \in Nat /\ DOMAIN order = 1..m /\ \A k \in 1..m : order[k] \in 0..n - 1  BY <2>1
  <2>3. w \in X
    <3>1. w.cursor \in Stacks  BY WindowFacts
    <3>2. w.cursor.count \in Nat  BY <3>1, StackFacts
    <3> QED BY <1>2, <3>2, KeepsItself
  <2>4. ASSUME NEW z \in X, NEW i \in 0..n - 1 PROVE Gather(z, i) \in X
    <3>1. Keeps(n, z, Gather(z, i)) /\ Gather(z, i).cursor.count > 0  BY GatherKeeps
    <3>2. Keeps(n, w, Gather(z, i))  BY <3>1, KeepsOn
    <3>3. Gather(z, i).drag = z.drag
      <4>1. \A c, v : [z EXCEPT !.cursor.count = c, !.slots[i] = v].drag = z.drag  BY DEF Windows
      <4> QED BY DEF Gather, Windows
    <3> QED BY <3>1, <3>2, <3>3 DEF Keeps
  <2>5. \A z \in X : \A k \in 1..m : Gather(z, order[k]) \in X  BY <2>2, <2>4
  <2>6. FoldLeft(Gather, w, order) \in X
    <3> HIDE DEF X, m
    <3> QED BY <2>2, <2>3, <2>5, GathersStay
  <2>7. PickupAll(w) = FoldLeft(Gather, w, order)  BY <1>2, Zenon DEF PickupAll, order
  <2> QED BY <2>6, <2>7
<1> QED BY <1>1, <1>2

(* What the slots of the drag of w make of base, one after the other *)
Shared(w, base, order) == FoldLeft(LAMBDA acc, i : Share(w, acc, i), base, order)

LEMMA SharesStay ==
  ASSUME NEW w, NEW X, NEW base \in X, NEW n \in Nat, NEW order, DOMAIN order = 1..n,
         \A a \in X : \A k \in 1..n : Share(w, a, order[k]) \in X
  PROVE  Shared(w, base, order) \in X
<1> DEFINE D == 1..n
           pick == [T \in SUBSET D |-> Max(T)]
           F == [p \in D \X X |-> Share(w, p[2], order[p[1]])]
           Next1(g) == [T \in SUBSET D |-> IF T = {} THEN base
                                          ELSE Share(w, g[T \ {Max(T)}], order[Max(T)])]
           iter == CHOOSE g : g = Next1(g)
<1>1. IsFiniteSet(D) /\ (\A T \in SUBSET D : T # {} => pick[T] \in T)  BY Largest
<1>2. F \in [D \X X -> X]  OBVIOUS
<1>3. PICK g \in [SUBSET D -> X] : Computes(g, D, base, pick, F)
  <2> HIDE DEF D, pick, F
  <2> QED BY <1>1, <1>2, Recursion, Zenon
<1>4. g = Next1(g)
  <2>1. \A T \in SUBSET D : T # {} => g[T] = Share(w, g[T \ {Max(T)}], order[Max(T)])
    BY <1>1, <1>3 DEF Computes
  <2>2. g[{}] = base  BY <1>3 DEF Computes
  <2>3. g = [T \in SUBSET D |-> g[T]]  BY <1>3
  <2> QED BY <2>1, <2>2, <2>3
<1>5. iter = Next1(iter)  BY <1>4
<1>6. \A T \in SUBSET D : iter[T] \in X
  <2> HIDE DEF iter
  <2>1. iter[{}] \in X
    <3>1. {} \in SUBSET D  OBVIOUS
    <3> QED BY <1>5, <3>1
  <2>2. ASSUME NEW T \in SUBSET D, T # {}, iter[T \ {pick[T]}] \in X PROVE iter[T] \in X
    <3>1. pick[T] = Max(T) /\ Max(T) \in D  BY <1>1, <2>2
    <3>2. iter[T] = Share(w, iter[T \ {Max(T)}], order[Max(T)])  BY <1>5, <2>2
    <3> QED BY <2>2, <3>1, <3>2
  <2> HIDE DEF D, pick
  <2> QED BY <1>1, <2>1, <2>2, Invariance
<1>7. Shared(w, base, order) = iter[D]
  BY Zenon DEF Shared, FoldLeft, MapThenFoldSet
<1> QED BY <1>6, <1>7

(* Stacks a drag of an item leaves on the cursor, and in its slots *)
Taken(item) == {Empty} \cup [item : {item}, count : 1..MaxStack[item]]
Dragged(item) == {Empty} \cup [item : {item}, count : Nat \ {0}]

LEMMA SpreadKeeps ==
  ASSUME StackSizes, NEW n \in Nat, NEW w \in Windows(n), NEW item \in Items, NEW i \in 0..n - 1,
         w.cursor \in Dragged(item), w.slots[i] \in Taken(item), NEW m \in Nat
  PROVE  /\ Keeps(n, w, Spread(w, i, m)) /\ Spread(w, i, m).cursor \in Dragged(item)
         /\ Spread(w, i, m).slots[i] \in Taken(item)
         /\ \A j \in 0..n - 1 : j # i => Spread(w, i, m).slots[j] = w.slots[j]
<1> DEFINE cursor == w.cursor
           v == w.slots[i]
           room == MaxStack[cursor.item] - v.count
           moved == Least(Least(m, room), cursor.count)
<1>1. CASE cursor.count = 0 \/ moved = 0
  <2>1. Spread(w, i, m) = w  BY <1>1 DEF Spread
  <2> QED BY <2>1, KeepsItself
<1>2. CASE ~(cursor.count = 0 \/ moved = 0)
  <2>1. /\ cursor.item = item /\ cursor.count \in Nat \ {0} /\ cursor \in Stacks /\ v \in Stacks
        /\ v.count \in Nat /\ (v = Empty \/ v.item = item)
        /\ v.count <= MaxStack[item] /\ MaxStack[item] \in Nat \ {0}
    BY <1>2, WindowFacts DEF Dragged, Taken, Empty, StackSizes
  <2>2. /\ moved \in Nat \ {0} /\ moved <= cursor.count /\ v.count + moved <= MaxStack[item]
    BY <1>2, <2>1 DEF Least
  <2> DEFINE put == WithCount(cursor, v.count + moved)
             u == WithCount(cursor, cursor.count - moved)
  <2>3. Spread(w, i, m) = [w EXCEPT !.slots[i] = put, !.cursor = u]
    <3>1. Spread(w, i, m) = [w EXCEPT !.slots[i] = put, !.cursor = WithCount(@, @.count - moved)]
      BY <1>2 DEF Spread
    <3> QED BY <3>1
  <2> HIDE DEF moved, room, cursor, v
  <2>4. v.count + moved \in Nat \ {0} /\ cursor.count - moved \in Nat /\ cursor.count > 0
    BY <2>1, <2>2
  <2>5. /\ put \in Stacks /\ put.item = item /\ put.count = v.count + moved
        /\ \A x : OfStack(put, x) = IF item = x THEN v.count + moved ELSE 0
    BY <2>1, <2>4, WithCountSays
  <2>6. /\ u \in Stacks
        /\ \A x : OfStack(u, x) = IF item = x THEN cursor.count - moved ELSE 0
    BY <2>1, <2>4, WithCountSays
  <2>7. u \in Dragged(item)
    BY <2>1, <2>4, <2>6 DEF Dragged, WithCount, Stacks
  <2>8. put \in Taken(item)
    BY <2>2, <2>4, <2>5 DEF Taken, Stacks, Empty
  <2> HIDE DEF put, u
  <2>9. \A x \in Items : OfStack(put, x) + OfStack(u, x) = OfStack(v, x) + OfStack(cursor, x)
    <3>1. \A x : OfStack(v, x) = IF item = x THEN v.count ELSE 0  BY <2>1 DEF OfStack, Empty
    <3>2. \A x : OfStack(cursor, x) = IF item = x THEN cursor.count ELSE 0  BY <2>1 DEF OfStack
    <3> QED BY <2>1, <2>2, <2>5, <2>6, <3>1, <3>2
  <2>10. Keeps(n, w, Spread(w, i, m))
    <3>1. \A x \in Items :
            OfStack(put, x) + OfStack(u, x) = OfStack(w.slots[i], x) + OfStack(w.cursor, x)
      BY <2>9 DEF v, cursor
    <3>2. Keeps(n, w, [w EXCEPT !.slots[i] = put, !.cursor = u])  BY <2>5, <2>6, <3>1, PutKeeps
    <3> QED BY <2>3, <3>2
  <2>11. /\ Spread(w, i, m).cursor = u /\ Spread(w, i, m).slots[i] = put
         /\ \A j \in 0..n - 1 : j # i => Spread(w, i, m).slots[j] = w.slots[j]
    BY <2>3 DEF Windows, Slots
  <2> QED BY <2>7, <2>8, <2>10, <2>11
<1> QED BY <1>1, <1>2

(* What applying the drag of w passes through *)
Sharing(n, w) ==
  {z \in Windows(n) :
     /\ Keeps(n, w, z) /\ z.cursor \in Dragged(w.cursor.item) /\ z.drag = NoDrag
     /\ \A i \in Eligible(w) : z.slots[i] \in Taken(w.cursor.item)}

LEMMA ShareKeeps ==
  ASSUME StackSizes, NEW n \in Nat, NEW w \in Windows(n), w.cursor.count > 0,
         w.drag.kind # "none", NEW z \in Sharing(n, w), NEW i
  PROVE  Share(w, z, i) \in Sharing(n, w)
<1> DEFINE E == Eligible(w)
           item == w.cursor.item
<1>1. item \in Items /\ w.cursor.count \in Nat /\ w.drag.kind \in {"left", "right"}
      /\ DOMAIN w.slots = 0..n - 1
  <2>1. w.cursor \in Stacks /\ w.drag \in Drags(n) /\ w.slots \in Slots(n)  BY WindowFacts
  <2> QED BY <2>1, StackFacts DEF Drags, Slots
<1>2. E \subseteq 0..n - 1  BY <1>1 DEF Eligible
<1>3. CASE i \notin E
  <2>1. Share(w, z, i) = z  BY <1>3 DEF Share
  <2> QED BY <2>1
<1>4. ASSUME NEW m \in Nat, i \in E PROVE Spread(z, i, m) \in Sharing(n, w)
  <2> DEFINE y == Spread(z, i, m)
  <2>1. /\ z \in Windows(n) /\ Keeps(n, w, z) /\ z.cursor \in Dragged(item) /\ i \in 0..n - 1
        /\ z.drag = NoDrag /\ \A j \in E : z.slots[j] \in Taken(item)
    BY <1>2, <1>4 DEF Sharing
  <2>2. /\ Keeps(n, z, y) /\ y.cursor \in Dragged(item) /\ y.slots[i] \in Taken(item)
        /\ \A j \in 0..n - 1 : j # i => y.slots[j] = z.slots[j]
    BY <1>1, <1>4, <2>1, SpreadKeeps
  <2>6. y.drag = NoDrag
    <3>1. \A v, u : [z EXCEPT !.slots[i] = v, !.cursor = u].drag = z.drag  BY DEF Windows
    <3> QED BY <2>1, <3>1 DEF Spread
  <2> HIDE DEF y, E, item
  <2>3. Keeps(n, w, y)  BY <2>1, <2>2, KeepsOn
  <2>4. \A j \in E : y.slots[j] \in Taken(item)  BY <1>2, <2>1, <2>2
  <2>5. y \in Windows(n)  BY <2>3 DEF Keeps
  <2> QED BY <2>2, <2>3, <2>4, <2>5, <2>6 DEF Sharing, y, E, item
<1>5. CASE i \in E /\ w.drag.kind = "left"
  <2>1. Share(w, z, i) = Spread(z, i, w.cursor.count \div Cardinality(E))  BY <1>5 DEF Share
  <2>2. Cardinality(E) \in Nat \ {0}
    <3>1. IsFiniteSet(0..n - 1)
      <4>1. 0 \in Int /\ n - 1 \in Int  OBVIOUS
      <4> QED BY <4>1, FS_Interval, Zenon
    <3>2. IsFiniteSet(E)  BY <1>2, <3>1, FS_Subset
    <3> HIDE DEF E
    <3> QED BY <1>5, <3>2, FS_CardinalityType, FS_EmptySet
  <2> HIDE DEF E
  <2>3. w.cursor.count \div Cardinality(E) \in Nat  BY <1>1, <2>2
  <2> QED BY <1>4, <1>5, <2>1, <2>3
<1>6. CASE i \in E /\ w.drag.kind = "right"
  <2>1. Share(w, z, i) = Spread(z, i, 1)  BY <1>6 DEF Share
  <2> QED BY <1>4, <1>6, <2>1
<1> QED BY <1>1, <1>3, <1>5, <1>6

LEMMA DragOver ==
  ASSUME NEW n \in Nat, NEW w \in Windows(n), NEW drag \in Drags(n)
  PROVE  Keeps(n, w, [w EXCEPT !.drag = drag])
<1> DEFINE z == [w EXCEPT !.drag = drag]
<1>1. z \in Windows(n) /\ z.slots = w.slots /\ z.cursor = w.cursor /\ z.dropped = w.dropped
  BY DEF Windows
<1> QED BY <1>1 DEF Keeps, Total

LEMMA ApplyDragKeeps ==
  ASSUME StackSizes, NEW n \in Nat, NEW w \in Windows(n), w.drag.kind # "none"
  PROVE  Keeps(n, w, ApplyDrag(w)) /\ ApplyDrag(w).drag = NoDrag
<1> DEFINE rest == [w EXCEPT !.drag = NoDrag]
           order == w.drag.slots
           m == Len(order)
           X == Sharing(n, w)
<1>1. NoDrag \in Drags(n)  BY DEF NoDrag, Drags
<1>2. Keeps(n, w, rest)  BY <1>1, DragOver
<1>3. CASE w.cursor.count = 0 \/ Eligible(w) = {}
  <2>1. ApplyDrag(w) = rest  BY <1>3 DEF ApplyDrag
  <2>2. rest.drag = NoDrag  BY DEF Windows
  <2> QED BY <1>2, <2>1, <2>2
<1>4. CASE ~(w.cursor.count = 0 \/ Eligible(w) = {})
  <2>1. ApplyDrag(w) = Shared(w, rest, order)
    BY <1>4, Zenon DEF ApplyDrag, Shared, FoldLeft, MapThenFoldSet
  <2>2. /\ w.cursor \in Stacks /\ w.slots \in Slots(n) /\ w.drag \in Drags(n)
        /\ \A i \in 0..n - 1 : w.slots[i] \in Stacks
    BY WindowFacts
  <2>3. w.cursor.count \in Nat /\ w.cursor.count > 0 /\ w.cursor.item \in Items
    BY <1>4, <2>2, StackFacts
  <2>4. order \in Seq(0..n - 1) /\ m \in Nat /\ DOMAIN order = 1..m  BY <2>2 DEF Drags
  <2>5. /\ rest \in Windows(n) /\ rest.slots = w.slots /\ rest.cursor = w.cursor
        /\ rest.drag = NoDrag
    BY <1>1 DEF Windows
  <2>6. w.cursor \in Dragged(w.cursor.item)
    BY <2>2, <2>3 DEF Dragged, Stacks
  <2>7. \A i \in Eligible(w) : w.slots[i] \in Taken(w.cursor.item)
    <3> SUFFICES ASSUME NEW i \in Eligible(w) PROVE w.slots[i] \in Taken(w.cursor.item)
      OBVIOUS
    <3>1. /\ i \in 0..n - 1 /\ w.slots[i] \in Stacks
          /\ \/ w.slots[i].count = 0
             \/ w.slots[i].item = w.cursor.item /\ w.slots[i].count < MaxStack[w.cursor.item]
      BY <2>2 DEF Eligible, Slots
    <3>2. MaxStack[w.cursor.item] \in Nat  BY <2>3 DEF StackSizes
    <3>3. CASE w.slots[i].count = 0
      BY <3>1, <3>3, StackFacts DEF Taken
    <3>4. CASE w.slots[i].count # 0
      <4>1. w.slots[i] \in [item : Items, count : Nat \ {0}]  BY <3>1, <3>4 DEF Stacks, Empty
      <4>2. w.slots[i] \in [item : {w.cursor.item}, count : 1..MaxStack[w.cursor.item]]
        BY <3>1, <3>2, <3>4, <4>1
      <4> QED BY <4>2 DEF Taken
    <3> QED BY <3>3, <3>4
  <2>8. rest \in X  BY <1>2, <2>5, <2>6, <2>7 DEF Sharing
  <2>9. \A z \in X : \A k \in 1..m : Share(w, z, order[k]) \in X  BY <2>3, ShareKeeps
  <2>10. Shared(w, rest, order) \in X
    <3> HIDE DEF X, m, rest, order
    <3> QED BY <2>4, <2>8, <2>9, SharesStay
  <2> QED BY <2>1, <2>10 DEF Sharing
<1> QED BY <1>3, <1>4

-----------------------------------------------------------------------------
(***************************************************************************)
(* Every click                                                             *)
(***************************************************************************)

LEMMA QuickCraftKeeps ==
  ASSUME StackSizes, NEW n \in Nat, NEW w \in Windows(n), NEW s, NEW button
  PROVE  Keeps(n, w, QuickCraft(w, s, button, FALSE))
<1> DEFINE r == QuickCraft(w, s, button, FALSE)
           Started(kind) == [w EXCEPT !.drag = [kind |-> kind, slots |-> <<>>]]
<1>1. w.drag \in Drags(n) /\ DOMAIN w.slots = 0..n - 1 /\ w.drag.slots \in Seq(0..n - 1)
  BY WindowFacts DEF Drags, Slots
<1>2. CASE button = 0
  <2>1. r = Started("left")  BY <1>2 DEF QuickCraft
  <2>2. [kind |-> "left", slots |-> <<>>] \in Drags(n)  BY DEF Drags
  <2> QED BY <2>1, <2>2, DragOver
<1>3. CASE button = 4
  <2>1. r = Started("right")  BY <1>3 DEF QuickCraft
  <2>2. [kind |-> "right", slots |-> <<>>] \in Drags(n)  BY DEF Drags
  <2> QED BY <2>1, <2>2, DragOver
<1>4. CASE button \in {1, 5, 9} /\ s \in DOMAIN w.slots /\ w.drag.kind # "none"
           /\ ~Among(s, w.drag.slots)
  <2>1. r = [w EXCEPT !.drag.slots = Append(@, s)]  BY <1>4 DEF QuickCraft
  <2> DEFINE drag == [w.drag EXCEPT !.slots = Append(@, s)]
  <2>2. Append(w.drag.slots, s) \in Seq(0..n - 1)  BY <1>1, <1>4
  <2>3. drag \in Drags(n)  BY <1>1, <2>2 DEF Drags
  <2>4. r = [w EXCEPT !.drag = drag]  BY <2>1
  <2> HIDE DEF drag, r
  <2> QED BY <2>3, <2>4, DragOver DEF r
<1>5. CASE button \in {1, 5, 9} /\ ~(s \in DOMAIN w.slots /\ w.drag.kind # "none"
           /\ ~Among(s, w.drag.slots))
  <2>1. r = w  BY <1>5 DEF QuickCraft
  <2> QED BY <2>1, KeepsItself
<1>6. CASE button \in {2, 6, 10} /\ w.drag.kind = "none"
  <2>1. r = w  BY <1>6 DEF QuickCraft
  <2> QED BY <2>1, KeepsItself
<1>7. CASE button \in {2, 6, 10} /\ w.drag.kind # "none"
  <2>1. r = ApplyDrag(w)  BY <1>7 DEF QuickCraft
  <2> QED BY <1>7, <2>1, ApplyDragKeeps
<1>8. CASE button \notin {0, 4, 1, 5, 9, 2, 6, 10}
  <2>1. r = [w EXCEPT !.drag = NoDrag]  BY <1>8 DEF QuickCraft
  <2>2. NoDrag \in Drags(n)  BY DEF NoDrag, Drags
  <2> QED BY <2>1, <2>2, DragOver
<1> QED BY <1>2, <1>3, <1>4, <1>5, <1>6, <1>7, <1>8

(* A click in a window of n slots gives one in which everything of it is still somewhere. *)
LEMMA ClickKeeps ==
  ASSUME StackSizes, NEW n \in Nat, NEW window, window.slots \in Slots(n), window.cursor \in Stacks,
         window.drag \in Drags(n), NEW layout \in Layouts(n), NEW creative, ~creative, NEW click
  PROVE  /\ ApplyClick(window, layout, creative, click) \in Windows(n)
         /\ \A x \in Items : Total(ApplyClick(window, layout, creative, click), x)
                             = Count(window.slots, x) + OfStack(window.cursor, x)
<1> DEFINE s == click.slot
           inside == s \in DOMAIN window.slots
           w == [slots |-> window.slots, cursor |-> window.cursor, layout |-> layout,
                 drag |-> IF click.input = "quick_craft" THEN window.drag ELSE NoDrag,
                 dropped |-> Empty]
           r == ApplyClick(window, layout, creative, click)
<1>1. NoDrag \in Drags(n)  BY DEF NoDrag, Drags
<1>2. w \in Windows(n)  BY <1>1, EmptyStack DEF Windows
<1>3. w.slots = window.slots /\ w.cursor = window.cursor /\ w.dropped = Empty  OBVIOUS
<1>4. inside => s \in 0..n - 1  BY DEF Slots
<1>5. Keeps(n, w, r)
  <2>1. CASE s < 0 /\ s # Outside
    <3>1. r = [w EXCEPT !.drag = window.drag]  BY <2>1 DEF ApplyClick
    <3> HIDE DEF w, r
    <3> QED BY <1>2, <3>1, DragOver
  <2>2. CASE ~(s < 0 /\ s # Outside) /\ click.input = "pickup" /\ inside
    <3>1. r = Pickup(w, s, click.button = 1)  BY <2>2 DEF ApplyClick
    <3> HIDE DEF w, r
    <3>2. (click.button = 1) \in BOOLEAN  OBVIOUS
    <3> QED BY <1>2, <1>4, <2>2, <3>1, <3>2, PickupKeeps
  <2>3. CASE ~(s < 0 /\ s # Outside) /\ click.input = "pickup" /\ ~inside
    <3>1. r = DropCursor(w, click.button = 1)  BY <2>3 DEF ApplyClick
    <3> HIDE DEF w, r
    <3>2. (click.button = 1) \in BOOLEAN  OBVIOUS
    <3> QED BY <1>2, <1>3, <3>1, <3>2, DropCursorKeeps
  <2>4. CASE ~(s < 0 /\ s # Outside) /\ click.input = "quick_move" /\ inside
    <3>1. r = QuickMove(w, s)  BY <2>4 DEF ApplyClick
    <3> HIDE DEF w, r
    <3> QED BY <1>2, <1>4, <2>4, <3>1, QuickMoveKeeps
  <2>5. CASE ~(s < 0 /\ s # Outside) /\ click.input = "swap" /\ inside
    <3>1. r = Swap(w, s, click.button)  BY <2>5 DEF ApplyClick
    <3> HIDE DEF w, r
    <3> QED BY <1>2, <1>4, <2>5, <3>1, SwapKeeps
  <2>6. CASE ~(s < 0 /\ s # Outside) /\ click.input = "clone" /\ inside
    <3>1. r = w
      <4>1. r = CloneStack(w, s, creative)  BY <2>6 DEF ApplyClick
      <4> HIDE DEF w, r
      <4> QED BY <4>1 DEF CloneStack
    <3> HIDE DEF w, r
    <3> QED BY <1>2, <3>1, KeepsItself
  <2>7. CASE ~(s < 0 /\ s # Outside) /\ click.input = "throw" /\ inside
    <3>1. r = Throw(w, s, click.button)  BY <2>7 DEF ApplyClick
    <3> HIDE DEF w, r
    <3> QED BY <1>2, <1>3, <1>4, <2>7, <3>1, ThrowKeeps
  <2>8. CASE ~(s < 0 /\ s # Outside) /\ click.input = "pickup_all" /\ inside
    <3>1. r = PickupAll(w)  BY <2>8 DEF ApplyClick
    <3> HIDE DEF w, r
    <3> QED BY <1>2, <3>1, PickupAllKeeps
  <2>9. CASE ~(s < 0 /\ s # Outside) /\ click.input = "quick_craft"
    <3>1. r = QuickCraft(w, s, click.button, creative)  BY <2>9 DEF ApplyClick
    <3>2. QuickCraft(w, s, click.button, creative) = QuickCraft(w, s, click.button, FALSE)
      <4> HIDE DEF w, r
      <4> QED BY DEF QuickCraft
    <3> HIDE DEF w, r
    <3> QED BY <1>2, <3>1, <3>2, QuickCraftKeeps
  <2>10. CASE /\ ~(s < 0 /\ s # Outside) /\ click.input \notin {"pickup", "quick_craft"}
              /\ inside => click.input \notin {"quick_move", "swap", "clone", "throw", "pickup_all"}
    <3>1. r = w  BY <2>10 DEF ApplyClick
    <3> HIDE DEF w, r
    <3> QED BY <1>2, <3>1, KeepsItself
  <2> HIDE DEF w, r
  <2> QED BY <2>1, <2>2, <2>3, <2>4, <2>5, <2>6, <2>7, <2>8, <2>9, <2>10
<1> HIDE DEF w, r
<1>6. ASSUME NEW x \in Items PROVE Total(r, x) = Count(window.slots, x) + OfStack(window.cursor, x)
  <2>1. Total(r, x) = Total(w, x)  BY <1>5 DEF Keeps
  <2>2. Total(w, x) = Count(w.slots, x) + OfStack(w.cursor, x) + OfStack(w.dropped, x)  BY DEF Total
  <2>3. OfStack(w.dropped, x) = 0  BY <1>3, EmptyStack
  <2>4. Count(w.slots, x) \in Nat /\ OfStack(w.cursor, x) \in Nat  BY <1>2, WindowFacts
  <2> QED BY <1>3, <2>1, <2>2, <2>3, <2>4
<1> QED BY <1>5, <1>6 DEF Keeps, r

-----------------------------------------------------------------------------
(***************************************************************************)
(* The window over a menu and the inventory: what it shows and what it hides*)
(***************************************************************************)

(* Sizes and stacks that Containers is about *)
Sizes ==
  /\ Gear \in Nat /\ Main \in Nat /\ Hotbar \in Nat /\ MenuSize \in Nat
  /\ Initial \in Slots(Size) /\ Offers \subseteq Slots(MenuSize)

LEMMA IndicesRun ==
  ASSUME NEW from \in Nat, NEW n \in Nat
  PROVE  /\ Indices(from, n) \in Seq(from..from + n - 1) /\ Len(Indices(from, n)) = n
         /\ \A i : Among(i, Indices(from, n)) => i \in from..from + n - 1
<1> DEFINE run == Indices(from, n)
<1>1. run = [k \in 1..n |-> from + k - 1]  BY DEF Indices
<1>2. run \in [1..n -> from..from + n - 1]  BY <1>1
<1> HIDE DEF run
<1>3. run \in Seq(from..from + n - 1) /\ Len(run) = n  BY <1>2
<1>4. \A i : Among(i, run) => i \in from..from + n - 1  BY <1>2, <1>3 DEF Among
<1> QED BY <1>3, <1>4 DEF run

LEMMA Widens ==
  ASSUME NEW S, NEW T, S \subseteq T, NEW s \in Seq(S) PROVE s \in Seq(T)
<1>1. Len(s) \in Nat /\ s \in [1..Len(s) -> S]  OBVIOUS
<1>2. s \in [1..Len(s) -> T]  BY <1>1
<1> QED BY <1>1, <1>2

LEMMA Layout ==
  ASSUME NEW c \in Nat, NEW m \in Nat, NEW h \in Nat, NEW n \in Nat, c + m + h <= n,
         NEW player \in BOOLEAN, NEW offhand \in SUBSET (0..n - 1), NEW output \in SUBSET Int
  PROVE  [player |-> player, container |-> Indices(0, c), main |-> Indices(c, m),
          hotbar |-> Indices(c + m, h), offhand |-> offhand, output |-> output] \in Layouts(n)
<1> DEFINE C == Indices(0, c)
           M == Indices(c, m)
           H == Indices(c + m, h)
<1>1. /\ C \in Seq(0..0 + c - 1) /\ M \in Seq(c..c + m - 1) /\ H \in Seq(c + m..c + m + h - 1)
      /\ \A i : Among(i, C) => i \in 0..0 + c - 1
      /\ \A i : Among(i, M) => i \in c..c + m - 1
      /\ \A i : Among(i, H) => i \in c + m..c + m + h - 1
  <2>1. 0 \in Nat /\ c + m \in Nat  OBVIOUS
  <2> QED BY <2>1, IndicesRun
<1> HIDE DEF C, M, H
<1>2. C \in Seq(0..n - 1)
  <2>1. 0..0 + c - 1 \subseteq 0..n - 1  OBVIOUS
  <2> QED BY <1>1, <2>1, Widens
<1>3. M \in Seq(0..n - 1)
  <2>1. c..c + m - 1 \subseteq 0..n - 1  OBVIOUS
  <2> QED BY <1>1, <2>1, Widens
<1>4. H \in Seq(0..n - 1)
  <2>1. c + m..c + m + h - 1 \subseteq 0..n - 1  OBVIOUS
  <2> QED BY <1>1, <2>1, Widens
<1> DEFINE l == [player |-> player, container |-> C, main |-> M, hotbar |-> H,
                 offhand |-> offhand, output |-> output]
<1>5. Apart(l)  BY <1>1 DEF Apart
<1>6. l \in Layouts(n)  BY <1>2, <1>3, <1>4, <1>5 DEF Layouts
<1> QED BY <1>6 DEF C, M, H

(* How many slots of the inventory a menu shows *)
Extra == MenuWindow - MenuSize

LEMMA Geometry ==
  ASSUME Sizes
  PROVE  /\ Size \in Nat /\ MenuWindow \in Nat /\ Extra \in Nat /\ MenuWindow = MenuSize + Extra
         /\ Gear + Extra <= Size /\ Visible = Gear..Gear + Extra - 1
         /\ PlayerLayout \in Layouts(Size) /\ MenuLayout \in Layouts(MenuWindow)
<1>1. Gear \in Nat /\ Main \in Nat /\ Hotbar \in Nat /\ MenuSize \in Nat  BY DEF Sizes
<1>2. Size \in Nat /\ Size = Gear + Main + Hotbar + 1  BY <1>1 DEF Size
<1> DEFINE m == IF ShowsInventory THEN Main ELSE 0
           h == IF ShowsInventory THEN Hotbar ELSE 0
<1>3. m \in Nat /\ h \in Nat /\ m + h <= Main + Hotbar  BY <1>1
<1>4. MenuLayout = [player |-> FALSE, container |-> Indices(0, MenuSize),
                    main |-> Indices(MenuSize, m), hotbar |-> Indices(MenuSize + m, h),
                    offhand |-> {}, output |-> {}]
  BY DEF MenuLayout
<1> HIDE DEF m, h
<1>5. Len(MenuLayout.main) = m /\ Len(MenuLayout.hotbar) = h
  <2>1. MenuLayout.main = Indices(MenuSize, m) /\ MenuLayout.hotbar = Indices(MenuSize + m, h)
    BY <1>4
  <2>2. MenuSize + m \in Nat  BY <1>1, <1>3
  <2>3. Len(Indices(MenuSize, m)) = m /\ Len(Indices(MenuSize + m, h)) = h
    BY <1>1, <1>3, <2>2, IndicesRun
  <2> QED BY <2>1, <2>3
<1>6. MenuWindow = MenuSize + m + h  BY <1>5 DEF MenuWindow
<1>7. Extra = m + h  BY <1>1, <1>3, <1>6 DEF Extra
<1>8. MenuWindow \in Nat /\ Extra \in Nat /\ MenuWindow = MenuSize + Extra /\ Gear + Extra <= Size
  BY <1>1, <1>2, <1>3, <1>6, <1>7
<1>9. Visible = Gear..Gear + Extra - 1
  <2>1. Gear + MenuWindow - MenuSize - 1 = Gear + Extra - 1  BY <1>1, <1>8
  <2> QED BY <2>1 DEF Visible
<1>10. PlayerLayout \in Layouts(Size)
  <2>1. /\ Gear + Main + Hotbar <= Size /\ {Size - 1} \in SUBSET (0..Size - 1) /\ {0} \in SUBSET Int
    BY <1>1, <1>2
  <2> QED BY <1>1, <1>2, <2>1, Layout DEF PlayerLayout
<1>11. MenuLayout \in Layouts(MenuWindow)
  <2>1. /\ MenuSize + m + h <= MenuWindow /\ {} \in SUBSET (0..MenuWindow - 1) /\ {} \in SUBSET Int
    BY <1>1, <1>3, <1>6
  <2> QED BY <1>1, <1>3, <1>4, <1>8, <2>1, Layout
<1> QED BY <1>2, <1>8, <1>9, <1>10, <1>11

(* What the slots of the inventory that a menu does not show hold *)
Unseen(slots, x) == Sum(Of(slots, x), Hidden)

(* A menu's window holds what the menu does and the slots it shows. *)
LEMMA WindowCounts ==
  ASSUME Sizes, NEW menu \in Slots(MenuSize), NEW slots \in Slots(Size)
  PROVE  /\ WindowOf(menu, slots) \in Slots(MenuWindow)
         /\ \A x : /\ Count(WindowOf(menu, slots), x) + Unseen(slots, x)
                        = Count(menu, x) + Count(slots, x)
                   /\ Unseen(slots, x) \in Nat
<1> DEFINE win == WindowOf(menu, slots)
<1>1. /\ Size \in Nat /\ MenuWindow \in Nat /\ Extra \in Nat /\ MenuWindow = MenuSize + Extra
      /\ Gear + Extra <= Size /\ Visible = Gear..Gear + Extra - 1
      /\ Gear \in Nat /\ MenuSize \in Nat
  BY Geometry DEF Sizes
<1>2. /\ win = [s \in 0..MenuWindow - 1 |-> IF s < MenuSize THEN menu[s] ELSE slots[InInventory(s)]]
  BY DEF WindowOf
<1>3. \A s \in 0..MenuWindow - 1 : s >= MenuSize => InInventory(s) \in 0..Size - 1 /\ InInventory(s) = Gear + (s - MenuSize)
  BY <1>1 DEF InInventory
<1>4. win \in Slots(MenuWindow)
  <2>1. \A s \in 0..MenuWindow - 1 : s < MenuSize => menu[s] \in Stacks  BY <1>1 DEF Slots
  <2>2. \A s \in 0..MenuWindow - 1 : ~(s < MenuSize) => slots[InInventory(s)] \in Stacks
    BY <1>1, <1>3 DEF Slots
  <2> QED BY <1>2, <2>1, <2>2 DEF Slots
<1>5. \A s \in 0..MenuSize - 1 : s \in 0..MenuWindow - 1 /\ win[s] = menu[s]  BY <1>1, <1>2
<1>6. \A j \in 0..Extra - 1 : MenuSize + j \in 0..MenuWindow - 1 /\ Gear + j \in 0..Size - 1
                              /\ win[MenuSize + j] = slots[Gear + j]
  <2> SUFFICES ASSUME NEW j \in 0..Extra - 1
               PROVE  MenuSize + j \in 0..MenuWindow - 1 /\ Gear + j \in 0..Size - 1
                      /\ win[MenuSize + j] = slots[Gear + j]
    OBVIOUS
  <2>1. /\ MenuSize + j \in 0..MenuWindow - 1 /\ ~(MenuSize + j < MenuSize) /\ Gear + j \in 0..Size - 1
        /\ InInventory(MenuSize + j) = Gear + j
    BY <1>1 DEF InInventory
  <2> QED BY <1>2, <2>1
<1> HIDE DEF win
<1>7. ASSUME NEW x
      PROVE  /\ Count(win, x) + Unseen(slots, x) = Count(menu, x) + Count(slots, x)
             /\ Unseen(slots, x) \in Nat
  <2> DEFINE f == Of(win, x)
             g == Of(menu, x)
             h == Of(slots, x)
             D == 0..MenuWindow - 1
             V == 0..0 + MenuSize - 1
             U == MenuSize..MenuSize + Extra - 1
             E == 0..Size - 1
  <2>1. /\ Count(win, x) = Sum(f, D) /\ IsFiniteSet(D)
        /\ \A t \in D : f[t] = OfStack(win[t], x) /\ f[t] \in Nat
    <3>1. DOMAIN win = D  BY <1>4 DEF Slots
    <3> QED BY <1>1, <1>4, <3>1, CountSums, SlotsFinite
  <2>2. /\ Count(menu, x) = Sum(g, V)
        /\ \A t \in V : g[t] = OfStack(menu[t], x) /\ g[t] \in Nat
    <3>1. DOMAIN menu = V  BY <1>1 DEF Slots
    <3> QED BY <1>1, <3>1, CountSums, SlotsFinite
  <2>3. /\ Count(slots, x) = Sum(h, E) /\ IsFiniteSet(E)
        /\ \A t \in E : h[t] = OfStack(slots[t], x) /\ h[t] \in Nat
    <3>1. DOMAIN slots = E  BY DEF Slots
    <3> QED BY <1>1, <3>1, CountSums, SlotsFinite
  <2>4. V \in SUBSET D /\ D \ V = U /\ Visible \in SUBSET E /\ E \ Visible = Hidden
    <3>1. V \in SUBSET D  BY <1>1
    <3>2. D \ V = U  BY <1>1
    <3>3. Visible \in SUBSET E  BY <1>1
    <3> QED BY <3>1, <3>2, <3>3 DEF Hidden
  <2>5. V = 0..MenuSize - 1  BY <1>1
  <2> HIDE DEF f, g, h
  <2>6. Sum(f, V) = Sum(g, V)
    <3>1. Shifted(f, 0, g, 0, MenuSize)  BY <1>1, <1>5, <2>1, <2>2 DEF Shifted
    <3>2. 0 \in Int /\ MenuSize \in Nat  BY <1>1
    <3>3. Sum(f, 0..0 + MenuSize - 1) = Sum(g, 0..0 + MenuSize - 1)  BY <3>1, <3>2, SumShifts
    <3> QED BY <3>3
  <2>7. Sum(f, U) = Sum(h, Visible)
    <3>1. Shifted(f, MenuSize, h, Gear, Extra)  BY <1>1, <1>6, <2>1, <2>3 DEF Shifted
    <3>2. MenuSize \in Int /\ Gear \in Int /\ Extra \in Nat  BY <1>1
    <3>3. Sum(f, MenuSize..MenuSize + Extra - 1) = Sum(h, Gear..Gear + Extra - 1)
      BY <3>1, <3>2, SumShifts
    <3> QED BY <1>1, <3>3
  <2> HIDE DEF D, V, U, E
  <2>8. Sum(f, D) = Sum(f, V) + Sum(f, U) /\ Sum(f, V) \in Nat /\ Sum(f, U) \in Nat
    BY <2>1, <2>4, SumSplits
  <2>9. Sum(h, E) = Sum(h, Visible) + Sum(h, Hidden) /\ Sum(h, Visible) \in Nat /\ Sum(h, Hidden) \in Nat
    BY <2>3, <2>4, SumSplits
  <2> QED BY <2>1, <2>2, <2>3, <2>6, <2>7, <2>8, <2>9 DEF Unseen, h
<1> QED BY <1>4, <1>7 DEF win

LEMMA UnseenSame ==
  ASSUME Sizes, NEW slots \in Slots(Size), NEW old \in Slots(Size),
         \A t \in Hidden : slots[t] = old[t], NEW x
  PROVE  Unseen(slots, x) = Unseen(old, x)
<1> DEFINE f == Of(slots, x)
           e == Of(old, x)
<1>1. Size \in Nat  BY Geometry
<1>2. /\ DOMAIN slots = 0..Size - 1 /\ DOMAIN old = 0..Size - 1 /\ IsFiniteSet(DOMAIN slots)
      /\ \A t \in DOMAIN slots : f[t] = OfStack(slots[t], x) /\ f[t] \in Nat
      /\ \A t \in DOMAIN old : e[t] = OfStack(old[t], x)
  BY <1>1, SlotsFinite
<1>3. Hidden \subseteq 0..Size - 1  BY DEF Hidden
<1>4. IsFiniteSet(Hidden)  BY <1>2, <1>3, FS_Subset
<1> HIDE DEF f, e
<1>5. \A t \in Hidden : f[t] \in Nat /\ f[t] = e[t]  BY <1>2, <1>3
<1> QED BY <1>4, <1>5, SumSame DEF Unseen, f, e

(* The slots of the inventory that a menu shows, taken from its window *)
LEMMA WindowReturns ==
  ASSUME Sizes, NEW win \in Slots(MenuWindow), NEW old \in Slots(Size),
         NEW slots, slots = [i \in DOMAIN old |-> IF i \in Visible THEN win[i - Gear + MenuSize]
                                                  ELSE old[i]],
         NEW menu, menu = [s \in 0..MenuSize - 1 |-> win[s]]
  PROVE  /\ slots \in Slots(Size) /\ menu \in Slots(MenuSize)
         /\ \A x : Count(menu, x) + Count(slots, x) = Count(win, x) + Unseen(old, x)
<1>1. /\ Size \in Nat /\ MenuWindow \in Nat /\ Extra \in Nat /\ MenuWindow = MenuSize + Extra
      /\ Gear + Extra <= Size /\ Visible = Gear..Gear + Extra - 1
      /\ Gear \in Nat /\ MenuSize \in Nat
  BY Geometry DEF Sizes
<1>2. DOMAIN old = 0..Size - 1 /\ \A i \in 0..Size - 1 : old[i] \in Stacks  BY DEF Slots
<1>3. \A s \in 0..MenuWindow - 1 : win[s] \in Stacks  BY DEF Slots
<1>4. \A i \in Visible : i \in 0..Size - 1 /\ i - Gear + MenuSize \in 0..MenuWindow - 1  BY <1>1
<1>5. slots \in Slots(Size)  BY <1>2, <1>3, <1>4 DEF Slots
<1>6. menu \in Slots(MenuSize)
  <2>1. \A s \in 0..MenuSize - 1 : s \in 0..MenuWindow - 1  BY <1>1
  <2> QED BY <1>3, <2>1 DEF Slots
<1>7. win = WindowOf(menu, slots)
  <2> DEFINE again == WindowOf(menu, slots)
  <2>1. again = [s \in 0..MenuWindow - 1 |-> IF s < MenuSize THEN menu[s] ELSE slots[InInventory(s)]]
    BY DEF WindowOf
  <2>2. ASSUME NEW s \in 0..MenuWindow - 1 PROVE again[s] = win[s]
    <3>1. CASE s < MenuSize
      <4>1. s \in 0..MenuSize - 1  BY <1>1, <3>1
      <4> QED BY <2>1, <3>1, <4>1
    <3>2. CASE ~(s < MenuSize)
      <4>1. again[s] = slots[InInventory(s)]  BY <2>1, <3>2
      <4>2. InInventory(s) \in Visible /\ InInventory(s) - Gear + MenuSize = s
        BY <1>1, <3>2 DEF InInventory
      <4>3. slots[InInventory(s)] = win[InInventory(s) - Gear + MenuSize]  BY <1>2, <1>4, <4>2
      <4> QED BY <4>1, <4>2, <4>3
    <3> QED BY <3>1, <3>2
  <2>3. win = [s \in 0..MenuWindow - 1 |-> win[s]]  BY DEF Slots
  <2>4. again = [s \in 0..MenuWindow - 1 |-> again[s]]  BY <2>1
  <2> HIDE DEF again
  <2> QED BY <2>2, <2>3, <2>4 DEF again
<1>8. \A x : Unseen(slots, x) = Unseen(old, x)
  <2>1. \A t \in Hidden : slots[t] = old[t]  BY <1>2 DEF Hidden
  <2> QED BY <1>5, <2>1, UnseenSame
<1>9. ASSUME NEW x PROVE Count(menu, x) + Count(slots, x) = Count(win, x) + Unseen(old, x)
  <2>1. Count(win, x) + Unseen(slots, x) = Count(menu, x) + Count(slots, x)
    BY <1>5, <1>6, <1>7, WindowCounts
  <2> QED BY <1>8, <2>1
<1> QED BY <1>5, <1>6, <1>9

(* What deposit leaves in the stack is of the stack's item. *)
LEMMA DepositSame ==
  ASSUME StackSizes, NEW n \in Nat, NEW slots \in Slots(n), NEW item \in Items,
         NEW stack \in Dragged(item), NEW order \in Seq(0..n - 1)
  PROVE  Deposit(slots, stack, order).stack \in Dragged(item)
<1> DEFINE total == [x \in Items |-> Count(slots, x) + OfStack(stack, x)]
           X == {a \in Held(n, total) : a.stack \in Dragged(item)}
           base == [slots |-> slots, stack |-> stack]
           m == Len(order)
           merged == FoldLeft(Merge, base, order)
<1>1. base \in X
  <2>1. stack \in Stacks  BY DEF Dragged, Stacks
  <2> QED BY <2>1 DEF Held
<1>2. m \in Nat /\ DOMAIN order = 1..m /\ \A k \in 1..m : order[k] \in 0..n - 1  OBVIOUS
<1>3. ASSUME NEW s \in Dragged(item), s.count > 0, NEW k, WithCount(s, k) \in Stacks
      PROVE  WithCount(s, k) \in Dragged(item)
  BY <1>3 DEF Dragged, WithCount, Stacks, Empty
<1>4. merged \in X
  <2>1. ASSUME NEW a \in X, NEW i \in 0..n - 1 PROVE Merge(a, i) \in X
    <3>1. a \in Held(n, total) /\ a.stack \in Dragged(item)  OBVIOUS
    <3>2. Merge(a, i) \in Held(n, total)  BY <3>1, MergeHolds
    <3>3. Merge(a, i).stack \in Stacks  BY <3>2 DEF Held
    <3>4. \/ Merge(a, i).stack = a.stack
          \/ a.stack.count > 0 /\ \E k : Merge(a, i).stack = WithCount(a.stack, k)
      BY DEF Merge
    <3>5. Merge(a, i).stack \in Dragged(item)  BY <1>3, <3>1, <3>3, <3>4
    <3> QED BY <3>2, <3>5
  <2>2. \A a \in X : \A k \in 1..m : Merge(a, order[k]) \in X  BY <1>2, <2>1
  <2> HIDE DEF X, base, m
  <2> QED BY <1>1, <1>2, <2>2, MergesStay
<1>5. FoldLeft(Fill, merged, order) \in X
  <2>1. ASSUME NEW a \in X, NEW i \in 0..n - 1 PROVE Fill(a, i) \in X
    <3>1. a \in Held(n, total) /\ a.stack \in Dragged(item)  OBVIOUS
    <3>2. Fill(a, i) \in Held(n, total)  BY <3>1, FillHolds
    <3>3. Fill(a, i).stack \in Stacks  BY <3>2 DEF Held
    <3>4. \/ Fill(a, i).stack = a.stack
          \/ a.stack.count > 0 /\ \E k : Fill(a, i).stack = WithCount(a.stack, k)
      BY DEF Fill
    <3>5. Fill(a, i).stack \in Dragged(item)  BY <1>3, <3>1, <3>3, <3>4
    <3> QED BY <3>2, <3>5
  <2>2. \A a \in X : \A k \in 1..m : Fill(a, order[k]) \in X  BY <1>2, <2>1
  <2> HIDE DEF X, m, merged
  <2> QED BY <1>2, <1>4, <2>2, FillsStay
<1>6. Deposit(slots, stack, order) \in X  BY <1>5 DEF Deposit
<1> HIDE DEF merged, base, m
<1> QED BY <1>6

(* The order of give names slots of the inventory. *)
LEMMA Given == ASSUME Sizes PROVE GiveOrder \in Seq(0..Size - 1)
<1>1. PlayerLayout.hotbar \in Seq(0..Size - 1) /\ PlayerLayout.main \in Seq(0..Size - 1)
  BY Geometry DEF Layouts
<1> QED BY <1>1 DEF GiveOrder

-----------------------------------------------------------------------------
(* An inventory, and a menu, as they should be *)
GoodInventory(i) ==
  /\ i = [slots |-> i.slots, cursor |-> i.cursor, drag |-> i.drag, state |-> i.state,
          dirty |-> i.dirty]
  /\ i.slots \in Slots(Size) /\ i.cursor \in Stacks /\ i.drag \in Drags(Size)

GoodMenu(o) ==
  /\ o = [gen |-> o.gen, id |-> o.id, slots |-> o.slots, editable |-> o.editable,
          state |-> o.state, drag |-> o.drag, full |-> o.full, marked |-> o.marked,
          title |-> o.title]
  /\ o.slots \in Slots(MenuSize) /\ o.drag \in Drags(MenuWindow)

(* Marking slots of a menu changes nothing else of it. *)
LEMMA MenuMarks ==
  ASSUME NEW m, GoodMenu(m), NEW U
  PROVE  LET n == [m EXCEPT !.marked = U] IN
         /\ n = [gen |-> m.gen, id |-> m.id, slots |-> m.slots, editable |-> m.editable,
                 state |-> m.state, drag |-> m.drag, full |-> m.full, marked |-> U,
                 title |-> m.title]
         /\ GoodMenu(n)
<1> DEFINE n == [m EXCEPT !.marked = U]
           r == [gen |-> m.gen, id |-> m.id, slots |-> m.slots, editable |-> m.editable,
                 state |-> m.state, drag |-> m.drag, full |-> m.full, marked |-> U,
                 title |-> m.title]
<1>1. m = [gen |-> m.gen, id |-> m.id, slots |-> m.slots, editable |-> m.editable,
           state |-> m.state, drag |-> m.drag, full |-> m.full, marked |-> m.marked,
           title |-> m.title]
  BY DEF GoodMenu
<1>2. DOMAIN m = {"gen", "id", "slots", "editable", "state", "drag", "full", "marked", "title"}
  BY <1>1
<1>3. n = r  BY <1>2
<1>4. r.slots = m.slots /\ r.drag = m.drag  OBVIOUS
<1>5. r = [gen |-> r.gen, id |-> r.id, slots |-> r.slots, editable |-> r.editable,
           state |-> r.state, drag |-> r.drag, full |-> r.full, marked |-> r.marked,
           title |-> r.title]
  OBVIOUS
<1> HIDE DEF n, r
<1>6. GoodMenu(n)  BY <1>3, <1>4, <1>5 DEF GoodMenu
<1> QED BY <1>3, <1>6 DEF n, r

(* What an inventory has, cursor included, and what a menu that is open has *)
HasInventory(i, x) == Count(i.slots, x) + OfStack(i.cursor, x)
HasMenu(o, x) == IF o.gen # 0 THEN Count(o.slots, x) ELSE 0

(* Everything that was made is somewhere. *)
Ledger == \A x \in Items : made[x] = HasInventory(inv, x) + thrown[x] + HasMenu(open, x)

StoreInv ==
  /\ GoodInventory(inv) /\ (IsOpen => GoodMenu(open))
  /\ thrown \in [Items -> Nat] /\ made \in [Items -> Int] /\ Ledger

LEMMA HasTypes ==
  ASSUME Sizes
  PROVE  /\ \A i : GoodInventory(i) => \A x : HasInventory(i, x) \in Nat
         /\ \A o : (o.gen # 0 => GoodMenu(o)) => \A x : HasMenu(o, x) \in Nat
<1>1. Size \in Nat /\ MenuSize \in Nat  BY Geometry DEF Sizes
<1>2. ASSUME NEW i, GoodInventory(i), NEW x PROVE HasInventory(i, x) \in Nat
  <2>1. i.slots \in Slots(Size) /\ i.cursor \in Stacks  BY <1>2 DEF GoodInventory
  <2>2. Count(i.slots, x) \in Nat  BY <1>1, <2>1, CountSums
  <2>3. OfStack(i.cursor, x) \in Nat  BY <2>1, OfStackType
  <2> QED BY <2>2, <2>3 DEF HasInventory
<1>3. ASSUME NEW o, o.gen # 0 => GoodMenu(o), NEW x PROVE HasMenu(o, x) \in Nat
  <2>1. CASE o.gen = 0  BY <2>1 DEF HasMenu
  <2>2. CASE o.gen # 0
    <3>1. o.slots \in Slots(MenuSize)  BY <1>3, <2>2 DEF GoodMenu
    <3>2. Count(o.slots, x) \in Nat  BY <1>1, <3>1, CountSums
    <3> QED BY <2>2, <3>2 DEF HasMenu
  <2> QED BY <2>1, <2>2
<1> QED BY <1>2, <1>3

(* Marks take nothing. *)
LEMMA SettersKeep ==
  ASSUME NEW i, GoodInventory(i)
  PROVE  /\ \A S : /\ GoodInventory(Marked(i, S)) /\ Marked(i, S).slots = i.slots
                   /\ Marked(i, S).cursor = i.cursor
         /\ GoodInventory(Full(i)) /\ Full(i).slots = i.slots /\ Full(i).cursor = i.cursor
         /\ /\ GoodInventory(CursorMarked(i)) /\ CursorMarked(i).slots = i.slots
            /\ CursorMarked(i).cursor = i.cursor
         /\ \A slots \in Slots(Size) :
              /\ GoodInventory(SetSlots(i, slots)) /\ SetSlots(i, slots).slots = slots
              /\ SetSlots(i, slots).cursor = i.cursor
         /\ \A stack \in Stacks :
              /\ GoodInventory(SetCursor(i, stack)) /\ SetCursor(i, stack).slots = i.slots
              /\ SetCursor(i, stack).cursor = stack
         /\ \A stack \in Stacks : GoodInventory([i EXCEPT !.cursor = stack])
         /\ \A drag \in Drags(Size) : GoodInventory([i EXCEPT !.drag = drag])
<1>1. ASSUME NEW dirty, NEW j, j = [i EXCEPT !.dirty = dirty]
      PROVE  GoodInventory(j) /\ j.slots = i.slots /\ j.cursor = i.cursor
  BY <1>1 DEF GoodInventory
<1>2. ASSUME NEW S
      PROVE  /\ GoodInventory(Marked(i, S)) /\ Marked(i, S).slots = i.slots
             /\ Marked(i, S).cursor = i.cursor
  <2>1. Marked(i, S) = [i EXCEPT !.dirty = [i.dirty EXCEPT !.slots = @ \cup S]]  BY DEF Marked
  <2> QED BY <1>1, <2>1
<1>3. GoodInventory(Full(i)) /\ Full(i).slots = i.slots /\ Full(i).cursor = i.cursor
  <2>1. Full(i) = [i EXCEPT !.dirty = [i.dirty EXCEPT !.full = TRUE]]  BY DEF Full
  <2> QED BY <1>1, <2>1
<1>4. /\ GoodInventory(CursorMarked(i)) /\ CursorMarked(i).slots = i.slots
      /\ CursorMarked(i).cursor = i.cursor
  <2>1. CursorMarked(i) = [i EXCEPT !.dirty = [i.dirty EXCEPT !.cursor = TRUE]]  BY DEF CursorMarked
  <2> QED BY <1>1, <2>1
<1>5. ASSUME NEW slots \in Slots(Size)
      PROVE  /\ GoodInventory(SetSlots(i, slots)) /\ SetSlots(i, slots).slots = slots
             /\ SetSlots(i, slots).cursor = i.cursor
  <2> DEFINE j == Marked(i, Differ(slots, i.slots))
  <2>1. GoodInventory(j) /\ j.cursor = i.cursor  BY <1>2
  <2>2. SetSlots(i, slots) = [j EXCEPT !.slots = slots]  BY DEF SetSlots
  <2> HIDE DEF j
  <2> QED BY <2>1, <2>2 DEF GoodInventory
<1>6. ASSUME NEW stack \in Stacks
      PROVE  /\ GoodInventory(SetCursor(i, stack)) /\ SetCursor(i, stack).slots = i.slots
             /\ SetCursor(i, stack).cursor = stack
  <2> DEFINE j == [i EXCEPT !.cursor = stack]
  <2>1. SetCursor(i, stack) = [j EXCEPT !.dirty = [i.dirty EXCEPT !.cursor = @ \/ stack # i.cursor]]
    BY DEF SetCursor, GoodInventory
  <2> QED BY <2>1 DEF GoodInventory
<1>7. \A stack \in Stacks : GoodInventory([i EXCEPT !.cursor = stack])  BY DEF GoodInventory
<1>8. \A drag \in Drags(Size) : GoodInventory([i EXCEPT !.drag = drag])  BY DEF GoodInventory
<1> QED BY <1>2, <1>3, <1>4, <1>5, <1>6, <1>7, <1>8

LEMMA Thrown1 ==
  ASSUME thrown \in [Items -> Nat], NEW d \in Stacks, Throws(d)
  PROVE  thrown' \in [Items -> Nat] /\ \A x \in Items : thrown'[x] = thrown[x] + OfStack(d, x)
<1>1. thrown' = [x \in Items |-> thrown[x] + OfStack(d, x)]  BY DEF Throws, Adds
<1>2. \A x \in Items : OfStack(d, x) \in Nat  BY OfStackType
<1> QED BY <1>1, <1>2

(* A step that moves things, makes some and throws some *)
LEMMA Balances ==
  ASSUME Sizes, StoreInv, GoodInventory(inv'), open'.gen # 0 => GoodMenu(open'),
         thrown' \in [Items -> Nat], made' \in [Items -> Int],
         \A x \in Items : HasInventory(inv', x) + thrown'[x] + HasMenu(open', x) - made'[x]
                            = HasInventory(inv, x) + thrown[x] + HasMenu(open, x) - made[x]
  PROVE  StoreInv'
<1>1. /\ GoodInventory(inv) /\ (open.gen # 0 => GoodMenu(open))
      /\ thrown \in [Items -> Nat] /\ made \in [Items -> Int]
      /\ \A x \in Items : made[x] = HasInventory(inv, x) + thrown[x] + HasMenu(open, x)
  BY DEF StoreInv, Ledger, IsOpen
<1>2. ASSUME NEW x \in Items
      PROVE  made'[x] = HasInventory(inv', x) + thrown'[x] + HasMenu(open', x)
  <2> DEFINE a == HasInventory(inv, x)
             b == thrown[x]
             c == HasMenu(open, x)
             d == made[x]
             e == HasInventory(inv', x)
             f == thrown'[x]
             g == HasMenu(open', x)
             h == made'[x]
  <2>1. a \in Nat /\ c \in Nat /\ e \in Nat /\ g \in Nat  BY <1>1, HasTypes
  <2>2. b \in Nat /\ f \in Nat /\ d \in Int /\ h \in Int  BY <1>1
  <2>3. e + f + g - h = a + b + c - d  OBVIOUS
  <2>4. d = a + b + c  BY <1>1
  <2>5. h = e + f + g
    <3> HIDE DEF a, b, c, d, e, f, g, h
    <3> QED BY <2>1, <2>2, <2>3, <2>4
  <2> QED BY <2>5
<1>3. Ledger'  BY <1>2 DEF Ledger
<1>4. (IsOpen => GoodMenu(open))'  BY DEF IsOpen
<1> QED BY <1>3, <1>4 DEF StoreInv

-----------------------------------------------------------------------------
(***************************************************************************)
(* Actions: what one item's columns of the ledger lose, others gain        *)
(***************************************************************************)

(* A step that moves nothing *)
LEMMA NothingMoves ==
  ASSUME Sizes, StoreInv, GoodInventory(inv'), inv'.slots = inv.slots, inv'.cursor = inv.cursor,
         open'.gen = open.gen, open.gen # 0 => GoodMenu(open') /\ open'.slots = open.slots,
         UNCHANGED <<made, thrown>>
  PROVE  StoreInv'
<1>1. \A x : HasInventory(inv', x) = HasInventory(inv, x)  BY DEF HasInventory
<1>2. \A x : HasMenu(open', x) = HasMenu(open, x)  BY DEF HasMenu
<1>3. thrown' \in [Items -> Nat] /\ made' \in [Items -> Int]  BY DEF StoreInv
<1> QED BY <1>1, <1>2, <1>3, Balances

LEMMA AllStays == ASSUME Sizes, StoreInv, UNCHANGED <<inv, open, made, thrown>> PROVE StoreInv'
<1>1. GoodInventory(inv) /\ (open.gen # 0 => GoodMenu(open))  BY DEF StoreInv, IsOpen
<1> QED BY <1>1, NothingMoves

(* A step that makes nothing *)
LEMMA Moves ==
  ASSUME Sizes, StoreInv, GoodInventory(inv'), open'.gen # 0 => GoodMenu(open'),
         NEW d \in Stacks, Throws(d), made' = made,
         \A x \in Items : HasInventory(inv', x) + OfStack(d, x) + HasMenu(open', x)
                            = HasInventory(inv, x) + HasMenu(open, x)
  PROVE  StoreInv'
<1>1. /\ GoodInventory(inv) /\ (open.gen # 0 => GoodMenu(open))
      /\ thrown \in [Items -> Nat] /\ made \in [Items -> Int]
  BY DEF StoreInv, IsOpen
<1>2. thrown' \in [Items -> Nat] /\ \A x \in Items : thrown'[x] = thrown[x] + OfStack(d, x)
  BY <1>1, Thrown1
<1>3. ASSUME NEW x \in Items
      PROVE  HasInventory(inv', x) + thrown'[x] + HasMenu(open', x) - made'[x]
               = HasInventory(inv, x) + thrown[x] + HasMenu(open, x) - made[x]
  <2> DEFINE a == HasInventory(inv, x)
             b == thrown[x]
             c == HasMenu(open, x)
             k == made[x]
             e == HasInventory(inv', x)
             f == thrown'[x]
             g == HasMenu(open', x)
             t == OfStack(d, x)
  <2>1. a \in Nat /\ c \in Nat /\ e \in Nat /\ g \in Nat  BY <1>1, HasTypes
  <2>2. b \in Nat /\ k \in Int /\ t \in Nat /\ f = b + t  BY <1>1, <1>2, OfStackType
  <2>3. e + t + g = a + c  OBVIOUS
  <2>4. e + f + g - k = a + b + c - k
    <3> HIDE DEF a, b, c, e, f, g, k, t
    <3> QED BY <2>1, <2>2, <2>3
  <2> QED BY <2>4
<1> QED BY <1>1, <1>2, <1>3, Balances

(* handle_container_click, in the inventory *)
LEMMA InventoryClickStores ==
  ASSUME StackSizes, Sizes, ~Creative, StoreInv, InventoryClick
  PROVE  StoreInv'
<1> DEFINE m == Head(up)
           i == Stale(inv, m.state)
           window == [slots |-> i.slots, cursor |-> i.cursor, drag |-> i.drag]
           w == ApplyClick(window, PlayerLayout, Creative, m.click)
           j == [SetSlots(i, w.slots) EXCEPT !.drag = w.drag]
<1>1. GoodInventory(inv) /\ Size \in Nat /\ PlayerLayout \in Layouts(Size)
  BY Geometry DEF StoreInv
<1>2. /\ inv' = SetCursor(j, w.cursor) /\ Throws(w.dropped) /\ UNCHANGED <<open, made>>
      /\ open.gen = 0
  BY DEF InventoryClick, Applied, IsOpen
<1>3. GoodInventory(i) /\ i.slots = inv.slots /\ i.cursor = inv.cursor
  BY <1>1, SettersKeep DEF Stale
<1> HIDE DEF i
<1>4. /\ window.slots = i.slots /\ window.cursor = i.cursor /\ window.drag = i.drag
      /\ window.slots \in Slots(Size) /\ window.cursor \in Stacks /\ window.drag \in Drags(Size)
  BY <1>3 DEF GoodInventory
<1> HIDE DEF window
<1>5. /\ w \in Windows(Size)
      /\ \A x \in Items : Total(w, x) = Count(window.slots, x) + OfStack(window.cursor, x)
  BY <1>1, <1>4, ClickKeeps
<1> HIDE DEF w
<1>6. w.slots \in Slots(Size) /\ w.cursor \in Stacks /\ w.drag \in Drags(Size) /\ w.dropped \in Stacks
  BY <1>5 DEF Windows
<1>7. GoodInventory(SetSlots(i, w.slots)) /\ SetSlots(i, w.slots).slots = w.slots
  BY <1>3, <1>6, SettersKeep
<1>8. GoodInventory(j) /\ j.slots = w.slots
  BY <1>6, <1>7 DEF GoodInventory
<1> HIDE DEF j
<1>9. GoodInventory(inv') /\ inv'.slots = w.slots /\ inv'.cursor = w.cursor
  BY <1>2, <1>6, <1>8, SettersKeep
<1>10. ASSUME NEW x \in Items
       PROVE  HasInventory(inv', x) + OfStack(w.dropped, x) + HasMenu(open', x)
                = HasInventory(inv, x) + HasMenu(open, x)
  <2>1. HasInventory(inv', x) + OfStack(w.dropped, x) = Total(w, x)
    BY <1>9 DEF HasInventory, Total
  <2>2. HasInventory(inv, x) = Total(w, x)  BY <1>3, <1>4, <1>5 DEF HasInventory
  <2>3. HasMenu(open, x) = 0 /\ HasMenu(open', x) = 0  BY <1>2 DEF HasMenu
  <2> QED BY <2>1, <2>2, <2>3
<1>11. open'.gen # 0 => GoodMenu(open')  BY <1>2
<1> QED BY <1>2, <1>6, <1>9, <1>10, <1>11, Moves

LEMMA CursorSet ==
  ASSUME NEW j, GoodInventory(j), NEW stack \in Stacks, NEW i, i = SetCursor(j, stack)
  PROVE  GoodInventory(i) /\ i.slots = j.slots /\ i.cursor = stack
BY SettersKeep

(* apply_menu_click *)
LEMMA AppliedToMenuKeeps ==
  ASSUME StackSizes, Sizes, ~Creative, GoodInventory(inv), GoodMenu(open), NEW click
  PROVE  LET a == AppliedToMenu(click)
         IN /\ GoodInventory(a.inv) /\ GoodMenu(a.open) /\ a.open.gen = open.gen /\ a.dropped \in Stacks
            /\ \A x \in Items :
                 HasInventory(a.inv, x) + OfStack(a.dropped, x) + Count(a.open.slots, x)
                   = HasInventory(inv, x) + Count(open.slots, x)
<1> DEFINE win == WindowOf(open.slots, inv.slots)
           window == [slots |-> win, cursor |-> inv.cursor, drag |-> open.drag]
           w == ApplyClick(window, MenuLayout, Creative, click)
           slots == [i \in DOMAIN inv.slots |-> IF i \in Visible THEN w.slots[i - Gear + MenuSize]
                                                ELSE inv.slots[i]]
           menu == [s \in DOMAIN open.slots |-> w.slots[s]]
           a == AppliedToMenu(click)
<1>1. /\ inv.slots \in Slots(Size) /\ inv.cursor \in Stacks /\ open.slots \in Slots(MenuSize)
      /\ open.drag \in Drags(MenuWindow)
  BY DEF GoodInventory, GoodMenu
<1>2. Size \in Nat /\ MenuWindow \in Nat /\ MenuSize \in Nat /\ MenuLayout \in Layouts(MenuWindow)
  BY Geometry DEF Sizes
<1>3. /\ a.inv = SetCursor(SetSlots(inv, slots), w.cursor) /\ a.dropped = w.dropped
      /\ a.open = [open EXCEPT !.slots = menu, !.drag = w.drag,
                               !.marked = @ \cup Differ(menu, open.slots)]
  BY DEF AppliedToMenu
<1>4. win \in Slots(MenuWindow)
  BY <1>1, WindowCounts
<1>5. /\ window.slots = win /\ window.cursor = inv.cursor /\ window.drag = open.drag
      /\ window.slots \in Slots(MenuWindow) /\ window.cursor \in Stacks
      /\ window.drag \in Drags(MenuWindow)
  BY <1>1, <1>4
<1>6. \A x : /\ Count(win, x) + Unseen(inv.slots, x) = Count(open.slots, x) + Count(inv.slots, x)
             /\ Unseen(inv.slots, x) \in Nat
  BY <1>1, WindowCounts
<1> HIDE DEF win, window
<1>7. /\ w \in Windows(MenuWindow)
      /\ \A x \in Items : Total(w, x) = Count(window.slots, x) + OfStack(window.cursor, x)
  BY <1>2, <1>5, ClickKeeps
<1> HIDE DEF w
<1>8. /\ w.slots \in Slots(MenuWindow) /\ w.cursor \in Stacks /\ w.drag \in Drags(MenuWindow)
      /\ w.dropped \in Stacks
  BY <1>7 DEF Windows
<1>9. /\ slots \in Slots(Size) /\ menu \in Slots(MenuSize)
      /\ \A x : Count(menu, x) + Count(slots, x) = Count(w.slots, x) + Unseen(inv.slots, x)
  <2>1. menu = [s \in 0..MenuSize - 1 |-> w.slots[s]]  BY <1>1 DEF Slots
  <2>2. slots = [i \in DOMAIN inv.slots |-> IF i \in Visible THEN w.slots[i - Gear + MenuSize]
                                            ELSE inv.slots[i]]
    OBVIOUS
  <2> HIDE DEF slots, menu
  <2> QED BY <1>1, <1>8, <2>1, <2>2, WindowReturns
<1> HIDE DEF slots, menu, a
<1>10. GoodInventory(SetSlots(inv, slots)) /\ SetSlots(inv, slots).slots = slots
  BY <1>9, SettersKeep
<1>11. GoodInventory(a.inv) /\ a.inv.slots = slots /\ a.inv.cursor = w.cursor
  <2> DEFINE j == SetSlots(inv, slots)
  <2>1. GoodInventory(j) /\ j.slots = slots /\ a.inv = SetCursor(j, w.cursor)  BY <1>3, <1>10
  <2> HIDE DEF j
  <2> QED BY <1>8, <2>1, CursorSet
<1>12. GoodMenu(a.open) /\ a.open.gen = open.gen /\ a.open.slots = menu
  BY <1>3, <1>8, <1>9 DEF GoodMenu
<1>13. ASSUME NEW x \in Items
       PROVE  HasInventory(a.inv, x) + OfStack(a.dropped, x) + Count(a.open.slots, x)
                = HasInventory(inv, x) + Count(open.slots, x)
  <2> DEFINE c1 == Count(slots, x)
             c2 == Count(menu, x)
             c3 == Count(w.slots, x)
             c4 == Count(win, x)
             c5 == Count(inv.slots, x)
             c6 == Count(open.slots, x)
             u == Unseen(inv.slots, x)
             o1 == OfStack(w.cursor, x)
             o2 == OfStack(w.dropped, x)
             o3 == OfStack(inv.cursor, x)
  <2>1. c1 \in Nat /\ c2 \in Nat /\ c3 \in Nat /\ c4 \in Nat /\ c5 \in Nat /\ c6 \in Nat
    BY <1>1, <1>2, <1>4, <1>8, <1>9, CountSums
  <2>2. o1 \in Nat /\ o2 \in Nat /\ o3 \in Nat /\ u \in Nat  BY <1>1, <1>6, <1>8, OfStackType
  <2>3. c3 + o1 + o2 = c4 + o3  BY <1>5, <1>7 DEF Total
  <2>4. c4 + u = c6 + c5  BY <1>6
  <2>5. c2 + c1 = c3 + u  BY <1>9
  <2>6. HasInventory(a.inv, x) = c1 + o1  BY <1>11 DEF HasInventory
  <2>7. HasInventory(inv, x) = c5 + o3  BY DEF HasInventory
  <2>8. OfStack(a.dropped, x) = o2 /\ Count(a.open.slots, x) = c2  BY <1>3, <1>12
  <2> HIDE DEF c1, c2, c3, c4, c5, c6, u, o1, o2, o3
  <2>9. c1 + o1 + o2 + c2 = c5 + o3 + c6  BY <2>1, <2>2, <2>3, <2>4, <2>5
  <2> QED BY <2>6, <2>7, <2>8, <2>9 DEF c6
<1> QED BY <1>3, <1>8, <1>11, <1>12, <1>13 DEF a

LEMMA FullKeeps ==
  ASSUME NEW i, GoodInventory(i)
  PROVE  GoodInventory(Full(i)) /\ Full(i).slots = i.slots /\ Full(i).cursor = i.cursor
BY SettersKeep

LEMMA MenuClickStores ==
  ASSUME StackSizes, Sizes, ~Creative, StoreInv, MenuClick
  PROVE  StoreInv'
<1> DEFINE m == Head(up)
<1>1. GoodInventory(inv) /\ GoodMenu(open) /\ open.gen # 0  BY DEF StoreInv, MenuClick, IsOpen
<1>2. CASE open.editable
  <2> DEFINE a == AppliedToMenu(m.click)
  <2>1. /\ inv' = a.inv /\ Throws(a.dropped) /\ UNCHANGED made
        /\ open' = [a.open EXCEPT !.full = @ \/ m.state # open.state]
    BY <1>2 DEF MenuClick
  <2>2. GoodInventory(a.inv) /\ GoodMenu(a.open) /\ a.open.gen = open.gen /\ a.dropped \in Stacks
    BY <1>1, AppliedToMenuKeeps
  <2>3. \A x \in Items :
          HasInventory(a.inv, x) + OfStack(a.dropped, x) + Count(a.open.slots, x)
            = HasInventory(inv, x) + Count(open.slots, x)
    BY <1>1, AppliedToMenuKeeps
  <2> HIDE DEF a, m
  <2>4. GoodMenu(open') /\ open'.gen = open.gen /\ open'.slots = a.open.slots
    BY <2>1, <2>2 DEF GoodMenu
  <2>5. \A x \in Items : HasInventory(inv', x) + OfStack(a.dropped, x) + HasMenu(open', x)
                           = HasInventory(inv, x) + HasMenu(open, x)
    BY <1>1, <2>1, <2>3, <2>4 DEF HasMenu
  <2> QED BY <2>1, <2>2, <2>4, <2>5, Moves
<1>3. CASE ~open.editable
  <2> DEFINE S == {InInventory(s) : s \in {c \in m.changed : c >= MenuSize}}
             T == {c \in m.changed : c < MenuSize}
             o == [open EXCEPT !.marked = @ \cup T]
  <2>1. /\ inv' = CursorMarked(Marked(inv, S)) /\ Throws(Empty) /\ UNCHANGED made
        /\ open' = [o EXCEPT !.full = @ \/ m.state # open.state]
    BY <1>3 DEF MenuClick, Restored
  <2> HIDE DEF S, T, m
  <2>2. GoodInventory(Marked(inv, S)) /\ Marked(inv, S).slots = inv.slots /\ Marked(inv, S).cursor = inv.cursor
    BY <1>1, SettersKeep
  <2>3. GoodInventory(inv') /\ inv'.slots = inv.slots /\ inv'.cursor = inv.cursor
    BY <2>1, <2>2, SettersKeep
  <2>4. GoodMenu(open') /\ open'.gen = open.gen /\ open'.slots = open.slots
    <3>1. /\ o = [gen |-> open.gen, id |-> open.id, slots |-> open.slots, editable |-> open.editable,
                  state |-> open.state, drag |-> open.drag, full |-> open.full,
                  marked |-> open.marked \cup T, title |-> open.title]
          /\ GoodMenu(o)
      BY <1>1, MenuMarks
    <3>2. o.gen = open.gen /\ o.slots = open.slots  BY <3>1
    <3> HIDE DEF o
    <3> QED BY <2>1, <3>1, <3>2 DEF GoodMenu
  <2>5. \A x \in Items : HasInventory(inv', x) + OfStack(Empty, x) + HasMenu(open', x)
                           = HasInventory(inv, x) + HasMenu(open, x)
    <3>1. \A x \in Items : HasInventory(inv, x) \in Nat  BY <1>1, HasTypes
    <3>2. \A x \in Items : HasInventory(inv', x) = HasInventory(inv, x) /\ HasMenu(open', x) = HasMenu(open, x)
      BY <2>3, <2>4 DEF HasInventory, HasMenu
    <3> QED BY <3>1, <3>2, EmptyStack
  <2> QED BY <2>1, <2>3, <2>4, <2>5, EmptyStack, Moves
<1> QED BY <1>2, <1>3

(* on_menu_removed gives the cursor back to the inventory, or throws it. *)
LEMMA GoneKeeps ==
  ASSUME StackSizes, Sizes, GoodInventory(inv), NEW reason
  PROVE  /\ GoodInventory(Gone(reason).inv) /\ Gone(reason).left \in Stacks
         /\ \A x \in Items : HasInventory(Gone(reason).inv, x) + OfStack(Gone(reason).left, x)
                               = HasInventory(inv, x)
<1> DEFINE g == Gone(reason)
           given == Deposit(inv.slots, inv.cursor, GiveOrder)
<1>1. Size \in Nat /\ inv.slots \in Slots(Size) /\ inv.cursor \in Stacks /\ GiveOrder \in Seq(0..Size - 1)
  BY Geometry, Given DEF GoodInventory
<1>2. CASE open.id = 0
  <2>1. g.inv = inv /\ g.left = Empty  BY <1>2 DEF Gone
  <2> HIDE DEF g
  <2>2. \A x \in Items : HasInventory(g.inv, x) + OfStack(g.left, x) = HasInventory(inv, x)
    <3>1. \A x \in Items : HasInventory(inv, x) \in Nat  BY HasTypes
    <3> QED BY <2>1, <3>1, EmptyStack
  <2> QED BY <2>1, <2>2, EmptyStack DEF g
<1>3. CASE open.id # 0
  <2> DEFINE j == SetSlots(inv, given.slots)
             k == [j EXCEPT !.cursor = Empty]
             l == CursorMarked(k)
  <2>1. g.inv = Full(l) /\ g.left = given.stack  BY <1>3 DEF Gone
  <2> HIDE DEF g
  <2>2. given.slots \in Slots(Size) /\ given.stack \in Stacks  BY <1>1, DepositHolds
  <2>3. \A x \in Items : Count(given.slots, x) + OfStack(given.stack, x)
                           = Count(inv.slots, x) + OfStack(inv.cursor, x)
    BY <1>1, DepositHolds
  <2> HIDE DEF given
  <2>4. GoodInventory(j) /\ j.slots = given.slots  BY <2>2, SettersKeep
  <2> HIDE DEF j
  <2>5. GoodInventory(k) /\ k.slots = given.slots /\ k.cursor = Empty
    BY <2>4, EmptyStack DEF GoodInventory
  <2> HIDE DEF k
  <2>6. GoodInventory(l) /\ l.slots = given.slots /\ l.cursor = Empty  BY <2>5, SettersKeep
  <2> HIDE DEF l
  <2>7. GoodInventory(g.inv) /\ g.inv.slots = given.slots /\ g.inv.cursor = Empty
    BY <2>1, <2>6, FullKeeps
  <2>8. ASSUME NEW x \in Items
        PROVE  HasInventory(g.inv, x) + OfStack(g.left, x) = HasInventory(inv, x)
    <3>1. Count(given.slots, x) \in Nat  BY <1>1, <2>2, CountSums
    <3>2. HasInventory(g.inv, x) = Count(given.slots, x)  BY <2>7, <3>1, EmptyStack DEF HasInventory
    <3> QED BY <2>1, <2>3, <3>2 DEF HasInventory
  <2> QED BY <2>1, <2>2, <2>7, <2>8 DEF g
<1> QED BY <1>2, <1>3

(* What made becomes when a menu goes and another, or none, takes its place *)
LEMMA RemovalStores ==
  ASSUME StackSizes, Sizes, StoreInv, IsOpen, NEW reason,
         inv' = Gone(reason).inv, Throws(Gone(reason).left),
         open'.gen # 0 => GoodMenu(open'),
         made' = [x \in Items |-> made[x] - Count(open.slots, x) + HasMenu(open', x)]
  PROVE  StoreInv'
<1> DEFINE left == Gone(reason).left
<1>1. /\ GoodInventory(inv) /\ GoodMenu(open) /\ open.gen # 0
      /\ thrown \in [Items -> Nat] /\ made \in [Items -> Int]
  BY DEF StoreInv, IsOpen
<1>2. GoodInventory(inv') /\ left \in Stacks  BY <1>1, GoneKeeps
<1>3. \A x \in Items : HasInventory(inv', x) + OfStack(left, x) = HasInventory(inv, x)
  BY <1>1, GoneKeeps
<1>4. thrown' \in [Items -> Nat] /\ \A x \in Items : thrown'[x] = thrown[x] + OfStack(left, x)
  BY <1>1, <1>2, Thrown1
<1> HIDE DEF left
<1>5. \A x : HasMenu(open', x) \in Nat /\ HasMenu(open, x) \in Nat /\ Count(open.slots, x) = HasMenu(open, x)
  BY <1>1, HasTypes DEF HasMenu
<1>6. made' \in [Items -> Int]  BY <1>1, <1>5
<1>7. ASSUME NEW x \in Items
      PROVE  HasInventory(inv', x) + thrown'[x] + HasMenu(open', x) - made'[x]
               = HasInventory(inv, x) + thrown[x] + HasMenu(open, x) - made[x]
  <2> DEFINE a == HasInventory(inv, x)
             b == thrown[x]
             c == HasMenu(open, x)
             k == made[x]
             e == HasInventory(inv', x)
             f == thrown'[x]
             g == HasMenu(open', x)
             h == made'[x]
             t == OfStack(left, x)
  <2>1. a \in Nat /\ c \in Nat /\ e \in Nat /\ g \in Nat  BY <1>1, <1>2, <1>5, HasTypes
  <2>2. b \in Nat /\ k \in Int /\ t \in Nat /\ f = b + t /\ e + t = a
    BY <1>1, <1>2, <1>3, <1>4, OfStackType
  <2>3. h = k - c + g
    <3>1. h = k - Count(open.slots, x) + g  OBVIOUS
    <3>2. Count(open.slots, x) = c  BY <1>5
    <3> HIDE DEF h, k, g, c
    <3> QED BY <3>1, <3>2
  <2>4. e + f + g - h = a + b + c - k
    <3> HIDE DEF a, b, c, e, f, g, h, k, t
    <3> QED BY <2>1, <2>2, <2>3
  <2> QED BY <2>4
<1> QED BY <1>1, <1>2, <1>4, <1>6, <1>7, Balances

LEMMA NewMenuGood ==
  ASSUME Sizes, NEW slots \in Slots(MenuSize), NEW editable
  PROVE  /\ GoodMenu(NewMenu(slots, editable)) /\ NewMenu(slots, editable).slots = slots
         /\ NewMenu(slots, editable).gen = done.menus + 1
<1>1. NoDrag \in Drags(MenuWindow)  BY DEF NoDrag, Drags
<1> DEFINE o == NewMenu(slots, editable)
<1>2. o = [gen |-> done.menus + 1, id |-> 0, slots |-> slots, editable |-> editable, state |-> 0,
           drag |-> NoDrag, full |-> TRUE, marked |-> {}, title |-> FALSE]
  BY DEF NewMenu
<1> HIDE DEF o
<1>3. /\ o.gen = done.menus + 1 /\ o.id = 0 /\ o.slots = slots /\ o.editable = editable /\ o.state = 0
      /\ o.drag = NoDrag /\ o.full = TRUE /\ o.marked = {} /\ o.title = FALSE
  BY <1>2
<1>4. o = [gen |-> o.gen, id |-> o.id, slots |-> o.slots, editable |-> o.editable,
           state |-> o.state, drag |-> o.drag, full |-> o.full, marked |-> o.marked,
           title |-> o.title]
  BY <1>2
<1>5. o.slots \in Slots(MenuSize) /\ o.drag \in Drags(MenuWindow)  BY <1>1, <1>3
<1>6. GoodMenu(o)  BY <1>4, <1>5, Zenon DEF GoodMenu
<1> QED BY <1>3, <1>6 DEF o

(* open_in_world *)
LEMMA OpenStores ==
  ASSUME StackSizes, Sizes, MenuInv, StoreInv, NEW slots \in Offers, NEW editable,
         OpenIt(slots, editable)
  PROVE  StoreInv'
<1>1. slots \in Slots(MenuSize) /\ MenuSize \in Nat  BY DEF Sizes
<1>2. GoodMenu(open') /\ open'.slots = slots /\ open'.gen # 0
  <2>1. done.menus \in Nat /\ open' = NewMenu(slots, editable)  BY MenuShapes DEF OpenIt
  <2> QED BY <1>1, <2>1, NewMenuGood
<1>3. \A x : HasMenu(open', x) = Count(slots, x) /\ HasMenu(open', x) \in Nat
  <2>1. \A x : Count(slots, x) \in Nat  BY <1>1, CountSums
  <2> QED BY <1>2, <2>1 DEF HasMenu
<1>4. CASE IsOpen
  <2>1. /\ inv' = Gone("replaced").inv /\ Throws(Gone("replaced").left)
        /\ made' = [x \in Items |-> made[x] - Count(open.slots, x) + Count(slots, x)]
    BY <1>4 DEF OpenIt
  <2>2. made' = [x \in Items |-> made[x] - Count(open.slots, x) + HasMenu(open', x)]
    BY <1>3, <2>1
  <2> QED BY <1>2, <1>4, <2>1, <2>2, RemovalStores
<1>5. CASE ~IsOpen
  <2>1. made' = [x \in Items |-> made[x] + Count(slots, x)] /\ UNCHANGED <<inv, thrown>> /\ open.gen = 0
    BY <1>5 DEF OpenIt, IsOpen
  <2>2. GoodInventory(inv) /\ thrown \in [Items -> Nat] /\ made \in [Items -> Int]  BY DEF StoreInv
  <2>3. made' \in [Items -> Int]  BY <1>3, <2>1, <2>2
  <2>4. ASSUME NEW x \in Items
        PROVE  HasInventory(inv', x) + thrown'[x] + HasMenu(open', x) - made'[x]
                 = HasInventory(inv, x) + thrown[x] + HasMenu(open, x) - made[x]
    <3> DEFINE a == HasInventory(inv, x)
               b == thrown[x]
               k == made[x]
               n == Count(slots, x)
    <3>1. a \in Nat /\ b \in Nat /\ k \in Int /\ n \in Nat  BY <1>3, <2>2, HasTypes
    <3>2. HasMenu(open, x) = 0 /\ HasMenu(open', x) = n /\ made'[x] = k + n /\ thrown'[x] = b
      BY <1>3, <2>1 DEF HasMenu
    <3>3. HasInventory(inv', x) = a  BY <2>1
    <3>4. a + b + n - (k + n) = a + b + 0 - k
      <4> HIDE DEF a, b, k, n
      <4> QED BY <3>1
    <3> QED BY <3>2, <3>3, <3>4
  <2> QED BY <1>2, <2>1, <2>2, <2>3, <2>4, Balances
<1> QED BY <1>4, <1>5

(* Removal with no menu to follow *)
LEMMA CloseStores ==
  ASSUME StackSizes, Sizes, StoreInv, IsOpen, NEW reason, Removal(reason), open' = Closed
  PROVE  StoreInv'
<1>1. open'.gen = 0 /\ \A x : HasMenu(open', x) = 0  BY DEF Closed, HasMenu
<1>2. /\ inv' = Gone(reason).inv /\ Throws(Gone(reason).left)
      /\ made' = [x \in Items |-> made[x] - Count(open.slots, x)]
  BY DEF Removal
<1>3. GoodMenu(open) /\ made \in [Items -> Int] /\ MenuSize \in Nat  BY DEF StoreInv, Sizes
<1>4. \A x \in Items : Count(open.slots, x) \in Nat  BY <1>3, CountSums DEF GoodMenu
<1>5. \A x \in Items : made[x] - Count(open.slots, x) + HasMenu(open', x) = made[x] - Count(open.slots, x)
  <2> SUFFICES ASSUME NEW x \in Items
               PROVE  made[x] - Count(open.slots, x) + HasMenu(open', x) = made[x] - Count(open.slots, x)
    OBVIOUS
  <2>1. made[x] \in Int /\ Count(open.slots, x) \in Nat /\ HasMenu(open', x) = 0  BY <1>1, <1>3, <1>4
  <2> QED BY <2>1
<1>6. made' = [x \in Items |-> made[x] - Count(open.slots, x) + HasMenu(open', x)]  BY <1>2, <1>5
<1> QED BY <1>1, <1>2, <1>6, RemovalStores

-----------------------------------------------------------------------------
(***************************************************************************)
(* The other actions, and the theorem                                      *)
(***************************************************************************)

LEMMA TakeStores ==
  ASSUME Sizes, StoreInv, NEW i \in 0..Size - 1, TakeStack(i)
  PROVE  StoreInv'
<1> DEFINE after == [inv.slots EXCEPT ![i] = Empty]
<1>1. /\ GoodInventory(inv) /\ (open.gen # 0 => GoodMenu(open)) /\ inv.slots \in Slots(Size)
      /\ inv.slots[i] \in Stacks
      /\ thrown \in [Items -> Nat] /\ made \in [Items -> Int] /\ Size \in Nat
  BY Geometry DEF StoreInv, IsOpen, GoodInventory, Slots
<1>2. /\ inv' = SetSlots(inv, after) /\ UNCHANGED <<open, thrown>>
      /\ made' = [x \in Items |-> made[x] - OfStack(inv.slots[i], x)]
  BY DEF TakeStack
<1>3. after \in Slots(Size)  BY <1>1, EmptyStack DEF Slots
<1>4. ASSUME NEW x
      PROVE  /\ Count(after, x) = Count(inv.slots, x) - OfStack(inv.slots[i], x) + OfStack(Empty, x)
             /\ Count(inv.slots, x) \in Nat /\ OfStack(inv.slots[i], x) \in Nat
  BY <1>1, EmptyStack, CountSets
<1> HIDE DEF after
<1>5. GoodInventory(inv') /\ inv'.slots = after /\ inv'.cursor = inv.cursor
  BY <1>1, <1>2, <1>3, SettersKeep
<1>6. made' \in [Items -> Int]  BY <1>1, <1>2, <1>4
<1>7. ASSUME NEW x \in Items
      PROVE  HasInventory(inv', x) + thrown'[x] + HasMenu(open', x) - made'[x]
               = HasInventory(inv, x) + thrown[x] + HasMenu(open, x) - made[x]
  <2> DEFINE a == Count(inv.slots, x)
             b == thrown[x]
             c == HasMenu(open, x)
             k == made[x]
             e == Count(after, x)
             h == made'[x]
             t == OfStack(inv.slots[i], x)
             o == OfStack(inv.cursor, x)
  <2>1. a \in Nat /\ b \in Nat /\ c \in Nat /\ k \in Int /\ t \in Nat /\ o \in Nat
    BY <1>1, <1>4, HasTypes, OfStackType DEF GoodInventory
  <2>2. e = a - t
    <3>1. e = a - t + OfStack(Empty, x)  BY <1>4
    <3>2. OfStack(Empty, x) = 0  BY EmptyStack
    <3> HIDE DEF a, e, t
    <3> QED BY <2>1, <3>1, <3>2
  <2>3. h = k - t  BY <1>2
  <2>4. HasInventory(inv', x) = e + o /\ HasInventory(inv, x) = a + o
    BY <1>5 DEF HasInventory
  <2>5. thrown'[x] = b /\ HasMenu(open', x) = c  BY <1>2
  <2>6. e + o + b + c - h = a + o + b + c - k
    <3> HIDE DEF a, b, c, e, h, k, o, t
    <3> QED BY <2>1, <2>2, <2>3
  <2> HIDE DEF h
  <2> QED BY <2>4, <2>5, <2>6 DEF h
<1>8. open'.gen # 0 => GoodMenu(open')  BY <1>1, <1>2
<1> QED BY <1>1, <1>2, <1>5, <1>6, <1>7, <1>8, Balances

LEMMA EditStores ==
  ASSUME Sizes, StoreInv, NEW s \in 0..MenuSize - 1,
         NEW stack \in {Empty} \cup {o[s] : o \in Offers}, EditMenu(s, stack)
  PROVE  StoreInv'
<1> DEFINE after == [open.slots EXCEPT ![s] = stack]
           marked == IF open.slots[s] = stack THEN open.marked ELSE open.marked \cup {s}
<1>1. /\ GoodInventory(inv) /\ GoodMenu(open) /\ open.slots \in Slots(MenuSize) /\ open.gen # 0
      /\ open.slots[s] \in Stacks
      /\ thrown \in [Items -> Nat] /\ made \in [Items -> Int] /\ MenuSize \in Nat
  BY DEF StoreInv, IsOpen, EditMenu, GoodMenu, Slots, Sizes
<1>2. stack \in Stacks
  <2>1. \A o \in Offers : o[s] \in Stacks  BY DEF Sizes, Slots
  <2> QED BY <2>1, EmptyStack
<1>3. /\ UNCHANGED <<inv, thrown>>
      /\ made' = [x \in Items |-> made[x] - OfStack(open.slots[s], x) + OfStack(stack, x)]
  BY DEF EditMenu
<1>4. open' = [open EXCEPT !.slots = after, !.title = Retitles, !.marked = marked]
  <2>1. open' = [open EXCEPT !.slots[s] = stack, !.title = Retitles,
                             !.marked = IF open.slots[s] = stack THEN @ ELSE @ \cup {s}]
    BY DEF EditMenu
  <2> QED BY <2>1
<1>5. after \in Slots(MenuSize)  BY <1>1, <1>2 DEF Slots
<1>6. ASSUME NEW x
      PROVE  /\ Count(after, x) = Count(open.slots, x) - OfStack(open.slots[s], x) + OfStack(stack, x)
             /\ Count(open.slots, x) \in Nat /\ OfStack(open.slots[s], x) \in Nat /\ OfStack(stack, x) \in Nat
  BY <1>1, <1>2, CountSets
<1> HIDE DEF after, marked
<1>7. GoodMenu(open') /\ open'.slots = after /\ open'.gen = open.gen
  BY <1>1, <1>4, <1>5 DEF GoodMenu
<1>8. made' \in [Items -> Int]  BY <1>1, <1>3, <1>6
<1>9. ASSUME NEW x \in Items
      PROVE  HasInventory(inv', x) + thrown'[x] + HasMenu(open', x) - made'[x]
               = HasInventory(inv, x) + thrown[x] + HasMenu(open, x) - made[x]
  <2> DEFINE a == HasInventory(inv, x)
             b == thrown[x]
             c == Count(open.slots, x)
             d == Count(after, x)
             k == made[x]
             h == made'[x]
             t == OfStack(open.slots[s], x)
             u == OfStack(stack, x)
  <2>1. a \in Nat /\ b \in Nat /\ c \in Nat /\ k \in Int /\ t \in Nat /\ u \in Nat
    BY <1>1, <1>6, HasTypes
  <2>2. d = c - t + u  BY <1>6
  <2>3. h = k - t + u  BY <1>3
  <2>4. HasMenu(open', x) = d /\ HasMenu(open, x) = c  BY <1>1, <1>7 DEF HasMenu
  <2>5. HasInventory(inv', x) = a /\ thrown'[x] = b  BY <1>3
  <2>6. a + b + d - h = a + b + c - k
    <3> HIDE DEF a, b, c, d, h, k, t, u
    <3> QED BY <2>1, <2>2, <2>3
  <2> HIDE DEF h
  <2> QED BY <2>4, <2>5, <2>6 DEF h
<1>10. thrown' \in [Items -> Nat]  BY <1>1, <1>3
<1>11. GoodInventory(inv')  BY <1>1, <1>3
<1> QED BY <1>7, <1>8, <1>9, <1>10, <1>11, Balances

(* pickup_items *)
LEMMA PickupStores ==
  ASSUME StackSizes, Sizes, StoreInv, NEW x \in Items, PickupItems(x)
  PROVE  StoreInv'
<1> DEFINE n == Least(thrown[x], MaxStack[x])
           stack == [item |-> x, count |-> n]
           given == Deposit(inv.slots, stack, GiveOrder)
<1>1. /\ GoodInventory(inv) /\ (open.gen # 0 => GoodMenu(open)) /\ inv.slots \in Slots(Size)
      /\ thrown \in [Items -> Nat] /\ made \in [Items -> Int] /\ Size \in Nat
      /\ GiveOrder \in Seq(0..Size - 1)
  BY Geometry, Given DEF StoreInv, IsOpen, GoodInventory
<1>2. /\ n > 0 /\ inv' = SetSlots(inv, given.slots) /\ UNCHANGED <<open, made>>
      /\ thrown' = [thrown EXCEPT ![x] = @ - n + given.stack.count]
  BY DEF PickupItems
<1>3. n \in Nat \ {0} /\ n <= thrown[x]  BY <1>1, <1>2 DEF StackSizes, Least
<1> HIDE DEF n
<1>4. stack \in Dragged(x) /\ stack \in Stacks /\ \A y : OfStack(stack, y) = IF y = x THEN n ELSE 0
  BY <1>3 DEF Dragged, Stacks, OfStack
<1> HIDE DEF stack
<1>5. given.slots \in Slots(Size) /\ given.stack \in Stacks  BY <1>1, <1>4, DepositHolds
<1>6. \A y \in Items : Count(given.slots, y) + OfStack(given.stack, y)
                         = Count(inv.slots, y) + OfStack(stack, y)
  BY <1>1, <1>4, DepositHolds
<1>7. given.stack \in Dragged(x)  BY <1>1, <1>4, DepositSame
<1> HIDE DEF given
<1>8. /\ given.stack.count \in Nat
      /\ \A y : OfStack(given.stack, y) = IF y = x THEN given.stack.count ELSE 0
  BY <1>7 DEF Dragged, OfStack, Empty
<1>9. GoodInventory(inv') /\ inv'.slots = given.slots /\ inv'.cursor = inv.cursor
  BY <1>1, <1>2, <1>5, SettersKeep
<1>10. thrown' \in [Items -> Nat]
  <2>1. thrown[x] \in Nat  BY <1>1
  <2>2. thrown[x] - n + given.stack.count \in Nat  BY <1>3, <1>8, <2>1
  <2> QED BY <1>1, <1>2, <2>2
<1>11. ASSUME NEW y \in Items
       PROVE  HasInventory(inv', y) + thrown'[y] + HasMenu(open', y) - made'[y]
                = HasInventory(inv, y) + thrown[y] + HasMenu(open, y) - made[y]
  <2> DEFINE a == Count(inv.slots, y)
             b == thrown[y]
             c == HasMenu(open, y)
             k == made[y]
             e == Count(given.slots, y)
             f == thrown'[y]
             o == OfStack(inv.cursor, y)
             t == IF y = x THEN n ELSE 0
             u == IF y = x THEN given.stack.count ELSE 0
  <2>1. a \in Nat /\ b \in Nat /\ c \in Nat /\ k \in Int /\ o \in Nat /\ e \in Nat
    BY <1>1, <1>5, HasTypes, CountSums, OfStackType DEF GoodInventory
  <2>2. t \in Nat /\ u \in Nat  BY <1>3, <1>8
  <2>3. e + u = a + t  BY <1>4, <1>6, <1>8
  <2>4. f = b - t + u  BY <1>1, <1>2, <2>1
  <2>5. HasInventory(inv', y) = e + o /\ HasInventory(inv, y) = a + o  BY <1>9 DEF HasInventory
  <2>6. HasMenu(open', y) = c /\ made'[y] = k  BY <1>2
  <2>7. e + o + f + c - k = a + o + b + c - k
    <3> HIDE DEF a, b, c, e, f, k, o, t, u
    <3> QED BY <2>1, <2>2, <2>3, <2>4
  <2> HIDE DEF f
  <2> QED BY <2>5, <2>6, <2>7 DEF f
<1>12. open'.gen # 0 => GoodMenu(open')  BY <1>1, <1>2
<1>13. made' \in [Items -> Int]  BY <1>1, <1>2
<1> QED BY <1>9, <1>10, <1>11, <1>12, <1>13, Balances

(* sync_containers clears marks and counts states. *)
LEMMA SyncStores == ASSUME Sizes, StoreInv, Sync PROVE StoreInv'
<1>1. GoodInventory(inv) /\ (open.gen # 0 => GoodMenu(open))  BY DEF StoreInv, IsOpen
<1>2. UNCHANGED <<thrown, made>>  BY DEF Sync
<1>3. CASE IsOpen
  <2>1. SyncMenu  BY <1>3 DEF Sync
  <2>2. PICK dirty : inv' = [inv EXCEPT !.dirty = dirty]  BY <2>1 DEF SyncMenu
  <2>3. PICK id, state : open' = [open EXCEPT !.id = id, !.full = FALSE, !.title = FALSE, !.marked = {},
                                              !.state = state]
    BY <2>1, Zenon DEF SyncMenu
  <2>4. GoodInventory(inv') /\ inv'.slots = inv.slots /\ inv'.cursor = inv.cursor
    BY <1>1, <2>2 DEF GoodInventory
  <2>5. GoodMenu(open') /\ open'.slots = open.slots /\ open'.gen = open.gen
    BY <1>1, <1>3, <2>3 DEF GoodMenu, IsOpen
  <2> QED BY <1>2, <2>4, <2>5, NothingMoves
<1>4. CASE ~IsOpen
  <2>1. SyncInventory  BY <1>4 DEF Sync
  <2>2. PICK dirty, state : inv' = [inv EXCEPT !.dirty = dirty, !.state = state]
    BY <2>1, Zenon DEF SyncInventory
  <2>3. UNCHANGED open  BY <2>1 DEF SyncInventory
  <2>4. GoodInventory(inv') /\ inv'.slots = inv.slots /\ inv'.cursor = inv.cursor
    BY <1>1, <2>2 DEF GoodInventory
  <2> QED BY <1>1, <1>2, <2>3, <2>4, NothingMoves
<1> QED BY <1>3, <1>4

LEMMA StoresStart == ASSUME StackSizes, Sizes, Init PROVE StoreInv
<1>1. /\ Initial \in Slots(Size) /\ Size \in Nat  BY Geometry DEF Sizes
<1>2. /\ inv = [slots |-> Initial, cursor |-> Empty, drag |-> NoDrag, state |-> 0, dirty |-> Clean]
      /\ open.gen = 0 /\ thrown = [x \in Items |-> 0] /\ made = [x \in Items |-> Count(Initial, x)]
  BY DEF Init, Closed
<1>3. NoDrag \in Drags(Size)  BY DEF NoDrag, Drags
<1>4. /\ inv.slots = Initial /\ inv.cursor = Empty /\ inv.drag = NoDrag /\ inv.state = 0
      /\ inv.dirty = Clean
  BY <1>2
<1>5. GoodInventory(inv)  BY <1>1, <1>2, <1>3, <1>4, EmptyStack DEF GoodInventory
<1>6. \A x \in Items : Count(Initial, x) \in Nat  BY <1>1, CountSums
<1>7. Ledger
  <2> SUFFICES ASSUME NEW x \in Items
               PROVE  made[x] = HasInventory(inv, x) + thrown[x] + HasMenu(open, x)
    BY DEF Ledger
  <2>1. HasInventory(inv, x) = Count(Initial, x)
    BY <1>4, <1>6, EmptyStack DEF HasInventory
  <2>2. HasMenu(open, x) = 0 /\ thrown[x] = 0 /\ made[x] = Count(Initial, x)  BY <1>2 DEF HasMenu
  <2> QED BY <1>6, <2>1, <2>2
<1>8. thrown \in [Items -> Nat] /\ made \in [Items -> Int]  BY <1>2, <1>6
<1> QED BY <1>2, <1>5, <1>7, <1>8 DEF StoreInv, IsOpen

LEMMA StoresStep ==
  ASSUME StackSizes, Sizes, ~Creative, MenuInv, StoreInv, [Next]_vars
  PROVE  StoreInv'
<1>1. CASE \/ \E click \in Clicks : ClientClicks(click)
           \/ ClientCloses \/ ClientReads \/ IgnoreClick
           \/ DrainClick \/ EndAnswer \/ EndIngest \/ UNCHANGED vars
  <2>1. UNCHANGED <<inv, open, made, thrown>>
    BY <1>1 DEF ClientClicks, ClientCloses, ClientReads, IgnoreClick, DrainClick, EndAnswer,
                EndIngest, vars
  <2> QED BY <2>1, AllStays
<1>2. CASE InventoryClick  BY <1>2, InventoryClickStores
<1>3. CASE MenuClick  BY <1>3, MenuClickStores
<1>4. CASE ReceiveClose
  <2>1. CASE IsOpen /\ open.id = Head(up).id
    <3>1. Removal("client") /\ open' = Closed  BY <1>4, <2>1 DEF ReceiveClose
    <3> QED BY <2>1, <3>1, CloseStores
  <2>2. CASE ~(IsOpen /\ open.id = Head(up).id)
    <3>1. UNCHANGED <<inv, open, made, thrown>>  BY <1>4, <2>2 DEF ReceiveClose
    <3> QED BY <3>1, AllStays
  <2> QED BY <2>1, <2>2
<1>5. CASE Quit  BY <1>5, CloseStores DEF Quit
<1>6. CASE GameOpens  BY <1>6, OpenStores DEF GameOpens
<1>7. CASE GameCloses  BY <1>7, CloseStores DEF GameCloses, CloseIt
<1>8. CASE \E i \in 0..Size - 1 : TakeStack(i)  BY <1>8, TakeStores
<1>9. CASE \E s \in 0..MenuSize - 1 :
             \E stack \in {Empty} \cup {o[s] : o \in Offers} : EditMenu(s, stack)
  BY <1>9, EditStores
<1>10. CASE \E x \in Items : PickupItems(x)  BY <1>10, PickupStores
<1>11. CASE Sync  BY <1>11, SyncStores
<1> QED BY <1>1, <1>2, <1>3, <1>4, <1>5, <1>6, <1>7, <1>8, <1>9, <1>10, <1>11 DEF Next, StepWith

(* window.rs, on_menu_removed: whatever is clicked, dragged, closed and     *)
(* replaced, and for any layout and stacks, what the game brought into the  *)
(* world is in the inventory, on the cursor, in the menu or on the ground.  *)
(* In creative mode, where clicks copy stacks, it says nothing.             *)
THEOREM ItemsConserved ==
  ASSUME StackSizes, Sizes, MaxId \in Nat \ {0} PROVE Spec => []Conserved
<1>1. CASE Creative
  <2>1. Conserved  BY <1>1 DEF Conserved
  <2> QED BY <2>1, PTL
<1>2. CASE ~Creative
  <2>1. Init => MenuInv /\ StoreInv  BY MenusStart, StoresStart
  <2>2. MenuInv /\ StoreInv /\ [Next]_vars => MenuInv' /\ StoreInv'  BY <1>2, MenusStep, StoresStep
  <2>3. StoreInv => Conserved
    <3> SUFFICES ASSUME StoreInv, NEW x \in Items
                 PROVE  made[x] = Count(inv.slots, x) + OfStack(inv.cursor, x) + thrown[x]
                                  + IF IsOpen THEN Count(open.slots, x) ELSE 0
      BY DEF Conserved
    <3> QED BY DEF StoreInv, Ledger, HasInventory, HasMenu, IsOpen
  <2> QED BY <2>1, <2>2, <2>3, PTL DEF Spec
<1> QED BY <1>1, <1>2

-----------------------------------------------------------------------------
(***************************************************************************)
(* What the client shows.  Part p of a window is one of its menu's slots,   *)
(* of the inventory's or the cursor; n is the slot.                         *)
(***************************************************************************)
OnShow(p, n) ==
  \/ p = "cursor"
  \/ p = "inv" /\ n \in 0..Size - 1 /\ (open.id # 0 => n \in Visible)
  \/ p = "menu" /\ n \in 0..MenuSize - 1 /\ open.id # 0
AtServer(p, n) ==
  IF p = "menu" THEN open.slots[n] ELSE IF p = "inv" THEN inv.slots[n] ELSE inv.cursor
AtClient(p, n) ==
  IF p = "menu" THEN IF client.win # 0 THEN client.menu[n] ELSE Empty
  ELSE IF p = "inv" THEN client.inv[n] ELSE client.cursor

(* What the next sync will tell *)
Whole == inv.dirty.full \/ (open.id # 0 /\ open.full)
Due(p, n) ==
  \/ Whole
  \/ IF p = "menu" THEN n \in open.marked
     ELSE IF p = "inv" THEN n \in inv.dirty.slots ELSE inv.dirty.cursor

(* What packets say of them *)
Screens(m) == m.type \in {"open", "close"}
ScreenOf(m) == IF m.type = "open" THEN m.id ELSE 0
Fills(m) == m.type \in {"content", "slot"}
Names(m, p, n) ==
  CASE m.type = "content" /\ m.id = 0 -> p \in {"inv", "cursor"}
    [] m.type = "content" /\ m.id # 0 -> p \in {"menu", "cursor"} \/ (p = "inv" /\ n \in Visible)
    [] m.type = "slot" /\ m.id = 0 -> p = "inv" /\ n = m.slot
    [] m.type = "slot" /\ m.id # 0 -> IF m.slot < MenuSize THEN p = "menu" /\ n = m.slot
                                      ELSE p = "inv" /\ n = InInventory(m.slot)
    [] m.type = "cursor" -> p = "cursor"
    [] OTHER -> p \in {"menu", "cursor"}
Says(m, p, n) ==
  CASE m.type = "content" -> IF p = "cursor" THEN m.cursor
                             ELSE IF p = "inv" /\ m.id # 0 THEN m.slots[n - Gear + MenuSize]
                             ELSE m.slots[n]
    [] m.type = "slot" -> m.stack
    [] m.type = "cursor" -> m.cursor
    [] OTHER -> Empty

GoodClient(c) ==
  /\ c = [win |-> c.win, gen |-> c.gen, inv |-> c.inv, menu |-> c.menu, cursor |-> c.cursor,
          drag |-> c.drag, state |-> c.state]
  /\ c.inv = [i \in 0..Size - 1 |-> c.inv[i]]
  /\ c.win # 0 => c.menu = [s \in 0..MenuSize - 1 |-> c.menu[s]]
GoodWord(m) ==
  /\ m.type \in {"open", "close", "content", "slot", "cursor"}
  /\ m.type = "content" /\ m.id = 0 => m.slots = [i \in 0..Size - 1 |-> m.slots[i]]

Part(p, n) ==
  p \in {"menu", "inv", "cursor"} /\ (p = "inv" => n \in 0..Size - 1) /\ (p = "menu" => n \in 0..MenuSize - 1)

(* A packet for the window that the client shows tells it what the packet   *)
(* says, one for another window nothing.                                    *)
Reads(m, p, n) ==
  AtClient(p, n)' = IF Names(m, p, n) /\ (Fills(m) /\ m.id # 0 => client.win = m.id)
                    THEN Says(m, p, n) ELSE AtClient(p, n)
Stands(m) ==
  /\ client'.win = IF Screens(m) THEN ScreenOf(m) ELSE client.win
  /\ client'.drag = IF Screens(m) THEN NoDrag ELSE client.drag

LEMMA WordHeard ==
  ASSUME GoodClient(client), ClientReads, NEW m, m = Head(down), GoodWord(m),
         Fills(m) => client.win \in {m.id, 0}, NEW p, NEW n, Part(p, n)
  PROVE  GoodClient(client') /\ Reads(m, p, n) /\ Stands(m)
<1> DEFINE shown == client.win # 0 /\ client.win = m.id
           Screen(id, gen, menu) ==
             [client EXCEPT !.win = id, !.gen = gen, !.menu = menu, !.cursor = Empty,
                            !.drag = NoDrag, !.state.menu = 0]
           FromMenu(slots) == [i \in DOMAIN client.inv |->
                                 IF i \in Visible THEN slots[i - Gear + MenuSize] ELSE client.inv[i]]
<1> USE DEF Reads, Stands, AtClient, Names, Says, Fills, Screens, ScreenOf, Part
<1>1. CASE m.type = "open"
  <2>1. client' = Screen(m.id, m.gen, [s \in 0..MenuSize - 1 |-> Empty])
    BY <1>1, Zenon DEF ClientReads
  <2> QED BY <1>1, <2>1 DEF GoodClient
<1>2. CASE m.type = "close"
  <2>1. client' = Screen(0, 0, <<>>)  BY <1>2, Zenon DEF ClientReads
  <2> QED BY <1>2, <2>1 DEF GoodClient
<1>3. CASE m.type = "content" /\ m.id = 0
  <2>1. client' = [client EXCEPT !.inv = m.slots, !.state.inventory = m.state,
                                 !.cursor = IF client.win = 0 THEN m.cursor ELSE @]
    BY <1>3, Zenon DEF ClientReads
  <2> QED BY <1>3, <2>1 DEF GoodClient, GoodWord
<1>4. CASE m.type = "content" /\ m.id # 0 /\ shown
  <2>1. client' = [client EXCEPT !.menu = [s \in DOMAIN @ |-> m.slots[s]], !.inv = FromMenu(m.slots),
                                 !.state.menu = m.state, !.cursor = m.cursor]
    BY <1>4, Zenon DEF ClientReads
  <2> QED BY <1>4, <2>1 DEF GoodClient
<1>5. CASE m.type = "slot" /\ m.id = 0
  <2>1. client' = [client EXCEPT !.inv[m.slot] = m.stack, !.state.inventory = m.state]
    BY <1>5, Zenon DEF ClientReads
  <2> QED BY <1>5, <2>1 DEF GoodClient
<1>6. CASE m.type = "slot" /\ m.id # 0 /\ shown
  <2>1. client' = IF m.slot < MenuSize
                  THEN [client EXCEPT !.menu[m.slot] = m.stack, !.state.menu = m.state]
                  ELSE [client EXCEPT !.inv[InInventory(m.slot)] = m.stack, !.state.menu = m.state]
    BY <1>6, Zenon DEF ClientReads
  <2> QED BY <1>6, <2>1 DEF GoodClient
<1>7. CASE m.type = "cursor"
  <2>1. client' = [client EXCEPT !.cursor = m.cursor]  BY <1>7, Zenon DEF ClientReads
  <2> QED BY <1>7, <2>1 DEF GoodClient
<1>8. CASE /\ m.type \in {"content", "slot"} /\ m.id # 0 /\ ~shown
  <2>1. client' = client  BY <1>8, Zenon DEF ClientReads
  <2> QED BY <1>8, <2>1
<1> QED BY <1>1, <1>2, <1>3, <1>4, <1>5, <1>6, <1>7, <1>8 DEF GoodWord

(* The packets on their way, in the order in which they will be read *)
Unscreened == \A k \in Indexes(down) : ~Screens(down[k])
Screened(k) == \E j \in 1..k - 1 : Screens(down[j])
Nearest(j, k) == j \in 1..k - 1 /\ Screens(down[j]) /\ \A i \in j + 1..k - 1 : ~Screens(down[i])
Heeded(k) == Fills(down[k]) /\ down[k].id # 0 => Screened(k) \/ client.win = down[k].id
Speaks(k, p, n) == Heeded(k) /\ Names(down[k], p, n)

(* The client shows v as part p, slot n, once it has read them all. *)
HeardAs(p, n, v) ==
  /\ \A k \in Indexes(down) :
       Speaks(k, p, n) /\ (\A j \in k + 1..Len(down) : ~Speaks(j, p, n)) => Says(down[k], p, n) = v
  /\ (\A k \in Indexes(down) : ~Speaks(k, p, n)) => AtClient(p, n) = v

(* A packet is for the window that the client shows when it reads it, or for *)
(* one that the client has closed.                                          *)
Channel ==
  \A k \in Indexes(down) : Fills(down[k]) =>
    /\ \A j : Nearest(j, k) => ScreenOf(down[j]) = down[k].id
    /\ ~Screened(k) => client.win \in {down[k].id, 0}

Words == IsList(down) /\ \A k \in Indexes(down) : GoodWord(down[k])

LEMMA TailAt ==
  ASSUME NEW s, IsList(s), s # <<>>
  PROVE  /\ IsList(Tail(s)) /\ Head(s) = s[1] /\ 1 \in Indexes(s) /\ Len(s) \in Nat \ {0}
         /\ Len(Tail(s)) = Len(s) - 1 /\ \A k \in 1..Len(s) - 1 : Tail(s)[k] = s[k + 1]
<1>1. PICK S : s \in Seq(S)  BY DEF IsList
<1>2. Tail(s) \in Seq(S)  BY <1>1
<1> QED BY <1>1, <1>2 DEF IsList, Indexes

LEMMA WordRemoved ==
  ASSUME Words, GoodClient(client), Channel, ClientReads
  PROVE  /\ Words' /\ GoodClient(client') /\ Channel' /\ Stands(down[1])
         /\ down # <<>> /\ down' = Tail(down)
         /\ \A p, n, v : Part(p, n) /\ HeardAs(p, n, v) => HeardAs(p, n, v)'
<1> DEFINE m == down[1]
           N == Len(down)
<1>1. down # <<>> /\ down' = Tail(down)  BY DEF ClientReads
<1>2. /\ IsList(down') /\ Head(down) = m /\ 1 \in Indexes(down) /\ N \in Nat \ {0}
      /\ Len(down') = N - 1 /\ \A k \in 1..N - 1 : down'[k] = down[k + 1]
  BY <1>1, TailAt DEF Words
<1>3. GoodWord(m)  BY <1>2 DEF Words
<1>4. Fills(m) => client.win \in {m.id, 0}
  <2>1. ~Screened(1)  BY DEF Screened
  <2> QED BY <1>2, <2>1 DEF Channel
<1> DEFINE K == 1..N - 1
<1>5. Indexes(down') = K /\ Indexes(down) = 1..N /\ \A k \in K : k + 1 \in Indexes(down)
  BY <1>2 DEF Indexes
<1> HIDE DEF m, N, K
<1>6. \A p, n : Part(p, n) => GoodClient(client') /\ Reads(m, p, n) /\ Stands(m)
  BY <1>2, <1>3, <1>4, WordHeard
<1>7. GoodClient(client') /\ Stands(m)
  <2>1. Part("cursor", 0)  BY DEF Part
  <2> QED BY <1>6, <2>1
<1>0. \A k \in K : k \in Nat /\ k + 1 - 1 = k /\ k + 1 \in 2..N  BY <1>2 DEF K
<1>16. ASSUME NEW k \in K, NEW j \in 1..k - 1
       PROVE  j \in K /\ down'[j] = down[j + 1] /\ j + 1 \in 2..k
  <2>1. j \in 1..N - 1 /\ j + 1 \in 2..k  BY <1>2 DEF K
  <2> QED BY <1>2, <2>1 DEF K
<1>17. ASSUME NEW k \in K, NEW j \in 2..k PROVE j - 1 \in 1..k - 1 /\ down'[j - 1] = down[j]
  <2>1. j - 1 \in 1..N - 1 /\ j - 1 \in 1..k - 1 /\ j - 1 + 1 = j  BY <1>2 DEF K
  <2> QED BY <1>2, <2>1
<1>8. ASSUME NEW k \in K PROVE Screened(k + 1) <=> Screens(m) \/ Screened(k)'
  <2>1. Screened(k)' <=> \E j \in 1..k - 1 : Screens(down'[j])  BY DEF Screened, Screens
  <2>2. Screened(k + 1) <=> \E j \in 1..k : Screens(down[j])  BY <1>0 DEF Screened
  <2>3. 1..k = {1} \cup 2..k  BY <1>0, <1>2 DEF K
  <2>4. (\E j \in 1..k - 1 : Screens(down'[j])) <=> \E j \in 2..k : Screens(down[j])  BY <1>16, <1>17
  <2> QED BY <2>1, <2>2, <2>3, <2>4 DEF m
<1>9. ASSUME NEW k \in K, NEW j, Nearest(j, k)' PROVE Nearest(j + 1, k + 1) /\ down'[j] = down[j + 1]
  <2>1. j \in 1..k - 1 /\ Screens(down'[j]) /\ \A i \in j + 1..k - 1 : ~Screens(down'[i])
    BY <1>9 DEF Nearest, Screens
  <2>2. j + 1 \in 1..k /\ down'[j] = down[j + 1]  BY <1>0, <1>16, <2>1
  <2>3. ASSUME NEW i \in j + 1 + 1..k PROVE ~Screens(down[i])
    <3>1. i \in 2..k /\ i - 1 \in j + 1..k - 1  BY <1>0, <2>1
    <3> QED BY <1>17, <2>1, <3>1
  <2> QED BY <1>0, <2>1, <2>2, <2>3 DEF Nearest
<1>10. ASSUME NEW k \in K, Screens(m), ~Screened(k)' PROVE Nearest(1, k + 1)
  <2>1. \A j \in 1..k - 1 : ~Screens(down'[j])  BY <1>10 DEF Screened, Screens
  <2>2. \A i \in 2..k : ~Screens(down[i])  BY <1>17, <2>1
  <2>3. 1 \in 1..k /\ 1 + 1 = 2  BY <1>0, <1>2 DEF K
  <2> QED BY <1>0, <1>10, <2>2, <2>3 DEF Nearest, m
<1>11. ASSUME NEW k \in K, Fills(down[k + 1])
       PROVE  /\ \A j : Nearest(j, k)' => ScreenOf(down'[j]) = down[k + 1].id
              /\ ~Screened(k)' => client'.win \in {down[k + 1].id, 0}
              /\ ~Screened(k)' /\ Screens(m) => client'.win = down[k + 1].id
  <2>1. /\ \A j : Nearest(j, k + 1) => ScreenOf(down[j]) = down[k + 1].id
        /\ ~Screened(k + 1) => client.win \in {down[k + 1].id, 0}
    BY <1>5, <1>11 DEF Channel
  <2>2. \A j : Nearest(j, k)' => ScreenOf(down'[j]) = down[k + 1].id  BY <1>9, <2>1
  <2>3. ~Screened(k)' /\ Screens(m) => client'.win = down[k + 1].id
    BY <1>7, <1>10, <2>1 DEF Stands, m
  <2>4. ~Screened(k)' /\ ~Screens(m) => client'.win \in {down[k + 1].id, 0}
    BY <1>7, <1>8, <2>1 DEF Stands
  <2> QED BY <2>2, <2>3, <2>4
<1>12. Channel'  BY <1>2, <1>5, <1>11 DEF Channel, K
<1>13. ASSUME NEW k \in K, NEW p, NEW n PROVE Speaks(k, p, n)' <=> Speaks(k + 1, p, n)
  <2>1. down'[k] = down[k + 1]  BY <1>2 DEF K
  <2>2. Fills(down[k + 1]) => (Screened(k)' \/ client'.win = down[k + 1].id
                               <=> Screened(k + 1) \/ client.win = down[k + 1].id)
    BY <1>7, <1>8, <1>11 DEF Stands
  <2>3. Heeded(k)' <=> Heeded(k + 1)  BY <2>1, <2>2 DEF Heeded
  <2>4. Names(down[k], p, n)' <=> Names(down[k + 1], p, n)  BY <2>1 DEF Names
  <2> QED BY <2>3, <2>4 DEF Speaks
<1>14. ASSUME NEW p, NEW n, NEW v, Part(p, n), HeardAs(p, n, v) PROVE HeardAs(p, n, v)'
  <2>1. Reads(m, p, n)  BY <1>6, <1>14
  <2>2. Speaks(1, p, n) <=> Names(m, p, n) /\ (Fills(m) /\ m.id # 0 => client.win = m.id)
    <3>1. ~Screened(1)  BY DEF Screened
    <3> QED BY <3>1 DEF Speaks, Heeded, m
  <2>3. AtClient(p, n)' = IF Speaks(1, p, n) THEN Says(m, p, n) ELSE AtClient(p, n)
    BY <2>1, <2>2 DEF Reads
  <2>4. ASSUME NEW k \in K, Speaks(k, p, n)', \A j \in k + 1..Len(down') : ~Speaks(j, p, n)'
        PROVE  Says(down'[k], p, n) = v
    <3>1. Speaks(k + 1, p, n)  BY <1>13, <2>4
    <3>2. ASSUME NEW j \in k + 2..N PROVE ~Speaks(j, p, n)
      <4>1. j - 1 \in k + 1..Len(down') /\ j - 1 \in K  BY <1>2 DEF K
      <4>2. ~Speaks(j - 1, p, n)'  BY <2>4, <4>1
      <4>3. ~Speaks(j - 1 + 1, p, n)  BY <1>13, <4>1, <4>2
      <4>4. j - 1 + 1 = j  BY <1>2 DEF K
      <4> QED BY <4>3, <4>4
    <3>3. k + 1 \in Indexes(down) /\ k + 1 + 1 = k + 2  BY <1>2, <1>5 DEF K
    <3>4. Says(down[k + 1], p, n) = v  BY <1>14, <3>1, <3>2, <3>3 DEF HeardAs, N
    <3> QED BY <1>2, <3>4 DEF K
  <2>5. ASSUME \A k \in K : ~Speaks(k, p, n)' PROVE AtClient(p, n)' = v
    <3>1. \A k \in K : ~Speaks(k + 1, p, n)  BY <1>13, <2>5
    <3>2. \A k \in 2..N : k - 1 \in K /\ k - 1 + 1 = k  BY <1>2 DEF K
    <3>3. \A k \in 2..N : ~Speaks(k, p, n)  BY <3>1, <3>2
    <3>4. CASE Speaks(1, p, n)
      <4>1. Says(m, p, n) = v  BY <1>2, <1>14, <3>3, <3>4 DEF HeardAs, N, m
      <4> QED BY <2>3, <3>4, <4>1
    <3>5. CASE ~Speaks(1, p, n)
      <4>1. \A k \in Indexes(down) : ~Speaks(k, p, n)  BY <1>2, <1>5, <3>3, <3>5
      <4>2. AtClient(p, n) = v  BY <1>14, <4>1 DEF HeardAs
      <4> QED BY <2>3, <3>5, <4>2
    <3> QED BY <3>4, <3>5
  <2>7. \A k : Says(down[k], p, n)' = Says(down'[k], p, n)  BY DEF Says
  <2>8. /\ \A k \in K : Speaks(k, p, n)' /\ (\A j \in k + 1..Len(down') : ~Speaks(j, p, n)')
                          => Says(down'[k], p, n) = v
        /\ (\A k \in K : ~Speaks(k, p, n)') => AtClient(p, n)' = v
    BY <2>4, <2>5
  <2> QED BY <1>5, <2>7, <2>8, Zenon DEF HeardAs
<1>15. Words'
  <2>1. \A k \in K : GoodWord(down[k + 1]) /\ down'[k] = down[k + 1]  BY <1>2, <1>5 DEF Words, K
  <2>2. \A k \in K : GoodWord(down'[k])  BY <2>1
  <2> QED BY <1>2, <1>5, <2>2, Zenon DEF Words
<1> QED BY <1>1, <1>7, <1>12, <1>14, <1>15 DEF m

(* The last packet on its way that changes the client's screen *)
Latest(j) == j \in Indexes(down) /\ Screens(down[j]) /\ \A i \in j + 1..Len(down) : ~Screens(down[i])

LEMMA LastScreen == ASSUME Words, ~Unscreened PROVE \E j : Latest(j)
<1> DEFINE N == Len(down)
           T == {k \in Nat : k <= N /\ Screens(down[N - k]) /\ N - k \in 1..N}
<1>1. N \in Nat /\ Indexes(down) = 1..N
  <2>1. PICK S : down \in Seq(S)  BY DEF Words, IsList
  <2> QED BY <2>1 DEF Indexes
<1>2. PICK i \in 1..N : Screens(down[i])  BY <1>1 DEF Unscreened
<1>3. N - i \in T
  <2>1. N - i \in Nat /\ N - (N - i) = i /\ N - i <= N  BY <1>1
  <2> QED BY <1>2, <2>1
<1>4. PICK k \in T : \A l \in T : k <= l
  <2>1. T \subseteq Nat /\ T # {}  BY <1>3
  <2> HIDE DEF T
  <2> QED BY <2>1, Smallest
<1>5. ASSUME NEW l \in N - k + 1..N PROVE ~Screens(down[l])
  <2>1. N - l \in Nat /\ N - (N - l) = l /\ N - l < k /\ N - l <= N /\ l \in 1..N  BY <1>1, <1>4
  <2> QED BY <1>1, <1>4, <2>1
<1>6. N - k \in 1..N /\ Screens(down[N - k])  BY <1>4
<1> QED BY <1>1, <1>5, <1>6 DEF Latest

(* What more adds to the packets on their way leaves those before alone. *)
Adds1(more) == down' = down \o more /\ IsList(more) /\ client' = client
LEMMA Before ==
  ASSUME Words, NEW more, Adds1(more)
  PROVE  /\ Len(down) \in Nat /\ Len(more) \in Nat /\ Len(down') = Len(down) + Len(more)
         /\ \A k \in 1..Len(down) : down'[k] = down[k]
         /\ \A k \in 1..Len(more) : down'[Len(down) + k] = more[k]
         /\ IsList(down')
<1>1. PICK S, T : down \in Seq(S) /\ more \in Seq(T)  BY DEF Adds1, IsList, Words
<1> DEFINE U == S \cup T
<1>2. down \in Seq(U) /\ more \in Seq(U)  BY <1>1
<1> HIDE DEF U
<1>3. down \o more \in Seq(U)  BY <1>2
<1> QED BY <1>2, <1>3 DEF Adds1, IsList

LEMMA BeforeSame ==
  ASSUME Words, NEW more, Adds1(more), NEW k \in 1..Len(down) + 1
  PROVE  /\ Screened(k)' <=> Screened(k)
         /\ \A j : Nearest(j, k)' <=> Nearest(j, k)
         /\ k # Len(down) + 1 => \A p, n : Speaks(k, p, n)' <=> Speaks(k, p, n)
<1>1. Len(down) \in Nat /\ \A j \in 1..Len(down) : down'[j] = down[j]  BY Before
<1>2. \A j \in 1..k - 1 : down'[j] = down[j]  BY <1>1
<1>3. Screened(k)' <=> Screened(k)  BY <1>2 DEF Screened, Screens
<1>4. ASSUME NEW j PROVE Nearest(j, k)' <=> Nearest(j, k)
  <2>1. CASE j \in 1..k - 1
    <3>1. \A i \in j + 1..k - 1 : down'[i] = down[i]  BY <1>1, <1>2, <2>1
    <3> QED BY <1>2, <2>1, <3>1 DEF Nearest, Screens
  <2> QED BY <2>1 DEF Nearest
<1>5. k # Len(down) + 1 => \A p, n : Speaks(k, p, n)' <=> Speaks(k, p, n)
  <2>1. k # Len(down) + 1 => down'[k] = down[k]  BY <1>1
  <2>2. client' = client  BY DEF Adds1
  <2> QED BY <1>3, <2>1, <2>2 DEF Speaks, Heeded, Fills, Names
<1> QED BY <1>3, <1>4, <1>5

LEMMA HeardStill ==
  ASSUME Words, NEW more, Adds1(more), NEW p, NEW n, NEW v, HeardAs(p, n, v),
         \A k \in 1..Len(more) : Names(more[k], p, n) => Says(more[k], p, n) = v
  PROVE  HeardAs(p, n, v)'
<1> DEFINE N == Len(down)
           M == Len(more)
<1>1. N \in Nat /\ M \in Nat /\ Len(down') = N + M /\ Indexes(down') = 1..N + M /\ Indexes(down) = 1..N
  BY Before DEF Indexes
<1>2. \A k \in 1..N : down'[k] = down[k]  BY Before
<1>3. \A k \in 1..M : down'[N + k] = more[k]  BY Before
<1>4. \A k \in 1..N : Speaks(k, p, n)' <=> Speaks(k, p, n)
  <2>1. \A k \in 1..N : k \in 1..Len(down) + 1 /\ k # Len(down) + 1  BY <1>1
  <2> QED BY <2>1, BeforeSame
<1> HIDE DEF N, M
<1>5. ASSUME NEW k \in 1..N + M, Speaks(k, p, n)', \A j \in k + 1..Len(down') : ~Speaks(j, p, n)'
      PROVE  Says(down'[k], p, n) = v
  <2>1. CASE k \in 1..N
    <3>1. \A j \in k + 1..N : j \in k + 1..Len(down') /\ j \in 1..N  BY <1>1, <2>1
    <3>2. \A j \in k + 1..N : ~Speaks(j, p, n)  BY <1>4, <1>5, <3>1
    <3> QED BY <1>1, <1>2, <1>4, <1>5, <2>1, <3>2 DEF HeardAs, N
  <2>2. CASE k \notin 1..N
    <3>1. k - N \in 1..M /\ N + (k - N) = k  BY <1>1, <2>2
    <3>2. down'[k] = more[k - N]  BY <1>3, <3>1
    <3>3. Names(down'[k], p, n)  BY <1>5 DEF Speaks, Names
    <3> QED BY <3>1, <3>2, <3>3 DEF M
  <2> QED BY <2>1, <2>2
<1>6. ASSUME \A k \in 1..N + M : ~Speaks(k, p, n)' PROVE AtClient(p, n)' = v
  <2>1. \A k \in 1..N : k \in 1..N + M  BY <1>1
  <2>2. \A k \in Indexes(down) : ~Speaks(k, p, n)  BY <1>1, <1>4, <1>6, <2>1
  <2>3. AtClient(p, n) = v  BY <2>2 DEF HeardAs
  <2> QED BY <2>3 DEF AtClient, Adds1
<1>7. \A k : Says(down[k], p, n)' = Says(down'[k], p, n)  BY DEF Says
<1>8. /\ \A k \in 1..N + M : Speaks(k, p, n)' /\ (\A j \in k + 1..Len(down') : ~Speaks(j, p, n)')
                             => Says(down'[k], p, n) = v
      /\ (\A k \in 1..N + M : ~Speaks(k, p, n)') => AtClient(p, n)' = v
  BY <1>5, <1>6
<1> QED BY <1>1, <1>7, <1>8, Zenon DEF HeardAs

(* The packets from m on say the same, and m is heard. *)
LEMMA HeardNow ==
  ASSUME Words, NEW more, Adds1(more), NEW p, NEW n, NEW v,
         NEW m \in 1..Len(more), NEW i, i = Len(down) + m, Speaks(i, p, n)',
         \A k \in m..Len(more) : Names(more[k], p, n) => Says(more[k], p, n) = v
  PROVE  HeardAs(p, n, v)'
<1> DEFINE N == Len(down)
           M == Len(more)
<1>1. N \in Nat /\ M \in Nat /\ Len(down') = N + M /\ Indexes(down') = 1..N + M  BY Before DEF Indexes
<1>2. \A k \in 1..M : down'[N + k] = more[k]  BY Before
<1>3. i = N + m /\ m \in 1..M  OBVIOUS
<1>4. \A k \in m..M : Names(more[k], p, n) => Says(more[k], p, n) = v  OBVIOUS
<1> HIDE DEF N, M
<1>5. ASSUME NEW k \in 1..N + M, Speaks(k, p, n)', \A j \in k + 1..Len(down') : ~Speaks(j, p, n)'
      PROVE  Says(down'[k], p, n) = v
  <2>1. i \in 1..N + M  BY <1>1, <1>3
  <2>2. ~(i \in k + 1..Len(down'))  BY <1>5
  <2>3. k - N \in m..M /\ k - N \in 1..M /\ N + (k - N) = k  BY <1>1, <1>3, <2>1, <2>2
  <2>4. down'[k] = more[k - N]  BY <1>2, <2>3
  <2>5. Names(down'[k], p, n)  BY <1>5 DEF Speaks, Names
  <2> QED BY <1>4, <2>3, <2>4, <2>5
<1>6. ~\A k \in 1..N + M : ~Speaks(k, p, n)'
  <2>1. i \in 1..N + M  BY <1>1, <1>3
  <2> QED BY <2>1
<1>7. \A k : Says(down[k], p, n)' = Says(down'[k], p, n)  BY DEF Says
<1>8. /\ \A k \in 1..N + M : Speaks(k, p, n)' /\ (\A j \in k + 1..Len(down') : ~Speaks(j, p, n)')
                             => Says(down'[k], p, n) = v
      /\ (\A k \in 1..N + M : ~Speaks(k, p, n)') => AtClient(p, n)' = v
  BY <1>5, <1>6
<1> QED BY <1>1, <1>7, <1>8, Zenon DEF HeardAs

-----------------------------------------------------------------------------
(* Drags.  What a click does to one depends on nothing but the click.  *)
NextDrag(n, drag, click) ==
  IF click.slot < 0 /\ click.slot # Outside THEN drag
  ELSE IF click.input # "quick_craft" THEN NoDrag
  ELSE IF click.button = 0 THEN [kind |-> "left", slots |-> <<>>]
  ELSE IF click.button = 4 THEN [kind |-> "right", slots |-> <<>>]
  ELSE IF click.button \in {1, 5, 9}
       THEN IF click.slot \in 0..n - 1 /\ drag.kind # "none" /\ ~Among(click.slot, drag.slots)
            THEN [drag EXCEPT !.slots = Append(@, click.slot)] ELSE drag
  ELSE IF click.button \in {2, 6, 10} /\ drag.kind = "none" THEN drag ELSE NoDrag

LEMMA QuickCrafts ==
  ASSUME StackSizes, NEW n \in Nat, NEW w \in Windows(n), NEW click,
         ~(click.slot < 0 /\ click.slot # Outside), click.input = "quick_craft"
  PROVE  LET r == QuickCraft(w, click.slot, click.button, FALSE)
         IN /\ r.drag = NextDrag(n, w.drag, click)
            /\ w.drag = NoDrag => r.slots = w.slots /\ r.cursor = w.cursor
<1> DEFINE r == QuickCraft(w, click.slot, click.button, FALSE)
           Started(kind) == [w EXCEPT !.drag = [kind |-> kind, slots |-> <<>>]]
<1>1. DOMAIN w.slots = 0..n - 1 /\ w.drag \in Drags(n)  BY WindowFacts DEF Slots
<1>2. \A d : [w EXCEPT !.drag = d].drag = d /\ [w EXCEPT !.drag = d].slots = w.slots
             /\ [w EXCEPT !.drag = d].cursor = w.cursor
  BY DEF Windows
<1>3. CASE click.button = 0
  <2>1. r = Started("left")  BY <1>3 DEF QuickCraft
  <2> HIDE DEF r
  <2> QED BY <1>2, <1>3, <2>1 DEF NextDrag, r
<1>4. CASE click.button = 4
  <2>1. r = Started("right")  BY <1>4 DEF QuickCraft
  <2>2. NextDrag(n, w.drag, click) = [kind |-> "right", slots |-> <<>>]  BY <1>4 DEF NextDrag
  <2>3. w.drag # NoDrag \/ (r.slots = w.slots /\ r.cursor = w.cursor)  BY <1>2, <2>1
  <2>4. r.drag = NextDrag(n, w.drag, click)  BY <1>2, <2>1, <2>2
  <2> HIDE DEF r
  <2> QED BY <2>3, <2>4 DEF r
<1>5. CASE click.button \in {1, 5, 9}
  <2> DEFINE d == [w.drag EXCEPT !.slots = Append(@, click.slot)]
  <2>1. r = IF click.slot \in 0..n - 1 /\ w.drag.kind # "none" /\ ~Among(click.slot, w.drag.slots)
            THEN [w EXCEPT !.drag = d] ELSE w
    BY <1>1, <1>5 DEF QuickCraft, Windows
  <2>2. NextDrag(n, w.drag, click)
          = IF click.slot \in 0..n - 1 /\ w.drag.kind # "none" /\ ~Among(click.slot, w.drag.slots)
            THEN d ELSE w.drag
    BY <1>5 DEF NextDrag
  <2> HIDE DEF r, d
  <2> QED BY <1>2, <2>1, <2>2 DEF r
<1>6. CASE click.button \in {2, 6, 10}
  <2>1. r = IF w.drag.kind = "none" THEN w ELSE ApplyDrag(w)  BY <1>6 DEF QuickCraft
  <2>2. NextDrag(n, w.drag, click) = IF w.drag.kind = "none" THEN w.drag ELSE NoDrag
    BY <1>6 DEF NextDrag
  <2>3. w.drag.kind # "none" => ApplyDrag(w).drag = NoDrag  BY ApplyDragKeeps
  <2>4. NoDrag.kind = "none"  BY DEF NoDrag
  <2> HIDE DEF r
  <2> QED BY <2>1, <2>2, <2>3, <2>4 DEF r
<1>7. CASE click.button \notin {0, 4, 1, 5, 9, 2, 6, 10}
  <2>1. r = [w EXCEPT !.drag = NoDrag]  BY <1>7 DEF QuickCraft
  <2>2. NextDrag(n, w.drag, click) = NoDrag  BY <1>7 DEF NextDrag
  <2> HIDE DEF r
  <2> QED BY <1>2, <2>1, <2>2 DEF r
<1> QED BY <1>3, <1>4, <1>5, <1>6, <1>7

LEMMA ClickDrags ==
  ASSUME StackSizes, NEW n \in Nat, NEW window, window.slots \in Slots(n), window.cursor \in Stacks,
         window.drag \in Drags(n), NEW layout \in Layouts(n), NEW creative, ~creative, NEW click
  PROVE  LET r == ApplyClick(window, layout, creative, click)
         IN /\ r.drag = NextDrag(n, window.drag, click)
            /\ window.drag = NoDrag /\ click.input = "quick_craft" =>
                 r.slots = window.slots /\ r.cursor = window.cursor
            /\ click.slot < 0 /\ click.slot # Outside =>
                 r.slots = window.slots /\ r.cursor = window.cursor
<1> DEFINE s == click.slot
           inside == s \in DOMAIN window.slots
           w == [slots |-> window.slots, cursor |-> window.cursor, layout |-> layout,
                 drag |-> IF click.input = "quick_craft" THEN window.drag ELSE NoDrag,
                 dropped |-> Empty]
           r == ApplyClick(window, layout, creative, click)
<1>1. NoDrag \in Drags(n)  BY DEF NoDrag, Drags
<1>2. w \in Windows(n)  BY <1>1, EmptyStack DEF Windows
<1>3. /\ w.slots = window.slots /\ w.cursor = window.cursor
      /\ w.drag = IF click.input = "quick_craft" THEN window.drag ELSE NoDrag
  OBVIOUS
<1>4. inside => s \in 0..n - 1  BY DEF Slots
<1>5. CASE s < 0 /\ s # Outside
  <2>1. r = [w EXCEPT !.drag = window.drag]  BY <1>5 DEF ApplyClick
  <2> QED BY <1>5, <2>1 DEF NextDrag
<1>6. CASE ~(s < 0 /\ s # Outside) /\ click.input = "quick_craft"
  <2>1. r = QuickCraft(w, s, click.button, creative)  BY <1>6 DEF ApplyClick
  <2>2. QuickCraft(w, s, click.button, creative) = QuickCraft(w, s, click.button, FALSE)
    <3> HIDE DEF w, r
    <3> QED BY DEF QuickCraft
  <2>3. w.drag = window.drag  BY <1>3, <1>6
  <2>4. click.slot = s  OBVIOUS
  <2> HIDE DEF w, r, inside, s
  <2>5. r = QuickCraft(w, click.slot, click.button, FALSE)  BY <2>1, <2>2, <2>4
  <2>6. ~(click.slot < 0 /\ click.slot # Outside) /\ click.input = "quick_craft"  BY <1>6, <2>4
  <2>7. /\ r.drag = NextDrag(n, w.drag, click)
        /\ w.drag = NoDrag => r.slots = w.slots /\ r.cursor = w.cursor
    BY <1>2, <2>5, <2>6, QuickCrafts
  <2> QED BY <1>3, <2>3, <2>6, <2>7 DEF r
<1>7. CASE ~(s < 0 /\ s # Outside) /\ click.input # "quick_craft"
  <2>1. NextDrag(n, window.drag, click) = NoDrag  BY <1>7 DEF NextDrag
  <2>2. w.drag = NoDrag  BY <1>3, <1>7
  <2>3. r.drag = w.drag
    <3>1. CASE click.input = "pickup" /\ inside
      <4>1. r = Pickup(w, s, click.button = 1)  BY <1>7, <3>1 DEF ApplyClick
      <4> HIDE DEF w, r
      <4>2. \A t, c : [w EXCEPT !.slots[s] = t, !.cursor = c].drag = w.drag  BY <1>2 DEF Windows
      <4> QED BY <4>1, <4>2 DEF Pickup
    <3>2. CASE click.input = "pickup" /\ ~inside
      <4>1. r = DropCursor(w, click.button = 1)  BY <1>7, <3>2 DEF ApplyClick
      <4> HIDE DEF w, r
      <4> QED BY <1>2, <4>1 DEF DropCursor, Thrown, Windows
    <3>3. CASE click.input = "quick_move" /\ inside
      <4>1. r = QuickMove(w, s)  BY <1>7, <3>3 DEF ApplyClick
      <4> HIDE DEF w, r
      <4>2. \A f : [w EXCEPT !.slots = f].drag = w.drag  BY <1>2 DEF Windows
      <4> QED BY <4>1, <4>2 DEF QuickMove
    <3>4. CASE click.input = "swap" /\ inside
      <4>1. r = Swap(w, s, click.button)  BY <1>7, <3>4 DEF ApplyClick
      <4> HIDE DEF w, r
      <4>2. \A f : [w EXCEPT !.slots = f].drag = w.drag  BY <1>2 DEF Windows
      <4> QED BY <4>1, <4>2, Zenon DEF Swap
    <3>5. CASE click.input = "clone" /\ inside
      <4>1. r = CloneStack(w, s, creative)  BY <1>7, <3>5 DEF ApplyClick
      <4> HIDE DEF w, r
      <4> QED BY <4>1 DEF CloneStack
    <3>6. CASE click.input = "throw" /\ inside
      <4>1. r = Throw(w, s, click.button)  BY <1>7, <3>6 DEF ApplyClick
      <4> HIDE DEF w, r
      <4>2. \A f, d : [[w EXCEPT !.slots[s] = f] EXCEPT !.dropped = d].drag = w.drag
        BY <1>2 DEF Windows
      <4> QED BY <4>1, <4>2 DEF Throw, Thrown
    <3>7. CASE click.input = "pickup_all" /\ inside
      <4>1. r = PickupAll(w)  BY <1>7, <3>7 DEF ApplyClick
      <4> HIDE DEF w, r
      <4> QED BY <1>2, <4>1, PickupAllKeeps
    <3>8. CASE /\ click.input # "pickup"
               /\ inside => click.input \notin {"quick_move", "swap", "clone", "throw", "pickup_all"}
      <4>1. r = w  BY <1>7, <3>8 DEF ApplyClick
      <4> QED BY <4>1
    <3> HIDE DEF w, r
    <3> QED BY <3>1, <3>2, <3>3, <3>4, <3>5, <3>6, <3>7, <3>8
  <2> HIDE DEF w, r
  <2> QED BY <1>7, <2>1, <2>2, <2>3 DEF r
<1> HIDE DEF w, r
<1> QED BY <1>5, <1>6, <1>7 DEF r

LEMMA DragsAgree ==
  ASSUME NEW n, NEW drag, NEW click
  PROVE  NextDrag(n, NoDrag, click) \in {NoDrag, NextDrag(n, drag, click)}
<1>1. NoDrag.kind = "none"  BY DEF NoDrag
<1> QED BY <1>1 DEF NextDrag

(* The same click by someone who has lost the drag does the same or nothing. *)
LEMMA ClickAlike ==
  ASSUME StackSizes, NEW n \in Nat, NEW slots \in Slots(n), NEW cursor \in Stacks,
         NEW drag \in Drags(n), NEW d \in {NoDrag, drag},
         NEW layout \in Layouts(n), NEW creative, ~creative, NEW click
  PROVE  LET a == ApplyClick([slots |-> slots, cursor |-> cursor, drag |-> d], layout, creative, click)
             b == ApplyClick([slots |-> slots, cursor |-> cursor, drag |-> drag], layout, creative, click)
         IN (a.slots = b.slots /\ a.cursor = b.cursor) \/ (a.slots = slots /\ a.cursor = cursor)
<1> DEFINE one == [slots |-> slots, cursor |-> cursor, drag |-> d]
           other == [slots |-> slots, cursor |-> cursor, drag |-> drag]
           a == ApplyClick(one, layout, creative, click)
           b == ApplyClick(other, layout, creative, click)
<1>1. CASE d = drag  BY <1>1
<1>2. CASE d = NoDrag
  <2>1. /\ one.slots = slots /\ one.cursor = cursor /\ one.drag = NoDrag
        /\ one.slots \in Slots(n) /\ one.cursor \in Stacks /\ one.drag \in Drags(n)
    BY <1>2 DEF NoDrag, Drags
  <2>2. CASE click.input = "quick_craft" \/ (click.slot < 0 /\ click.slot # Outside)
    <3>1. a.slots = one.slots /\ a.cursor = one.cursor
      <4> HIDE DEF one
      <4> QED BY <2>1, <2>2, ClickDrags
    <3> HIDE DEF one, a
    <3> QED BY <2>1, <3>1 DEF a, one
  <2>3. CASE ~(click.input = "quick_craft" \/ (click.slot < 0 /\ click.slot # Outside))
    <3> DEFINE w(x) == [slots |-> slots, cursor |-> cursor, layout |-> layout,
                        drag |-> IF click.input = "quick_craft" THEN x ELSE NoDrag,
                        dropped |-> Empty]
    <3>1. w(d) = w(drag)  BY <2>3
    <3>2. a = b  BY <2>3, <3>1, Zenon DEF ApplyClick
    <3> QED BY <3>2
  <2> QED BY <2>2, <2>3
<1> QED BY <1>1, <1>2

-----------------------------------------------------------------------------
(***************************************************************************)
(* The invariant                                                           *)
(***************************************************************************)

(* The client has closed the open menu and says so. *)
Closing == open.id # 0 /\ \E k \in Indexes(up) : up[k].type = "close" /\ up[k].id = open.id

(* A click in the open window is on its way. *)
Asked == up # <<>> /\ up[1].type = "click" /\ up[1].id = open.id

WinSize == IF open.id # 0 THEN MenuWindow ELSE Size
WinLayout == IF open.id # 0 THEN MenuLayout ELSE PlayerLayout
ServerDrag == IF open.id # 0 THEN open.drag ELSE inv.drag
ReadOnly == open.id # 0 /\ ~open.editable
(* The part of the client's picture that shows slot s of the window *)
Where(s) == IF open.id = 0 \/ ~(s < MenuSize) THEN "inv" ELSE "menu"
Which(s) == IF open.id = 0 \/ s < MenuSize THEN s ELSE InInventory(s)

(* What the client made of slots with its click, having drag *)
Made(slots, drag) ==
  ApplyClick([slots |-> slots, cursor |-> inv.cursor, drag |-> drag], WinLayout, Creative, up[1].click)
Foresees(slots, drag) ==
  /\ \A s \in 0..WinSize - 1 : /\ Due(Where(s), Which(s)) \/ slots[s] = AtServer(Where(s), Which(s))
                               /\ AtClient(Where(s), Which(s)) = Made(slots, drag).slots[s]
  /\ client.cursor = Made(slots, drag).cursor
  /\ up[1].changed = Differ(Made(slots, drag).slots, slots)
  /\ ReadOnly \/ drag \in {NoDrag, ServerDrag}
(* The client shows what its click made of what the server has. *)
Same ==
  /\ down = <<>> /\ client.win = open.id /\ ~Due("cursor", 0)
  /\ phase = "ingest" => \A p, n : OnShow(p, n) => ~Due(p, n)
  /\ \E slots \in Slots(WinSize), drag \in Drags(WinSize) : Foresees(slots, drag)

(* The answer to the click will be the whole window, or the client foresees it. *)
Pending == Asked /\ (up[1].state # StateId \/ Same)

Heard == \A p, n : OnShow(p, n) => Due(p, n) \/ HeardAs(p, n, AtServer(p, n))
Informed == Closing \/ Pending \/ Heard

(* After the last new screen, all that it shows is filled. *)
Covered ==
  \A j : Latest(j) => \A p, n : OnShow(p, n) =>
    Due(p, n) \/ \E k \in j + 1..Len(down) : Names(down[k], p, n)

(* The open menu is announced once. *)
Opens(k) == down[k].type = "open" /\ down[k].id = open.id
Once ==
  open.id # 0 =>
    /\ \A j, k \in Indexes(down) : Opens(j) /\ Opens(k) => j = k
    /\ client.win = open.id => \A k \in Indexes(down) : ~Opens(k)

Ends ==
  /\ \A j : Latest(j) => ScreenOf(down[j]) = open.id
  /\ Unscreened => client.win = open.id \/ Closing
  /\ Closing => Unscreened /\ client.win = 0 /\ client.drag = NoDrag

(* A drag that the client knows of is the server's. *)
DragsMatch ==
  Unscreened /\ client.win = open.id /\ client.drag # NoDrag /\ ~ReadOnly =>
    client.drag = IF Asked THEN NextDrag(WinSize, ServerDrag, up[1].click) ELSE ServerDrag

DirtyMarks == [slots : SUBSET (0..Size - 1), full : BOOLEAN, cursor : BOOLEAN]
StateIds == {s \in Nat : s < 32768}
GoodDirty(i) == i.dirty \in DirtyMarks /\ i.state \in StateIds
GoodMarks(o) ==
  o.state \in StateIds /\ o.marked \subseteq 0..MenuSize - 1 /\ o.full \in BOOLEAN /\ o.title = FALSE
GoodRequest(k) ==
  /\ up[k].type = "close" => up[k].id \in 1..lastId
  /\ up[k].type # "close" =>
       /\ k = 1 /\ up[k].type = "click"
       /\ up[k].changed \subseteq 0..(IF up[k].id # 0 THEN MenuWindow ELSE Size) - 1

Ranges ==
  /\ phase \in {"ingest", "update", "answer", "gone"}
  /\ \A k \in Indexes(up) : GoodRequest(k)
  /\ GoodDirty(inv) /\ (IsOpen => GoodMarks(open))
  /\ phase = "ingest" /\ IsOpen => open.id # 0
  /\ client.drag \in Drags(IF client.win = 0 THEN Size ELSE MenuWindow)

Picture == Words /\ GoodClient(client) /\ Channel /\ Once /\ Ends /\ Covered /\ Informed /\ DragsMatch
SettleInv == phase # "gone" => Ranges /\ Picture

(* What the theorem is about *)
Regular ==
  /\ StackSizes /\ Sizes /\ ~Creative /\ ~Retitles /\ GameIn \subseteq {"update"}
  /\ Size <= 64 /\ MenuWindow <= 128
  /\ MaxMenus \in Nat /\ MaxId \in Nat \ {0} /\ MaxMenus <= MaxId

-----------------------------------------------------------------------------
(* Nothing is on its way, nothing is marked: nothing is due. *)
LEMMA AllTold ==
  ASSUME MenuInv, Ranges, Picture, phase = "ingest", Unmarked, up = <<>>, down = <<>>
  PROVE  /\ Indexes(up) = {} /\ Indexes(down) = {} /\ ~Closing /\ ~Asked /\ Unscreened
         /\ client.win = open.id /\ (IsOpen <=> open.id # 0)
         /\ \A p, n : OnShow(p, n) => ~Due(p, n) /\ AtClient(p, n) = AtServer(p, n)
<1>2. Indexes(up) = {} /\ Indexes(down) = {}  BY Nothing
<1>3. ~Closing /\ ~Asked /\ Heard /\ Unscreened
  BY <1>2 DEF Closing, Pending, Asked, Picture, Informed, Unscreened
<1>4. client.win = open.id  BY <1>3 DEF Picture, Ends
<1>5. \A p, n, v : HeardAs(p, n, v) => AtClient(p, n) = v  BY <1>2 DEF HeardAs
<1>6. IsOpen <=> open.id # 0  BY MenuShapes DEF Ranges, IsOpen
<1>8. ASSUME NEW p, NEW n, OnShow(p, n) PROVE ~Due(p, n)
  <2>1. CASE IsOpen
    <3>1. /\ ~open.full /\ open.marked = {} /\ ~inv.dirty.full /\ ~inv.dirty.cursor
          /\ inv.dirty.slots \subseteq Hidden
      BY <2>1 DEF Unmarked
    <3> QED BY <1>6, <1>8, <2>1, <3>1 DEF OnShow, Due, Whole, Hidden
  <2>2. CASE ~IsOpen
    <3>1. inv.dirty.slots = {} /\ ~inv.dirty.full /\ ~inv.dirty.cursor
      BY <2>2 DEF Unmarked, Clean
    <3> QED BY <1>6, <1>8, <2>2, <3>1 DEF OnShow, Due, Whole
  <2> QED BY <2>1, <2>2
<1>9. \A p, n : OnShow(p, n) => AtClient(p, n) = AtServer(p, n)  BY <1>3, <1>5, <1>8 DEF Heard
<1> QED BY <1>2, <1>3, <1>4, <1>6, <1>8, <1>9

LEMMA InvSettles ==
  ASSUME Sizes, MenuInv, SightInv, StoreInv, SettleInv PROVE Settled
<1> SUFFICES ASSUME phase = "ingest", Unmarked, up = <<>>, down = <<>>
             PROVE  /\ client.win = open.id /\ client.cursor = inv.cursor
                    /\ Shown = IF IsOpen THEN WindowOf(open.slots, inv.slots) ELSE inv.slots
  BY DEF Settled
<1>1. Ranges /\ Picture  BY DEF SettleInv
<1>4. /\ client.win = open.id /\ (IsOpen <=> open.id # 0)
      /\ \A p, n : OnShow(p, n) => AtClient(p, n) = AtServer(p, n)
  BY <1>1, AllTold
<1>6. IsOpen <=> open.id # 0  BY <1>4
<1>7. /\ \A i \in 0..Size - 1 : inv.slots[i] \in Stacks
      /\ inv.slots = [i \in 0..Size - 1 |-> inv.slots[i]]
  BY DEF StoreInv, GoodInventory, Slots
<1>9. \A p, n : OnShow(p, n) => AtClient(p, n) = AtServer(p, n)  BY <1>4
<1>10. client.cursor = inv.cursor
  <2>1. AtClient("cursor", 0) = AtServer("cursor", 0)  BY <1>9 DEF OnShow
  <2> QED BY <2>1 DEF AtClient, AtServer
<1>11. \A n \in 0..Size - 1 : (open.id # 0 => n \in Visible) => client.inv[n] = inv.slots[n]
  <2>1. \A n : OnShow("inv", n) => AtClient("inv", n) = AtServer("inv", n)  BY <1>9
  <2> QED BY <2>1 DEF OnShow, AtClient, AtServer
<1>12. CASE ~IsOpen
  <2>1. client.inv = [i \in 0..Size - 1 |-> client.inv[i]]  BY <1>1 DEF Picture, GoodClient
  <2>2. client.inv = inv.slots  BY <1>6, <1>7, <1>11, <1>12, <2>1
  <2> QED BY <1>4, <1>6, <1>10, <1>12, <2>2 DEF Shown
<1>13. CASE IsOpen
  <2>1. \A n \in 0..MenuSize - 1 : client.menu[n] = open.slots[n]
    <3>1. \A n : OnShow("menu", n) => AtClient("menu", n) = AtServer("menu", n)  BY <1>9
    <3> QED BY <1>4, <1>6, <1>13, <3>1 DEF OnShow, AtClient, AtServer
  <2>2. ASSUME NEW s \in 0..MenuWindow - 1
        PROVE  (IF s < MenuSize THEN client.menu[s] ELSE client.inv[InInventory(s)])
                 = (IF s < MenuSize THEN open.slots[s] ELSE inv.slots[InInventory(s)])
    <3>1. /\ MenuWindow \in Nat /\ Extra \in Nat /\ MenuWindow = MenuSize + Extra /\ Size \in Nat
          /\ Gear + Extra <= Size /\ Visible = Gear..Gear + Extra - 1 /\ Gear \in Nat /\ MenuSize \in Nat
      BY Geometry DEF Sizes
    <3>2. CASE s < MenuSize
      <4>1. s \in 0..MenuSize - 1  BY <3>1, <3>2
      <4> QED BY <2>1, <3>2, <4>1
    <3>3. CASE ~(s < MenuSize)
      <4>1. InInventory(s) \in Visible /\ InInventory(s) \in 0..Size - 1  BY <3>1, <3>3 DEF InInventory
      <4> QED BY <1>11, <3>3, <4>1
    <3> QED BY <3>2, <3>3
  <2>3. WindowOf(client.menu, client.inv) = WindowOf(open.slots, inv.slots)  BY <2>2 DEF WindowOf
  <2> QED BY <1>4, <1>6, <1>10, <1>13, <2>3 DEF Shown
<1> QED BY <1>12, <1>13

-----------------------------------------------------------------------------
(* j comes after i, and has marks for all that it has other than i. *)
Follows(i, j) ==
  /\ GoodDirty(j) /\ j.state = i.state
  /\ i.dirty.slots \subseteq j.dirty.slots
  /\ \A k \in 0..Size - 1 : j.slots[k] = i.slots[k] \/ k \in j.dirty.slots
  /\ i.dirty.full => j.dirty.full
  /\ i.dirty.cursor => j.dirty.cursor
  /\ j.cursor = i.cursor \/ j.dirty.cursor
(* Only slots differ. *)
SlotsOnly(i, j) ==
  j.dirty.full = i.dirty.full /\ j.dirty.cursor = i.dirty.cursor /\ j.cursor = i.cursor /\ j.drag = i.drag

LEMMA FollowsOn ==
  ASSUME NEW i, NEW j, NEW k, Follows(i, j), Follows(j, k) PROVE Follows(i, k)
<1>1. \A s \in 0..Size - 1 : k.slots[s] = i.slots[s] \/ s \in k.dirty.slots
  BY DEF Follows
<1>2. k.cursor = i.cursor \/ k.dirty.cursor  BY DEF Follows
<1> QED BY <1>1, <1>2 DEF Follows

LEMMA DirtyParts ==
  ASSUME NEW i, GoodInventory(i), GoodDirty(i), NEW d
  PROVE  LET j == [i EXCEPT !.dirty = d]
         IN j.dirty = d /\ j.state = i.state /\ j.drag = i.drag
  BY DEF GoodInventory

LEMMA SettersMark ==
  ASSUME NEW i, GoodInventory(i), GoodDirty(i)
  PROVE  /\ \A S \in SUBSET (0..Size - 1) :
              /\ Follows(i, Marked(i, S)) /\ SlotsOnly(i, Marked(i, S)) /\ S \subseteq Marked(i, S).dirty.slots
         /\ /\ Follows(i, CursorMarked(i)) /\ CursorMarked(i).dirty.cursor
            /\ CursorMarked(i).drag = i.drag
         /\ Follows(i, Full(i)) /\ Full(i).dirty.full /\ Full(i).drag = i.drag
         /\ \A slots \in Slots(Size) : Follows(i, SetSlots(i, slots)) /\ SlotsOnly(i, SetSlots(i, slots))
         /\ \A stack \in Stacks : Follows(i, SetCursor(i, stack)) /\ SetCursor(i, stack).drag = i.drag
<1> DEFINE d == i.dirty
<1>1. d \in DirtyMarks /\ i.state \in StateIds  BY DEF GoodDirty
<1>2. \A x : [i EXCEPT !.dirty = x].dirty = x /\ [i EXCEPT !.dirty = x].state = i.state
            /\ [i EXCEPT !.dirty = x].drag = i.drag
  BY DirtyParts
<1> HIDE DEF d
<1> DEFINE All == 0..Size - 1
<1>0. DirtyMarks = [slots : SUBSET All, full : BOOLEAN, cursor : BOOLEAN]  BY DEF DirtyMarks
<1> HIDE DEF All
<1>3. ASSUME NEW S \in SUBSET All
      PROVE  /\ [d EXCEPT !.slots = d.slots \cup S].slots = d.slots \cup S
             /\ [d EXCEPT !.slots = d.slots \cup S].full = d.full
             /\ [d EXCEPT !.slots = d.slots \cup S].cursor = d.cursor
             /\ [d EXCEPT !.slots = d.slots \cup S] \in DirtyMarks
  BY <1>0, <1>1
<1>4. /\ [d EXCEPT !.full = TRUE].slots = d.slots /\ [d EXCEPT !.full = TRUE].full = TRUE
      /\ [d EXCEPT !.full = TRUE].cursor = d.cursor /\ [d EXCEPT !.full = TRUE] \in DirtyMarks
  BY <1>0, <1>1
<1>5. ASSUME NEW c \in BOOLEAN
      PROVE  /\ [d EXCEPT !.cursor = c].slots = d.slots /\ [d EXCEPT !.cursor = c].full = d.full
             /\ [d EXCEPT !.cursor = c].cursor = c /\ [d EXCEPT !.cursor = c] \in DirtyMarks
  BY <1>0, <1>1
<1>6. d = i.dirty  BY DEF d
<1>7. ASSUME NEW S \in SUBSET All
      PROVE  /\ Follows(i, Marked(i, S)) /\ SlotsOnly(i, Marked(i, S)) /\ S \subseteq Marked(i, S).dirty.slots
             /\ GoodInventory(Marked(i, S)) /\ Marked(i, S).dirty.slots = d.slots \cup S
  <2> DEFINE x == [d EXCEPT !.slots = d.slots \cup S]
             j == Marked(i, S)
  <2>1. j = [i EXCEPT !.dirty = x]  BY <1>6 DEF Marked
  <2>2. GoodInventory(j) /\ j.slots = i.slots /\ j.cursor = i.cursor  BY SettersKeep
  <2>3. /\ x.slots = d.slots \cup S /\ x.full = d.full /\ x.cursor = d.cursor
        /\ x \in DirtyMarks
    BY <1>3
  <2> HIDE DEF x
  <2>4. j.dirty = x /\ j.state = i.state /\ j.drag = i.drag  BY <1>2, <2>1
  <2> HIDE DEF j
  <2>5. GoodDirty(j)  BY <1>1, <2>3, <2>4 DEF GoodDirty
  <2> QED BY <1>6, <2>2, <2>3, <2>4, <2>5 DEF Follows, SlotsOnly, j, All
<1>8. Follows(i, CursorMarked(i)) /\ CursorMarked(i).dirty.cursor /\ CursorMarked(i).drag = i.drag
  <2> DEFINE x == [d EXCEPT !.cursor = TRUE]
             j == CursorMarked(i)
  <2>1. j = [i EXCEPT !.dirty = x]  BY <1>6 DEF CursorMarked
  <2>2. j.slots = i.slots /\ j.cursor = i.cursor  BY SettersKeep
  <2>3. /\ x.slots = d.slots /\ x.full = d.full /\ x.cursor = TRUE
        /\ x \in DirtyMarks
    BY <1>5
  <2> HIDE DEF x
  <2>4. j.dirty = x /\ j.state = i.state /\ j.drag = i.drag  BY <1>2, <2>1
  <2> HIDE DEF j
  <2>5. GoodDirty(j)  BY <1>1, <2>3, <2>4 DEF GoodDirty
  <2> QED BY <1>6, <2>2, <2>3, <2>4, <2>5 DEF Follows, j, All
<1>9. Follows(i, Full(i)) /\ Full(i).dirty.full /\ Full(i).drag = i.drag
  <2> DEFINE x == [d EXCEPT !.full = TRUE]
             j == Full(i)
  <2>1. j = [i EXCEPT !.dirty = x]  BY <1>6 DEF Full
  <2>2. j.slots = i.slots /\ j.cursor = i.cursor  BY SettersKeep
  <2>3. /\ x.slots = d.slots /\ x.full = TRUE /\ x.cursor = d.cursor
        /\ x \in DirtyMarks
    BY <1>4
  <2> HIDE DEF x
  <2>4. j.dirty = x /\ j.state = i.state /\ j.drag = i.drag  BY <1>2, <2>1
  <2> HIDE DEF j
  <2>5. GoodDirty(j)  BY <1>1, <2>3, <2>4 DEF GoodDirty
  <2> QED BY <1>6, <2>2, <2>3, <2>4, <2>5 DEF Follows, j, All
<1>10. ASSUME NEW slots \in Slots(Size)
       PROVE  Follows(i, SetSlots(i, slots)) /\ SlotsOnly(i, SetSlots(i, slots))
  <2> DEFINE D == Differ(slots, i.slots)
             m == Marked(i, D)
             j == SetSlots(i, slots)
  <2>1. /\ D \in SUBSET All
        /\ \A k \in All : slots[k] = i.slots[k] \/ k \in D
    BY DEF Differ, Slots, All
  <2>2. j = [m EXCEPT !.slots = slots]  BY DEF SetSlots
  <2>3. j.slots = slots /\ j.cursor = i.cursor  BY SettersKeep
  <2> HIDE DEF D
  <2>4. Follows(i, m) /\ SlotsOnly(i, m) /\ GoodInventory(m) /\ m.dirty.slots = d.slots \cup D
    BY <1>7, <2>1
  <2> HIDE DEF m
  <2>5. j.dirty = m.dirty /\ j.state = m.state /\ j.drag = m.drag
    BY <2>2, <2>4 DEF GoodInventory
  <2> HIDE DEF j
  <2>6. GoodDirty(j)  BY <2>4, <2>5 DEF GoodDirty, Follows
  <2>7. \A k \in All : j.slots[k] = i.slots[k] \/ k \in j.dirty.slots
    BY <2>1, <2>3, <2>4, <2>5
  <2> QED BY <1>6, <2>3, <2>4, <2>5, <2>6, <2>7 DEF Follows, SlotsOnly, j, All
<1>11. ASSUME NEW stack \in Stacks
       PROVE  Follows(i, SetCursor(i, stack)) /\ SetCursor(i, stack).drag = i.drag
  <2> DEFINE c == d.cursor \/ stack # i.cursor
             x == [d EXCEPT !.cursor = c]
             m == [i EXCEPT !.cursor = stack]
             j == SetCursor(i, stack)
  <2>1. j = [m EXCEPT !.dirty = [i.dirty EXCEPT !.cursor = @ \/ stack # i.cursor]]
    BY DEF SetCursor, GoodInventory
  <2>2. j.slots = i.slots /\ j.cursor = stack  BY SettersKeep
  <2>3. [i.dirty EXCEPT !.cursor = @ \/ stack # i.cursor] = x  BY <1>6
  <2>4. c \in BOOLEAN /\ (d.cursor => c) /\ (stack = i.cursor \/ c)  OBVIOUS
  <2>5. GoodInventory(m) /\ m.state = i.state /\ m.drag = i.drag  BY DEF GoodInventory
  <2> HIDE DEF c
  <2>6. /\ x.slots = d.slots /\ x.full = d.full /\ x.cursor = c
        /\ x \in DirtyMarks
    BY <1>5, <2>4
  <2> HIDE DEF x, m
  <2>7. j.dirty = x /\ j.state = i.state /\ j.drag = i.drag
    BY <2>1, <2>3, <2>5 DEF GoodInventory
  <2> HIDE DEF j
  <2>8. GoodDirty(j)  BY <1>1, <2>4, <2>6, <2>7 DEF GoodDirty
  <2> QED BY <1>6, <2>2, <2>4, <2>6, <2>7, <2>8 DEF Follows, j, All
<1> QED BY <1>7, <1>8, <1>9, <1>10, <1>11 DEF All

-----------------------------------------------------------------------------
(* The slots of the window are on show. *)
LEMMA InWindow ==
  ASSUME Sizes
  PROVE  /\ WinSize \in Nat /\ WinLayout \in Layouts(WinSize)
         /\ \A s \in 0..WinSize - 1 : OnShow(Where(s), Which(s)) /\ Where(s) \in {"inv", "menu"}
         /\ \A p, n : OnShow(p, n) /\ p # "cursor" =>
              \E s \in 0..WinSize - 1 : Where(s) = p /\ Which(s) = n
<1>1. /\ MenuWindow \in Nat /\ Extra \in Nat /\ MenuWindow = MenuSize + Extra /\ Size \in Nat
      /\ Gear + Extra <= Size /\ Visible = Gear..Gear + Extra - 1 /\ Gear \in Nat /\ MenuSize \in Nat
      /\ PlayerLayout \in Layouts(Size) /\ MenuLayout \in Layouts(MenuWindow)
  BY Geometry DEF Sizes
<1>2. WinSize \in Nat /\ WinLayout \in Layouts(WinSize)  BY <1>1 DEF WinSize, WinLayout
<1>3. ASSUME NEW s \in 0..WinSize - 1 PROVE OnShow(Where(s), Which(s)) /\ Where(s) \in {"inv", "menu"}
  <2>1. CASE open.id = 0  BY <1>1, <2>1 DEF WinSize, Where, Which, OnShow
  <2>2. CASE open.id # 0 /\ s < MenuSize  BY <1>1, <2>2 DEF WinSize, Where, Which, OnShow
  <2>3. CASE open.id # 0 /\ ~(s < MenuSize)
    <3>1. InInventory(s) \in Visible /\ InInventory(s) \in 0..Size - 1
      BY <1>1, <2>3 DEF InInventory, WinSize
    <3> QED BY <2>3, <3>1 DEF Where, Which, OnShow
  <2> QED BY <2>1, <2>2, <2>3
<1>4. ASSUME NEW p, NEW n, OnShow(p, n), p # "cursor"
      PROVE  \E s \in 0..WinSize - 1 : Where(s) = p /\ Which(s) = n
  <2>1. CASE open.id = 0
    <3>1. p = "inv" /\ n \in 0..WinSize - 1  BY <1>4, <2>1 DEF OnShow, WinSize
    <3>2. Where(n) = p /\ Which(n) = n  BY <2>1, <3>1 DEF Where, Which
    <3> QED BY <3>1, <3>2
  <2>2. CASE open.id # 0 /\ p = "menu"
    <3>1. n \in 0..WinSize - 1 /\ n < MenuSize  BY <1>1, <1>4, <2>2 DEF OnShow, WinSize
    <3>2. Where(n) = p /\ Which(n) = n  BY <2>2, <3>1 DEF Where, Which
    <3> QED BY <3>1, <3>2
  <2>3. CASE open.id # 0 /\ p = "inv"
    <3> DEFINE s == n - Gear + MenuSize
    <3>1. n \in Visible  BY <1>4, <2>3 DEF OnShow
    <3>2. s \in 0..WinSize - 1 /\ ~(s < MenuSize) /\ Gear + s - MenuSize = n
      BY <1>1, <2>3, <3>1 DEF WinSize
    <3> HIDE DEF s
    <3>3. Where(s) = p /\ Which(s) = n  BY <2>3, <3>2 DEF Where, Which, InInventory
    <3> QED BY <3>2, <3>3
  <2> QED BY <1>4, <2>1, <2>2, <2>3 DEF OnShow
<1> QED BY <1>2, <1>3, <1>4

-----------------------------------------------------------------------------
(* Neither the client nor the packets to it change. *)
LEMMA Unmoved ==
  ASSUME UNCHANGED <<client, down>>
  PROVE  /\ Words' <=> Words
         /\ GoodClient(client') <=> GoodClient(client)
         /\ Channel' <=> Channel
         /\ Unscreened' <=> Unscreened
         /\ \A j : Latest(j)' <=> Latest(j)
         /\ \A p, n, v : HeardAs(p, n, v)' <=> HeardAs(p, n, v)
<1>1. client' = client /\ down' = down  OBVIOUS
<1>2. Words' <=> Words  BY <1>1 DEF Words, Indexes
<1>3. \A k : Screened(k)' <=> Screened(k)  BY <1>1 DEF Screened
<1>4. Channel' <=> Channel  BY <1>1, <1>3 DEF Channel, Nearest, Indexes
<1>5. Unscreened' <=> Unscreened  BY <1>1 DEF Unscreened, Indexes
<1>6. \A j : Latest(j)' <=> Latest(j)  BY <1>1 DEF Latest, Indexes
<1>7. \A k, p, n : Speaks(k, p, n)' <=> Speaks(k, p, n)  BY <1>1, <1>3 DEF Speaks, Heeded
<1>8. \A p, n : AtClient(p, n)' = AtClient(p, n)  BY <1>1 DEF AtClient
<1>9. ASSUME NEW p, NEW n, NEW v PROVE HeardAs(p, n, v)' <=> HeardAs(p, n, v)
  BY <1>1, <1>7, <1>8 DEF HeardAs, Indexes
<1> QED BY <1>1, <1>2, <1>4, <1>5, <1>6, <1>9

(* What changes on show is due, and what was due still is. *)
Marks ==
  /\ open'.id = open.id /\ UNCHANGED <<client, down>>
  /\ \A p, n : OnShow(p, n) => Due(p, n)' \/ (~Due(p, n) /\ AtServer(p, n)' = AtServer(p, n))

LEMMA MarksHeard == ASSUME Marks, Heard PROVE Heard'
<1>1. \A p, n, v : HeardAs(p, n, v)' <=> HeardAs(p, n, v)  BY Unmoved DEF Marks
<1>2. \A p, n : OnShow(p, n)' <=> OnShow(p, n)  BY DEF OnShow, Marks
<1>3. ASSUME NEW p, NEW n, OnShow(p, n)' PROVE Due(p, n)' \/ HeardAs(p, n, AtServer(p, n))'
  <2>1. OnShow(p, n)  BY <1>2, <1>3
  <2>2. CASE Due(p, n)'  BY <2>2
  <2>3. CASE ~Due(p, n) /\ AtServer(p, n)' = AtServer(p, n)
    <3> DEFINE v == AtServer(p, n)
    <3>1. HeardAs(p, n, v)  BY <2>1, <2>3 DEF Heard
    <3>2. v' = v  BY <2>3
    <3>3. down' = down /\ client' = client  BY DEF Marks
    <3> QED BY <1>1, <3>1, <3>2, <3>3, <2>3
  <2> QED BY <2>1, <2>2, <2>3 DEF Marks
<1> QED BY <1>3 DEF Heard

LEMMA MarksKeep ==
  ASSUME Picture, Marks, Closing' <=> Closing, Informed', DragsMatch' PROVE Picture'
<1>1. client' = client /\ down' = down /\ open'.id = open.id  BY DEF Marks
<1>2. Words' /\ GoodClient(client') /\ Channel'  BY <1>1, Unmoved DEF Picture
<1>3. Once'  BY <1>1 DEF Picture, Once, Opens, Indexes
<1>4. Ends'  BY <1>1, Unmoved DEF Picture, Ends
<1>5. Covered'
  <2>1. \A p, n : OnShow(p, n)' <=> OnShow(p, n)  BY <1>1 DEF OnShow
  <2>2. \A p, n : OnShow(p, n) /\ Due(p, n) => Due(p, n)'  BY DEF Marks
  <2>3. \A j : Latest(j)' <=> Latest(j)  BY <1>1, Unmoved
  <2> QED BY <1>1, <2>1, <2>2, <2>3 DEF Picture, Covered
<1> QED BY <1>2, <1>3, <1>4, <1>5 DEF Picture

(* Only the phase and what the client sent change. *)
LEMMA StillKeeps ==
  ASSUME Picture, UNCHANGED <<inv, open, client, down>>, Closing' <=> Closing,
         \/ ~Asked /\ ~Asked'
         \/ Asked /\ up' = up /\ (phase' = "ingest" => phase = "ingest")
  PROVE  Picture'
<1>1. Marks  BY DEF Marks, Due, Whole, AtServer
<1>2. Informed'
  <2>1. CASE Closing  BY <2>1 DEF Informed
  <2>2. CASE Heard  BY <1>1, <2>2, MarksHeard DEF Informed
  <2>3. CASE Pending
    <3>1. Asked /\ up' = up /\ (phase' = "ingest" => phase = "ingest")  BY <2>3 DEF Pending
    <3>2. Asked'  BY <3>1 DEF Asked
    <3>3. CASE up[1].state # StateId  BY <3>1, <3>2, <3>3 DEF Informed, Pending, StateId
    <3>4. CASE Same
      <4>1. \A p, n : (Due(p, n)' <=> Due(p, n)) /\ AtServer(p, n)' = AtServer(p, n)
                      /\ AtClient(p, n)' = AtClient(p, n) /\ (OnShow(p, n)' <=> OnShow(p, n))
        BY DEF Due, Whole, AtServer, AtClient, OnShow
      <4>2. /\ WinSize' = WinSize /\ WinLayout' = WinLayout /\ ServerDrag' = ServerDrag
            /\ ReadOnly' <=> ReadOnly
            /\ \A s : Where(s)' = Where(s) /\ Which(s)' = Which(s)
        BY DEF WinSize, WinLayout, ServerDrag, ReadOnly, Where, Which
      <4>3. \A slots, drag : Made(slots, drag)' = Made(slots, drag)
        BY <3>1, <4>2 DEF Made
      <4>4. PICK slots \in Slots(WinSize), drag \in Drags(WinSize) : Foresees(slots, drag)
        BY <3>4 DEF Same
      <4>5. Foresees(slots, drag)'
        BY <3>1, <4>1, <4>2, <4>3, <4>4 DEF Foresees
      <4>6. Same'  BY <3>1, <3>4, <4>1, <4>2, <4>4, <4>5 DEF Same
      <4> QED BY <3>2, <4>6 DEF Informed, Pending
    <3> QED BY <2>3, <3>3, <3>4 DEF Pending
  <2> QED BY <2>1, <2>2, <2>3 DEF Picture, Informed
<1>3. DragsMatch'
  <2>1. Unscreened' <=> Unscreened  BY Unmoved
  <2>2. Asked' <=> Asked  BY DEF Asked
  <2>3. Asked => up' = up  OBVIOUS
  <2>4. ServerDrag' = ServerDrag /\ (ReadOnly' <=> ReadOnly) /\ WinSize' = WinSize
    BY DEF ServerDrag, ReadOnly, WinSize
  <2> QED BY <2>1, <2>2, <2>3, <2>4 DEF Picture, DragsMatch
<1> QED BY <1>1, <1>2, <1>3, MarksKeep

(* Game code changes slots; the cursor and the drag stay. *)
Edited ==
  /\ Marks /\ phase' # "ingest" /\ up' = up
  /\ inv'.cursor = inv.cursor /\ (Due("cursor", 0)' <=> Due("cursor", 0))
  /\ ServerDrag' = ServerDrag /\ (ReadOnly' <=> ReadOnly) /\ StateId' = StateId

LEMMA EditKeeps == ASSUME Sizes, Picture, Edited PROVE Picture'
<1>1. /\ client' = client /\ down' = down /\ open'.id = open.id /\ Marks /\ up' = up
      /\ inv'.cursor = inv.cursor /\ phase' # "ingest"
  BY DEF Edited, Marks
<1>2. (Closing' <=> Closing) /\ (Asked' <=> Asked)  BY <1>1 DEF Closing, Asked, Indexes
<1>3. Informed'
  <2>1. CASE Closing  BY <1>2, <2>1 DEF Informed
  <2>2. CASE Heard  BY <1>1, <2>2, MarksHeard DEF Informed
  <2>3. CASE Pending /\ up[1].state # StateId
    BY <1>1, <1>2, <2>3 DEF Informed, Pending, Edited
  <2>4. CASE Pending /\ Same
    <3>1. /\ WinSize' = WinSize /\ WinLayout' = WinLayout
          /\ \A s : Where(s)' = Where(s) /\ Which(s)' = Which(s)
          /\ \A p, n : AtClient(p, n)' = AtClient(p, n)
      BY <1>1 DEF WinSize, WinLayout, Where, Which, AtClient
    <3>2. \A slots, drag : Made(slots, drag)' = Made(slots, drag)
      BY <1>1, <3>1 DEF Made
    <3>3. PICK slots \in Slots(WinSize), drag \in Drags(WinSize) : Foresees(slots, drag)
      BY <2>4 DEF Same
    <3>4. ASSUME NEW s \in 0..WinSize - 1
          PROVE  (Due(Where(s), Which(s)) \/ slots[s] = AtServer(Where(s), Which(s)))'
      <4>1. OnShow(Where(s), Which(s))  BY InWindow
      <4> DEFINE p == Where(s)
                 n == Which(s)
      <4>2. p' = p /\ n' = n  BY <3>1
      <4>3. \A q, m : OnShow(q, m) =>
              Due(q, m)' \/ (~Due(q, m) /\ AtServer(q, m)' = AtServer(q, m))
        BY <1>1 DEF Marks
      <4>4. Due(p, n)' \/ (~Due(p, n) /\ AtServer(p, n)' = AtServer(p, n))
        BY <4>1, <4>2, <4>3 DEF Due, Whole, AtServer
      <4>5. Due(p, n) \/ slots[s] = AtServer(p, n)  BY <3>3 DEF Foresees
      <4> QED BY <4>4, <4>5
    <3>5. Foresees(slots, drag)'
      BY <1>1, <3>1, <3>2, <3>3, <3>4 DEF Foresees, Edited
    <3>6. Same'
      BY <1>1, <2>4, <3>1, <3>3, <3>5 DEF Same, Edited
    <3> QED BY <1>2, <2>4, <3>6 DEF Informed, Pending
  <2> QED BY <2>1, <2>2, <2>3, <2>4 DEF Picture, Informed, Pending
<1>4. DragsMatch'
  <2>1. Unscreened' <=> Unscreened  BY <1>1, Unmoved
  <2>2. WinSize' = WinSize  BY <1>1 DEF WinSize
  <2> QED BY <1>1, <1>2, <2>1, <2>2 DEF Picture, DragsMatch, Edited
<1> QED BY <1>1, <1>2, <1>3, <1>4, MarksKeep

-----------------------------------------------------------------------------
(* Packets that are added to those on their way *)
LEMMA WordsAdded ==
  ASSUME Words, NEW more, Adds1(more), \A k \in 1..Len(more) : GoodWord(more[k])
  PROVE  /\ Words'
         /\ Unscreened' <=> Unscreened /\ \A k \in 1..Len(more) : ~Screens(more[k])
<1> DEFINE N == Len(down)
           M == Len(more)
<1>1. /\ N \in Nat /\ M \in Nat /\ Len(down') = N + M /\ IsList(down')
      /\ \A k \in 1..N : down'[k] = down[k]
      /\ \A k \in 1..M : down'[N + k] = more[k]
  BY Before
<1> HIDE DEF N, M
<1>2. \A k \in 1..N + M : k \in 1..N \/ (k - N \in 1..M /\ N + (k - N) = k)  BY <1>1
<1>3. /\ \A k \in 1..N : k \in 1..N + M
      /\ \A k \in 1..M : N + k \in 1..N + M
  BY <1>1
<1>4. \A k \in 1..N + M : \/ k \in 1..N /\ down'[k] = down[k]
                          \/ k - N \in 1..M /\ down'[k] = more[k - N]
  BY <1>1, <1>2
<1>5. /\ \A k \in 1..N : GoodWord(down[k])
      /\ \A k \in 1..M : GoodWord(more[k])
  BY DEF Words, Indexes, N, M
<1>6. \A k \in 1..N + M : GoodWord(down'[k])
  <2> SUFFICES ASSUME NEW k \in 1..N + M PROVE GoodWord(down'[k])
    OBVIOUS
  <2>1. CASE k \in 1..N /\ down'[k] = down[k]  BY <1>5, <2>1
  <2>2. CASE k - N \in 1..M /\ down'[k] = more[k - N]  BY <1>5, <2>2
  <2> QED BY <1>4, <2>1, <2>2
<1>7. Words'  BY <1>1, <1>6 DEF Words, Indexes
<1>8. Unscreened' <=> \A k \in 1..N + M : ~Screens(down'[k])  BY <1>1 DEF Unscreened, Indexes, Screens
<1>9. Unscreened <=> \A k \in 1..N : ~Screens(down[k])  BY DEF Unscreened, Indexes, N
<1>10. (\A k \in 1..N + M : ~Screens(down'[k]))
         <=> (\A k \in 1..N : ~Screens(down[k])) /\ \A k \in 1..M : ~Screens(more[k])
  <2>1. ASSUME \A k \in 1..N + M : ~Screens(down'[k])
        PROVE  (\A k \in 1..N : ~Screens(down[k])) /\ \A k \in 1..M : ~Screens(more[k])
    <3>1. \A k \in 1..N : ~Screens(down'[k])  BY <1>3, <2>1
    <3>2. \A k \in 1..M : ~Screens(down'[N + k])  BY <1>3, <2>1
    <3> QED BY <1>1, <3>1, <3>2 DEF M
  <2>2. ASSUME \A k \in 1..N : ~Screens(down[k]), \A k \in 1..M : ~Screens(more[k]), NEW k \in 1..N + M
        PROVE  ~Screens(down'[k])
    <3>1. CASE k \in 1..N /\ down'[k] = down[k]  BY <2>2, <3>1
    <3>2. CASE k - N \in 1..M /\ down'[k] = more[k - N]  BY <2>2, <3>2
    <3> QED BY <1>4, <3>1, <3>2
  <2> QED BY <2>1, <2>2
<1> QED BY <1>7, <1>8, <1>9, <1>10 DEF M

(* They do not change the screen, *)
LEMMA PlainAdded ==
  ASSUME Words, NEW more, Adds1(more), \A k \in 1..Len(more) : ~Screens(more[k])
  PROVE  /\ \A j : Latest(j)' <=> Latest(j)
         /\ \A i \in Int : i - Len(down) \in 1..Len(more) => /\ \A j : Nearest(j, i)' => Latest(j)
                                                             /\ Screened(i)' <=> ~Unscreened
<1> DEFINE N == Len(down)
           M == Len(more)
<1>1. /\ N \in Nat /\ M \in Nat /\ Len(down') = N + M
      /\ \A k \in 1..N : down'[k] = down[k]
      /\ \A k \in 1..M : down'[N + k] = more[k]
  BY Before
<1> HIDE DEF N, M
<1>2. \A k \in N + 1..N + M : k - N \in 1..M /\ N + (k - N) = k  BY <1>1
<1>3. \A k \in N + 1..N + M : ~Screens(down'[k])  BY <1>1, <1>2 DEF M
<1>4. \A j : Latest(j) <=> j \in 1..N /\ Screens(down[j]) /\ \A i \in j + 1..N : ~Screens(down[i])
  BY DEF Latest, Indexes, N
<1>5. \A j : Latest(j)' <=> j \in 1..N + M /\ Screens(down'[j])
                            /\ \A i \in j + 1..N + M : ~Screens(down'[i])
  BY <1>1 DEF Latest, Indexes, Screens
<1>6. ASSUME NEW j PROVE Latest(j)' <=> Latest(j)
  <2>1. CASE j \in 1..N
    <3>1. \A i \in j + 1..N : i \in 1..N /\ i \in j + 1..N + M  BY <1>1, <2>1
    <3>2. \A i \in j + 1..N + M : i \in j + 1..N \/ i \in N + 1..N + M  BY <1>1, <2>1
    <3>3. (\A i \in j + 1..N + M : ~Screens(down'[i])) <=> \A i \in j + 1..N : ~Screens(down[i])
      BY <1>1, <1>3, <3>1, <3>2
    <3>4. j \in 1..N + M  BY <1>1, <2>1
    <3> QED BY <1>1, <1>4, <1>5, <2>1, <3>3, <3>4
  <2>2. CASE j \notin 1..N
    <3>1. j \in 1..N + M => j \in N + 1..N + M  BY <1>1, <2>2
    <3> QED BY <1>3, <1>4, <1>5, <2>2, <3>1
  <2> QED BY <2>1, <2>2
<1>7. ASSUME NEW l \in N + 1..N + M, NEW j, Nearest(j, l)' PROVE Latest(j)
  <2>1. /\ j \in 1..l - 1 /\ Screens(down'[j]) /\ \A i \in j + 1..l - 1 : ~Screens(down'[i])
    BY <1>7 DEF Nearest, Screens
  <2>2. j \in 1..N
    <3>1. j \in 1..N \/ j \in N + 1..N + M  BY <1>1, <2>1
    <3> QED BY <1>3, <2>1, <3>1
  <2>3. \A i \in j + 1..N : i \in j + 1..l - 1 /\ i \in 1..N  BY <1>1, <2>2
  <2> QED BY <1>1, <1>4, <2>1, <2>2, <2>3
<1>8. ASSUME NEW l \in N + 1..N + M PROVE Screened(l)' <=> ~Unscreened
  <2>1. Screened(l)' <=> \E j \in 1..l - 1 : Screens(down'[j])  BY <1>1 DEF Screened, Screens
  <2>2. Unscreened <=> \A k \in 1..N : ~Screens(down[k])  BY DEF Unscreened, Indexes, N
  <2>3. \A j \in 1..N : j \in 1..l - 1  BY <1>1
  <2>4. \A j \in 1..l - 1 : j \in 1..N \/ j \in N + 1..N + M  BY <1>1
  <2> QED BY <1>1, <1>3, <2>1, <2>2, <2>3, <2>4
<1>9. \A i \in Int : i - N \in 1..M => i \in N + 1..N + M  BY <1>1
<1> QED BY <1>6, <1>7, <1>8, <1>9 DEF N, M

(* or the first of them does. *)
LEMMA ScreenAdded ==
  ASSUME Words, NEW more, Adds1(more), 1 \in 1..Len(more), Screens(more[1]),
         \A k \in 2..Len(more) : ~Screens(more[k])
  PROVE  /\ \A j : Latest(j)' <=> j = Len(down) + 1
         /\ ~Unscreened' /\ down'[Len(down) + 1] = more[1]
         /\ \A i \in Int : i - Len(down) \in 2..Len(more) => /\ \A j : Nearest(j, i)' => j = Len(down) + 1
                                                             /\ Screened(i)'
<1> DEFINE N == Len(down)
           M == Len(more)
<1>1. /\ N \in Nat /\ M \in Nat /\ Len(down') = N + M /\ M >= 1
      /\ \A k \in 1..M : down'[N + k] = more[k]
  BY Before
<1> HIDE DEF N, M
<1>2. \A k \in N + 2..N + M : k - N \in 2..M /\ k - N \in 1..M /\ N + (k - N) = k  BY <1>1
<1>3. \A k \in N + 2..N + M : ~Screens(down'[k])  BY <1>1, <1>2 DEF M
<1>4. Screens(down'[N + 1]) /\ down'[N + 1] = more[1] /\ N + 1 \in 1..N + M  BY <1>1
<1>5. \A j : Latest(j)' <=> j \in 1..N + M /\ Screens(down'[j])
                            /\ \A i \in j + 1..N + M : ~Screens(down'[i])
  BY <1>1 DEF Latest, Indexes, Screens
<1>6. ASSUME NEW j PROVE Latest(j)' <=> j = N + 1
  <2>1. CASE j = N + 1
    <3>1. N + 1 + 1 = N + 2  BY <1>1
    <3> QED BY <1>3, <1>4, <1>5, <2>1, <3>1
  <2>2. CASE j \in N + 2..N + M  BY <1>1, <1>3, <1>5, <2>2
  <2>3. CASE j \in 1..N
    <3>1. N + 1 \in j + 1..N + M  BY <1>1, <2>3
    <3> QED BY <1>1, <1>4, <1>5, <2>3, <3>1
  <2>4. CASE j \notin 1..N + M
    <3>1. j # N + 1  BY <1>4, <2>4
    <3> QED BY <1>5, <2>4, <3>1
  <2>5. j \in 1..N + M => j \in 1..N \/ j = N + 1 \/ j \in N + 2..N + M  BY <1>1
  <2> QED BY <2>1, <2>2, <2>3, <2>4, <2>5
<1>7. ~Unscreened'  BY <1>1, <1>4 DEF Unscreened, Indexes, Screens
<1>8. ASSUME NEW l \in N + 2..N + M, NEW j, Nearest(j, l)' PROVE j = N + 1
  <2>1. /\ j \in 1..l - 1 /\ Screens(down'[j]) /\ \A i \in j + 1..l - 1 : ~Screens(down'[i])
    BY <1>8 DEF Nearest, Screens
  <2>2. CASE j \in 1..N
    <3>1. N + 1 \in j + 1..l - 1  BY <1>1, <2>2
    <3> QED BY <1>4, <2>1, <3>1
  <2>3. CASE j \in N + 2..N + M  BY <1>3, <2>1, <2>3
  <2>4. j \in 1..N \/ j = N + 1 \/ j \in N + 2..N + M  BY <1>1, <2>1
  <2> QED BY <2>2, <2>3, <2>4
<1>9. ASSUME NEW l \in N + 2..N + M PROVE Screened(l)'
  <2>1. N + 1 \in 1..l - 1  BY <1>1
  <2> QED BY <1>4, <2>1 DEF Screened, Screens
<1>10. \A i \in Int : i - N \in 2..M => i \in N + 2..N + M  BY <1>1
<1> QED BY <1>4, <1>6, <1>7, <1>8, <1>9, <1>10 DEF N, M

LEMMA ChannelAdded ==
  ASSUME Words, Channel, NEW more, Adds1(more),
         \A i \in Int : i - Len(down) \in 1..Len(more) /\ Fills(more[i - Len(down)]) =>
           /\ \A j : Nearest(j, i)' => ScreenOf(down'[j]) = more[i - Len(down)].id
           /\ ~Screened(i)' => client.win \in {more[i - Len(down)].id, 0}
  PROVE  Channel'
<1> DEFINE N == Len(down)
           M == Len(more)
<1>1. /\ N \in Nat /\ M \in Nat /\ Len(down') = N + M
      /\ \A k \in 1..N : down'[k] = down[k]
      /\ \A k \in 1..M : down'[N + k] = more[k]
      /\ client' = client
  BY Before DEF Adds1
<1> HIDE DEF N, M
<1>2. ASSUME NEW k \in 1..N, Fills(down'[k])
      PROVE  /\ \A j : Nearest(j, k)' => ScreenOf(down'[j]) = down'[k].id
             /\ ~Screened(k)' => client'.win \in {down'[k].id, 0}
  <2>1. k \in 1..N + 1 /\ k \in Indexes(down)  BY <1>1 DEF Indexes, N
  <2>2. /\ Screened(k)' <=> Screened(k)
        /\ \A j : Nearest(j, k)' <=> Nearest(j, k)
    BY <2>1, BeforeSame DEF N
  <2>3. /\ \A j : Nearest(j, k) => ScreenOf(down[j]) = down[k].id
        /\ ~Screened(k) => client.win \in {down[k].id, 0}
    BY <1>1, <1>2, <2>1 DEF Channel
  <2>4. \A j : Nearest(j, k) => down'[j] = down[j]
    <3>1. \A j : Nearest(j, k) => j \in 1..N  BY <1>1 DEF Nearest
    <3> QED BY <1>1, <3>1
  <2> QED BY <1>1, <2>2, <2>3, <2>4
<1>3. ASSUME NEW k \in N + 1..N + M, Fills(down'[k])
      PROVE  /\ \A j : Nearest(j, k)' => ScreenOf(down'[j]) = down'[k].id
             /\ ~Screened(k)' => client'.win \in {down'[k].id, 0}
  <2>1. k \in Int /\ k - N \in 1..M /\ N + (k - N) = k  BY <1>1
  <2>2. down'[k] = more[k - N]  BY <1>1, <2>1
  <2> QED BY <1>1, <1>3, <2>1, <2>2 DEF N, M
<1>4. \A k \in 1..N + M : k \in 1..N \/ k \in N + 1..N + M  BY <1>1
<1>5. \A k \in 1..N + M : Fills(down'[k]) =>
        /\ \A j : Nearest(j, k)' => ScreenOf(down'[j]) = down'[k].id
        /\ ~Screened(k)' => client'.win \in {down'[k].id, 0}
  BY <1>2, <1>3, <1>4
<1> QED BY <1>1, <1>5 DEF Channel, Indexes, Fills, ScreenOf

-----------------------------------------------------------------------------
(* A menu that was announced goes: all there is is due, and the client is    *)
(* told that the screen is closed, unless it closed it itself.              *)
LEMMA MenuGone ==
  ASSUME Picture, open.id # 0, open'.id = 0, inv'.dirty.full, client' = client,
         \/ down' = down /\ Closing
         \/ \E m : m.type = "close" /\ down' = down \o <<m>>
  PROVE  Picture'
<1>1. \A p, n : Due(p, n)'  BY DEF Due, Whole
<1>2. Covered' /\ Heard' /\ Informed'
  <2>1. Covered'  BY <1>1 DEF Covered
  <2>2. Heard'  BY <1>1 DEF Heard
  <2> QED BY <2>1, <2>2 DEF Informed
<1>3. ~Closing' /\ Once'  BY DEF Closing, Once
<1>4. CASE down' = down /\ Closing
  <2>1. Words' /\ GoodClient(client') /\ Channel'  BY <1>4, Unmoved DEF Picture
  <2>2. Unscreened /\ Unscreened' /\ client.win = 0 /\ client.drag = NoDrag
    BY <1>4, Unmoved DEF Picture, Ends
  <2>3. \A j : ~Latest(j)'  BY <2>2 DEF Latest, Unscreened
  <2>4. Ends'  BY <1>3, <2>2, <2>3 DEF Ends
  <2>5. DragsMatch'  BY <2>2 DEF DragsMatch
  <2> QED BY <1>2, <1>3, <2>1, <2>4, <2>5 DEF Picture
<1>5. ASSUME NEW m, m.type = "close", down' = down \o <<m>> PROVE Picture'
  <2> DEFINE more == <<m>>
  <2>1. IsList(more) /\ Len(more) = 1 /\ more[1] = m  BY Single
  <2>2. \A k \in 1..1 : k = 1  OBVIOUS
  <2>3. down' = down \o more  BY <1>5
  <2> HIDE DEF more
  <2>4. Adds1(more)  BY <2>1, <2>3 DEF Adds1
  <2>5. Screens(m) /\ ScreenOf(m) = 0 /\ ~Fills(m) /\ GoodWord(m)
    BY <1>5 DEF Screens, ScreenOf, Fills, GoodWord
  <2>6. /\ \A k \in 1..Len(more) : k = 1 /\ GoodWord(more[k]) /\ ~Fills(more[k])
        /\ 1 \in 1..Len(more) /\ Screens(more[1]) /\ \A k \in 2..Len(more) : ~Screens(more[k])
    BY <2>1, <2>2, <2>5
  <2>7. Words' /\ GoodClient(client')  BY <2>4, <2>6, WordsAdded DEF Picture
  <2>8. Channel'
    <3>1. Words /\ Channel  BY DEF Picture
    <3> QED BY <2>4, <2>6, <3>1, ChannelAdded
  <2>9. /\ \A j : Latest(j)' <=> j = Len(down) + 1
        /\ ~Unscreened' /\ down'[Len(down) + 1] = m
    BY <2>1, <2>4, <2>6, ScreenAdded DEF Picture
  <2>10. Ends'
    <3>1. \A j : Latest(j)' => ScreenOf(down'[j]) = open'.id  BY <2>5, <2>9
    <3> QED BY <1>3, <2>9, <3>1 DEF Ends, ScreenOf
  <2>11. DragsMatch'  BY <2>9 DEF DragsMatch
  <2> QED BY <1>2, <1>3, <2>7, <2>8, <2>10, <2>11 DEF Picture
<1> QED BY <1>4, <1>5

-----------------------------------------------------------------------------
(* What game code does *)

(* All changes of slots are marked. *)
MenuFollows ==
  open.id # 0 =>
    /\ open.full => open'.full
    /\ open.marked \subseteq open'.marked
    /\ \A s \in 0..MenuSize - 1 : open'.slots[s] = open.slots[s] \/ s \in open'.marked

LEMMA FollowsMarks ==
  ASSUME Follows(inv, inv'), MenuFollows, open'.id = open.id, UNCHANGED <<client, down>>
  PROVE  Marks
<1>1. ASSUME NEW p, NEW n, OnShow(p, n)
      PROVE  Due(p, n)' \/ (~Due(p, n) /\ AtServer(p, n)' = AtServer(p, n))
  <2>1. Whole => Whole'  BY DEF Whole, Follows, MenuFollows
  <2>2. CASE p = "cursor"
    <3>1. inv.dirty.cursor => inv'.dirty.cursor  BY DEF Follows
    <3>2. inv'.cursor = inv.cursor \/ inv'.dirty.cursor  BY DEF Follows
    <3> QED BY <2>1, <2>2, <3>1, <3>2 DEF Due, AtServer
  <2>3. CASE p = "inv"
    <3>1. n \in 0..Size - 1  BY <1>1, <2>3 DEF OnShow
    <3>2. n \in inv.dirty.slots => n \in inv'.dirty.slots  BY DEF Follows
    <3>3. inv'.slots[n] = inv.slots[n] \/ n \in inv'.dirty.slots  BY <3>1 DEF Follows
    <3> QED BY <2>1, <2>3, <3>2, <3>3 DEF Due, AtServer
  <2>4. CASE p = "menu"
    <3>1. n \in 0..MenuSize - 1 /\ open.id # 0  BY <1>1, <2>4 DEF OnShow
    <3>2. n \in open.marked => n \in open'.marked  BY <3>1 DEF MenuFollows
    <3>3. open'.slots[n] = open.slots[n] \/ n \in open'.marked  BY <3>1 DEF MenuFollows
    <3> QED BY <2>1, <2>4, <3>2, <3>3 DEF Due, AtServer
  <2> QED BY <1>1, <2>2, <2>3, <2>4 DEF OnShow
<1> QED BY <1>1 DEF Marks

LEMMA RangesKeep ==
  ASSUME Ranges, phase' = phase, client' = client, up' = up, lastId' = lastId,
         GoodDirty(inv'), open'.gen # 0 => GoodMarks(open'), phase # "ingest"
  PROVE  Ranges'
<1>1. \A k : GoodRequest(k)' <=> GoodRequest(k)  BY DEF GoodRequest
<1>2. GoodDirty(inv)' /\ (IsOpen' => GoodMarks(open)')  BY DEF GoodDirty, GoodMarks, IsOpen
<1> QED BY <1>1, <1>2 DEF Ranges, Indexes

(* TakeStack, PickupItems *)
LEMMA InventoryEdited ==
  ASSUME Sizes, StoreInv, Ranges, Picture, NEW slots \in Slots(Size), inv' = SetSlots(inv, slots),
         UNCHANGED <<open, client, down, up, lastId, phase>>, phase # "ingest"
  PROVE  Ranges' /\ Picture'
<1>1. GoodInventory(inv) /\ GoodDirty(inv)  BY DEF StoreInv, Ranges
<1>2. Follows(inv, inv') /\ SlotsOnly(inv, inv')  BY <1>1, SettersMark
<1>3. MenuFollows  BY DEF MenuFollows
<1>4. Marks  BY <1>2, <1>3, FollowsMarks
<1>5. Due("cursor", 0)' <=> Due("cursor", 0)  BY <1>2 DEF SlotsOnly, Due, Whole
<1>6. /\ inv'.cursor = inv.cursor /\ ServerDrag' = ServerDrag /\ (ReadOnly' <=> ReadOnly)
      /\ StateId' = StateId
  BY <1>2 DEF SlotsOnly, Follows, ServerDrag, ReadOnly, StateId
<1>7. Edited  BY <1>4, <1>5, <1>6 DEF Edited
<1>8. Ranges'
  <2>1. GoodDirty(inv') /\ (open'.gen # 0 => GoodMarks(open'))  BY <1>2 DEF Follows, Ranges, IsOpen
  <2> QED BY <2>1, RangesKeep
<1> QED BY <1>7, <1>8, EditKeeps

LEMMA TakeSettles ==
  ASSUME Regular, StoreInv, Ranges, Picture, NEW i \in 0..Size - 1, TakeStack(i)
  PROVE  Ranges' /\ Picture'
<1> DEFINE after == [inv.slots EXCEPT ![i] = Empty]
<1>1. /\ inv' = SetSlots(inv, after) /\ UNCHANGED <<open, client, down, up, lastId, phase>>
      /\ phase # "ingest"
  BY DEF TakeStack, Edits, GameRuns, Regular
<1>2. after \in Slots(Size)
  <2>1. inv.slots \in Slots(Size)  BY DEF StoreInv, GoodInventory
  <2> QED BY <2>1, EmptyStack DEF Slots
<1> HIDE DEF after
<1>3. Sizes  BY DEF Regular
<1> QED BY <1>1, <1>2, <1>3, InventoryEdited

LEMMA PickupSettles ==
  ASSUME Regular, StoreInv, Ranges, Picture, NEW x \in Items, PickupItems(x)
  PROVE  Ranges' /\ Picture'
<1> DEFINE n == Least(thrown[x], MaxStack[x])
           stack == [item |-> x, count |-> n]
           given == Deposit(inv.slots, stack, GiveOrder)
<1>0. Sizes /\ StackSizes  BY DEF Regular
<1>1. /\ inv.slots \in Slots(Size) /\ thrown \in [Items -> Nat] /\ Size \in Nat
      /\ GoodInventory(inv) /\ GiveOrder \in Seq(0..Size - 1)
  BY <1>0, Geometry, Given DEF StoreInv, GoodInventory
<1>2. /\ n > 0 /\ inv' = SetSlots(inv, given.slots)
      /\ UNCHANGED <<open, client, down, up, lastId, phase>> /\ phase # "ingest"
  BY DEF PickupItems
<1>3. n \in Nat \ {0}  BY <1>0, <1>1, <1>2 DEF StackSizes, Least
<1> HIDE DEF n
<1>4. stack \in Stacks  BY <1>3 DEF Stacks
<1> HIDE DEF stack
<1>5. given.slots \in Slots(Size)  BY <1>0, <1>1, <1>4, DepositHolds
<1> HIDE DEF given
<1> QED BY <1>0, <1>2, <1>5, InventoryEdited

LEMMA EditSettles ==
  ASSUME Regular, MenuInv, StoreInv, Ranges, Picture, NEW s \in 0..MenuSize - 1,
         NEW stack, EditMenu(s, stack)
  PROVE  Ranges' /\ Picture'
<1> DEFINE after == [open.slots EXCEPT ![s] = stack]
           marked == IF open.slots[s] = stack THEN open.marked ELSE open.marked \cup {s}
<1>0. Sizes  BY DEF Regular
<1>1. /\ GoodMenu(open) /\ open.slots \in Slots(MenuSize) /\ open.gen # 0
      /\ UNCHANGED <<inv, client, down, up, lastId, phase>> /\ phase # "ingest"
      /\ Retitles = FALSE
  BY DEF StoreInv, IsOpen, EditMenu, GoodMenu, Edits, GameRuns, Regular
<1>2. open' = [open EXCEPT !.slots = after, !.title = Retitles, !.marked = marked]
  <2>1. open' = [open EXCEPT !.slots[s] = stack, !.title = Retitles,
                             !.marked = IF open.slots[s] = stack THEN @ ELSE @ \cup {s}]
    BY DEF EditMenu
  <2> QED BY <2>1
<1>3. GoodMarks(open) /\ GoodDirty(inv)  BY <1>1 DEF Ranges, IsOpen
<1>4. /\ \A t \in 0..MenuSize - 1 : after[t] = open.slots[t] \/ t \in marked
      /\ open.marked \subseteq marked /\ marked \subseteq 0..MenuSize - 1
  BY <1>1, <1>3 DEF Slots, GoodMarks
<1> HIDE DEF after, marked
<1>5. /\ open'.id = open.id /\ open'.gen = open.gen /\ open'.slots = after /\ open'.marked = marked
      /\ open'.full = open.full /\ open'.state = open.state /\ open'.drag = open.drag
      /\ open'.editable = open.editable /\ open'.title = FALSE
  BY <1>1, <1>2 DEF GoodMenu
<1>6. MenuFollows  BY <1>4, <1>5 DEF MenuFollows
<1>7. Follows(inv, inv')  BY <1>1, <1>3 DEF Follows
<1>8. Marks  BY <1>1, <1>5, <1>6, <1>7, FollowsMarks
<1>9. Due("cursor", 0)' <=> Due("cursor", 0)  BY <1>1, <1>5 DEF Due, Whole
<1>10. /\ inv'.cursor = inv.cursor /\ ServerDrag' = ServerDrag /\ (ReadOnly' <=> ReadOnly)
       /\ StateId' = StateId
  BY <1>1, <1>5 DEF ServerDrag, ReadOnly, StateId
<1>11. Edited  BY <1>1, <1>8, <1>9, <1>10 DEF Edited
<1>12. Ranges'
  <2>1. GoodMarks(open')  BY <1>3, <1>4, <1>5 DEF GoodMarks
  <2>2. GoodDirty(inv')  BY <1>1, <1>3
  <2> QED BY <1>1, <2>1, <2>2, RangesKeep
<1> QED BY <1>0, <1>11, <1>12, EditKeeps

-----------------------------------------------------------------------------
(* Menus that come and go *)
LEMMA NothingAdded == ASSUME IsList(down) PROVE down \o <<>> = down
<1>1. PICK S : down \in Seq(S)  BY DEF IsList
<1> QED BY <1>1

LEMMA NewMenuMarks ==
  ASSUME NEW slots, NEW editable
  PROVE  /\ GoodMarks(NewMenu(slots, editable)) /\ NewMenu(slots, editable).id = 0
         /\ Closed.id = 0 /\ Closed.gen = 0
<1> DEFINE o == NewMenu(slots, editable)
<1>1. o.id = 0 /\ o.state = 0 /\ o.marked = {} /\ o.full = TRUE /\ o.title = FALSE  BY DEF NewMenu
<1> HIDE DEF o
<1>2. 0 \in StateIds  BY DEF StateIds
<1>3. GoodMarks(o)  BY <1>1, <1>2 DEF GoodMarks
<1> QED BY <1>1, <1>3 DEF Closed, o

LEMMA GoneMarks ==
  ASSUME Regular, StoreInv, GoodDirty(inv), NEW reason, open.id # 0
  PROVE  GoodDirty(Gone(reason).inv) /\ Gone(reason).inv.dirty.full
<1> DEFINE g == Gone(reason)
           given == Deposit(inv.slots, inv.cursor, GiveOrder)
           j == SetSlots(inv, given.slots)
           k == [j EXCEPT !.cursor = Empty]
           l == CursorMarked(k)
<1>0. Sizes /\ StackSizes  BY DEF Regular
<1>1. /\ Size \in Nat /\ inv.slots \in Slots(Size) /\ inv.cursor \in Stacks /\ GiveOrder \in Seq(0..Size - 1)
      /\ GoodInventory(inv)
  BY <1>0, Geometry, Given DEF GoodInventory, StoreInv
<1>2. g.inv = Full(l)  BY DEF Gone
<1> HIDE DEF g
<1>3. given.slots \in Slots(Size)  BY <1>0, <1>1, DepositHolds
<1> HIDE DEF given
<1>4. GoodInventory(j) /\ GoodDirty(j)  BY <1>1, <1>3, SettersKeep, SettersMark DEF Follows
<1> HIDE DEF j
<1>5. GoodInventory(k) /\ k.dirty = j.dirty /\ k.state = j.state  BY <1>4, EmptyStack DEF GoodInventory
<1>6. GoodDirty(k)  BY <1>4, <1>5 DEF GoodDirty
<1> HIDE DEF k
<1>7. GoodInventory(l) /\ GoodDirty(l)  BY <1>5, <1>6, SettersKeep, SettersMark DEF Follows
<1> HIDE DEF l
<1>8. GoodDirty(Full(l)) /\ Full(l).dirty.full  BY <1>7, SettersMark DEF Follows
<1> QED BY <1>2, <1>8 DEF g

(* Before it is announced, a menu concerns no one. *)
LEMMA UnannouncedSettles ==
  ASSUME Regular, Ranges, Picture, open.id = 0, open'.id = 0, phase # "ingest",
         UNCHANGED <<inv, client, down, up, phase, lastId>>, open'.gen # 0 => GoodMarks(open')
  PROVE  Ranges' /\ Picture'
<1>0. Sizes  BY DEF Regular
<1>1. Marks  BY DEF Marks, OnShow, Due, Whole, AtServer
<1>2. Edited  BY <1>1 DEF Edited, Due, Whole, ServerDrag, ReadOnly, StateId
<1>3. Picture'  BY <1>0, <1>2, EditKeeps
<1>4. GoodDirty(inv')  BY DEF Ranges
<1> QED BY <1>3, <1>4, RangesKeep

LEMMA GoesSettles ==
  ASSUME Regular, MenuInv, StoreInv, Ranges, Picture, phase # "ingest", NEW reason,
         reason \notin {"client", "disconnect"}, IsOpen,
         inv' = Gone(reason).inv, down' = down \o Gone(reason).told,
         UNCHANGED <<client, up, phase, lastId>>, open'.id = 0, open'.gen # 0 => GoodMarks(open')
  PROVE  Ranges' /\ Picture'
<1>1. IsList(down) /\ GoodDirty(inv)  BY MenuShapes DEF Ranges
<1>2. CASE open.id = 0
  <2>1. inv' = inv /\ down' = down \o <<>>  BY <1>2 DEF Gone
  <2>2. down' = down  BY <1>1, <2>1, NothingAdded
  <2> QED BY <1>2, <2>1, <2>2, UnannouncedSettles
<1>3. CASE open.id # 0
  <2> DEFINE m == [type |-> "close", id |-> open.id]
  <2>1. down' = down \o <<m>>  BY <1>3 DEF Gone
  <2>2. m.type = "close"  OBVIOUS
  <2>3. GoodDirty(inv') /\ inv'.dirty.full  BY <1>1, <1>3, GoneMarks
  <2> HIDE DEF m
  <2>4. Picture'  BY <1>3, <2>1, <2>2, <2>3, MenuGone
  <2> QED BY <2>3, <2>4, RangesKeep
<1> QED BY <1>2, <1>3

LEMMA OpenSettles ==
  ASSUME Regular, MenuInv, StoreInv, Ranges, Picture, phase # "ingest", NEW slots, NEW editable,
         OpenIt(slots, editable), UNCHANGED <<client, up, phase, lastId>>
  PROVE  Ranges' /\ Picture'
<1>1. open'.id = 0 /\ GoodMarks(open')  BY NewMenuMarks DEF OpenIt
<1>2. CASE IsOpen
  <2>1. inv' = Gone("replaced").inv /\ down' = down \o Gone("replaced").told  BY <1>2 DEF OpenIt
  <2> QED BY <1>1, <1>2, <2>1, GoesSettles
<1>3. CASE ~IsOpen
  <2>1. UNCHANGED <<inv, down>>  BY <1>3 DEF OpenIt
  <2>2. open.id = 0  BY <1>3, MenuShapes DEF IsOpen
  <2> QED BY <1>1, <2>1, <2>2, UnannouncedSettles
<1> QED BY <1>2, <1>3

LEMMA CloseSettles ==
  ASSUME Regular, MenuInv, StoreInv, Ranges, Picture, phase # "ingest", CloseIt,
         UNCHANGED <<client, up, phase, lastId>>
  PROVE  Ranges' /\ Picture'
<1>1. /\ IsOpen /\ open'.id = 0 /\ open'.gen = 0
      /\ inv' = Gone("server").inv /\ down' = down \o Gone("server").told
  BY NewMenuMarks DEF CloseIt, Removal
<1> QED BY <1>1, GoesSettles

(* GameOpens, GameCloses *)
LEMMA GameSettles ==
  ASSUME Regular, MenuInv, StoreInv, Ranges, Picture, GameOpens \/ GameCloses
  PROVE  Ranges' /\ Picture'
<1>1. phase # "ingest" /\ UNCHANGED <<client, up, phase, lastId>>
  BY DEF GameOpens, GameCloses, GameRuns, Regular
<1>2. CASE \E slots \in Offers, editable \in BOOLEAN : OpenIt(slots, editable)
  BY <1>1, <1>2, OpenSettles
<1>3. CASE CloseIt  BY <1>1, <1>3, CloseSettles
<1> QED BY <1>2, <1>3 DEF GameOpens, GameCloses

-----------------------------------------------------------------------------
(* What the client does: it reads, *)
LEMMA ReadSettles == ASSUME Ranges, Picture, ClientReads PROVE Ranges' /\ Picture'
<1> DEFINE m == down[1]
           N == Len(down)
           K == 1..N - 1
<1>1. UNCHANGED <<phase, inv, open, up, lastId>>  BY DEF ClientReads
<1>2. /\ Words' /\ GoodClient(client') /\ Channel' /\ Stands(m)
      /\ down # <<>> /\ down' = Tail(down)
      /\ \A p, n, v : Part(p, n) /\ HeardAs(p, n, v) => HeardAs(p, n, v)'
  BY WordRemoved DEF Picture
<1>3. /\ 1 \in Indexes(down) /\ N \in Nat \ {0} /\ Len(down') = N - 1
      /\ \A k \in K : down'[k] = down[k + 1]
  BY <1>2, TailAt DEF Picture, Words
<1>4. Indexes(down') = K /\ Indexes(down) = 1..N /\ GoodWord(m)
  BY <1>3 DEF Indexes, Picture, Words
<1> HIDE DEF m, N, K
<1>5. /\ \A k \in K : k + 1 \in 2..N /\ k + 1 \in 1..N
      /\ \A k \in 2..N : k - 1 \in K /\ k - 1 + 1 = k
      /\ \A k \in 1..N : k = 1 \/ k \in 2..N
      /\ \A k \in 2..N : k \in 1..N
  BY <1>3 DEF K
<1>6. m = down[1] /\ 1 \in 1..N  BY <1>3, <1>4 DEF m
<1>7. Unscreened' <=> \A k \in 2..N : ~Screens(down[k])
  <2>1. Unscreened' <=> \A k \in K : ~Screens(down'[k])  BY <1>4 DEF Unscreened, Screens
  <2>2. (\A k \in K : ~Screens(down[k + 1])) <=> \A k \in 2..N : ~Screens(down[k])
    <3>1. ASSUME \A k \in K : ~Screens(down[k + 1]), NEW k \in 2..N PROVE ~Screens(down[k])
      <4>1. ~Screens(down[k - 1 + 1])  BY <1>5, <3>1
      <4> QED BY <1>5, <4>1
    <3> QED BY <1>5, <3>1
  <2> QED BY <1>3, <2>1, <2>2
<1>8. Unscreened <=> ~Screens(m) /\ Unscreened'
  <2>1. Unscreened <=> \A k \in 1..N : ~Screens(down[k])  BY <1>4 DEF Unscreened
  <2> QED BY <1>5, <1>6, <1>7, <2>1
<1>9. Screens(m) /\ Unscreened' => Latest(1)
  <2>1. Latest(1) <=> Screens(m) /\ \A i \in 2..N : ~Screens(down[i])
    <3>1. 1 + 1 = 2  OBVIOUS
    <3> QED BY <1>3, <1>6, <3>1 DEF Latest, N
  <2> QED BY <1>7, <2>1
<1>10. ASSUME NEW j, Latest(j)' PROVE j \in K /\ Latest(j + 1) /\ down'[j] = down[j + 1]
  <2>1. j \in K /\ Screens(down'[j]) /\ \A i \in j + 1..Len(down') : ~Screens(down'[i])
    BY <1>4, <1>10 DEF Latest, Screens
  <2>2. j \in Nat /\ j + 1 \in 1..N  BY <1>3, <1>5, <2>1 DEF K
  <2>3. ASSUME NEW i \in j + 1 + 1..N PROVE ~Screens(down[i])
    <3>1. i - 1 \in j + 1..Len(down') /\ i \in 2..N  BY <1>3, <2>2
    <3>2. ~Screens(down'[i - 1]) /\ i - 1 \in K /\ i - 1 + 1 = i  BY <1>5, <2>1, <3>1
    <3> QED BY <1>3, <3>2
  <2> QED BY <1>3, <1>4, <2>1, <2>2, <2>3 DEF Latest, N
<1>11. Closing' <=> Closing  BY <1>1 DEF Closing, Indexes
<1>12. Closing => Unscreened /\ client.win = 0 /\ client.drag = NoDrag  BY DEF Picture, Ends
<1>13. /\ client'.win = IF Screens(m) THEN ScreenOf(m) ELSE client.win
       /\ client'.drag = IF Screens(m) THEN NoDrag ELSE client.drag
  BY <1>2 DEF Stands
<1>14. Ends'
  <2>1. \A j : Latest(j)' => ScreenOf(down'[j]) = open'.id
    <3>1. \A j : Latest(j) => ScreenOf(down[j]) = open.id  BY DEF Picture, Ends
    <3> QED BY <1>1, <1>10, <3>1
  <2>2. ASSUME Unscreened' PROVE client'.win = open'.id \/ Closing'
    <3>1. CASE Screens(m)
      <4>1. ScreenOf(m) = open.id  BY <1>6, <1>9, <2>2, <3>1 DEF Picture, Ends
      <4> QED BY <1>1, <1>13, <3>1, <4>1
    <3>2. CASE ~Screens(m)
      <4>1. client.win = open.id \/ Closing  BY <1>8, <2>2, <3>2 DEF Picture, Ends
      <4> QED BY <1>1, <1>11, <1>13, <3>2, <4>1
    <3> QED BY <3>1, <3>2
  <2>3. Closing' => Unscreened' /\ client'.win = 0 /\ client'.drag = NoDrag
    BY <1>8, <1>11, <1>12, <1>13
  <2> QED BY <2>1, <2>2, <2>3 DEF Ends, ScreenOf
<1>15. Once'
  <2> SUFFICES ASSUME open.id # 0
               PROVE  /\ \A j, k \in K : Opens(j)' /\ Opens(k)' => j = k
                      /\ client'.win = open.id => \A k \in K : ~Opens(k)'
    BY <1>1, <1>4 DEF Once
  <2>1. \A k \in K : Opens(k)' <=> Opens(k + 1)  BY <1>1, <1>3 DEF Opens
  <2>2. /\ \A j, k \in 1..N : Opens(j) /\ Opens(k) => j = k
        /\ client.win = open.id => \A k \in 1..N : ~Opens(k)
    BY <1>4 DEF Picture, Once
  <2>3. ASSUME NEW j \in K, NEW k \in K, Opens(j)', Opens(k)' PROVE j = k
    <3>1. j + 1 = k + 1  BY <1>5, <2>1, <2>2, <2>3
    <3> QED BY <1>3, <3>1 DEF K
  <2>4. ASSUME client'.win = open.id, NEW k \in K PROVE ~Opens(k)'
    <3>1. CASE Screens(m)
      <4>1. Opens(1)
        <5>1. ScreenOf(m) = open.id  BY <1>13, <2>4, <3>1
        <5> QED BY <1>6, <5>1 DEF Opens, ScreenOf
      <4>2. k + 1 # 1 /\ k + 1 \in 1..N  BY <1>3, <1>5 DEF K
      <4> QED BY <1>6, <2>1, <2>2, <4>1, <4>2
    <3>2. CASE ~Screens(m)  BY <1>5, <1>13, <2>1, <2>2, <2>4, <3>2
    <3> QED BY <3>1, <3>2
  <2> QED BY <2>3, <2>4
<1>16. Covered'
  <2> SUFFICES ASSUME NEW j, Latest(j)', NEW p, NEW n, OnShow(p, n)'
               PROVE  Due(p, n)' \/ \E k \in j + 1..Len(down') : Names(down'[k], p, n)
    BY DEF Covered, Names
  <2>1. OnShow(p, n) /\ (Due(p, n)' <=> Due(p, n))  BY <1>1 DEF OnShow, Due, Whole
  <2>2. Latest(j + 1) /\ j \in K  BY <1>10
  <2>3. Due(p, n) \/ \E k \in j + 1 + 1..N : Names(down[k], p, n)
    BY <2>1, <2>2 DEF Picture, Covered, N
  <2>4. ASSUME NEW k \in j + 1 + 1..N, Names(down[k], p, n)
        PROVE  \E i \in j + 1..Len(down') : Names(down'[i], p, n)
    <3>1. j \in Nat  BY <1>3, <2>2 DEF K
    <3>2. k \in 2..N /\ k - 1 \in j + 1..Len(down')  BY <1>3, <3>1
    <3>3. down'[k - 1] = down[k]  BY <1>3, <1>5, <3>2
    <3> QED BY <2>4, <3>2, <3>3
  <2> QED BY <2>1, <2>3, <2>4
<1>17. Informed'
  <2>1. CASE Closing  BY <1>11, <2>1 DEF Informed
  <2>2. CASE Pending
    <3>1. ~Same  BY <1>2 DEF Same
    <3> QED BY <1>1, <2>2, <3>1 DEF Pending, Asked, StateId, Informed
  <2>3. CASE Heard
    <3>1. ASSUME NEW p, NEW n, OnShow(p, n)' PROVE Due(p, n)' \/ HeardAs(p, n, AtServer(p, n))'
      <4>1. OnShow(p, n) /\ (Due(p, n)' <=> Due(p, n)) /\ AtServer(p, n)' = AtServer(p, n)
        BY <1>1, <3>1 DEF OnShow, Due, Whole, AtServer
      <4>2. Part(p, n)  BY <4>1 DEF OnShow, Part
      <4> DEFINE v == AtServer(p, n)
      <4>3. Due(p, n) \/ HeardAs(p, n, v)  BY <2>3, <4>1 DEF Heard
      <4>4. ASSUME NEW w, w = v, HeardAs(p, n, w) PROVE HeardAs(p, n, v)'
        <5>1. HeardAs(p, n, w)'  BY <1>2, <4>2, <4>4
        <5>2. v' = w  BY <4>1, <4>4
        <5> HIDE DEF v
        <5> QED BY <5>1, <5>2 DEF HeardAs
      <4> QED BY <4>1, <4>3, <4>4
    <3> QED BY <3>1 DEF Heard, Informed
  <2> QED BY <2>1, <2>2, <2>3 DEF Picture, Informed
<1>18. DragsMatch'
  <2>1. CASE Screens(m)  BY <1>13, <2>1 DEF DragsMatch
  <2>2. CASE ~Screens(m)
    <3>1. /\ (ReadOnly' <=> ReadOnly) /\ (Asked' <=> Asked)
          /\ ServerDrag' = ServerDrag /\ WinSize' = WinSize
      BY <1>1 DEF ReadOnly, Asked, ServerDrag, WinSize
    <3> QED BY <1>1, <1>8, <1>13, <2>2, <3>1 DEF Picture, DragsMatch
  <2> QED BY <2>1, <2>2
<1>19. Ranges'
  <2>1. \A k : GoodRequest(k)' <=> GoodRequest(k)  BY <1>1 DEF GoodRequest
  <2>2. GoodDirty(inv)' /\ (IsOpen' => GoodMarks(open)')  BY <1>1 DEF Ranges, GoodDirty, GoodMarks, IsOpen
  <2>3. client'.drag \in Drags(IF client'.win = 0 THEN Size ELSE MenuWindow)
    <3>1. \A n : NoDrag \in Drags(n)  BY DEF NoDrag, Drags
    <3> QED BY <1>13, <3>1 DEF Ranges
  <2> QED BY <1>1, <2>1, <2>2, <2>3 DEF Ranges, Indexes, IsOpen
<1> QED BY <1>2, <1>14, <1>15, <1>16, <1>17, <1>18, <1>19 DEF Picture

-----------------------------------------------------------------------------
LEMMA RequestSent ==
  ASSUME IsList(up), NEW m, up' = Append(up, m)
  PROVE  /\ Len(up) \in Nat /\ Len(up') = Len(up) + 1 /\ up'[Len(up) + 1] = m
         /\ \A k \in Indexes(up) : up'[k] = up[k]
         /\ up # <<>> => up' # <<>> /\ up'[1] = up[1]
         /\ up = <<>> => up' # <<>> /\ up'[1] = m
         /\ Indexes(up') = Indexes(up) \cup {Len(up) + 1}
<1>1. PICK S : up \in Seq(S)  BY DEF IsList
<1> DEFINE T == S \cup {m}
<1>2. up \in Seq(T) /\ m \in T  BY <1>1
<1> HIDE DEF T
<1>3. Len(up') = Len(up) + 1 /\ up'[Len(up) + 1] = m /\ Len(up) \in Nat
      /\ \A k \in 1..Len(up) : up'[k] = up[k]
  BY <1>2
<1>4. up = <<>> => Len(up) = 0  OBVIOUS
<1>5. up # <<>> => 1 \in 1..Len(up)  BY <1>2
<1>6. up' # <<>>  BY <1>3
<1>7. 1..Len(up) + 1 = 1..Len(up) \cup {Len(up) + 1}  BY <1>3
<1> QED BY <1>3, <1>4, <1>5, <1>6, <1>7 DEF Indexes

(* it closes its window, *)
LEMMA ClosingSettles ==
  ASSUME Ranges, Picture, MenuInv, SightInv, ClientCloses PROVE Ranges' /\ Picture'
<1> DEFINE m == [type |-> "close", id |-> client.win]
<1>1. /\ UNCHANGED <<phase, inv, open, lastId, down>> /\ client.win # 0
      /\ up' = Append(up, m)
      /\ client' = [client EXCEPT !.win = 0, !.gen = 0, !.menu = <<>>, !.cursor = Empty, !.drag = NoDrag]
  BY DEF ClientCloses
<1>2. m.type = "close" /\ m.id = client.win  OBVIOUS
<1> HIDE DEF m
<1>3. /\ Len(up) \in Nat /\ up'[Len(up) + 1] = m
      /\ \A k \in Indexes(up) : up'[k] = up[k]
      /\ up # <<>> => up' # <<>> /\ up'[1] = up[1]
      /\ Indexes(up') = Indexes(up) \cup {Len(up) + 1}
  BY <1>1, RequestSent DEF SightInv, Lists
<1>4. /\ client'.win = 0 /\ client'.drag = NoDrag /\ GoodClient(client')
  BY <1>1 DEF Picture, GoodClient
<1>5. ~Closing /\ (Closing' <=> client.win = open.id)
  <2>1. ~Closing  BY <1>1 DEF Picture, Ends
  <2>2. Closing' <=> open.id # 0 /\ \E k \in Indexes(up') : up'[k].type = "close" /\ up'[k].id = open.id
    BY <1>1 DEF Closing
  <2>3. ASSUME NEW k \in Indexes(up), up'[k].type = "close", up'[k].id = open.id PROVE open.id = 0
    BY <1>3, <2>1, <2>3 DEF Closing
  <2> QED BY <1>1, <1>2, <1>3, <2>1, <2>2, <2>3
<1>6. client.win = open.id => Unscreened
  <2> SUFFICES ASSUME client.win = open.id, ~Unscreened PROVE FALSE  OBVIOUS
  <2>1. PICK j : Latest(j)  BY LastScreen DEF Picture
  <2>2. j \in Indexes(down) /\ Screens(down[j]) /\ ScreenOf(down[j]) = open.id
    BY <2>1 DEF Latest, Picture, Ends
  <2>3. Opens(j)  BY <1>1, <2>2 DEF Opens, ScreenOf
  <2> QED BY <1>1, <2>2, <2>3 DEF Picture, Once
<1>7. Unscreened => client.win = open.id  BY <1>5 DEF Picture, Ends
<1>8. /\ Unscreened' <=> Unscreened
      /\ \A j : Latest(j)' <=> Latest(j)
      /\ \A k : Screened(k)' <=> Screened(k)
      /\ \A p, n : (OnShow(p, n)' <=> OnShow(p, n)) /\ (Due(p, n)' <=> Due(p, n))
                   /\ AtServer(p, n)' = AtServer(p, n)
  BY <1>1 DEF Unscreened, Latest, Indexes, Screened, OnShow, Due, Whole, AtServer
<1>9. Words'  BY <1>1 DEF Picture, Words, Indexes
<1>10. Channel'  BY <1>1, <1>4, <1>8 DEF Picture, Channel, Nearest, Indexes
<1>11. Once'  BY <1>1, <1>4 DEF Picture, Once, Opens, Indexes
<1>12. Covered'
  <2> SUFFICES ASSUME NEW j, Latest(j)', NEW p, NEW n, OnShow(p, n)'
               PROVE  Due(p, n)' \/ \E k \in j + 1..Len(down') : Names(down'[k], p, n)
    BY DEF Covered, Names
  <2> QED BY <1>1, <1>8 DEF Picture, Covered
<1>13. Ends'
  <2>1. \A j : Latest(j)' => ScreenOf(down'[j]) = open'.id  BY <1>1, <1>8 DEF Picture, Ends
  <2> QED BY <1>4, <1>5, <1>6, <1>7, <1>8, <2>1 DEF Ends, ScreenOf
<1>14. DragsMatch'  BY <1>4 DEF DragsMatch
<1>15. Informed'
  <2>1. CASE client.win = open.id  BY <1>5, <2>1 DEF Informed
  <2>2. CASE client.win # open.id /\ Pending
    <3>1. up[1].state # StateId /\ Asked  BY <2>2 DEF Pending, Same
    <3>2. Asked' /\ up'[1].state # StateId'  BY <1>1, <1>3, <3>1 DEF Asked, StateId
    <3> QED BY <3>2 DEF Informed, Pending
  <2>3. CASE client.win # open.id /\ Heard
    <3>1. ~Unscreened  BY <1>7, <2>3
    <3>2. PICK j : Latest(j)  BY <3>1, LastScreen DEF Picture
    <3>3. j \in Indexes(down) /\ Screens(down[j]) /\ Len(down) \in Nat
      <4>1. PICK S : down \in Seq(S)  BY DEF Picture, Words, IsList
      <4> QED BY <3>2, <4>1 DEF Latest
    <3>4. \A k \in j + 1..Len(down) : Screened(k)
      <4>1. \A k \in j + 1..Len(down) : j \in 1..k - 1  BY <3>3 DEF Indexes
      <4> QED BY <3>3, <4>1 DEF Screened
    <3>5. ASSUME NEW p, NEW n, OnShow(p, n)' PROVE Due(p, n)' \/ HeardAs(p, n, AtServer(p, n))'
      <4> SUFFICES ASSUME ~Due(p, n)' PROVE HeardAs(p, n, AtServer(p, n))'  OBVIOUS
      <4> DEFINE v == AtServer(p, n)
      <4>1. OnShow(p, n) /\ ~Due(p, n) /\ v' = v  BY <1>8, <3>5
      <4>2. HeardAs(p, n, v)  BY <2>3, <4>1 DEF Heard
      <4>3. PICK i \in j + 1..Len(down) : Names(down[i], p, n)  BY <3>2, <4>1 DEF Picture, Covered
      <4> HIDE DEF v
      <4>4. ASSUME NEW k \in j + 1..Len(down) PROVE Speaks(k, p, n)' <=> Speaks(k, p, n)
        <5>1. Heeded(k) /\ Heeded(k)'  BY <1>1, <1>8, <3>4 DEF Heeded
        <5> QED BY <1>1, <5>1 DEF Speaks, Names
      <4>5. Speaks(i, p, n)
        <5>1. Heeded(i)  BY <3>4 DEF Heeded
        <5> QED BY <4>3, <5>1 DEF Speaks
      <4>6. i \in Indexes(down)  BY <3>3 DEF Indexes
      <4>7. ASSUME NEW k \in Indexes(down), Speaks(k, p, n)',
                   \A l \in k + 1..Len(down) : ~Speaks(l, p, n)'
            PROVE  Says(down[k], p, n) = v
        <5>1. i \notin k + 1..Len(down)  BY <4>4, <4>5, <4>7
        <5>2. k \in j + 1..Len(down)  BY <3>3, <5>1 DEF Indexes
        <5>3. \A l \in k + 1..Len(down) : l \in j + 1..Len(down)  BY <3>3, <5>2 DEF Indexes
        <5> QED BY <4>2, <4>4, <4>7, <5>2, <5>3 DEF HeardAs
      <4>8. ~\A k \in Indexes(down) : ~Speaks(k, p, n)'  BY <4>4, <4>5, <4>6
      <4>9. \A k : Says(down[k], p, n)' = Says(down[k], p, n)  BY <1>1 DEF Says
      <4>10. Indexes(down)' = Indexes(down) /\ Len(down') = Len(down)  BY <1>1 DEF Indexes
      <4>11. HeardAs(p, n, v)'  BY <4>1, <4>7, <4>8, <4>9, <4>10 DEF HeardAs
      <4> QED BY <4>11 DEF v
    <3> QED BY <3>5 DEF Heard, Informed
  <2> QED BY <1>5, <2>1, <2>2, <2>3 DEF Picture, Informed
<1>16. Ranges'
  <2>1. ASSUME NEW k \in Indexes(up') PROVE GoodRequest(k)'
    <3>1. CASE k \in Indexes(up)
      <4>1. GoodRequest(k) /\ up'[k] = up[k]  BY <1>3, <3>1 DEF Ranges
      <4> QED BY <1>1, <4>1 DEF GoodRequest
    <3>2. CASE k = Len(up) + 1
      <4>1. Sighted(client.win, client.gen)  BY <1>1 DEF Sighted
      <4>2. client.win \in 1..lastId  BY <4>1 DEF SightInv, Sights
      <4> QED BY <1>1, <1>2, <1>3, <3>2, <4>2 DEF GoodRequest
    <3> QED BY <1>3, <3>1, <3>2
  <2>2. client'.drag \in Drags(Size)  BY <1>4 DEF NoDrag, Drags
  <2>3. GoodDirty(inv)' /\ (IsOpen' => GoodMarks(open)')
    BY <1>1 DEF Ranges, GoodDirty, GoodMarks, IsOpen
  <2> QED BY <1>1, <1>4, <2>1, <2>2, <2>3 DEF Ranges, IsOpen
<1> QED BY <1>4, <1>9, <1>10, <1>11, <1>12, <1>13, <1>14, <1>15, <1>16 DEF Picture

-----------------------------------------------------------------------------
(* and it clicks, when it has heard everything. *)
LEMMA ClickSettles ==
  ASSUME Regular, MenuInv, SightInv, StoreInv, Ranges, Picture, NEW click, ClientClicks(click), Waits
  PROVE  Ranges' /\ Picture'
<1> DEFINE menu == client.win # 0
           before == [slots |-> Shown, cursor |-> client.cursor, drag |-> client.drag]
           after == ApplyClick(before, IF menu THEN MenuLayout ELSE PlayerLayout, Creative, click)
           m == [type |-> "click", id |-> client.win, gen |-> client.gen,
                 state |-> IF menu THEN client.state.menu ELSE client.state.inventory,
                 click |-> click, changed |-> Differ(after.slots, Shown)]
<1>0. Sizes /\ StackSizes /\ ~Creative  BY DEF Regular
<1>1. /\ UNCHANGED <<phase, inv, open, lastId, down>> /\ phase = "ingest"
      /\ up' = Append(up, m)
  BY Zenon DEF ClientClicks
<1>2. client' = [client EXCEPT
          !.cursor = after.cursor, !.drag = after.drag,
          !.menu = IF menu THEN [s \in DOMAIN @ |-> after.slots[s]] ELSE @,
          !.inv = IF ~menu THEN after.slots
                  ELSE [i \in DOMAIN @ |-> IF i \in Visible THEN after.slots[i - Gear + MenuSize]
                                           ELSE @[i]]]
  BY Zenon DEF ClientClicks
<1>3. m.type = "click" /\ m.id = client.win /\ m.click = click /\ m.changed = Differ(after.slots, Shown)
  OBVIOUS
<1>4. before.slots = Shown /\ before.cursor = client.cursor /\ before.drag = client.drag  OBVIOUS
<1> HIDE DEF m
<1>5. /\ Len(up) \in Nat /\ Len(up') = Len(up) + 1 /\ up'[Len(up) + 1] = m
      /\ up = <<>> => up' # <<>> /\ up'[1] = m
      /\ Indexes(up') = Indexes(up) \cup {Len(up) + 1}
  BY <1>1, RequestSent DEF SightInv, Lists
<1>6. up = <<>> /\ down = <<>> /\ Unmarked  BY <1>3, <1>5 DEF Waits, Clicked
<1>7. up'[1] = m /\ up' # <<>> /\ Indexes(up') = {1} /\ Indexes(down) = {}
  <2>1. Len(up) = 0  BY <1>6
  <2> QED BY <1>5, <1>6, <2>1, Nothing
<1>8. /\ ~Closing /\ ~Asked /\ Unscreened /\ client.win = open.id /\ (IsOpen <=> open.id # 0)
      /\ \A p, n : OnShow(p, n) => ~Due(p, n) /\ AtClient(p, n) = AtServer(p, n)
  BY <1>1, <1>6, AllTold
<1>9. client.cursor = inv.cursor /\ Shown = IF IsOpen THEN WindowOf(open.slots, inv.slots) ELSE inv.slots
  <2>1. Settled
    <3>1. SettleInv  BY DEF SettleInv
    <3> QED BY <1>0, <3>1, InvSettles
  <2> QED BY <1>1, <1>6, <2>1 DEF Settled
<1>10. GoodInventory(inv) /\ (open.id # 0 => GoodMenu(open))  BY <1>8 DEF StoreInv
<1>11. /\ MenuWindow \in Nat /\ Extra \in Nat /\ MenuWindow = MenuSize + Extra /\ Size \in Nat
       /\ Gear + Extra <= Size /\ Visible = Gear..Gear + Extra - 1 /\ Gear \in Nat /\ MenuSize \in Nat
       /\ PlayerLayout \in Layouts(Size) /\ MenuLayout \in Layouts(MenuWindow)
  BY <1>0, Geometry DEF Sizes
<1>12. WinSize \in Nat /\ WinLayout \in Layouts(WinSize)  BY <1>0, InWindow
<1>13. Shown \in Slots(WinSize)
  <2>1. CASE open.id = 0  BY <1>8, <1>9, <1>10, <2>1 DEF WinSize, GoodInventory
  <2>2. CASE open.id # 0
    <3>1. open.slots \in Slots(MenuSize) /\ inv.slots \in Slots(Size)
      BY <1>10, <2>2 DEF GoodMenu, GoodInventory
    <3> QED BY <1>0, <1>8, <1>9, <2>2, <3>1, WindowCounts DEF WinSize
  <2> QED BY <2>1, <2>2
<1>14. client.drag \in Drags(WinSize) /\ inv.cursor \in Stacks
  BY <1>8, <1>10 DEF Ranges, WinSize, GoodInventory
<1>15. WinLayout = IF menu THEN MenuLayout ELSE PlayerLayout  BY <1>8 DEF WinLayout
<1>16. after = ApplyClick(before, WinLayout, Creative, click)  BY <1>15, Zenon
<1> HIDE DEF before, menu, after
<1>17. after \in Windows(WinSize) /\ after.drag = NextDrag(WinSize, client.drag, click)
  BY <1>0, <1>4, <1>9, <1>12, <1>13, <1>14, <1>16, ClickKeeps, ClickDrags
<1>18. after.slots \in Slots(WinSize) /\ after.drag \in Drags(WinSize)  BY <1>12, <1>17, WindowFacts
<1>19. DOMAIN after.slots = 0..WinSize - 1 /\ DOMAIN Shown = 0..WinSize - 1  BY <1>13, <1>18 DEF Slots
<1>20. /\ client = [win |-> client.win, gen |-> client.gen, inv |-> client.inv, menu |-> client.menu,
                    cursor |-> client.cursor, drag |-> client.drag, state |-> client.state]
       /\ client.inv = [i \in 0..Size - 1 |-> client.inv[i]]
       /\ client.win # 0 => client.menu = [s \in 0..MenuSize - 1 |-> client.menu[s]]
  BY DEF Picture, GoodClient
<1>21. /\ client'.win = open.id /\ client'.cursor = after.cursor /\ client'.drag = after.drag
       /\ client' = [win |-> client'.win, gen |-> client'.gen, inv |-> client'.inv, menu |-> client'.menu,
                     cursor |-> client'.cursor, drag |-> client'.drag, state |-> client'.state]
       /\ client'.menu = IF menu THEN [s \in DOMAIN client.menu |-> after.slots[s]] ELSE client.menu
       /\ client'.inv = IF ~menu THEN after.slots
                        ELSE [i \in DOMAIN client.inv |-> IF i \in Visible THEN after.slots[i - Gear + MenuSize]
                                                          ELSE client.inv[i]]
  BY <1>2, <1>8, <1>20
<1>22. menu <=> open.id # 0  BY <1>8 DEF menu
<1>23. DOMAIN client.inv = 0..Size - 1 /\ (open.id # 0 => DOMAIN client.menu = 0..MenuSize - 1)
  BY <1>8, <1>20
<1>24. GoodClient(client')
  <2>1. open.id = 0 => client'.inv = [i \in 0..Size - 1 |-> client'.inv[i]]
    BY <1>18, <1>21, <1>22 DEF WinSize, Slots
  <2>2. open.id # 0 => client'.inv = [i \in 0..Size - 1 |-> client'.inv[i]]
    BY <1>21, <1>22, <1>23
  <2>3. open.id # 0 => client'.menu = [s \in 0..MenuSize - 1 |-> client'.menu[s]]
    BY <1>21, <1>22, <1>23
  <2> QED BY <1>21, <2>1, <2>2, <2>3 DEF GoodClient
<1>25. client.drag \in {NoDrag, ServerDrag} \/ ReadOnly  BY <1>8 DEF Picture, DragsMatch
<1>26. /\ WinSize' = WinSize /\ WinLayout' = WinLayout /\ ServerDrag' = ServerDrag /\ (ReadOnly' <=> ReadOnly)
       /\ \A s : Where(s)' = Where(s) /\ Which(s)' = Which(s)
       /\ \A p, n : (Due(p, n)' <=> Due(p, n)) /\ AtServer(p, n)' = AtServer(p, n)
                    /\ (OnShow(p, n)' <=> OnShow(p, n))
  BY <1>1 DEF WinSize, WinLayout, ServerDrag, ReadOnly, Where, Which, Due, Whole, AtServer, OnShow
<1>27. Asked' /\ ~Closing'  BY <1>1, <1>3, <1>7, <1>8 DEF Asked, Closing
<1>29. \A slots, drag : Made(slots, drag)' = ApplyClick([slots |-> slots, cursor |-> inv.cursor, drag |-> drag],
                                              WinLayout, Creative, click)
  BY <1>1, <1>3, <1>7, <1>26 DEF Made
<1>30. \A slots \in {Shown}, drag \in {client.drag} : Made(slots, drag)' = after
  BY <1>9, <1>16, <1>29 DEF before
<1> DEFINE S == Shown
           D == client.drag
<1>31. ASSUME NEW s \in 0..WinSize - 1
       PROVE  /\ S[s] = AtServer(Where(s), Which(s))
              /\ AtClient(Where(s), Which(s))' = after.slots[s]
  <2>1. CASE open.id = 0
    <3>1. Where(s) = "inv" /\ Which(s) = s  BY <2>1 DEF Where, Which
    <3> QED BY <1>8, <1>9, <1>21, <1>22, <1>26, <2>1, <3>1 DEF AtServer, AtClient
  <2>2. CASE open.id # 0 /\ s < MenuSize
    <3>1. Where(s) = "menu" /\ Which(s) = s /\ s \in 0..MenuSize - 1 /\ s \in 0..MenuWindow - 1
      BY <1>11, <2>2 DEF Where, Which, WinSize
    <3>2. S[s] = open.slots[s]  BY <1>8, <1>9, <2>2, <3>1 DEF WindowOf
    <3>3. client'.menu[s] = after.slots[s]  BY <1>21, <1>22, <1>23, <2>2, <3>1
    <3> QED BY <1>21, <1>26, <2>2, <3>1, <3>2, <3>3 DEF AtServer, AtClient
  <2>3. CASE open.id # 0 /\ ~(s < MenuSize)
    <3>1. /\ Where(s) = "inv" /\ Which(s) = InInventory(s) /\ s \in 0..MenuWindow - 1
          /\ InInventory(s) \in Visible /\ InInventory(s) \in 0..Size - 1
          /\ InInventory(s) - Gear + MenuSize = s
      BY <1>11, <2>3 DEF Where, Which, WinSize, InInventory
    <3>2. S[s] = inv.slots[InInventory(s)]  BY <1>8, <1>9, <2>3, <3>1 DEF WindowOf
    <3>3. client'.inv[InInventory(s)] = after.slots[s]  BY <1>21, <1>22, <1>23, <2>3, <3>1
    <3> QED BY <1>21, <1>26, <2>3, <3>1, <3>2, <3>3 DEF AtServer, AtClient
  <2> QED BY <2>1, <2>2, <2>3
<1>32. Same'
  <2> SUFFICES ASSUME NEW slots, slots = Shown, NEW drag, drag = client.drag PROVE Same'
    OBVIOUS
  <2>1. slots \in Slots(WinSize)' /\ drag \in Drags(WinSize)'
    BY <1>13, <1>14, <1>26 DEF Slots, Drags
  <2>2. Made(slots, drag)' = after  BY <1>30
  <2>3. Foresees(slots, drag)'
    BY <1>3, <1>7, <1>21, <1>25, <1>26, <1>31, <2>2 DEF Foresees
  <2>4. OnShow("cursor", 0)  BY DEF OnShow
  <2> QED BY <1>1, <1>6, <1>8, <1>21, <1>26, <2>1, <2>3, <2>4 DEF Same
<1>33. Informed'  BY <1>27, <1>32 DEF Informed, Pending
<1>34. down' = <<>> /\ Indexes(down') = {}  BY <1>1, <1>6, <1>7
<1>35. Words' /\ Channel' /\ Once' /\ Covered' /\ \A j : ~Latest(j)'
  <2>1. Words'  BY <1>34, Nothing DEF Words
  <2>2. Channel'  BY <1>34 DEF Channel
  <2>3. Once'  BY <1>34 DEF Once
  <2>4. \A j : ~Latest(j)'  BY <1>34 DEF Latest
  <2>5. Covered'  BY <2>4 DEF Covered
  <2> QED BY <2>1, <2>2, <2>3, <2>4, <2>5
<1>36. Ends'  BY <1>1, <1>21, <1>27, <1>35 DEF Ends
<1>37. DragsMatch'
  <2>1. NextDrag(WinSize, NoDrag, click) \in {NoDrag, NextDrag(WinSize, ServerDrag, click)}
    BY DragsAgree
  <2>2. client'.drag # NoDrag /\ ~ReadOnly => client'.drag = NextDrag(WinSize, ServerDrag, click)
    BY <1>17, <1>21, <1>25, <2>1
  <2>3. NextDrag(WinSize, ServerDrag, up[1].click)' = NextDrag(WinSize, ServerDrag, click)
    BY <1>3, <1>7, <1>26 DEF NextDrag
  <2> QED BY <1>26, <1>27, <2>2, <2>3 DEF DragsMatch
<1>38. Ranges'
  <2>1. GoodRequest(1)'
    <3>1. m.changed \subseteq 0..WinSize - 1  BY <1>3, <1>19 DEF Differ
    <3>2. WinSize = IF m.id # 0 THEN MenuWindow ELSE Size  BY <1>3, <1>8 DEF WinSize
    <3> QED BY <1>3, <1>7, <3>1, <3>2 DEF GoodRequest
  <2>2. \A k \in Indexes(up') : k = 1  BY <1>7
  <2>3. client'.drag \in Drags(IF client'.win = 0 THEN Size ELSE MenuWindow)
    BY <1>18, <1>21 DEF WinSize
  <2>4. GoodDirty(inv)' /\ (IsOpen' => GoodMarks(open)')
    BY <1>1 DEF Ranges, GoodDirty, GoodMarks, IsOpen
  <2> QED BY <1>1, <2>1, <2>2, <2>3, <2>4 DEF Ranges, IsOpen
<1> QED BY <1>24, <1>33, <1>35, <1>36, <1>37, <1>38 DEF Picture

-----------------------------------------------------------------------------
(* What the server reads *)
LEMMA RequestTaken ==
  ASSUME Ranges, SightInv, up # <<>>, up' = Tail(up), lastId' = lastId
  PROVE  /\ Head(up) = up[1] /\ GoodRequest(1) /\ ~Asked'
         /\ \A k \in Indexes(up') : GoodRequest(k)'
         /\ open'.id = open.id /\ ~(up[1].type = "close" /\ up[1].id = open.id) => (Closing' <=> Closing)
         /\ up[1].type = "close" /\ up[1].id = open.id /\ open.id # 0 => Closing
<1>1. PICK S : up \in Seq(S)  BY DEF SightInv, Lists, IsList
<1>2. /\ Head(up) = up[1] /\ 1 \in Indexes(up) /\ Len(up) \in Nat /\ Len(up') = Len(up) - 1
      /\ \A k \in 1..Len(up) - 1 : up'[k] = up[k + 1]
  BY <1>1 DEF Indexes
<1>3. GoodRequest(1)  BY <1>2 DEF Ranges
<1>4. ASSUME NEW k \in Indexes(up')
      PROVE  /\ up'[k] = up[k + 1] /\ k + 1 \in Indexes(up)
             /\ up[k + 1].type = "close" /\ up[k + 1].id \in 1..lastId
  <2>1. up'[k] = up[k + 1] /\ k + 1 \in Indexes(up) /\ k + 1 # 1  BY <1>2 DEF Indexes
  <2> QED BY <2>1 DEF Ranges, GoodRequest
<1>5. \A k \in Indexes(up') : GoodRequest(k)'  BY <1>4 DEF GoodRequest
<1>6. ~Asked'
  <2>1. up' # <<>> => 1 \in Indexes(up')  BY <1>1 DEF Indexes
  <2>2. "click" # "close"  OBVIOUS
  <2> QED BY <1>4, <2>1, <2>2 DEF Asked
<1>7. ASSUME open'.id = open.id, ~(up[1].type = "close" /\ up[1].id = open.id)
      PROVE  Closing' <=> Closing
  <2>1. ASSUME Closing PROVE Closing'
    <3>1. PICK k \in Indexes(up) : up[k].type = "close" /\ up[k].id = open.id  BY <2>1 DEF Closing
    <3>2. k # 1  BY <1>7, <3>1
    <3>3. k - 1 \in Indexes(up') /\ up'[k - 1] = up[k]  BY <1>2, <3>1, <3>2 DEF Indexes
    <3> QED BY <1>7, <2>1, <3>1, <3>3 DEF Closing
  <2>2. ASSUME Closing' PROVE Closing
    <3>1. PICK k \in Indexes(up') : up'[k].type = "close" /\ up'[k].id = open.id
      BY <1>7, <2>2 DEF Closing
    <3> QED BY <1>4, <1>7, <2>2, <3>1 DEF Closing
  <2> QED BY <2>1, <2>2
<1>8. up[1].type = "close" /\ up[1].id = open.id /\ open.id # 0 => Closing
  BY <1>2 DEF Closing
<1> QED BY <1>2, <1>3, <1>5, <1>6, <1>7, <1>8

LEMMA IgnoreSettles == ASSUME MenuInv, SightInv, Ranges, Picture, IgnoreClick PROVE Ranges' /\ Picture'
<1>1. /\ UNCHANGED <<phase, inv, open, lastId, client, down>> /\ phase = "ingest"
      /\ up # <<>> /\ up' = Tail(up) /\ Head(up).type = "click"
      /\ IF Head(up).id = 0 THEN IsOpen ELSE open.id # Head(up).id
  BY DEF IgnoreClick
<1>2. Head(up) = up[1] /\ ~Asked' /\ (Closing' <=> Closing) /\ \A k \in Indexes(up') : GoodRequest(k)'
  BY <1>1, RequestTaken
<1>3. ~Asked  BY <1>1, <1>2 DEF Asked, Ranges
<1>4. Picture'  BY <1>1, <1>2, <1>3, StillKeeps
<1>5. Ranges'  BY <1>1, <1>2 DEF Ranges, GoodDirty, GoodMarks, IsOpen
<1> QED BY <1>4, <1>5

LEMMA ReceiveSettles ==
  ASSUME Regular, MenuInv, SightInv, StoreInv, Ranges, Picture, ReceiveClose PROVE Ranges' /\ Picture'
<1>1. /\ UNCHANGED <<phase, lastId, client>> /\ phase = "ingest"
      /\ up # <<>> /\ up' = Tail(up) /\ Head(up).type = "close"
  BY DEF ReceiveClose
<1>2. /\ Head(up) = up[1] /\ ~Asked' /\ \A k \in Indexes(up') : GoodRequest(k)'
      /\ open'.id = open.id /\ up[1].id # open.id => (Closing' <=> Closing)
      /\ up[1].id = open.id /\ open.id # 0 => Closing
      /\ GoodRequest(1)
  BY <1>1, RequestTaken
<1>3. up[1].id # 0 /\ (open.id # 0 => IsOpen)
  <2>1. lastId \in Nat /\ (open.id # 0 => open.gen # 0)  BY MenuShapes
  <2> QED BY <1>1, <1>2, <2>1 DEF GoodRequest, IsOpen
<1>4. CASE ~(IsOpen /\ open.id = up[1].id)
  <2>1. UNCHANGED <<inv, open, down>>  BY <1>2, <1>4 DEF ReceiveClose
  <2>2. (Closing' <=> Closing) /\ ~Asked  BY <1>1, <1>2, <1>3, <1>4, <2>1 DEF Asked
  <2>3. Picture'  BY <1>1, <1>2, <2>1, <2>2, StillKeeps
  <2>4. Ranges'  BY <1>1, <1>2, <2>1 DEF Ranges, GoodDirty, GoodMarks, IsOpen
  <2> QED BY <2>3, <2>4
<1>5. CASE IsOpen /\ open.id = up[1].id
  <2>1. /\ open' = Closed /\ inv' = Gone("client").inv /\ down' = down \o Gone("client").told
    BY <1>2, <1>5 DEF ReceiveClose, Removal
  <2>2. open'.id = 0 /\ open'.gen = 0 /\ open.id # 0  BY <1>3, <1>5, <2>1, NewMenuMarks
  <2>3. Gone("client").told = <<>>  BY <2>2 DEF Gone
  <2>4. down' = down  BY <2>1, <2>3, NothingAdded DEF Picture, Words
  <2>5. GoodDirty(inv') /\ inv'.dirty.full  BY <2>1, <2>2, GoneMarks DEF Ranges
  <2>6. Picture'  BY <1>1, <1>2, <1>5, <2>2, <2>4, <2>5, MenuGone
  <2>7. Ranges'  BY <1>1, <1>2, <2>2, <2>5 DEF Ranges, GoodDirty, IsOpen
  <2> QED BY <2>6, <2>7
<1> QED BY <1>4, <1>5

-----------------------------------------------------------------------------
(* Each part on show is due after a click, or the client shows what it is or *)
(* what it was.                                                             *)
Foreseen ==
  \A p, n : OnShow(p, n) =>
    Due(p, n)' \/ AtClient(p, n) = AtServer(p, n)' \/ AtClient(p, n) = AtServer(p, n)

LEMMA AnswerHeard == ASSUME Marks, down = <<>>, Foreseen PROVE Heard'
<1>1. down' = <<>> /\ client' = client /\ open'.id = open.id  BY DEF Marks
<1>2. \A p, n : AtClient(p, n)' = AtClient(p, n) /\ (OnShow(p, n)' <=> OnShow(p, n))
  BY <1>1 DEF AtClient, OnShow
<1>3. ASSUME NEW p, NEW n, OnShow(p, n)' PROVE Due(p, n)' \/ HeardAs(p, n, AtServer(p, n))'
  <2>1. OnShow(p, n)  BY <1>2, <1>3
  <2>2. Due(p, n)' \/ AtClient(p, n) = AtServer(p, n)'  BY <2>1 DEF Foreseen, Marks
  <2>3. \A v : AtClient(p, n)' = v => (\A k \in Indexes(down)' : FALSE) /\ AtClient(p, n)' = v
    BY <1>1, Nothing DEF Indexes
  <2>4. Indexes(down)' = {}  BY <1>1, Nothing DEF Indexes
  <2> QED BY <1>2, <2>2, <2>4 DEF HeardAs
<1> QED BY <1>3 DEF Heard

(* The server's window *)
ServerSlots == IF open.id # 0 THEN WindowOf(open.slots, inv.slots) ELSE inv.slots

LEMMA WindowAt ==
  ASSUME Sizes, StoreInv, open.id # 0 => IsOpen
  PROVE  /\ ServerSlots \in Slots(WinSize)
         /\ \A s \in 0..WinSize - 1 : ServerSlots[s] = AtServer(Where(s), Which(s))
<1>1. GoodInventory(inv) /\ (open.id # 0 => GoodMenu(open))  BY DEF StoreInv
<1>2. ServerSlots \in Slots(WinSize)
  <2>1. CASE open.id = 0  BY <1>1, <2>1 DEF WinSize, ServerSlots, GoodInventory
  <2>2. CASE open.id # 0
    <3>1. open.slots \in Slots(MenuSize) /\ inv.slots \in Slots(Size)
      BY <1>1, <2>2 DEF GoodMenu, GoodInventory
    <3> QED BY <2>2, <3>1, WindowCounts DEF WinSize, ServerSlots
  <2> QED BY <2>1, <2>2
<1>3. ASSUME NEW s \in 0..WinSize - 1 PROVE ServerSlots[s] = AtServer(Where(s), Which(s))
  <2>1. CASE open.id = 0  BY <2>1 DEF ServerSlots, AtServer, Where, Which
  <2>2. CASE open.id # 0
    <3>1. ServerSlots[s] = IF s < MenuSize THEN open.slots[s] ELSE inv.slots[InInventory(s)]
      BY <2>2 DEF ServerSlots, WindowOf, WinSize
    <3> QED BY <2>2, <3>1 DEF AtServer, Where, Which
  <2> QED BY <2>1, <2>2
<1> QED BY <1>2, <1>3

LEMMA SameSays ==
  ASSUME Sizes, StoreInv, open.id # 0 => IsOpen, Same, phase = "ingest"
  PROVE  \E drag \in Drags(WinSize) : Foresees(ServerSlots, drag)
<1>1. PICK slots \in Slots(WinSize), drag \in Drags(WinSize) : Foresees(slots, drag)  BY DEF Same
<1>2. \A s \in 0..WinSize - 1 : slots[s] = ServerSlots[s]
  <2>1. \A s \in 0..WinSize - 1 : OnShow(Where(s), Which(s))  BY InWindow
  <2>2. \A p, n : OnShow(p, n) => ~Due(p, n)  BY DEF Same
  <2>3. \A s \in 0..WinSize - 1 : slots[s] = AtServer(Where(s), Which(s))
    BY <1>1, <2>1, <2>2 DEF Foresees
  <2> QED BY <2>3, WindowAt
<1>3. slots = ServerSlots
  <2>1. ServerSlots \in Slots(WinSize)  BY WindowAt
  <2>2. slots \in Slots(WinSize)  OBVIOUS
  <2>3. /\ slots = [s \in 0..WinSize - 1 |-> slots[s]]
        /\ ServerSlots = [s \in 0..WinSize - 1 |-> ServerSlots[s]]
    BY <2>1, <2>2 DEF Slots
  <2> QED BY <1>2, <2>3, Zenon
<1> QED BY <1>1, <1>3

LEMMA ClickAnswered ==
  ASSUME Ranges, SightInv, Picture, Marks, Asked, phase = "ingest", up' = Tail(up),
         up[1].state # StateId => Whole', Same => Foreseen, DragsMatch',
         UNCHANGED <<phase, lastId, client, down>>, open'.gen = open.gen, open'.id = open.id,
         GoodDirty(inv'), IsOpen => GoodMarks(open')
  PROVE  Ranges' /\ Picture'
<1>1. up # <<>> /\ up[1].type = "click"  BY DEF Asked
<1>2. ~Asked' /\ (Closing' <=> Closing) /\ \A k \in Indexes(up') : GoodRequest(k)'
  BY <1>1, RequestTaken
<1>3. Informed'
  <2>1. CASE Closing  BY <1>2, <2>1 DEF Informed
  <2>2. CASE Heard  BY <2>2, MarksHeard DEF Informed
  <2>3. CASE up[1].state # StateId
    <3>1. \A p, n : Due(p, n)'  BY <2>3 DEF Due
    <3> QED BY <3>1 DEF Heard, Informed
  <2>4. CASE Same
    <3>1. down = <<>>  BY <2>4 DEF Same
    <3> QED BY <2>4, <3>1, AnswerHeard DEF Informed
  <2> QED BY <2>1, <2>2, <2>3, <2>4 DEF Picture, Informed, Pending
<1>4. Picture'  BY <1>2, <1>3, MarksKeep
<1>5. Ranges'  BY <1>2 DEF Ranges, GoodDirty, GoodMarks, IsOpen
<1> QED BY <1>4, <1>5

-----------------------------------------------------------------------------
(* Its clicks *)
LEMMA InventoryClickSettles ==
  ASSUME Regular, MenuInv, SightInv, StoreInv, Ranges, Picture, InventoryClick PROVE Ranges' /\ Picture'
<1> DEFINE click == up[1].click
           i == Stale(inv, up[1].state)
           before == [slots |-> i.slots, cursor |-> i.cursor, drag |-> i.drag]
           w == ApplyClick(before, PlayerLayout, Creative, click)
           j == SetSlots(i, w.slots)
           k == [j EXCEPT !.drag = w.drag]
<1>0. Sizes /\ StackSizes /\ ~Creative  BY DEF Regular
<1>1. /\ UNCHANGED <<phase, open, lastId, client, down>> /\ phase = "ingest"
      /\ up # <<>> /\ up' = Tail(up) /\ Head(up).type = "click" /\ Head(up).id = 0 /\ ~IsOpen
  BY DEF InventoryClick
<1>2. Head(up) = up[1]  BY <1>1, RequestTaken
<1>3. inv' = SetCursor(k, w.cursor)
  BY <1>2 DEF InventoryClick, Applied
<1>4. open.id = 0 /\ Asked  BY <1>1, <1>2, MenuShapes DEF IsOpen, Asked
<1>5. /\ GoodInventory(inv) /\ GoodDirty(inv)
      /\ Size \in Nat /\ PlayerLayout \in Layouts(Size) /\ WinSize = Size /\ WinLayout = PlayerLayout
  BY <1>0, <1>4, Geometry DEF StoreInv, Ranges, WinSize, WinLayout
<1>6. /\ GoodInventory(i) /\ Follows(inv, i) /\ i.slots = inv.slots /\ i.cursor = inv.cursor
      /\ i.drag = inv.drag /\ (up[1].state # StateId => i.dirty.full)
  <2>1. CASE up[1].state # inv.state
    <3>1. i = Full(inv)  BY <2>1 DEF Stale
    <3> QED BY <1>5, <3>1, SettersKeep, SettersMark
  <2>2. CASE up[1].state = inv.state
    <3>1. i = inv  BY <2>2 DEF Stale
    <3>2. Follows(inv, inv)  BY <1>5 DEF Follows
    <3> QED BY <1>4, <1>5, <2>2, <3>1, <3>2 DEF StateId
  <2> QED BY <2>1, <2>2
<1> HIDE DEF i
<1>7. /\ before.slots = inv.slots /\ before.cursor = inv.cursor /\ before.drag = inv.drag
      /\ before = [slots |-> inv.slots, cursor |-> inv.cursor, drag |-> inv.drag]
      /\ inv.slots \in Slots(Size) /\ inv.cursor \in Stacks /\ inv.drag \in Drags(Size)
  BY <1>5, <1>6 DEF GoodInventory
<1> HIDE DEF before
<1>8. w \in Windows(Size) /\ w.drag = NextDrag(Size, inv.drag, click)
  BY <1>0, <1>5, <1>7, ClickKeeps, ClickDrags
<1>9. w.slots \in Slots(Size) /\ w.cursor \in Stacks /\ w.drag \in Drags(Size)
  BY <1>5, <1>8, WindowFacts
<1> HIDE DEF w
<1>10. /\ GoodInventory(j) /\ j.slots = w.slots /\ Follows(i, j)
  BY <1>6, <1>9, SettersKeep, SettersMark DEF Follows
<1> HIDE DEF j
<1>11. /\ GoodInventory(k) /\ k.slots = w.slots /\ k.drag = w.drag /\ k.cursor = j.cursor
       /\ k.dirty = j.dirty /\ k.state = j.state
  BY <1>9, <1>10 DEF GoodInventory
<1>12. Follows(j, k) /\ GoodDirty(k)
  <2>1. GoodDirty(j)  BY <1>10 DEF Follows
  <2> QED BY <1>10, <1>11, <2>1 DEF Follows, GoodDirty
<1> HIDE DEF k
<1>13. /\ inv'.slots = w.slots /\ inv'.cursor = w.cursor /\ Follows(k, inv') /\ inv'.drag = w.drag
  BY <1>3, <1>9, <1>11, <1>12, SettersKeep, SettersMark
<1>14. Follows(i, k)  BY <1>10, <1>12, FollowsOn
<1>15. Follows(i, inv')  BY <1>13, <1>14, FollowsOn
<1>16. Follows(inv, inv')  BY <1>6, <1>15, FollowsOn
<1>17. MenuFollows  BY <1>4 DEF MenuFollows
<1>18. Marks  BY <1>1, <1>16, <1>17, FollowsMarks
<1>19. up[1].state # StateId => Whole'  BY <1>6, <1>15 DEF Follows, Whole
<1>20. DragsMatch'
  <2>1. Unscreened' <=> Unscreened  BY <1>1, Unmoved
  <2>2. ServerDrag = inv.drag /\ ServerDrag' = w.drag  BY <1>1, <1>4, <1>13 DEF ServerDrag
  <2>3. ~Asked'  BY <1>1, RequestTaken
  <2>4. ReadOnly' <=> ReadOnly  BY <1>1 DEF ReadOnly
  <2> QED BY <1>1, <1>4, <1>5, <1>8, <2>1, <2>2, <2>3, <2>4 DEF Picture, DragsMatch
<1>21. ASSUME Same PROVE Foreseen
  <2>1. PICK drag \in Drags(WinSize) : Foresees(ServerSlots, drag)
    BY <1>0, <1>1, <1>4, <1>21, SameSays
  <2> DEFINE c == Made(ServerSlots, drag)
  <2>2. ServerSlots = inv.slots /\ ServerDrag = inv.drag /\ ~ReadOnly
    BY <1>4 DEF ServerSlots, ServerDrag, ReadOnly
  <2>3. c = ApplyClick([slots |-> inv.slots, cursor |-> inv.cursor, drag |-> drag], PlayerLayout, Creative, click)
    BY <1>5, <2>2 DEF Made
  <2>4. drag \in {NoDrag, inv.drag}  BY <2>1, <2>2 DEF Foresees
  <2>5. w = ApplyClick([slots |-> inv.slots, cursor |-> inv.cursor, drag |-> inv.drag],
                       PlayerLayout, Creative, click)
    BY <1>7 DEF w
  <2>6. (c.slots = w.slots /\ c.cursor = w.cursor) \/ (c.slots = inv.slots /\ c.cursor = inv.cursor)
    BY <1>0, <1>5, <1>7, <2>3, <2>4, <2>5, ClickAlike
  <2>7. /\ \A s \in 0..Size - 1 : client.inv[s] = c.slots[s]
        /\ client.cursor = c.cursor
    <3>1. \A s \in 0..Size - 1 : Where(s) = "inv" /\ Which(s) = s  BY <1>4 DEF Where, Which
    <3>2. \A s \in 0..Size - 1 : AtClient("inv", s) = client.inv[s]  BY DEF AtClient
    <3> QED BY <1>5, <2>1, <3>1, <3>2 DEF Foresees
  <2> HIDE DEF c
  <2>8. ASSUME NEW p, NEW n, OnShow(p, n)
        PROVE  AtClient(p, n) = AtServer(p, n)' \/ AtClient(p, n) = AtServer(p, n)
    <3>1. CASE p = "cursor"  BY <1>13, <2>6, <2>7, <3>1 DEF AtClient, AtServer
    <3>2. CASE p = "inv"
      <4>1. n \in 0..Size - 1  BY <2>8, <3>2 DEF OnShow
      <4> QED BY <1>13, <2>6, <2>7, <3>2, <4>1 DEF AtClient, AtServer
    <3> QED BY <1>4, <2>8, <3>1, <3>2 DEF OnShow
  <2> QED BY <2>8 DEF Foreseen
<1>22. GoodDirty(inv') /\ (IsOpen => GoodMarks(open'))  BY <1>1, <1>16 DEF Follows
<1> QED BY <1>1, <1>4, <1>18, <1>19, <1>20, <1>21, <1>22, ClickAnswered

-----------------------------------------------------------------------------
(* Slots of the window on a menu *)
LEMMA OnWindow ==
  ASSUME Sizes, open.id # 0, NEW p, NEW n, OnShow(p, n), p # "cursor"
  PROVE  \E s \in 0..MenuWindow - 1 :
           /\ Where(s) = p /\ Which(s) = n
           /\ p = "menu" => s = n /\ s < MenuSize
           /\ p = "inv" => ~(s < MenuSize) /\ n = InInventory(s) /\ s = n - Gear + MenuSize
<1>1. PICK s \in 0..WinSize - 1 : Where(s) = p /\ Which(s) = n  BY InWindow
<1>2. /\ MenuSize \in Nat /\ Gear \in Nat /\ MenuWindow \in Nat /\ WinSize = MenuWindow
  BY Geometry DEF Sizes, WinSize
<1>3. p = "menu" => s = n /\ s < MenuSize  BY <1>1 DEF Where, Which
<1>4. p = "inv" => ~(s < MenuSize) /\ n = InInventory(s)  BY <1>1 DEF Where, Which
<1>5. n = InInventory(s) => s = n - Gear + MenuSize  BY <1>1, <1>2 DEF InInventory
<1> QED BY <1>1, <1>2, <1>3, <1>4, <1>5

(* A menu that only shows: the slots that the client changed are marked. *)
LEMMA ReadOnlyClickSettles ==
  ASSUME Regular, MenuInv, SightInv, StoreInv, Ranges, Picture, MenuClick, ~open.editable
  PROVE  Ranges' /\ Picture'
<1> DEFINE changed == up[1].changed
           lower == {InInventory(s) : s \in {c \in changed : c >= MenuSize}}
           upper == {c \in changed : c < MenuSize}
           i == Marked(inv, lower)
           o == [open EXCEPT !.marked = @ \cup upper]
<1>0. Sizes  BY DEF Regular
<1>1. /\ UNCHANGED <<phase, lastId, client, down>> /\ phase = "ingest"
      /\ up # <<>> /\ up' = Tail(up) /\ Head(up).type = "click" /\ Head(up).id # 0 /\ IsOpen
      /\ open.id = Head(up).id
  BY DEF MenuClick
<1>2. Head(up) = up[1] /\ GoodRequest(1)  BY <1>1, RequestTaken
<1>3. open.id # 0 /\ Asked  BY <1>1, <1>2 DEF Asked
<1>4. /\ inv' = CursorMarked(i)
      /\ open' = [o EXCEPT !.full = @ \/ up[1].state # open.state]
  <2>1. /\ inv' = Restored(Head(up).changed).inv
        /\ open' = [Restored(Head(up).changed).open EXCEPT !.full = @ \/ Head(up).state # open.state]
    BY DEF MenuClick
  <2> QED BY <1>2, <2>1 DEF Restored
<1>5. GoodInventory(inv) /\ GoodDirty(inv) /\ GoodMenu(open) /\ GoodMarks(open)
  BY <1>1 DEF StoreInv, Ranges
<1>6. /\ MenuWindow \in Nat /\ Extra \in Nat /\ MenuWindow = MenuSize + Extra /\ Size \in Nat
      /\ Gear + Extra <= Size /\ Gear \in Nat /\ MenuSize \in Nat
  BY <1>0, Geometry DEF Sizes
<1>7. changed \subseteq 0..MenuWindow - 1  BY <1>1, <1>2 DEF GoodRequest
<1>8. lower \subseteq 0..Size - 1 /\ upper \subseteq 0..MenuSize - 1
  BY <1>6, <1>7 DEF InInventory
<1>9. \A c \in changed : IF c < MenuSize THEN c \in upper ELSE InInventory(c) \in lower
  BY <1>6, <1>7
<1> HIDE DEF changed, lower, upper
<1>10. /\ GoodInventory(i) /\ Follows(inv, i) /\ SlotsOnly(inv, i) /\ lower \subseteq i.dirty.slots
       /\ i.slots = inv.slots
  BY <1>5, <1>8, SettersKeep, SettersMark
<1> HIDE DEF i
<1>11. GoodDirty(i)  BY <1>10 DEF Follows
<1>12. Follows(i, inv') /\ inv'.dirty.cursor /\ inv'.slots = i.slots
  BY <1>4, <1>10, <1>11, SettersKeep, SettersMark
<1>13. Follows(inv, inv')  BY <1>10, <1>12, FollowsOn
<1>14. lower \subseteq inv'.dirty.slots /\ inv'.slots = inv.slots
  <2>1. i.dirty.slots \subseteq inv'.dirty.slots  BY <1>12 DEF Follows
  <2> QED BY <1>10, <1>12, <2>1
<1>15. /\ o.gen = open.gen /\ o.id = open.id /\ o.slots = open.slots /\ o.drag = open.drag
       /\ o.editable = open.editable /\ o.state = open.state /\ o.title = open.title
       /\ o.full = open.full /\ o.marked = open.marked \cup upper
       /\ o = [gen |-> o.gen, id |-> o.id, slots |-> o.slots, editable |-> o.editable,
               state |-> o.state, drag |-> o.drag, full |-> o.full, marked |-> o.marked,
               title |-> o.title]
  <2>1. o = [gen |-> open.gen, id |-> open.id, slots |-> open.slots, editable |-> open.editable,
             state |-> open.state, drag |-> open.drag, full |-> open.full,
             marked |-> open.marked \cup upper, title |-> open.title]
    BY <1>5, MenuMarks
  <2> HIDE DEF o
  <2> QED BY <2>1
<1> HIDE DEF o
<1>16. /\ open'.gen = open.gen /\ open'.id = open.id /\ open'.slots = open.slots
       /\ open'.editable = open.editable /\ open'.state = open.state /\ open'.title = open.title
       /\ open'.full = (open.full \/ up[1].state # open.state)
       /\ open'.marked = open.marked \cup upper
  BY <1>4, <1>15
<1>17. GoodMarks(open')  BY <1>5, <1>8, <1>16 DEF GoodMarks
<1>18. MenuFollows  BY <1>5, <1>16 DEF MenuFollows, GoodMarks
<1>19. Marks  BY <1>1, <1>13, <1>16, <1>18, FollowsMarks
<1>20. up[1].state # StateId => Whole'  BY <1>3, <1>5, <1>16 DEF StateId, Whole, GoodMarks
<1>21. DragsMatch'  BY <1>3, <1>16 DEF DragsMatch, ReadOnly
<1>22. ASSUME Same PROVE Foreseen
  <2>1. PICK drag \in Drags(WinSize) : Foresees(ServerSlots, drag)
    BY <1>0, <1>1, <1>3, <1>22, SameSays
  <2> DEFINE c == Made(ServerSlots, drag)
  <2>2. WinSize = MenuWindow  BY <1>3 DEF WinSize
  <2>3. /\ changed = Differ(c.slots, ServerSlots)
        /\ \A s \in 0..MenuWindow - 1 : AtClient(Where(s), Which(s)) = c.slots[s]
    BY <2>1, <2>2 DEF Foresees, changed
  <2>4. \A s \in 0..MenuWindow - 1 : ServerSlots[s] = AtServer(Where(s), Which(s))
    BY <1>0, <1>1, <2>2, WindowAt
  <2>5. DOMAIN c.slots = 0..MenuWindow - 1
    <3>1. ServerSlots \in Slots(WinSize)  BY <1>0, <1>1, WindowAt
    <3>2. WinSize \in Nat /\ WinLayout \in Layouts(WinSize)  BY <1>0, InWindow
    <3> DEFINE before == [slots |-> ServerSlots, cursor |-> inv.cursor, drag |-> drag]
    <3>3. before.slots = ServerSlots /\ before.cursor = inv.cursor /\ before.drag = drag  OBVIOUS
    <3>4. c = ApplyClick(before, WinLayout, Creative, up[1].click)  BY DEF Made
    <3>5. inv.cursor \in Stacks /\ StackSizes /\ ~Creative  BY <1>5 DEF GoodInventory, Regular
    <3> HIDE DEF before, c
    <3>6. c \in Windows(WinSize)  BY <2>1, <3>1, <3>2, <3>3, <3>4, <3>5, ClickKeeps
    <3>7. c.slots \in Slots(WinSize)  BY <3>2, <3>6, WindowFacts
    <3> QED BY <2>2, <3>7 DEF Slots
  <2> HIDE DEF c
  <2>6. ASSUME NEW p, NEW n, OnShow(p, n)
        PROVE  Due(p, n)' \/ AtClient(p, n) = AtServer(p, n)
    <3>1. CASE p = "cursor"  BY <1>12, <3>1 DEF Due
    <3>2. CASE p # "cursor"
      <4>1. PICK s \in 0..MenuWindow - 1 :
              /\ Where(s) = p /\ Which(s) = n
              /\ p = "menu" => s = n /\ s < MenuSize
              /\ p = "inv" => ~(s < MenuSize) /\ n = InInventory(s)
        BY <1>0, <1>3, <2>6, <3>2, OnWindow
      <4>2. CASE s \in changed
        <5>1. CASE p = "menu"
          <6>1. n \in open'.marked  BY <1>9, <1>16, <4>1, <4>2, <5>1
          <6> QED BY <5>1, <6>1 DEF Due
        <5>2. CASE p = "inv"
          <6>1. n \in inv'.dirty.slots  BY <1>9, <1>14, <4>1, <4>2, <5>2
          <6> QED BY <5>2, <6>1 DEF Due
        <5> QED BY <2>6, <3>2, <5>1, <5>2 DEF OnShow
      <4>3. CASE s \notin changed
        <5>1. c.slots[s] = ServerSlots[s]  BY <2>3, <2>5, <4>3 DEF Differ
        <5> QED BY <2>3, <2>4, <4>1, <5>1
      <4> QED BY <4>2, <4>3
    <3> QED BY <3>1, <3>2
  <2> QED BY <2>6 DEF Foreseen
<1>23. GoodDirty(inv')  BY <1>13 DEF Follows
<1> QED BY <1>1, <1>3, <1>16, <1>17, <1>19, <1>20, <1>21, <1>22, <1>23, ClickAnswered

-----------------------------------------------------------------------------
(* An editable menu: the click is applied, as at the client. *)
LEMMA CursorPut ==
  ASSUME NEW i, GoodInventory(i), GoodDirty(i), NEW stack \in Stacks
  PROVE  /\ Follows(i, SetCursor(i, stack)) /\ SetCursor(i, stack).slots = i.slots
         /\ SetCursor(i, stack).cursor = stack
<1>1. SetCursor(i, stack).slots = i.slots /\ SetCursor(i, stack).cursor = stack  BY SettersKeep
<1>2. Follows(i, SetCursor(i, stack))  BY SettersMark
<1> QED BY <1>1, <1>2

LEMMA EditableClickSettles ==
  ASSUME Regular, MenuInv, SightInv, StoreInv, Ranges, Picture, MenuClick, open.editable
  PROVE  Ranges' /\ Picture'
<1> DEFINE click == up[1].click
           before == [slots |-> WindowOf(open.slots, inv.slots), cursor |-> inv.cursor, drag |-> open.drag]
           w == ApplyClick(before, MenuLayout, Creative, click)
           slots == [i \in DOMAIN inv.slots |-> IF i \in Visible THEN w.slots[i - Gear + MenuSize]
                                                ELSE inv.slots[i]]
           menu == [s \in DOMAIN open.slots |-> w.slots[s]]
           upper == Differ(menu, open.slots)
           j == SetSlots(inv, slots)
           o == [open EXCEPT !.slots = menu, !.drag = w.drag, !.marked = @ \cup upper]
<1>0. Sizes /\ StackSizes /\ ~Creative  BY DEF Regular
<1>1. /\ UNCHANGED <<phase, lastId, client, down>> /\ phase = "ingest"
      /\ up # <<>> /\ up' = Tail(up) /\ Head(up).type = "click" /\ Head(up).id # 0 /\ IsOpen
      /\ open.id = Head(up).id
  BY DEF MenuClick
<1>2. Head(up) = up[1]  BY <1>1, RequestTaken
<1>3. open.id # 0 /\ Asked  BY <1>1, <1>2 DEF Asked
<1>4. inv' = SetCursor(j, w.cursor) /\ open' = [o EXCEPT !.full = @ \/ up[1].state # open.state]
  <2>1. /\ inv' = AppliedToMenu(Head(up).click).inv
        /\ open' = [AppliedToMenu(Head(up).click).open EXCEPT !.full = @ \/ Head(up).state # open.state]
    BY DEF MenuClick
  <2> QED BY <1>2, <2>1 DEF AppliedToMenu
<1>5. GoodInventory(inv) /\ GoodDirty(inv) /\ GoodMenu(open) /\ GoodMarks(open)
  BY <1>1 DEF StoreInv, Ranges
<1>6. /\ MenuWindow \in Nat /\ Extra \in Nat /\ MenuWindow = MenuSize + Extra /\ Size \in Nat
      /\ Gear + Extra <= Size /\ Visible = Gear..Gear + Extra - 1 /\ Gear \in Nat /\ MenuSize \in Nat
      /\ MenuLayout \in Layouts(MenuWindow)
  BY <1>0, Geometry DEF Sizes
<1>7. /\ inv.slots \in Slots(Size) /\ inv.cursor \in Stacks
      /\ open.slots \in Slots(MenuSize) /\ open.drag \in Drags(MenuWindow)
      /\ WindowOf(open.slots, inv.slots) \in Slots(MenuWindow)
  BY <1>0, <1>5, WindowCounts DEF GoodInventory, GoodMenu
<1>8. /\ before.slots = WindowOf(open.slots, inv.slots) /\ before.cursor = inv.cursor
      /\ before.drag = open.drag
  OBVIOUS
<1> HIDE DEF before
<1>9. w \in Windows(MenuWindow) /\ w.drag = NextDrag(MenuWindow, open.drag, click)
  BY <1>0, <1>6, <1>7, <1>8, ClickKeeps, ClickDrags
<1>10. w.slots \in Slots(MenuWindow) /\ w.cursor \in Stacks /\ w.drag \in Drags(MenuWindow)
  BY <1>6, <1>9, WindowFacts
<1> HIDE DEF w
<1>11. DOMAIN inv.slots = 0..Size - 1 /\ DOMAIN open.slots = 0..MenuSize - 1  BY <1>7 DEF Slots
<1>12. slots \in Slots(Size) /\ menu \in Slots(MenuSize)
  <2>1. menu = [s \in 0..MenuSize - 1 |-> w.slots[s]]  BY <1>11
  <2> HIDE DEF menu
  <2> QED BY <1>0, <1>7, <1>10, <2>1, WindowReturns
<1>13. /\ \A s \in 0..MenuSize - 1 : menu[s] = w.slots[s]
       /\ \A n \in Visible : n \in 0..Size - 1 => slots[n] = w.slots[n - Gear + MenuSize]
  BY <1>11
<1>14. /\ upper \subseteq 0..MenuSize - 1
       /\ \A s \in 0..MenuSize - 1 : menu[s] = open.slots[s] \/ s \in upper
  BY <1>11 DEF Differ
<1> HIDE DEF slots, menu, upper
<1>15. /\ GoodInventory(j) /\ j.slots = slots /\ Follows(inv, j)
  BY <1>5, <1>12, SettersKeep, SettersMark
<1> HIDE DEF j
<1>16. /\ inv'.slots = slots /\ inv'.cursor = w.cursor /\ Follows(j, inv')
  <2>1. GoodDirty(j)  BY <1>15 DEF Follows
  <2>2. \A stack \in Stacks : /\ Follows(j, SetCursor(j, stack)) /\ SetCursor(j, stack).slots = j.slots
                             /\ SetCursor(j, stack).cursor = stack
    BY <1>15, <2>1, CursorPut
  <2> QED BY <1>4, <1>10, <1>15, <2>2
<1>17. Follows(inv, inv')  BY <1>15, <1>16, FollowsOn
<1>18. /\ o.gen = open.gen /\ o.id = open.id /\ o.slots = menu /\ o.drag = w.drag
       /\ o.editable = open.editable /\ o.state = open.state /\ o.title = open.title
       /\ o.full = open.full /\ o.marked = open.marked \cup upper
       /\ o = [gen |-> o.gen, id |-> o.id, slots |-> o.slots, editable |-> o.editable,
               state |-> o.state, drag |-> o.drag, full |-> o.full, marked |-> o.marked,
               title |-> o.title]
  <2> DEFINE marked == open.marked \cup upper
  <2>1. /\ open = [gen |-> open.gen, id |-> open.id, slots |-> open.slots, editable |-> open.editable,
                   state |-> open.state, drag |-> open.drag, full |-> open.full, marked |-> open.marked,
                   title |-> open.title]
    BY <1>5 DEF GoodMenu
  <2>2. o = [open EXCEPT !.slots = menu, !.drag = w.drag, !.marked = marked]  BY <2>1
  <2> HIDE DEF o, marked
  <2>3. o = [gen |-> open.gen, id |-> open.id, slots |-> menu, editable |-> open.editable,
             state |-> open.state, drag |-> w.drag, full |-> open.full, marked |-> marked,
             title |-> open.title]
    BY <2>1, <2>2
  <2> QED BY <2>3 DEF marked
<1> HIDE DEF o
<1>19. /\ open'.gen = open.gen /\ open'.id = open.id /\ open'.slots = menu /\ open'.drag = w.drag
       /\ open'.editable = open.editable /\ open'.state = open.state /\ open'.title = open.title
       /\ open'.full = (open.full \/ up[1].state # open.state)
       /\ open'.marked = open.marked \cup upper
  BY <1>4, <1>18
<1>20. GoodMarks(open')  BY <1>5, <1>14, <1>19 DEF GoodMarks
<1>21. MenuFollows  BY <1>5, <1>14, <1>19 DEF MenuFollows, GoodMarks
<1>22. Marks  BY <1>1, <1>17, <1>19, <1>21, FollowsMarks
<1>23. up[1].state # StateId => Whole'  BY <1>3, <1>5, <1>19 DEF StateId, Whole, GoodMarks
<1>24. DragsMatch'
  <2>1. Unscreened' <=> Unscreened  BY <1>1, Unmoved
  <2>2. /\ ServerDrag = open.drag /\ ServerDrag' = w.drag /\ WinSize = MenuWindow
        /\ (ReadOnly' <=> ReadOnly)
    BY <1>3, <1>19 DEF ServerDrag, WinSize, ReadOnly
  <2>3. ~Asked'  BY <1>1, RequestTaken
  <2> QED BY <1>1, <1>3, <1>9, <1>19, <2>1, <2>2, <2>3 DEF Picture, DragsMatch
<1>25. ASSUME Same PROVE Foreseen
  <2>1. PICK drag \in Drags(WinSize) : Foresees(ServerSlots, drag)
    BY <1>0, <1>1, <1>3, <1>25, SameSays
  <2> DEFINE c == Made(ServerSlots, drag)
             all == WindowOf(open.slots, inv.slots)
  <2>2. /\ ServerSlots = all /\ ServerDrag = open.drag /\ ~ReadOnly
        /\ WinSize = MenuWindow /\ WinLayout = MenuLayout
    BY <1>3 DEF ServerSlots, ServerDrag, ReadOnly, WinSize, WinLayout
  <2>3. c = ApplyClick([slots |-> all, cursor |-> inv.cursor, drag |-> drag], MenuLayout, Creative, click)
    BY <2>2 DEF Made
  <2>4. drag \in {NoDrag, open.drag}  BY <2>1, <2>2 DEF Foresees
  <2>5. w = ApplyClick([slots |-> all, cursor |-> inv.cursor, drag |-> open.drag],
                       MenuLayout, Creative, click)
    BY DEF w, before
  <2>6. (c.slots = w.slots /\ c.cursor = w.cursor) \/ (c.slots = all /\ c.cursor = inv.cursor)
    <3> HIDE DEF c, all
    <3>1. all \in Slots(MenuWindow)  BY <1>7 DEF all
    <3> QED BY <1>0, <1>6, <1>7, <2>3, <2>4, <2>5, <3>1, ClickAlike
  <2>7. /\ \A s \in 0..MenuWindow - 1 : AtClient(Where(s), Which(s)) = c.slots[s]
        /\ client.cursor = c.cursor
    BY <2>1, <2>2 DEF Foresees
  <2>8. \A s \in 0..MenuWindow - 1 : all[s] = AtServer(Where(s), Which(s))
    <3> HIDE DEF all
    <3> QED BY <1>0, <1>1, <2>2, WindowAt
  <2> HIDE DEF c, all
  <2>9. ASSUME NEW p, NEW n, OnShow(p, n)
        PROVE  AtClient(p, n) = AtServer(p, n)' \/ AtClient(p, n) = AtServer(p, n)
    <3>1. CASE p = "cursor"  BY <1>16, <2>6, <2>7, <3>1 DEF AtClient, AtServer
    <3>2. CASE p # "cursor"
      <4>1. PICK s \in 0..MenuWindow - 1 :
              /\ Where(s) = p /\ Which(s) = n
              /\ p = "menu" => s = n /\ s < MenuSize
              /\ p = "inv" => ~(s < MenuSize) /\ n = InInventory(s) /\ s = n - Gear + MenuSize
        BY <1>0, <1>3, <2>9, <3>2, OnWindow
      <4>2. AtServer(p, n)' = w.slots[s]
        <5>1. CASE p = "menu"
          <6>1. n \in 0..MenuSize - 1 /\ n = s  BY <2>9, <4>1, <5>1 DEF OnShow
          <6> QED BY <1>13, <1>19, <5>1, <6>1 DEF AtServer
        <5>2. CASE p = "inv"
          <6>1. n \in 0..Size - 1 /\ n \in Visible  BY <1>3, <2>9, <5>2 DEF OnShow
          <6> QED BY <1>13, <1>16, <4>1, <5>2, <6>1 DEF AtServer
        <5> QED BY <2>9, <3>2, <5>1, <5>2 DEF OnShow
      <4> QED BY <2>6, <2>7, <2>8, <4>1, <4>2
    <3> QED BY <3>1, <3>2
  <2> QED BY <2>9 DEF Foreseen
<1>26. GoodDirty(inv')  BY <1>17 DEF Follows
<1> QED BY <1>1, <1>3, <1>19, <1>20, <1>22, <1>23, <1>24, <1>25, <1>26, ClickAnswered

-----------------------------------------------------------------------------
(* What a sync tells *)
Rank(s, S) == Cardinality({t \in S : t < s})

LEMMA Ranks ==
  ASSUME NEW S, S \subseteq Nat, IsFiniteSet(S)
  PROVE  /\ Cardinality(S) \in Nat
         /\ \A s \in S : Rank(s, S) \in 0..Cardinality(S) - 1
         /\ \A s, u \in S : Rank(s, S) = Rank(u, S) => s = u
         /\ \A k \in 0..Cardinality(S) - 1 : \E s \in S : Rank(s, S) = k
<1> DEFINE N == Cardinality(S)
<1>1. N \in Nat  BY FS_CardinalityType
<1>2. ASSUME NEW s \in S PROVE Rank(s, S) \in 0..N - 1
  <2> DEFINE T == {t \in S : t < s}
  <2>1. T \in SUBSET (S \ {s})  OBVIOUS
  <2>2. IsFiniteSet(S \ {s}) /\ Cardinality(S \ {s}) = N - 1  BY FS_RemoveElement
  <2> HIDE DEF T
  <2>3. IsFiniteSet(T) /\ Cardinality(T) <= N - 1 /\ Cardinality(T) \in Nat
    <3>1. T \in SUBSET (S \ {s})  BY <2>1
    <3>2. IsFiniteSet(T) /\ Cardinality(T) <= Cardinality(S \ {s})  BY <2>2, <3>1, FS_Subset
    <3>3. Cardinality(T) \in Nat  BY <3>2, FS_CardinalityType
    <3> QED BY <2>2, <3>2, <3>3
  <2>4. Rank(s, S) = Cardinality(T)  BY DEF Rank, T
  <2> HIDE DEF N
  <2> QED BY <1>1, <2>3, <2>4
<1>3. ASSUME NEW s \in S, NEW u \in S, s < u PROVE Rank(s, S) < Rank(u, S)
  <2> DEFINE T == {t \in S : t < s}
             U == {t \in S : t < u}
  <2>0. s \in Nat /\ u \in Nat /\ \A t \in S : t \in Nat /\ (t < s => t < u) /\ ~(s < s)
    BY <1>3
  <2>1. T \cup {s} \in SUBSET U /\ s \notin T /\ T \in SUBSET S /\ U \in SUBSET S
    BY <1>3, <2>0, Zenon
  <2> HIDE DEF T, U
  <2>2. IsFiniteSet(T) /\ IsFiniteSet(U) /\ Cardinality(T) \in Nat /\ Cardinality(U) \in Nat
    BY <2>1, FS_Subset, FS_CardinalityType
  <2>3. Cardinality(T \cup {s}) = Cardinality(T) + 1  BY <2>1, <2>2, FS_AddElement
  <2>4. Cardinality(T \cup {s}) <= Cardinality(U)  BY <2>1, <2>2, FS_Subset
  <2> QED BY <2>2, <2>3, <2>4 DEF Rank, T, U
<1>4. ASSUME NEW s \in S, NEW u \in S, Rank(s, S) = Rank(u, S) PROVE s = u
  <2>1. Rank(s, S) \in Int /\ Rank(u, S) \in Int /\ s \in Nat /\ u \in Nat  BY <1>1, <1>2
  <2>2. ~(s < u) /\ ~(u < s)  BY <1>3, <1>4, <2>1
  <2> QED BY <2>1, <2>2
<1>5. ASSUME NEW k \in 0..N - 1, \A s \in S : Rank(s, S) # k PROVE FALSE
  <2> DEFINE T == (0..N - 1) \ {k}
             f == [s \in S |-> Rank(s, S)]
  <2>1. f \in [S -> T]  BY <1>2, <1>5
  <2>2. IsFiniteSet(0..N - 1) /\ Cardinality(0..N - 1) = N
    <3>1. 0 \in Int /\ N - 1 \in Int /\ ~(0 > N - 1)  BY <1>1, <1>5
    <3> HIDE DEF N
    <3>2. IsFiniteSet(0..N - 1) /\ Cardinality(0..N - 1) = N - 1 - 0 + 1  BY <3>1, FS_Interval
    <3> QED BY <1>1, <3>2
  <2>3. IsFiniteSet(T) /\ Cardinality(T) = N - 1
    <3> DEFINE all == 0..N - 1
    <3>1. T = all \ {k} /\ k \in all /\ IsFiniteSet(all) /\ Cardinality(all) = N  BY <2>2
    <3> HIDE DEF T, all, N
    <3> QED BY <3>1, FS_RemoveElement
  <2>4. Cardinality(T) < Cardinality(S)  BY <1>1, <2>3
  <2> HIDE DEF T
  <2>5. \E x, y \in S : x # y /\ f[x] = f[y]
    <3> HIDE DEF f, N
    <3> QED BY <2>1, <2>3, <2>4, FS_PigeonHole
  <2> QED BY <1>4, <2>5
<1> QED BY <1>1, <1>2, <1>4, <1>5

LEMMA Below ==
  ASSUME NEW b \in Nat PROVE IsFiniteSet(0..b) /\ Cardinality(0..b) = b + 1 /\ 0..b \subseteq Nat
<1>1. 0 \in Int /\ b \in Int /\ ~(0 > b) /\ b - 0 + 1 = b + 1  OBVIOUS
<1> QED BY <1>1, FS_Interval

Bits == 0..127
Tells(ps, id, slots, window) ==
  /\ IsList(ps)
  /\ \A k \in Indexes(ps) : /\ ps[k].type = "slot" /\ ps[k].id = id /\ ps[k].slot \in slots
                            /\ ps[k].stack = window[ps[k].slot]
  /\ \A s \in slots : \E k \in Indexes(ps) : ps[k].slot = s
  /\ slots = {} => ps = <<>>

LEMMA SlotsTold ==
  ASSUME NEW id, NEW state, NEW slots, slots \subseteq Bits, NEW window
  PROVE  /\ Tells(SlotPackets(id, state, slots, window), id, slots, window)
         /\ Cardinality(slots) \in Nat /\ Cardinality(slots) <= 128
         /\ slots # {} => Cardinality(slots) >= 1
<1> DEFINE Slot(k) == CHOOSE s \in slots : Cardinality({t \in slots : t < s}) = k - 1
           N == Cardinality(slots)
           ps == SlotPackets(id, state, slots, window)
<1>1. slots \cap 0..127 = slots  BY DEF Bits
<1>2. IsFiniteSet(slots) /\ N \in 0..128 /\ slots \subseteq Nat
  <2> DEFINE b == 127
             all == 0..b
  <2>1. b \in Nat /\ slots \in SUBSET all /\ b + 1 = 128  BY DEF Bits
  <2> HIDE DEF b, all
  <2>2. IsFiniteSet(all) /\ Cardinality(all) = b + 1 /\ all \subseteq Nat  BY <2>1, Below DEF all
  <2>3. IsFiniteSet(slots) /\ N <= b + 1
    <3> HIDE DEF N
    <3>1. IsFiniteSet(slots) /\ Cardinality(slots) <= Cardinality(all)  BY <2>1, <2>2, FS_Subset
    <3> QED BY <2>2, <3>1 DEF N
  <2>4. N \in Nat  BY <2>3, FS_CardinalityType
  <2> HIDE DEF N
  <2> QED BY <2>1, <2>2, <2>3, <2>4
<1>3. ps = [k \in 1..N |-> [type |-> "slot", id |-> id, state |-> NextState(state, k),
                            slot |-> Slot(k), stack |-> window[Slot(k)]]]
  BY <1>1 DEF SlotPackets
<1>4. IsList(ps)  BY SlotsAnnounceNone
<1>5. Len(ps) = N
  <2>1. DOMAIN ps = 1..N  BY <1>3
  <2> HIDE DEF ps, N
  <2>2. PICK A : ps \in Seq(A)  BY <1>4 DEF IsList
  <2> QED BY <1>2, <2>1, <2>2
<1>6. ASSUME NEW k \in 1..N PROVE Slot(k) \in slots /\ Rank(Slot(k), slots) = k - 1
  <2>1. k - 1 \in 0..N - 1  BY <1>2
  <2>2. \E s \in slots : Rank(s, slots) = k - 1  BY <1>2, <2>1, Ranks
  <2> QED BY <2>2 DEF Rank
<1>7. ASSUME NEW s \in slots PROVE \E k \in 1..N : Slot(k) = s
  <2> DEFINE r == Rank(s, slots)
  <2>1. r \in 0..N - 1 /\ \A a, b \in slots : Rank(a, slots) = Rank(b, slots) => a = b
    BY <1>2, Ranks
  <2> HIDE DEF r
  <2> DEFINE k == r + 1
  <2>2. k \in 1..N /\ k - 1 = r  BY <1>2, <2>1
  <2> HIDE DEF Slot, N, k
  <2>3. Slot(k) \in slots /\ Rank(Slot(k), slots) = k - 1  BY <1>6, <2>2
  <2>4. Rank(Slot(k), slots) = Rank(s, slots)  BY <2>2, <2>3 DEF r
  <2>5. Slot(k) = s  BY <2>1, <2>3, <2>4
  <2> QED BY <2>2, <2>5
<1> HIDE DEF Slot
<1>8. \A k \in 1..N : /\ ps[k].type = "slot" /\ ps[k].id = id /\ ps[k].slot = Slot(k)
                      /\ ps[k].stack = window[Slot(k)]
  BY <1>3
<1>9. slots = {} => N = 0  BY FS_EmptySet
<1>10. slots # {} => N # 0  BY <1>2, FS_EmptySet
<1> HIDE DEF ps, N
<1>11. N = 0 => ps = <<>>
  <2>1. PICK A : ps \in Seq(A)  BY <1>4 DEF IsList
  <2> QED BY <1>5, <2>1
<1>12. N \in Nat /\ N <= 128 /\ (slots # {} => N >= 1)  BY <1>2, <1>10
<1>13. \A s \in slots : \E k \in 1..Len(ps) : ps[k].slot = s  BY <1>5, <1>7, <1>8
<1>14. \A k \in 1..Len(ps) : /\ ps[k].type = "slot" /\ ps[k].id = id /\ ps[k].slot \in slots
                             /\ ps[k].stack = window[ps[k].slot]
  BY <1>5, <1>6, <1>8
<1>15. Tells(ps, id, slots, window)
  BY <1>4, <1>9, <1>11, <1>13, <1>14 DEF Tells, Indexes
<1> QED BY <1>12, <1>15 DEF ps, N

-----------------------------------------------------------------------------
(* Packets that tell of the window after the sync *)
Body(xs) ==
  /\ IsList(xs)
  /\ \A k \in 1..Len(xs) : GoodWord(xs[k]) /\ ~Screens(xs[k]) /\ (Fills(xs[k]) => xs[k].id = open'.id)
  /\ \A k \in 1..Len(xs) : \A p, n :
       OnShow(p, n)' /\ Names(xs[k], p, n) => Says(xs[k], p, n) = AtServer(p, n)'

(* The contents stay. *)
Unaltered ==
  /\ GoodInventory(inv) /\ inv'.slots = inv.slots /\ inv'.cursor = inv.cursor
  /\ open'.id # 0 => open'.slots = open.slots
ToShow == IF open'.id # 0 THEN WindowOf(open.slots, inv.slots) ELSE inv.slots

LEMMA ShownSlots ==
  ASSUME Sizes, Unaltered
  PROVE  /\ open'.id # 0 => \A n \in 0..MenuSize - 1 : ToShow[n] = open.slots[n]
         /\ open'.id # 0 => \A n \in 0..Size - 1 : n \in Visible =>
              ToShow[n - Gear + MenuSize] = inv.slots[n]
         /\ open'.id # 0 => \A s \in 0..MenuWindow - 1 : ~(s < MenuSize) => ToShow[s] = inv.slots[InInventory(s)]
         /\ open'.id = 0 => ToShow = [i \in 0..Size - 1 |-> ToShow[i]] /\ ToShow = inv.slots
<1>1. /\ MenuWindow \in Nat /\ Extra \in Nat /\ MenuWindow = MenuSize + Extra /\ Size \in Nat
      /\ Gear + Extra <= Size /\ Visible = Gear..Gear + Extra - 1 /\ Gear \in Nat /\ MenuSize \in Nat
  BY Geometry DEF Sizes
<1>2. open'.id # 0 => \A s \in 0..MenuWindow - 1 :
        ToShow[s] = IF s < MenuSize THEN open.slots[s] ELSE inv.slots[InInventory(s)]
  BY DEF ToShow, WindowOf
<1>3. \A n \in 0..MenuSize - 1 : n \in 0..MenuWindow - 1 /\ n < MenuSize  BY <1>1
<1>4. \A n \in 0..Size - 1 : n \in Visible =>
        /\ n - Gear + MenuSize \in 0..MenuWindow - 1 /\ ~(n - Gear + MenuSize < MenuSize)
        /\ InInventory(n - Gear + MenuSize) = n
  BY <1>1 DEF InInventory
<1>5. open'.id = 0 => ToShow = [i \in 0..Size - 1 |-> ToShow[i]] /\ ToShow = inv.slots
  BY DEF ToShow, Unaltered, GoodInventory, Slots
<1> HIDE DEF ToShow
<1> QED BY <1>2, <1>3, <1>4, <1>5

LEMMA ContentSays ==
  ASSUME Sizes, Unaltered, NEW state, NEW m, m = Content(open'.id, state, ToShow)
  PROVE  Body(<<m>>) /\ GoodWord(m) /\ ~Screens(m) /\ \A p, n : OnShow(p, n)' => Names(m, p, n)
<1>1. /\ m.type = "content" /\ m.id = open'.id /\ m.slots = ToShow /\ m.cursor = inv.cursor
  BY DEF Content
<1>2. GoodWord(m) /\ ~Screens(m)
  <2>1. m.id = 0 => m.slots = [i \in 0..Size - 1 |-> m.slots[i]]  BY <1>1, ShownSlots
  <2> QED BY <1>1, <2>1 DEF GoodWord, Screens
<1>3. \A p, n : OnShow(p, n)' => Names(m, p, n)  BY <1>1 DEF OnShow, Names
<1>4. ASSUME NEW p, NEW n, OnShow(p, n)' PROVE Says(m, p, n) = AtServer(p, n)'
  <2>1. CASE p = "cursor"  BY <1>1, <2>1 DEF Says, AtServer, Unaltered
  <2>2. CASE p = "inv"
    <3>1. n \in 0..Size - 1 /\ (open'.id # 0 => n \in Visible)  BY <1>4, <2>2 DEF OnShow
    <3> QED BY <1>1, <2>2, <3>1, ShownSlots DEF Says, AtServer, Unaltered
  <2>3. CASE p = "menu"
    <3>1. n \in 0..MenuSize - 1 /\ open'.id # 0  BY <1>4, <2>3 DEF OnShow
    <3> QED BY <1>1, <2>3, <3>1, ShownSlots DEF Says, AtServer, Unaltered
  <2> QED BY <1>4, <2>1, <2>2, <2>3 DEF OnShow
<1>5. Body(<<m>>)
  <2> DEFINE xs == <<m>>
  <2>1. IsList(xs) /\ \A k \in 1..Len(xs) : xs[k] = m
    <3>1. IsList(xs) /\ Len(xs) = 1 /\ xs[1] = m  BY Single
    <3>2. \A k \in 1..1 : k = 1  OBVIOUS
    <3> QED BY <3>1, <3>2
  <2> HIDE DEF xs
  <2> QED BY <1>1, <1>2, <1>4, <2>1 DEF Body, xs
<1> QED BY <1>2, <1>3, <1>5

LEMMA JoinedAs ==
  ASSUME NEW xs, NEW s, NEW t, IsList(s), IsList(t), xs = s \o t
  PROVE  /\ IsList(xs) /\ Len(s) \in Nat
         /\ \A k \in Indexes(s) : k \in Indexes(xs) /\ xs[k] = s[k]
         /\ \A k \in Indexes(t) : Len(s) + k \in Indexes(xs) /\ xs[Len(s) + k] = t[k]
         /\ \A k \in Indexes(xs) : \/ k \in Indexes(s) /\ xs[k] = s[k]
                                   \/ k - Len(s) \in Indexes(t) /\ xs[k] = t[k - Len(s)]
<1>1. PICK S, T : s \in Seq(S) /\ t \in Seq(T)  BY DEF IsList
<1> DEFINE U == S \cup T
<1>2. s \in Seq(U) /\ t \in Seq(U)  BY <1>1
<1> HIDE DEF U
<1>3. s \o t \in Seq(U)  BY <1>2
<1> QED BY <1>2, <1>3 DEF IsList, Indexes

LEMMA SlotWord ==
  ASSUME NEW m, (m.type = "slot" /\ m.id = open'.id) \/ m.type = "cursor"
  PROVE  GoodWord(m) /\ ~Screens(m) /\ (Fills(m) => m.id = open'.id)
<1>1. m.type # "content" /\ m.type # "open" /\ m.type # "close" /\ (m.type = "slot" => m.id = open'.id)
  OBVIOUS
<1>2. GoodWord(m)  BY <1>1 DEF GoodWord
<1>3. ~Screens(m)  BY <1>1 DEF Screens
<1>4. Fills(m) => m.id = open'.id  BY <1>1 DEF Fills
<1> QED BY <1>2, <1>3, <1>4

LEMMA PartsSay ==
  ASSUME Sizes, Unaltered, NEW state, NEW slots, slots \subseteq Bits,
         open'.id # 0 => slots \subseteq 0..MenuWindow - 1, NEW xs,
         xs = SlotPackets(open'.id, state, slots, ToShow) \o CursorPacket
  PROVE  /\ Body(xs) /\ (slots = {} /\ ~inv.dirty.cursor => xs = <<>>)
         /\ \A s \in slots : \E k \in 1..Len(xs) : xs[k].type = "slot" /\ xs[k].id = open'.id /\ xs[k].slot = s
         /\ inv.dirty.cursor => \E k \in 1..Len(xs) : xs[k].type = "cursor"
<1> DEFINE ps == SlotPackets(open'.id, state, slots, ToShow)
           c == CursorPacket
<1>1. Tells(ps, open'.id, slots, ToShow)  BY SlotsTold
<1>2. /\ IsList(c) /\ \A k \in Indexes(c) : c[k].type = "cursor" /\ c[k].cursor = inv.cursor
      /\ inv.dirty.cursor => 1 \in Indexes(c)
      /\ ~inv.dirty.cursor => c = <<>>
  <2>1. CASE inv.dirty.cursor
    <3> DEFINE m == [type |-> "cursor", cursor |-> inv.cursor]
    <3>1. c = <<m>> /\ m.type = "cursor" /\ m.cursor = inv.cursor  BY <2>1 DEF CursorPacket
    <3> HIDE DEF m, c
    <3>2. IsList(c) /\ Len(c) = 1 /\ c[1] = m  BY <3>1, Single
    <3>3. Indexes(c) = {1}  BY <3>2 DEF Indexes
    <3> QED BY <2>1, <3>1, <3>2, <3>3
  <2>2. CASE ~inv.dirty.cursor
    <3>1. c = <<>>  BY <2>2 DEF CursorPacket
    <3> HIDE DEF c
    <3> QED BY <2>2, <3>1, Nothing
  <2> QED BY <2>1, <2>2
<1> HIDE DEF ps, c
<1>3. xs = ps \o c  BY DEF ps, c
<1>4. /\ IsList(xs) /\ Len(ps) \in Nat
      /\ \A k \in Indexes(ps) : k \in Indexes(xs) /\ xs[k] = ps[k]
      /\ \A k \in Indexes(c) : Len(ps) + k \in Indexes(xs) /\ xs[Len(ps) + k] = c[k]
      /\ \A k \in Indexes(xs) : \/ k \in Indexes(ps) /\ xs[k] = ps[k]
                                \/ k - Len(ps) \in Indexes(c) /\ xs[k] = c[k - Len(ps)]
  <2>1. IsList(ps) /\ IsList(c)  BY <1>1, <1>2 DEF Tells
  <2>2. xs = ps \o c  BY <1>3
  <2> QED BY <2>1, <2>2, JoinedAs
<1>5. ASSUME NEW k \in Indexes(xs)
      PROVE  \/ /\ xs[k].type = "slot" /\ xs[k].id = open'.id /\ xs[k].slot \in slots
                /\ xs[k].stack = ToShow[xs[k].slot]
             \/ xs[k].type = "cursor" /\ xs[k].cursor = inv.cursor
  <2>1. CASE k \in Indexes(ps) /\ xs[k] = ps[k]  BY <1>1, <2>1 DEF Tells
  <2>2. CASE k - Len(ps) \in Indexes(c) /\ xs[k] = c[k - Len(ps)]
    <3>1. xs[k].type = "cursor" /\ xs[k].cursor = inv.cursor  BY <1>2, <2>2
    <3> QED BY <3>1
  <2> QED BY <1>4, <2>1, <2>2
<1>6. /\ MenuWindow \in Nat /\ MenuSize \in Nat /\ Gear \in Nat
  BY Geometry DEF Sizes
<1>7. ASSUME NEW k \in Indexes(xs), NEW p, NEW n, OnShow(p, n)', Names(xs[k], p, n)
      PROVE  Says(xs[k], p, n) = AtServer(p, n)'
  <2>1. CASE xs[k].type = "cursor" /\ xs[k].cursor = inv.cursor
    BY <1>7, <2>1 DEF Names, Says, AtServer, Unaltered
  <2>2. CASE /\ xs[k].type = "slot" /\ xs[k].id = open'.id /\ xs[k].slot \in slots
             /\ xs[k].stack = ToShow[xs[k].slot]
    <3> DEFINE s == xs[k].slot
    <3>1. CASE open'.id = 0
      <4>1. p = "inv" /\ n = s  BY <1>7, <2>2, <3>1 DEF Names
      <4> QED BY <2>2, <3>1, <4>1, ShownSlots DEF Says, AtServer, Unaltered
    <3>2. CASE open'.id # 0 /\ s < MenuSize
      <4>1. p = "menu" /\ n = s /\ n \in 0..MenuSize - 1  BY <1>7, <2>2, <3>2 DEF Names, OnShow
      <4> QED BY <2>2, <3>2, <4>1, ShownSlots DEF Says, AtServer, Unaltered
    <3>3. CASE open'.id # 0 /\ ~(s < MenuSize)
      <4>1. p = "inv" /\ n = InInventory(s) /\ s \in 0..MenuWindow - 1  BY <1>7, <2>2, <3>3 DEF Names
      <4>2. ToShow[s] = inv.slots[n]  BY <3>3, <4>1, ShownSlots
      <4> QED BY <2>2, <4>1, <4>2 DEF Says, AtServer, Unaltered
    <3> QED BY <3>1, <3>2, <3>3
  <2> QED BY <1>5, <2>1, <2>2
<1>8. ASSUME NEW k \in Indexes(xs)
      PROVE  GoodWord(xs[k]) /\ ~Screens(xs[k]) /\ (Fills(xs[k]) => xs[k].id = open'.id)
  <2>1. (xs[k].type = "slot" /\ xs[k].id = open'.id) \/ xs[k].type = "cursor"  BY <1>5
  <2> QED BY ONLY <2>1, SlotWord
<1>9. Body(xs)
  <2>1. \A k \in 1..Len(xs) : \A p, n :
          OnShow(p, n)' /\ Names(xs[k], p, n) => Says(xs[k], p, n) = AtServer(p, n)'
    BY ONLY <1>7 DEF Indexes
  <2>2. \A k \in 1..Len(xs) :
          GoodWord(xs[k]) /\ ~Screens(xs[k]) /\ (Fills(xs[k]) => xs[k].id = open'.id)
    BY ONLY <1>8 DEF Indexes
  <2> QED BY ONLY <1>4, <2>1, <2>2 DEF Body
<1>10. ASSUME slots = {}, ~inv.dirty.cursor PROVE xs = <<>>
  <2>1. ps = <<>>  BY <1>1, <1>10 DEF Tells
  <2>2. c = <<>>  BY <1>2, <1>10
  <2>3. <<>> \o <<>> = <<>>  OBVIOUS
  <2> QED BY <1>3, <2>1, <2>2, <2>3
<1>11. ASSUME NEW s \in slots
       PROVE  \E k \in Indexes(xs) : xs[k].type = "slot" /\ xs[k].id = open'.id /\ xs[k].slot = s
  <2>1. PICK k \in Indexes(ps) : ps[k].slot = s  BY <1>1 DEF Tells
  <2>2. k \in Indexes(xs) /\ xs[k] = ps[k]  BY <1>4, <2>1
  <2>3. ps[k].type = "slot" /\ ps[k].id = open'.id  BY <1>1, <2>1 DEF Tells
  <2> QED BY <2>1, <2>2, <2>3
<1>12. ASSUME inv.dirty.cursor PROVE \E k \in Indexes(xs) : xs[k].type = "cursor"
  <2>1. Len(ps) + 1 \in Indexes(xs) /\ xs[Len(ps) + 1] = c[1] /\ c[1].type = "cursor"
    BY <1>2, <1>4, <1>12
  <2> QED BY <2>1
<1> QED BY <1>9, <1>10, <1>11, <1>12 DEF Indexes

-----------------------------------------------------------------------------
(* A sync of a window that the client knows tells what is due. *)
Still(more) ==
  /\ Adds1(more) /\ up' = up /\ phase' = "ingest" /\ Body(more)
  /\ open'.id = open.id /\ ServerDrag' = ServerDrag /\ (ReadOnly' <=> ReadOnly)
  /\ inv'.cursor = inv.cursor
  /\ \A p, n : OnShow(p, n) =>
       /\ ~Due(p, n)' /\ AtServer(p, n)' = AtServer(p, n)
       /\ Due(p, n) => \E k \in 1..Len(more) : Names(more[k], p, n)
  /\ \/ StateId' # StateId \/ Due("cursor", 0)
     \/ more = <<>> /\ \A p, n : OnShow(p, n) => ~Due(p, n)

LEMMA StillWords ==
  ASSUME Picture, NEW more, Still(more)
  PROVE  /\ Words' /\ GoodClient(client') /\ Channel' /\ Ends' /\ Once'
         /\ (Closing' <=> Closing) /\ (Asked' <=> Asked) /\ (Unscreened' <=> Unscreened)
         /\ \A p, n : OnShow(p, n)' <=> OnShow(p, n)
<1>1. /\ Adds1(more) /\ open'.id = open.id /\ up' = up /\ Body(more) /\ Words /\ client' = client
  BY DEF Still, Picture, Adds1
<1>2. \A k \in 1..Len(more) : GoodWord(more[k]) /\ ~Screens(more[k]) /\ (Fills(more[k]) => more[k].id = open.id)
  BY <1>1 DEF Body
<1>3. Words' /\ (Unscreened' <=> Unscreened)  BY <1>1, <1>2, WordsAdded
<1>4. /\ \A j : Latest(j)' <=> Latest(j)
      /\ \A i \in Int : i - Len(down) \in 1..Len(more) => /\ \A j : Nearest(j, i)' => Latest(j)
                                                          /\ Screened(i)' <=> ~Unscreened
  BY <1>1, <1>2, PlainAdded
<1>5. (Closing' <=> Closing) /\ (Asked' <=> Asked)  BY <1>1 DEF Closing, Asked, Indexes
<1>6. \A p, n : OnShow(p, n)' <=> OnShow(p, n)  BY <1>1 DEF OnShow
<1>7. /\ Len(down) \in Nat /\ Len(more) \in Nat /\ Len(down') = Len(down) + Len(more)
      /\ \A k \in 1..Len(down) : down'[k] = down[k]
      /\ \A k \in 1..Len(more) : down'[Len(down) + k] = more[k]
  BY <1>1, Before
<1>8. \A j : Latest(j) => ScreenOf(down'[j]) = open.id
  BY <1>7 DEF Latest, Indexes, Picture, Ends
<1>9. Unscreened => client.win \in {open.id, 0}  BY DEF Picture, Ends
<1>10. Channel'
  <2>1. \A i \in Int : i - Len(down) \in 1..Len(more) /\ Fills(more[i - Len(down)]) =>
           /\ \A j : Nearest(j, i)' => ScreenOf(down'[j]) = more[i - Len(down)].id
           /\ ~Screened(i)' => client.win \in {more[i - Len(down)].id, 0}
    <3> SUFFICES ASSUME NEW i \in Int, i - Len(down) \in 1..Len(more), Fills(more[i - Len(down)])
                 PROVE  /\ \A j : Nearest(j, i)' => ScreenOf(down'[j]) = more[i - Len(down)].id
                        /\ ~Screened(i)' => client.win \in {more[i - Len(down)].id, 0}
      OBVIOUS
    <3>1. more[i - Len(down)].id = open.id  BY <1>2
    <3>2. (\A j : Nearest(j, i)' => Latest(j)) /\ (Screened(i)' <=> ~Unscreened)
      BY ONLY <1>4, i \in Int, i - Len(down) \in 1..Len(more), Zenon
    <3> QED BY <1>8, <1>9, <3>1, <3>2
  <2>2. Words /\ Channel  BY DEF Picture
  <2> QED BY <1>1, <2>1, <2>2, ChannelAdded
<1>11. Ends'
  <2>1. \A j : Latest(j)' => ScreenOf(down'[j]) = open'.id  BY <1>1, <1>4, <1>8
  <2>2. \A j : ScreenOf(down[j])' = ScreenOf(down'[j])  BY DEF ScreenOf
  <2> QED BY <1>1, <1>3, <1>5, <2>1, <2>2 DEF Picture, Ends
<1>12. Once'
  <2> DEFINE N == Len(down)
             M == Len(more)
  <2>1. N \in Nat /\ M \in Nat /\ Indexes(down') = 1..N + M /\ Indexes(down) = 1..N  BY <1>7 DEF Indexes
  <2>2. \A k \in 1..N : Opens(k)' <=> Opens(k)  BY <1>1, <1>7 DEF Opens
  <2>3. \A k \in 1..M : ~Screens(down'[N + k])  BY <1>2, <1>7
  <2> HIDE DEF N, M
  <2>4. \A k \in 1..N + M : k \in 1..N \/ (k - N \in 1..M /\ N + (k - N) = k)  BY <2>1
  <2>5. \A k \in 1..N + M : Opens(k)' => k \in 1..N /\ Opens(k)
    <3> SUFFICES ASSUME NEW k \in 1..N + M, Opens(k)' PROVE k \in 1..N /\ Opens(k)
      OBVIOUS
    <3>1. Screens(down'[k])  BY DEF Opens, Screens
    <3>2. k \in 1..N
      <4>1. ASSUME k - N \in 1..M, N + (k - N) = k PROVE FALSE  BY <2>3, <3>1, <4>1
      <4> QED BY <2>4, <4>1
    <3> QED BY <2>2, <3>2
  <2>6. Once  BY DEF Picture
  <2> QED BY <1>1, <2>1, <2>5, <2>6 DEF Once
<1>13. GoodClient(client')  BY <1>1 DEF Picture
<1> QED BY <1>3, <1>5, <1>6, <1>10, <1>11, <1>12, <1>13

LEMMA HeardNew ==
  ASSUME Words, NEW more, Adds1(more), NEW p, NEW n, NEW v, NEW m \in 1..Len(more), Names(more[m], p, n),
         Fills(more[m]) /\ more[m].id # 0 =>
           client.win = more[m].id \/ \A i \in Int : i - Len(down) = m => Screened(i)',
         \A k \in 1..Len(more) : Names(more[k], p, n) => Says(more[k], p, n) = v
  PROVE  HeardAs(p, n, v)'
<1>1. Len(down) \in Nat /\ Len(more) \in Nat /\ down'[Len(down) + m] = more[m] /\ client' = client
  BY Before DEF Adds1
<1>2. PICK i : i = Len(down) + m  OBVIOUS
<1>3. i \in Int /\ i - Len(down) = m /\ down'[i] = more[m]  BY <1>1, <1>2
<1>4. Heeded(i)'  BY <1>1, <1>3 DEF Heeded, Fills
<1>5. Speaks(i, p, n)'  BY <1>3, <1>4 DEF Speaks, Names
<1>6. \A k \in m..Len(more) : Names(more[k], p, n) => Says(more[k], p, n) = v  BY <1>1
<1> QED BY <1>2, <1>5, <1>6, HeardNow

LEMMA StillHeard ==
  ASSUME Picture, NEW more, Still(more), ~Closing, Heard PROVE Heard'
<1>1. /\ Adds1(more) /\ open'.id = open.id /\ Body(more) /\ Words /\ client' = client
  BY DEF Still, Picture, Adds1
<1>2. \A k \in 1..Len(more) : GoodWord(more[k]) /\ ~Screens(more[k]) /\ (Fills(more[k]) => more[k].id = open.id)
  BY <1>1 DEF Body
<1>3. \A k \in 1..Len(more) : ~Screens(more[k])  BY <1>2
<1>4. /\ \A j : Latest(j)' <=> Latest(j)
      /\ \A i \in Int : i - Len(down) \in 1..Len(more) => /\ \A j : Nearest(j, i)' => Latest(j)
                                                          /\ Screened(i)' <=> ~Unscreened
  BY <1>1, <1>3, PlainAdded
<1>7. /\ Len(down) \in Nat /\ Len(more) \in Nat
      /\ \A k \in 1..Len(more) : down'[Len(down) + k] = more[k]
  BY <1>1, Before
<1>5. Unscreened => client.win = open.id  BY DEF Picture, Ends
<1>6. ASSUME NEW p, NEW n, OnShow(p, n)' PROVE HeardAs(p, n, AtServer(p, n))'
  <2>1. OnShow(p, n)  BY <1>1, <1>6 DEF OnShow
  <2> DEFINE v == AtServer(p, n)
  <2>2. v' = v /\ (Due(p, n) => \E k \in 1..Len(more) : Names(more[k], p, n))  BY <2>1 DEF Still
  <2>3. \A k \in 1..Len(more) : Names(more[k], p, n) => Says(more[k], p, n) = v
    <3>1. \A k \in 1..Len(more) : Names(more[k], p, n) => Says(more[k], p, n) = v'
      BY <1>1, <1>6 DEF Body
    <3> QED BY <2>2, <3>1
  <2> HIDE DEF v
  <2>4. CASE ~Due(p, n)
    <3>1. HeardAs(p, n, v)  BY <2>1, <2>4 DEF Heard, v
    <3>2. \A w : HeardAs(p, n, w) /\ (\A k \in 1..Len(more) : Names(more[k], p, n) => Says(more[k], p, n) = w)
                 => \A u : u = w => HeardAs(p, n, u)'
      BY <1>1, HeardStill
    <3>3. \E w : w = v /\ HeardAs(p, n, w)'  BY <1>1, <2>3, <3>1, HeardStill
    <3> QED BY <2>2, <3>3 DEF v
  <2>5. CASE Due(p, n)
    <3>1. PICK m \in 1..Len(more) : Names(more[m], p, n)  BY <2>2, <2>5
    <3>2. Fills(more[m]) /\ more[m].id # 0 =>
            client.win = more[m].id \/ \A i \in Int : i - Len(down) = m => Screened(i)'
      <4>1. CASE Unscreened  BY <1>2, <1>5, <4>1
      <4>2. CASE ~Unscreened
        <5>1. \A i \in Int : i - Len(down) = m => Screened(i)'  BY <1>4, <4>2
        <5> QED BY <5>1
      <4> QED BY <4>1, <4>2
    <3>3. \E w : w = v /\ HeardAs(p, n, w)'  BY <1>1, <2>3, <3>1, <3>2, HeardNew
    <3> QED BY <2>2, <3>3 DEF v
  <2> QED BY <2>4, <2>5
<1> QED BY <1>6 DEF Heard

LEMMA StillPends ==
  ASSUME Sizes, IsList(up), Picture, Steady, NEW more, Still(more), Pending PROVE Pending'
<1>1. /\ Adds1(more) /\ open'.id = open.id /\ up' = up /\ client' = client /\ phase' = "ingest"
      /\ inv'.cursor = inv.cursor /\ ServerDrag' = ServerDrag /\ (ReadOnly' <=> ReadOnly)
  BY DEF Still, Adds1
<1>2. Asked /\ Asked'
  BY <1>1 DEF Pending, Asked
<1>3. 1 \in DOMAIN up' /\ up'[1].type = "click" /\ up'[1].id = open.id
  <2>1. PICK S : up \in Seq(S)  BY DEF IsList
  <2>2. up # <<>> /\ up[1].type = "click" /\ up[1].id = open.id  BY <1>2 DEF Asked
  <2> QED BY <1>1, <2>1, <2>2
<1>4. StateId' = up[1].state => StateId = up[1].state  BY <1>1, <1>3 DEF Steady
<1>5. CASE up[1].state # StateId  BY <1>1, <1>2, <1>4, <1>5 DEF Pending
<1>6. CASE Same
  <2>1. down = <<>> /\ client.win = open.id /\ ~Due("cursor", 0)  BY <1>6 DEF Same
  <2>2. CASE StateId' # StateId  BY <1>1, <1>2, <1>4, <2>2 DEF Pending
  <2>3. CASE more = <<>> /\ \A p, n : OnShow(p, n) => ~Due(p, n)
    <3>1. down' = <<>>
      <4>1. down' = <<>> \o <<>>  BY <1>1, <2>1, <2>3 DEF Adds1
      <4> QED BY <4>1
    <3>2. /\ WinSize' = WinSize /\ WinLayout' = WinLayout
          /\ \A s : Where(s)' = Where(s) /\ Which(s)' = Which(s)
          /\ \A p, n : AtClient(p, n)' = AtClient(p, n)
          /\ \A p, n : OnShow(p, n)' <=> OnShow(p, n)
      BY <1>1 DEF WinSize, WinLayout, Where, Which, AtClient, OnShow
    <3>3. \A slots, drag : Made(slots, drag)' = Made(slots, drag)
      BY <1>1, <3>2 DEF Made
    <3>4. PICK slots \in Slots(WinSize), drag \in Drags(WinSize) : Foresees(slots, drag)
      BY <1>6 DEF Same
    <3>5. ASSUME NEW s \in 0..WinSize - 1
          PROVE  (Due(Where(s), Which(s)) \/ slots[s] = AtServer(Where(s), Which(s)))'
      <4>1. OnShow(Where(s), Which(s))  BY InWindow
      <4> DEFINE p == Where(s)
                 n == Which(s)
      <4>2. p' = p /\ n' = n  BY <3>2
      <4>3. \A q, m : OnShow(q, m) => AtServer(q, m)' = AtServer(q, m)  BY DEF Still
      <4>4. AtServer(p, n)' = AtServer(p, n)  BY <4>1, <4>2, <4>3 DEF AtServer
      <4>5. slots[s] = AtServer(p, n)  BY <2>3, <3>4, <4>1 DEF Foresees
      <4> QED BY <4>4, <4>5
    <3>6. Foresees(slots, drag)'
      BY <1>1, <3>2, <3>3, <3>4, <3>5 DEF Foresees
    <3>7. \A p, n : OnShow(p, n)' => ~Due(p, n)'  BY <3>2 DEF Still
    <3>8. Same'
      <4>1. ~Due("cursor", 0)'
        <5>1. OnShow("cursor", 0)'  BY DEF OnShow
        <5> QED BY <3>7, <5>1
      <4> QED BY <1>1, <2>1, <3>1, <3>2, <3>4, <3>6, <3>7, <4>1 DEF Same
    <3> QED BY <1>2, <3>8 DEF Pending
  <2> QED BY <2>1, <2>2, <2>3 DEF Still
<1> QED BY <1>5, <1>6 DEF Pending

LEMMA StillSettles ==
  ASSUME Sizes, IsList(up), Picture, Steady, NEW more, Still(more) PROVE Picture'
<1>1. /\ Words' /\ GoodClient(client') /\ Channel' /\ Ends' /\ Once'
      /\ (Closing' <=> Closing) /\ (Asked' <=> Asked) /\ (Unscreened' <=> Unscreened)
      /\ \A p, n : OnShow(p, n)' <=> OnShow(p, n)
  BY StillWords
<1>2. /\ open'.id = open.id /\ up' = up /\ client' = client /\ ServerDrag' = ServerDrag
      /\ (ReadOnly' <=> ReadOnly)
  BY DEF Still, Adds1
<1>3. Informed'
  <2>1. CASE Closing  BY <1>1, <2>1 DEF Informed
  <2>2. CASE Pending  BY <2>2, StillPends DEF Informed
  <2>3. CASE Heard /\ ~Closing  BY <2>3, StillHeard DEF Informed
  <2> QED BY <2>1, <2>2, <2>3 DEF Picture, Informed
<1>4. DragsMatch'
  <2>1. WinSize' = WinSize  BY <1>2 DEF WinSize
  <2> QED BY <1>1, <1>2, <2>1 DEF Picture, DragsMatch
<1>5. Covered'
  <2>1. /\ Len(down) \in Nat /\ Len(more) \in Nat /\ Len(down') = Len(down) + Len(more)
        /\ \A k \in 1..Len(down) : down'[k] = down[k]
        /\ \A k \in 1..Len(more) : down'[Len(down) + k] = more[k]
    BY Before DEF Still, Picture
  <2>2. \A j : Latest(j)' <=> Latest(j)
    <3>1. Words /\ Adds1(more) /\ \A k \in 1..Len(more) : ~Screens(more[k])
      BY DEF Still, Picture, Body
    <3> QED BY <3>1, PlainAdded
  <2>3. ASSUME NEW j, Latest(j)', NEW p, NEW n, OnShow(p, n)'
        PROVE  \E k \in j + 1..Len(down') : Names(down'[k], p, n)
    <3>1. Latest(j) /\ OnShow(p, n) /\ j \in 1..Len(down)  BY <1>1, <2>2, <2>3 DEF Latest, Indexes
    <3>2. CASE \E k \in j + 1..Len(down) : Names(down[k], p, n)
      <4>1. PICK k \in j + 1..Len(down) : Names(down[k], p, n)  BY <3>2
      <4>2. k \in 1..Len(down) /\ k \in j + 1..Len(down')  BY <2>1, <3>1
      <4> QED BY <2>1, <4>1, <4>2
    <3>3. CASE \E k \in 1..Len(more) : Names(more[k], p, n)
      <4>1. PICK k \in 1..Len(more) : Names(more[k], p, n)  BY <3>3
      <4>2. Len(down) + k \in j + 1..Len(down') /\ down'[Len(down) + k] = more[k]  BY <2>1, <3>1
      <4> QED BY <4>1, <4>2
    <3>4. Due(p, n) \/ \E k \in j + 1..Len(down) : Names(down[k], p, n)
      BY <3>1 DEF Picture, Covered
    <3> QED BY <3>1, <3>2, <3>3, <3>4 DEF Still
  <2> QED BY <2>3 DEF Covered, Names
<1> QED BY <1>1, <1>3, <1>4, <1>5 DEF Picture

-----------------------------------------------------------------------------
(* The sync that announces a menu opens its window and tells all of it. *)
First(m, c) ==
  /\ Adds1(<<m, c>>) /\ up' = up /\ open.id = 0 /\ open'.id = lastId + 1
  /\ m.type = "open" /\ m.id = open'.id
  /\ GoodWord(c) /\ ~Screens(c) /\ (Fills(c) => c.id = open'.id)
  /\ \A p, n : OnShow(p, n)' => Names(c, p, n) /\ Says(c, p, n) = AtServer(p, n)'

LEMMA FirstSettles ==
  ASSUME SightInv, Ranges, Picture, NEW m, NEW c, First(m, c) PROVE Picture'
<1> DEFINE more == <<m, c>>
           N == Len(down)
<1>1. /\ IsList(more) /\ Len(more) = 2 /\ more[1] = m /\ more[2] = c /\ down' = down \o more
      /\ client' = client /\ Adds1(more)
  BY DEF First, Adds1
<1> HIDE DEF more
<1>2. /\ Screens(m) /\ ScreenOf(m) = open'.id /\ ~Fills(m) /\ GoodWord(m)
  BY DEF First, Screens, ScreenOf, Fills, GoodWord
<1>3. GoodWord(c) /\ ~Screens(c) /\ (Fills(c) => c.id = open'.id)  BY DEF First
<1>4. 1..2 = {1, 2} /\ 2..2 = {2}  OBVIOUS
<1>5. /\ \A k \in 1..Len(more) : GoodWord(more[k])
      /\ 1 \in 1..Len(more) /\ Screens(more[1]) /\ \A k \in 2..Len(more) : ~Screens(more[k])
  BY <1>1, <1>2, <1>3, <1>4
<1>6. Words  BY DEF Picture
<1>7. Words'  BY <1>1, <1>5, <1>6, WordsAdded
<1>8. /\ \A j : Latest(j)' <=> j = N + 1
      /\ ~Unscreened' /\ down'[N + 1] = m
      /\ \A i \in Int : i - N \in 2..Len(more) => /\ \A j : Nearest(j, i)' => j = N + 1
                                                  /\ Screened(i)'
  BY <1>1, <1>5, <1>6, ScreenAdded
<1>9. /\ N \in Nat /\ Len(down') = N + 2 /\ \A k \in 1..N : down'[k] = down[k]
      /\ down'[N + 2] = c /\ Indexes(down) = 1..N /\ Indexes(down') = 1..N + 2
  <2>1. /\ N \in Nat /\ Len(down') = N + Len(more) /\ \A k \in 1..N : down'[k] = down[k]
        /\ \A k \in 1..Len(more) : down'[N + k] = more[k]
    BY <1>1, <1>6, Before
  <2> QED BY <1>1, <1>4, <2>1 DEF Indexes
<1> HIDE DEF N
<1>10. Channel'
  <2>1. ASSUME NEW i \in Int, i - N \in 1..Len(more), Fills(more[i - N])
        PROVE  /\ \A j : Nearest(j, i)' => ScreenOf(down'[j]) = more[i - N].id
               /\ ~Screened(i)' => client.win \in {more[i - N].id, 0}
    <3>1. i - N = 2  BY <1>1, <1>2, <1>4, <2>1
    <3>2. i - N \in 2..Len(more)  BY <1>1, <3>1
    <3>3. more[i - N].id = open'.id  BY <1>1, <1>3, <2>1, <3>1
    <3>4. /\ \A j : Nearest(j, i)' => j = N + 1
          /\ Screened(i)'
      BY <1>8, <3>2
    <3> QED BY <1>2, <1>8, <3>3, <3>4
  <2>2. \A i \in Int : i - Len(down) \in 1..Len(more) /\ Fills(more[i - Len(down)]) =>
           /\ \A j : Nearest(j, i)' => ScreenOf(down'[j]) = more[i - Len(down)].id
           /\ ~Screened(i)' => client.win \in {more[i - Len(down)].id, 0}
    BY <2>1 DEF N
  <2>3. Channel  BY DEF Picture
  <2> QED BY <1>1, <1>6, <2>2, <2>3, ChannelAdded
<1>11. ~Closing'
  <2>1. \A k \in Indexes(up) : up[k].type = "close" => up[k].id \in 1..lastId
    BY DEF Ranges, GoodRequest
  <2>2. lastId \in Nat /\ open'.id = lastId + 1 /\ up' = up  BY DEF SightInv, Counted, First
  <2>3. \A k \in Indexes(up) : up[k].type = "close" => up[k].id # open'.id
    <3>1. \A x \in 1..lastId : x # open'.id  BY <2>2
    <3> QED BY <2>1, <3>1
  <2> QED BY <2>2, <2>3 DEF Closing, Indexes
<1>12. Ends'
  <2>1. \A j : Latest(j)' => ScreenOf(down'[j]) = open'.id  BY <1>2, <1>8
  <2> QED BY <1>8, <1>11, <2>1 DEF Ends, ScreenOf
<1>13. Once'
  <2>1. lastId \in Nat /\ open'.id = lastId + 1  BY DEF SightInv, Counted, First
  <2>2. \A k \in 1..N : ~Opens(k)'
    <3> SUFFICES ASSUME NEW k \in 1..N, down[k].type = "open", down[k].id = open'.id PROVE FALSE
      BY <1>9 DEF Opens
    <3>1. Sighted(down[k].id, down[k].gen)  BY <1>9, <2>1 DEF Sighted, InAnnouncement
    <3>2. down[k].id \in 1..lastId  BY <3>1 DEF SightInv, Sights
    <3> QED BY <2>1, <3>2
  <2>4. client'.win # open'.id
    <3> SUFFICES ASSUME client.win = open'.id PROVE FALSE
      BY <1>1
    <3>1. Sighted(client.win, client.gen)  BY <2>1 DEF Sighted
    <3>2. client.win \in 1..lastId  BY <3>1 DEF SightInv, Sights
    <3> QED BY <2>1, <3>2
  <2>5. \A k \in 1..N + 2 : Opens(k)' => k = N + 1
    <3> SUFFICES ASSUME NEW k \in 1..N + 2, Opens(k)', k # N + 1 PROVE FALSE
      OBVIOUS
    <3>1. k \in 1..N \/ k = N + 2  BY <1>9
    <3>2. k # N + 2
      <4> SUFFICES ASSUME k = N + 2 PROVE FALSE
        OBVIOUS
      <4>1. down'[k].type = "open"  BY DEF Opens
      <4> QED BY <1>3, <1>9, <4>1 DEF Screens
    <3> QED BY <2>2, <3>1, <3>2
  <2> QED BY <1>9, <2>4, <2>5 DEF Once
<1>14. \A p, n : OnShow(p, n)' => Names(c, p, n) /\ Says(c, p, n) = AtServer(p, n)'  BY DEF First
<1>15. Covered'
  <2>1. ASSUME NEW p, NEW n, OnShow(p, n)', NEW j, Latest(j)'
        PROVE  \E k \in j + 1..Len(down') : Names(down'[k], p, n)
    <3>1. j = N + 1  BY <1>8, <2>1
    <3>2. N + 2 \in j + 1..Len(down')  BY <1>9, <3>1
    <3> QED BY <1>9, <1>14, <2>1, <3>2
  <2> QED BY <2>1 DEF Covered, Names
<1>16. Heard'
  <2>1. PICK i : i = N + 2  OBVIOUS
  <2>2. i \in Int /\ i - N \in 2..Len(more) /\ down'[i] = c  BY <1>1, <1>9, <2>1
  <2>3. Screened(i)'  BY <1>8, <2>2
  <2>4. ASSUME NEW p, NEW n, OnShow(p, n)' PROVE HeardAs(p, n, AtServer(p, n))'
    <3>1. Speaks(i, p, n)'  BY <1>14, <2>2, <2>3, <2>4 DEF Speaks, Heeded, Names
    <3>2. \A k \in 2..Len(more) : more[k] = c  BY <1>1, <1>4
    <3>3. PICK v : v = AtServer(p, n)'  OBVIOUS
    <3>4. \A k \in 2..Len(more) : Names(more[k], p, n) => Says(more[k], p, n) = v
      BY <1>14, <2>4, <3>2, <3>3
    <3>5. 2 \in 1..Len(more) /\ i = Len(down) + 2  BY <1>1, <2>1 DEF N
    <3>6. HeardAs(p, n, v)'  BY <1>1, <1>6, <3>1, <3>4, <3>5, HeardNow
    <3> QED BY <3>3, <3>6
  <2> QED BY <2>4 DEF Heard
<1>17. DragsMatch'  BY <1>8 DEF DragsMatch
<1>18. GoodClient(client')  BY <1>1 DEF Picture
<1> QED BY <1>7, <1>10, <1>12, <1>13, <1>15, <1>16, <1>17, <1>18 DEF Picture, Informed

-----------------------------------------------------------------------------
LEMMA NextStates ==
  ASSUME NEW s \in StateIds, NEW n \in Nat, n <= 128
  PROVE  NextState(s, n) \in StateIds /\ (n >= 1 => NextState(s, n) # s)
BY DEF StateIds, NextState

LEMMA BitsCount ==
  ASSUME NEW slots, slots \subseteq Bits
  PROVE  Cardinality(slots) \in Nat /\ Cardinality(slots) <= 128 /\ (slots # {} => Cardinality(slots) >= 1)
<1>1. \A id, state, window : /\ Cardinality(slots) \in Nat /\ Cardinality(slots) <= 128
                             /\ slots # {} => Cardinality(slots) >= 1
  BY SlotsTold
<1> QED BY <1>1

(* What was due is told. *)
LEMMA WholeStill ==
  ASSUME Sizes, Unaltered, NEW state, Adds1(<<Content(open'.id, state, ToShow)>>),
         up' = up, phase' = "ingest",
         open'.id = open.id, ServerDrag' = ServerDrag, ReadOnly' <=> ReadOnly,
         \A p, n : OnShow(p, n) => ~Due(p, n)', StateId' # StateId
  PROVE  \E more : Still(more)
<1> DEFINE m == Content(open'.id, state, ToShow)
<1>1. Body(<<m>>) /\ \A p, n : OnShow(p, n)' => Names(m, p, n)  BY ContentSays
<1>2. Adds1(<<m>>)  OBVIOUS
<1> HIDE DEF m
<1>3. \A p, n : OnShow(p, n)' <=> OnShow(p, n)  BY DEF OnShow
<1>4. \A p, n : OnShow(p, n) => AtServer(p, n)' = AtServer(p, n)
  BY DEF OnShow, AtServer, Unaltered
<1>5. \A p, n : OnShow(p, n) => \E k \in 1..Len(<<m>>) : Names(<<m>>[k], p, n)
  <2>1. 1 \in 1..Len(<<m>>) /\ <<m>>[1] = m  OBVIOUS
  <2> QED BY <1>1, <1>3, <2>1
<1>6. inv'.cursor = inv.cursor  BY DEF Unaltered
<1>7. Still(<<m>>)
  BY <1>1, <1>2, <1>4, <1>5, <1>6 DEF Still
<1> QED BY <1>7

LEMMA PartsStill ==
  ASSUME Sizes, Unaltered, NEW state, NEW slots, slots \subseteq Bits,
         open'.id # 0 => slots \subseteq 0..MenuWindow - 1,
         Adds1(SlotPackets(open'.id, state, slots, ToShow) \o CursorPacket),
         up' = up, phase' = "ingest",
         open'.id = open.id, ServerDrag' = ServerDrag, ReadOnly' <=> ReadOnly,
         \A p, n : OnShow(p, n) => ~Due(p, n)', slots # {} => StateId' # StateId, ~Whole,
         \A p, n : OnShow(p, n) /\ Due(p, n) /\ p # "cursor" =>
           \E s \in slots : Where(s) = p /\ Which(s) = n
  PROVE  \E more : Still(more)
<1>2. PICK more : more = SlotPackets(open'.id, state, slots, ToShow) \o CursorPacket /\ Adds1(more)
  OBVIOUS
<1>1. /\ Body(more) /\ (slots = {} /\ ~inv.dirty.cursor => more = <<>>)
      /\ \A s \in slots : \E k \in 1..Len(more) :
           more[k].type = "slot" /\ more[k].id = open'.id /\ more[k].slot = s
      /\ inv.dirty.cursor => \E k \in 1..Len(more) : more[k].type = "cursor"
  <2>0. open'.id # 0 => slots \subseteq 0..MenuWindow - 1  OBVIOUS
  <2>1. Body(more)  BY ONLY Sizes, Unaltered, slots \subseteq Bits, <2>0, <1>2, PartsSay
  <2>2. (slots = {} /\ ~inv.dirty.cursor => more = <<>>)  BY ONLY Sizes, Unaltered, slots \subseteq Bits, <2>0, <1>2, PartsSay
  <2>3. \A s \in slots : \E k \in 1..Len(more) :
           more[k].type = "slot" /\ more[k].id = open'.id /\ more[k].slot = s  BY ONLY Sizes, Unaltered, slots \subseteq Bits, <2>0, <1>2, PartsSay, SMTT(30)
  <2>4. inv.dirty.cursor => \E k \in 1..Len(more) : more[k].type = "cursor"  BY ONLY Sizes, Unaltered, slots \subseteq Bits, <2>0, <1>2, PartsSay
  <2> QED BY <2>1, <2>2, <2>3, <2>4
<1>4. \A p, n : OnShow(p, n) => AtServer(p, n)' = AtServer(p, n)
  BY DEF OnShow, AtServer, Unaltered
<1>5. ASSUME NEW p, NEW n, OnShow(p, n), Due(p, n) PROVE \E k \in 1..Len(more) : Names(more[k], p, n)
  <2>1. CASE p = "cursor"
    <3>1. inv.dirty.cursor  BY <1>5, <2>1 DEF Due
    <3>2. PICK k \in 1..Len(more) : more[k].type = "cursor"  BY <1>1, <3>1
    <3>3. Names(more[k], p, n)  BY <2>1, <3>2 DEF Names
    <3> QED BY <3>3
  <2>2. CASE p # "cursor"
    <3>1. PICK s \in slots : Where(s) = p /\ Which(s) = n  BY <1>5, <2>2
    <3>2. PICK k \in 1..Len(more) : more[k].type = "slot" /\ more[k].id = open'.id /\ more[k].slot = s
      BY <1>1
    <3>3. Names(more[k], p, n)  BY <3>1, <3>2 DEF Names, Where, Which
    <3> QED BY <3>3
  <2> QED BY <2>1, <2>2
<1>6. inv'.cursor = inv.cursor  BY DEF Unaltered
<1>7. StateId' # StateId \/ Due("cursor", 0) \/ (more = <<>> /\ \A p, n : OnShow(p, n) => ~Due(p, n))
  <2> SUFFICES ASSUME slots = {}, ~Due("cursor", 0)
               PROVE  more = <<>> /\ \A p, n : OnShow(p, n) => ~Due(p, n)
    OBVIOUS
  <2>1. ~inv.dirty.cursor  BY DEF Due
  <2>2. \A n : ~Due("cursor", n)  BY <2>1 DEF Due
  <2> QED BY <1>1, <2>1, <2>2
<1>8. Still(more)
  BY <1>1, <1>2, <1>4, <1>5, <1>6, <1>7 DEF Still
<1> QED BY <1>8

-----------------------------------------------------------------------------
LEMMA InventorySynced ==
  ASSUME Regular, MenuInv, StoreInv, Ranges, Sync, ~IsOpen
  PROVE  Ranges' /\ \E more : Still(more)
<1> DEFINE whole == inv.dirty.full \/ Cardinality(inv.dirty.slots) > Size \div 2
           slots == inv.dirty.slots
           count == IF whole THEN 1 ELSE Cardinality(slots)
           more == IF whole THEN <<Content(0, inv.state, inv.slots)>>
                   ELSE SlotPackets(0, inv.state, slots, inv.slots) \o CursorPacket
<1>1. /\ down' = down \o more
      /\ inv' = [inv EXCEPT !.dirty = Clean, !.state = NextState(inv.state, count)]
      /\ open' = open /\ lastId' = lastId /\ phase' = "ingest" /\ up' = up /\ client' = client
  BY DEF Sync, SyncInventory
<1>2. open.id = 0 /\ open.gen = 0 /\ IsList(down)  BY MenuShapes DEF IsOpen
<1>3. Sizes /\ Size \in Nat /\ Size <= 64  BY Geometry DEF Regular
<1>4. slots \subseteq Bits
  <2>1. slots \subseteq 0..Size - 1  BY DEF Ranges, GoodDirty, DirtyMarks
  <2> QED BY <1>3, <2>1 DEF Bits
<1>5. Cardinality(slots) \in Nat /\ Cardinality(slots) <= 128 /\ (slots # {} => Cardinality(slots) >= 1)
  BY ONLY <1>4, BitsCount
<1>6. count \in Nat /\ count <= 128 /\ (whole \/ slots # {} => count >= 1)  BY <1>5
<1>7. inv.state \in StateIds  BY DEF Ranges, GoodDirty
<1> HIDE DEF whole, slots, count, more
<1>8. NextState(inv.state, count) \in StateIds /\ (whole \/ slots # {} => NextState(inv.state, count) # inv.state)
  BY <1>6, <1>7, NextStates
<1> DEFINE state == NextState(inv.state, count)
<1> HIDE DEF state
<1>9. GoodInventory(inv)  BY DEF StoreInv
<1>10. /\ inv'.slots = inv.slots /\ inv'.cursor = inv.cursor /\ inv'.drag = inv.drag
       /\ inv'.dirty = Clean /\ inv'.state = state
  <2>1. inv' = [inv EXCEPT !.dirty = Clean, !.state = state]  BY <1>1 DEF state
  <2> QED BY <1>9, <2>1 DEF GoodInventory
<1>11. Ranges'
  <2>1. Clean \in DirtyMarks  BY DEF Clean, DirtyMarks
  <2>2. GoodDirty(inv')  BY <1>8, <1>10, <2>1 DEF GoodDirty, state
  <2>3. \A k : GoodRequest(k)' <=> GoodRequest(k)  BY <1>1 DEF GoodRequest
  <2>4. ~IsOpen'  BY <1>1, <1>2 DEF IsOpen
  <2> QED BY <1>1, <2>2, <2>3, <2>4 DEF Ranges, Indexes, GoodDirty
<1>12. Unaltered  BY <1>1, <1>2, <1>9, <1>10 DEF Unaltered
<1>13. ToShow = inv.slots  BY <1>1, <1>2 DEF ToShow
<1>14. /\ ServerDrag' = ServerDrag /\ (ReadOnly' <=> ReadOnly)
       /\ StateId' = state /\ StateId = inv.state
  BY <1>1, <1>2, <1>10 DEF ServerDrag, ReadOnly, StateId
<1>15. \A p, n : OnShow(p, n) => ~Due(p, n)'
  BY <1>1, <1>2, <1>10 DEF OnShow, Due, Whole, Clean
<1>16. open'.id = 0 /\ open'.id = open.id  BY <1>1, <1>2
<1>17. CASE whole
  <2> DEFINE c == <<Content(open'.id, inv.state, ToShow)>>
  <2>1. more = c  BY <1>13, <1>16, <1>17 DEF more
  <2>2. IsList(c)  BY Single
  <2>3. Adds1(c)  BY <1>1, <2>1, <2>2 DEF Adds1
  <2>4. StateId' # StateId  BY <1>8, <1>14, <1>17 DEF state
  <2> HIDE DEF c
  <2>5. \E xs : Still(xs)
    BY <1>1, <1>3, <1>12, <1>14, <1>15, <1>16, <2>3, <2>4, WholeStill DEF c
  <2> QED BY <1>11, <2>5
<1>18. CASE ~whole
  <2> DEFINE c == SlotPackets(open'.id, inv.state, slots, ToShow) \o CursorPacket
  <2>1. more = c  BY <1>13, <1>16, <1>18 DEF more
  <2>2. IsList(c)
    <3>1. Body(c)
      <4>1. open'.id # 0 => slots \subseteq 0..MenuWindow - 1  BY <1>16
      <4> QED BY <1>3, <1>4, <1>12, <4>1, PartsSay DEF slots
    <3> QED BY <3>1 DEF Body
  <2>3. Adds1(c)  BY <1>1, <2>1, <2>2 DEF Adds1
  <2>4. slots # {} => StateId' # StateId  BY <1>8, <1>14 DEF state
  <2>5. ~Whole  BY <1>2, <1>18 DEF Whole, whole
  <2>6. \A p, n : OnShow(p, n) /\ Due(p, n) /\ p # "cursor" =>
          \E s \in slots : Where(s) = p /\ Which(s) = n
    BY <1>2, <2>5 DEF OnShow, Due, Where, Which, slots
  <2> HIDE DEF c
  <2>7. slots \subseteq Bits /\ (open'.id # 0 => slots \subseteq 0..MenuWindow - 1)
    BY <1>4, <1>16 DEF slots
  <2>8. \E xs : Still(xs)
    BY <1>1, <1>3, <1>12, <1>14, <1>15, <1>16, <2>3, <2>4, <2>5, <2>6, <2>7, PartsStill DEF c
  <2> QED BY <1>11, <2>8
<1> QED BY <1>17, <1>18

-----------------------------------------------------------------------------
(* The parts of SyncMenu *)
MenuMarked == open.marked \cup {i - Gear + MenuSize : i \in inv.dirty.slots \cap Visible}
MenuWhole == open.id = 0 \/ open.full \/ inv.dirty.full
MenuId == IF open.id = 0 THEN NextContainerId ELSE open.id
MenuRest ==
  IF MenuWhole THEN <<Content(MenuId, open.state, WindowOf(open.slots, inv.slots))>>
  ELSE SlotPackets(MenuId, open.state, MenuMarked, WindowOf(open.slots, inv.slots)) \o CursorPacket
MenuCount == IF MenuWhole THEN 1 ELSE Cardinality(MenuMarked)
Announcement == [type |-> "open", id |-> MenuId, gen |-> open.gen]
NewStill ==
  /\ open'.id = MenuId /\ open'.gen = open.gen /\ open'.slots = open.slots /\ open'.drag = open.drag
  /\ open'.editable = open.editable /\ open'.full = FALSE /\ open'.title = FALSE /\ open'.marked = {}
  /\ open'.state = NextState(open.state, MenuCount)
  /\ inv'.slots = inv.slots /\ inv'.cursor = inv.cursor /\ inv'.drag = inv.drag
  /\ inv'.dirty.slots = Kept /\ inv'.dirty.full = FALSE /\ inv'.dirty.cursor = FALSE
  /\ inv'.dirty = [Clean EXCEPT !.slots = Kept] /\ inv'.state = inv.state
  /\ lastId' = MenuId /\ phase' = "ingest" /\ up' = up /\ client' = client

LEMMA MenuSent ==
  ASSUME StoreInv, Ranges, IsOpen, Sync
  PROVE  /\ NewStill
         /\ down' = down \o (IF open.id = 0 THEN <<Announcement>> ELSE <<>>) \o MenuRest
<1>1. open.title = FALSE /\ GoodMenu(open) /\ GoodInventory(inv)  BY DEF Ranges, GoodMarks, StoreInv
<1> DEFINE new == open.id = 0
           id == IF new THEN NextContainerId ELSE open.id
           window == WindowOf(open.slots, inv.slots)
           screen == IF new \/ open.title THEN <<[type |-> "open", id |-> id, gen |-> open.gen]>>
                     ELSE <<>>
           marked == open.marked \cup {i - Gear + MenuSize : i \in inv.dirty.slots \cap Visible}
           whole == new \/ open.title \/ open.full \/ inv.dirty.full
           rest == IF whole THEN <<Content(id, open.state, window)>>
                   ELSE SlotPackets(id, open.state, marked, window) \o CursorPacket
           count == IF whole THEN 1 ELSE Cardinality(marked)
<1>2. /\ down' = down \o screen \o rest
      /\ open' = [open EXCEPT !.id = id, !.full = FALSE, !.title = FALSE, !.marked = {},
                   !.state = NextState(@, count)]
      /\ inv' = [inv EXCEPT !.dirty = [Clean EXCEPT !.slots = Kept]]
      /\ lastId' = id /\ phase' = "ingest" /\ up' = up /\ client' = client
  BY DEF Sync, SyncMenu
<1>3. /\ id = MenuId /\ marked = MenuMarked /\ (whole <=> MenuWhole)
      /\ screen = IF open.id = 0 THEN <<Announcement>> ELSE <<>>
  BY <1>1 DEF MenuId, MenuMarked, MenuWhole, Announcement
<1> HIDE DEF whole, marked, id, screen
<1>4. rest = MenuRest /\ count = MenuCount  BY <1>3 DEF MenuRest, MenuCount
<1> HIDE DEF rest, count
<1>5. down' = down \o (IF open.id = 0 THEN <<Announcement>> ELSE <<>>) \o MenuRest
  BY <1>2, <1>3, <1>4
<1>6. /\ inv'.slots = inv.slots /\ inv'.cursor = inv.cursor /\ inv'.drag = inv.drag
      /\ inv'.dirty = [Clean EXCEPT !.slots = Kept] /\ inv'.state = inv.state
  BY <1>1, <1>2 DEF GoodInventory
<1>7. inv'.dirty.slots = Kept /\ inv'.dirty.full = FALSE /\ inv'.dirty.cursor = FALSE
  BY <1>6 DEF Clean
<1>8. /\ open'.id = id /\ open'.gen = open.gen /\ open'.slots = open.slots /\ open'.drag = open.drag
      /\ open'.editable = open.editable /\ open'.full = FALSE /\ open'.title = FALSE /\ open'.marked = {}
      /\ open'.state = NextState(open.state, count)
  <2>1. open' = [open EXCEPT !.id = id, !.full = FALSE, !.title = FALSE, !.marked = {},
                   !.state = NextState(open.state, count)]
    BY <1>2
  <2> DEFINE state == NextState(open.state, count)
  <2>2. state = NextState(open.state, count)  OBVIOUS
  <2> HIDE DEF state
  <2>3. open' = [gen |-> open.gen, id |-> id, slots |-> open.slots, editable |-> open.editable,
                 state |-> state, drag |-> open.drag, full |-> FALSE, marked |-> {}, title |-> FALSE]
    BY <1>1, <2>1, <2>2 DEF GoodMenu
  <2> QED BY <2>2, <2>3
<1> QED BY <1>2, <1>3, <1>4, <1>5, <1>6, <1>7, <1>8 DEF NewStill

LEMMA MenuFacts ==
  ASSUME Regular, MenuInv, SightInv, StoreInv, Ranges, IsOpen
  PROVE  /\ MenuMarked \subseteq Bits /\ MenuMarked \subseteq 0..MenuWindow - 1
         /\ MenuCount \in Nat /\ MenuCount <= 128 /\ (MenuWhole \/ MenuMarked # {} => MenuCount >= 1)
         /\ MenuId \in Nat \ {0}
         /\ open.id = 0 => MenuId = lastId + 1
         /\ open.id # 0 => MenuId = lastId /\ MenuId = open.id
<1>1. /\ Sizes /\ MenuWindow \in Nat /\ Extra \in Nat /\ MenuWindow = MenuSize + Extra /\ Size \in Nat
      /\ Gear + Extra <= Size /\ Visible = Gear..Gear + Extra - 1 /\ Gear \in Nat /\ MenuSize \in Nat
      /\ MenuWindow <= 128
  BY Geometry DEF Sizes, Regular
<1>2. open.marked \subseteq 0..MenuSize - 1  BY DEF Ranges, GoodMarks
<1>3. MenuMarked \subseteq 0..MenuWindow - 1
  <2>1. \A s \in 0..MenuSize - 1 : s \in 0..MenuWindow - 1  BY <1>1
  <2>2. \A i \in Visible : i - Gear + MenuSize \in 0..MenuWindow - 1  BY <1>1
  <2> QED BY <1>2, <2>1, <2>2 DEF MenuMarked
<1>4. MenuMarked \subseteq Bits
  <2>1. \A s \in 0..MenuWindow - 1 : s \in Bits  BY <1>1 DEF Bits
  <2> QED BY <1>3, <2>1
<1>5. /\ Cardinality(MenuMarked) \in Nat /\ Cardinality(MenuMarked) <= 128
      /\ MenuMarked # {} => Cardinality(MenuMarked) >= 1
  BY <1>4, BitsCount
<1>6. MenuCount \in Nat /\ MenuCount <= 128 /\ (MenuWhole \/ MenuMarked # {} => MenuCount >= 1)
  BY <1>5 DEF MenuCount
<1>7. lastId \in Nat /\ done.menus <= MaxMenus /\ MaxMenus <= MaxId /\ MaxMenus \in Nat /\ MaxId \in Nat
      /\ done.menus \in Nat
  BY MenuShapes DEF SightInv, Counted, Regular
<1>8. CASE open.id = 0
  <2>1. lastId < done.menus  BY <1>8 DEF SightInv, Counted
  <2>2. lastId < MaxId  BY <1>7, <2>1
  <2>3. lastId % MaxId = lastId
    <3> DEFINE x == lastId
    <3>1. x \in Nat /\ MaxId \in Nat /\ x < MaxId  BY <1>7, <2>2
    <3> HIDE DEF x
    <3>2. x % MaxId = x  BY <3>1
    <3> QED BY <3>2 DEF x
  <2>4. MenuId = lastId + 1  BY <1>8, <2>3 DEF MenuId, NextContainerId
  <2> QED BY <1>3, <1>4, <1>6, <1>7, <1>8, <2>4
<1>9. CASE open.id # 0
  <2>1. MenuId = open.id /\ open.id = lastId /\ open.id \in Nat
    BY <1>9, MenuShapes DEF MenuId, SightInv, Counted
  <2> QED BY <1>3, <1>4, <1>6, <1>9, <2>1
<1> QED BY <1>8, <1>9

LEMMA MenuRanges ==
  ASSUME Regular, MenuInv, SightInv, StoreInv, Ranges, IsOpen, Sync
  PROVE  Ranges'
<1>1. NewStill  BY MenuSent
<1>2. /\ MenuCount \in Nat /\ MenuCount <= 128 /\ MenuId \in Nat \ {0}
      /\ MenuId = lastId + 1 \/ MenuId = lastId
  BY MenuFacts
<1>3. GoodMarks(open) /\ GoodDirty(inv)  BY DEF Ranges
<1>4. GoodMarks(open')
  <2>1. open.state \in StateIds  BY <1>3 DEF GoodMarks
  <2>2. NextState(open.state, MenuCount) \in StateIds  BY <1>2, <2>1, NextStates
  <2>3. {} \subseteq 0..MenuSize - 1  OBVIOUS
  <2> QED BY <1>1, <2>2, <2>3 DEF NewStill, GoodMarks
<1>5. GoodDirty(inv')
  <2>1. inv.dirty.slots \subseteq 0..Size - 1  BY <1>3 DEF GoodDirty, DirtyMarks
  <2>2. Kept \subseteq 0..Size - 1  BY <2>1 DEF Kept, Hidden
  <2>3. [Clean EXCEPT !.slots = Kept] \in DirtyMarks  BY <2>2 DEF Clean, DirtyMarks
  <2> QED BY <1>1, <1>3, <2>3 DEF NewStill, GoodDirty
<1>6. \A k \in Indexes(up) : GoodRequest(k)'
  <2>1. lastId \in Nat /\ \A x \in 1..lastId : x \in 1..lastId'
    BY <1>1, <1>2, MenuShapes DEF NewStill
  <2>2. up' = up  BY <1>1 DEF NewStill
  <2> QED BY <2>1, <2>2 DEF Ranges, GoodRequest
<1>7. up' = up /\ client' = client /\ phase' = "ingest" /\ open'.id # 0  BY <1>1, <1>2 DEF NewStill
<1> QED BY <1>4, <1>5, <1>6, <1>7 DEF Ranges, Indexes, GoodMarks, GoodDirty

LEMMA MenuShown ==
  ASSUME Sizes, StoreInv, IsOpen, NewStill, MenuId # 0
  PROVE  /\ Unaltered /\ ToShow = WindowOf(open.slots, inv.slots)
         /\ \A p, n : OnShow(p, n)' => ~Due(p, n)'
<1>1. Unaltered  BY DEF Unaltered, NewStill, StoreInv
<1>2. ToShow = WindowOf(open.slots, inv.slots)  BY DEF ToShow, NewStill
<1>3. Kept \cap Visible = {}  BY DEF Kept, Hidden
<1>4. ASSUME NEW p, NEW n, OnShow(p, n)' PROVE ~Due(p, n)'
  <2>1. p = "inv" => n \in Visible  BY <1>4 DEF OnShow, NewStill
  <2> QED BY <1>3, <1>4, <2>1 DEF NewStill, OnShow, Due, Whole
<1> QED BY <1>1, <1>2, <1>4

LEMMA OldMenuSynced ==
  ASSUME Regular, MenuInv, SightInv, StoreInv, Ranges, IsOpen, open.id # 0, Sync
  PROVE  \E more : Still(more)
<1>1. NewStill /\ down' = down \o <<>> \o MenuRest  BY MenuSent
<1>2. /\ MenuMarked \subseteq Bits /\ MenuMarked \subseteq 0..MenuWindow - 1
      /\ MenuCount \in Nat /\ MenuCount <= 128 /\ (MenuWhole \/ MenuMarked # {} => MenuCount >= 1)
      /\ MenuId = open.id
  BY MenuFacts
<1>3. Sizes /\ IsList(down)  BY MenuShapes DEF Regular
<1>4. down' = down \o MenuRest
  <2>1. down \o <<>> = down  BY <1>3, NothingAdded
  <2> QED BY <1>1, <2>1
<1>5. /\ Unaltered /\ ToShow = WindowOf(open.slots, inv.slots)
      /\ \A p, n : OnShow(p, n)' => ~Due(p, n)'
  BY <1>1, <1>2, <1>3, MenuShown
<1>6. open'.id = open.id /\ open'.id = MenuId /\ up' = up /\ phase' = "ingest" /\ client' = client
  BY <1>1, <1>2 DEF NewStill
<1>7. \A p, n : OnShow(p, n) => ~Due(p, n)'  BY <1>5, <1>6 DEF OnShow
<1>8. /\ ServerDrag' = ServerDrag /\ (ReadOnly' <=> ReadOnly)
      /\ StateId' = NextState(open.state, MenuCount) /\ StateId = open.state
  BY <1>1, <1>6 DEF NewStill, ServerDrag, ReadOnly, StateId
<1>9. MenuWhole \/ MenuMarked # {} => StateId' # StateId
  <2>1. open.state \in StateIds  BY DEF Ranges, GoodMarks
  <2>2. MenuCount >= 1 => NextState(open.state, MenuCount) # open.state  BY <1>2, <2>1, NextStates
  <2> QED BY <1>2, <1>8, <2>2
<1>10. CASE MenuWhole
  <2> DEFINE c == <<Content(open'.id, open.state, ToShow)>>
  <2>1. MenuRest = c  BY <1>5, <1>6, <1>10 DEF MenuRest
  <2>2. IsList(c)  BY Single
  <2>3. Adds1(c)  BY <1>4, <1>6, <2>1, <2>2 DEF Adds1
  <2>4. StateId' # StateId  BY <1>9, <1>10
  <2> HIDE DEF c
  <2> QED BY <1>3, <1>5, <1>6, <1>7, <1>8, <2>3, <2>4, WholeStill DEF c
<1>11. CASE ~MenuWhole
  <2> DEFINE c == SlotPackets(open'.id, open.state, MenuMarked, ToShow) \o CursorPacket
  <2>1. MenuRest = c  BY <1>5, <1>6, <1>11 DEF MenuRest
  <2>0. open'.id # 0 => MenuMarked \subseteq 0..MenuWindow - 1  BY <1>2
  <2>2. IsList(c)
    <3>1. Body(c)  BY <1>2, <1>3, <1>5, <2>0, PartsSay
    <3> QED BY <3>1 DEF Body
  <2>3. Adds1(c)  BY <1>4, <1>6, <2>1, <2>2 DEF Adds1
  <2>4. MenuMarked # {} => StateId' # StateId  BY <1>9
  <2>5. ~Whole  BY <1>11 DEF Whole, MenuWhole
  <2>6. ASSUME NEW p, NEW n, OnShow(p, n), Due(p, n), p # "cursor"
        PROVE  \E s \in MenuMarked : Where(s) = p /\ Which(s) = n
    <3>1. PICK s \in 0..MenuWindow - 1 :
            /\ Where(s) = p /\ Which(s) = n
            /\ p = "menu" => s = n /\ s < MenuSize
            /\ p = "inv" => ~(s < MenuSize) /\ n = InInventory(s) /\ s = n - Gear + MenuSize
      BY <1>3, <2>6, OnWindow
    <3>2. s \in MenuMarked
      <4>1. CASE p = "menu"  BY <2>5, <2>6, <3>1, <4>1 DEF Due, MenuMarked
      <4>2. CASE p = "inv"
        <5>1. n \in inv.dirty.slots \cap Visible  BY <2>5, <2>6, <4>2 DEF Due, OnShow
        <5> QED BY <3>1, <4>2, <5>1 DEF MenuMarked
      <4> QED BY <2>6, <4>1, <4>2 DEF OnShow
    <3> QED BY <3>1, <3>2
  <2>7. \A p, n : OnShow(p, n) /\ Due(p, n) /\ p # "cursor" =>
          \E s \in MenuMarked : Where(s) = p /\ Which(s) = n
    BY <2>6
  <2> HIDE DEF c
  <2> QED BY <1>2, <1>3, <1>5, <1>6, <1>7, <1>8, <2>0, <2>3, <2>4, <2>5, <2>7, PartsStill DEF c
<1> QED BY <1>10, <1>11

LEMMA NewMenuSynced ==
  ASSUME Regular, MenuInv, SightInv, StoreInv, Ranges, IsOpen, open.id = 0, Sync
  PROVE  \E m, c : First(m, c)
<1>1. NewStill /\ down' = down \o <<Announcement>> \o MenuRest  BY MenuSent
<1>2. MenuId \in Nat \ {0} /\ MenuId = lastId + 1  BY MenuFacts
<1>3. Sizes /\ IsList(down)  BY MenuShapes DEF Regular
<1>4. /\ Unaltered /\ ToShow = WindowOf(open.slots, inv.slots)
  BY <1>1, <1>2, <1>3, MenuShown
<1>5. open'.id = MenuId /\ up' = up /\ client' = client  BY <1>1 DEF NewStill
<1>6. PICK c : c = Content(open'.id, open.state, ToShow)  OBVIOUS
<1>7. MenuRest = <<c>>  BY <1>4, <1>5, <1>6 DEF MenuRest, MenuWhole
<1>8. Body(<<c>>) /\ GoodWord(c) /\ ~Screens(c) /\ \A p, n : OnShow(p, n)' => Names(c, p, n)
  BY <1>3, <1>4, <1>6, ContentSays
<1>9. PICK m : m = Announcement  OBVIOUS
<1>10. m.type = "open" /\ m.id = open'.id  BY <1>5, <1>9 DEF Announcement
<1>11. down' = down \o <<m, c>>
  <2>1. IsList(<<m>>) /\ IsList(<<c>>)  BY Single
  <2>2. (down \o <<m>>) \o <<c>> = down \o (<<m>> \o <<c>>)  BY <1>3, <2>1, Associative
  <2>3. <<m>> \o <<c>> = <<m, c>>
    <3>1. <<m>> \in Seq({m, c}) /\ c \in {m, c}  OBVIOUS
    <3> DEFINE S == {m, c}
               xs == <<m>> \o <<c>>
               ys == <<m, c>>
    <3>2. /\ ys \in Seq(S) /\ Len(ys) = 2 /\ ys[1] = m /\ ys[2] = c
          /\ <<m>> \in Seq(S) /\ Len(<<m>>) = 1 /\ <<c>> \in Seq(S) /\ Len(<<c>>) = 1
          /\ <<m>>[1] = m /\ <<c>>[1] = c
      OBVIOUS
    <3>3. xs \in Seq(S) /\ Len(xs) = 2 /\ xs[1] = m /\ xs[2] = c
      BY ONLY <3>2, ConcatProperties
    <3> HIDE DEF xs, ys, S
    <3>4. \A i \in 1..2 : xs[i] = ys[i]
      <4>1. \A i \in 1..2 : i = 1 \/ i = 2  OBVIOUS
      <4> QED BY <3>2, <3>3, <4>1
    <3>5. xs = ys  BY ONLY <3>2, <3>3, <3>4, SeqEqual
    <3> QED BY <3>5 DEF xs, ys
  <2> QED BY <1>1, <1>7, <1>9, <2>2, <2>3
<1>12. IsList(<<m, c>>)
  <2>1. <<m, c>> \in Seq({m, c})  OBVIOUS
  <2> QED BY <2>1 DEF IsList
<1>13. 1 \in 1..Len(<<c>>) /\ <<c>>[1] = c  OBVIOUS
<1>14. (Fills(c) => c.id = open'.id)
       /\ \A p, n : OnShow(p, n)' /\ Names(c, p, n) => Says(c, p, n) = AtServer(p, n)'
  <2> DEFINE xs == <<c>>
  <2>1. xs[1] = c /\ 1 \in 1..Len(xs)  BY <1>13
  <2> HIDE DEF xs
  <2>2. Body(xs)  BY <1>8 DEF xs
  <2> QED BY <2>1, <2>2 DEF Body
<1>15. Adds1(<<m, c>>)  BY <1>5, <1>11, <1>12 DEF Adds1
<1>16. First(m, c)  BY <1>2, <1>5, <1>8, <1>10, <1>14, <1>15 DEF First
<1> QED BY <1>16

LEMMA SyncSettles ==
  ASSUME Regular, MenuInv, SightInv, StoreInv, Ranges, Picture, Sync, Steady
  PROVE  Ranges' /\ Picture'
<1>0. Sizes /\ IsList(up)  BY DEF Regular, SightInv, Lists
<1>1. CASE ~IsOpen
  <2>1. PICK more : Still(more)  BY <1>1, InventorySynced
  <2>2. Picture'  BY <1>0, <2>1, StillSettles
  <2> QED BY <1>1, <2>2, InventorySynced
<1>2. CASE IsOpen /\ open.id # 0
  <2>1. PICK more : Still(more)  BY <1>2, OldMenuSynced
  <2>2. Picture'  BY <1>0, <2>1, StillSettles
  <2> QED BY <1>2, <2>2, MenuRanges
<1>3. CASE IsOpen /\ open.id = 0
  <2>1. PICK m, c : First(m, c)  BY <1>3, NewMenuSynced
  <2>2. Picture'  BY <2>1, FirstSettles
  <2> QED BY <1>3, <2>2, MenuRanges
<1> QED BY <1>1, <1>2, <1>3

-----------------------------------------------------------------------------
LEMMA SettleStart == ASSUME Sizes, Init PROVE SettleInv
<1>1. /\ phase = "ingest" /\ open.gen = 0 /\ open.id = 0 /\ up = <<>> /\ down = <<>>
      /\ inv = [slots |-> Initial, cursor |-> Empty, drag |-> NoDrag, state |-> 0, dirty |-> Clean]
      /\ client = [win |-> 0, gen |-> 0, inv |-> Initial, menu |-> <<>>, cursor |-> Empty,
                   drag |-> NoDrag, state |-> [inventory |-> 0, menu |-> 0]]
  BY DEF Init, Closed
<1>2. Indexes(up) = {} /\ Indexes(down) = {} /\ IsList(down)  BY <1>1, Nothing
<1>3. /\ inv.slots = Initial /\ inv.cursor = Empty /\ inv.state = 0 /\ inv.dirty = Clean
      /\ client.inv = Initial /\ client.cursor = Empty /\ client.win = 0 /\ client.drag = NoDrag
  BY <1>1
<1>4. Ranges
  <2>1. GoodDirty(inv)  BY <1>3 DEF GoodDirty, Clean, DirtyMarks, StateIds
  <2>2. client.drag \in Drags(IF client.win = 0 THEN Size ELSE MenuWindow)
    <3>1. <<>> \in Seq(0..Size - 1)  OBVIOUS
    <3> QED BY <1>3, <3>1 DEF Drags, NoDrag
  <2> QED BY <1>1, <1>2, <2>1, <2>2 DEF Ranges, IsOpen
<1>5. Words /\ Channel  BY <1>2 DEF Words, Channel
<1>6. GoodClient(client)
  <2>1. Initial = [i \in 0..Size - 1 |-> Initial[i]]  BY DEF Sizes, Slots
  <2> QED BY <1>1, <1>3, <2>1 DEF GoodClient
<1>7. Once /\ ~Closing  BY <1>1 DEF Once, Closing
<1>8. \A j : ~Latest(j)  BY <1>2 DEF Latest
<1>9. Ends /\ Covered  BY <1>1, <1>3, <1>7, <1>8 DEF Ends, Covered
<1>10. Heard
  <2>1. ASSUME NEW p, NEW n, OnShow(p, n) PROVE HeardAs(p, n, AtServer(p, n))
    <3>1. AtClient(p, n) = AtServer(p, n)  BY <1>1, <1>3, <2>1 DEF OnShow, AtClient, AtServer
    <3> QED BY <1>2, <3>1 DEF HeardAs
  <2> QED BY <2>1 DEF Heard
<1>11. DragsMatch  BY <1>3 DEF DragsMatch
<1> QED BY <1>4, <1>5, <1>6, <1>7, <1>9, <1>10, <1>11 DEF SettleInv, Picture, Informed

LEMMA PhaseSettles ==
  ASSUME Ranges, Picture, DrainClick \/ EndAnswer \/ EndIngest \/ UNCHANGED vars
  PROVE  Ranges' /\ Picture'
<1>1. /\ UNCHANGED <<inv, open, lastId, client, up, down>>
      /\ phase' \in {phase, "update", "answer"}
  BY DEF DrainClick, EndAnswer, EndIngest, vars
<1>2. (Closing' <=> Closing) /\ (Asked' <=> Asked)  BY <1>1 DEF Closing, Asked, Indexes
<1>3. Picture'
  <2>1. phase' = "ingest" => phase = "ingest"  BY <1>1
  <2> QED BY <1>1, <1>2, <2>1, StillKeeps
<1>4. Ranges'
  <2>1. \A k : GoodRequest(k)' <=> GoodRequest(k)  BY <1>1 DEF GoodRequest
  <2>2. GoodDirty(inv)' /\ (IsOpen' => GoodMarks(open)')
    BY <1>1 DEF Ranges, GoodDirty, GoodMarks, IsOpen
  <2>3. /\ phase' \in {"ingest", "update", "answer", "gone"}
        /\ phase' = "ingest" /\ IsOpen' => open'.id # 0
    BY <1>1 DEF Ranges, IsOpen
  <2> QED BY <1>1, <2>1, <2>2, <2>3 DEF Ranges, Indexes
<1> QED BY <1>3, <1>4

(* Once the player is gone, nothing happens any more. *)
LEMMA GoneStays == ASSUME Regular, phase = "gone", [Next]_vars PROVE phase' = "gone"
<1>1. GameIn \subseteq {"update"} /\ "gone" \notin {"update", "ingest", "answer"}  BY DEF Regular
<1>2. CASE UNCHANGED vars  BY <1>2 DEF vars
<1>3. ~\E click \in Clicks : ClientClicks(click)  BY DEF ClientClicks
<1>4. ~ClientCloses /\ ~ClientReads /\ ~InventoryClick /\ ~MenuClick /\ ~IgnoreClick /\ ~ReceiveClose
      /\ ~Quit /\ ~EndIngest /\ ~EndAnswer
  BY DEF ClientCloses, ClientReads, InventoryClick, MenuClick, IgnoreClick, ReceiveClose, Quit,
         EndIngest, EndAnswer
<1>5. ~GameRuns  BY <1>1 DEF GameRuns
<1>6. ~GameOpens /\ ~GameCloses /\ ~DrainClick /\ ~Sync
  BY <1>1, <1>5 DEF GameOpens, GameCloses, DrainClick, Sync
<1>7. ~Edits /\ \A x \in Items : ~PickupItems(x)  BY <1>1, <1>5 DEF Edits, PickupItems
<1>8. /\ \A i \in 0..Size - 1 : ~TakeStack(i)
      /\ \A s \in 0..MenuSize - 1 : \A stack \in {Empty} \cup {o[s] : o \in Offers} : ~EditMenu(s, stack)
  BY <1>7 DEF TakeStack, EditMenu
<1> QED BY <1>2, <1>3, <1>4, <1>6, <1>7, <1>8 DEF Next, StepWith

LEMMA SettleStep ==
  ASSUME Regular, MenuInv, SightInv, StoreInv, SettleInv, [Next]_vars, Waits, Steady
  PROVE  SettleInv'
<1>1. CASE phase = "gone"  BY <1>1, GoneStays DEF SettleInv
<1>2. CASE phase # "gone"
  <2>0. Ranges /\ Picture  BY <1>2 DEF SettleInv
  <2>1. CASE \E click \in Clicks : ClientClicks(click)
    <3>1. PICK click : ClientClicks(click)  BY <2>1
    <3>2. Ranges' /\ Picture'  BY <2>0, <3>1, ClickSettles
    <3> QED BY <3>2 DEF SettleInv
  <2>2. CASE ClientCloses  BY <2>0, <2>2, ClosingSettles DEF SettleInv
  <2>3. CASE ClientReads  BY <2>0, <2>3, ReadSettles DEF SettleInv
  <2>4. CASE InventoryClick  BY <2>0, <2>4, InventoryClickSettles DEF SettleInv
  <2>5. CASE MenuClick
    <3>1. Ranges' /\ Picture'  BY <2>0, <2>5, ReadOnlyClickSettles, EditableClickSettles
    <3> QED BY <3>1 DEF SettleInv
  <2>6. CASE IgnoreClick  BY <2>0, <2>6, IgnoreSettles DEF SettleInv
  <2>7. CASE ReceiveClose  BY <2>0, <2>7, ReceiveSettles DEF SettleInv
  <2>8. CASE Quit  BY <2>8 DEF SettleInv, Quit
  <2>9. CASE GameOpens \/ GameCloses  BY <2>0, <2>9, GameSettles DEF SettleInv
  <2>10. CASE \E i \in 0..Size - 1 : TakeStack(i)  BY <2>0, <2>10, TakeSettles DEF SettleInv
  <2>11. CASE \E s \in 0..MenuSize - 1 :
                \E stack \in {Empty} \cup {o[s] : o \in Offers} : EditMenu(s, stack)
    <3>1. PICK s \in 0..MenuSize - 1 : \E stack : EditMenu(s, stack)  BY <2>11
    <3>2. PICK stack : EditMenu(s, stack)  BY <3>1
    <3>3. Ranges' /\ Picture'  BY <2>0, <3>2, EditSettles
    <3> QED BY <3>3 DEF SettleInv
  <2>12. CASE \E x \in Items : PickupItems(x)  BY <2>0, <2>12, PickupSettles DEF SettleInv
  <2>13. CASE DrainClick \/ EndAnswer \/ EndIngest \/ UNCHANGED vars
    BY <2>0, <2>13, PhaseSettles DEF SettleInv
  <2>14. CASE Sync  BY <2>0, <2>14, SyncSettles DEF SettleInv
  <2> QED BY <2>1, <2>2, <2>3, <2>4, <2>5, <2>6, <2>7, <2>8, <2>9, <2>10, <2>11, <2>12, <2>13, <2>14
          DEF Next, StepWith
<1> QED BY <1>1, <1>2

(* sync_containers, the marks, the state ids: once nothing is marked or on  *)
(* its way, the client shows the window, the slots and the cursor that the  *)
(* server has, whatever the player clicked and the game changed meanwhile.  *)
(* It is about players who wait for the answer to a click before the next   *)
(* one, and about state ids that do not come round meanwhile.               *)
THEOREM WindowsSettle ==
  ASSUME Regular PROVE Spec /\ [][Waits]_vars /\ [][Steady]_vars => []Settled
<1>1. /\ MaxMenus \in Nat /\ MaxId \in Nat \ {0} /\ MaxMenus <= MaxId /\ StackSizes /\ Sizes /\ ~Creative
  BY DEF Regular
<1> DEFINE I == MenuInv /\ SightInv /\ StoreInv /\ SettleInv
<1>2. Init => I  BY <1>1, MenusStart, SightsStart, StoresStart, SettleStart
<1>3. I /\ [Next]_vars /\ [Waits]_vars /\ [Steady]_vars => I'
  <2> SUFFICES ASSUME I, [Next]_vars, [Waits]_vars, [Steady]_vars PROVE I'
    OBVIOUS
  <2>1. MenuInv' /\ SightInv' /\ StoreInv'  BY <1>1, MenusStep, SightsStep, StoresStep
  <2>2. CASE UNCHANGED vars
    <3>1. SettleInv'
      <4>1. CASE phase = "gone"  BY <2>2, <4>1 DEF SettleInv, vars
      <4>2. CASE phase # "gone"  BY <2>2, <4>2, PhaseSettles DEF SettleInv
      <4> QED BY <4>1, <4>2
    <3> QED BY <2>1, <3>1
  <2>3. CASE Waits /\ Steady
    <3>1. SettleInv'  BY <2>3, SettleStep
    <3> QED BY <2>1, <3>1
  <2> QED BY <2>2, <2>3
<1>4. I => Settled  BY <1>1, InvSettles
<1> HIDE DEF I
<1> QED BY <1>2, <1>3, <1>4, PTL DEF Spec
=============================================================================
