--------------------------- MODULE StreamingProofs ---------------------------
(***************************************************************************)
(* What a client holds is what LoadedChunks names and shows the world as it *)
(* is, and no chunk in view is forgotten, for any players, dimensions,      *)
(* chunks, radii, view distances, budgets and caps.                         *)
(***************************************************************************)
EXTENDS Streaming, TLAPS

-----------------------------------------------------------------------------
(* The inductive invariant *)

Components ==
  [stage : {"config", "joined", "ready", "gone"}, dim : Dimension, at : Column,
   cur : Column, vd : Int, view : ClientView \cup {ServerView},
   loaded : SUBSET Column, backlog : {None} \cup SUBSET Column,
   budget : Budget \cup {Unlimited}]

Server ==
  /\ phase \in {"game", "stream"}
  /\ index \subseteq Chunk /\ pending \subseteq index /\ fresh \subseteq index
  /\ {Overworld} \X InRadius(SpawnColumn, SpawnRadius) \subseteq index
  /\ edits \in 0..MaxEdits
  /\ world \in [Chunk -> Content]
  /\ \A k \in Chunk : world[k].be # 0 => world[k].block = "sign"

Players ==
  /\ player \in [Player -> Components]
  /\ todo \subseteq Ready /\ (phase = "game" => todo = {})
  /\ \A p \in Player : player[p].stage = "config" =>
       /\ player[p].dim = Overworld /\ player[p].cur = SpawnColumn
       /\ player[p].loaded = {} /\ player[p].backlog = None

(* What a client holds of block entities stands on signs. *)
Clients ==
  /\ DOMAIN copy = Player /\ DOMAIN missed = Player
  /\ \A p \in Player : missed[p] \subseteq DOMAIN copy[p]
  /\ \A p \in Player : \A k \in DOMAIN copy[p] :
       copy[p][k] \in Content /\ (copy[p][k].be # 0 => copy[p][k].block = "sign")

StreamInv == Server /\ Players /\ Clients /\ CopiesTrue /\ NothingForgotten

(* The parts of the invariant a step has to keep, player by player *)
HeldBy(p) == IF Has(p) THEN {player[p].dim} \X player[p].loaded ELSE {}

ClientOf(p) ==
  /\ missed[p] \subseteq DOMAIN copy[p]
  /\ DOMAIN copy[p] = HeldBy(p)
  /\ \A k \in DOMAIN copy[p] :
       copy[p][k] \in Content /\ (copy[p][k].be # 0 => copy[p][k].block = "sign")
  /\ \A k \in DOMAIN copy[p] \ missed[p] :
       /\ copy[p][k].block = world[k].block
       /\ k \notin pending => copy[p][k].be = world[k].be

ListOf(p) ==
  Has(p) =>
    LET range == InRadius(player[p].cur, player[p].vd)
        left  == player[p].backlog
    IN \/ left = {}
       \/ left = None /\ player[p].loaded = range
       \/ left # None /\ player[p].loaded \cap left = {}
                      /\ player[p].loaded \cup left = range

(***************************************************************************)
(* The invariant in these terms.                                           *)
(***************************************************************************)
LEMMA StreamParts ==
  /\ StreamInv <=> /\ Server /\ Players
                   /\ DOMAIN copy = Player /\ DOMAIN missed = Player
                   /\ \A p \in Player : ClientOf(p) /\ ListOf(p)
  /\ StreamInv' <=> /\ Server' /\ Players'
                    /\ DOMAIN copy' = Player /\ DOMAIN missed' = Player
                    /\ \A p \in Player : ClientOf(p)' /\ ListOf(p)'
BY DEF StreamInv, Clients, CopiesTrue, NothingForgotten, ClientOf, ListOf, HeldBy

(***************************************************************************)
(* Chunks within a radius are chunks.                                      *)
(***************************************************************************)
LEMMA RadiusColumns == ASSUME NEW c, NEW r PROVE InRadius(c, r) \subseteq Column
BY DEF InRadius

(***************************************************************************)
(* What a client keeps of its copy, and what is stored there.              *)
(***************************************************************************)
LEMMA Stored ==
  ASSUME NEW f, NEW S
  PROVE  /\ DOMAIN Drop(f, S) = DOMAIN f \ S
         /\ \A k \in DOMAIN f \ S : Drop(f, S)[k] = f[k]
         /\ DOMAIN Store(f, S) = DOMAIN f \cup S
         /\ \A k \in S : Store(f, S)[k] = world[k]
         /\ \A k \in DOMAIN f \ S : Store(f, S)[k] = f[k]
BY DEF Drop, Store

(***************************************************************************)
(* A block keeps its block entity only if it can host one.                 *)
(***************************************************************************)
LEMMA HostedContent ==
  ASSUME NEW content \in Content, NEW block \in {"stone", "sign"},
         StreamingAssumption
  PROVE  /\ Hosted(content, block) \in Content
         /\ Hosted(content, block).block = block
         /\ Hosted(content, block).be = IF block = "sign" THEN content.be ELSE 0
BY DEF Hosted, Content, StreamingAssumption

(***************************************************************************)
(* The client of a player nothing happened to stays true, if what it holds *)
(* did not change.                                                         *)
(***************************************************************************)
LEMMA ClientSame ==
  ASSUME NEW p, ClientOf(p), copy'[p] = copy[p], missed'[p] = missed[p],
         player'[p].stage = player[p].stage, player'[p].dim = player[p].dim,
         player'[p].loaded = player[p].loaded, world' = world, pending' = pending
  PROVE  ClientOf(p)'
BY DEF ClientOf, HeldBy, Has, Content

LEMMA ListSame ==
  ASSUME NEW p, ListOf(p), player'[p].stage = player[p].stage,
         player'[p].cur = player[p].cur, player'[p].vd = player[p].vd,
         player'[p].loaded = player[p].loaded,
         player'[p].backlog = player[p].backlog
  PROVE  ListOf(p)'
BY DEF ListOf, Has

(***************************************************************************)
(* Nothing is loaded at startup but the chunks around the spawn point.     *)
(***************************************************************************)
LEMMA StreamStarts == Init => StreamInv
<1> SUFFICES ASSUME Init PROVE StreamInv
  OBVIOUS
<1> USE StreamingAssumption
<1>1. [block |-> "stone", be |-> 0] \in Content
  BY DEF StreamingAssumption, Content
<1>2. Server
  <2>1. index \subseteq Chunk
    BY RadiusColumns DEF Init, StreamingAssumption, Chunk
  <2>2. edits \in 0..MaxEdits
    BY DEF Init, StreamingAssumption
  <2>3. world \in [Chunk -> Content] /\ \A k \in Chunk : world[k].be = 0
    BY <1>1 DEF Init
  <2> QED
    BY <2>1, <2>2, <2>3 DEF Init, Server
<1>3. Players
  <2>1. Absent \in Components
    BY DEF StreamingAssumption, Absent, Components
  <2>2. player \in [Player -> Components]
    BY <2>1 DEF Init
  <2> QED
    BY <2>2 DEF Init, Players, Absent
<1>4. ASSUME NEW p \in Player PROVE ClientOf(p) /\ ListOf(p)
  <2>1. ~Has(p)
    BY DEF Init, Has, Absent
  <2>2. DOMAIN copy[p] = {}
    BY DEF Init
  <2>3. missed[p] = {}
    BY DEF Init
  <2> QED
    BY <2>1, <2>2, <2>3 DEF ClientOf, ListOf, HeldBy
<1> QED
  BY <1>2, <1>3, <1>4, StreamParts DEF Init

-----------------------------------------------------------------------------
(* The game *)

(***************************************************************************)
(* A step that changes components of one player, and of its client.        *)
(***************************************************************************)
LEMMA OneChanges ==
  ASSUME StreamInv, NEW p \in Player, Server',
         \A q \in Player \ {p} : /\ player'[q] = player[q]
                                 /\ copy'[q] = copy[q] /\ missed'[q] = missed[q],
         world' = world, pending' = pending,
         DOMAIN copy' = Player, DOMAIN missed' = Player,
         Players', ClientOf(p)', ListOf(p)'
  PROVE  StreamInv'
<1>1. ASSUME NEW q \in Player, q # p PROVE ClientOf(q)' /\ ListOf(q)'
  <2>1. ClientOf(q) /\ ListOf(q)
    BY StreamParts
  <2> QED
    BY <1>1, <2>1, ClientSame, ListSame
<1> QED
  BY <1>1, StreamParts

(***************************************************************************)
(* The game's part of the server does not change with its players.         *)
(***************************************************************************)
LEMMA ServerSame ==
  ASSUME Server, UNCHANGED <<phase, fresh, index, world, pending, edits>>
  PROVE  Server'
BY DEF Server, Content

(***************************************************************************)
(* The players but one keep their components, and it gets well-formed ones. *)
(***************************************************************************)
LEMMA PlayersKeep ==
  ASSUME Players, NEW p \in Player, NEW new \in Components,
         player' = [player EXCEPT ![p] = new], new.stage # "config",
         phase' = phase, todo' \subseteq todo, p \in todo' => new.stage = "ready"
  PROVE  Players'
<1>1. player' \in [Player -> Components]
  BY DEF Players
<1>2. player'[p] = new /\ \A q \in Player \ {p} : player'[q] = player[q]
  BY DEF Players
<1>3. todo' \subseteq Ready'
  BY <1>2 DEF Players, Ready
<1> QED
  BY <1>1, <1>2, <1>3 DEF Players

(***************************************************************************)
(* A joining player gets the chunks around the spawn point: all of them    *)
(* were generated at startup.                                              *)
(***************************************************************************)
LEMMA JoinKeeps ==
  ASSUME StreamInv, NEW p \in Player, Join(p) PROVE StreamInv'
<1> USE StreamingAssumption
<1> DEFINE near == InRadius(SpawnColumn, InitialRadius)
           sent == {Overworld} \X near
           new == [player[p] EXCEPT !.stage = "joined", !.vd = InitialRadius,
                                    !.loaded = near]
<1>1. /\ Server /\ Players /\ ClientOf(p) /\ ListOf(p)
      /\ DOMAIN copy = Player /\ DOMAIN missed = Player
  BY StreamParts
<1>2. near \subseteq InRadius(SpawnColumn, SpawnRadius)
  <2>1. ASSUME NEW x \in Column, x - SpawnColumn \in (-InitialRadius)..InitialRadius
        PROVE  x - SpawnColumn \in (-SpawnRadius)..SpawnRadius
    BY <2>1 DEF StreamingAssumption
  <2> QED
    BY <2>1 DEF InRadius
<1>3. sent \cap index = sent
  BY <1>1, <1>2 DEF Server
<1>4. {k[2] : k \in sent} = near
  <2>1. ASSUME NEW c \in near PROVE <<Overworld, c>> \in sent /\ <<Overworld, c>>[2] = c
    OBVIOUS
  <2>2. ASSUME NEW k \in sent PROVE k[2] \in near
    OBVIOUS
  <2> HIDE DEF sent, near
  <2>3. ASSUME NEW c \in near PROVE \E k \in sent : k[2] = c
    BY <2>1
  <2> QED
    BY <2>2, <2>3
<1>5. player' = [player EXCEPT ![p] = new] /\ copy' = [copy EXCEPT ![p] = Store(@, sent)]
  BY <1>3, <1>4 DEF Join
<1>6. player[p] \in Components /\ player[p].stage = "config"
  BY <1>1 DEF Players, Join
<1>7. /\ player[p].dim = Overworld /\ player[p].cur = SpawnColumn
      /\ player[p].backlog = None
  BY <1>1, <1>6 DEF Players
<1>8. new \in Components
  <2>1. near \in SUBSET Column /\ InitialRadius \in Int
    BY RadiusColumns DEF StreamingAssumption
  <2> HIDE DEF near
  <2> QED
    BY <1>6, <2>1 DEF Components
<1>9. /\ new.stage = "joined" /\ new.dim = Overworld /\ new.cur = SpawnColumn
      /\ new.vd = InitialRadius /\ new.loaded = near /\ new.backlog = None
  BY <1>6, <1>7 DEF Components
<1> HIDE DEF new
<1>10. player'[p] = new /\ \A q \in Player \ {p} : player'[q] = player[q]
  BY <1>1, <1>5 DEF Players
<1>11. p \notin todo
  BY <1>1, <1>6 DEF Players, Ready
<1>12. Players'
  BY <1>1, <1>5, <1>8, <1>9, <1>11, PlayersKeep DEF Join
<1>13. Server'
  BY <1>1, ServerSame DEF Join
<1>14. ListOf(p)'
  BY <1>9, <1>10 DEF ListOf
<1>15. ClientOf(p)'
  <2>1. DOMAIN copy[p] = {} /\ missed[p] = {}
    BY <1>1, <1>6 DEF ClientOf, HeldBy, Has
  <2>2. copy'[p] = Store(copy[p], sent) /\ missed'[p] = {}
    BY <1>1, <1>5, <2>1 DEF Join
  <2>3. DOMAIN copy'[p] = sent /\ \A k \in sent : copy'[p][k] = world[k]
    <3> HIDE DEF sent
    <3>1. DOMAIN copy'[p] = DOMAIN copy[p] \cup sent
      BY <2>2, Stored
    <3>2. \A k \in sent : Store(copy[p], sent)[k] = world[k]
      BY DEF Store
    <3> QED
      BY <2>1, <2>2, <3>1, <3>2
  <2>4. HeldBy(p)' = sent
    BY <1>9, <1>10 DEF HeldBy, Has
  <2>5. sent \subseteq Chunk /\ world' = world
    BY RadiusColumns DEF Join, Chunk, StreamingAssumption
  <2> QED
    BY <1>1, <2>2, <2>3, <2>4, <2>5 DEF ClientOf, Server
<1> QED
  <2>1. /\ \A q \in Player \ {p} : copy'[q] = copy[q] /\ missed'[q] = missed[q]
        /\ DOMAIN copy' = Player /\ DOMAIN missed' = Player
        /\ world' = world /\ pending' = pending
    BY <1>1, <1>5 DEF Join
  <2> QED
    BY <1>10, <1>12, <1>13, <1>14, <1>15, <2>1, OneChanges

(***************************************************************************)
(* Steps that change neither what a player has loaded nor its client.      *)
(***************************************************************************)
LEMMA ClientKept ==
  ASSUME StreamInv, NEW p \in Player, NEW new \in Components,
         player' = [player EXCEPT ![p] = new],
         UNCHANGED <<phase, todo, fresh, index, world, pending, copy, missed, edits>>,
         Has(p) => new.stage \in {"joined", "ready"},
         new.stage \in {"joined", "ready"} => Has(p),
         new.dim = player[p].dim, new.cur = player[p].cur, new.vd = player[p].vd,
         new.loaded = player[p].loaded, new.backlog = player[p].backlog,
         new.stage = "config" => player[p].stage = "config",
         p \in Ready => new.stage = "ready"
  PROVE  StreamInv'
<1>1. /\ Server /\ Players /\ ClientOf(p) /\ ListOf(p)
      /\ DOMAIN copy = Player /\ DOMAIN missed = Player
  BY StreamParts
<1>2. player'[p] = new /\ \A q \in Player \ {p} : player'[q] = player[q]
  BY <1>1 DEF Players
<1>3. Players'
  <2>1. player' \in [Player -> Components]
    BY <1>1 DEF Players
  <2>2. todo' \subseteq Ready'
    BY <1>1, <1>2 DEF Players, Ready
  <2> QED
    BY <1>1, <1>2, <2>1, <2>2 DEF Players
<1>4. Server'
  BY <1>1, ServerSame
<1>5. Has(p)' <=> Has(p)
  BY <1>2 DEF Has
<1>6. ClientOf(p)'
  BY <1>1, <1>2, <1>5 DEF ClientOf, HeldBy, Content
<1>7. ListOf(p)'
  BY <1>1, <1>2, <1>5 DEF ListOf
<1> QED
  BY <1>1, <1>2, <1>3, <1>4, <1>6, <1>7, OneChanges

LEMMA PlayerLoadedKeeps ==
  ASSUME StreamInv, NEW p \in Player, PlayerLoaded(p) PROVE StreamInv'
<1> DEFINE new == [player[p] EXCEPT !.stage = "ready"]
<1>1. player[p] \in Components
  BY DEF StreamInv, Players
<1>2. new \in Components
  BY <1>1 DEF Components
<1>3. /\ new.stage = "ready" /\ new.dim = player[p].dim /\ new.cur = player[p].cur
      /\ new.vd = player[p].vd /\ new.loaded = player[p].loaded
      /\ new.backlog = player[p].backlog
  BY <1>1 DEF Components
<1>4. player' = [player EXCEPT ![p] = new]
  BY DEF PlayerLoaded
<1> HIDE DEF new
<1> QED
  BY <1>2, <1>3, <1>4, ClientKept DEF PlayerLoaded, Has

LEMMA SettingsKeeps ==
  ASSUME StreamInv, NEW p \in Player, NEW v \in ClientView, Settings(p, v)
  PROVE  StreamInv'
<1> DEFINE new == [player[p] EXCEPT !.view = v]
<1>1. player[p] \in Components
  BY DEF StreamInv, Players
<1>2. new \in Components
  BY <1>1 DEF Components
<1>3. /\ new.stage = player[p].stage /\ new.dim = player[p].dim
      /\ new.cur = player[p].cur
      /\ new.vd = player[p].vd /\ new.loaded = player[p].loaded
      /\ new.backlog = player[p].backlog
  BY <1>1 DEF Components
<1>4. player' = [player EXCEPT ![p] = new]
  BY DEF Settings
<1>5. UNCHANGED <<phase, todo, fresh, index, world, pending, copy, missed, edits>>
  BY DEF Settings
<1> HIDE DEF new
<1>6. /\ Has(p) <=> new.stage \in {"joined", "ready"}
      /\ p \in Ready => new.stage = "ready"
  BY <1>3 DEF Has, Ready
<1>7. new.stage = "config" => player[p].stage = "config"
  BY <1>3
<1> QED
  BY <1>2, <1>3, <1>4, <1>5, <1>6, <1>7, ClientKept

LEMMA MoveKeeps ==
  ASSUME StreamInv, NEW p \in Player, NEW c \in Column, Move(p, c)
  PROVE  StreamInv'
<1> DEFINE new == [player[p] EXCEPT !.at = c]
<1>1. player[p] \in Components
  BY DEF StreamInv, Players
<1>2. new \in Components
  BY <1>1 DEF Components
<1>3. /\ new.stage = player[p].stage /\ new.dim = player[p].dim
      /\ new.cur = player[p].cur
      /\ new.vd = player[p].vd /\ new.loaded = player[p].loaded
      /\ new.backlog = player[p].backlog
  BY <1>1 DEF Components
<1>4. player' = [player EXCEPT ![p] = new]
  BY DEF Move
<1>5. UNCHANGED <<phase, todo, fresh, index, world, pending, copy, missed, edits>>
  BY DEF Move
<1> HIDE DEF new
<1>6. /\ Has(p) <=> new.stage \in {"joined", "ready"}
      /\ p \in Ready => new.stage = "ready"
  BY <1>3 DEF Has, Ready
<1>7. new.stage = "config" => player[p].stage = "config"
  BY <1>3
<1> QED
  BY <1>2, <1>3, <1>4, <1>5, <1>6, <1>7, ClientKept

(***************************************************************************)
(* A client drops what it held in the dimension it leaves: everything.     *)
(***************************************************************************)
LEMMA ChangeDimensionKeeps ==
  ASSUME StreamInv, NEW p \in Player, NEW d \in Dimension, NEW c \in Column,
         NEW b \in Budget \cup {Unlimited}, ChangeDimension(p, d, c, b)
  PROVE  StreamInv'
<1> DEFINE new == player'[p]
           gone == {player[p].dim} \X player[p].loaded
<1>1. /\ Server /\ Players /\ ClientOf(p) /\ ListOf(p)
      /\ DOMAIN copy = Player /\ DOMAIN missed = Player
  BY StreamParts
<1>2. player[p] \in Components
  BY <1>1 DEF Players
<1>3. player' = [player EXCEPT ![p] = new] /\ copy' = [copy EXCEPT ![p] = Drop(@, gone)]
  <2>1. player' = [player EXCEPT ![p] = new]
    BY <1>1 DEF ChangeDimension, Players
  <2>2. copy' = [copy EXCEPT ![p] = Drop(@, gone)]
    BY DEF ChangeDimension
  <2> QED
    BY <2>1, <2>2
<1>4. new \in Components
  <2> DEFINE budget == IF b = Unlimited THEN player[p].budget ELSE b
  <2>1. budget \in Budget \cup {Unlimited}
    BY <1>2 DEF Components
  <2>2. player'[p] = [player[p] EXCEPT !.dim = d, !.at = c, !.loaded = {},
                                       !.backlog = {}, !.budget = budget]
    BY <1>1 DEF ChangeDimension, Players
  <2> HIDE DEF budget
  <2> QED
    BY <1>2, <2>1, <2>2 DEF Components
<1>5. /\ new.stage = player[p].stage /\ new.dim = d
      /\ new.loaded = {} /\ new.backlog = {}
  BY <1>1, <1>2 DEF Components, Players, ChangeDimension
<1> HIDE DEF new
<1>6. player'[p] = new /\ \A q \in Player \ {p} : player'[q] = player[q]
  BY <1>1, <1>3 DEF Players
<1>7. Has(p) /\ Has(p)'
  BY <1>5, <1>6 DEF Has, ChangeDimension
<1>8. Players'
  <2>1. new.stage # "config"
    BY <1>5, <1>7 DEF Has
  <2>2. p \in todo => new.stage = "ready"
    BY <1>1, <1>5 DEF Players, Ready
  <2> QED
    BY <1>1, <1>3, <1>4, <2>1, <2>2, PlayersKeep DEF ChangeDimension
<1>9. Server'
  BY <1>1, ServerSame DEF ChangeDimension
<1>10. ClientOf(p)'
  <2>1. DOMAIN copy[p] = gone
    BY <1>1, <1>7 DEF ClientOf, HeldBy
  <2>2. copy'[p] = Drop(copy[p], gone) /\ missed'[p] = {}
    BY <1>1, <1>3 DEF ChangeDimension
  <2> HIDE DEF gone
  <2>3. DOMAIN copy'[p] = DOMAIN copy[p] \ gone
    BY <2>2, Stored
  <2>4. DOMAIN copy'[p] = {}
    BY <2>1, <2>3
  <2>5. HeldBy(p)' = {}
    BY <1>5, <1>6 DEF HeldBy
  <2> QED
    BY <2>2, <2>4, <2>5 DEF ClientOf
<1>11. ListOf(p)'
  BY <1>5, <1>6 DEF ListOf
<1> QED
  <2>1. /\ \A q \in Player \ {p} : copy'[q] = copy[q] /\ missed'[q] = missed[q]
        /\ DOMAIN copy' = Player /\ DOMAIN missed' = Player
        /\ world' = world /\ pending' = pending
    BY <1>1, <1>3 DEF ChangeDimension
  <2> QED
    BY <1>6, <1>8, <1>9, <1>10, <1>11, <2>1, OneChanges

LEMMA LeaveKeeps ==
  ASSUME StreamInv, NEW p \in Player, Leave(p) PROVE StreamInv'
<1> USE StreamingAssumption
<1> DEFINE new == [Absent EXCEPT !.stage = "gone"]
<1>1. /\ Server /\ Players /\ ClientOf(p) /\ ListOf(p)
      /\ DOMAIN copy = Player /\ DOMAIN missed = Player
  BY StreamParts
<1>2. player' = [player EXCEPT ![p] = new]
  BY DEF Leave
<1>3. new \in Components /\ new.stage = "gone"
  BY DEF Absent, Components, StreamingAssumption
<1> HIDE DEF new
<1>4. player'[p] = new /\ \A q \in Player \ {p} : player'[q] = player[q]
  BY <1>1, <1>2 DEF Players
<1>5. ~Has(p)'
  BY <1>3, <1>4 DEF Has
<1>6. Players'
  <2>1. todo = {}
    BY <1>1 DEF Players, Leave
  <2> QED
    BY <1>1, <1>2, <1>3, <2>1, PlayersKeep DEF Leave
<1>7. Server'
  BY <1>1, ServerSame DEF Leave
<1>8. ClientOf(p)' /\ ListOf(p)'
  <2>1. DOMAIN copy'[p] = {} /\ missed'[p] = {}
    BY <1>1 DEF Leave
  <2> QED
    BY <1>5, <2>1 DEF ClientOf, ListOf, HeldBy
<1> QED
  <2>1. /\ \A q \in Player \ {p} : copy'[q] = copy[q] /\ missed'[q] = missed[q]
        /\ DOMAIN copy' = Player /\ DOMAIN missed' = Player
        /\ world' = world /\ pending' = pending
    BY <1>1 DEF Leave
  <2> QED
    BY <1>4, <1>6, <1>7, <1>8, <2>1, OneChanges

-----------------------------------------------------------------------------
(* Edits of the world *)

(***************************************************************************)
(* A client that holds a chunk either is told of a change or waits for its *)
(* player to be ready.                                                     *)
(***************************************************************************)
LEMMA SeenOrWaiting ==
  ASSUME NEW p \in Player, ClientOf(p), NEW k \in DOMAIN copy[p]
  PROVE  p \in Seeing(k) \/ p \in Waiting(k)
<1>1. Has(p) /\ k \in {player[p].dim} \X player[p].loaded
  BY DEF ClientOf, HeldBy
<1>2. k[1] = player[p].dim /\ k[2] \in player[p].loaded
  BY <1>1
<1>3. player[p].stage = "joined" \/ player[p].stage = "ready"
  BY <1>1 DEF Has
<1> QED
  BY <1>2, <1>3 DEF Seeing, Waiting, Ready

(***************************************************************************)
(* What a client holds are chunks.                                         *)
(***************************************************************************)
LEMMA HeldChunks ==
  ASSUME Players, NEW p \in Player, ClientOf(p) PROVE DOMAIN copy[p] \subseteq Chunk
<1>1. player[p].dim \in Dimension /\ player[p].loaded \subseteq Column
  BY DEF Players, Components
<1>2. {player[p].dim} \X player[p].loaded \subseteq Chunk
  BY <1>1 DEF Chunk
<1> QED
  BY <1>2 DEF ClientOf, HeldBy

(***************************************************************************)
(* A step that changes the world and the clients, but not the players.     *)
(***************************************************************************)
LEMMA WorldChanges ==
  ASSUME StreamInv, Server', player' = player, todo' = {} \/ todo' = Ready,
         phase' = "game" => todo' = {},
         DOMAIN copy' = Player, DOMAIN missed' = Player,
         \A p \in Player : ClientOf(p)'
  PROVE  StreamInv'
<1>1. Players /\ \A p \in Player : ListOf(p)
  BY StreamParts
<1>2. Players'
  BY <1>1 DEF Players, Ready
<1>3. \A p \in Player : ListOf(p)'
  BY <1>1, ListSame
<1> QED
  BY <1>2, <1>3, StreamParts

(***************************************************************************)
(* A changed block reaches the clients that see it, or is missed.          *)
(***************************************************************************)
LEMMA MutateBlockKeeps ==
  ASSUME StreamInv, NEW k \in Chunk, NEW block \in {"stone", "sign"},
         MutateBlock(k, block)
  PROVE  StreamInv'
<1> USE StreamingAssumption
<1>1. /\ Server /\ Players /\ \A p \in Player : ClientOf(p)
      /\ DOMAIN copy = Player /\ DOMAIN missed = Player
  BY StreamParts
<1>2. world[k] \in Content /\ k \in index
  BY <1>1 DEF Server, MutateBlock
<1>3. /\ Hosted(world[k], block) \in Content
      /\ Hosted(world[k], block).block = block
      /\ Hosted(world[k], block).be = IF block = "sign" THEN world[k].be ELSE 0
  BY <1>2, HostedContent
<1>4. /\ world'[k] = Hosted(world[k], block)
      /\ \A x \in Chunk \ {k} : world'[x] = world[x]
      /\ world' \in [Chunk -> Content]
  BY <1>1, <1>3 DEF Server, MutateBlock
<1>5. pending' \subseteq pending /\ pending \ {k} \subseteq pending'
  BY DEF MutateBlock
<1>6. block # "sign" /\ world[k].be # 0 => k \notin pending'
  BY DEF MutateBlock
<1>7. block = "sign" => pending' = pending
  BY DEF MutateBlock
<1>8. Server'
  <2>1. edits' \in 0..MaxEdits
    BY <1>1 DEF Server, MutateBlock, StreamingAssumption
  <2>2. \A x \in Chunk : world'[x].be # 0 => world'[x].block = "sign"
    BY <1>1, <1>3, <1>4 DEF Server
  <2> QED
    BY <1>1, <1>4, <1>5, <2>1, <2>2 DEF Server, MutateBlock
<1>9. ASSUME NEW p \in Player PROVE ClientOf(p)'
  <2>1. ClientOf(p)
    BY <1>1
  <2>2. /\ DOMAIN copy'[p] = DOMAIN copy[p]
        /\ \A x \in DOMAIN copy[p] : x # k => copy'[p][x] = copy[p][x]
        /\ p \in Seeing(k) /\ k \in DOMAIN copy[p] =>
             copy'[p][k] = Hosted(copy[p][k], block)
        /\ p \notin Seeing(k) => copy'[p] = copy[p]
    BY DEF MutateBlock
  <2>3. missed[p] \subseteq missed'[p] /\ missed'[p] \subseteq missed[p] \cup {k}
    BY DEF MutateBlock
  <2>4. p \in Waiting(k) => k \in missed'[p]
    BY DEF MutateBlock
  <2>5. k \in missed'[p] \ missed[p] => k \in DOMAIN copy[p]
    BY DEF MutateBlock, Waiting
  <2>6. HeldBy(p)' = HeldBy(p)
    BY DEF MutateBlock, HeldBy, Has
  <2>7. missed'[p] \subseteq DOMAIN copy'[p]
    BY <2>1, <2>2, <2>3, <2>5 DEF ClientOf
  <2>8. ASSUME NEW x \in DOMAIN copy[p], x # k
        PROVE  /\ copy'[p][x] = copy[p][x] /\ copy[p][x] \in Content
               /\ copy[p][x].be # 0 => copy[p][x].block = "sign"
               /\ x \notin missed'[p] =>
                    /\ copy'[p][x].block = world'[x].block
                    /\ x \notin pending' => copy'[p][x].be = world'[x].be
    <3>1. x \in Chunk
      BY <1>1, <2>1, HeldChunks
    <3>2. world'[x] = world[x] /\ (x \in pending' <=> x \in pending)
      BY <1>4, <1>5, <2>8, <3>1
    <3> QED
      BY <2>1, <2>2, <2>3, <2>8, <3>2 DEF ClientOf
  <2>9. ASSUME k \in DOMAIN copy[p]
        PROVE  /\ copy'[p][k] \in Content
               /\ copy'[p][k].be # 0 => copy'[p][k].block = "sign"
               /\ k \notin missed'[p] =>
                    /\ copy'[p][k].block = world'[k].block
                    /\ k \notin pending' => copy'[p][k].be = world'[k].be
    <3>1. copy[p][k] \in Content
      BY <2>1, <2>9 DEF ClientOf
    <3>2. CASE p \in Seeing(k)
      <4>1. copy'[p][k] = Hosted(copy[p][k], block)
        BY <2>2, <2>9, <3>2
      <4>2. /\ Hosted(copy[p][k], block) \in Content
            /\ Hosted(copy[p][k], block).block = block
            /\ Hosted(copy[p][k], block).be =
                 IF block = "sign" THEN copy[p][k].be ELSE 0
        BY <3>1, HostedContent
      <4>3. k \notin missed'[p] /\ k \notin pending =>
              copy[p][k].be = world[k].be
        BY <2>1, <2>3, <2>9 DEF ClientOf
      <4> QED
        BY <1>3, <1>4, <1>7, <4>1, <4>2, <4>3
    <3>3. CASE p \notin Seeing(k)
      <4>1. k \in missed'[p]
        BY <2>1, <2>4, <2>9, <3>3, SeenOrWaiting
      <4>2. copy'[p] = copy[p]
        BY <2>2, <3>3
      <4> QED
        BY <2>1, <2>9, <4>1, <4>2 DEF ClientOf
    <3> QED
      BY <3>2, <3>3
  <2>10. DOMAIN copy'[p] = HeldBy(p)'
    BY <2>1, <2>2, <2>6 DEF ClientOf
  <2> QED
    BY <2>2, <2>7, <2>8, <2>9, <2>10 DEF ClientOf
<1> QED
  BY <1>1, <1>8, <1>9, WorldChanges DEF MutateBlock, Players

(***************************************************************************)
(* A changed block entity is only marked.                                  *)
(***************************************************************************)
LEMMA EditBlockEntityKeeps ==
  ASSUME StreamInv, NEW k \in Chunk, NEW be \in {0, edits + 1},
         EditBlockEntity(k, be)
  PROVE  StreamInv'
<1> USE StreamingAssumption
<1>1. /\ Server /\ Players /\ \A p \in Player : ClientOf(p)
      /\ DOMAIN copy = Player /\ DOMAIN missed = Player
  BY StreamParts
<1>2. edits \in Nat /\ edits + 1 \in 0..MaxEdits
  BY <1>1 DEF Server, EditBlockEntity, StreamingAssumption
<1>3. world[k] \in Content /\ be \in 0..MaxEdits
  BY <1>1, <1>2 DEF Server, StreamingAssumption
<1>4. /\ world'[k].block = world[k].block /\ world'[k].be = be
      /\ world'[k] \in Content
      /\ \A x \in Chunk \ {k} : world'[x] = world[x]
      /\ world' \in [Chunk -> Content]
  <2>1. [world[k] EXCEPT !.be = be] \in Content
    BY <1>3 DEF Content
  <2>2. world' = [world EXCEPT ![k] = [world[k] EXCEPT !.be = be]]
    BY DEF EditBlockEntity
  <2> QED
    BY <1>1, <1>3, <2>1, <2>2 DEF Server, Content
<1>5. be # 0 => world[k].block = "sign"
  BY DEF EditBlockEntity
<1>6. Server'
  BY <1>1, <1>2, <1>4, <1>5 DEF Server, EditBlockEntity
<1>7. ASSUME NEW p \in Player PROVE ClientOf(p)'
  <2>1. ClientOf(p) /\ DOMAIN copy[p] \subseteq Chunk
    BY <1>1, HeldChunks
  <2>2. copy'[p] = copy[p] /\ missed'[p] = missed[p] /\ HeldBy(p)' = HeldBy(p)
    BY DEF EditBlockEntity, HeldBy, Has
  <2>3. ASSUME NEW x \in DOMAIN copy[p] \ missed[p]
        PROVE  /\ copy[p][x].block = world'[x].block
               /\ x \notin pending' => copy[p][x].be = world'[x].be
    BY <1>4, <2>1, <2>3 DEF ClientOf, EditBlockEntity
  <2> QED
    BY <2>1, <2>2, <2>3 DEF ClientOf, Content
<1> QED
  BY <1>1, <1>6, <1>7, WorldChanges DEF EditBlockEntity, Players

(***************************************************************************)
(* The sync brings every client that sees a sign up to date.               *)
(***************************************************************************)
LEMMA SyncKeeps ==
  ASSUME StreamInv, SyncBlockEntities PROVE StreamInv'
<1>1. /\ Server /\ Players /\ \A p \in Player : ClientOf(p)
      /\ DOMAIN copy = Player /\ DOMAIN missed = Player
  BY StreamParts
<1>2. Server'
  BY <1>1 DEF Server, SyncBlockEntities, Content
<1>3. ASSUME NEW p \in Player PROVE ClientOf(p)'
  <2>1. ClientOf(p) /\ DOMAIN copy[p] \subseteq Chunk
    BY <1>1, HeldChunks
  <2>2. /\ DOMAIN copy'[p] = DOMAIN copy[p]
        /\ \A k \in DOMAIN copy[p] :
             copy'[p][k] =
               IF k \in pending /\ p \in Seeing(k) /\ copy[p][k].block = "sign"
               THEN [copy[p][k] EXCEPT !.be = world[k].be]
               ELSE copy[p][k]
    BY DEF SyncBlockEntities
  <2>3. /\ missed'[p] = missed[p] \cup {k \in pending : p \in Waiting(k)}
        /\ pending' = {} /\ world' = world
    BY DEF SyncBlockEntities
  <2>4. missed'[p] \subseteq DOMAIN copy[p]
    BY <2>1, <2>3 DEF ClientOf, Waiting
  <2>5. HeldBy(p)' = HeldBy(p)
    BY DEF SyncBlockEntities, HeldBy, Has
  <2>6. ASSUME NEW k \in DOMAIN copy[p]
        PROVE  /\ copy'[p][k] \in Content
               /\ copy'[p][k].be # 0 => copy'[p][k].block = "sign"
               /\ k \notin missed'[p] => copy'[p][k].block = world[k].block
                                      /\ copy'[p][k].be = world[k].be
    <3>1. /\ copy[p][k] \in Content /\ world[k] \in Content
          /\ copy[p][k].be # 0 => copy[p][k].block = "sign"
          /\ world[k].be # 0 => world[k].block = "sign"
      BY <1>1, <2>1 DEF ClientOf, Server
    <3>2. k \notin missed'[p] => k \notin missed[p] /\ (k \in pending => p \in Seeing(k))
      BY <2>1, <2>3, SeenOrWaiting
    <3>3. k \notin missed[p] => /\ copy[p][k].block = world[k].block
                                /\ k \notin pending => copy[p][k].be = world[k].be
      BY <2>1 DEF ClientOf
    <3>4. CASE k \in pending /\ p \in Seeing(k) /\ copy[p][k].block = "sign"
      <4>1. copy'[p][k] = [copy[p][k] EXCEPT !.be = world[k].be]
        BY <2>2, <3>4
      <4>2. copy'[p][k] \in Content /\ copy'[p][k].block = "sign"
            /\ copy'[p][k].be = world[k].be
        BY <3>1, <3>4, <4>1 DEF Content
      <4> QED
        BY <3>2, <3>3, <3>4, <4>2
    <3>5. CASE ~(k \in pending /\ p \in Seeing(k) /\ copy[p][k].block = "sign")
      <4>1. copy'[p][k] = copy[p][k]
        BY <2>2, <3>5
      <4> QED
        BY <3>1, <3>2, <3>3, <3>5, <4>1
    <3> QED
      BY <3>4, <3>5
  <2>7. DOMAIN copy'[p] = HeldBy(p)'
    BY <2>1, <2>2, <2>5 DEF ClientOf
  <2> QED
    BY <2>2, <2>3, <2>4, <2>6, <2>7 DEF ClientOf
<1> QED
  <2>1. DOMAIN copy' = Player /\ DOMAIN missed' = Player
    BY DEF SyncBlockEntities
  <2> QED
    BY <1>2, <1>3, <2>1, WorldChanges DEF SyncBlockEntities

-----------------------------------------------------------------------------
(* The streaming pass *)

LEMMA SkipKeeps ==
  ASSUME StreamInv, NEW p \in Player, Skip(p) PROVE StreamInv'
<1>1. /\ Server /\ Players /\ \A q \in Player : ClientOf(q) /\ ListOf(q)
      /\ DOMAIN copy = Player /\ DOMAIN missed = Player
  BY StreamParts
<1>2. Server'
  BY <1>1, ServerSame DEF Skip
<1>3. Players'
  BY <1>1 DEF Players, Ready, Skip
<1>4. \A q \in Player : ClientOf(q)' /\ ListOf(q)'
  BY <1>1, ClientSame, ListSame DEF Skip
<1> QED
  BY <1>1, <1>2, <1>3, <1>4, StreamParts DEF Skip

LEMMA EndTickKeeps ==
  ASSUME StreamInv, EndTick PROVE StreamInv'
<1>1. /\ Server /\ Players /\ \A q \in Player : ClientOf(q) /\ ListOf(q)
      /\ DOMAIN copy = Player /\ DOMAIN missed = Player
  BY StreamParts
<1>2. Server'
  BY <1>1 DEF Server, EndTick, Content
<1>3. Players'
  BY <1>1 DEF Players, Ready, EndTick
<1>4. \A q \in Player : ClientOf(q)' /\ ListOf(q)'
  BY <1>1, ClientSame, ListSame DEF EndTick
<1> QED
  BY <1>1, <1>2, <1>3, <1>4, StreamParts DEF EndTick

(***************************************************************************)
(* Nothing is sent that is not needed.                                     *)
(***************************************************************************)
LEMMA BatchNeeded ==
  ASSUME NEW p, NEW need, NEW S \in Batches(p, need) PROVE S \subseteq need
BY DEF Batches

(***************************************************************************)
(* The view distance in use is a number.                                   *)
(***************************************************************************)
LEMMA ViewNumber ==
  ASSUME StreamingAssumption, NEW p \in Player, player[p] \in Components
  PROVE  EffectiveView(p) \in Int
<1>1. player[p].view \in ClientView \cup {ServerView}
  BY DEF Components
<1>2. ClientView \subseteq Int /\ ServerView \in Int
  BY DEF StreamingAssumption
<1> QED
  BY <1>1, <1>2 DEF EffectiveView

(* The chunks in view, those a pass unloads and keeps, and its list *)
InView(p) == InRadius(player[p].at, EffectiveView(p))
Unloads(p) == IF Carried(p) THEN {} ELSE player[p].loaded \ InView(p)
Keeps(p) == player[p].loaded \ Unloads(p)
List(p) == IF Carried(p) THEN player[p].backlog ELSE InView(p)

(***************************************************************************)
(* The batch a player is sent is taken off what is left of its list.       *)
(***************************************************************************)
LEMMA ListTaken ==
  ASSUME NEW p \in Player, player[p] \in Components,
         Has(p), ListOf(p), NEW S \in SUBSET (List(p) \ Keeps(p))
  PROVE  LET loaded == Keeps(p) \cup S
             rest   == (List(p) \ Keeps(p)) \ S
         IN /\ loaded \subseteq Column /\ rest \subseteq Column
            /\ loaded \cap rest = {} /\ loaded \cup rest = InView(p)
<1> DEFINE range == InView(p)
           list == List(p)
           out == Unloads(p)
<1>1. player[p].loaded \subseteq Column /\ range \subseteq Column
  BY RadiusColumns DEF Components, InView
<1>2. CASE Carried(p)
  <2>1. /\ out = {} /\ list = player[p].backlog
        /\ player[p].backlog # {} /\ player[p].backlog # None
        /\ range = InRadius(player[p].cur, player[p].vd)
    BY <1>2 DEF Carried, InView, Unloads, List
  <2>2. player[p].loaded \cap list = {} /\ player[p].loaded \cup list = range
    BY <2>1 DEF ListOf
  <2> HIDE DEF range, list, out
  <2> QED
    BY <1>1, <2>1, <2>2 DEF Keeps, range, list, out
<1>3. CASE ~Carried(p)
  BY <1>1, <1>3 DEF Keeps, Unloads, List
<1> QED
  BY <1>2, <1>3

(***************************************************************************)
(* The pass leaves the client with what it keeps and what it is sent.      *)
(***************************************************************************)
LEMMA StreamKeeps ==
  ASSUME StreamInv, NEW p \in Player, Stream(p) PROVE StreamInv'
<1> USE StreamingAssumption
<1> DEFINE range == InView(p)
           out   == Unloads(p)
           kept  == Keeps(p)
           list  == List(p)
           here(X) == {player[p].dim} \X X
<1>1. /\ Server /\ Players /\ ClientOf(p) /\ ListOf(p)
      /\ DOMAIN copy = Player /\ DOMAIN missed = Player
  BY StreamParts
<1>2. player[p] \in Components /\ p \in Ready /\ Has(p)
  BY <1>1 DEF Players, Stream, Ready, Has
<1>3. PICK S \in Batches(p, list \ kept) :
        LET rest == (list \ kept) \ S IN
        /\ fresh' = fresh \cup (here(S) \ index)
        /\ index' = index \cup here(S)
        /\ player' = [player EXCEPT ![p] =
             [@ EXCEPT !.cur = player[p].at, !.vd = EffectiveView(p),
                       !.loaded = kept \cup S,
                       !.backlog = IF rest = {} THEN None ELSE rest]]
        /\ copy' = [copy EXCEPT ![p] = Store(Drop(@, here(out)), here(S))]
        /\ missed' = [missed EXCEPT ![p] = @ \ here(out)]
  BY DEF Stream, InView, Unloads, Keeps, List
<1> DEFINE rest == (list \ kept) \ S
           loaded == kept \cup S
           backlog == IF rest = {} THEN None ELSE rest
           new == [player[p] EXCEPT !.cur = player[p].at, !.vd = EffectiveView(p),
                                    !.loaded = loaded, !.backlog = backlog]
<1>4. S \subseteq list \ kept
  BY BatchNeeded
<1>5. /\ loaded \subseteq Column /\ rest \subseteq Column
      /\ loaded \cap rest = {} /\ loaded \cup rest = range
  BY <1>2, <1>1, <1>4, ListTaken
<1>6. player' = [player EXCEPT ![p] = new]
  BY <1>3
<1>7. /\ new \in Components
      /\ new.stage = player[p].stage /\ new.dim = player[p].dim
      /\ new.cur = player[p].at /\ new.vd = EffectiveView(p)
      /\ new.loaded = loaded /\ new.backlog = backlog
  <2>1. EffectiveView(p) \in Int /\ loaded \in SUBSET Column
        /\ backlog \in {None} \cup SUBSET Column
    BY <1>2, <1>5, ViewNumber
  <2> HIDE DEF loaded, backlog
  <2> QED
    BY <1>2, <2>1 DEF Components
<1> HIDE DEF new
<1>8. player'[p] = new /\ \A q \in Player \ {p} : player'[q] = player[q]
  BY <1>1, <1>6 DEF Players
<1>9. Players'
  <2>1. new.stage = "ready"
    BY <1>2, <1>7 DEF Ready
  <2> QED
    BY <1>1, <1>6, <1>7, <2>1, PlayersKeep DEF Stream
<1>10. here(S) \subseteq Chunk
  BY <1>2, <1>5 DEF Components, Chunk
<1>11. Server'
  <2> HIDE DEF here
  <2>1. index' \subseteq Chunk /\ fresh' \subseteq index' /\ index \subseteq index'
    BY <1>1, <1>3, <1>10 DEF Server
  <2>2. UNCHANGED <<phase, world, pending, edits>>
    BY DEF Stream
  <2> QED
    BY <1>1, <2>1, <2>2 DEF Server, Content
<1>12. ListOf(p)'
  <2> HIDE DEF range, loaded, rest
  <2>1. \/ backlog = None /\ rest = {}
        \/ backlog = rest /\ rest # {} /\ rest # None
    <3>1. rest \in SUBSET Column
      BY <1>5
    <3>2. None # rest
      BY <3>1 DEF StreamingAssumption
    <3> QED
      BY <3>2
  <2>2. player'[p].loaded = loaded /\ player'[p].backlog = backlog
        /\ InRadius(player'[p].cur, player'[p].vd) = range
    BY <1>7, <1>8 DEF range, InView
  <2> QED
    BY <1>5, <2>1, <2>2 DEF ListOf
<1>13. ClientOf(p)'
  <2> DEFINE lost == here(out)
             sent == here(S)
  <2>1. /\ copy'[p] = Store(Drop(copy[p], lost), sent)
        /\ missed'[p] = missed[p] \ lost
        /\ world' = world /\ pending' = pending
    BY <1>1, <1>3 DEF Stream
  <2>2. DOMAIN copy[p] = here(player[p].loaded)
    BY <1>1, <1>2 DEF ClientOf, HeldBy
  <2>3. HeldBy(p)' = here(loaded)
    BY <1>2, <1>7, <1>8 DEF HeldBy, Has
  <2>4. here(loaded) = (here(player[p].loaded) \ here(out)) \cup here(S)
    <3>1. kept = player[p].loaded \ out
      BY DEF Keeps
    <3> HIDE DEF out, kept
    <3> QED
      BY <3>1
  <2>5. DOMAIN copy'[p] = (DOMAIN copy[p] \ lost) \cup sent
    <3> HIDE DEF lost, sent
    <3> QED
      BY <2>1 DEF Drop, Store
  <2>6. \A k \in sent : copy'[p][k] = world[k]
    <3> HIDE DEF lost, sent
    <3> QED
      BY <2>1 DEF Drop, Store
  <2>7. \A k \in DOMAIN copy'[p] \ sent : k \in DOMAIN copy[p] \ lost
                                         /\ copy'[p][k] = copy[p][k]
    <3> HIDE DEF lost, sent
    <3> QED
      BY <2>1, <2>5 DEF Drop, Store
  <2>8. DOMAIN copy'[p] = HeldBy(p)'
    <3> HIDE DEF here, loaded, out
    <3> QED
      BY <2>2, <2>3, <2>4, <2>5 DEF lost, sent
  <2>9. missed'[p] \subseteq DOMAIN copy'[p]
    <3> HIDE DEF lost, sent
    <3> QED
      BY <1>1, <2>1, <2>5 DEF ClientOf
  <2>10. ASSUME NEW k \in sent PROVE world[k] \in Content /\
            (world[k].be # 0 => world[k].block = "sign")
    BY <1>1, <1>10 DEF Server
  <2>11. ASSUME NEW k \in DOMAIN copy'[p] \ sent
         PROVE  /\ copy[p][k] \in Content
                /\ copy[p][k].be # 0 => copy[p][k].block = "sign"
                /\ k \notin missed'[p] =>
                     /\ copy[p][k].block = world[k].block
                     /\ k \notin pending => copy[p][k].be = world[k].be
    <3> HIDE DEF lost, sent
    <3>1. k \in DOMAIN copy[p] /\ k \notin lost
      BY <2>7
    <3>2. k \notin missed'[p] => k \notin missed[p]
      BY <2>1, <3>1
    <3> QED
      BY <1>1, <3>1, <3>2 DEF ClientOf
  <2> HIDE DEF lost, sent
  <2> QED
    BY <2>1, <2>6, <2>7, <2>8, <2>9, <2>10, <2>11 DEF ClientOf
<1> QED
  <2>1. /\ \A q \in Player \ {p} : copy'[q] = copy[q] /\ missed'[q] = missed[q]
        /\ DOMAIN copy' = Player /\ DOMAIN missed' = Player
        /\ world' = world /\ pending' = pending
    BY <1>1, <1>3 DEF Stream
  <2> QED
    BY <1>8, <1>9, <1>11, <1>12, <1>13, <2>1, OneChanges

-----------------------------------------------------------------------------
LEMMA StreamKept == StreamInv /\ [Next]_vars => StreamInv'
<1> SUFFICES ASSUME StreamInv, [Next]_vars PROVE StreamInv'
  OBVIOUS
<1>1. CASE Game
  <2>1. ASSUME NEW p \in Player,
               Join(p) \/ PlayerLoaded(p) \/ Leave(p)
        PROVE  StreamInv'
    BY <2>1, JoinKeeps, PlayerLoadedKeeps, LeaveKeeps
  <2>2. ASSUME NEW p \in Player, NEW v \in ClientView, Settings(p, v)
        PROVE  StreamInv'
    BY <2>2, SettingsKeeps
  <2>3. ASSUME NEW p \in Player, NEW c \in Column, Move(p, c) PROVE StreamInv'
    BY <2>3, MoveKeeps
  <2>4. ASSUME NEW p \in Player, NEW d \in Dimension, NEW c \in Column,
               NEW b \in Budget \cup {Unlimited}, ChangeDimension(p, d, c, b)
        PROVE  StreamInv'
    BY <2>4, ChangeDimensionKeeps
  <2>5. ASSUME NEW k \in Chunk, NEW block \in {"stone", "sign"},
               MutateBlock(k, block)
        PROVE  StreamInv'
    BY <2>5, MutateBlockKeeps
  <2>6. ASSUME NEW k \in Chunk, NEW be \in {0, edits + 1},
               EditBlockEntity(k, be)
        PROVE  StreamInv'
    BY <2>6, EditBlockEntityKeeps
  <2> QED
    BY <1>1, <2>1, <2>2, <2>3, <2>4, <2>5, <2>6 DEF Game
<1>2. CASE Tick
  BY <1>2, SyncKeeps, SkipKeeps, StreamKeeps, EndTickKeeps DEF Tick
<1>3. CASE UNCHANGED vars
  <2>1. /\ Server /\ Players /\ \A p \in Player : ClientOf(p) /\ ListOf(p)
        /\ DOMAIN copy = Player /\ DOMAIN missed = Player
    BY StreamParts
  <2>2. Server'
    BY <1>3, <2>1, ServerSame DEF vars
  <2>3. Players'
    BY <1>3, <2>1 DEF Players, Ready, vars
  <2>4. \A p \in Player : ClientOf(p)' /\ ListOf(p)'
    BY <1>3, <2>1, ClientSame, ListSame DEF vars
  <2> QED
    BY <1>3, <2>1, <2>2, <2>3, <2>4, StreamParts DEF vars
<1> QED
  BY <1>1, <1>2, <1>3 DEF Next

LEMMA StreamHolds == Spec => []StreamInv
<1>1. StreamInv /\ [Next]_vars => StreamInv'
  BY StreamKept
<1> QED
  BY <1>1, StreamStarts, PTL DEF Spec

(***************************************************************************)
(* The types: players the pass has yet to visit are ready, what is         *)
(* generated in it or marked is indexed, and what a joining client missed  *)
(* it holds.                                                               *)
(***************************************************************************)
THEOREM Typed == Spec => []TypeOK
<1>1. StreamInv => TypeOK
  <2> SUFFICES ASSUME StreamInv PROVE TypeOK
    OBVIOUS
  <2>1. \A p \in Player : player[p] \in Components
    BY DEF StreamInv, Players
  <2> QED
    BY <2>1 DEF StreamInv, Server, Players, Clients, TypeOK, Components
<1> QED
  BY <1>1, StreamHolds, PTL

(***************************************************************************)
(* Every client holds what LoadedChunks names and sees the world as it is, *)
(* but for what changed between the spawn chunks and PlayerLoaded.         *)
(***************************************************************************)
THEOREM CopiesAreTrue == Spec => []CopiesTrue
<1>1. StreamInv => CopiesTrue
  BY DEF StreamInv
<1> QED
  BY <1>1, StreamHolds, PTL

(***************************************************************************)
(* What a player needs and does not have is in its backlog.                *)
(***************************************************************************)
THEOREM NothingIsForgotten == Spec => []NothingForgotten
<1>1. StreamInv => NothingForgotten
  BY DEF StreamInv
<1> QED
  BY <1>1, StreamHolds, PTL
=============================================================================
