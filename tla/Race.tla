-------------------------------- MODULE Race --------------------------------
(***************************************************************************)
(* The races of the demo, a game on top of the library: the rounds          *)
(* (void-demo/src/race.rs), the circuit that is built and demolished for    *)
(* each of them (void-demo/src/arena.rs) and the pilots it moves between    *)
(* the lobby and their karts by teleports (void-demo/src/travel.rs).  A     *)
(* tick is: the game, where players come, go and give commands; the         *)
(* teleport barrier, where teleports end; and the chain of systems of the   *)
(* race.                                                                    *)
(*                                                                         *)
(* Where karts stand, bonuses, penalties, records and what is said in the   *)
(* chat are left out.                                                       *)
(***************************************************************************)
EXTENDS Integers, FiniteSets, SequencesExt

CONSTANTS
  Player,
  NoKart, NoFlight,
  Grid,       \* karts there may be
  Circuit,    \* circuits a round may be run on
  Chunks,     \* Chunks[c]: the chunks of circuit c, in the order of Track::chunks
  GatesPerLap, MaxLaps, DefaultLaps,
  Countdown, TimeLimit,  \* in ticks
  BuildPeriod,           \* a chunk is built or demolished every so many ticks
  Timeout                \* timeout_ticks of a teleport

(* What a module that instantiates this one assumes of the constants *)
RaceAssumption ==
  /\ {Grid, GatesPerLap, MaxLaps, DefaultLaps, Countdown, BuildPeriod} \subseteq Nat \ {0}
  /\ {TimeLimit, Timeout} \subseteq Nat
  /\ \A c \in Circuit : Chunks[c] # <<>> /\ IsInjective(Chunks[c])

VARIABLES
  step,      \* "game" or "barrier"
  online,    \* players that are ready
  phase,     \* Race::phase
  roster,    \* the players in Race::roster, whose order only places the karts
  circuit, laps,
  pending,   \* chunks still to build or demolish, taken from the end
  built,     \* Circuit::built
  beat,      \* Race::tick, as far as BuildPeriod goes
  timer,     \* ticks before the start in "countdown", since the start in "racing"
  kart,      \* kart[p]: the Kart of p with its Hidden mark and its seat, or NoKart
  transfer,  \* transfer[p]: the Transfer component, or "none"
  flight,    \* flight[p]: the Teleport in flight, its age in ticks and whether the
             \* player was controlled before it, or NoFlight
  control,   \* players with ServerControlledPosition
  airborne   \* players with Airborne and the abilities of a flyer

round  == <<phase, circuit, laps, pending, built, beat, timer>>
pilots == <<kart, transfer, flight, control, airborne>>
vars   == <<step, online, roster, round, pilots>>

Init ==
  /\ step = "game" /\ online = {} /\ roster = {}
  /\ phase = "lobby" /\ circuit \in Circuit /\ laps = DefaultLaps
  /\ pending = <<>> /\ built = {} /\ beat = 0 /\ timer = 0
  /\ kart = [p \in Player |-> NoKart]
  /\ transfer = [p \in Player |-> "none"] /\ flight = [p \in Player |-> NoFlight]
  /\ control = {} /\ airborne = {}

(* Fault: a round can be launched while the last one is being demolished. *)
IdleOrDestroying == phase \in {"lobby", "results", "destroying"}

(* Phase::idle *)
Idle == phase \in {"lobby", "results"}

Racing(k) == k # NoKart /\ k.participant /\ ~k.finished
Participants == {p \in Player : kart[p] # NoKart /\ kart[p].participant}

(* Race::time_limit *)
Limit ==
  LET scaled == (TimeLimit \div DefaultLaps) * laps
  IN  IF scaled > TimeLimit THEN scaled ELSE TimeLimit

-----------------------------------------------------------------------------
(* Travel *)

(* A Teleport is inserted, perhaps over another: what it finds is recorded  *)
(* by the first of a chain (begin_teleport).                                *)
Begun(p, controlled) ==
  [age |-> 0, had |-> IF flight[p] = NoFlight THEN controlled ELSE flight[p].had]

Unseated(k) == IF k = NoKart THEN k ELSE [k EXCEPT !.seated = FALSE, !.hidden = TRUE]

(* Travel::to_lobby for the players of S, whose karts are ks *)
ToLobby(S, ks) ==
  /\ kart' = [p \in Player |-> IF p \in S THEN Unseated(ks[p]) ELSE ks[p]]
  /\ airborne' = airborne \cup S
  /\ transfer' = [p \in Player |-> IF p \in S THEN "lobby" ELSE transfer[p]]
  /\ flight' = [p \in Player |-> IF p \in S THEN Begun(p, p \in control) ELSE flight[p]]
  /\ control' = control \cup S

(* Kart::grid and Travel::board for the players of S *)
Board(S) ==
  /\ kart' = [p \in Player |->
       IF p \in S THEN [kart[p] EXCEPT !.finished = FALSE, !.gate = 1, !.hidden = FALSE]
       ELSE kart[p]]
  /\ transfer' = [p \in Player |-> IF p \in S THEN "boarding" ELSE transfer[p]]
  /\ flight' = [p \in Player |-> IF p \in S THEN Begun(p, TRUE) ELSE flight[p]]
  /\ control' = control \cup S
  /\ UNCHANGED airborne

(* The control a player is left with when its teleport ends (end_teleport) *)
Kept(p) == IF flight[p].had THEN control ELSE control \ {p}

Lands(p) ==
  transfer' = [transfer EXCEPT ![p] = "none"] /\ flight' = [flight EXCEPT ![p] = NoFlight]

(* The pilot sits down in its kart. *)
Mount(p) ==
  /\ Lands(p)
  /\ IF kart[p] = NoKart
     THEN control' = Kept(p) /\ UNCHANGED <<kart, airborne>>
     ELSE /\ kart' = [kart EXCEPT ![p].seated = TRUE]
          /\ control' = control \cup {p}
          /\ airborne' = airborne \ {p}

(* Fault: a pilot whose chunks came too late still counts as one. *)
StillPilot(p) == kart

Spectating(p) == IF kart[p] = NoKart THEN kart ELSE [kart EXCEPT ![p].participant = FALSE]

(* The pilot watches this round: it goes back to the lobby. *)
GiveUp(p) ==
  /\ kart' = [Spectating(p) EXCEPT ![p] = Unseated(@)]
  /\ airborne' = airborne \cup {p}
  /\ transfer' = [transfer EXCEPT ![p] = "lobby"]
  /\ flight' = [flight EXCEPT ![p] = [age |-> 0, had |-> p \in Kept(p)]]
  /\ control' = control \cup {p}

(* ... or stays where it is. *)
Dismiss(p) ==
  /\ Lands(p)
  /\ kart' = [Spectating(p) EXCEPT ![p] = Unseated(@)]
  /\ airborne' = airborne \cup {p}
  /\ control' = control \ {p}

(* end_teleport, then arrived, the observer of its PlayerTeleportEvent *)
Arrives(p, outcome) ==
  \/ transfer[p] = "boarding" /\ outcome = "confirmed" /\ Mount(p)
  \/ transfer[p] = "boarding" /\ outcome = "timedOut" /\ GiveUp(p)
  \/ transfer[p] = "boarding" /\ outcome = "cancelled" /\ Dismiss(p)
  \/ transfer[p] = "lobby" /\ Lands(p) /\ control' = control \ {p} /\ UNCHANGED <<kart, airborne>>

-----------------------------------------------------------------------------
(* The game *)

(* Grid::join: a kart that waits, hidden, for the next round *)
Joined(p) ==
  IF p \in roster \/ Cardinality(roster) >= Grid
  THEN UNCHANGED <<roster, kart>>
  ELSE /\ roster' = roster \cup {p}
       /\ kart' = [kart EXCEPT ![p] =
            [participant |-> FALSE, finished |-> FALSE, gate |-> 1,
             hidden |-> TRUE, seated |-> FALSE]]

(* ready *)
Connect(p) ==
  /\ p \notin online
  /\ online' = online \cup {p}
  /\ airborne' = airborne \cup {p}
  /\ Joined(p)
  /\ UNCHANGED <<round, transfer, flight, control>>

(* quit, and the despawn that follows *)
Quit(p) ==
  /\ p \in online
  /\ online' = online \ {p}
  /\ roster' = roster \ {p}
  /\ kart' = [kart EXCEPT ![p] = NoKart]
  /\ Lands(p)
  /\ control' = control \ {p} /\ airborne' = airborne \ {p}
  /\ UNCHANGED round

(* /join *)
Join(p) ==
  /\ p \in online \ roster
  /\ Joined(p)
  /\ UNCHANGED <<online, round, transfer, flight, control, airborne>>

(* /leave *)
Leave(p) ==
  /\ p \in roster
  /\ roster' = roster \ {p}
  /\ ToLobby({p}, [kart EXCEPT ![p] = NoKart])
  /\ UNCHANGED <<online, round>>

(* Race::schedule *)
Schedule(next, chunks) == phase' = next /\ pending' = chunks

(* /race *)
Launch(p, l, c) ==
  /\ p \in roster
  /\ Idle
  /\ ToLobby(online, [q \in Player |->
       IF q \in roster THEN [kart[q] EXCEPT !.participant = TRUE] ELSE kart[q]])
  /\ circuit' = c /\ laps' = l
  /\ Schedule("generating", Chunks[c])
  /\ UNCHANGED <<online, roster, built, beat, timer>>

(* Another system takes the Teleport of a player away. *)
Cancel(p) ==
  /\ flight[p] # NoFlight
  /\ Arrives(p, "cancelled")
  /\ UNCHANGED <<online, roster, round>>

Game ==
  /\ step = "game"
  /\ UNCHANGED step
  /\ \E p \in Player :
       \/ Connect(p) \/ Quit(p) \/ Join(p) \/ Leave(p) \/ Cancel(p)
       \/ \E l \in 1..MaxLaps, c \in Circuit : Launch(p, l, c)

-----------------------------------------------------------------------------
(* The teleport barrier *)

Barrier ==
  /\ step = "game"
  /\ step' = "barrier"
  /\ flight' = [p \in Player |->
       IF flight[p] = NoFlight THEN NoFlight ELSE [flight[p] EXCEPT !.age = @ + 1]]
  /\ UNCHANGED <<online, roster, round, kart, transfer, control, airborne>>

Late(p) == flight[p] # NoFlight /\ flight[p].age > Timeout

Confirmed(p) ==
  /\ step = "barrier"
  /\ flight[p] # NoFlight /\ flight[p].age > 0 /\ ~Late(p)
  /\ Arrives(p, "confirmed")
  /\ UNCHANGED <<step, online, roster, round>>

TimedOut(p) ==
  /\ step = "barrier"
  /\ Late(p)
  /\ Arrives(p, "timedOut")
  /\ UNCHANGED <<step, online, roster, round>>

-----------------------------------------------------------------------------
(* The chain of the race *)

(* construct: replace puts a chunk of the circuit there or takes it away. *)
Piece(make) ==
  LET due == (beat + 1) % BuildPeriod = 0 IN
  IF due
  THEN /\ pending' = Front(pending)
       /\ built' = IF make THEN built \cup {Last(pending)} ELSE built \ {Last(pending)}
  ELSE UNCHANGED <<pending, built>>

Generate ==
  /\ phase = "generating"
  /\ Piece(TRUE)
  /\ IF pending' # <<>>
     THEN UNCHANGED <<phase, timer, pilots>>
     ELSE /\ Board(Participants)
          /\ IF Participants = {}
             THEN phase' = "countdown" /\ timer' = Countdown
             ELSE phase' = "loading" /\ UNCHANGED timer

Demolish ==
  /\ phase = "destroying"
  /\ Piece(FALSE)
  /\ phase' = IF pending' = <<>> THEN "results" ELSE phase
  /\ UNCHANGED <<timer, pilots>>

(* Fault: the start waits for everybody who is being moved. *)
AnyoneMoving == \E p \in Player : transfer[p] # "none"

(* load: the start waits for the pilots of this round only. *)
StillBoarding == \E p \in Participants : transfer[p] # "none"

Load ==
  /\ phase = "loading"
  /\ IF StillBoarding
     THEN UNCHANGED <<phase, timer>>
     ELSE phase' = "countdown" /\ timer' = Countdown
  /\ UNCHANGED <<pending, built, pilots>>

Count ==
  /\ phase = "countdown" /\ timer > 1
  /\ timer' = timer - 1
  /\ UNCHANGED <<phase, pending, built, pilots>>

(* A kart after the tick: Kart::drive lets it cross at most one gate. *)
Driven(k, crosses) ==
  LET gate == IF crosses THEN k.gate + 1 ELSE k.gate
  IN  [k EXCEPT !.gate = gate, !.finished = gate > laps * GatesPerLap]

(* drive, then racing: the round is over when all have finished, or at the *)
(* time limit.                                                             *)
Run(elapsed) ==
  LET on == {p \in Player : Racing(kart[p])} IN
  \E fast \in SUBSET on :
    LET driven == [p \in Player |-> IF p \in on THEN Driven(kart[p], p \in fast) ELSE kart[p]]
    IN  IF elapsed < Limit /\ \E p \in on : ~driven[p].finished
        THEN /\ phase' = "racing" /\ timer' = elapsed /\ kart' = driven
             /\ UNCHANGED <<pending, built, transfer, flight, control, airborne>>
        ELSE /\ Schedule("destroying", Reverse(Chunks[circuit]))
             /\ ToLobby(online, driven)
             /\ timer' = 0 /\ UNCHANGED built

Drive ==
  \/ phase = "countdown" /\ timer = 1 /\ Run(0)
  \/ phase = "racing" /\ Run(timer + 1)

Rest == Idle /\ UNCHANGED <<phase, timer, pending, built, pilots>>

Chain ==
  /\ step = "barrier"
  /\ \A p \in Player : ~Late(p)
  /\ step' = "game"
  /\ beat' = (beat + 1) % BuildPeriod
  /\ Generate \/ Demolish \/ Load \/ Count \/ Drive \/ Rest
  /\ UNCHANGED <<online, roster, circuit, laps>>

-----------------------------------------------------------------------------
Next ==
  \/ Game \/ Barrier \/ Chain
  \/ \E p \in Player : Confirmed(p) \/ TimedOut(p)

Spec == Init /\ [][Next]_vars

(* The tick loop runs; players and their clients owe nothing. *)
Ticking ==
  /\ WF_vars(Barrier) /\ WF_vars(Chain)
  /\ \A p \in Player : WF_vars(TimedOut(p))

TypeOK ==
  /\ step \in {"game", "barrier"} /\ online \subseteq Player
  /\ phase \in {"lobby", "generating", "loading", "countdown", "racing", "destroying", "results"}
  /\ roster \subseteq online /\ Cardinality(roster) <= Grid
  /\ circuit \in Circuit /\ laps \in 1..MaxLaps
  /\ built \subseteq ToSet(Chunks[circuit]) /\ pending \in Seq(ToSet(Chunks[circuit]))
  /\ timer \in Nat /\ beat \in 0..(BuildPeriod - 1)
  /\ \A p \in Player :
       /\ kart[p] # NoKart <=> p \in roster
       /\ flight[p] # NoFlight <=> transfer[p] # "none"
       /\ transfer[p] \in {"none", "lobby", "boarding"}
  /\ control \subseteq online /\ airborne \subseteq online

(***************************************************************************)
(* Nobody is left between two seats.  Whoever sits in a kart is a pilot of *)
(* a round that is about to start or under way, on the ground and in the   *)
(* server's hands; whoever is not being moved either sits in a kart or     *)
(* flies free, its own kart hidden; and no round counts down without one   *)
(* of its pilots: however teleports end or replace each other, and whoever *)
(* leaves, quits or comes back meanwhile (travel.rs, arrived).             *)
(***************************************************************************)
Seated(p) == kart[p] # NoKart /\ kart[p].seated
SeatedOrFree ==
  \A p \in online :
    /\ Seated(p) =>
         /\ kart[p].participant /\ ~kart[p].hidden /\ transfer[p] = "none"
         /\ phase \in {"loading", "countdown", "racing"}
         /\ p \in control \ airborne
    /\ ~Seated(p) /\ transfer[p] = "none" =>
         p \in airborne \ control /\ (kart[p] = NoKart \/ kart[p].hidden)
    /\ phase \in {"countdown", "racing"} /\ p \in Participants => Seated(p)

(***************************************************************************)
(* "demolish the old circuit before replacing its geometry" (arena.rs 49): *)
(* what is built is what the phase says, the whole circuit while pilots    *)
(* are on it and nothing of it when the next round may choose another.     *)
(***************************************************************************)
CircuitWhole ==
  built = CASE Idle -> {}
            [] phase = "generating" -> ToSet(Chunks[circuit]) \ ToSet(pending)
            [] phase = "destroying" -> ToSet(pending)
            [] OTHER -> ToSet(Chunks[circuit])

(***************************************************************************)
(* A round that was launched ends, whether its pilots arrive, finish,      *)
(* leave or do nothing at all, and whatever others do (load, racing).      *)
(***************************************************************************)
RoundEnds == (phase = "generating") ~> (phase = "results")
=============================================================================
