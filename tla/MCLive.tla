-------------------------------- MODULE MCLive --------------------------------
(***************************************************************************)
(* Who waits in the end gets: a behaviour is one of the teleport barrier,  *)
(* one of the saving of chunks or one of the races of the demo, under the  *)
(* fairness of its own module.  They share nothing but the tick.           *)
(***************************************************************************)
EXTENDS MCTeleport

CONSTANTS Saved, MaxRun, MaxSector, KillMidWrite, MaxFailures,
          Sizes, SaveInterval, MaxSaves, Versions, MaxEdits, MaxStops,
          Player, NoKart, NoFlight, Grid, GatesPerLap, MaxLaps, DefaultLaps,
          Countdown, TimeLimit, BuildPeriod,
          Circuit, Track

VARIABLES
  part,
  head, disk, length, locations, used, total, write, failures, stored, tried,
  mode, mem, dirty, ticker, queue, saved, edits, stops,
  step, online, round, roster, circuit, laps, pending, built, beat, timer, kart,
  transfer, flight, controlled, airborne

saving ==
  <<head, disk, length, locations, used, total, write, failures, stored, tried,
    mode, mem, dirty, ticker, queue, saved, edits, stops>>

racing ==
  <<step, online, round, roster, circuit, laps, pending, built, beat, timer, kart,
    transfer, flight, controlled, airborne>>

\* Two circuits that share a chunk
MCCircuits == {"long", "short"}
MCChunks == [long |-> <<1, 2>>, short |-> <<2>>]

P == INSTANCE Persistence WITH Chunks <- Saved
R == INSTANCE Race WITH phase <- round, control <- controlled, Chunks <- Track

ASSUME RaceConstants == R!RaceAssumption

(* What a part does not start with is not varied in it. *)
InitLive ==
  /\ part \in {"teleport", "saving", "racing"} /\ Init /\ P!Init /\ R!Init
  /\ part = "racing" \/ circuit = "long"
  /\ part = "teleport" \/ ~seated

InTeleport == part = "teleport" /\ UNCHANGED <<part, saving, racing>>
InSaving   == part = "saving" /\ UNCHANGED <<part, vars, racing>>
InRacing   == part = "racing" /\ UNCHANGED <<part, vars, saving>>

NextLive == (InTeleport /\ Next) \/ (InSaving /\ P!Next) \/ (InRacing /\ R!Next)

(* The fairness is the Ticking of each module, for the behaviours that are its own. *)
live == <<part, vars, saving, racing>>

SpecLive ==
  /\ InitLive /\ [][NextLive]_live
  /\ WF_live(InTeleport /\ EndPackets) /\ WF_live(InTeleport /\ Advance)
  /\ WF_live(InTeleport /\ ApplyDeferred) /\ WF_live(InTeleport /\ Stream)
  /\ WF_live(InSaving /\ P!SaveTick) /\ WF_live(InSaving /\ P!Visit) /\ WF_live(InSaving /\ P!Data)
  /\ WF_live(InSaving /\ P!Header) /\ WF_live(InSaving /\ P!Break) /\ WF_live(InSaving /\ P!Clear)
  /\ WF_live(InSaving /\ P!EndFlush)
  /\ WF_live(InRacing /\ R!Barrier) /\ WF_live(InRacing /\ R!Chain)
  /\ \A p \in Player : WF_live(InRacing /\ R!TimedOut(p))

PlayerReleased == part = "teleport" => Released
EverySaved     == part = "saving" => P!EverySaved
SeatedOrFree   == part = "racing" => R!SeatedOrFree
CircuitWhole   == part = "racing" => R!CircuitWhole
RoundEnds      == part = "racing" => R!RoundEnds
=============================================================================
