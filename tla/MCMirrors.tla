------------------------------- MODULE MCMirrors -------------------------------
(***************************************************************************)
(* Small instances of what clients know of players and entities, side by   *)
(* side: a behaviour is one of the roster, of effects, of attributes, of    *)
(* list entries, of blocks or of world clocks, which share nothing but the *)
(* tick.                                                                   *)
(*                                                                         *)
(* In the roster two of three clients log in with the same uuid, and the   *)
(* third one moves, within the reach of a delta and beyond it.             *)
(***************************************************************************)
EXTENDS Roster, TLC

CONSTANTS ann, bob, cat,  \* clients of the roster
          Player, None, MaxActs,
          Solo, Mob, Effect, Length, Forever, Replaced, MaxEffectActs, \* Effects
          Attribute, Base, KindBase, Early,             \* Attributes
          Interval, Trip, Colour,                       \* Entries
          Cell, Dim, Block, Tool, Air, Start, Creative, Instant, MaxBlockActs, \* ItemUse
          Dial, Clock, Wrap, Resend, Hasty, MaxDialActs \* Clocks

MCUuid == [d \in Clients |-> IF d = cat THEN "own" ELSE "shared"]
MCPlaces == {0, 1, 3}

VARIABLES
  part, step, acts,
  mounts, riding, bears, effects, dirty, removed, recipients, sentEffects, hud,
  ready, viewersOf, bearing, overrides, marked, sentOnes, audience, rows,
  listeners, left, ticker, awaiting, measured, answers, entry, fresh, sentEntry, list,
  stage, present, dim, hotbar, queue, world, client, up, down,
  acted, watching, comp, sentClock, expected, since, watchers, todo, released, forgot, dials

tick           == <<step, acts>>
onlyEffects    == <<mounts, riding, bears, effects, dirty, removed, recipients, sentEffects, hud>>
onlyAttributes == <<ready, viewersOf, bearing, overrides, marked, sentOnes, audience, rows>>
onlyEntries    == <<listeners, left, ticker, awaiting, measured, answers, entry, fresh,
                    sentEntry, list>>
onlyClocks     == <<acted, watching, comp, sentClock, expected, since, watchers, todo,
                    released, forgot, dials>>
onlyBlocks     == <<stage, present, dim, hotbar, queue, world, client, up, down>>

E == INSTANCE Effects WITH phase <- step, MaxActs <- MaxEffectActs, Player <- Solo, ready <- mounts
A == INSTANCE Attributes WITH phase <- step
N == INSTANCE Entries WITH phase <- step, ready <- listeners
C == INSTANCE Clocks WITH phase <- step, Player <- Solo, Entity <- Dial, Interval <- Resend,
       MaxActs <- MaxDialActs, ready <- watching, sent <- sentClock, viewers <- watchers,
       view <- dials
I == INSTANCE ItemUse WITH phase <- stage, MaxActs <- MaxBlockActs

(* What a part does not start with is not varied in it. *)
InitMirrors ==
  /\ part \in {"roster", "effects", "attributes", "entries", "blocks", "clocks"}
  /\ Init /\ E!Init /\ A!Init /\ N!Init /\ I!Init /\ C!Init
  /\ part = "effects" \/ mounts = {}
  /\ part = "attributes" \/ ready = {}
  /\ part = "clocks" \/ watching = {}

RosterStep ==
  part = "roster" /\ Next
    /\ UNCHANGED <<part, tick, onlyEffects, onlyAttributes, onlyEntries, onlyBlocks, onlyClocks>>
EffectsStep ==
  part = "effects" /\ E!Next
    /\ UNCHANGED <<part, vars, onlyAttributes, onlyEntries, onlyBlocks, onlyClocks>>
AttributesStep ==
  part = "attributes" /\ A!Next
    /\ UNCHANGED <<part, vars, onlyEffects, onlyEntries, onlyBlocks, onlyClocks>>
EntriesStep ==
  part = "entries" /\ N!Next
    /\ UNCHANGED <<part, vars, onlyEffects, onlyAttributes, onlyBlocks, onlyClocks>>
BlocksStep ==
  part = "blocks" /\ I!Next
    /\ UNCHANGED <<part, step, vars, onlyEffects, onlyAttributes, onlyEntries, onlyClocks>>
ClocksStep ==
  part = "clocks" /\ C!Next
    /\ UNCHANGED <<part, vars, onlyEffects, onlyAttributes, onlyEntries, onlyBlocks>>

NextMirrors ==
  RosterStep \/ EffectsStep \/ AttributesStep \/ EntriesStep \/ BlocksStep \/ ClocksStep

SpecMirrors ==
  /\ InitMirrors
  /\ [][NextMirrors]_<<part, tick, vars, onlyEffects, onlyAttributes, onlyEntries,
                       onlyBlocks, onlyClocks>>

EffectsShown    == part = "effects" => E!EffectsShown
AttributesShown == part = "attributes" => A!AttributesShown
EntriesShown    == part = "entries" => N!EntriesShown
PredictionsSettle == part = "blocks" => I!PredictionsSettle
ClocksShown     == part = "clocks" => C!ClocksShown

Symmetry == Permutations(Player) \cup Permutations(Effect) \cup Permutations(Dial)
=============================================================================
