------------------------------ MODULE MCViewers ------------------------------
(***************************************************************************)
(* Small instances of what is sent to a changing set of viewers, side by   *)
(* side: a behaviour is one of entities, of objectives, of teams or of the *)
(* overlays, which share nothing but the way they are synced.  Variables   *)
(* of the same name serve objectives and teams; overlays need one player   *)
(* only.  Players and entities are interchangeable, but for the objective  *)
(* that a sidebar draws.                                                   *)
(***************************************************************************)
EXTENDS Visibility, TLC

CONSTANTS MaxObjectiveActs, MaxTeamActs, MaxOverlayActs, \* MaxActs of the parts but entities
          Ranked, Name, Slot, Board, BoardName, BoardSlot, Text, Line, MaxLines, MovesRefused,
          Member, Param,
          Solo, Screenful, \* the player and the entities of the overlays
          Screen, Full, Transition, Overlap, Handover, Hasty

VARIABLES
  part,
  audience, known, sent, viewers, refused, stale, pending, todo, own, freed, broken,
  departed, obj, lines, redraw, hold, objs, display,
  team, update, joined, on, turned, teams, playsOn,
  kind, acted, screened, comp, sentOver, target, from, elapsed, viewersOver,
  todoOver, released, forgot, screens

tick           == <<phase, acts>>
onlyEntities   == <<players, index, dirty, entities, seen, client>>
claims         == <<audience, known, sent, viewers, refused, stale, pending, todo, own, freed, broken>>
onlyObjectives == <<departed, obj, lines, redraw, hold, objs, display>>
onlyTeams      == <<team, update, joined, on, turned, teams, playsOn>>
onlyOverlays   == <<kind, acted, screened, comp, sentOver, target, from, elapsed,
                    viewersOver, todoOver, released, forgot, screens>>

S == INSTANCE Scoreboard WITH Entity <- Ranked, ready <- audience, gone <- departed,
       MaxActs <- MaxObjectiveActs
T == INSTANCE Teams WITH Entity <- Ranked, ready <- audience, MaxActs <- MaxTeamActs
O == INSTANCE Overlays WITH Player <- Solo, Entity <- Screenful, ready <- screened,
       sent <- sentOver, viewers <- viewersOver, todo <- todoOver, view <- screens,
       MaxActs <- MaxOverlayActs

(* What a part does not start with is not varied in it. *)
InitViewers ==
  /\ part \in {"entities", "objectives", "teams", "overlays"}
  /\ Init /\ S!Init /\ T!Init /\ O!Init
  /\ part \in {"objectives", "teams"} \/ (audience = {} /\ \A e, f \in Ranked : known[e] = known[f])
  /\ part = "overlays" \/ (kind = "bar" /\ screened = {})

EntitiesStep == part = "entities" /\ Next /\ UNCHANGED <<part, claims, onlyObjectives, onlyTeams, onlyOverlays>>
ObjectivesStep == part = "objectives" /\ S!Next /\ UNCHANGED <<part, onlyEntities, onlyTeams, onlyOverlays>>
TeamsStep == part = "teams" /\ T!Next /\ UNCHANGED <<part, onlyEntities, onlyObjectives, onlyOverlays>>
OverlaysStep == part = "overlays" /\ O!Next /\ UNCHANGED <<part, onlyEntities, claims, onlyObjectives, onlyTeams>>

NextViewers == EntitiesStep \/ ObjectivesStep \/ TeamsStep \/ OverlaysStep

SpecViewers ==
  InitViewers
    /\ [][NextViewers]_<<part, tick, onlyEntities, claims, onlyObjectives, onlyTeams, onlyOverlays>>

ObjectivesShown == part = "objectives" => S!ObjectivesShown
RefusedForCause == part = "objectives" => S!RefusedForCause
BoardInOrder    == part = "objectives" => S!BoardInOrder
TeamsShown      == part = "teams" => T!TeamsShown
OverlaysShown   == part = "overlays" => O!OverlaysShown

Symmetry ==
  Permutations(Player) \cup Permutations(Entity) \cup Permutations(Line) \cup Permutations(Screenful)
=============================================================================
