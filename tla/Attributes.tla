------------------------------ MODULE Attributes ------------------------------
(***************************************************************************)
(* Attribute overrides of players and of spawned entities                  *)
(* (void/src/entity/attributes.rs).  A player's go to every ready player;  *)
(* an entity's to its viewers, which the tracker of entity.rs keeps after  *)
(* the overrides were synced.  A client keeps the last base and modifiers  *)
(* it was sent, so what is dropped has to be sent back as the default of   *)
(* the entity's kind.                                                      *)
(*                                                                         *)
(* Only attributes that clients know are modelled: the rest are filtered   *)
(* out of every packet.  Entities share nothing: one tick syncs them all.  *)
(***************************************************************************)
EXTENDS Naturals, FiniteSets

CONSTANTS Player,
          Mob,        \* entities spawned with EntityBuilder
          Attribute,
          Base,       \* bases set by the game; 0 is a player's default
          KindBase,   \* the default of the mobs' kind
          None,       \* no override
          Early,      \* may a player have overrides before it is ready?
          MaxActs     \* actions of the game that are explored

Bearer == Player \cup Mob

VARIABLES
  phase,      \* the part of the tick that is next
  acts,       \* bound: actions of the game so far
  ready,      \* players with PlayerReady
  viewersOf,  \* EntityViewers of a mob
  bearing,    \* entities with Attributes
  overrides,  \* Attributes: base, and whether it is modified
  marked,     \* Attributes::dirty
  \* AttributesState
  sentOnes, audience,
  rows        \* what each client has of each entity, None for one it does not have

component == <<bearing, overrides, marked>>
state == <<sentOnes, audience>>
vars == <<phase, acts, ready, viewersOf, component, state, rows>>

(* EntityKind::default_attribute *)
DefaultBase(e) == IF e \in Player THEN 0 ELSE KindBase
DefaultRow(e) == [base |-> DefaultBase(e), modified |-> FALSE]
Untouched == [a \in Attribute |-> None]
Defaults(e) == [a \in Attribute |-> DefaultRow(e)]
NoRows == [e \in Bearer |-> None]

Init ==
  /\ phase = "game" /\ acts = 0 /\ ready \in SUBSET Player
  /\ viewersOf = [m \in Mob |-> {}]
  /\ bearing = {} /\ overrides = [e \in Bearer |-> Untouched]
  /\ marked = [e \in Bearer |-> {}] /\ sentOnes = marked
  /\ audience = [p \in Player |-> {}]
  /\ rows = [q \in Player |-> [e \in Bearer |->
       IF q \in ready /\ e \in ready THEN Defaults(e) ELSE None]]

Has(e) == {a \in Attribute : overrides[e][a] # None}

-----------------------------------------------------------------------------
(* The game. *)

Act == phase = "game" /\ acts < MaxActs /\ acts' = acts + 1 /\ phase' = phase

(* on_player_ready: the new player and the others are spawned at each other. *)
GetReady(p) ==
  /\ Act /\ p \notin ready /\ ready' = ready \cup {p}
  /\ \A e \in Player : p \notin audience[e] \* a player that comes back is another entity
  /\ rows' = [q \in Player |-> [e \in Bearer |->
       IF e \in ready' /\ q \in ready' /\ p \in {q, e} THEN Defaults(e) ELSE rows[q][e]]]
  /\ UNCHANGED <<viewersOf, component, state>>

Leave(p) ==
  /\ Act /\ p \in ready /\ ready' = ready \ {p}
  /\ rows' = [q \in Player |-> IF q = p THEN NoRows ELSE [rows[q] EXCEPT ![p] = None]]
  /\ viewersOf' = [m \in Mob |-> viewersOf[m] \ {p}]
  /\ bearing' = bearing \ {p}
  /\ overrides' = [overrides EXCEPT ![p] = Untouched]
  /\ marked' = [marked EXCEPT ![p] = {}] /\ sentOnes' = [sentOnes EXCEPT ![p] = {}]
  /\ audience' = [audience EXCEPT ![p] = {}]

(* A component made elsewhere, for any kind: A has overrides, B bases of its *)
(* own.  adopt_entity_kind gives the other bases the entity's default, and   *)
(* marks what the component before had sent and this one has not.            *)
Insert(e, A, B, b) ==
  /\ Act /\ B \subseteq A /\ (e \in Mob \cup ready \/ Early)
  /\ bearing' = bearing \cup {e}
  /\ overrides' = [overrides EXCEPT ![e] = [a \in Attribute |->
       IF a \in A THEN [base |-> IF a \in B THEN b ELSE DefaultBase(e), modified |-> a \notin B]
       ELSE None]]
  /\ marked' = [marked EXCEPT ![e] = A \cup (sentOnes[e] \ A)]
  /\ UNCHANGED <<ready, viewersOf, state, rows>>

(* snapshot_of; also what an override starts from. *)
Row(e, a) ==
  IF overrides[e][a] # None THEN overrides[e][a] ELSE DefaultRow(e)

Put(e, a, i) ==
  /\ Act /\ e \in bearing /\ i # overrides[e][a]
  /\ overrides' = [overrides EXCEPT ![e][a] = i]
  /\ marked' = [marked EXCEPT ![e] = @ \cup {a}]
  /\ UNCHANGED <<ready, viewersOf, bearing, state, rows>>

SetBase(e, a, b) == Put(e, a, [Row(e, a) EXCEPT !.base = b])

(* add_modifier; remove_modifier and clear_modifiers of one that is there. *)
Modify(e, a, on) == (on \/ a \in Has(e)) /\ Put(e, a, [Row(e, a) EXCEPT !.modified = on])

(* reset *)
ResetOne(e, a) == a \in Has(e) /\ Put(e, a, None)

(* reset_on_remove *)
Remove(e) ==
  /\ Act /\ e \in bearing /\ bearing' = bearing \ {e}
  /\ LET told == IF e \in Mob THEN viewersOf[e] ELSE audience[e] \cap ready
     IN rows' = [q \in Player |->
          IF q \in told /\ rows[q][e] # None
          THEN [rows[q] EXCEPT ![e] = [a \in Attribute |->
                 IF a \in sentOnes[e] THEN DefaultRow(e) ELSE @[a]]]
          ELSE rows[q]]
  /\ overrides' = [overrides EXCEPT ![e] = Untouched]
  /\ marked' = [marked EXCEPT ![e] = {}] /\ sentOnes' = [sentOnes EXCEPT ![e] = {}]
  /\ audience' = [p \in Player |-> IF p = e THEN {} ELSE audience[p]]
  /\ UNCHANGED <<ready, viewersOf>>

-----------------------------------------------------------------------------
(* sync_attributes, then the tracker. *)

Sent(e) == (sentOnes[e] \ marked[e]) \cup (marked[e] \cap Has(e))

(* Mutant of Full: a client that comes is sent what is new. *)
FullNew(e, row) == [a \in Attribute |-> IF a \in marked[e] THEN Row(e, a) ELSE row[a]]

(* syncable_snapshots, at a client that shows row. *)
Full(e, row) == [a \in Attribute |-> IF a \in Has(e) THEN Row(e, a) ELSE row[a]]

(* What the client of q makes of the packets about e it was sent. *)
Told(q, e) ==
  LET row  == rows[q][e]
      news == [a \in Attribute |-> IF a \in marked[e] THEN Row(e, a) ELSE row[a]]
  IN IF row = None THEN None ELSE
     CASE e \in Mob /\ q \in viewersOf[e] -> news
       [] e \in Player /\ q \in ready \cap audience[e] -> news
       [] e \in Player /\ q \in ready \ audience[e] /\ Sent(e) # {} -> Full(e, row)
       [] OTHER -> row

Sync ==
  /\ phase = "game" /\ phase' = "tracker"
  /\ rows' = [q \in Player |-> [e \in Bearer |->
       IF e \in bearing THEN Told(q, e) ELSE rows[q][e]]]
  /\ sentOnes' = [e \in Bearer |-> IF e \in bearing THEN Sent(e) ELSE sentOnes[e]]
  /\ marked' = [e \in Bearer |-> {}]
  /\ audience' = [p \in Player |-> IF p \in bearing THEN ready ELSE audience[p]]
  /\ UNCHANGED <<acts, ready, viewersOf, bearing, overrides>>

(* send_attributes_on_shown: a mob is spawned at the clients it comes into  *)
(* the sight of, and the overrides follow.                                  *)
Track(V) ==
  /\ phase = "tracker" /\ phase' = "done"
  /\ viewersOf' = V
  /\ rows' = [q \in Player |-> [e \in Bearer |->
       CASE e \in Player \/ (q \in V[e] /\ q \in viewersOf[e]) -> rows[q][e]
         [] e \in Mob /\ q \in V[e] \ viewersOf[e] -> Full(e, Defaults(e))
         [] OTHER -> None]]
  /\ UNCHANGED <<acts, ready, component, state>>

EndTick ==
  /\ phase = "done" /\ phase' = "game"
  /\ UNCHANGED <<acts, ready, viewersOf, component, state, rows>>

-----------------------------------------------------------------------------
Next ==
  \/ \E p \in Player : GetReady(p) \/ Leave(p)
  \/ \E e \in Bearer :
       \/ Remove(e)
       \/ \E A, B \in SUBSET Attribute, b \in Base : Insert(e, A, B, b)
       \/ \E a \in Attribute :
            \/ \E b \in Base : SetBase(e, a, b)
            \/ \E on \in BOOLEAN : Modify(e, a, on)
            \/ ResetOne(e, a)
  \/ Sync \/ (\E V \in [Mob -> SUBSET ready] : Track(V)) \/ EndTick

Spec == Init /\ [][Next]_vars

-----------------------------------------------------------------------------
(***************************************************************************)
(* After a tick every client that has an entity has its overrides, and the *)
(* default of the entity's kind for the rest, whatever was overridden      *)
(* before: attributes reset, components replaced by others or taken away,  *)
(* clients that come and entities that are shown again, with only changes  *)
(* sent to who was there (attributes.rs 331-486).                          *)
(***************************************************************************)
AttributesShown ==
  phase = "done" =>
    \A q \in ready, e \in Bearer :
      rows[q][e] # None => rows[q][e] = [a \in Attribute |-> Row(e, a)]
=============================================================================
