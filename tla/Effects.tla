------------------------------- MODULE Effects -------------------------------
(***************************************************************************)
(* Status effects of players and of the vehicles they ride                 *)
(* (void/src/entity/effects.rs): the component remembers what changed and  *)
(* what was removed since the last tick, its state which effects were sent *)
(* and to whom.  A player is told its own effects and those of what it     *)
(* rides.  Durations count down on both sides: an effect sent is not sent  *)
(* again for being a tick older, and the server alone ends it.             *)
(*                                                                         *)
(* Entities do not share anything, so one tick syncs all of them at once.  *)
(***************************************************************************)
EXTENDS Naturals, FiniteSets

CONSTANTS Player,
          Mob,       \* entities that players ride
          Effect,
          Length,    \* durations in ticks
          Forever,   \* EffectDuration::Infinite
          None,      \* no instance
          Replaced,  \* may a component be inserted over another?
          MaxActs    \* actions of the game that are explored

Bearer == Player \cup Mob
Duration == Length \cup {Forever}
Instance == [amplifier : {1, 2}, left : Duration]

VARIABLES
  phase,     \* "game", or "done" after the systems ran
  acts,      \* bound: actions of the game so far
  ready,     \* players with PlayerReady
  riding,    \* player: the mob whose Passengers list it, or None
  bears,     \* entities with StatusEffects
  \* StatusEffects
  effects, dirty, removed,
  \* StatusEffectsState
  recipients, sentEffects,
  hud        \* what each client has of each entity

component == <<bears, effects, dirty, removed>>
state == <<recipients, sentEffects>>
vars == <<phase, acts, ready, riding, component, state, hud>>

Nothing == [a \in Effect |-> None]

Init ==
  /\ phase = "game" /\ acts = 0 /\ ready \in SUBSET Player
  /\ riding = [p \in Player |-> None]
  /\ bears = {}
  /\ effects = [e \in Bearer |-> Nothing]
  /\ dirty = [e \in Bearer |-> {}] /\ removed = dirty
  /\ recipients = [e \in Bearer |-> {}] /\ sentEffects = dirty
  /\ hud = [p \in Player |-> effects]

Worn(e) == {a \in Effect : effects[e][a] # None}

(* sync_status_effects, members: the entity and its riders that are ready. *)
Members(e) == {p \in ready : p = e \/ riding[p] = e}

-----------------------------------------------------------------------------
(* The game. *)

Act == phase = "game" /\ acts < MaxActs /\ acts' = acts + 1 /\ phase' = phase

GetReady(p) ==
  /\ Act /\ p \notin ready /\ ready' = ready \cup {p}
  /\ \A e \in Bearer : p \notin recipients[e] \* a player that comes back is another entity
  /\ UNCHANGED <<riding, component, state, hud>>

(* Its entity goes, and with it what its client has. *)
Leave(p) ==
  /\ Act /\ p \in ready /\ ready' = ready \ {p}
  /\ riding' = [riding EXCEPT ![p] = None]
  /\ bears' = bears \ {p}
  /\ effects' = [effects EXCEPT ![p] = Nothing]
  /\ dirty' = [dirty EXCEPT ![p] = {}] /\ removed' = [removed EXCEPT ![p] = {}]
  /\ recipients' = [recipients EXCEPT ![p] = {}]
  /\ sentEffects' = [sentEffects EXCEPT ![p] = {}]
  /\ hud' = [hud EXCEPT ![p] = [e \in Bearer |-> Nothing]]

Ride(p, m) ==
  /\ Act /\ p \in ready /\ riding[p] # m /\ riding' = [riding EXCEPT ![p] = m]
  /\ UNCHANGED <<ready, component, state, hud>>

(* Inserted as a component whose effects are all new; over another one, the *)
(* state of the other stays.                                                *)
Insert(e, A, i) ==
  /\ Act /\ e \in ready \cup Mob /\ (e \in bears => Replaced)
  /\ bears' = bears \cup {e}
  /\ effects' = [effects EXCEPT ![e] = [a \in Effect |-> IF a \in A THEN i ELSE None]]
  /\ dirty' = [dirty EXCEPT ![e] = A] /\ removed' = [removed EXCEPT ![e] = {}]
  /\ UNCHANGED <<ready, riding, state, hud>>

(* StatusEffects::insert, and get_mut of one that is worn. *)
Add(e, a, i) ==
  /\ Act /\ e \in bears /\ effects[e][a] # i
  /\ effects' = [effects EXCEPT ![e][a] = i]
  /\ dirty' = [dirty EXCEPT ![e] = @ \cup {a}]
  \* get_mut leaves removed alone; what is worn is not in it
  /\ removed' = [removed EXCEPT ![e] = @ \ {a}]
  /\ UNCHANGED <<ready, riding, bears, state, hud>>

(* remove, and clear. *)
Remove(e, A) ==
  /\ Act /\ e \in bears /\ A # {} /\ A \subseteq Worn(e)
  /\ effects' = [effects EXCEPT ![e] = [a \in Effect |-> IF a \in A THEN None ELSE @[a]]]
  /\ dirty' = [dirty EXCEPT ![e] = @ \ A]
  /\ removed' = [removed EXCEPT ![e] = @ \cup A]
  /\ UNCHANGED <<ready, riding, bears, state, hud>>

(* remove_from_recipients: the component is removed. *)
Withdraw(e) ==
  /\ Act /\ e \in bears
  /\ hud' = [p \in Player |->
       IF p \in recipients[e] \cap ready
       THEN [hud[p] EXCEPT ![e] = [a \in Effect |-> IF a \in sentEffects[e] THEN None ELSE @[a]]]
       ELSE hud[p]]
  /\ recipients' = [recipients EXCEPT ![e] = {}]
  /\ sentEffects' = [sentEffects EXCEPT ![e] = {}]
  /\ bears' = bears \ {e} /\ effects' = [effects EXCEPT ![e] = Nothing]
  /\ dirty' = [dirty EXCEPT ![e] = {}] /\ removed' = [removed EXCEPT ![e] = {}]
  /\ UNCHANGED <<ready, riding>>

-----------------------------------------------------------------------------
(* The tick: counting down, then sync_status_effects. *)

Down(i) ==
  IF i = None \/ i.left \in {Forever, 0} THEN i ELSE [i EXCEPT !.left = @ - 1]

(* tick_down passes over what changed: it is about to be sent as it is. *)
Aged(e, a) == IF a \in dirty[e] THEN effects[e][a] ELSE Down(effects[e][a])

Expired(e) ==
  {a \in Worn(e) \ dirty[e] : effects[e][a].left # Forever /\ effects[e][a].left <= 1}
Kept(e, a) == IF a \in Expired(e) THEN None ELSE Aged(e, a)

(* Mutant of Removed: an effect that ends is not told. *)
RemovedOnly(e) == removed[e] \cap sentEffects[e]

Removed(e) == (removed[e] \cup Expired(e)) \cap sentEffects[e]
Sent(e) == (sentEffects[e] \ Removed(e)) \cup (dirty[e] \cap Worn(e))

(* What the client of p makes of the packets about effect a of e. *)
Told(p, e, a) ==
  LET held == p \in recipients[e]
      new  == Kept(e, a)
  IN CASE ~held /\ p \in Members(e) /\ new # None                    -> new
       [] held /\ p \in Members(e) /\ a \in dirty[e] /\ new # None   -> new
       [] held /\ a \in Removed(e)                                   -> None
       [] held /\ p \notin Members(e) /\ a \in Sent(e)               -> None
       [] OTHER                                                      -> Down(hud[p][e][a])

Sync ==
  /\ phase = "game" /\ phase' = "done"
  /\ hud' = [p \in Player |-> [e \in Bearer |-> [a \in Effect |->
       IF p \in ready /\ e \in bears THEN Told(p, e, a) ELSE Down(hud[p][e][a])]]]
  /\ effects' = [e \in Bearer |-> [a \in Effect |-> Kept(e, a)]]
  /\ sentEffects' = [e \in Bearer |-> IF e \in bears THEN Sent(e) ELSE sentEffects[e]]
  /\ recipients' = [e \in Bearer |-> IF e \in bears THEN Members(e) ELSE recipients[e]]
  /\ dirty' = [e \in Bearer |-> {}] /\ removed' = [e \in Bearer |-> {}]
  /\ UNCHANGED <<acts, ready, riding, bears>>

EndTick == phase = "done" /\ phase' = "game" /\ UNCHANGED <<acts, ready, riding, component, state, hud>>

-----------------------------------------------------------------------------
Next ==
  \/ \E p \in Player : GetReady(p) \/ Leave(p) \/ \E m \in Mob \cup {None} : Ride(p, m)
  \/ \E e \in Bearer :
       \/ \E A \in SUBSET Effect : Remove(e, A) \/ \E i \in Instance : Insert(e, A, i)
       \/ \E a \in Effect, i \in Instance : Add(e, a, i)
       \/ Withdraw(e)
  \/ Sync \/ EndTick

Spec == Init /\ [][Next]_vars

-----------------------------------------------------------------------------
(***************************************************************************)
(* After a tick a client has the effects of its player and of what the     *)
(* player rides, with the amplifier and the time they have left, and none  *)
(* of anything else, although it is sent only what changed and counts down *)
(* by itself: effects set, removed or ended in the tick in which a rider   *)
(* comes or goes, and components taken away and given back                 *)
(* (effects.rs 188-287, 380-453, 479-506).                                 *)
(***************************************************************************)
EffectsShown ==
  phase = "done" =>
    \A p \in ready, e \in Bearer :
      hud[p][e] = IF p \in Members(e) THEN effects[e] ELSE Nothing
=============================================================================
