---------------------------- MODULE ViewersProofs ----------------------------
(***************************************************************************)
(* What is sent to a changing set of viewers: entities (Visibility), the   *)
(* overlays of a screen (Overlays), teams (Teams) and objectives with their *)
(* sidebars (Scoreboard).                                                  *)
(*                                                                         *)
(* Entities, for any players, entities, dimensions and columns: what is    *)
(* shown, with or without riders the viewers do not know yet, and who rides *)
(* what, without such riders.  Overlays, teams and objectives: for any     *)
(* players, components, levels, names, slots and lines, clients show at    *)
(* the end of a tick what covers them.                                     *)
(*                                                                         *)
(* One inductive invariant for each, and at the end the parts of MCViewers, *)
(* which are these components side by side.                                *)
(***************************************************************************)
EXTENDS MCViewers, Integers, Sequences, FiniteSetTheorems, TLAPS

-----------------------------------------------------------------------------
(* The inductive invariant *)

(* The index is what the mirrors say, and only ready players have one. *)
Indexed ==
  /\ index = {kp \in Key \X Player : kp[1] \in mirror[kp[2]]}
  /\ \A p \in Player \ ready : mirror[p] = {}

(* A mirror is behind the player's components for those who changed only. *)
Reconciled ==
  /\ \A p \in ready \ touched : mirror[p] = Contribution(p)
  /\ phase # "game" => touched = {}

(* What the tracker would make of the viewers of e in chunk k. *)
At(e, k) == IF e \in hidden THEN {} ELSE {p \in Player : <<k, p>> \in index}

(* The viewers of an entity are behind the index where it is marked only:   *)
(* by the chunk of the last look, wherever the entity has moved since.      *)
Viewed ==
  \A e \in Entity :
    /\ e \notin alive \/ seen[e].chunk = None => seen[e].viewers = {}
    /\ e \in alive /\ seen[e].chunk \in Key \ dirty
         => seen[e].viewers = At(e, seen[e].chunk)
    /\ seen[e].viewers \subseteq ready \cup gone

(* A client was shown the entities that count it as a viewer. *)
Told == \A p \in Player : shown[p] = {e \in Entity : p \in seen[e].viewers}

Looked == phase = "done" => dirty = {} /\ \A e \in alive : seen[e].chunk = at[e]

(* A viewer has the base of the next delta, and metadata but what is due. *)
Based ==
  \A e \in alive : \A p \in seen[e].viewers \cap ready :
    where[p][e] = prev[e] /\ (e \notin unsent => look[p][e] = meta[e])

Caught ==
  /\ phase \in {"sync", "track", "done"} => prev = at
  /\ phase \in {"track", "done"} => unsent = {}

VisInv == TypeOK /\ Indexed /\ Reconciled /\ Viewed /\ Told /\ Looked /\ Based /\ Caught

-----------------------------------------------------------------------------
LEMMA InitHolds == Init => VisInv
<1> SUFFICES ASSUME Init PROVE VisInv
  OBVIOUS
<1> USE VisibilityAssumption
<1>1. (CHOOSE d \in Dimension : TRUE) \in Dimension /\ (CHOOSE k \in Key : TRUE) \in Key
  <2>1. \E d : d \in Dimension  OBVIOUS
  <2>2. \E k : k \in Key
    <3>1. PICK d \in Dimension : TRUE  OBVIOUS
    <3>2. PICK c \in Column : TRUE  OBVIOUS
    <3>3. <<d, c>> \in Key  BY DEF Key
    <3> QED  BY <3>3
  <2>3. (CHOOSE d \in Dimension : TRUE) \in Dimension  BY ONLY <2>1, Zenon
  <2>4. (CHOOSE k \in Key : TRUE) \in Key  BY ONLY <2>2, Zenon
  <2> QED  BY <2>3, <2>4
<1>2. TypeOK
  BY <1>1 DEF Init, TypeOK
<1>3. Indexed /\ Reconciled /\ Looked /\ Caught
  BY <1>1 DEF Init, Indexed, Reconciled, Looked, Caught
<1>4. Viewed /\ Told /\ Based
  BY <1>1 DEF Init, Viewed, Told, Based
<1> QED
  BY <1>2, <1>3, <1>4 DEF VisInv

(* What a player's components say changes, and it is marked as touched. *)
LEMMA TouchKeeps ==
  ASSUME VisInv, NEW p \in Player, phase = "game", phase' = phase, acts' \in Nat,
         dim' \in [Player -> Dimension], loaded' \in [Player -> SUBSET Column],
         \A q \in Player \ {p} : dim'[q] = dim[q] /\ loaded'[q] = loaded[q],
         ready' \in {ready, ready \cup {p}}, p \in ready' => touched' = touched \cup {p},
         p \notin ready' => touched' = touched, p \notin gone,
         p \in ready => ready' = ready,
         UNCHANGED <<gone, mirror, index, dirty, entities, seen, client>>
  PROVE  VisInv'
<1> USE DEF VisInv, entities, client
<1>1. TypeOK'
  BY DEF TypeOK
<1>2. Indexed'
  BY DEF TypeOK, Indexed
<1>3. Reconciled'
  <2>1. \A q \in ready' \ touched' : q \in ready \ touched /\ q # p
    BY DEF TypeOK
  <2>2. \A q \in ready \ touched : q # p => Contribution(q)' = Contribution(q)
    BY DEF TypeOK, Contribution
  <2> QED
    BY <2>1, <2>2 DEF Reconciled
<1>4. Viewed'
  BY DEF TypeOK, Viewed, At
<1>5. Told' /\ Looked' /\ Caught'
  BY DEF Told, Looked, Caught
<1>6. Based'
  <2>1. \A e \in alive : seen[e].viewers \cap ready' \subseteq ready
    BY DEF TypeOK, Viewed
  <2> QED
    BY <2>1 DEF TypeOK, Based
<1> QED
  BY <1>1, <1>2, <1>3, <1>4, <1>5, <1>6

LEMMA LeaveKeeps ==
  ASSUME VisInv, NEW p \in Player, Leave(p)
  PROVE  VisInv'
<1> USE DEF VisInv, entities, client, Leave, Act
<1>1. TypeOK'
  BY DEF TypeOK
<1>2. Indexed'
  BY DEF TypeOK, Indexed
<1>3. Reconciled'
  BY DEF TypeOK, Reconciled, Contribution
<1>4. Viewed'
  <2>1. \A k \in Key \ dirty' : \A q \in Player : <<k, q>> \in index <=> <<k, q>> \in index'
    BY DEF TypeOK
  <2>2. \A e \in Entity : \A k \in Key \ dirty' : At(e, k)' = At(e, k)
    BY <2>1 DEF At
  <2> QED
    BY <2>2 DEF TypeOK, Viewed
<1>5. Told' /\ Looked' /\ Caught' /\ Based'
  BY DEF TypeOK, Told, Looked, Caught, Based
<1> QED
  BY <1>1, <1>2, <1>3, <1>4, <1>5

-----------------------------------------------------------------------------
(* The game's actions on entities *)

LEMMA SpawnKeeps ==
  ASSUME VisInv, NEW e \in Entity, NEW k \in Key, Spawn(e, k)
  PROVE  VisInv'
<1> USE DEF VisInv, players, client, Spawn, Act
<1>1. TypeOK'
  BY DEF TypeOK
<1>2. Indexed' /\ Reconciled' /\ Looked' /\ Caught'
  BY DEF TypeOK, Indexed, Reconciled, Contribution, Looked, Caught
<1>3. Viewed' /\ Told'
  BY VisibilityAssumption DEF TypeOK, Viewed, At, Told
<1>4. Based'
  BY DEF TypeOK, Viewed, Based
<1> QED
  BY <1>1, <1>2, <1>3, <1>4

LEMMA DespawnKeeps ==
  ASSUME VisInv, NEW e \in Entity, Despawn(e)
  PROVE  VisInv'
<1> USE DEF VisInv, players, Despawn, Act
<1>1. TypeOK'
  BY DEF TypeOK, Off, VehiclesOf
<1>2. Indexed' /\ Reconciled' /\ Looked' /\ Caught'
  BY DEF TypeOK, Indexed, Reconciled, Contribution, Looked, Caught
<1>3. Viewed' /\ Told'
  BY VisibilityAssumption DEF TypeOK, Viewed, At, Told
<1>4. Based'
  BY DEF TypeOK, Viewed, Based
<1> QED
  BY <1>1, <1>2, <1>3, <1>4

LEMMA MoveKeeps ==
  ASSUME VisInv, NEW e \in Entity, NEW k \in Key, Move(e, k)
  PROVE  VisInv'
<1> USE DEF VisInv, players, client, Move, Act
<1>1. TypeOK'
  BY DEF TypeOK
<1>2. Indexed' /\ Reconciled' /\ Looked' /\ Caught'
  BY DEF TypeOK, Indexed, Reconciled, Contribution, Looked, Caught
<1>3. Viewed' /\ Told' /\ Based'
  BY DEF TypeOK, Viewed, At, Told, Based
<1> QED
  BY <1>1, <1>2, <1>3

LEMMA HiddenKeeps ==
  ASSUME VisInv, NEW e \in Entity, SetHidden(e)
  PROVE  VisInv'
<1> USE DEF VisInv, players, client, SetHidden, Act
<1>1. TypeOK'
  BY DEF TypeOK
<1>2. Indexed' /\ Reconciled' /\ Looked' /\ Caught'
  BY DEF TypeOK, Indexed, Reconciled, Contribution, Looked, Caught
<1>3. Viewed'
  <2>1. \A x \in Entity \ {e} : \A c \in Key : At(x, c)' = At(x, c)
    BY DEF At
  <2>2. seen[e].chunk \notin Key \ dirty'
    <3>1. seen[e].chunk \in Key \cup {None}  BY DEF TypeOK
    <3> QED  BY <3>1, VisibilityAssumption
  <2>3. alive' = alive /\ seen' = seen /\ ready' = ready /\ gone' = gone /\ dirty \subseteq dirty'
    OBVIOUS
  <2>4. /\ seen[e].viewers \subseteq ready \cup gone
        /\ e \notin alive \/ seen[e].chunk = None => seen[e].viewers = {}
    BY DEF Viewed
  <2>5. \A x \in Entity \ {e} :
          /\ x \notin alive \/ seen[x].chunk = None => seen[x].viewers = {}
          /\ x \in alive /\ seen[x].chunk \in Key \ dirty => seen[x].viewers = At(x, seen[x].chunk)
          /\ seen[x].viewers \subseteq ready \cup gone
    BY DEF Viewed
  <2> HIDE DEF VisInv, SetHidden, players, client, Act
  <2> QED
    BY <2>1, <2>2, <2>3, <2>4, <2>5 DEF Viewed
<1>4. Told' /\ Based'
  BY DEF TypeOK, Told, Based
<1> QED
  BY <1>1, <1>2, <1>3, <1>4

LEMMA MetaKeeps ==
  ASSUME VisInv, NEW e \in Entity, SetMeta(e)
  PROVE  VisInv'
<1> USE DEF VisInv, players, client, SetMeta, Act
<1>1. TypeOK'
  <2>1. \A x \in Entity : meta[x] \in {0, 1} /\ 1 - meta[x] \in {0, 1}
    BY DEF TypeOK
  <2>2. meta' \in [Entity -> {0, 1}]
    BY <2>1 DEF TypeOK
  <2> QED
    BY <2>2 DEF TypeOK
<1>2. Indexed' /\ Reconciled' /\ Looked' /\ Caught'
  BY DEF TypeOK, Indexed, Reconciled, Contribution, Looked, Caught
<1>3. Viewed' /\ Told'
  BY DEF TypeOK, Viewed, At, Told
<1>4. Based'
  BY DEF TypeOK, Based
<1> QED
  BY <1>1, <1>2, <1>3, <1>4

LEMMA RidersKeep ==
  ASSUME VisInv, NEW v \in Entity, NEW r \in Entity, Mount(v, r) \/ Dismount(v, r)
  PROVE  VisInv'
<1> USE DEF VisInv, players, client
<1>1. /\ riders' \in [Entity -> SUBSET Entity] /\ remount' \subseteq alive /\ acts' \in Nat
      /\ UNCHANGED <<phase, players, index, dirty, alive, at, prev, hidden, meta,
                     unsent, seen, client>>
  <2>1. CASE Mount(v, r)
    BY <2>1 DEF Mount, Act, TypeOK
  <2>2. CASE Dismount(v, r)
    BY <2>2 DEF Dismount, Act, TypeOK
  <2> QED
    BY <2>1, <2>2
<1>2. TypeOK'
  BY <1>1 DEF TypeOK
<1>3. Indexed' /\ Reconciled' /\ Looked' /\ Caught'
  BY <1>1 DEF TypeOK, Indexed, Reconciled, Contribution, Looked, Caught
<1>4. Viewed' /\ Told' /\ Based'
  BY <1>1 DEF TypeOK, Viewed, At, Told, Based
<1> QED
  BY <1>2, <1>3, <1>4

-----------------------------------------------------------------------------
(* The systems at the end of a tick *)

LEMMA IndexKeeps ==
  ASSUME VisInv, MaintainIndex
  PROVE  VisInv'
<1> USE DEF VisInv, entities, client, MaintainIndex
<1>1. \A p \in Player : Contribution(p) \subseteq Key /\ Contribution(p)' = Contribution(p)
  BY DEF TypeOK, Contribution, Key
<1>2. TypeOK'
  BY <1>1 DEF TypeOK, Withdrawn, Added
<1>3. Indexed'
  BY <1>1 DEF TypeOK, Indexed, Withdrawn, Added
<1>4. Reconciled'
  BY <1>1 DEF TypeOK, Reconciled
<1>5. Viewed'
  <2>1. ASSUME NEW k \in Key \ dirty', NEW p \in Player
        PROVE  <<k, p>> \in index' <=> <<k, p>> \in index
    BY <2>1 DEF TypeOK, Withdrawn, Added
  <2>2. \A e \in Entity : \A k \in Key \ dirty' : At(e, k)' = At(e, k)
    BY <2>1 DEF At
  <2> QED
    BY <2>2 DEF TypeOK, Viewed
<1>6. Told' /\ Looked' /\ Caught' /\ Based'
  BY DEF TypeOK, Told, Looked, Caught, Based
<1> QED
  BY <1>2, <1>3, <1>4, <1>5, <1>6

LEMMA BroadcastKeeps ==
  ASSUME VisInv, BroadcastMovement
  PROVE  VisInv'
<1> USE DEF VisInv, players, BroadcastMovement, Remember, Moved, Shifted
<1>1. TypeOK'
  BY DEF TypeOK
<1>2. Indexed' /\ Reconciled' /\ Looked' /\ Caught'
  BY DEF TypeOK, Indexed, Reconciled, Contribution, Looked, Caught
<1>3. Viewed' /\ Told'
  BY DEF TypeOK, Viewed, At, Told
<1>4. Based'
  <2> SUFFICES ASSUME NEW e \in alive, NEW p \in seen[e].viewers \cap ready
               PROVE  where'[p][e] = at[e] /\ (e \notin unsent => look[p][e] = meta[e])
    <3>1. UNCHANGED <<alive, seen, ready, unsent, look, meta>> /\ prev' = at
      OBVIOUS
    <3> HIDE DEF VisInv, players, BroadcastMovement, Remember, Moved, Shifted
    <3> QED
      BY <3>1 DEF Based
  <2>1. p \in Player \ gone /\ e \in Entity
    BY DEF TypeOK
  <2>2. where[p][e] = prev[e] /\ (e \notin unsent => look[p][e] = meta[e])
    BY DEF Based
  <2> QED
    BY <2>1, <2>2
<1> QED
  BY <1>1, <1>2, <1>3, <1>4

LEMMA SyncKeeps ==
  ASSUME VisInv, SyncEntities
  PROVE  VisInv'
<1> USE DEF VisInv, players, SyncEntities
<1>1. TypeOK'
  <2>1. mount' \in [Player -> [Entity -> Entity \cup {None}]]
    <3>1. ASSUME NEW m \in [Entity -> Entity \cup {None}], NEW V \in SUBSET Entity, NEW knows
          PROVE  Seated(m, V, knows) \in [Entity -> Entity \cup {None}]
      BY <3>1 DEF Seated
    <3>2. \A p \in Player : {v \in remount : p \in seen[v].viewers \cap ready} \in SUBSET Entity
      BY DEF TypeOK
    <3> QED
      BY <3>1, <3>2 DEF TypeOK
  <2> QED
    BY <2>1 DEF TypeOK
<1>2. Indexed' /\ Reconciled' /\ Looked' /\ Caught'
  BY DEF TypeOK, Indexed, Reconciled, Contribution, Looked, Caught
<1>3. Viewed' /\ Told'
  BY DEF TypeOK, Viewed, At, Told
<1>4. Based'
  BY DEF TypeOK, Based
<1> QED
  BY <1>1, <1>2, <1>3, <1>4

LEMMA TrackKeeps ==
  ASSUME VisInv, Track
  PROVE  VisInv'
<1> DEFINE come(p) == {e \in Tracked : p \in Desired(e) \ seen[e].viewers}
           go(p) == {e \in Tracked : p \in seen[e].viewers \ Desired(e)}
<1> USE DEF VisInv, players, entities
<1>1. Tracked \subseteq alive /\ alive \subseteq Entity
  BY DEF Tracked, TypeOK
<1>2. \A e \in Entity : Desired(e) \subseteq Player /\ Desired(e) = At(e, at[e])
  BY DEF Desired, At
<1>3. /\ phase = "track" /\ phase' = "done" /\ dirty' = {}
      /\ seen' = [e \in Entity |-> IF e \in Tracked
                    THEN [chunk |-> at[e], viewers |-> Desired(e)] ELSE seen[e]]
      /\ shown' = [p \in Player |-> (shown[p] \ go(p)) \cup come(p)]
      /\ where' = [p \in Player |-> [e \in Entity |->
                     IF e \in come(p) THEN at[e] ELSE where[p][e]]]
      /\ look' = [p \in Player |-> [e \in Entity |->
                     IF e \in come(p) THEN meta[e] ELSE look[p][e]]]
      /\ UNCHANGED <<acts, players, index, entities>>
  BY DEF Track
<1>4. mount' \in [Player -> [Entity -> Entity \cup {None}]]
  <2>1. ASSUME NEW m \in [Entity -> Entity \cup {None}], NEW V \in SUBSET Entity, NEW knows
        PROVE  Seated(m, V, knows) \in [Entity -> Entity \cup {None}]
    BY <2>1 DEF Seated
  <2> DEFINE left(p) == [r \in Entity |->
                           IF r \in come(p) \cup go(p) \/ mount[p][r] \in go(p)
                           THEN None ELSE mount[p][r]]
  <2>2. ASSUME NEW p \in Player
        PROVE  left(p) \in [Entity -> Entity \cup {None}] /\ Mounted(come(p)) \in SUBSET Entity
    BY <1>1 DEF TypeOK, Mounted
  <2>3. mount' = [p \in Player |-> Seated(left(p), Mounted(come(p)),
                                          (shown[p] \ go(p)) \cup come(p))]
    BY DEF Track
  <2> HIDE DEF left, come, go
  <2> QED
    BY <2>1, <2>2, <2>3
<1>5. TypeOK'
  BY <1>1, <1>2, <1>3, <1>4 DEF TypeOK
<1>6. Indexed' /\ Reconciled' /\ Caught'
  BY <1>3 DEF TypeOK, Indexed, Reconciled, Contribution, Caught
<1>7. Looked'
  BY <1>1, <1>3 DEF TypeOK, Looked, Tracked
<1>8. Viewed'
  <2> SUFFICES ASSUME NEW e \in Entity
               PROVE  /\ e \notin alive \/ seen'[e].chunk = None => seen'[e].viewers = {}
                      /\ e \in alive /\ seen'[e].chunk \in Key
                           => seen'[e].viewers = At(e, seen'[e].chunk)
                      /\ seen'[e].viewers \subseteq ready \cup gone
    BY <1>3 DEF Viewed, At
  <2>1. CASE e \in Tracked
    <3>1. seen'[e].chunk = at[e] /\ seen'[e].viewers = At(e, at[e])
      BY <1>2, <1>3, <2>1
    <3>2. at[e] \in Key /\ e \in alive
      BY <1>1, <2>1 DEF TypeOK
    <3>3. At(e, at[e]) \subseteq ready
      BY DEF At, Indexed, TypeOK
    <3> QED
      BY <3>1, <3>2, <3>3, VisibilityAssumption
  <2>2. CASE e \notin Tracked
    <3>1. seen'[e] = seen[e]
      BY <1>3, <2>2
    <3>2. e \in alive => seen[e].chunk \notin dirty
      BY <2>2 DEF Tracked
    <3> QED
      BY <3>1, <3>2 DEF Viewed
  <2> QED
    BY <2>1, <2>2
<1>9. Told'
  <2> SUFFICES ASSUME NEW p \in Player, NEW e \in Entity
               PROVE  e \in shown'[p] <=> p \in seen'[e].viewers
    BY <1>5 DEF Told, TypeOK
  <2>1. e \in shown[p] <=> p \in seen[e].viewers
    BY DEF Told
  <2> QED
    BY <1>3, <2>1
<1>10. Based'
  <2>0. alive' = alive /\ ready' = ready /\ prev' = prev /\ unsent' = unsent /\ meta' = meta
    BY <1>3
  <2> SUFFICES ASSUME NEW e \in alive, NEW p \in seen'[e].viewers \cap ready
               PROVE  where'[p][e] = prev[e] /\ (e \notin unsent => look'[p][e] = meta[e])
    BY <2>0 DEF Based
  <2>1. prev = at /\ p \in Player /\ e \in Entity
    BY <1>3 DEF Caught, TypeOK
  <2>2. CASE e \in come(p)
    BY <1>3, <2>1, <2>2
  <2>3. CASE e \notin come(p)
    <3>1. p \in seen[e].viewers
      BY <1>3, <2>1, <2>3
    <3>2. where[p][e] = prev[e] /\ (e \notin unsent => look[p][e] = meta[e])
      BY <3>1 DEF Based
    <3> QED
      BY <1>3, <2>1, <2>3, <3>2
  <2> QED
    BY <2>2, <2>3
<1> QED
  BY <1>5, <1>6, <1>7, <1>8, <1>9, <1>10

LEMMA EndKeeps ==
  ASSUME VisInv, EndTick \/ UNCHANGED vars
  PROVE  VisInv'
<1> USE DEF VisInv, players, entities, client, vars
<1>1. /\ phase' \in {"game", phase} /\ (phase' = phase \/ phase = "done")
      /\ UNCHANGED <<acts, players, index, dirty, entities, seen, client>>
  BY DEF EndTick
<1>2. TypeOK' /\ Indexed' /\ Reconciled'
  BY <1>1 DEF TypeOK, Indexed, Reconciled, Contribution
<1>3. Looked' /\ Caught' /\ Viewed' /\ Told' /\ Based'
  BY <1>1 DEF Looked, Caught, Viewed, At, Told, Based
<1> QED
  BY <1>2, <1>3

-----------------------------------------------------------------------------
LEMMA StepKeeps == VisInv /\ [Next]_vars => VisInv'
<1> SUFFICES ASSUME VisInv, [Next]_vars PROVE VisInv'
  OBVIOUS
<1>1. ASSUME NEW p \in Player, GetReady(p) PROVE VisInv'
  <2>1. TypeOK  BY DEF VisInv
  <2>2. /\ phase = "game" /\ phase' = phase /\ acts' \in Nat
        /\ ready' = ready \cup {p} /\ touched' = touched \cup {p}
        /\ p \notin ready /\ p \notin gone
        /\ UNCHANGED <<gone, dim, loaded, mirror, index, dirty, entities, seen, client>>
    BY <1>1, <2>1 DEF GetReady, Act, TypeOK
  <2> QED
    BY <2>1, <2>2, TouchKeeps DEF TypeOK
<1>2. ASSUME NEW p \in Player, Leave(p) PROVE VisInv'
  BY <1>2, LeaveKeeps
<1>3. ASSUME NEW p \in Player, NEW C \in SUBSET Column, SetLoaded(p, C) PROVE VisInv'
  <2>1. TypeOK  BY DEF VisInv
  <2> QED
    BY <1>3, <2>1, TouchKeeps DEF SetLoaded, Act, TypeOK
<1>4. ASSUME NEW p \in Player, NEW d \in Dimension, ChangeDimension(p, d) PROVE VisInv'
  <2>1. TypeOK  BY DEF VisInv
  <2> QED
    BY <1>4, <2>1, TouchKeeps DEF ChangeDimension, Act, TypeOK
<1>5. ASSUME NEW e \in Entity, Despawn(e) \/ SetHidden(e) \/ SetMeta(e) PROVE VisInv'
  BY <1>5, DespawnKeeps, HiddenKeeps, MetaKeeps
<1>6. ASSUME NEW e \in Entity, NEW k \in Key, Spawn(e, k) \/ Move(e, k) PROVE VisInv'
  BY <1>6, SpawnKeeps, MoveKeeps
<1>7. ASSUME NEW v \in Entity, NEW r \in Entity, Mount(v, r) \/ Dismount(v, r) PROVE VisInv'
  BY <1>7, RidersKeep
<1>8. ASSUME Tick \/ UNCHANGED vars PROVE VisInv'
  BY <1>8, IndexKeeps, BroadcastKeeps, SyncKeeps, TrackKeeps, EndKeeps DEF Tick
<1> QED
  BY <1>1, <1>2, <1>3, <1>4, <1>5, <1>6, <1>7, <1>8 DEF Next, Game

(* The invariant holds in every reachable state. *)
THEOREM Invariance == Spec => []VisInv
<1> QED
  BY InitHolds, StepKeeps, PTL DEF Spec

(* Every variable keeps its type (all of entity.rs and the index). *)
THEOREM Typed == Spec => []TypeOK
<1>1. VisInv => TypeOK
  BY DEF VisInv
<1> QED
  BY <1>1, Invariance, PTL

(***************************************************************************)
(* A ready player is shown, at the end of a tick, the entities that are    *)
(* not hidden in the chunks it has loaded and no others (entity.rs         *)
(* 339-408).                                                               *)
(***************************************************************************)
THEOREM Exactly == Spec => []ShownExactly
<1>1. VisInv => ShownExactly
  <2> SUFFICES ASSUME VisInv, phase = "done", NEW p \in ready, NEW e \in Entity
               PROVE  e \in shown[p] <=> Sees(p, e)
    BY DEF ShownExactly, VisInv, TypeOK
  <2>1. p \in Player /\ mirror[p] = Contribution(p)
    BY DEF VisInv, TypeOK, Reconciled
  <2>2. e \in shown[p] <=> p \in seen[e].viewers
    BY <2>1 DEF VisInv, Told
  <2>3. CASE e \notin alive
    BY <2>2, <2>3 DEF VisInv, Viewed, Sees
  <2>4. CASE e \in alive
    <3>1. seen[e].viewers = At(e, at[e])
      BY <2>4 DEF VisInv, TypeOK, Looked, Viewed
    <3>2. <<at[e], p>> \in index <=> at[e] \in Contribution(p)
      BY <2>1 DEF VisInv, TypeOK, Indexed
    <3> QED
      BY <2>1, <2>2, <2>4, <3>1, <3>2 DEF At, Sees
  <2> QED
    BY <2>3, <2>4
<1> QED
  BY <1>1, Invariance, PTL

(* ... each where it is and looking as it does (systems/entities.rs 19-110, *)
(* metadata.rs 634-677).                                                   *)
THEOREM AsIs == Spec => []ShownAsIs
<1>1. VisInv => ShownAsIs
  <2> SUFFICES ASSUME VisInv, phase = "done", NEW p \in ready, NEW e \in shown[p]
               PROVE  where[p][e] = at[e] /\ look[p][e] = meta[e]
    BY DEF ShownAsIs
  <2>1. e \in alive /\ p \in seen[e].viewers
    BY DEF VisInv, TypeOK, Told, Viewed
  <2> QED
    BY <2>1 DEF VisInv, Based, Caught
<1> QED
  BY <1>1, Invariance, PTL
-----------------------------------------------------------------------------
(* Who rides what: vehicles and riders on the server *)

Riding ==
  \A v \in Entity : \A r \in riders[v] :
    /\ v \in alive /\ r \in alive \ hidden /\ riders[r] = {} /\ at[r] = at[v]
    /\ \A w \in Entity : r \in riders[w] => w = v

(* Whoever sees the vehicle sees the rider. *)
SeenAlike == \A v \in Entity : \A r \in riders[v] : seen[v].viewers \subseteq seen[r].viewers

(* A client seats what it knows on what it knows. *)
SeatsKnown ==
  \A p \in Player : \A r \in Entity :
    mount[p][r] # None => r \in shown[p] /\ mount[p][r] \in shown[p]

(* ... as the server does, but for the vehicles that are about to be synced. *)
SeatsTrue ==
  \A p \in ready : \A v \in shown[p] \ remount : \A r \in shown[p] :
    (mount[p][r] = v) <=> (r \in riders[v])

Sent == phase \in {"track", "done"} => remount = {}

RidersInv == Riding /\ SeenAlike /\ SeatsKnown /\ SeatsTrue /\ Sent

LEMMA RidersStart == Init => RidersInv
<1> SUFFICES ASSUME Init PROVE RidersInv
  OBVIOUS
<1>1. Riding /\ SeenAlike /\ Sent
  BY DEF Init, Riding, SeenAlike, Sent
<1>2. SeatsKnown
  BY DEF Init, SeatsKnown
<1>3. SeatsTrue
  BY DEF Init, SeatsTrue
<1> QED
  BY <1>1, <1>2, <1>3 DEF RidersInv

(***************************************************************************)
(* A player that becomes ready has been shown nothing yet.                 *)
(***************************************************************************)
LEMMA NewlyReady ==
  ASSUME VisInv, NEW p \in Player, p \notin ready, p \notin gone PROVE shown[p] = {}
BY DEF VisInv, Told, Viewed

(***************************************************************************)
(* Steps of the players and of the index.                                  *)
(***************************************************************************)
LEMMA RidersSame ==
  ASSUME VisInv, RidersInv,
         UNCHANGED <<alive, at, hidden, riders, remount, seen, shown, mount>>,
         \A p \in ready' \ ready : p \in Player \ gone,
         phase' \in {"track", "done"} => phase \in {"track", "done"}
  PROVE  RidersInv'
<1> USE DEF RidersInv
<1>1. Riding' /\ SeenAlike' /\ Sent'
  BY DEF Riding, SeenAlike, Sent
<1>2. SeatsKnown'
  BY DEF SeatsKnown
<1>3. SeatsTrue'
  <2> SUFFICES ASSUME NEW p \in ready', NEW v \in shown[p] \ remount, NEW r \in shown[p]
               PROVE  (mount[p][r] = v) <=> (r \in riders[v])
    BY DEF SeatsTrue
  <2>1. p \in ready
    BY NewlyReady
  <2> QED
    BY <2>1 DEF SeatsTrue
<1> QED
  BY <1>1, <1>2, <1>3

LEMMA SpawnSeats ==
  ASSUME VisInv, RidersInv, NEW e \in Entity, NEW k \in Key, Spawn(e, k)
  PROVE  RidersInv'
<1> USE DEF RidersInv
<1>1. e \notin alive /\ seen[e].viewers = {} /\ TypeOK
  BY DEF Spawn, VisInv, Viewed
<1>2. riders[e] = {} /\ \A v \in Entity : e \notin riders[v]
  BY <1>1 DEF Riding, TypeOK
<1>3. Riding'
  <2>1. \A x \in Entity \ {e} : at'[x] = at[x]
    BY <1>1 DEF Spawn, TypeOK
  <2>2. \A v \in Entity : \A r \in riders[v] : v # e /\ r # e /\ r \in Entity
    BY <1>1, <1>2 DEF TypeOK
  <2> QED
    BY <2>1, <2>2 DEF Spawn, Riding
<1>4. \A x \in Entity : seen'[x].viewers = seen[x].viewers
  BY <1>1 DEF Spawn, TypeOK
<1>5. SeenAlike'
  BY <1>1, <1>4 DEF Spawn, SeenAlike, TypeOK
<1>6. SeatsKnown' /\ SeatsTrue' /\ Sent'
  BY DEF Spawn, Act, client, players, SeatsKnown, SeatsTrue, Sent
<1> QED
  BY <1>3, <1>5, <1>6

LEMMA DespawnSeats ==
  ASSUME VisInv, RidersInv, NEW e \in Entity, Despawn(e)
  PROVE  RidersInv'
<1> USE DEF RidersInv
<1>1. TypeOK /\ Told /\ alive' = alive \ {e} /\ hidden' = hidden \ {e}
  BY DEF Despawn, VisInv
<1>2. /\ riders'[e] = {}
      /\ \A v \in Entity \ {e} : riders'[v] = riders[v] \ {e}
      /\ at' = at
  BY DEF Despawn
<1>3. Riding'
  <2> SUFFICES ASSUME NEW v \in Entity, NEW r \in riders'[v]
               PROVE  /\ v \in alive' /\ r \in alive' \ hidden' /\ riders'[r] = {}
                      /\ at'[r] = at'[v]
                      /\ \A w \in Entity : r \in riders'[w] => w = v
    BY DEF Riding
  <2>1. v # e /\ r \in riders[v] /\ r # e /\ r \in Entity
    BY <1>1, <1>2 DEF TypeOK
  <2>2. \A w \in Entity : r \in riders'[w] => r \in riders[w]
    BY <1>2
  <2> QED
    BY <1>1, <1>2, <2>1, <2>2 DEF Riding
<1>4. /\ seen'[e].viewers = {}
      /\ \A x \in Entity \ {e} : seen'[x] = seen[x]
  BY <1>1 DEF Despawn, TypeOK
<1>5. SeenAlike'
  <2> SUFFICES ASSUME NEW v \in Entity, NEW r \in riders'[v]
               PROVE  seen'[v].viewers \subseteq seen'[r].viewers
    BY DEF SeenAlike
  <2>1. v # e /\ r \in riders[v] /\ r # e /\ r \in Entity
    BY <1>1, <1>2 DEF TypeOK
  <2>2. seen[v].viewers \subseteq seen[r].viewers
    BY <2>1 DEF SeenAlike
  <2> QED
    BY <1>4, <2>1, <2>2
<1>6. ASSUME NEW p \in Player
      PROVE  /\ shown'[p] = shown[p] \ {e}
             /\ \A r \in Entity : mount'[p][r] =
                  IF p \in seen[e].viewers /\ (r = e \/ mount[p][r] = e)
                  THEN None ELSE mount[p][r]
             /\ p \notin seen[e].viewers => e \notin shown[p]
  BY <1>1 DEF Despawn, Off, Told
<1>7. SeatsKnown'
  BY <1>6 DEF SeatsKnown
<1>8. SeatsTrue'
  <2> SUFFICES ASSUME NEW p \in ready, NEW v \in shown'[p] \ remount', NEW r \in shown'[p]
               PROVE  (mount'[p][r] = v) <=> (r \in riders'[v])
    BY DEF SeatsTrue, Despawn, players
  <2>1. p \in Player /\ v \in shown[p] \ {e} /\ r \in shown[p] \ {e}
        /\ v \in Entity /\ r \in Entity
    BY <1>1, <1>6 DEF TypeOK
  <2>2. v \notin remount
    BY <2>1 DEF Despawn
  <2>3. mount[p][r] = v <=> r \in riders[v]
    BY <2>1, <2>2 DEF SeatsTrue
  <2>4. mount'[p][r] = v <=> mount[p][r] = v
    <3>1. v # None
      BY <2>1, VisibilityAssumption
    <3> QED
      BY <1>6, <2>1, <3>1
  <2> QED
    BY <1>2, <2>1, <2>3, <2>4
<1>9. Sent'
  BY DEF Despawn, Act, Sent
<1> QED
  BY <1>3, <1>5, <1>7, <1>8, <1>9

(***************************************************************************)
(* A vehicle takes its riders along.                                       *)
(***************************************************************************)
LEMMA MoveSeats ==
  ASSUME VisInv, RidersInv, NEW e \in Entity, NEW k \in Key, Move(e, k)
  PROVE  RidersInv'
<1> USE DEF RidersInv
<1>1. TypeOK /\ \A v \in Entity : e \notin riders[v]
  BY DEF Move, VisInv, VehiclesOf, Riding
<1>2. UNCHANGED <<alive, hidden, riders, remount, seen, shown, mount, ready>>
      /\ phase = "game" /\ phase' = phase
  BY DEF Move, Act, players, client
<1>3. Riding'
  <2> SUFFICES ASSUME NEW v \in Entity, NEW r \in riders[v] PROVE at'[r] = at'[v]
    BY <1>2 DEF Riding
  <2>1. r \in Entity /\ r # e /\ at[r] = at[v] /\ riders[r] = {}
        /\ \A w \in Entity : r \in riders[w] => w = v
    BY <1>1 DEF Riding, TypeOK
  <2>2. v \notin riders[e]
    BY <2>1 DEF Riding
  <2>3. \A x \in Entity : at'[x] = IF x = e \/ x \in riders[e] THEN k ELSE at[x]
    BY DEF Move
  <2> QED
    BY <2>1, <2>2, <2>3
<1>4. SeenAlike' /\ SeatsKnown' /\ SeatsTrue' /\ Sent'
  BY <1>2 DEF SeenAlike, SeatsKnown, SeatsTrue, Sent
<1> QED
  BY <1>3, <1>4

LEMMA HiddenSeats ==
  ASSUME VisInv, RidersInv, NEW e \in Entity, SetHidden(e)
  PROVE  RidersInv'
<1> USE DEF RidersInv
<1>1. TypeOK /\ \A v \in Entity : e \notin riders[v]
  BY DEF SetHidden, VisInv, VehiclesOf, Riding
<1>2. UNCHANGED <<alive, at, riders, remount, seen, shown, mount, ready>>
      /\ phase = "game" /\ phase' = phase
      /\ hidden' \subseteq hidden \cup {e}
  BY DEF SetHidden, Act, players, client
<1>3. Riding'
  BY <1>1, <1>2 DEF Riding
<1>4. SeenAlike' /\ SeatsKnown' /\ SeatsTrue' /\ Sent'
  BY <1>2 DEF SeenAlike, SeatsKnown, SeatsTrue, Sent
<1> QED
  BY <1>3, <1>4

LEMMA MountSeats ==
  ASSUME ~FreshRiders, VisInv, RidersInv, NEW v \in Entity, NEW r \in Entity, Mount(v, r)
  PROVE  RidersInv'
<1> USE DEF RidersInv
<1>1. TypeOK /\ v \in alive /\ r \in alive /\ v # r /\ phase = "game" /\ phase' = phase
  BY DEF Mount, Act, VisInv
<1>2. /\ \A w \in Entity : r \notin riders[w] /\ v \notin riders[w]
      /\ r \notin hidden /\ riders[r] = {} /\ at[r] = at[v]
      /\ seen[v].viewers \subseteq seen[r].viewers
  BY DEF Mount, KnownAlike, VehiclesOf, Riding
<1>3. /\ UNCHANGED <<alive, at, hidden, seen, shown, mount, ready>>
      /\ riders'[v] = riders[v] \cup {r} /\ remount' = remount \cup {v}
      /\ \A w \in Entity \ {v} : riders'[w] = riders[w]
  BY <1>1 DEF Mount, players, client, TypeOK
<1>4. Riding'
  <2> SUFFICES ASSUME NEW w \in Entity, NEW x \in riders'[w]
               PROVE  /\ w \in alive /\ x \in alive \ hidden /\ riders'[x] = {}
                      /\ at[x] = at[w]
                      /\ \A u \in Entity : x \in riders'[u] => u = w
    BY <1>3 DEF Riding
  <2>1. CASE x = r
    <3>1. w = v /\ \A u \in Entity : x \in riders'[u] => u = v
      BY <1>2, <1>3, <2>1
    <3> QED
      BY <1>1, <1>2, <1>3, <2>1, <3>1
  <2>2. CASE x # r
    <3>1. x \in riders[w] /\ \A u \in Entity : x \in riders'[u] => x \in riders[u]
      BY <1>3, <2>2
    <3>2. x \in Entity /\ x # v
      BY <1>1, <1>2, <3>1 DEF TypeOK
    <3> QED
      BY <1>3, <3>1, <3>2 DEF Riding
  <2> QED
    BY <2>1, <2>2
<1>5. SeenAlike'
  BY <1>2, <1>3 DEF SeenAlike
<1>6. SeatsKnown' /\ Sent'
  BY <1>1, <1>3 DEF SeatsKnown, Sent
<1>7. SeatsTrue'
  <2>1. \A p \in ready : shown[p] \subseteq Entity
    BY <1>1 DEF TypeOK
  <2> QED
    BY <1>3, <2>1 DEF SeatsTrue
<1> QED
  BY <1>4, <1>5, <1>6, <1>7

LEMMA DismountSeats ==
  ASSUME VisInv, RidersInv, NEW v \in Entity, NEW r \in Entity, Dismount(v, r)
  PROVE  RidersInv'
<1> USE DEF RidersInv
<1>1. TypeOK /\ phase = "game" /\ phase' = phase
  BY DEF Dismount, Act, VisInv
<1>2. /\ UNCHANGED <<alive, at, hidden, seen, shown, mount, ready>>
      /\ riders'[v] = riders[v] \ {r} /\ remount' = remount \cup {v}
      /\ \A w \in Entity \ {v} : riders'[w] = riders[w]
  BY <1>1 DEF Dismount, players, client, TypeOK
<1>3. Riding'
  <2>1. \A w \in Entity : riders'[w] \subseteq riders[w]
    BY <1>2
  <2>2. \A w \in Entity : \A x \in riders[w] : x \in Entity /\ riders'[x] = {}
    BY <1>1, <2>1 DEF Riding, TypeOK
  <2> QED
    BY <1>2, <2>1, <2>2 DEF Riding
<1>4. SeenAlike'
  BY <1>2 DEF SeenAlike
<1>5. SeatsKnown' /\ Sent'
  BY <1>1, <1>2 DEF SeatsKnown, Sent
<1>6. SeatsTrue'
  <2>1. \A p \in ready : shown[p] \subseteq Entity
    BY <1>1 DEF TypeOK
  <2> QED
    BY <1>2, <2>1 DEF SeatsTrue
<1> QED
  BY <1>3, <1>4, <1>5, <1>6

(***************************************************************************)
(* What a client makes of SetPassengers of the vehicles V: those who ride  *)
(* one of them are seated there, the others who did are not any more.      *)
(***************************************************************************)
LEMMA SeatedOn ==
  ASSUME Riding, NEW m, NEW V \in SUBSET Entity, NEW knows,
         NEW r \in Entity, NEW v \in V, r \in riders[v], r \in knows
  PROVE  Seated(m, V, knows)[r] = v
<1> DEFINE vs == {w \in V : r \in riders[w] \cap knows}
<1>1. Seated(m, V, knows)[r] = IF vs # {} THEN CHOOSE w \in vs : TRUE
                               ELSE IF m[r] \in V THEN None ELSE m[r]
  BY DEF Seated
<1>2. vs = {v}
  BY DEF Riding
<1>3. (CHOOSE w \in {v} : TRUE) = v
  OBVIOUS
<1> HIDE DEF vs
<1> QED
  BY <1>1, <1>2, <1>3

LEMMA SeatedOff ==
  ASSUME NEW m, NEW V, NEW knows, NEW r \in Entity,
         \A v \in V : r \notin riders[v] \cap knows
  PROVE  Seated(m, V, knows)[r] = IF m[r] \in V THEN None ELSE m[r]
<1> DEFINE vs == {w \in V : r \in riders[w] \cap knows}
<1>1. Seated(m, V, knows)[r] = IF vs # {} THEN CHOOSE w \in vs : TRUE
                               ELSE IF m[r] \in V THEN None ELSE m[r]
  BY DEF Seated
<1>2. vs = {}
  OBVIOUS
<1> HIDE DEF vs
<1> QED
  BY <1>1, <1>2

(***************************************************************************)
(* The sync seats the riders of every vehicle that is due.                 *)
(***************************************************************************)
LEMMA SyncSeats ==
  ASSUME VisInv, RidersInv, SyncEntities PROVE RidersInv'
<1> USE DEF RidersInv
<1> DEFINE due(p) == {v \in remount : p \in seen[v].viewers \cap ready}
<1>1. /\ TypeOK /\ Told
      /\ UNCHANGED <<ready, alive, at, hidden, riders, seen, shown>>
      /\ remount' = {} /\ phase' = "track"
  BY DEF SyncEntities, VisInv, players
<1>2. Riding' /\ SeenAlike' /\ Sent'
  BY <1>1 DEF Riding, SeenAlike, Sent
<1>3. ASSUME NEW p \in Player, NEW r \in Entity
      PROVE  /\ due(p) \in SUBSET Entity
             /\ mount'[p][r] = Seated(mount[p], due(p), shown[p])[r]
             /\ p \in ready => due(p) = remount \cap shown[p]
  <2>1. due(p) \in SUBSET Entity
    BY <1>1 DEF TypeOK
  <2>2. p \in ready => due(p) = remount \cap shown[p]
    BY <1>1 DEF TypeOK, Told
  <2>3. mount'[p] = Seated(mount[p], due(p), shown[p])
    BY DEF SyncEntities
  <2> HIDE DEF due
  <2> QED
    BY <2>1, <2>2, <2>3
<1> HIDE DEF due
<1>4. SeatsKnown'
  <2> SUFFICES ASSUME NEW p \in Player, NEW r \in Entity, mount'[p][r] # None
               PROVE  r \in shown[p] /\ mount'[p][r] \in shown[p]
    BY <1>1 DEF SeatsKnown
  <2>1. due(p) \subseteq shown[p]
    BY <1>1 DEF due, TypeOK, Told
  <2>2. CASE \E v \in due(p) : r \in riders[v] \cap shown[p]
    <3>1. PICK v \in due(p) : r \in riders[v] \cap shown[p]
      BY <2>2
    <3>2. mount'[p][r] = v
      BY <1>3, <3>1, SeatedOn
    <3> QED
      BY <2>1, <3>1, <3>2
  <2>3. CASE \A v \in due(p) : r \notin riders[v] \cap shown[p]
    <3>1. mount'[p][r] = IF mount[p][r] \in due(p) THEN None ELSE mount[p][r]
      BY <1>3, <2>3, SeatedOff
    <3> QED
      BY <3>1 DEF SeatsKnown
  <2> QED
    BY <2>2, <2>3
<1>5. SeatsTrue'
  <2> SUFFICES ASSUME NEW p \in ready, NEW v \in shown[p], NEW r \in shown[p]
               PROVE  (mount'[p][r] = v) <=> (r \in riders[v])
    BY <1>1 DEF SeatsTrue
  <2>1. p \in Player /\ v \in Entity /\ r \in Entity /\ v # None
    BY <1>1, VisibilityAssumption DEF TypeOK
  <2>2. due(p) = remount \cap shown[p] /\ due(p) \in SUBSET Entity
        /\ mount'[p][r] = Seated(mount[p], due(p), shown[p])[r]
    BY <1>3, <2>1
  <2>3. v \notin due(p) => ((mount[p][r] = v) <=> (r \in riders[v]))
    BY <2>2 DEF SeatsTrue
  <2>4. CASE \E w \in due(p) : r \in riders[w]
    <3>1. PICK w \in due(p) : r \in riders[w]
      BY <2>4
    <3>2. mount'[p][r] = w
      BY <2>1, <2>2, <3>1, SeatedOn
    <3>3. r \in riders[v] => v = w
      BY <2>1, <2>2, <3>1 DEF Riding
    <3> QED
      BY <3>1, <3>2, <3>3
  <2>5. CASE \A w \in due(p) : r \notin riders[w]
    <3>1. mount'[p][r] = IF mount[p][r] \in due(p) THEN None ELSE mount[p][r]
      BY <2>1, <2>2, <2>5, SeatedOff
    <3> QED
      BY <2>1, <2>3, <2>5, <3>1
  <2> QED
    BY <2>4, <2>5
<1> QED
  BY <1>2, <1>4, <1>5

(***************************************************************************)
(* The tracker leaves every entity with the viewers of its chunk: a rider  *)
(* that is shown stands where its vehicle does.                            *)
(***************************************************************************)
LEMMA TrackedViewers ==
  ASSUME VisInv, Track, NEW e \in alive
  PROVE  /\ seen'[e].viewers = Desired(e)
         /\ e \notin Tracked => seen[e].viewers = Desired(e)
<1>1. TypeOK /\ Viewed /\ e \in Entity
  BY DEF VisInv, TypeOK
<1>2. seen' = [x \in Entity |-> IF x \in Tracked
                 THEN [chunk |-> at[x], viewers |-> Desired(x)] ELSE seen[x]]
  BY DEF Track
<1>3. ASSUME e \notin Tracked PROVE seen[e].viewers = Desired(e)
  <2>1. seen[e].chunk = at[e] /\ at[e] \in Key \ dirty
    BY <1>1, <1>3 DEF Tracked, TypeOK
  <2>2. seen[e].viewers = At(e, at[e])
    BY <1>1, <2>1 DEF Viewed
  <2> QED
    BY <2>2 DEF At, Desired
<1>4. CASE e \in Tracked
  BY <1>1, <1>2, <1>4
<1>5. CASE e \notin Tracked
  BY <1>1, <1>2, <1>3, <1>5
<1> QED
  BY <1>3, <1>4, <1>5

LEMMA TrackSeats ==
  ASSUME VisInv, RidersInv, Track PROVE RidersInv'
<1> USE DEF RidersInv
<1> DEFINE come(p) == {e \in Tracked : p \in Desired(e) \ seen[e].viewers}
           go(p) == {e \in Tracked : p \in seen[e].viewers \ Desired(e)}
           left(p) == [r \in Entity |->
                         IF r \in come(p) \cup go(p) \/ mount[p][r] \in go(p)
                         THEN None ELSE mount[p][r]]
           now(p) == (shown[p] \ go(p)) \cup come(p)
<1>1. /\ TypeOK /\ Told
      /\ UNCHANGED <<ready, alive, at, hidden, riders, remount>>
      /\ phase = "track" /\ remount = {}
      /\ Tracked \subseteq Entity
  BY DEF Track, VisInv, players, entities, Sent, Tracked, TypeOK
<1>2. Riding' /\ Sent'
  BY <1>1 DEF Riding, Sent
<1>3. SeenAlike'
  <2> SUFFICES ASSUME NEW v \in Entity, NEW r \in riders[v]
               PROVE  seen'[v].viewers \subseteq seen'[r].viewers
    BY <1>1 DEF SeenAlike
  <2>1. v \in alive /\ r \in alive \ hidden /\ at[r] = at[v]
    BY DEF Riding
  <2>2. seen'[v].viewers = Desired(v) /\ seen'[r].viewers = Desired(r)
    BY <2>1, TrackedViewers
  <2>3. Desired(v) \subseteq Desired(r)
    BY <2>1 DEF Desired
  <2> QED
    BY <2>2, <2>3
<1>4. ASSUME NEW p \in Player
      PROVE  /\ shown'[p] = now(p)
             /\ come(p) \subseteq Entity /\ come(p) \cap shown[p] = {}
             /\ go(p) \subseteq shown[p]
             /\ mount'[p] = Seated(left(p), Mounted(come(p)), now(p))
  <2>1. shown'[p] = now(p) /\ mount'[p] = Seated(left(p), Mounted(come(p)), now(p))
    BY DEF Track
  <2>2. come(p) \subseteq Entity /\ come(p) \cap shown[p] = {} /\ go(p) \subseteq shown[p]
    BY <1>1 DEF Told
  <2> QED
    BY <2>1, <2>2
<1>5. ASSUME NEW p \in Player, NEW r \in Entity
      PROVE  left(p)[r] = IF r \in come(p) \cup go(p) \/ mount[p][r] \in go(p)
                          THEN None ELSE mount[p][r]
  OBVIOUS
<1>6. \A p \in Player : Mounted(come(p)) = {v \in come(p) : riders[v] # {}}
  BY DEF Mounted
<1> HIDE DEF come, go, left
<1>7. SeatsKnown'
  <2> SUFFICES ASSUME NEW p \in Player, NEW r \in Entity, mount'[p][r] # None
               PROVE  r \in now(p) /\ mount'[p][r] \in now(p)
    <3>1. \A p \in Player : shown'[p] = now(p)
      BY <1>4
    <3> HIDE DEF now
    <3> QED
      BY <3>1 DEF SeatsKnown
  <2>1. Mounted(come(p)) \in SUBSET Entity /\ Mounted(come(p)) \subseteq now(p)
    BY <1>4, <1>6
  <2>2. CASE \E v \in Mounted(come(p)) : r \in riders[v] \cap now(p)
    <3>1. PICK v \in Mounted(come(p)) : r \in riders[v] \cap now(p)
      BY <2>2
    <3> DEFINE V == Mounted(come(p))
               knows == now(p)
    <3>2. v \in V /\ V \in SUBSET Entity /\ r \in riders[v] /\ r \in knows
      BY <2>1, <3>1
    <3> HIDE DEF V, knows
    <3>3. Seated(left(p), V, knows)[r] = v
      BY ONLY RidersInv, r \in Entity, <3>2, SeatedOn
    <3>4. Seated(left(p), Mounted(come(p)), now(p))[r] = v
      BY <3>3 DEF V, knows
    <3> QED
      BY <1>4, <2>1, <3>1, <3>4
  <2>3. CASE \A v \in Mounted(come(p)) : r \notin riders[v] \cap now(p)
    <3>1. Seated(left(p), Mounted(come(p)), now(p))[r] =
            IF left(p)[r] \in Mounted(come(p)) THEN None ELSE left(p)[r]
      BY <2>1, <2>3, SeatedOff
    <3>2. mount'[p][r] = left(p)[r] /\ left(p)[r] # None
      BY <1>4, <3>1
    <3>3. r \notin come(p) \cup go(p) /\ mount[p][r] \notin go(p)
          /\ mount'[p][r] = mount[p][r]
      BY <1>5, <3>2
    <3>4. r \in shown[p] /\ mount[p][r] \in shown[p]
      BY <3>3 DEF SeatsKnown
    <3> QED
      BY <3>3, <3>4
  <2> QED
    BY <2>2, <2>3
<1>8. SeatsTrue'
  <2> SUFFICES ASSUME NEW p \in ready, NEW v \in now(p), NEW r \in now(p)
               PROVE  (mount'[p][r] = v) <=> (r \in riders[v])
    <3>1. ready \subseteq Player
      BY <1>1 DEF TypeOK
    <3>2. \A p \in Player : shown'[p] = now(p)
      BY <1>4
    <3> HIDE DEF now
    <3> QED
      BY <1>1, <3>1, <3>2 DEF SeatsTrue
  <2>1. p \in Player /\ shown[p] \subseteq Entity /\ v \in Entity /\ r \in Entity
        /\ v # None
    BY <1>1, <1>4, VisibilityAssumption DEF TypeOK
  <2> DEFINE V == Mounted(come(p))
  <2>2. V \in SUBSET Entity /\ V \subseteq come(p)
        /\ \A w \in come(p) : r \in riders[w] => w \in V
    BY <1>4, <1>6, <2>1
  <2>3. mount'[p][r] = Seated(left(p), V, now(p))[r]
    BY <1>4, <2>1
  <2> HIDE DEF V
  <2>4. CASE \E w \in V : r \in riders[w]
    <3>1. PICK w \in V : r \in riders[w]
      BY <2>4
    <3>2. mount'[p][r] = w
      BY <2>1, <2>2, <2>3, <3>1, SeatedOn
    <3>3. r \in riders[v] => v = w
      BY <2>1, <2>2, <3>1 DEF Riding
    <3> QED
      BY <3>1, <3>2, <3>3
  <2>5. CASE \A w \in V : r \notin riders[w]
    <3>1. mount'[p][r] = IF left(p)[r] \in V THEN None ELSE left(p)[r]
      BY <2>1, <2>2, <2>3, <2>5, SeatedOff
    <3>2. CASE v \in come(p)
      <4>1. r \notin riders[v]
        BY <2>2, <2>5, <3>2
      <4>2. left(p)[r] # v
        <5>1. v \notin shown[p]
          BY <1>4, <2>1, <3>2
        <5>2. mount[p][r] # v
          BY <2>1, <5>1 DEF SeatsKnown
        <5> QED
          BY <1>5, <2>1, <5>2
      <4> QED
        BY <2>1, <3>1, <4>1, <4>2
    <3>3. CASE v \notin come(p)
      <4>1. v \in shown[p] /\ v \notin go(p) /\ v \notin V
        BY <2>2, <3>3
      <4>2. ASSUME r \in riders[v] PROVE mount'[p][r] = v
        <5>1. p \in seen[v].viewers
          BY <1>1, <2>1, <4>1 DEF Told
        <5>2. p \in seen[r].viewers
          BY <2>1, <4>2, <5>1 DEF SeenAlike
        <5>3. r \in shown[p]
          BY <1>1, <2>1, <5>2 DEF Told
        <5>4. r \notin come(p) \cup go(p)
          BY <1>4, <2>1, <5>3
        <5>5. mount[p][r] = v
          BY <1>1, <4>1, <4>2, <5>3 DEF SeatsTrue
        <5>6. left(p)[r] = v
          BY <1>5, <2>1, <4>1, <5>4, <5>5
        <5> QED
          BY <3>1, <4>1, <5>6
      <4>3. ASSUME mount'[p][r] = v PROVE r \in riders[v]
        <5>1. left(p)[r] = v
          BY <2>1, <3>1, <4>3
        <5>2. mount[p][r] = v
          BY <1>5, <2>1, <5>1
        <5>3. r \in shown[p]
          BY <2>1, <5>2 DEF SeatsKnown
        <5> QED
          BY <1>1, <4>1, <5>2, <5>3 DEF SeatsTrue
      <4> QED
        BY <4>2, <4>3
    <3> QED
      BY <3>2, <3>3
  <2> QED
    BY <2>4, <2>5
<1> QED
  BY <1>2, <1>3, <1>7, <1>8

LEMMA RidersInvKept ==
  ASSUME ~FreshRiders PROVE VisInv /\ RidersInv /\ [Next]_vars => RidersInv'
<1> SUFFICES ASSUME VisInv, RidersInv, [Next]_vars PROVE RidersInv'
  OBVIOUS
<1>1. ASSUME NEW p \in Player,
             GetReady(p) \/ Leave(p) \/ (\E C \in SUBSET Column : SetLoaded(p, C))
             \/ (\E d \in Dimension : ChangeDimension(p, d))
      PROVE  RidersInv'
  <2>1. /\ UNCHANGED <<alive, at, hidden, riders, remount, seen, shown, mount>>
        /\ phase' = phase
        /\ \A q \in ready' \ ready : q = p /\ p \notin gone
    BY <1>1 DEF GetReady, Leave, SetLoaded, ChangeDimension, Act, entities, client
  <2> QED
    BY <2>1, RidersSame
<1>2. ASSUME NEW e \in Entity, Despawn(e) \/ SetHidden(e) PROVE RidersInv'
  BY <1>2, DespawnSeats, HiddenSeats
<1>3. ASSUME NEW e \in Entity, SetMeta(e) PROVE RidersInv'
  <2>1. /\ UNCHANGED <<alive, at, hidden, riders, remount, seen, shown, mount, ready>>
        /\ phase' = phase
    BY <1>3 DEF SetMeta, Act, players, client
  <2> QED
    BY <2>1, RidersSame
<1>4. ASSUME NEW e \in Entity, NEW k \in Key, Spawn(e, k) \/ Move(e, k)
      PROVE  RidersInv'
  BY <1>4, SpawnSeats, MoveSeats
<1>5. ASSUME NEW v \in Entity, NEW r \in Entity, Mount(v, r) \/ Dismount(v, r)
      PROVE  RidersInv'
  BY <1>5, MountSeats, DismountSeats
<1>6. ASSUME MaintainIndex \/ BroadcastMovement \/ EndTick \/ UNCHANGED vars
      PROVE  RidersInv'
  <2>1. /\ UNCHANGED <<alive, at, hidden, riders, remount, seen, shown, mount, ready>>
        /\ phase' \in {"track", "done"} => phase \in {"track", "done"}
    BY <1>6 DEF MaintainIndex, BroadcastMovement, EndTick, vars, players, entities, client
  <2> QED
    BY <2>1, RidersSame
<1>7. ASSUME SyncEntities \/ Track PROVE RidersInv'
  BY <1>7, SyncSeats, TrackSeats
<1> QED
  BY <1>1, <1>2, <1>3, <1>4, <1>5, <1>6, <1>7 DEF Next, Game, Tick

(***************************************************************************)
(* Every client that sees a vehicle and an entity seats the one on the     *)
(* other exactly if it rides there, when riders are mounted only once the  *)
(* vehicle's viewers know them (passengers.rs 103-178).                    *)
(***************************************************************************)
THEOREM RidersAlike == ASSUME ~FreshRiders PROVE Spec => []RidersShown
<1>1. VisInv /\ RidersInv => RidersShown
  BY DEF VisInv, RidersInv, RidersShown, SeatsTrue, Sent
<1>2. VisInv /\ RidersInv /\ [Next]_vars => RidersInv'
  BY RidersInvKept
<1> QED
  BY <1>1, <1>2, RidersStart, Invariance, PTL DEF Spec

-----------------------------------------------------------------------------
(***************************************************************************)
(* Weathers, world borders and boss bars: at the end of a tick a client    *)
(* shows what the component that covers its player has sent, and nothing   *)
(* where none does.                                                        *)
(***************************************************************************)

Level == [flag : BOOLEAN, level : Int]
Covered == [value : Level, explicit : BOOLEAN, audience : SUBSET Solo, ticks : Nat]
Places == Screenful \cup {Screen}

(* Audiences of one kind share no player, borders none that another lets go, *)
(* and no weather is withdrawn while players it let go wait for it.         *)
OverlaysDistinct ==
  /\ ~Overlap /\ ~Handover /\ ~Hasty
  /\ Screen \notin Screenful /\ Full \in Nat /\ Transition \subseteq Nat
  /\ None \notin Covered /\ None \notin Level

-----------------------------------------------------------------------------
(* The inductive invariant *)

Blank == [s \in Places |-> IF s = Screen THEN O!Default ELSE None]

OverlayTypes ==
  /\ kind \in {"weather", "border", "bar"}
  /\ phase \in {"game", "explicit", "broad", "done"} /\ acted \in BOOLEAN
  /\ screened \subseteq Solo
  /\ comp \in [Screenful -> Covered \cup {None}]
  /\ sentOver \in [Screenful -> Level \cup {None}]
  /\ target \in [Screenful -> Level] /\ from \in [Screenful -> Level] /\ elapsed \in [Screenful -> Nat]
  /\ viewersOver \in [Screenful -> SUBSET Solo]
  /\ released \subseteq Solo /\ forgot \subseteq O!Alive
  /\ screens \in [Solo -> [Places -> Level \cup {None}]]
  /\ \A p \in Solo : screens[p][Screen] \in Level
  /\ \A p \in Solo \ screened : screens[p] = Blank
  /\ todoOver \subseteq O!Alive
  /\ phase \in {"game", "done"} => todoOver = {} /\ released = {}
  /\ phase = "explicit" => todoOver \subseteq O!Explicit
  /\ phase = "broad" => todoOver \cap O!Explicit = {}
  /\ \A e \in Screenful \ O!Alive : viewersOver[e] = {} /\ sentOver[e] = None
  /\ kind # "weather" => forgot = {}

(* Two audiences that could both have a player share none; a border's       *)
(* viewers are of no other border's audience.                               *)
AudiencesApart ==
  \A e, x \in O!Alive : e # x =>
    /\ kind = "weather" /\ comp[e].explicit = comp[x].explicit =>
         comp[e].audience \cap comp[x].audience = {}
    /\ kind = "border" => /\ comp[e].audience \cap comp[x].audience = {}
                          /\ viewersOver[e] \cap comp[x].audience = {}

(* Those that put theirs where e puts its own *)
Rivals(e) == IF kind = "bar" THEN {} ELSE O!Alive \ {e}

(* Reached in this tick *)
OverlaySynced(e) ==
  \/ phase = "done"
  \/ phase = "explicit" /\ e \in O!Explicit /\ e \notin todoOver
  \/ phase = "broad" /\ e \notin todoOver

(* The pass that is under way *)
InPass(e) == phase = IF e \in O!Explicit THEN "explicit" ELSE "broad"

(* The client of p shows what e sent last. *)
Holds(p, e) == sentOver[e] # None /\ screens[p][O!Place(e)] = sentOver[e]

(* Whom it is yet to sync, a component shares with no other that is, and    *)
(* shows its own, but for those that one synced before has taken over.      *)
BeforeSync ==
  \A e \in O!Alive : ~OverlaySynced(e) => \A p \in viewersOver[e] \cap screened :
    /\ kind = "weather" => p \notin released
    /\ \A x \in Rivals(e) : p \in viewersOver[x] => OverlaySynced(x)
    /\ Holds(p, e) \/ \E x \in Rivals(e) : p \in viewersOver[x]

(* Whom it has synced it covers and shows its own, but for those that       *)
(* another of the pass let go; and whom it covers and does not view, it     *)
(* will sync anew.  A ramp that has ended has reached its target.           *)
AfterSync ==
  \A e \in O!Alive : OverlaySynced(e) =>
    /\ viewersOver[e] \subseteq O!Desired(e)
    /\ viewersOver[e] = O!Desired(e) \/ e \in forgot
    /\ elapsed[e] = comp[e].ticks => sentOver[e] = comp[e].value
    /\ \A p \in viewersOver[e] : Holds(p, e) \/ (kind = "weather" /\ InPass(e) /\ p \in released)

(* What a client shows is what a component answers for. *)
ScreensAnswered ==
  /\ kind # "bar" => \A p \in screened : screens[p][Screen] # O!Default =>
       \E e \in O!Alive : p \in viewersOver[e] \/ (e \in forgot /\ p \in O!Members(e))
  /\ kind = "bar" => \A p \in Solo : \A e \in Screenful : p \notin viewersOver[e] => screens[p][e] = None

(* Without actions of the game nobody is let go. *)
OverlaysSettled ==
  ~acted =>
    /\ released = {}
    /\ \A e \in O!Alive : IF OverlaySynced(e) THEN viewersOver[e] = O!Desired(e)
                          ELSE viewersOver[e] \subseteq O!Desired(e)

OverlaysInv == OverlayTypes /\ AudiencesApart /\ BeforeSync /\ AfterSync /\ ScreensAnswered /\ OverlaysSettled

-----------------------------------------------------------------------------
(* Differences and resets, ramps, and who is covered *)

LEMMA PatchedSays ==
  ASSUME NEW v \in Level, NEW old, NEW new \in Level
  PROVE  O!Patched(v, old, new) \in Level /\ (v = old => O!Patched(v, old, new) = new)
<1>1. [v EXCEPT !.level = new.level] \in Level  BY DEF Level
<1>2. v = old /\ old.flag = new.flag => [v EXCEPT !.level = new.level] = new  BY DEF Level
<1>3. v = old /\ old.flag = new.flag /\ old.level = new.level => v = new  BY DEF Level
<1> QED BY <1>1, <1>2, <1>3 DEF O!Patched

LEMMA ResetSays ==
  ASSUME OverlaysDistinct, NEW v, NEW old
  PROVE  /\ O!Default \in Level /\ O!Default # None
         /\ kind = "weather" /\ v \in Level => O!Reset(v, old) \in Level
         /\ kind = "weather" /\ v \in Level /\ v = old => O!Reset(v, old) = O!Default
         /\ kind = "border" => O!Reset(v, old) = O!Default
         /\ kind = "bar" => O!Reset(v, old) = None
<1>1. O!Default \in Level  BY DEF O!Default, Level
<1>2. O!Default # None  BY <1>1 DEF OverlaysDistinct
<1> QED BY <1>1, <1>2, PatchedSays DEF O!Reset, O!Nothing

LEMMA TowardsSays ==
  ASSUME NEW old \in Level, NEW new \in Level, NEW n \in Nat, NEW ticks \in Nat
  PROVE  O!Towards(old, new, n, ticks) \in Level /\ (n = ticks => O!Towards(old, new, n, ticks) = new)
<1>1. CASE n >= ticks  BY <1>1 DEF O!Towards
<1>2. CASE n < ticks
  <2>1. new.level \in Int /\ old.level \in Int /\ new.flag \in BOOLEAN  BY DEF Level
  <2>2. ASSUME NEW a \in Int PROVE (a * n) \div ticks \in Int  BY <1>2
  <2> DEFINE rise == new.level - old.level
             fall == old.level - new.level
             up == (rise * n) \div ticks
             down == (fall * n) \div ticks
  <2>3. rise \in Int /\ fall \in Int  BY <2>1
  <2>4. up \in Int /\ down \in Int
    <3> HIDE DEF rise, fall
    <3> QED BY <2>2, <2>3
  <2>5. O!Towards(old, new, n, ticks) =
          [flag |-> new.flag,
           level |-> IF new.level >= old.level THEN old.level + up ELSE old.level - down]
    BY <1>2 DEF O!Towards
  <2> HIDE DEF up, down
  <2> QED BY <1>2, <2>1, <2>4, <2>5 DEF Level
<1> QED BY <1>1, <1>2

LEMMA DesiredApart ==
  ASSUME OverlayTypes, AudiencesApart, NEW e \in O!Alive, NEW x \in Rivals(e)
  PROVE  /\ O!Desired(e) \cap O!Desired(x) = {}
         /\ kind = "border" => viewersOver[e] \cap O!Desired(x) = {} /\ O!Desired(e) \cap viewersOver[x] = {}
<1> /\ comp[e].explicit \in BOOLEAN /\ comp[x].explicit \in BOOLEAN /\ x \in O!Alive /\ x # e
    /\ kind \in {"weather", "border"}
  BY DEF OverlayTypes, O!Alive, Covered, Rivals
<1>1. CASE kind = "border"
  <2>1. O!Desired(e) \subseteq comp[e].audience /\ O!Desired(x) \subseteq comp[x].audience
    BY DEF O!Desired, O!Members
  <2>2. /\ comp[e].audience \cap comp[x].audience = {} /\ viewersOver[e] \cap comp[x].audience = {}
        /\ viewersOver[x] \cap comp[e].audience = {}
    BY <1>1 DEF AudiencesApart
  <2> QED BY <2>1, <2>2
<1>2. CASE kind = "weather" /\ comp[e].explicit = comp[x].explicit
  BY <1>2 DEF AudiencesApart, O!Desired, O!Members
<1>3. CASE kind = "weather" /\ comp[e].explicit # comp[x].explicit
  <2>1. comp[e].explicit => O!Members(e) \subseteq O!Claimed  BY <1>3 DEF O!Claimed
  <2>2. comp[x].explicit => O!Members(x) \subseteq O!Claimed  BY <1>3 DEF O!Claimed
  <2>3. CASE comp[e].explicit /\ ~comp[x].explicit  BY <1>3, <2>1, <2>3 DEF O!Desired
  <2>4. CASE ~comp[e].explicit /\ comp[x].explicit  BY <1>3, <2>2, <2>4 DEF O!Desired
  <2> QED BY <1>3, <2>3, <2>4
<1> QED BY <1>1, <1>2, <1>3

LEMMA DesiredReady == ASSUME NEW e
  PROVE O!Desired(e) \subseteq O!Members(e) /\ O!Members(e) \subseteq screened
  BY DEF O!Desired, O!Members

(* What is held stays held while nothing of it changes. *)
LEMMA HoldsOn ==
  ASSUME NEW p, NEW e, Holds(p, e), sentOver'[e] = sentOver[e], kind' = kind,
         screens'[p][O!Place(e)] = screens[p][O!Place(e)]
  PROVE  Holds(p, e)'
BY DEF Holds, O!Place

(* Between two ticks each component has its viewers for itself. *)
BeforeTick ==
  \A e \in O!Alive : \A p \in viewersOver[e] \cap screened :
    (\A x \in Rivals(e) : p \notin viewersOver[x]) /\ Holds(p, e)

LEMMA BetweenTicks ==
  /\ phase = "game" /\ released = {} => (BeforeSync <=> BeforeTick)
  /\ phase = "game" => AfterSync /\ \A e : ~OverlaySynced(e)
  /\ phase' = "game" /\ released' = {} => (BeforeSync' <=> BeforeTick')
  /\ phase' = "game" => AfterSync' /\ \A e : ~OverlaySynced(e)'
<1>1. phase = "game" => \A e : ~OverlaySynced(e)  BY DEF OverlaySynced
<1>2. phase' = "game" => \A e : ~OverlaySynced(e)'  BY DEF OverlaySynced
<1> QED BY <1>1, <1>2 DEF BeforeSync, BeforeTick, AfterSync

LEMMA BlankTyped ==
  ASSUME OverlaysDistinct
  PROVE  /\ Blank \in [Places -> Level \cup {None}] /\ Blank[Screen] = O!Default /\ O!Default \in Level
         /\ \A e \in Screenful : Blank[e] = None
  BY DEF Blank, Places, O!Default, Level, OverlaysDistinct

LEMMA OverlaysStart == ASSUME OverlaysDistinct, O!Init PROVE OverlaysInv
<1>1. O!Alive = {} /\ O!Explicit = {}  BY DEF O!Init, O!Alive, O!Explicit
<1>2. \A p \in Solo : screens[p] = Blank  BY DEF O!Init, Blank, Places
<1>3. screens \in [Solo -> [Places -> Level \cup {None}]]
  <2>1. screens = [p \in Solo |-> screens[p]]  BY DEF O!Init
  <2> HIDE DEF Blank
  <2> QED BY <1>2, <2>1, BlankTyped
<1>4. OverlayTypes  BY <1>1, <1>2, <1>3, BlankTyped DEF O!Init, OverlayTypes
<1>5. ScreensAnswered
  <2> HIDE DEF Blank
  <2> QED BY <1>2, <1>4, BlankTyped DEF ScreensAnswered, OverlayTypes
<1> QED BY <1>1, <1>4, <1>5 DEF OverlaysInv, AudiencesApart, BeforeSync, AfterSync, OverlaysSettled, O!Init

-----------------------------------------------------------------------------
(* The game, between two ticks *)

LEMMA OverlayReadyKeeps ==
  ASSUME OverlaysDistinct, OverlaysInv, NEW p \in Solo, O!GetReady(p) PROVE OverlaysInv'
<1>1. /\ phase = "game" /\ phase' = "game" /\ acted' = TRUE /\ p \notin screened
      /\ screened' = screened \cup {p} /\ \A e \in Screenful : p \notin viewersOver[e]
      /\ UNCHANGED <<kind, comp, sentOver, target, from, elapsed, viewersOver, todoOver, released, forgot, screens>>
  BY DEF O!GetReady, O!Act, O!state
<1>2. O!Alive' = O!Alive /\ O!Explicit' = O!Explicit /\ O!Alive \subseteq Screenful /\ \A e : Rivals(e)' = Rivals(e)
  BY <1>1 DEF O!Alive, O!Explicit, Rivals
<1>3. /\ OverlayTypes /\ AudiencesApart /\ ScreensAnswered /\ BeforeSync
      /\ released = {} /\ released' = {}
  BY <1>1 DEF OverlaysInv, OverlayTypes
<1>4. BeforeTick  BY <1>1, <1>3, BetweenTicks
<1>5. OverlayTypes'  BY <1>1, <1>2, <1>3 DEF OverlayTypes
<1>6. AudiencesApart'  BY <1>1, <1>2, <1>3 DEF AudiencesApart
<1>7. BeforeTick'
  <2> SUFFICES ASSUME NEW e \in O!Alive, NEW q \in viewersOver[e] \cap screened
               PROVE  (\A x \in Rivals(e) : q \notin viewersOver[x]) /\ Holds(q, e)'
    BY <1>1, <1>2 DEF BeforeTick
  <2> QED BY <1>1, <1>4, HoldsOn DEF BeforeTick
<1>8. ScreensAnswered'
  <2>1. CASE kind = "bar"  BY <1>1, <1>3, <2>1 DEF ScreensAnswered
  <2>2. CASE kind # "bar"
    <3> SUFFICES ASSUME NEW q \in screened', screens[q][Screen] # O!Default
                 PROVE  \E e \in O!Alive : q \in viewersOver[e] \/ (e \in forgot /\ q \in O!Members(e)')
      BY <1>1, <1>2, <2>2 DEF ScreensAnswered
    <3>1. screens[p][Screen] = O!Default  BY <1>1, <1>3, BlankTyped DEF OverlayTypes
    <3>2. q \in screened  BY <1>1, <3>1
    <3>3. \A e : q \in O!Members(e) => q \in O!Members(e)'  BY <1>1 DEF O!Members
    <3> QED BY <1>3, <2>2, <3>2, <3>3 DEF ScreensAnswered
  <2> QED BY <2>1, <2>2
<1>9. OverlaysSettled'  BY <1>1 DEF OverlaysSettled
<1> QED BY <1>1, <1>3, <1>5, <1>6, <1>7, <1>8, <1>9, BetweenTicks DEF OverlaysInv

LEMMA OverlayLeaveKeeps ==
  ASSUME OverlaysDistinct, OverlaysInv, NEW p \in Solo, O!Leave(p) PROVE OverlaysInv'
<1>1. /\ phase = "game" /\ phase' = "game" /\ acted' = TRUE /\ p \in screened
      /\ screened' = screened \ {p}
      /\ screens' = [screens EXCEPT ![p] = [s \in DOMAIN @ |-> IF s = Screen THEN O!Default ELSE None]]
      /\ UNCHANGED <<kind, comp, sentOver, target, from, elapsed, viewersOver, todoOver, released, forgot>>
  BY DEF O!Leave, O!Act, O!state
<1>2. O!Alive' = O!Alive /\ O!Explicit' = O!Explicit /\ O!Alive \subseteq Screenful /\ \A e : Rivals(e)' = Rivals(e)
  BY <1>1 DEF O!Alive, O!Explicit, Rivals
<1>3. /\ OverlayTypes /\ AudiencesApart /\ ScreensAnswered /\ BeforeSync
      /\ released = {} /\ released' = {}
  BY <1>1 DEF OverlaysInv, OverlayTypes
<1>4. BeforeTick  BY <1>1, <1>3, BetweenTicks
<1>5. screens'[p] = Blank /\ (\A q \in Solo \ {p} : screens'[q] = screens[q])
      /\ screens' \in [Solo -> [Places -> Level \cup {None}]]
  <2>1. DOMAIN screens[p] = Places  BY <1>3 DEF OverlayTypes
  <2>2. screens' = [screens EXCEPT ![p] = Blank]  BY <1>1, <2>1 DEF Blank
  <2> HIDE DEF Blank
  <2> QED BY <1>3, <2>2, BlankTyped DEF OverlayTypes
<1> HIDE DEF Blank
<1>6. OverlayTypes'
  <2>1. \A q \in Solo : screens'[q][Screen] \in Level
    BY <1>3, <1>5, BlankTyped DEF OverlayTypes
  <2>2. \A q \in Solo \ screened' : screens'[q] = Blank'  BY <1>1, <1>3, <1>5 DEF OverlayTypes, Blank
  <2> QED BY <1>1, <1>2, <1>3, <1>5, <2>1, <2>2 DEF OverlayTypes
<1>7. AudiencesApart'  BY <1>1, <1>2, <1>3 DEF AudiencesApart
<1>8. BeforeTick'
  <2> SUFFICES ASSUME NEW e \in O!Alive, NEW q \in viewersOver[e] \cap screened'
               PROVE  (\A x \in Rivals(e) : q \notin viewersOver[x]) /\ Holds(q, e)'
    BY <1>1, <1>2 DEF BeforeTick
  <2>1. q \in screened /\ screens'[q] = screens[q]  BY <1>1, <1>3, <1>5 DEF OverlayTypes
  <2> QED BY <1>1, <1>4, <2>1, HoldsOn DEF BeforeTick
<1>9. ScreensAnswered'
  <2>1. CASE kind = "bar"
    <3> SUFFICES ASSUME NEW q \in Solo, NEW e \in Screenful, q \notin viewersOver[e]
      PROVE screens'[q][e] = None
      BY <1>1, <2>1 DEF ScreensAnswered
    <3> QED BY <1>3, <1>5, <2>1, BlankTyped DEF ScreensAnswered
  <2>2. CASE kind # "bar"
    <3> SUFFICES ASSUME NEW q \in screened', screens'[q][Screen] # O!Default
                 PROVE  \E e \in O!Alive : q \in viewersOver[e] \/ (e \in forgot /\ q \in O!Members(e)')
      BY <1>1, <1>2, <2>2 DEF ScreensAnswered
    <3>1. q \in screened /\ screens'[q] = screens[q]  BY <1>1, <1>3, <1>5 DEF OverlayTypes
    <3>2. \A e : q \in O!Members(e) => q \in O!Members(e)'  BY <1>1 DEF O!Members
    <3> QED BY <1>3, <2>2, <3>1, <3>2 DEF ScreensAnswered
  <2> QED BY <2>1, <2>2
<1>10. OverlaysSettled'  BY <1>1 DEF OverlaysSettled
<1> QED BY <1>1, <1>3, <1>6, <1>7, <1>8, <1>9, <1>10, BetweenTicks DEF OverlaysInv

(* A component is given, changed or given another audience. *)
LEMMA OverlayComponentKeeps ==
  ASSUME OverlaysDistinct, OverlaysInv, NEW e \in Screenful, NEW new \in Covered,
         comp' = [comp EXCEPT ![e] = new], O!Apart(e, new.explicit, new.audience),
         e \in O!Alive /\ e \in forgot => new.audience = comp[e].audience,
         phase = "game", phase' = "game", acted' = TRUE,
         UNCHANGED <<kind, screened, O!state, todoOver, released, forgot, screens>>
  PROVE  OverlaysInv'
<1>1. UNCHANGED <<kind, screened, sentOver, target, from, elapsed, viewersOver, todoOver, released, forgot, screens>>
  BY DEF O!state
<1>2. OverlayTypes /\ AudiencesApart /\ ScreensAnswered /\ BeforeSync /\ released = {} /\ released' = {}
  BY <1>1 DEF OverlaysInv, OverlayTypes
<1>3. BeforeTick  BY <1>2, BetweenTicks
<1>4. /\ comp'[e] = new /\ \A x \in Screenful \ {e} : comp'[x] = comp[x]
      /\ comp' \in [Screenful -> Covered \cup {None}] /\ new # None
  BY <1>2 DEF OverlayTypes, OverlaysDistinct
<1>5. O!Alive' = O!Alive \cup {e}  BY <1>4 DEF O!Alive
<1>6. OverlayTypes'
  <2>1. todoOver = {} /\ Blank' = Blank  BY <1>2 DEF OverlayTypes, Blank
  <2>2. \A x \in Screenful \ O!Alive' : viewersOver[x] = {} /\ sentOver[x] = None
    BY <1>2, <1>5 DEF OverlayTypes
  <2> QED BY <1>1, <1>2, <1>4, <1>5, <2>1, <2>2 DEF OverlayTypes
<1>7. e \notin O!Alive => viewersOver[e] = {}  BY <1>2 DEF OverlayTypes
<1>8. AudiencesApart'
  <2> SUFFICES ASSUME NEW a \in O!Alive', NEW b \in O!Alive', a # b
               PROVE  /\ kind = "weather" /\ comp'[a].explicit = comp'[b].explicit =>
                           comp'[a].audience \cap comp'[b].audience = {}
                      /\ kind = "border" => /\ comp'[a].audience \cap comp'[b].audience = {}
                                            /\ viewersOver[a] \cap comp'[b].audience = {}
    BY <1>1 DEF AudiencesApart
  <2>1. kind = "weather" => \A x \in O!Alive \ {e} :
          new.explicit = comp[x].explicit => comp[x].audience \cap new.audience = {}
    BY DEF O!Apart, OverlaysDistinct
  <2>2. kind = "border" => \A x \in O!Alive \ {e} :
          comp[x].audience \cap new.audience = {} /\ viewersOver[x] \cap new.audience = {}
    BY DEF O!Apart, OverlaysDistinct
  <2>3. CASE a = e
    <3>1. b \in O!Alive \ {e} /\ comp'[b] = comp[b]  BY <1>4, <1>5, <2>3 DEF O!Alive
    <3>2. kind = "border" => viewersOver[e] \cap comp[b].audience = {}
      BY <1>2, <1>7, <3>1 DEF AudiencesApart
    <3> QED BY <1>4, <2>1, <2>2, <2>3, <3>1, <3>2
  <2>4. CASE b = e
    <3>1. a \in O!Alive \ {e} /\ comp'[a] = comp[a]  BY <1>4, <1>5, <2>4 DEF O!Alive
    <3> QED BY <1>4, <2>1, <2>2, <2>4, <3>1
  <2>5. CASE a # e /\ b # e
    <3>1. a \in O!Alive /\ b \in O!Alive /\ comp'[a] = comp[a] /\ comp'[b] = comp[b]
      BY <1>4, <1>5, <2>5 DEF O!Alive
    <3> QED BY <1>2, <3>1 DEF AudiencesApart
  <2> QED BY <2>3, <2>4, <2>5
<1>9. BeforeTick'
  <2> SUFFICES ASSUME NEW x \in O!Alive', NEW q \in viewersOver[x] \cap screened
               PROVE  (\A y \in Rivals(x)' : q \notin viewersOver[y]) /\ Holds(q, x)'
    BY <1>1 DEF BeforeTick
  <2>1. x \in O!Alive  BY <1>5, <1>7
  <2>2. \A y \in Rivals(x)' : q \in viewersOver[y] => y \in Rivals(x)  BY <1>1, <1>5, <1>7 DEF Rivals
  <2> QED BY <1>1, <1>3, <2>1, <2>2, HoldsOn DEF BeforeTick
<1>10. ScreensAnswered'
  <2>1. CASE kind = "bar"  BY <1>1, <1>2, <2>1 DEF ScreensAnswered
  <2>2. CASE kind # "bar"
    <3> SUFFICES ASSUME NEW q \in screened, screens[q][Screen] # O!Default
                 PROVE  \E x \in O!Alive' : q \in viewersOver[x] \/ (x \in forgot /\ q \in O!Members(x)')
      BY <1>1, <2>2 DEF ScreensAnswered
    <3>1. PICK x \in O!Alive : q \in viewersOver[x] \/ (x \in forgot /\ q \in O!Members(x))
      BY <1>2, <2>2 DEF ScreensAnswered
    <3>2. x \in forgot => O!Members(x)' = O!Members(x)
      <4>1. CASE x = e  BY <1>1, <1>4, <3>1, <4>1 DEF O!Members
      <4>2. CASE x # e  BY <1>1, <1>4, <3>1, <4>2 DEF O!Members, O!Alive
      <4> QED BY <4>1, <4>2
    <3> QED BY <1>5, <3>1, <3>2
  <2> QED BY <2>1, <2>2
<1>11. OverlaysSettled'  BY DEF OverlaysSettled
<1> QED BY <1>2, <1>6, <1>8, <1>9, <1>10, <1>11, BetweenTicks DEF OverlaysInv

LEMMA OverlayDespawnKeeps ==
  ASSUME OverlaysDistinct, OverlaysInv, NEW e \in Screenful, O!Despawn(e) PROVE OverlaysInv'
<1>1. /\ phase = "game" /\ phase' = "game" /\ acted' = TRUE /\ e \in O!Alive /\ e \notin forgot
      /\ screens' = [p \in Solo |-> IF p \in viewersOver[e] /\ p \in screened
                                    THEN [screens[p] EXCEPT ![O!Place(e)] = O!Reset(@, sentOver[e])] ELSE screens[p]]
      /\ viewersOver' = [x \in Screenful |->
           IF x = e THEN {} ELSE IF kind = "weather" THEN viewersOver[x] \ viewersOver[e] ELSE viewersOver[x]]
      /\ comp' = [comp EXCEPT ![e] = None] /\ sentOver' = [sentOver EXCEPT ![e] = None]
      /\ target' = [target EXCEPT ![e] = O!Default] /\ from' = [from EXCEPT ![e] = O!Default]
      /\ elapsed' = [elapsed EXCEPT ![e] = 0]
      /\ forgot' = {x \in Screenful \ {e} : viewersOver'[x] # viewersOver[x]} \cup (forgot \ {e})
      /\ UNCHANGED <<kind, screened, todoOver, released>>
  BY DEF O!Despawn, O!Act, OverlaysDistinct
<1>2. OverlayTypes /\ AudiencesApart /\ ScreensAnswered /\ BeforeSync /\ released = {} /\ released' = {}
  BY <1>1 DEF OverlaysInv, OverlayTypes
<1>3. BeforeTick  BY <1>1, <1>2, BetweenTicks
<1>4. /\ comp'[e] = None /\ sentOver'[e] = None /\ viewersOver'[e] = {}
      /\ \A x \in Screenful \ {e} : /\ comp'[x] = comp[x] /\ sentOver'[x] = sentOver[x]
                                    /\ viewersOver'[x] = IF kind = "weather" THEN viewersOver[x] \ viewersOver[e]
                                                         ELSE viewersOver[x]
      /\ comp' \in [Screenful -> Covered \cup {None}] /\ sentOver' \in [Screenful -> Level \cup {None}]
      /\ target' \in [Screenful -> Level] /\ from' \in [Screenful -> Level] /\ elapsed' \in [Screenful -> Nat]
      /\ viewersOver' \in [Screenful -> SUBSET Solo]
  <2>1. O!Default \in Level  BY BlankTyped
  <2> HIDE DEF O!Default
  <2> QED BY <1>1, <1>2, <2>1 DEF OverlayTypes
<1>5. O!Alive' = O!Alive \ {e} /\ O!Alive \subseteq Screenful  BY <1>4 DEF O!Alive
<1>6. O!Place(e) \in Places /\ (kind = "bar" => O!Place(e) = e) /\ (kind # "bar" => O!Place(e) = Screen)
      /\ Screen \in Places /\ Screenful \subseteq Places /\ Screen # e
  BY DEF O!Place, Places, OverlaysDistinct
<1> DEFINE over == IF kind = "bar" THEN None ELSE O!Default
<1>7. \A p \in viewersOver[e] \cap screened : O!Reset(screens[p][O!Place(e)], sentOver[e]) = over
  <2> SUFFICES ASSUME NEW p \in viewersOver[e] \cap screened
               PROVE  O!Reset(screens[p][O!Place(e)], sentOver[e]) = over
    OBVIOUS
  <2>1. Holds(p, e) /\ p \in Solo  BY <1>1, <1>2, <1>3 DEF BeforeTick, OverlayTypes
  <2>2. sentOver[e] \in Level /\ screens[p][O!Place(e)] = sentOver[e]
    BY <1>2, <2>1 DEF Holds, OverlayTypes
  <2> QED BY <1>2, <2>2, ResetSays DEF OverlayTypes
<1>8. /\ over \in Level \cup {None} /\ (kind # "bar" => over \in Level /\ over = O!Default)
      /\ (kind = "bar" => over = None)
  BY BlankTyped
<1> HIDE DEF over
<1>9. screens' = [p \in Solo |-> IF p \in viewersOver[e] \cap screened
                                 THEN [screens[p] EXCEPT ![O!Place(e)] = over] ELSE screens[p]]
  BY <1>1, <1>7
<1>10. /\ screens' \in [Solo -> [Places -> Level \cup {None}]]
       /\ \A p \in viewersOver[e] \cap screened : screens'[p][O!Place(e)] = over
       /\ \A p \in Solo : \A s \in Places \ {O!Place(e)} : screens'[p][s] = screens[p][s]
       /\ \A p \in Solo : p \notin viewersOver[e] \cap screened => screens'[p] = screens[p]
  <2>1. screens \in [Solo -> [Places -> Level \cup {None}]] /\ viewersOver[e] \subseteq Solo
    BY <1>2 DEF OverlayTypes
  <2> QED BY <1>6, <1>8, <1>9, <2>1
<1>11. forgot' \subseteq O!Alive' /\ (kind # "weather" => forgot' = {})
  <2>1. \A x \in Screenful \ {e} : viewersOver'[x] # viewersOver[x] => x \in O!Alive /\ kind = "weather"
    BY <1>2, <1>4 DEF OverlayTypes
  <2> QED BY <1>1, <1>2, <1>5, <2>1 DEF OverlayTypes
<1>12. OverlayTypes'
  <2>1. \A x \in Screenful \ O!Alive' : viewersOver'[x] = {} /\ sentOver'[x] = None
    BY <1>2, <1>4, <1>5 DEF OverlayTypes
  <2>2. \A p \in Solo : screens'[p][Screen] \in Level
    <3> SUFFICES ASSUME NEW p \in Solo PROVE screens'[p][Screen] \in Level  OBVIOUS
    <3>1. screens[p][Screen] \in Level  BY <1>2 DEF OverlayTypes
    <3> QED BY <1>6, <1>8, <1>10, <3>1
  <2>3. \A p \in Solo \ screened : screens'[p] = Blank'  BY <1>2, <1>10 DEF OverlayTypes, Blank
  <2>4. todoOver = {}  BY <1>1, <1>2 DEF OverlayTypes
  <2> QED BY <1>1, <1>2, <1>4, <1>5, <1>10, <1>11, <2>1, <2>2, <2>3, <2>4 DEF OverlayTypes
<1>13. AudiencesApart'
  <2>1. \A x \in O!Alive' : x \in O!Alive /\ comp'[x] = comp[x] /\ viewersOver'[x] \subseteq viewersOver[x]
    BY <1>4, <1>5
  <2> QED BY <1>1, <1>2, <2>1 DEF AudiencesApart
<1>14. BeforeTick'
  <2> SUFFICES ASSUME NEW x \in O!Alive', NEW q \in viewersOver'[x] \cap screened
               PROVE  (\A y \in Rivals(x)' : q \notin viewersOver'[y]) /\ Holds(q, x)'
    BY <1>1 DEF BeforeTick
  <2>1. x \in O!Alive /\ x \in Screenful \ {e} /\ q \in viewersOver[x] /\ q \in Solo
    BY <1>2, <1>4, <1>5 DEF OverlayTypes
  <2>2. \A y \in Rivals(x)' : y \in Rivals(x) /\ viewersOver'[y] \subseteq viewersOver[y]
    BY <1>1, <1>4, <1>5 DEF Rivals
  <2>3. screens'[q][O!Place(x)] = screens[q][O!Place(x)]
    <3>1. CASE kind = "bar"
      <4>1. O!Place(x) \in Places \ {O!Place(e)}  BY <1>6, <2>1, <3>1 DEF O!Place
      <4> QED BY <1>10, <2>1, <4>1
    <3>2. CASE kind # "bar"
      <4>1. q \notin viewersOver[e]
        <5>1. e \in Rivals(x)  BY <1>1, <2>1, <3>2 DEF Rivals
        <5> QED BY <1>3, <2>1, <5>1 DEF BeforeTick
      <4> QED BY <1>10, <2>1, <4>1
    <3> QED BY <3>1, <3>2
  <2>4. Holds(q, x)'  BY <1>1, <1>3, <1>4, <2>1, <2>3, HoldsOn DEF BeforeTick
  <2> QED BY <1>3, <2>1, <2>2, <2>4 DEF BeforeTick
<1>15. ScreensAnswered'
  <2>1. CASE kind = "bar"
    <3> SUFFICES ASSUME NEW q \in Solo, NEW x \in Screenful, q \notin viewersOver'[x]
      PROVE screens'[q][x] = None
      BY <1>1, <2>1 DEF ScreensAnswered
    <3>1. CASE x = e
      <4>1. CASE q \in viewersOver[e] \cap screened  BY <1>6, <1>8, <1>10, <2>1, <3>1, <4>1
      <4>2. CASE q \notin screened  BY <1>2, <1>10, <4>2, BlankTyped DEF OverlayTypes
      <4>3. CASE q \notin viewersOver[e]  BY <1>2, <1>10, <2>1, <3>1, <4>3 DEF ScreensAnswered
      <4> QED BY <4>1, <4>2, <4>3
    <3>2. CASE x # e
      <4>1. screens'[q][x] = screens[q][x]  BY <1>6, <1>10, <2>1, <3>2
      <4>2. q \notin viewersOver[x]  BY <1>4, <2>1, <3>2
      <4> QED BY <1>2, <2>1, <4>1, <4>2 DEF ScreensAnswered
    <3> QED BY <3>1, <3>2
  <2>2. CASE kind # "bar"
    <3> SUFFICES ASSUME NEW q \in screened, screens'[q][Screen] # O!Default
                
                  PROVE  \E x \in O!Alive' : q \in viewersOver'[x] \/ (x \in forgot' /\ q \in O!Members(x)')
      BY <1>1, <2>2 DEF ScreensAnswered
    <3>1. q \in Solo  BY <1>2 DEF OverlayTypes
    <3>2. q \notin viewersOver[e]  BY <1>6, <1>8, <1>10, <2>2
    <3>3. screens'[q] = screens[q]  BY <1>10, <3>1, <3>2
    <3>4. PICK x \in O!Alive : q \in viewersOver[x] \/ (x \in forgot /\ q \in O!Members(x))
      BY <1>2, <2>2, <3>3 DEF ScreensAnswered
    <3>5. x # e  BY <1>1, <3>2, <3>4
    <3>6. O!Members(x)' = O!Members(x)  BY <1>1, <1>4, <1>5, <3>5 DEF O!Members
    <3>7. q \in viewersOver[x] => q \in viewersOver'[x]  BY <1>4, <1>5, <3>2, <3>5
    <3> QED BY <1>1, <1>5, <3>4, <3>5, <3>6, <3>7
  <2> QED BY <2>1, <2>2
<1>16. OverlaysSettled'  BY <1>1 DEF OverlaysSettled
<1> QED BY <1>1, <1>2, <1>12, <1>13, <1>14, <1>15, <1>16, BetweenTicks DEF OverlaysInv

-----------------------------------------------------------------------------
(* The systems *)

LEMMA OverlaysBeginKeep == ASSUME OverlaysDistinct, OverlaysInv, O!BeginTick PROVE OverlaysInv'
<1>1. /\ phase = "game" /\ phase' = "explicit" /\ todoOver' = O!Explicit /\ released' = {}
      /\ UNCHANGED <<kind, acted, screened, comp, sentOver, target, from, elapsed, viewersOver, forgot, screens>>
  BY DEF O!BeginTick, O!state
<1>2. O!Alive' = O!Alive /\ O!Explicit' = O!Explicit /\ O!Explicit \subseteq O!Alive /\ \A e : Rivals(e)' = Rivals(e)
  BY <1>1 DEF O!Alive, O!Explicit, Rivals
<1>3. /\ OverlayTypes /\ AudiencesApart /\ ScreensAnswered /\ OverlaysSettled /\ BeforeSync /\ released = {}
      /\ \A e : ~OverlaySynced(e)
  BY <1>1, BetweenTicks DEF OverlaysInv, OverlayTypes
<1>4. BeforeTick  BY <1>1, <1>3, BetweenTicks
<1>5. \A e \in O!Alive : ~OverlaySynced(e)'  BY <1>1, <1>2 DEF OverlaySynced
<1>6. \A e : O!Members(e)' = O!Members(e) /\ O!Desired(e)' = O!Desired(e)
  BY <1>1, <1>2 DEF O!Members, O!Desired, O!Claimed
<1>7. OverlayTypes'
  <2>1. Blank' = Blank  BY DEF Blank
  <2> QED BY <1>1, <1>2, <1>3, <2>1 DEF OverlayTypes
<1>8. AudiencesApart'  BY <1>1, <1>2, <1>3 DEF AudiencesApart
<1>9. BeforeSync'
  <2> SUFFICES ASSUME NEW e \in O!Alive, NEW p \in viewersOver[e] \cap screened
               PROVE  (\A x \in Rivals(e) : p \notin viewersOver[x]) /\ Holds(p, e)'
    BY <1>1, <1>2 DEF BeforeSync
  <2> QED BY <1>1, <1>4, HoldsOn DEF BeforeTick
<1>10. AfterSync'  BY <1>2, <1>5 DEF AfterSync
<1>11. ScreensAnswered'  BY <1>1, <1>2, <1>3, <1>6 DEF ScreensAnswered
<1>12. OverlaysSettled'  BY <1>1, <1>2, <1>3, <1>5, <1>6 DEF OverlaysSettled
<1> QED BY <1>7, <1>8, <1>9, <1>10, <1>11, <1>12 DEF OverlaysInv

(* Whom an explicit weather claims it answers for once the broad ones sync. *)
LEMMA ClaimedAnswered ==
  ASSUME OverlayTypes, AfterSync, phase \in {"broad", "done"}, NEW p \in O!Claimed
 
   PROVE  kind = "weather" /\ \E y \in O!Explicit : p \in O!Members(y) /\ (p \in viewersOver[y] \/ y \in forgot)
<1>1. PICK y \in O!Alive : comp[y].explicit /\ p \in O!Members(y) /\ kind = "weather"  BY DEF O!Claimed
<1>2. y \in O!Explicit /\ OverlaySynced(y)  BY <1>1 DEF OverlayTypes, O!Explicit, OverlaySynced
<1>3. O!Desired(y) = O!Members(y)  BY <1>1 DEF O!Desired
<1> QED BY <1>1, <1>2, <1>3 DEF AfterSync

LEMMA OverlayPassKeeps ==
  ASSUME OverlaysDistinct, OverlaysInv, NEW pass, pass \subseteq O!Alive,
         viewersOver' = O!Forget(pass), released' = {},
         forgot' = forgot \cup {e \in Screenful : viewersOver'[e] # viewersOver[e]},
         UNCHANGED <<kind, acted, screened, comp, sentOver, target, from, elapsed, screens>>,
         \A e \in O!Alive : e \in pass <=> InPass(e),
         \A e \in pass : OverlaySynced(e), \A e \in O!Alive : OverlaySynced(e)' <=> OverlaySynced(e),
         todoOver' \subseteq O!Alive, todoOver' \cap O!Explicit = {},
         phase' = "broad" \/ (phase' = "done" /\ todoOver' = {})
  PROVE  OverlaysInv'
<1>1. UNCHANGED <<kind, acted, screened, comp, sentOver, target, from, elapsed, screens>>  OBVIOUS
<1>2. O!Alive' = O!Alive /\ O!Explicit' = O!Explicit /\ O!Alive \subseteq Screenful /\ \A e : Rivals(e)' = Rivals(e)
  BY <1>1 DEF O!Alive, O!Explicit, Rivals
<1>3. OverlayTypes /\ AudiencesApart /\ BeforeSync /\ AfterSync /\ ScreensAnswered /\ OverlaysSettled
  BY DEF OverlaysInv
<1>4. /\ viewersOver' \in [Screenful -> SUBSET Solo]
      /\ \A e \in Screenful : viewersOver'[e] \subseteq viewersOver[e]
      /\ kind # "weather" => viewersOver' = viewersOver
      /\ \A e \in Screenful \ pass : viewersOver'[e] = viewersOver[e]
      /\ \A e \in Screenful : \A p \in viewersOver[e] : p \notin released => p \in viewersOver'[e]
      /\ \A e \in pass : kind = "weather" => viewersOver'[e] = viewersOver[e] \ released
  BY <1>2, <1>3 DEF O!Forget, OverlayTypes
<1>5. \A e : O!Members(e)' = O!Members(e) /\ O!Desired(e)' = O!Desired(e)
  BY <1>1, <1>2 DEF O!Members, O!Desired, O!Claimed
<1>6. OverlayTypes'
  <2>1. forgot' \subseteq O!Alive /\ (kind # "weather" => forgot' = {})
    BY <1>3, <1>4 DEF OverlayTypes
  <2>2. \A e \in Screenful \ O!Alive : viewersOver'[e] = {} /\ sentOver'[e] = None
    BY <1>1, <1>3, <1>4 DEF OverlayTypes
  <2>3. Blank' = Blank  BY DEF Blank
  <2> QED BY <1>1, <1>2, <1>3, <1>4, <2>1, <2>2, <2>3 DEF OverlayTypes
<1>7. AudiencesApart'  BY <1>1, <1>2, <1>3, <1>4 DEF AudiencesApart
<1>8. \A e \in O!Alive : \A p : Holds(p, e) => Holds(p, e)'  BY <1>1, HoldsOn
<1>9. BeforeSync'
  <2> SUFFICES ASSUME NEW e \in O!Alive, ~OverlaySynced(e), NEW p \in viewersOver'[e] \cap screened
               PROVE  /\ \A x \in Rivals(e) : p \in viewersOver'[x] => OverlaySynced(x)'
                      /\ Holds(p, e)' \/ \E x \in Rivals(e) : p \in viewersOver'[x]
    BY <1>1, <1>2 DEF BeforeSync
  <2>1. p \in viewersOver[e] \cap screened /\ \A x \in Rivals(e) : x \in O!Alive
    BY <1>2, <1>4 DEF Rivals
  <2>2. \A x \in Rivals(e) : p \in viewersOver[x] => p \in viewersOver'[x]
    BY <1>2, <1>3, <1>4, <2>1 DEF BeforeSync
  <2>3. \A x \in Rivals(e) : p \in viewersOver'[x] => p \in viewersOver[x]  BY <1>2, <1>4, <2>1
  <2> QED BY <1>3, <1>8, <2>1, <2>2, <2>3 DEF BeforeSync
<1>10. AfterSync'
  <2> SUFFICES ASSUME NEW e \in O!Alive, OverlaySynced(e)
               PROVE  /\ viewersOver'[e] \subseteq O!Desired(e)
                      /\ viewersOver'[e] = O!Desired(e) \/ e \in forgot'
                      /\ elapsed[e] = comp[e].ticks => sentOver[e] = comp[e].value
                      /\ \A p \in viewersOver'[e] : Holds(p, e)'
    BY <1>1, <1>2, <1>5 DEF AfterSync
  <2>1. \A p \in viewersOver'[e] : Holds(p, e)
    <3>1. CASE e \in pass /\ kind = "weather"  BY <1>3, <1>4, <3>1 DEF AfterSync
    <3>2. CASE e \notin pass \/ kind # "weather"  BY <1>2, <1>3, <1>4, <3>2 DEF AfterSync
    <3> QED BY <3>1, <3>2
  <2>2. viewersOver'[e] = viewersOver[e] \/ e \in forgot'  BY <1>2
  <2> QED BY <1>2, <1>3, <1>4, <1>8, <2>1, <2>2 DEF AfterSync
<1>11. ScreensAnswered'
  <2>1. CASE kind = "bar"
    <3>1. viewersOver' = viewersOver  BY <1>4, <2>1
    <3> QED BY <1>1, <1>3, <2>1, <3>1 DEF ScreensAnswered
  <2>2. CASE kind # "bar"
    <3> SUFFICES ASSUME NEW p \in screened, screens[p][Screen] # O!Default
                 PROVE  \E e \in O!Alive : p \in viewersOver'[e] \/ (e \in forgot' /\ p \in O!Members(e))
      BY <1>1, <1>2, <1>5, <2>2 DEF ScreensAnswered
    <3>1. PICK e \in O!Alive : p \in viewersOver[e] \/ (e \in forgot /\ p \in O!Members(e))
      BY <1>3, <2>2 DEF ScreensAnswered
    <3>2. CASE e \in forgot /\ p \in O!Members(e)  BY <3>2
    <3>3. CASE p \in viewersOver[e] /\ e \notin pass  BY <1>2, <1>4, <3>3
    <3>4. CASE p \in viewersOver[e] /\ e \in pass
      <4>1. p \in O!Members(e)  BY <1>3, <3>4, DesiredReady DEF AfterSync
      <4>2. viewersOver'[e] = viewersOver[e] \/ e \in forgot'  BY <1>2
      <4> QED BY <3>4, <4>1, <4>2
    <3> QED BY <3>1, <3>2, <3>3, <3>4
  <2> QED BY <2>1, <2>2
<1>12. OverlaysSettled'
  <2>1. ~acted => \A e \in O!Alive : viewersOver'[e] = viewersOver[e]
    BY <1>2, <1>3, <1>4 DEF OverlaysSettled
  <2> QED BY <1>1, <1>2, <1>3, <1>5, <2>1 DEF OverlaysSettled
<1> QED BY <1>6, <1>7, <1>9, <1>10, <1>11, <1>12 DEF OverlaysInv

LEMMA OverlayPassesEndKeep == ASSUME OverlaysDistinct, OverlaysInv, O!EndExplicit \/ O!EndBroad
  PROVE OverlaysInv'
<1>1. OverlayTypes  BY DEF OverlaysInv
<1>2. CASE O!EndExplicit
  <2>1. /\ phase = "explicit" /\ phase' = "broad" /\ todoOver = {} /\ todoOver' = O!Alive \ O!Explicit
        /\ viewersOver' = O!Forget(O!Explicit) /\ released' = {}
        /\ forgot' = forgot \cup {e \in Screenful : viewersOver'[e] # viewersOver[e]}
        /\ UNCHANGED <<kind, acted, screened, comp, sentOver, target, from, elapsed, screens>>
    BY <1>2 DEF O!EndExplicit
  <2>2. O!Alive' = O!Alive /\ O!Explicit' = O!Explicit  BY <2>1 DEF O!Alive, O!Explicit
  <2>3. \A e \in O!Alive : e \in O!Explicit <=> InPass(e)  BY <2>1 DEF InPass
  <2>4. \A e \in O!Explicit : OverlaySynced(e)  BY <2>1 DEF OverlaySynced
  <2>5. \A e \in O!Alive : OverlaySynced(e)' <=> OverlaySynced(e)  BY <2>1, <2>2 DEF OverlaySynced
  <2>6. O!Explicit \subseteq O!Alive /\ todoOver' \subseteq O!Alive /\ todoOver' \cap O!Explicit = {}
    BY <2>1 DEF O!Explicit
  <2> QED BY <2>1, <2>3, <2>4, <2>5, <2>6, OverlayPassKeeps
<1>3. CASE O!EndBroad
  <2> DEFINE pass == O!Alive \ O!Explicit
  <2>1. /\ phase = "broad" /\ phase' = "done" /\ todoOver = {} /\ todoOver' = {}
        /\ viewersOver' = O!Forget(pass) /\ released' = {}
        /\ forgot' = forgot \cup {e \in Screenful : viewersOver'[e] # viewersOver[e]}
        /\ UNCHANGED <<kind, acted, screened, comp, sentOver, target, from, elapsed, screens>>
    BY <1>3 DEF O!EndBroad
  <2>2. pass \subseteq O!Alive /\ \A e \in O!Alive : e \in pass <=> InPass(e)  BY <2>1 DEF InPass
  <2>3. \A e \in O!Alive : OverlaySynced(e) /\ OverlaySynced(e)'  BY <2>1 DEF OverlaySynced
  <2>4. \A e \in pass : OverlaySynced(e)  BY <2>3
  <2>5. todoOver' \subseteq O!Alive /\ todoOver' \cap O!Explicit = {}  BY <2>1
  <2> HIDE DEF pass
  <2> QED BY <2>1, <2>2, <2>3, <2>4, <2>5, OverlayPassKeeps
<1> QED BY <1>2, <1>3

LEMMA OverlayTickKeeps == ASSUME OverlaysDistinct, OverlaysInv, O!EndTick PROVE OverlaysInv'
<1>1. /\ phase = "done" /\ phase' = "game" /\ acted' = FALSE
      /\ UNCHANGED <<kind, screened, comp, sentOver, target, from, elapsed, viewersOver, todoOver, released, forgot, screens>>
  BY DEF O!EndTick, O!state
<1>2. O!Alive' = O!Alive /\ O!Explicit' = O!Explicit /\ \A e : Rivals(e)' = Rivals(e)
  BY <1>1 DEF O!Alive, O!Explicit, Rivals
<1>3. OverlayTypes /\ AudiencesApart /\ AfterSync /\ ScreensAnswered /\ OverlaysSettled
  BY DEF OverlaysInv
<1>4. \A e : O!Members(e)' = O!Members(e) /\ O!Desired(e)' = O!Desired(e)
  BY <1>1, <1>2 DEF O!Members, O!Desired, O!Claimed
<1>5. released = {} /\ released' = {} /\ \A e \in O!Alive : OverlaySynced(e)
  BY <1>1, <1>3 DEF OverlayTypes, OverlaySynced
<1>6. OverlayTypes'
  <2>1. Blank' = Blank /\ todoOver = {}  BY <1>1, <1>3 DEF Blank, OverlayTypes
  <2> QED BY <1>1, <1>2, <1>3, <2>1 DEF OverlayTypes
<1>7. AudiencesApart'  BY <1>1, <1>2, <1>3 DEF AudiencesApart
<1>8. BeforeTick'
  <2> SUFFICES ASSUME NEW e \in O!Alive, NEW p \in viewersOver[e] \cap screened
               PROVE  (\A x \in Rivals(e) : p \notin viewersOver[x]) /\ Holds(p, e)'
    BY <1>1, <1>2 DEF BeforeTick
  <2>1. \A x \in Rivals(e) : p \notin viewersOver[x]
    <3> SUFFICES ASSUME NEW x \in Rivals(e), p \in viewersOver[x] PROVE FALSE  OBVIOUS
    <3>1. x \in O!Alive  BY DEF Rivals
    <3>2. p \in O!Desired(e) /\ p \in O!Desired(x)  BY <1>3, <1>5, <3>1 DEF AfterSync
    <3> QED BY <1>3, <3>2, DesiredApart
  <2>2. Holds(p, e)  BY <1>3, <1>5 DEF AfterSync
  <2> QED BY <1>1, <2>1, <2>2, HoldsOn
<1>9. ScreensAnswered'  BY <1>1, <1>2, <1>3, <1>4 DEF ScreensAnswered
<1>10. OverlaysSettled'
  <2>1. \A e \in O!Alive : ~OverlaySynced(e)' /\ viewersOver[e] \subseteq O!Desired(e)
    BY <1>1, <1>3, <1>5, BetweenTicks DEF AfterSync
  <2> QED BY <1>1, <1>2, <1>4, <1>5, <2>1 DEF OverlaysSettled
<1> QED BY <1>1, <1>5, <1>6, <1>7, <1>8, <1>9, <1>10, BetweenTicks DEF OverlaysInv

LEMMA OverlaySyncKeeps ==
  ASSUME OverlaysDistinct, OverlaysInv, NEW e \in Screenful, O!Sync(e) PROVE OverlaysInv'
<1> DEFINE D == O!Desired(e)
           G == O!Told(e)
           old == O!Current(e)
           new == O!Towards(O!RampFrom(e), comp[e].value, O!Elapsed(e), comp[e].ticks)
           Place1 == O!Place(e)
<1>1. /\ phase \in {"explicit", "broad"} /\ e \in todoOver /\ todoOver' = todoOver \ {e}
      /\ screens' = [p \in Solo |->
           IF p \notin screened THEN screens[p]
           ELSE [screens[p] EXCEPT ![Place1] =
                  CASE p \in D \ viewersOver[e]    -> new
                    [] p \in viewersOver[e] \cap D -> O!Patched(@, old, new)
                    [] p \in G                -> O!Reset(@, old)
                    [] OTHER                  -> @]]
      /\ sentOver' = [sentOver EXCEPT ![e] = new]
      /\ target' = [target EXCEPT ![e] = comp[e].value] /\ from' = [from EXCEPT ![e] = O!RampFrom(e)]
      /\ elapsed' = [elapsed EXCEPT ![e] = O!Elapsed(e)]
      /\ viewersOver' = [viewersOver EXCEPT ![e] = D]
      /\ released' = released \cup G /\ forgot' = forgot \ {e}
      /\ UNCHANGED <<kind, phase, acted, screened, comp>>
  BY DEF O!Sync
<1>2. OverlayTypes /\ AudiencesApart /\ BeforeSync /\ AfterSync /\ ScreensAnswered /\ OverlaysSettled
  BY DEF OverlaysInv
<1>3. e \in O!Alive /\ comp[e] \in Covered /\ InPass(e) /\ ~OverlaySynced(e)
  <2>1. e \in O!Alive /\ comp[e] \in Covered  BY <1>1, <1>2 DEF OverlayTypes, O!Alive
  <2>2. phase = "explicit" => e \in O!Explicit  BY <1>1, <1>2 DEF OverlayTypes
  <2>3. phase = "broad" => e \notin O!Explicit  BY <1>1, <1>2 DEF OverlayTypes
  <2> QED BY <1>1, <2>1, <2>2, <2>3 DEF InPass, OverlaySynced
<1>4. /\ old \in Level /\ new \in Level /\ O!RampFrom(e) \in Level /\ O!Elapsed(e) \in Nat
      /\ comp[e].value \in Level
      /\ O!Elapsed(e) = comp[e].ticks => new = comp[e].value
  <2>1. comp[e].value \in Level /\ comp[e].ticks \in Nat  BY <1>3 DEF Covered
  <2>2. O!Default \in Level /\ sentOver[e] \in Level \cup {None} /\ from[e] \in Level /\ elapsed[e] \in Nat
    BY <1>2, BlankTyped DEF OverlayTypes
  <2> HIDE DEF O!Default
  <2>3. old \in Level /\ O!RampFrom(e) \in Level  BY <2>2 DEF O!Current, O!RampFrom
  <2>4. O!Elapsed(e) \in Nat  BY <2>1, <2>2 DEF O!Elapsed
  <2>5. new \in Level /\ (O!Elapsed(e) = comp[e].ticks => new = comp[e].value)
    <3> DEFINE start == O!RampFrom(e)
               goal == comp[e].value
               n == O!Elapsed(e)
               ticks == comp[e].ticks
    <3>1. start \in Level /\ goal \in Level /\ n \in Nat /\ ticks \in Nat  BY <2>1, <2>3, <2>4
    <3>2. new = O!Towards(start, goal, n, ticks)  OBVIOUS
    <3> HIDE DEF start, goal, n, ticks, new
    <3>3. new \in Level /\ (n = ticks => new = goal)  BY ONLY <3>1, <3>2, TowardsSays
    <3> QED BY <3>3 DEF n, ticks, goal
  <2> QED BY <2>1, <2>3, <2>4, <2>5
<1>5. /\ O!Alive' = O!Alive /\ O!Explicit' = O!Explicit /\ O!Alive \subseteq Screenful
      /\ \A x : Rivals(x)' = Rivals(x) /\ O!Members(x)' = O!Members(x) /\ O!Desired(x)' = O!Desired(x)
      /\ \A x : InPass(x)' <=> InPass(x)
  BY <1>1 DEF O!Alive, O!Explicit, Rivals, O!Members, O!Desired, O!Claimed, InPass
<1>6. OverlaySynced(e)' /\ \A x \in O!Alive \ {e} : OverlaySynced(x)' <=> OverlaySynced(x)
  BY <1>1, <1>3, <1>5 DEF OverlaySynced, InPass
<1>7. /\ viewersOver' \in [Screenful -> SUBSET Solo] /\ viewersOver'[e] = D /\ D \subseteq screened
      /\ G \subseteq viewersOver[e] /\ G \cap D = {} /\ screened \subseteq Solo
      /\ \A x \in Screenful \ {e} : viewersOver'[x] = viewersOver[x]
  <2>1. D \subseteq screened /\ screened \subseteq Solo  BY <1>2, DesiredReady DEF OverlayTypes
  <2>2. G \cap D = {}  BY DEF O!Told, O!Desired
  <2> QED BY <1>1, <1>2, <2>1, <2>2 DEF OverlayTypes, O!Told
<1>8. /\ sentOver' \in [Screenful -> Level \cup {None}] /\ target' \in [Screenful -> Level]
      /\ from' \in [Screenful -> Level] /\ elapsed' \in [Screenful -> Nat]
      /\ sentOver'[e] = new /\ elapsed'[e] = O!Elapsed(e)
      /\ \A x \in Screenful \ {e} : sentOver'[x] = sentOver[x] /\ elapsed'[x] = elapsed[x]
  <2> HIDE DEF new
  <2> QED BY <1>1, <1>2, <1>4 DEF OverlayTypes
<1>9. Place1 \in Places /\ (kind = "bar" => Place1 = e) /\ (kind # "bar" => Place1 = Screen)
      /\ Screen \in Places /\ Screenful \subseteq Places /\ Screen # e
  BY DEF O!Place, Places, OverlaysDistinct
<1>10. \A p \in D \cap viewersOver[e] : Holds(p, e) /\ old = sentOver[e]
  <2> SUFFICES ASSUME NEW p \in D, p \in viewersOver[e] PROVE Holds(p, e) /\ old = sentOver[e]  OBVIOUS
  <2>1. \A x \in Rivals(e) : p \notin viewersOver[x]
    <3> SUFFICES ASSUME NEW x \in Rivals(e), p \in viewersOver[x] PROVE FALSE  OBVIOUS
    <3>1. x \in O!Alive  BY DEF Rivals
    <3>2. OverlaySynced(x)  BY <1>2, <1>3, <1>7 DEF BeforeSync
    <3>3. p \in O!Desired(x)  BY <1>2, <3>1, <3>2 DEF AfterSync
    <3> QED BY <1>2, <1>3, <3>3, DesiredApart
  <2>2. Holds(p, e)  BY <1>2, <1>3, <1>7, <2>1 DEF BeforeSync
  <2> QED BY <2>2 DEF Holds, O!Current
<1> HIDE DEF D, G, old, new, Place1
<1> DEFINE was(p) == screens[p][Place1]
           shows(p) == CASE p \in D \ viewersOver[e]    -> new
                         [] p \in viewersOver[e] \cap D -> O!Patched(was(p), old, new)
                         [] p \in G                -> O!Reset(was(p), old)
                         [] OTHER                  -> was(p)
<1>11. \A p \in D : shows(p) = new
  <2> SUFFICES ASSUME NEW p \in D PROVE shows(p) = new  OBVIOUS
  <2>1. CASE p \notin viewersOver[e]
    <3>1. p \in D \ viewersOver[e] /\ p \notin viewersOver[e] \cap D /\ p \notin G  BY <1>7, <2>1
    <3> QED BY <3>1
  <2>2. CASE p \in viewersOver[e]
    <3>1. p \notin D \ viewersOver[e] /\ p \in viewersOver[e] \cap D /\ p \notin G  BY <1>7, <2>2
    <3>2. shows(p) = O!Patched(was(p), old, new)  BY <3>1
    <3>3. was(p) = old /\ old \in Level  BY <1>4, <1>10, <2>2 DEF Holds, Place1
    <3>4. O!Patched(was(p), old, new) = new  BY <1>4, <3>3, PatchedSays
    <3> QED BY <3>2, <3>4
  <2> QED BY <2>1, <2>2
<1>12. \A p \in G : shows(p) = O!Reset(was(p), old)
  <2> SUFFICES ASSUME NEW p \in G PROVE shows(p) = O!Reset(was(p), old)  OBVIOUS
  <2>1. p \notin D \ viewersOver[e] /\ p \notin viewersOver[e] \cap D  BY <1>7
  <2> QED BY <2>1
<1>13. \A p : p \notin D /\ p \notin G => shows(p) = was(p)
  <2> SUFFICES ASSUME NEW p, p \notin D, p \notin G PROVE shows(p) = was(p)  OBVIOUS
  <2>1. p \notin D \ viewersOver[e] /\ p \notin viewersOver[e] \cap D  OBVIOUS
  <2> QED BY <2>1
<1>14. screens' = [p \in Solo |-> IF p \notin screened THEN screens[p] ELSE [screens[p] EXCEPT ![Place1] = shows(p)]]
  BY <1>1
<1> HIDE DEF shows
<1>15. \A p \in screened : shows(p) \in Level \/ (kind = "bar" /\ shows(p) = None)
  <2> SUFFICES ASSUME NEW p \in screened PROVE shows(p) \in Level \/ (kind = "bar" /\ shows(p) = None)
    OBVIOUS
  <2>1. was(p) \in Level \/ (kind = "bar" /\ was(p) = None)
    <3>1. screens[p] \in [Places -> Level \cup {None}] /\ screens[p][Screen] \in Level
      BY <1>2, <1>7 DEF OverlayTypes
    <3> QED BY <1>9, <3>1
  <2>2. CASE p \in D  BY <1>4, <1>11, <2>2
  <2>3. CASE p \in G
    <3>1. kind = "weather" => O!Reset(was(p), old) \in Level  BY <2>1, ResetSays
    <3>2. kind = "border" => O!Reset(was(p), old) \in Level  BY ResetSays
    <3>3. kind = "bar" => O!Reset(was(p), old) = None  BY ResetSays
    <3> QED BY <1>2, <1>12, <2>3, <3>1, <3>2, <3>3 DEF OverlayTypes
  <2>4. CASE p \notin D /\ p \notin G  BY <1>13, <2>1, <2>4
  <2> QED BY <2>2, <2>3, <2>4
<1>16. /\ screens' \in [Solo -> [Places -> Level \cup {None}]]
       /\ \A p \in Solo \ screened : screens'[p] = screens[p]
       /\ \A p \in screened : screens'[p][Place1] = shows(p)
       /\ \A p \in Solo : \A s \in Places \ {Place1} : screens'[p][s] = screens[p][s]
       /\ \A p \in Solo : p \notin D /\ p \notin G => screens'[p] = screens[p]
  <2>1. screens \in [Solo -> [Places -> Level \cup {None}]]  BY <1>2 DEF OverlayTypes
  <2>2. ASSUME NEW p \in screened, p \notin D, p \notin G
    PROVE [screens[p] EXCEPT ![Place1] = shows(p)] = screens[p]
    <3>1. screens[p] \in [Places -> Level \cup {None}]  BY <1>7, <2>1
    <3>2. shows(p) = screens[p][Place1]  BY <1>13, <2>2
    <3> QED BY <1>9, <3>1, <3>2
  <2> QED BY <1>7, <1>9, <1>14, <1>15, <2>1, <2>2
<1>17. \A p \in D : Holds(p, e)'
  <2>1. \A p \in D : screens'[p][O!Place(e)] = new /\ O!Place(e)' = O!Place(e)
    <3>1. \A p \in D : screens'[p][Place1] = new  BY <1>7, <1>11, <1>16
    <3>2. kind' = kind  BY <1>1
    <3>3. O!Place(e)' = O!Place(e)  BY <3>2 DEF O!Place
    <3> QED BY <3>1, <3>3 DEF Place1
  <2>2. new # None  BY <1>4 DEF OverlaysDistinct
  <2> QED BY <1>8, <2>1, <2>2 DEF Holds
<1>18. OverlayTypes'
  <2>1. \A x \in Screenful \ O!Alive : viewersOver'[x] = {} /\ sentOver'[x] = None
    BY <1>2, <1>3, <1>7, <1>8 DEF OverlayTypes
  <2>2. \A p \in Solo : screens'[p][Screen] \in Level
    <3> SUFFICES ASSUME NEW p \in Solo PROVE screens'[p][Screen] \in Level  OBVIOUS
    <3>1. screens[p][Screen] \in Level  BY <1>2 DEF OverlayTypes
    <3>2. CASE p \in screened /\ kind # "bar"  BY <1>9, <1>15, <1>16, <3>2
    <3>3. CASE p \notin screened  BY <1>16, <3>1, <3>3
    <3>4. CASE kind = "bar"  BY <1>9, <1>16, <3>1, <3>4
    <3> QED BY <3>2, <3>3, <3>4
  <2>3. \A p \in Solo \ screened : screens'[p] = Blank'  BY <1>2, <1>16 DEF OverlayTypes, Blank
  <2>4. todoOver' \subseteq O!Alive /\ released' \subseteq Solo /\ forgot' \subseteq O!Alive
    BY <1>1, <1>2, <1>3, <1>7 DEF OverlayTypes
  <2> QED BY <1>1, <1>2, <1>5, <1>7, <1>8, <1>16, <2>1, <2>2, <2>3, <2>4 DEF OverlayTypes
<1>19. AudiencesApart'
  <2>1. D \subseteq comp[e].audience  BY DEF D, O!Desired, O!Members
  <2>2. \A a, b \in O!Alive : a # b /\ kind = "border" => viewersOver'[a] \cap comp[b].audience = {}
    <3> SUFFICES ASSUME NEW a \in O!Alive, NEW b \in O!Alive, a # b, kind = "border"
                 PROVE  viewersOver'[a] \cap comp[b].audience = {}
      OBVIOUS
    <3>1. CASE a = e  BY <1>2, <1>7, <2>1, <3>1 DEF AudiencesApart
    <3>2. CASE a # e  BY <1>2, <1>5, <1>7, <3>2 DEF AudiencesApart
    <3> QED BY <3>1, <3>2
  <2> QED BY <1>1, <1>2, <1>5, <2>2 DEF AudiencesApart
(* What the others show is theirs still, but for whom this one has told or shown. *)
<1>20. ASSUME NEW x \in O!Alive \ {e}, NEW p \in Solo, Holds(p, x), kind = "bar" \/ (p \notin D /\ p \notin G)
       PROVE  Holds(p, x)'
  <2>1. screens'[p][O!Place(x)] = screens[p][O!Place(x)]
    <3>1. CASE kind = "bar"
      <4>1. O!Place(x) \in Places \ {Place1}  BY <1>5, <1>9, <3>1 DEF O!Place
      <4> QED BY <1>16, <4>1
    <3>2. CASE p \notin D /\ p \notin G  BY <1>16, <3>2
    <3> QED BY <1>20, <3>1, <3>2
  <2> QED BY <1>1, <1>5, <1>8, <1>20, <2>1, HoldsOn
<1>21. BeforeSync'
  <2> SUFFICES ASSUME NEW x \in O!Alive \ {e}, ~OverlaySynced(x), NEW p \in viewersOver[x] \cap screened
               PROVE  /\ kind = "weather" => p \notin released'
                      /\ \A y \in Rivals(x) : p \in viewersOver'[y] => OverlaySynced(y)'
                      /\ Holds(p, x)' \/ \E y \in Rivals(x) : p \in viewersOver'[y]
    BY <1>1, <1>5, <1>6, <1>7 DEF BeforeSync
  <2>1. p \in Solo /\ \A y \in Rivals(x) : y \in O!Alive  BY <1>7 DEF Rivals
  <2>2. /\ kind = "weather" => p \notin released
        /\ \A y \in Rivals(x) : p \in viewersOver[y] => OverlaySynced(y)
        /\ Holds(p, x) \/ \E y \in Rivals(x) : p \in viewersOver[y]
    BY <1>2 DEF BeforeSync
  <2>3. CASE kind = "bar"
    <3>1. Rivals(x) = {}  BY <2>3 DEF Rivals
    <3> QED BY <1>20, <2>1, <2>2, <2>3, <3>1
  <2>4. CASE kind # "bar"
    <3>1. e \in Rivals(x)  BY <1>3, <2>4 DEF Rivals
    <3>2. p \notin viewersOver[e] /\ p \notin G  BY <1>3, <1>7, <2>2, <3>1
    <3>3. kind = "weather" => p \notin released'  BY <1>1, <2>2, <3>2
    <3>4. \A y \in Rivals(x) : p \in viewersOver'[y] => OverlaySynced(y)'
      BY <1>5, <1>6, <1>7, <2>1, <2>2
    <3>5. CASE p \in D  BY <1>7, <3>1, <3>3, <3>4, <3>5
    <3>6. CASE p \notin D /\ Holds(p, x)  BY <1>20, <2>1, <3>2, <3>3, <3>4, <3>6
    <3>7. CASE \E y \in Rivals(x) : p \in viewersOver[y]
      <4>1. PICK y \in Rivals(x) : p \in viewersOver[y]  BY <3>7
      <4>2. viewersOver'[y] = viewersOver[y]  BY <1>5, <1>7, <2>1, <3>2, <4>1
      <4> QED BY <3>3, <3>4, <4>1, <4>2
    <3> QED BY <2>2, <3>5, <3>6, <3>7
  <2> QED BY <2>3, <2>4
(* A player taken over by an explicit weather is not told to clear by a broad one. *)
<1>22. ASSUME NEW x \in O!Alive \ {e}, OverlaySynced(x), NEW p \in O!Desired(x), kind = "weather", p \in G
       PROVE  InPass(x)
  <2>1. CASE phase = "explicit"  BY <1>22, <2>1 DEF OverlaySynced, InPass
  <2>2. CASE phase = "broad" /\ x \notin O!Explicit  BY <2>2 DEF InPass
  <2>3. CASE phase = "broad" /\ x \in O!Explicit
    <3>1. p \in O!Claimed  BY <1>22, <2>3, DesiredReady DEF O!Claimed, O!Explicit
    <3>2. ~comp[e].explicit  BY <1>3, <1>22, <2>3 DEF InPass, O!Explicit
    <3> QED BY <1>22, <3>1, <3>2 DEF G, O!Told
  <2> QED BY <1>1, <2>1, <2>2, <2>3
<1>23. AfterSync'
  <2> SUFFICES ASSUME NEW x \in O!Alive, OverlaySynced(x)'
               PROVE  /\ viewersOver'[x] \subseteq O!Desired(x)
                      /\ viewersOver'[x] = O!Desired(x) \/ x \in forgot'
                      /\ elapsed'[x] = comp[x].ticks => sentOver'[x] = comp[x].value
                      /\ \A p \in viewersOver'[x] : \/ Holds(p, x)'
                                                    \/ kind = "weather" /\ InPass(x) /\ p \in released'
    BY <1>1, <1>5 DEF AfterSync
  <2>1. CASE x = e  BY <1>4, <1>7, <1>8, <1>17, <2>1 DEF D
  <2>2. CASE x # e
    <3>1. /\ OverlaySynced(x) /\ x \in O!Alive \ {e} /\ viewersOver'[x] = viewersOver[x]
          /\ sentOver'[x] = sentOver[x] /\ elapsed'[x] = elapsed[x]
      BY <1>5, <1>6, <1>7, <1>8, <2>2
    <3>2. /\ viewersOver[x] \subseteq O!Desired(x) /\ (viewersOver[x] = O!Desired(x) \/ x \in forgot)
          /\ elapsed[x] = comp[x].ticks => sentOver[x] = comp[x].value
          /\ \A p \in viewersOver[x] : Holds(p, x) \/ (kind = "weather" /\ InPass(x) /\ p \in released)
      BY <1>2, <3>1 DEF AfterSync
    <3>3. ASSUME NEW p \in viewersOver[x], Holds(p, x)
          PROVE  Holds(p, x)' \/ (kind = "weather" /\ InPass(x) /\ p \in released')
      <4>1. p \in Solo /\ p \in O!Desired(x)  BY <1>2, <1>5, <3>2 DEF OverlayTypes
      <4>2. CASE kind = "bar"  BY <1>20, <3>1, <3>3, <4>1, <4>2
      <4>3. CASE kind # "bar"
        <5>1. x \in Rivals(e)  BY <3>1, <4>3 DEF Rivals
        <5>2. p \notin D /\ (kind = "border" => p \notin G)
          BY <1>2, <1>3, <1>7, <4>1, <5>1, DesiredApart DEF D
        <5>3. CASE p \notin G  BY <1>20, <3>1, <3>3, <4>1, <5>2, <5>3
        <5>4. CASE p \in G
          <6>1. kind = "weather"  BY <1>2, <4>3, <5>2, <5>4 DEF OverlayTypes
          <6> QED BY <1>1, <1>22, <3>1, <4>1, <5>4, <6>1
        <5> QED BY <5>3, <5>4
      <4> QED BY <4>2, <4>3
    <3> QED BY <1>1, <2>2, <3>1, <3>2, <3>3
  <2> QED BY <2>1, <2>2
(* Whom it neither covers nor tells, an explicit weather has claimed. *)
<1>24. ASSUME NEW p, p \in viewersOver[e] \/ p \in O!Members(e), p \notin D, p \notin G
       PROVE  kind = "weather" /\ p \in O!Claimed /\ phase = "broad"
  <2>1. p \in O!Claimed /\ ~comp[e].explicit  BY <1>24 DEF D, G, O!Desired, O!Told
  <2>2. kind = "weather"  BY <2>1 DEF O!Claimed
  <2>3. e \notin O!Explicit  BY <2>1 DEF O!Explicit
  <2> QED BY <1>3, <2>1, <2>2, <2>3 DEF InPass
<1>25. ScreensAnswered'
  <2>1. CASE kind = "bar"
    <3> SUFFICES ASSUME NEW p \in Solo, NEW x \in Screenful, p \notin viewersOver'[x]
      PROVE screens'[p][x] = None
      BY <1>1, <2>1 DEF ScreensAnswered
    <3>1. CASE x # e
      <4>1. screens'[p][x] = screens[p][x]  BY <1>9, <1>16, <2>1, <3>1
      <4> QED BY <1>2, <1>7, <2>1, <3>1, <4>1 DEF ScreensAnswered
    <3>2. CASE x = e /\ p \notin screened  BY <1>2, <1>16, <3>2, BlankTyped DEF OverlayTypes
    <3>3. CASE x = e /\ p \in screened
      <4>1. p \notin D  BY <1>7, <3>3
      <4>2. CASE p \in G
        <5>1. shows(p) = None  BY <1>12, <2>1, <4>2, ResetSays
        <5> QED BY <1>9, <1>16, <2>1, <3>3, <5>1
      <4>3. CASE p \notin G
        <5>1. p \notin viewersOver[e]  BY <1>24, <2>1, <4>1, <4>3
        <5>2. screens'[p] = screens[p]  BY <1>16, <4>1, <4>3
        <5> QED BY <1>2, <2>1, <3>3, <5>1, <5>2 DEF ScreensAnswered
      <4> QED BY <4>2, <4>3
    <3> QED BY <3>1, <3>2, <3>3
  <2>2. CASE kind # "bar"
    <3> SUFFICES ASSUME NEW p \in screened, screens'[p][Screen] # O!Default
                 PROVE  \E x \in O!Alive : p \in viewersOver'[x] \/ (x \in forgot' /\ p \in O!Members(x))
      BY <1>1, <1>5, <2>2 DEF ScreensAnswered
    <3>1. p \in Solo  BY <1>7
    <3>2. CASE p \in D  BY <1>3, <1>7, <3>2
    <3>3. CASE p \in G
      <4>1. p \in viewersOver[e] \cap screened  BY <1>7, <3>3
      <4>2. Holds(p, e) => was(p) = old
        BY <1>4 DEF Holds, Place1, old, O!Current
      <4>3. shows(p) # O!Default  BY <1>9, <1>16, <2>2
      <4>4. ~Holds(p, e) \/ kind # "weather"
        <5> SUFFICES ASSUME Holds(p, e), kind = "weather" PROVE FALSE  OBVIOUS
        <5>1. O!Reset(was(p), old) = O!Default
          <6> HIDE DEF was
          <6> QED BY <1>4, <4>2, ResetSays
        <5> QED BY <1>12, <3>3, <4>3, <5>1
      <4>5. kind # "border"
        <5> HIDE DEF was
        <5> QED BY <1>12, <3>3, <4>3, ResetSays
      <4>6. ~Holds(p, e)  BY <1>2, <2>2, <4>4, <4>5 DEF OverlayTypes
      <4>7. PICK x \in Rivals(e) : p \in viewersOver[x]  BY <1>2, <1>3, <4>1, <4>6 DEF BeforeSync
      <4>8. x \in O!Alive /\ x # e  BY <2>2, <4>7 DEF Rivals
      <4> QED BY <1>5, <1>7, <4>7, <4>8
    <3>4. CASE p \notin D /\ p \notin G
      <4>1. screens'[p] = screens[p]  BY <1>16, <3>1, <3>4
      <4>2. PICK x \in O!Alive : p \in viewersOver[x] \/ (x \in forgot /\ p \in O!Members(x))
        BY <1>2, <2>2, <4>1 DEF ScreensAnswered
      <4>3. CASE x # e  BY <1>1, <1>5, <1>7, <4>2, <4>3
      <4>4. CASE x = e
        <5>1. kind = "weather" /\ p \in O!Claimed /\ phase = "broad"  BY <1>24, <3>4, <4>2, <4>4
        <5>2. PICK y \in O!Explicit : p \in O!Members(y) /\ (p \in viewersOver[y] \/ y \in forgot)
          BY <1>2, <5>1, ClaimedAnswered
        <5>3. y \in O!Alive /\ y # e  BY <1>3, <5>1, <5>2 DEF O!Explicit, InPass
        <5> QED BY <1>1, <1>5, <1>7, <5>2, <5>3
      <4> QED BY <4>3, <4>4
    <3> QED BY <3>2, <3>3, <3>4
  <2> QED BY <2>1, <2>2
<1>26. OverlaysSettled'
  <2> SUFFICES ASSUME ~acted
               PROVE  /\ released' = {}
                      /\ \A x \in O!Alive : IF OverlaySynced(x)' THEN viewersOver'[x] = O!Desired(x)
                                            ELSE viewersOver'[x] \subseteq O!Desired(x)
    BY <1>1, <1>5 DEF OverlaysSettled
  <2>1. viewersOver[e] \subseteq D /\ released = {}  BY <1>2, <1>3 DEF OverlaysSettled, D
  <2>2. released' = {}  BY <1>1, <1>7, <2>1
  <2>3. \A x \in O!Alive \ {e} : viewersOver'[x] = viewersOver[x]  BY <1>5, <1>7
  <2>4. viewersOver'[e] = O!Desired(e) /\ OverlaySynced(e)'  BY <1>6, <1>7 DEF D
  <2> QED BY <1>2, <1>6, <2>2, <2>3, <2>4 DEF OverlaysSettled
<1> QED BY <1>18, <1>19, <1>21, <1>23, <1>25, <1>26 DEF OverlaysInv

LEMMA OverlayReaddressKeeps ==
  ASSUME OverlaysDistinct, OverlaysInv, NEW e \in Screenful, NEW x \in BOOLEAN, NEW A \in SUBSET Solo,
         O!Readdress(e, x, A)
  PROVE  OverlaysInv'
<1> DEFINE new == [comp[e] EXCEPT !.explicit = x, !.audience = A]
<1>1. /\ phase = "game" /\ phase' = "game" /\ acted' = TRUE
      /\ UNCHANGED <<kind, screened, O!state, todoOver, released, forgot, screens>>
  BY DEF O!Readdress, O!Act
<1>2. OverlayTypes  BY DEF OverlaysInv
<1>3. e \in O!Alive /\ O!Apart(e, x, A) /\ e \notin forgot  BY DEF O!Readdress, OverlaysDistinct
<1>4. comp[e] \in Covered  BY <1>2, <1>3 DEF OverlayTypes, O!Alive
<1>5. new \in Covered /\ new.explicit = x /\ new.audience = A  BY <1>4 DEF Covered
<1>6. comp' = [comp EXCEPT ![e] = new]
  <2>1. comp' = [comp EXCEPT ![e].explicit = x, ![e].audience = A]  BY DEF O!Readdress
  <2>2. comp \in [Screenful -> Covered \cup {None}]  BY <1>2 DEF OverlayTypes
  <2> QED BY <2>1, <2>2
<1> HIDE DEF new
<1> QED BY <1>1, <1>3, <1>5, <1>6, OverlayComponentKeeps

LEMMA OverlayChangesKeep ==
  ASSUME OverlaysDistinct, OverlaysInv, NEW e \in Screenful, NEW x \in BOOLEAN, NEW A \in SUBSET Solo,
         NEW v \in [flag : BOOLEAN, level : {0, Full}], NEW n \in O!Times,
         O!Set(e, v, n) \/ O!Spawn(e, v, x, A, n)
  PROVE  OverlaysInv'
<1>1. v \in Level /\ n \in Nat  BY DEF Level, O!Times, OverlaysDistinct
<1>2. /\ phase = "game" /\ phase' = "game" /\ acted' = TRUE
      /\ UNCHANGED <<kind, screened, O!state, todoOver, released, forgot, screens>>
  BY DEF O!Set, O!Spawn, O!Act
<1>3. OverlayTypes /\ AudiencesApart  BY DEF OverlaysInv
<1>4. CASE O!Spawn(e, v, x, A, n)
  <2> DEFINE new == [value |-> v, explicit |-> x, audience |-> A, ticks |-> n]
  <2>1. /\ new \in Covered /\ new.explicit = x /\ new.audience = A
    BY <1>1 DEF Covered
  <2>2. comp' = [comp EXCEPT ![e] = new] /\ O!Apart(e, x, A) /\ e \notin O!Alive
    BY <1>4 DEF O!Spawn, O!Alive
  <2> HIDE DEF new
  <2> QED BY <1>2, <2>1, <2>2, OverlayComponentKeeps
<1>5. CASE O!Set(e, v, n)
  <2> DEFINE new == [comp[e] EXCEPT !.value = v, !.ticks = n]
  <2>1. e \in O!Alive  BY <1>5 DEF O!Set
  <2>2. comp[e] \in Covered  BY <1>3, <2>1 DEF OverlayTypes, O!Alive
  <2>3. new \in Covered /\ new.explicit = comp[e].explicit /\ new.audience = comp[e].audience
    BY <1>1, <2>2 DEF Covered
  <2>4. comp' = [comp EXCEPT ![e] = new]
    <3>1. comp' = [comp EXCEPT ![e].value = v, ![e].ticks = n]  BY <1>5 DEF O!Set
    <3>2. comp \in [Screenful -> Covered \cup {None}]  BY <1>3 DEF OverlayTypes
    <3> QED BY <3>1, <3>2
  <2>5. O!Apart(e, comp[e].explicit, comp[e].audience)
    <3> SUFFICES ASSUME NEW y \in O!Alive \ {e}
                 PROVE  /\ kind = "weather" => \/ comp[y].explicit # comp[e].explicit
                                               \/ comp[y].audience \cap comp[e].audience = {}
                        /\ kind = "border" => /\ comp[y].audience \cap comp[e].audience = {}
                                              /\ viewersOver[y] \cap comp[e].audience = {}
      BY <1>3 DEF O!Apart, OverlayTypes
    <3> QED BY <1>3, <2>1 DEF AudiencesApart
  <2> HIDE DEF new
  <2> QED BY <1>2, <2>3, <2>4, <2>5, OverlayComponentKeeps
<1> QED BY <1>4, <1>5

LEMMA OverlaysIdle == ASSUME OverlaysInv, UNCHANGED O!vars PROVE OverlaysInv'
<1>1. UNCHANGED <<kind, phase, acted, screened, comp, sentOver, target, from, elapsed, viewersOver, todoOver, released,
                  forgot, screens>>
  BY DEF O!vars, O!state
<1>2. O!Alive' = O!Alive /\ O!Explicit' = O!Explicit /\ (\A e : Rivals(e)' = Rivals(e)) /\ Blank' = Blank
  BY <1>1 DEF O!Alive, O!Explicit, Rivals, Blank
<1>3. \A e : O!Members(e)' = O!Members(e) /\ O!Desired(e)' = O!Desired(e)
  BY <1>1, <1>2 DEF O!Members, O!Desired, O!Claimed
<1>4. \A e : (OverlaySynced(e)' <=> OverlaySynced(e)) /\ (InPass(e)' <=> InPass(e))
  BY <1>1, <1>2 DEF OverlaySynced, InPass
<1>5. \A p, e : Holds(p, e)' <=> Holds(p, e)  BY <1>1 DEF Holds, O!Place
<1>6. OverlayTypes' /\ AudiencesApart'  BY <1>1, <1>2 DEF OverlaysInv, OverlayTypes, AudiencesApart
<1>7. BeforeSync' /\ AfterSync'
  BY <1>1, <1>2, <1>3, <1>4, <1>5 DEF OverlaysInv, BeforeSync, AfterSync
<1>8. ScreensAnswered' /\ OverlaysSettled'
  BY <1>1, <1>2, <1>3, <1>4 DEF OverlaysInv, ScreensAnswered, OverlaysSettled
<1> QED BY <1>6, <1>7, <1>8 DEF OverlaysInv

LEMMA OverlaysKeep == ASSUME OverlaysDistinct, OverlaysInv, [O!Next]_O!vars PROVE OverlaysInv'
<1>1. ASSUME NEW p \in Solo, O!GetReady(p) \/ O!Leave(p) PROVE OverlaysInv'
  BY <1>1, OverlayReadyKeeps, OverlayLeaveKeeps
<1>2. ASSUME NEW e \in Screenful, O!Despawn(e) PROVE OverlaysInv'  BY <1>2, OverlayDespawnKeeps
<1>3. ASSUME NEW e \in Screenful, NEW v \in [flag : BOOLEAN, level : {0, Full}], NEW n \in O!Times,
             O!Set(e, v, n) \/ \E x \in BOOLEAN, A \in SUBSET Solo : O!Spawn(e, v, x, A, n)
      PROVE  OverlaysInv'
  <2>1. PICK x \in BOOLEAN, A \in SUBSET Solo : O!Set(e, v, n) \/ O!Spawn(e, v, x, A, n)
    BY <1>3
  <2> QED BY <2>1, OverlayChangesKeep
<1>4. ASSUME NEW e \in Screenful, NEW x \in BOOLEAN, NEW A \in SUBSET Solo, O!Readdress(e, x, A)
      PROVE  OverlaysInv'
  BY <1>4, OverlayReaddressKeeps
<1>5. CASE O!Tick
  BY <1>5, OverlaysBeginKeep, OverlaySyncKeeps, OverlayPassesEndKeep, OverlayTickKeeps DEF O!Tick
<1>6. CASE UNCHANGED O!vars  BY <1>6, OverlaysIdle
<1> QED BY <1>1, <1>2, <1>3, <1>4, <1>5, <1>6 DEF O!Next, O!Game

LEMMA OverlaysShow == ASSUME OverlaysDistinct, OverlaysInv PROVE O!OverlaysShown
<1> SUFFICES ASSUME phase = "done" PROVE
      /\ \A e \in O!Alive :
           /\ viewersOver[e] \subseteq O!Desired(e)
           /\ ~acted => viewersOver[e] = O!Desired(e)
           /\ elapsed[e] = comp[e].ticks => sentOver[e] = comp[e].value
      /\ \A p \in screened :
           /\ \A e \in O!Covering(p) : p \in viewersOver[e] => screens[p][O!Place(e)] = sentOver[e]
           /\ kind # "bar" /\ O!Covering(p) = {} => screens[p][Screen] = O!Default
           /\ kind = "bar" => \A e \in Screenful \ O!Covering(p) : screens[p][e] = None
  BY DEF O!OverlaysShown
<1>1. OverlayTypes /\ AfterSync /\ ScreensAnswered /\ OverlaysSettled  BY DEF OverlaysInv
<1>2. released = {} /\ \A e : OverlaySynced(e)  BY <1>1 DEF OverlayTypes, OverlaySynced
<1>3. \A e \in O!Alive : /\ viewersOver[e] \subseteq O!Desired(e) /\ (~acted => viewersOver[e] = O!Desired(e))
                         /\ elapsed[e] = comp[e].ticks => sentOver[e] = comp[e].value
                         /\ \A p \in viewersOver[e] : screens[p][O!Place(e)] = sentOver[e]
  BY <1>1, <1>2 DEF AfterSync, OverlaysSettled, Holds
<1>4. ASSUME NEW p \in screened PROVE
        /\ kind # "bar" /\ O!Covering(p) = {} => screens[p][Screen] = O!Default
        /\ kind = "bar" => \A e \in Screenful \ O!Covering(p) : screens[p][e] = None
  <2>1. ASSUME kind # "bar", O!Covering(p) = {}, screens[p][Screen] # O!Default PROVE FALSE
    <3>1. PICK e \in O!Alive : p \in viewersOver[e] \/ (e \in forgot /\ p \in O!Members(e))
      BY <1>1, <2>1 DEF ScreensAnswered
    <3>2. p \notin O!Desired(e)  BY <2>1 DEF O!Covering
    <3>3. p \in O!Claimed  BY <1>3, <3>1, <3>2 DEF O!Desired
    <3>4. PICK y \in O!Explicit : p \in O!Members(y)  BY <1>1, <3>3, ClaimedAnswered
    <3>5. y \in O!Covering(p)  BY <3>4 DEF O!Explicit, O!Desired, O!Covering
    <3> QED BY <2>1, <3>5
  <2>2. ASSUME kind = "bar", NEW e \in Screenful \ O!Covering(p) PROVE screens[p][e] = None
    <3>1. p \notin viewersOver[e]  BY <1>1, <1>3 DEF O!Covering, OverlayTypes
    <3>2. p \in Solo  BY <1>1 DEF OverlayTypes
    <3> QED BY <1>1, <2>2, <3>1, <3>2 DEF ScreensAnswered
  <2> QED BY <2>1, <2>2
<1> QED BY <1>3, <1>4 DEF O!Covering

-----------------------------------------------------------------------------
(***************************************************************************)
(* Teams: at the end of a tick a client has the teams it is a viewer of    *)
(* and each member on the one team that claims it, and it was never told   *)
(* of a leave from a team the member was not on.                           *)
(***************************************************************************)

Banner == [name : Name, param : Param, members : SUBSET Member, audience : SUBSET Player]
Sheet == [param : Param, members : SUBSET Member]

(* What is absent is none of what is there. *)
TeamsDistinct ==
  /\ None \notin Ranked /\ None \notin Name /\ None \notin Param
  /\ None \notin Banner /\ None \notin Sheet /\ Name # {}

-----------------------------------------------------------------------------
(* The inductive invariant *)

TeamTypes ==
  /\ phase \in {"game", "joins", "done"} /\ audience \subseteq Player
  /\ team \in [Ranked -> Banner \cup {None}]
  /\ known \in [Ranked -> Name] /\ sent \in [Ranked -> Sheet \cup {None}]
  /\ viewers \in [Ranked -> SUBSET Player] /\ refused \in [Ranked -> SUBSET Player]
  /\ joined \in [Ranked -> SUBSET Member] /\ stale \subseteq Ranked /\ freed \in BOOLEAN
  /\ todo \subseteq T!Alive /\ pending \subseteq todo /\ update \subseteq todo
  /\ own \in [Player -> [Name -> Ranked \cup {None}]]
  /\ on \in [Player -> [Member -> Ranked \cup {None}]]
  /\ teams \in [Player -> [Name -> Param \cup {None}]]
  /\ playsOn \in [Player -> [Member -> Name \cup {None}]]
  /\ \A e \in Ranked \ todo : joined[e] = {}
  /\ phase # "joins" => todo = {}
  /\ \A e \in Ranked \ T!Alive : sent[e] = None
  /\ \A e \in Ranked : sent[e] = None => viewers[e] = {} /\ refused[e] = {}

(* A viewer holds the name of a team for it, and nothing else is held. *)
NamesOwned ==
  /\ \A e \in Ranked : \A p \in viewers[e] : own[p][known[e]] = e
  /\ \A p \in Player, n \in Name : own[p][n] # None =>
       p \in viewers[own[p][n]] /\ known[own[p][n]] = n

(* A member is on a team that has it and that the viewer has; who is not    *)
(* was turned away or has yet to join.                                      *)
Enlisted ==
  /\ \A p \in Player, m \in Member : on[p][m] # None =>
       p \in viewers[on[p][m]] /\ m \in sent[on[p][m]].members
  /\ \A e \in Ranked : \A p \in viewers[e] : \A m \in sent[e].members \ joined[e] :
       on[p][m] = e \/ <<p, e, m>> \in turned

(* Clients are as the claims say, but for parameters about to be updated. *)
TeamClaimsShown ==
  \A p \in Player :
    /\ p \notin audience => /\ \A n \in Name : teams[p][n] = None
                            /\ \A m \in Member : playsOn[p][m] = None
    /\ p \in audience =>
         /\ \A n \in Name : LET e == own[p][n] IN
              IF e = None THEN teams[p][n] = None
              ELSE teams[p][n] # None /\ (e \notin update => teams[p][n] = sent[e].param)
         /\ \A m \in Member :
              playsOn[p][m] = IF on[p][m] = None THEN None ELSE known[on[p][m]]

(* Who is refused is refused because another has the name. *)
TeamRefusedFor ==
  \A e \in T!Alive : e \notin stale \/ (e \in todo /\ ~freed) =>
    \A p \in refused[e] : own[p][known[e]] \notin {None, e}

(* After the leaves, what was sent is what is. *)
TeamsCurrent ==
  phase # "game" =>
    \A e \in T!Alive :
      /\ known[e] = team[e].name
      /\ sent[e] = [param |-> team[e].param, members |-> team[e].members]
      /\ joined[e] \subseteq team[e].members /\ viewers[e] \subseteq T!Desired(e)
      /\ e \notin pending => viewers[e] \cup refused[e] = T!Desired(e)

TeamsInv ==
  TeamTypes /\ NamesOwned /\ Enlisted /\ TeamClaimsShown /\ TeamRefusedFor /\ TeamsCurrent /\ broken = {}

-----------------------------------------------------------------------------
LEMMA TeamsStart == ASSUME TeamsDistinct, T!Init PROVE TeamsInv
<1>1. T!Alive = {}  BY DEF T!Init, T!Alive
<1>2. (CHOOSE n \in Name : TRUE) \in Name  BY DEF TeamsDistinct
<1>3. known \in [Ranked -> Name]  BY <1>2 DEF T!Init
<1>4. TeamTypes  BY <1>1, <1>3 DEF T!Init, TeamTypes
<1>5. NamesOwned /\ Enlisted /\ TeamClaimsShown  BY DEF T!Init, NamesOwned, Enlisted, TeamClaimsShown
<1> QED BY <1>1, <1>4, <1>5 DEF T!Init, TeamsInv, TeamRefusedFor, TeamsCurrent

(* Giving up the claims of the viewers in out *)
LEMMA WithoutOut ==
  ASSUME TeamsDistinct, TeamTypes, NamesOwned, Enlisted, TeamClaimsShown,
         NEW out \in [Ranked -> SUBSET Player], \A e \in Ranked : out[e] \subseteq viewers[e]
  PROVE  /\ T!OwnWithout(out) \in [Player -> [Name -> Ranked \cup {None}]]
         /\ T!OnWithout(out) \in [Player -> [Member -> Ranked \cup {None}]]
         /\ T!TeamsWithout(out) \in [Player -> [Name -> Param \cup {None}]]
         /\ T!PlaysWithout(out) \in [Player -> [Member -> Name \cup {None}]]
         /\ \A p \in Player, n \in Name : LET e == own[p][n] IN
              IF e # None /\ p \in out[e]
              THEN T!OwnWithout(out)[p][n] = None /\ T!TeamsWithout(out)[p][n] = None
              ELSE T!OwnWithout(out)[p][n] = e /\ T!TeamsWithout(out)[p][n] = teams[p][n]
         /\ \A p \in Player, m \in Member : LET e == on[p][m] IN
              IF e # None /\ p \in out[e]
              THEN T!OnWithout(out)[p][m] = None /\ (p \in audience => T!PlaysWithout(out)[p][m] = None)
              ELSE /\ T!OnWithout(out)[p][m] = e
                   /\ p \in audience => T!PlaysWithout(out)[p][m] = playsOn[p][m]
         /\ \A p \in Player \ audience, m \in Member : T!PlaysWithout(out)[p][m] = None
<1>1. ASSUME NEW p \in Player, NEW n \in Name
      PROVE  /\ n \in T!Names(out, p) <=> own[p][n] # None /\ p \in out[own[p][n]]
             /\ (\E e \in Ranked : p \in out[e] /\ n = known[e] /\ own[p][n] = e)
                  <=> own[p][n] # None /\ p \in out[own[p][n]]
  <2>1. own[p][n] # None => own[p][n] \in Ranked /\ known[own[p][n]] = n
    BY DEF TeamTypes, NamesOwned
  <2>2. \A e \in Ranked : p \in out[e] => own[p][known[e]] = e  BY DEF NamesOwned
  <2> QED BY <2>1, <2>2 DEF T!Names, TeamsDistinct
<1>2. ASSUME NEW p \in Player PROVE None \notin T!Names(out, p)
  BY DEF T!Names, TeamTypes, TeamsDistinct
<1>3. ASSUME NEW p \in Player, NEW m \in Member
      PROVE  /\ (\E e \in Ranked : p \in out[e] /\ on[p][m] = e)
                  <=> on[p][m] # None /\ p \in out[on[p][m]]
             /\ p \in audience => (playsOn[p][m] \in T!Names(out, p)
                                  <=> on[p][m] # None /\ p \in out[on[p][m]])
             /\ p \notin audience => playsOn[p][m] \notin T!Names(out, p) /\ playsOn[p][m] = None
  <2>1. on[p][m] \in Ranked \cup {None}  BY DEF TeamTypes
  <2>2. on[p][m] # None => /\ known[on[p][m]] \in Name /\ own[p][known[on[p][m]]] = on[p][m]
    BY <2>1 DEF TeamTypes, NamesOwned, Enlisted
  <2>3. p \in audience => playsOn[p][m] = IF on[p][m] = None THEN None ELSE known[on[p][m]]
    BY DEF TeamClaimsShown
  <2>4. p \notin audience => playsOn[p][m] = None  BY DEF TeamClaimsShown
  <2>5. CASE on[p][m] = None  BY <1>2, <2>3, <2>4, <2>5 DEF TeamsDistinct
  <2>6. CASE on[p][m] # None
    <3>1. known[on[p][m]] \in T!Names(out, p) <=> p \in out[on[p][m]]  BY <1>1, <2>2, <2>6
    <3> QED BY <1>2, <2>1, <2>3, <2>4, <2>6, <3>1
  <2> QED BY <2>5, <2>6
<1>4. \A p \in Player, n \in Name : LET e == own[p][n] IN
        IF e # None /\ p \in out[e]
        THEN T!OwnWithout(out)[p][n] = None /\ T!TeamsWithout(out)[p][n] = None
        ELSE T!OwnWithout(out)[p][n] = e /\ T!TeamsWithout(out)[p][n] = teams[p][n]
  BY <1>1 DEF T!OwnWithout, T!TeamsWithout
<1>5. \A p \in Player, m \in Member : LET e == on[p][m] IN
        IF e # None /\ p \in out[e]
        THEN T!OnWithout(out)[p][m] = None /\ (p \in audience => T!PlaysWithout(out)[p][m] = None)
        ELSE /\ T!OnWithout(out)[p][m] = e
             /\ p \in audience => T!PlaysWithout(out)[p][m] = playsOn[p][m]
  BY <1>3 DEF T!OnWithout, T!PlaysWithout
<1>6. \A p \in Player \ audience, m \in Member : T!PlaysWithout(out)[p][m] = None
  BY <1>3 DEF T!PlaysWithout
<1>7. /\ T!OwnWithout(out) \in [Player -> [Name -> Ranked \cup {None}]]
      /\ T!OnWithout(out) \in [Player -> [Member -> Ranked \cup {None}]]
      /\ T!TeamsWithout(out) \in [Player -> [Name -> Param \cup {None}]]
      /\ T!PlaysWithout(out) \in [Player -> [Member -> Name \cup {None}]]
  BY DEF T!OwnWithout, T!OnWithout, T!TeamsWithout, T!PlaysWithout, TeamTypes
<1> QED BY <1>4, <1>5, <1>6, <1>7

-----------------------------------------------------------------------------
(* The game, between two ticks *)

LEMMA TeamsReadyKeep ==
  ASSUME TeamsDistinct, TeamsInv, NEW p \in Player, T!GetReady(p) PROVE TeamsInv'
<1>1. /\ phase = "game" /\ phase' = "game" /\ p \notin audience /\ audience' = audience \cup {p}
      /\ \A e \in Ranked : p \notin viewers[e]
      /\ UNCHANGED <<team, known, sent, viewers, refused, stale, pending, update, joined, todo,
                     own, on, freed, turned, teams, playsOn, broken>>
  BY DEF T!GetReady, T!Act, T!state, T!claims, T!client
<1>2. /\ TeamTypes /\ NamesOwned /\ Enlisted /\ TeamClaimsShown /\ TeamRefusedFor /\ broken = {}
      /\ T!Alive' = T!Alive
  BY <1>1 DEF TeamsInv, T!Alive
<1>3. TeamTypes'  BY <1>1, <1>2 DEF TeamTypes
<1>4. (\A n \in Name : own[p][n] = None) /\ \A m \in Member : on[p][m] = None
  BY <1>1, <1>2 DEF TeamTypes, NamesOwned, Enlisted
<1>5. TeamClaimsShown'  BY <1>1, <1>2, <1>4 DEF TeamClaimsShown
<1>6. NamesOwned' /\ Enlisted' /\ TeamRefusedFor' /\ TeamsCurrent'
  BY <1>1, <1>2 DEF NamesOwned, Enlisted, TeamRefusedFor, TeamsCurrent
<1> QED BY <1>1, <1>2, <1>3, <1>5, <1>6 DEF TeamsInv

LEMMA TeamsLeaveKeep ==
  ASSUME TeamsDistinct, TeamsInv, NEW p \in Player, T!Leave(p) PROVE TeamsInv'
<1>1. /\ phase = "game" /\ phase' = "game" /\ p \in audience /\ audience' = audience \ {p}
      /\ teams' = [teams EXCEPT ![p] = [n \in Name |-> None]]
      /\ playsOn' = [playsOn EXCEPT ![p] = [m \in Member |-> None]]
      /\ UNCHANGED <<team, known, sent, viewers, refused, stale, pending, update, joined, todo,
                     own, on, freed, turned, broken>>
  BY DEF T!Leave, T!Act, T!state, T!claims
<1>2. /\ TeamTypes /\ NamesOwned /\ Enlisted /\ TeamClaimsShown /\ TeamRefusedFor /\ broken = {}
      /\ T!Alive' = T!Alive
  BY <1>1 DEF TeamsInv, T!Alive
<1>3. TeamTypes'  BY <1>1, <1>2 DEF TeamTypes
<1>4. TeamClaimsShown'  BY <1>1, <1>2 DEF TeamClaimsShown, TeamTypes
<1>5. NamesOwned' /\ Enlisted' /\ TeamRefusedFor' /\ TeamsCurrent'
  BY <1>1, <1>2 DEF NamesOwned, Enlisted, TeamRefusedFor, TeamsCurrent
<1> QED BY <1>1, <1>2, <1>3, <1>4, <1>5 DEF TeamsInv

(* Teams are given or changed. *)
LEMMA TeamComponentsKeep ==
  ASSUME TeamsDistinct, TeamsInv, phase = "game", phase' = phase,
         team' \in [Ranked -> Banner \cup {None}], \A e \in T!Alive : team'[e] # None,
         UNCHANGED <<audience, T!state, T!claims, T!client>>
  PROVE  TeamsInv'
<1>1. UNCHANGED <<audience, known, sent, viewers, refused, stale, pending, update, joined, todo,
                  own, on, freed, turned, teams, playsOn, broken>>
  BY DEF T!state, T!claims, T!client
<1>2. TeamTypes /\ NamesOwned /\ Enlisted /\ TeamClaimsShown /\ TeamRefusedFor /\ broken = {}
  BY DEF TeamsInv
<1>3. T!Alive \subseteq T!Alive' /\ T!Alive' \subseteq Ranked /\ todo = {}
  BY <1>2 DEF TeamTypes, T!Alive
<1>4. TeamTypes'  BY <1>1, <1>2, <1>3 DEF TeamTypes
<1>5. TeamRefusedFor'
  <2>1. \A e \in T!Alive' \ T!Alive : refused[e] = {}  BY <1>2, <1>3 DEF TeamTypes
  <2> QED BY <1>1, <1>2, <2>1 DEF TeamRefusedFor
<1>6. NamesOwned' /\ Enlisted' /\ TeamClaimsShown' /\ TeamsCurrent'
  BY <1>1, <1>2 DEF NamesOwned, Enlisted, TeamClaimsShown, TeamsCurrent
<1> QED BY <1>1, <1>2, <1>4, <1>5, <1>6 DEF TeamsInv

LEMMA TeamEditKeeps ==
  ASSUME TeamsDistinct, TeamsInv, NEW e \in Ranked, NEW t \in Banner, T!Edit(e, t) PROVE TeamsInv'
<1>1. /\ phase = "game" /\ phase' = phase /\ team' = [team EXCEPT ![e] = t]
      /\ UNCHANGED <<audience, T!state, T!claims, T!client>>
  BY DEF T!Edit, T!Act
<1>2. team' \in [Ranked -> Banner \cup {None}] /\ \A x \in T!Alive : team'[x] # None
  BY <1>1 DEF TeamsInv, TeamTypes, T!Alive, TeamsDistinct
<1> QED BY <1>1, <1>2, TeamComponentsKeep

LEMMA TeamChangesKeep ==
  ASSUME TeamsDistinct, TeamsInv, NEW e \in Ranked,
         \/ \E n \in Name : T!Rename(e, n)
         \/ \E x \in Param : T!Restyle(e, x)
         \/ \E m \in Member : T!Add(e, m) \/ T!Remove(e, m)
         \/ \E A \in SUBSET Player : T!Readdress(e, A)
  PROVE  TeamsInv'
<1>1. e \in T!Alive => team[e] \in Banner  BY DEF TeamsInv, TeamTypes, T!Alive
<1>2. \A t \in Banner :
        /\ \A n \in Name : [t EXCEPT !.name = n] \in Banner
        /\ \A x \in Param : [t EXCEPT !.param = x] \in Banner
        /\ \A m \in Member : /\ [t EXCEPT !.members = @ \cup {m}] \in Banner
                             /\ [t EXCEPT !.members = @ \ {m}] \in Banner
        /\ \A A \in SUBSET Player : [t EXCEPT !.audience = A] \in Banner
  BY DEF Banner
<1>3. \E t \in Banner : T!Edit(e, t)
  BY <1>1, <1>2 DEF T!Rename, T!Restyle, T!Add, T!Remove, T!Readdress
<1> QED BY <1>3, TeamEditKeeps

LEMMA TeamSpawnKeeps ==
  ASSUME TeamsDistinct, TeamsInv, NEW e \in Ranked, NEW n \in Name, NEW M \in SUBSET Member,
         T!Spawn(e, n, M)
  PROVE  TeamsInv'
<1>1. PICK x \in Param :
        team' = [team EXCEPT ![e] = [name |-> n, param |-> x, members |-> M, audience |-> Player]]
  BY DEF T!Spawn
<1> DEFINE t == [name |-> n, param |-> x, members |-> M, audience |-> Player]
<1>2. t \in Banner  BY DEF Banner
<1>3. /\ phase = "game" /\ phase' = phase /\ team' = [team EXCEPT ![e] = t]
      /\ UNCHANGED <<audience, T!state, T!claims, T!client>>
  BY <1>1 DEF T!Spawn, T!Act
<1> HIDE DEF t
<1>4. team' \in [Ranked -> Banner \cup {None}] /\ \A y \in T!Alive : team'[y] # None
  BY <1>2, <1>3 DEF TeamsInv, TeamTypes, T!Alive, TeamsDistinct
<1> QED BY <1>3, <1>4, TeamComponentsKeep

LEMMA TeamForgetKeeps ==
  ASSUME TeamsDistinct, TeamsInv, NEW m \in Member, T!ForgetPlayer(m) PROVE TeamsInv'
<1>1. /\ phase = "game" /\ phase' = phase
      /\ team' = [e \in Ranked |-> IF e \in T!Alive THEN [team[e] EXCEPT !.members = @ \ {m}] ELSE None]
      /\ UNCHANGED <<audience, T!state, T!claims, T!client>>
  BY DEF T!ForgetPlayer, T!Act
<1>2. \A e \in T!Alive : team[e] \in Banner /\ e \in Ranked  BY DEF TeamsInv, TeamTypes, T!Alive
<1>3. \A t \in Banner : [t EXCEPT !.members = @ \ {m}] \in Banner  BY DEF Banner
<1>4. team' \in [Ranked -> Banner \cup {None}] /\ \A e \in T!Alive : team'[e] # None
  BY <1>1, <1>2, <1>3 DEF TeamsDistinct
<1> QED BY <1>1, <1>4, TeamComponentsKeep

LEMMA TeamDespawnKeeps ==
  ASSUME TeamsDistinct, TeamsInv, NEW e \in Ranked, T!Despawn(e) PROVE TeamsInv'
<1> DEFINE out == [x \in Ranked |-> IF x = e THEN viewers[e] ELSE {}]
<1>1. /\ phase = "game" /\ phase' = phase /\ e \in T!Alive
      /\ own' = T!OwnWithout(out) /\ on' = T!OnWithout(out)
      /\ teams' = T!TeamsWithout(out) /\ playsOn' = T!PlaysWithout(out)
      /\ freed' = (freed \/ own' # own) /\ stale' = IF own' # own THEN Ranked ELSE stale
      /\ team' = [team EXCEPT ![e] = None] /\ sent' = [sent EXCEPT ![e] = None]
      /\ viewers' = [viewers EXCEPT ![e] = {}] /\ refused' = [refused EXCEPT ![e] = {}]
      /\ UNCHANGED <<audience, known, pending, update, joined, todo, turned, broken>>
  BY DEF T!Despawn, T!Act
<1>2. /\ TeamTypes /\ NamesOwned /\ Enlisted /\ TeamClaimsShown /\ TeamRefusedFor /\ broken = {}
      /\ todo = {} /\ update = {}
  BY <1>1 DEF TeamsInv, TeamTypes
<1>3. out \in [Ranked -> SUBSET Player] /\ \A x \in Ranked : out[x] \subseteq viewers[x]
  BY <1>2 DEF TeamTypes
<1>4. out[e] = viewers[e] /\ \A x \in Ranked \ {e} : out[x] = {}  OBVIOUS
<1> HIDE DEF out
<1>5. /\ own' \in [Player -> [Name -> Ranked \cup {None}]]
      /\ on' \in [Player -> [Member -> Ranked \cup {None}]]
      /\ teams' \in [Player -> [Name -> Param \cup {None}]]
      /\ playsOn' \in [Player -> [Member -> Name \cup {None}]]
      /\ \A p \in Player, n \in Name :
           IF own[p][n] = e THEN own'[p][n] = None /\ teams'[p][n] = None
           ELSE own'[p][n] = own[p][n] /\ teams'[p][n] = teams[p][n]
      /\ \A p \in Player, m \in Member :
           IF on[p][m] = e THEN on'[p][m] = None /\ (p \in audience => playsOn'[p][m] = None)
           ELSE on'[p][m] = on[p][m] /\ (p \in audience => playsOn'[p][m] = playsOn[p][m])
      /\ \A p \in Player \ audience, m \in Member : playsOn'[p][m] = None
  <2>1. \A p \in Player, n \in Name : own[p][n] # None /\ p \in out[own[p][n]] <=> own[p][n] = e
    BY <1>2, <1>4 DEF TeamTypes, NamesOwned, TeamsDistinct
  <2>2. \A p \in Player, m \in Member : on[p][m] # None /\ p \in out[on[p][m]] <=> on[p][m] = e
    BY <1>2, <1>4 DEF TeamTypes, Enlisted, TeamsDistinct
  <2>3. \A p \in Player, n \in Name :
          IF own[p][n] = e THEN own'[p][n] = None /\ teams'[p][n] = None
          ELSE own'[p][n] = own[p][n] /\ teams'[p][n] = teams[p][n]
    BY <1>1, <1>2, <1>3, <2>1, WithoutOut
  <2>4. \A p \in Player, m \in Member :
          IF on[p][m] = e THEN on'[p][m] = None /\ (p \in audience => playsOn'[p][m] = None)
          ELSE on'[p][m] = on[p][m] /\ (p \in audience => playsOn'[p][m] = playsOn[p][m])
    BY <1>1, <1>2, <1>3, <2>2, WithoutOut
  <2>5. /\ own' \in [Player -> [Name -> Ranked \cup {None}]]
        /\ on' \in [Player -> [Member -> Ranked \cup {None}]]
        /\ teams' \in [Player -> [Name -> Param \cup {None}]]
        /\ playsOn' \in [Player -> [Member -> Name \cup {None}]]
        /\ \A p \in Player \ audience, m \in Member : playsOn'[p][m] = None
    BY <1>1, <1>2, <1>3, WithoutOut
  <2> QED BY <2>3, <2>4, <2>5
<1>6. /\ T!Alive' = T!Alive \ {e} /\ viewers'[e] = {} /\ refused'[e] = {} /\ sent'[e] = None
      /\ \A x \in Ranked \ {e} : /\ viewers'[x] = viewers[x] /\ refused'[x] = refused[x]
                                 /\ sent'[x] = sent[x]
  BY <1>1, <1>2 DEF TeamTypes, T!Alive
<1>7. TeamTypes'
  <2>1. stale' \subseteq Ranked /\ freed' \in BOOLEAN  BY <1>1, <1>2 DEF TeamTypes
  <2>2. /\ team' \in [Ranked -> Banner \cup {None}] /\ sent' \in [Ranked -> Sheet \cup {None}]
        /\ viewers' \in [Ranked -> SUBSET Player] /\ refused' \in [Ranked -> SUBSET Player]
    BY <1>1, <1>2 DEF TeamTypes
  <2> QED BY <1>1, <1>2, <1>5, <1>6, <2>1, <2>2 DEF TeamTypes
<1>8. NamesOwned'  BY <1>1, <1>2, <1>5, <1>6 DEF TeamTypes, NamesOwned
<1>9. Enlisted'
  <2>1. ASSUME NEW p \in Player, NEW m \in Member, on'[p][m] # None
        PROVE  p \in viewers'[on'[p][m]] /\ m \in sent'[on'[p][m]].members
    <3>1. on[p][m] # e /\ on'[p][m] = on[p][m] /\ on[p][m] \in Ranked
      BY <1>2, <1>5, <2>1 DEF TeamTypes
    <3> QED BY <1>2, <1>6, <2>1, <3>1 DEF Enlisted
  <2>2. ASSUME NEW x \in Ranked, NEW p \in viewers'[x], NEW m \in sent'[x].members \ joined[x]
        PROVE  on'[p][m] = x \/ <<p, x, m>> \in turned
    <3>1. x # e /\ p \in viewers[x] /\ m \in sent[x].members \ joined[x]  BY <1>6, <2>2
    <3>2. sent[x] # None /\ p \in Player  BY <1>2, <3>1 DEF TeamTypes
    <3>3. m \in Member  BY <1>2, <3>1, <3>2 DEF TeamTypes, Sheet
    <3> QED BY <1>2, <1>5, <3>1, <3>2, <3>3 DEF Enlisted
  <2> QED BY <1>1, <2>1, <2>2 DEF Enlisted
<1>10. TeamClaimsShown'
  <2> SUFFICES ASSUME NEW p \in Player
               PROVE  /\ p \notin audience => /\ \A n \in Name : teams'[p][n] = None
                                              /\ \A m \in Member : playsOn'[p][m] = None
                      /\ p \in audience =>
                           /\ \A n \in Name :
                                IF own'[p][n] = None THEN teams'[p][n] = None
                                ELSE teams'[p][n] # None /\ teams'[p][n] = sent'[own'[p][n]].param
                           /\ \A m \in Member :
                                playsOn'[p][m] = IF on'[p][m] = None THEN None ELSE known[on'[p][m]]
    BY <1>1, <1>2 DEF TeamClaimsShown
  <2>1. p \notin audience => /\ \A n \in Name : teams'[p][n] = None
                             /\ \A m \in Member : playsOn'[p][m] = None
    BY <1>2, <1>5 DEF TeamClaimsShown
  <2>2. ASSUME p \in audience, NEW n \in Name
        PROVE  IF own'[p][n] = None THEN teams'[p][n] = None
               ELSE teams'[p][n] # None /\ teams'[p][n] = sent'[own'[p][n]].param
    <3>1. CASE own[p][n] = e  BY <1>5, <3>1
    <3>2. CASE own[p][n] # e
      <4>1. own'[p][n] = own[p][n] /\ teams'[p][n] = teams[p][n]  BY <1>5, <3>2
      <4>2. own[p][n] # None => sent'[own[p][n]] = sent[own[p][n]]
        BY <1>2, <1>6, <3>2 DEF TeamTypes
      <4> QED BY <1>2, <2>2, <4>1, <4>2 DEF TeamClaimsShown
    <3> QED BY <3>1, <3>2
  <2>3. ASSUME p \in audience, NEW m \in Member
        PROVE  playsOn'[p][m] = IF on'[p][m] = None THEN None ELSE known[on'[p][m]]
    <3>1. playsOn[p][m] = IF on[p][m] = None THEN None ELSE known[on[p][m]]
      BY <1>2, <2>3 DEF TeamClaimsShown
    <3>2. CASE on[p][m] = e  BY <1>5, <2>3, <3>2
    <3>3. CASE on[p][m] # e  BY <1>5, <2>3, <3>1, <3>3
    <3> QED BY <3>2, <3>3
  <2> QED BY <2>1, <2>2, <2>3
<1>11. TeamRefusedFor'
  <2>1. CASE own' # own  BY <1>1, <1>2, <2>1 DEF TeamRefusedFor, T!Alive
  <2>2. CASE own' = own  BY <1>1, <1>2, <1>6, <2>2 DEF TeamRefusedFor
  <2> QED BY <2>1, <2>2
<1>12. TeamsCurrent' /\ broken' = {}  BY <1>1, <1>2 DEF TeamsCurrent
<1> QED BY <1>7, <1>8, <1>9, <1>10, <1>11, <1>12 DEF TeamsInv

-----------------------------------------------------------------------------
(* sync_teams *)

LEMMA TeamLeavesKeep == ASSUME TeamsDistinct, TeamsInv, T!Leaves PROVE TeamsInv'
<1> DEFINE out == [e \in Ranked |->
                     IF e \notin T!Alive THEN {}
                     ELSE IF T!Renamed(e) THEN viewers[e] ELSE viewers[e] \ T!Desired(e)]
           kept == [e \in Ranked |->
                     IF e \in T!Alive /\ (T!Renamed(e) \/ e \in stale) THEN {} ELSE refused[e]]
           quit(p) == {m \in Member : \E e \in T!Alive :
                         p \in viewers[e] \ out[e] /\ m \in T!Left(e) /\ on[p][m] = e}
<1>1. /\ phase = "game" /\ phase' = "joins"
      /\ own' = T!OwnWithout(out)
      /\ on' = [p \in Player |-> [m \in Member |->
                  IF m \in quit(p) THEN None ELSE T!OnWithout(out)[p][m]]]
      /\ teams' = T!TeamsWithout(out)
      /\ playsOn' = [p \in Player |-> [m \in Member |->
                       IF m \in quit(p) THEN None ELSE T!PlaysWithout(out)[p][m]]]
      /\ broken' = broken \cup {p \in audience : \E m \in quit(p) :
                     playsOn[p][m] # team[on[p][m]].name}
      /\ viewers' = [e \in Ranked |-> viewers[e] \ out[e]]
      /\ refused' = kept
      /\ pending' = {e \in T!Alive :
           (IF T!Renamed(e) THEN {} ELSE viewers[e]) \cup kept[e] # T!Desired(e)}
      /\ joined' = [e \in Ranked |-> IF e \in T!Alive THEN T!Came(e) ELSE joined[e]]
      /\ update' = {e \in T!Alive : ~T!Renamed(e) /\ sent[e] # None /\ sent[e].param # team[e].param}
      /\ sent' = [e \in Ranked |->
           IF e \in T!Alive THEN [param |-> team[e].param, members |-> team[e].members] ELSE sent[e]]
      /\ known' = [e \in Ranked |-> IF e \in T!Alive THEN team[e].name ELSE known[e]]
      /\ freed' = (own' # own) /\ stale' = IF freed' THEN Ranked ELSE stale
      /\ todo' = T!Alive /\ UNCHANGED <<audience, team, turned>>
  BY DEF T!Leaves
<1>2. /\ TeamTypes /\ NamesOwned /\ Enlisted /\ TeamClaimsShown /\ TeamRefusedFor /\ broken = {}
      /\ todo = {} /\ update = {} /\ \A e \in Ranked : joined[e] = {}
  BY <1>1 DEF TeamsInv, TeamTypes
<1>3. /\ T!Alive' = T!Alive /\ T!Alive \subseteq Ranked /\ \A e \in T!Alive : team[e] \in Banner
      /\ \A e \in Ranked : viewers[e] # {} => e \in T!Alive /\ sent[e] \in Sheet
      /\ \A e : T!Desired(e)' = T!Desired(e)
  BY <1>1, <1>2 DEF T!Alive, TeamTypes, T!Desired
<1>4. out \in [Ranked -> SUBSET Player] /\ \A e \in Ranked : out[e] \subseteq viewers[e]
  BY <1>2 DEF TeamTypes
<1>5. /\ \A e \in T!Alive : T!Renamed(e) => out[e] = viewers[e]
      /\ \A e \in T!Alive : ~T!Renamed(e) => out[e] = viewers[e] \ T!Desired(e)
      /\ kept \in [Ranked -> SUBSET Player]
      /\ \A e \in Ranked : kept[e] \subseteq refused[e]
      /\ \A e \in T!Alive : kept[e] # {} => ~T!Renamed(e) /\ e \notin stale
  BY <1>2, <1>3 DEF TeamTypes
(* Who stays was not renamed: its name and the members that stay are as sent. *)
<1>6. ASSUME NEW e \in Ranked, NEW p \in viewers[e] \ out[e]
      PROVE  /\ e \in T!Alive /\ ~T!Renamed(e) /\ p \in T!Desired(e) /\ p \in Player
             /\ sent[e] \in Sheet /\ sent[e] # None /\ known[e] = team[e].name /\ known'[e] = known[e]
             /\ T!Left(e) = sent[e].members \ team[e].members
             /\ joined'[e] = team[e].members \ sent[e].members
             /\ sent'[e].members = team[e].members /\ sent'[e].param = team[e].param
  <2>1. e \in T!Alive /\ sent[e] \in Sheet /\ sent[e] # None  BY <1>3 DEF TeamsDistinct
  <2>2. ~T!Renamed(e) /\ p \in T!Desired(e)  BY <1>5, <2>1
  <2>3. p \in Player  BY <1>2 DEF TeamTypes
  <2>4. known[e] = team[e].name /\ known'[e] = known[e]  BY <1>1, <2>1, <2>2 DEF T!Renamed
  <2>5. T!Left(e) = sent[e].members \ team[e].members /\ joined'[e] = team[e].members \ sent[e].members
    BY <1>1, <2>1, <2>2 DEF T!Left, T!Came
  <2> QED BY <1>1, <2>1, <2>2, <2>3, <2>4, <2>5
<1> HIDE DEF out, kept
<1>7. \A p \in Player, n \in Name :
        IF own[p][n] # None /\ p \in out[own[p][n]]
        THEN own'[p][n] = None /\ teams'[p][n] = None
        ELSE own'[p][n] = own[p][n] /\ teams'[p][n] = teams[p][n]
  BY <1>1, <1>2, <1>4, WithoutOut
<1>8. ASSUME NEW p \in Player, NEW m \in Member
      PROVE  /\ m \in quit(p) <=> /\ on[p][m] # None /\ p \in viewers[on[p][m]] \ out[on[p][m]]
                                  /\ m \in T!Left(on[p][m])
             /\ IF on[p][m] # None /\ (p \in out[on[p][m]] \/ m \in T!Left(on[p][m]))
                THEN on'[p][m] = None /\ (p \in audience => playsOn'[p][m] = None)
                ELSE on'[p][m] = on[p][m] /\ (p \in audience => playsOn'[p][m] = playsOn[p][m])
             /\ p \notin audience => playsOn'[p][m] = None
  <2>1. on[p][m] \in Ranked \cup {None} /\ (on[p][m] # None => p \in viewers[on[p][m]] /\ on[p][m] \in T!Alive)
    BY <1>2, <1>3 DEF TeamTypes, Enlisted
  <2>2. m \in quit(p) <=> /\ on[p][m] # None /\ p \in viewers[on[p][m]] \ out[on[p][m]]
                          /\ m \in T!Left(on[p][m])
    BY <1>3, <2>1 DEF TeamsDistinct
  <2>3. /\ on'[p][m] = IF m \in quit(p) THEN None ELSE T!OnWithout(out)[p][m]
        /\ playsOn'[p][m] = IF m \in quit(p) THEN None ELSE T!PlaysWithout(out)[p][m]
    BY <1>1
  <2>4. /\ IF on[p][m] # None /\ p \in out[on[p][m]]
           THEN T!OnWithout(out)[p][m] = None /\ (p \in audience => T!PlaysWithout(out)[p][m] = None)
           ELSE /\ T!OnWithout(out)[p][m] = on[p][m]
                /\ p \in audience => T!PlaysWithout(out)[p][m] = playsOn[p][m]
        /\ p \notin audience => T!PlaysWithout(out)[p][m] = None
    BY <1>2, <1>4, WithoutOut
  <2> HIDE DEF quit
  <2> QED BY <2>1, <2>2, <2>3, <2>4
<1>9. /\ own' \in [Player -> [Name -> Ranked \cup {None}]]
      /\ on' \in [Player -> [Member -> Ranked \cup {None}]]
      /\ teams' \in [Player -> [Name -> Param \cup {None}]]
      /\ playsOn' \in [Player -> [Member -> Name \cup {None}]]
  <2>1. /\ T!OwnWithout(out) \in [Player -> [Name -> Ranked \cup {None}]]
        /\ T!OnWithout(out) \in [Player -> [Member -> Ranked \cup {None}]]
        /\ T!TeamsWithout(out) \in [Player -> [Name -> Param \cup {None}]]
        /\ T!PlaysWithout(out) \in [Player -> [Member -> Name \cup {None}]]
    BY <1>2, <1>4, WithoutOut
  <2> HIDE DEF quit
  <2> QED BY <1>1, <2>1
<1>10. broken' = {}
  <2> SUFFICES ASSUME NEW p \in audience, NEW m \in quit(p) PROVE playsOn[p][m] = team[on[p][m]].name
    BY <1>1, <1>2
  <2>1. m \in Member /\ p \in Player  BY <1>2 DEF TeamTypes
  <2>2. on[p][m] # None /\ p \in viewers[on[p][m]] \ out[on[p][m]] /\ on[p][m] \in Ranked
    BY <1>2, <1>8, <2>1 DEF TeamTypes
  <2>3. playsOn[p][m] = known[on[p][m]]  BY <1>2, <2>1, <2>2 DEF TeamClaimsShown
  <2> QED BY <1>6, <2>2, <2>3
<1> HIDE DEF quit
<1>11. TeamTypes'
  <2>1. \A e \in T!Alive : [param |-> team[e].param, members |-> team[e].members] \in Sheet
    BY <1>3 DEF Banner, Sheet
  <2>2. sent' \in [Ranked -> Sheet \cup {None}]  BY <1>1, <1>2, <2>1 DEF TeamTypes
  <2>3. known' \in [Ranked -> Name]  BY <1>1, <1>2, <1>3 DEF TeamTypes, Banner
  <2>4. joined' \in [Ranked -> SUBSET Member]
    <3>1. \A e \in T!Alive : T!Came(e) \subseteq Member  BY <1>3 DEF T!Came, Banner
    <3> QED BY <1>1, <1>2, <3>1 DEF TeamTypes
  <2>5. viewers' \in [Ranked -> SUBSET Player] /\ refused' \in [Ranked -> SUBSET Player]
    BY <1>1, <1>2, <1>5 DEF TeamTypes
  <2>6. stale' \subseteq Ranked /\ freed' \in BOOLEAN  BY <1>1, <1>2 DEF TeamTypes
  <2>7. \A e \in Ranked \ T!Alive : sent'[e] = None /\ joined'[e] = {}  BY <1>1, <1>2 DEF TeamTypes
  <2>8. \A e \in Ranked : sent'[e] = None => viewers'[e] = {} /\ refused'[e] = {}
    <3> SUFFICES ASSUME NEW e \in Ranked, sent'[e] = None PROVE viewers'[e] = {} /\ refused'[e] = {}
      OBVIOUS
    <3>1. e \notin T!Alive  BY <1>1, <2>1 DEF TeamsDistinct
    <3>2. viewers[e] = {} /\ refused[e] = {}  BY <1>2, <3>1 DEF TeamTypes
    <3> QED BY <1>1, <1>5, <3>2
  <2> QED BY <1>1, <1>2, <1>3, <1>9, <2>2, <2>3, <2>4, <2>5, <2>6, <2>7, <2>8 DEF TeamTypes
<1>12. NamesOwned'
  <2>1. ASSUME NEW e \in Ranked, NEW p \in viewers'[e] PROVE own'[p][known'[e]] = e
    <3>1. p \in viewers[e] \ out[e]  BY <1>1, <2>1
    <3>2. p \in Player /\ known'[e] = known[e] /\ known[e] \in Name  BY <1>2, <1>6, <3>1 DEF TeamTypes
    <3>3. own[p][known[e]] = e  BY <1>2, <3>1 DEF NamesOwned
    <3> QED BY <1>7, <3>1, <3>2, <3>3 DEF TeamsDistinct
  <2>2. ASSUME NEW p \in Player, NEW n \in Name, own'[p][n] # None
        PROVE  p \in viewers'[own'[p][n]] /\ known'[own'[p][n]] = n
    <3>1. own'[p][n] = own[p][n] /\ own[p][n] # None /\ p \notin out[own[p][n]]  BY <1>7, <2>2
    <3>2. own[p][n] \in Ranked /\ p \in viewers[own[p][n]] /\ known[own[p][n]] = n
      BY <1>2, <3>1 DEF TeamTypes, NamesOwned
    <3> QED BY <1>1, <1>6, <3>1, <3>2
  <2> QED BY <2>1, <2>2 DEF NamesOwned
<1>13. Enlisted'
  <2>1. ASSUME NEW p \in Player, NEW m \in Member, on'[p][m] # None
        PROVE  p \in viewers'[on'[p][m]] /\ m \in sent'[on'[p][m]].members
    <3>1. /\ on'[p][m] = on[p][m] /\ on[p][m] # None /\ p \notin out[on[p][m]]
          /\ m \notin T!Left(on[p][m])
      BY <1>8, <2>1
    <3>2. on[p][m] \in Ranked /\ p \in viewers[on[p][m]] /\ m \in sent[on[p][m]].members
      BY <1>2, <3>1 DEF TeamTypes, Enlisted
    <3> QED BY <1>1, <1>6, <3>1, <3>2
  <2>2. ASSUME NEW e \in Ranked, NEW p \in viewers'[e], NEW m \in sent'[e].members \ joined'[e]
        PROVE  on'[p][m] = e \/ <<p, e, m>> \in turned
    <3>1. p \in viewers[e] \ out[e]  BY <1>1, <2>2
    <3>2. m \in sent[e].members /\ m \in team[e].members /\ p \in Player /\ m \notin T!Left(e)
      BY <1>6, <2>2, <3>1
    <3>3. m \in Member  BY <1>6, <3>1, <3>2 DEF Sheet
    <3>4. on[p][m] = e \/ <<p, e, m>> \in turned  BY <1>2, <3>1, <3>2 DEF Enlisted
    <3> QED BY <1>8, <3>1, <3>2, <3>3, <3>4
  <2> QED BY <1>1, <2>1, <2>2 DEF Enlisted
<1>14. TeamClaimsShown'
  <2>1. ASSUME NEW p \in Player, p \notin audience
        PROVE  /\ \A n \in Name : teams'[p][n] = None
               /\ \A m \in Member : playsOn'[p][m] = None
    BY <1>2, <1>7, <1>8, <2>1 DEF TeamClaimsShown
  <2>2. ASSUME NEW p \in audience, p \in Player, NEW n \in Name
        PROVE  IF own'[p][n] = None THEN teams'[p][n] = None
               ELSE teams'[p][n] # None /\ (own'[p][n] \notin update' =>
                                              teams'[p][n] = sent'[own'[p][n]].param)
    <3>1. CASE own'[p][n] = None  BY <1>2, <1>7, <2>2, <3>1 DEF TeamClaimsShown
    <3>2. CASE own'[p][n] # None
      <4> DEFINE e == own[p][n]
      <4>1. own'[p][n] = e /\ e # None /\ p \notin out[e] /\ teams'[p][n] = teams[p][n]
        BY <1>7, <2>2, <3>2
      <4>2. e \in Ranked /\ p \in viewers[e] \ out[e]  BY <1>2, <2>2, <4>1 DEF TeamTypes, NamesOwned
      <4>3. teams[p][n] # None /\ teams[p][n] = sent[e].param
        BY <1>2, <2>2, <4>1 DEF TeamClaimsShown
      <4> HIDE DEF e
      <4>4. e \notin update' => sent'[e].param = sent[e].param  BY <1>1, <1>6, <4>2
      <4> QED BY <3>2, <4>1, <4>3, <4>4
    <3> QED BY <3>1, <3>2
  <2>3. ASSUME NEW p \in audience, p \in Player, NEW m \in Member
        PROVE  playsOn'[p][m] = IF on'[p][m] = None THEN None ELSE known'[on'[p][m]]
    <3>1. CASE on'[p][m] = None  BY <1>2, <1>8, <2>3, <3>1 DEF TeamClaimsShown
    <3>2. CASE on'[p][m] # None
      <4>1. on'[p][m] = on[p][m] /\ playsOn'[p][m] = playsOn[p][m] /\ p \notin out[on[p][m]]
        BY <1>8, <2>3, <3>2
      <4>2. on[p][m] \in Ranked /\ p \in viewers[on[p][m]] \ out[on[p][m]]
        BY <1>2, <2>3, <3>2, <4>1 DEF TeamTypes, Enlisted
      <4>3. known'[on[p][m]] = known[on[p][m]]  BY <1>6, <4>2
      <4> QED BY <1>2, <2>3, <3>2, <4>1, <4>3 DEF TeamClaimsShown
    <3> QED BY <3>1, <3>2
  <2> QED BY <1>1, <2>1, <2>2, <2>3 DEF TeamClaimsShown
<1>15. TeamRefusedFor'
  <2>1. CASE own' # own
    <3>1. stale' = Ranked /\ freed' = TRUE  BY <1>1, <2>1
    <3> QED BY <1>3, <3>1 DEF TeamRefusedFor
  <2>2. CASE own' = own
    <3> SUFFICES ASSUME NEW e \in T!Alive, NEW p \in kept[e] PROVE own[p][known'[e]] \notin {None, e}
      BY <1>1, <1>3, <2>2 DEF TeamRefusedFor
    <3>1. ~T!Renamed(e) /\ e \notin stale /\ p \in refused[e]  BY <1>3, <1>5
    <3>2. sent[e] # None /\ known'[e] = known[e]  BY <1>1, <1>2, <1>3, <3>1 DEF TeamTypes, T!Renamed
    <3> QED BY <1>2, <3>1, <3>2 DEF TeamRefusedFor
  <2> QED BY <2>1, <2>2
<1>16. TeamsCurrent'
  <2> SUFFICES ASSUME NEW e \in T!Alive
               PROVE  /\ known'[e] = team[e].name
                      /\ sent'[e] = [param |-> team[e].param, members |-> team[e].members]
                      /\ joined'[e] \subseteq team[e].members /\ viewers'[e] \subseteq T!Desired(e)
                      /\ e \notin pending' => viewers'[e] \cup refused'[e] = T!Desired(e)
    BY <1>1, <1>3 DEF TeamsCurrent
  <2>1. joined'[e] \subseteq team[e].members /\ viewers'[e] \subseteq T!Desired(e)
    BY <1>1, <1>3, <1>6 DEF T!Came
  <2>2. ASSUME e \notin pending' PROVE viewers'[e] \cup refused'[e] = T!Desired(e)
    <3>1. (IF T!Renamed(e) THEN {} ELSE viewers[e]) \cup kept[e] = T!Desired(e)  BY <1>1, <2>2
    <3>2. viewers'[e] = IF T!Renamed(e) THEN {} ELSE viewers[e] \cap T!Desired(e)  BY <1>1, <1>3, <1>5
    <3> QED BY <1>1, <3>1, <3>2
  <2> QED BY <1>1, <1>3, <2>1, <2>2
<1> QED BY <1>10, <1>11, <1>12, <1>13, <1>14, <1>15, <1>16 DEF TeamsInv

LEMMA TeamJoinsKeep ==
  ASSUME TeamsDistinct, TeamsInv, NEW e \in Ranked, T!Joins(e) PROVE TeamsInv'
<1> DEFINE n == team[e].name
           new == IF e \in pending THEN T!Desired(e) \ (viewers[e] \cup refused[e]) ELSE {}
           win == {p \in new : own[p][n] \in {None, e}}
           asks(p) == IF p \in viewers[e] THEN joined[e] ELSE IF p \in win THEN sent[e].members ELSE {}
           gets(p) == T!Mine(e, p, asks(p))
<1>1. /\ phase = "joins" /\ phase' = phase /\ e \in todo /\ todo' = todo \ {e}
      /\ own' = [p \in Player |-> IF p \in win THEN [own[p] EXCEPT ![n] = e] ELSE own[p]]
      /\ on' = [p \in Player |-> [m \in Member |-> IF m \in gets(p) THEN e ELSE on[p][m]]]
      /\ turned' = turned \cup
           UNION {{<<p, e, m>> : m \in {x \in asks(p) \ gets(p) : p \in viewers[on[p][x]]}} : p \in Player}
      /\ viewers' = [viewers EXCEPT ![e] = @ \cup win]
      /\ refused' = [refused EXCEPT ![e] =
           IF e \in pending THEN (@ \cap T!Desired(e)) \cup (new \ win) ELSE @]
      /\ stale' = T!Marked(e)
      /\ teams' = [p \in Player |-> [teams[p] EXCEPT ![n] =
           IF p \in win \/ (p \in viewers[e] /\ e \in update /\ @ # None) THEN team[e].param ELSE @]]
      /\ playsOn' = [p \in Player |-> [m \in Member |-> IF m \in gets(p) THEN n ELSE playsOn[p][m]]]
      /\ broken' = broken \cup {p \in win : teams[p][n] # None}
                          \cup {p \in viewers[e] : gets(p) # {} /\ teams[p][n] = None}
      /\ joined' = [joined EXCEPT ![e] = {}]
      /\ update' = update \ {e} /\ pending' = pending \ {e}
      /\ UNCHANGED <<audience, team, known, sent, freed>>
  BY DEF T!Joins
<1>2. TeamTypes /\ NamesOwned /\ Enlisted /\ TeamClaimsShown /\ TeamRefusedFor /\ TeamsCurrent /\ broken = {}
  BY DEF TeamsInv
<1>3. /\ T!Alive' = T!Alive /\ T!Alive \subseteq Ranked /\ e \in T!Alive /\ team[e] \in Banner
      /\ \A x : T!Desired(x)' = T!Desired(x) /\ T!Desired(x) \subseteq audience
      /\ audience \subseteq Player
  BY <1>1, <1>2 DEF T!Alive, TeamTypes, T!Desired
<1>4. /\ n \in Name /\ n = known[e] /\ sent[e] = [param |-> team[e].param, members |-> team[e].members]
      /\ team[e].param \in Param /\ team[e].param # None /\ team[e].members \subseteq Member
      /\ sent[e].param = team[e].param /\ sent[e].members = team[e].members
      /\ joined[e] \subseteq team[e].members /\ viewers[e] \subseteq T!Desired(e)
      /\ e \notin pending => viewers[e] \cup refused[e] = T!Desired(e)
  BY <1>1, <1>2, <1>3 DEF TeamsCurrent, Banner, TeamsDistinct
<1>5. \A p \in viewers[e] : own[p][n] = e  BY <1>2, <1>4 DEF NamesOwned
<1>6. /\ new \subseteq T!Desired(e) /\ new \cap (viewers[e] \cup refused[e]) = {}
      /\ win \subseteq new /\ win \subseteq audience
      /\ \A p \in win : own[p][n] = None
      /\ \A p \in new \ win : own[p][n] \notin {None, e}
      /\ e \notin pending => new = {}
      /\ e \in pending => new = T!Desired(e) \ (viewers[e] \cup refused[e])
  <2>1. \A p \in new : p \in Player /\ p \notin viewers[e]  BY <1>3
  <2>2. \A p \in new : own[p][n] # e  BY <1>2, <1>3, <1>4, <2>1 DEF NamesOwned, TeamsDistinct
  <2> QED BY <1>3, <2>2
<1>7. \A p, m : m \in gets(p) <=> m \in asks(p) /\ on[p][m] \in {None, e}  BY DEF T!Mine
<1>8. /\ \A p : asks(p) \subseteq team[e].members
      /\ \A p : asks(p) # {} => p \in viewers[e] \cup win
      /\ \A p \in viewers[e] : asks(p) = joined[e]
      /\ \A p \in win : asks(p) = team[e].members
  BY <1>4, <1>6
<1> HIDE DEF new, win, asks, gets, n
<1>9. /\ viewers'[e] = viewers[e] \cup win /\ \A x \in Ranked \ {e} : viewers'[x] = viewers[x]
      /\ viewers' \in [Ranked -> SUBSET Player]
      /\ refused'[e] = IF e \in pending THEN (refused[e] \cap T!Desired(e)) \cup (new \ win) ELSE refused[e]
      /\ \A x \in Ranked \ {e} : refused'[x] = refused[x]
      /\ refused' \in [Ranked -> SUBSET Player]
      /\ joined'[e] = {} /\ \A x \in Ranked \ {e} : joined'[x] = joined[x]
      /\ joined' \in [Ranked -> SUBSET Member]
  <2>1. win \subseteq Player /\ new \subseteq Player  BY <1>3, <1>6
  <2>2. viewers' = [viewers EXCEPT ![e] = viewers[e] \cup win]  BY <1>1
  <2>3. refused' = [refused EXCEPT ![e] =
          IF e \in pending THEN (refused[e] \cap T!Desired(e)) \cup (new \ win) ELSE refused[e]]
    BY <1>1
  <2>4. /\ viewers \in [Ranked -> SUBSET Player] /\ refused \in [Ranked -> SUBSET Player]
        /\ joined \in [Ranked -> SUBSET Member]
    BY <1>2 DEF TeamTypes
  <2> QED BY <1>1, <2>1, <2>2, <2>3, <2>4
<1>10. /\ own' \in [Player -> [Name -> Ranked \cup {None}]]
       /\ \A p \in Player, k \in Name : own'[p][k] = IF p \in win /\ k = n THEN e ELSE own[p][k]
  <2>1. own \in [Player -> [Name -> Ranked \cup {None}]]  BY <1>2 DEF TeamTypes
  <2> QED BY <1>1, <1>4, <2>1
<1>11. /\ on' \in [Player -> [Member -> Ranked \cup {None}]]
       /\ playsOn' \in [Player -> [Member -> Name \cup {None}]]
       /\ \A p \in Player, m \in Member :
            /\ on'[p][m] = IF m \in gets(p) THEN e ELSE on[p][m]
            /\ playsOn'[p][m] = IF m \in gets(p) THEN n ELSE playsOn[p][m]
  <2>1. /\ on \in [Player -> [Member -> Ranked \cup {None}]]
        /\ playsOn \in [Player -> [Member -> Name \cup {None}]]
    BY <1>2 DEF TeamTypes
  <2> QED BY <1>1, <1>4, <2>1
<1>12. /\ teams' \in [Player -> [Name -> Param \cup {None}]]
       /\ \A p \in Player, k \in Name : teams'[p][k] =
            IF k = n /\ (p \in win \/ (p \in viewers[e] /\ e \in update /\ teams[p][n] # None))
            THEN team[e].param ELSE teams[p][k]
  <2>1. teams \in [Player -> [Name -> Param \cup {None}]]  BY <1>2 DEF TeamTypes
  <2> QED BY <1>1, <1>4, <2>1
<1>13. /\ turned \subseteq turned'
       /\ \A p \in Player : \A m \in asks(p) \ gets(p) :
            p \in viewers[on[p][m]] => <<p, e, m>> \in turned'
  BY <1>1
<1>14. stale' \subseteq Ranked /\ \A x \in Ranked \ {e} : x \in stale' <=> x \in stale
  BY <1>1, <1>2 DEF T!Marked, TeamTypes
<1>15. TeamTypes'
  <2>1. sent[e] \in Sheet  BY <1>4 DEF Sheet
  <2>2. \A x \in Ranked : sent[x] = None => viewers'[x] = {} /\ refused'[x] = {}
    <3> SUFFICES ASSUME NEW x \in Ranked, sent[x] = None PROVE viewers'[x] = {} /\ refused'[x] = {}
      OBVIOUS
    <3>1. x # e  BY <2>1 DEF TeamsDistinct
    <3> QED BY <1>2, <1>9, <3>1 DEF TeamTypes
  <2>3. todo' \subseteq T!Alive /\ pending' \subseteq todo' /\ update' \subseteq todo'
    BY <1>1, <1>2 DEF TeamTypes
  <2>4. \A x \in Ranked \ todo' : joined'[x] = {}  BY <1>1, <1>2, <1>9 DEF TeamTypes
  <2> QED BY <1>1, <1>2, <1>3, <1>9, <1>10, <1>11, <1>12, <1>14, <2>2, <2>3, <2>4 DEF TeamTypes
<1>16. NamesOwned'
  <2>1. ASSUME NEW x \in Ranked, NEW p \in viewers'[x] PROVE own'[p][known[x]] = x
    <3>1. p \in Player /\ known[x] \in Name  BY <1>2, <1>9 DEF TeamTypes
    <3>2. CASE p \in viewers[x]
      <4>1. own[p][known[x]] = x  BY <1>2, <3>2 DEF NamesOwned
      <4> QED BY <1>6, <1>10, <3>1, <4>1 DEF TeamsDistinct
    <3>3. CASE x = e /\ p \in win  BY <1>4, <1>10, <3>1, <3>3
    <3> QED BY <1>9, <2>1, <3>2, <3>3
  <2>2. ASSUME NEW p \in Player, NEW k \in Name, own'[p][k] # None
        PROVE  p \in viewers'[own'[p][k]] /\ known[own'[p][k]] = k
    <3>1. CASE p \in win /\ k = n  BY <1>4, <1>9, <1>10, <3>1
    <3>2. CASE ~(p \in win /\ k = n)
      <4>1. own'[p][k] = own[p][k] /\ own[p][k] \in Ranked
        BY <1>2, <1>10, <2>2, <3>2 DEF TeamTypes
      <4> QED BY <1>2, <1>9, <2>2, <4>1 DEF NamesOwned
    <3> QED BY <3>1, <3>2
  <2> QED BY <1>1, <2>1, <2>2 DEF NamesOwned
<1>17. Enlisted'
  <2>1. ASSUME NEW p \in Player, NEW m \in Member, on'[p][m] # None
        PROVE  p \in viewers'[on'[p][m]] /\ m \in sent[on'[p][m]].members
    <3>1. CASE m \in gets(p)  BY <1>4, <1>7, <1>8, <1>9, <1>11, <3>1
    <3>2. CASE m \notin gets(p)
      <4>1. on'[p][m] = on[p][m] /\ on[p][m] \in Ranked  BY <1>2, <1>11, <2>1, <3>2 DEF TeamTypes
      <4> QED BY <1>2, <1>9, <2>1, <4>1 DEF Enlisted
    <3> QED BY <3>1, <3>2
  <2>2. ASSUME NEW x \in Ranked, NEW p \in viewers'[x], NEW m \in sent[x].members \ joined'[x]
        PROVE  on'[p][m] = x \/ <<p, x, m>> \in turned'
    <3>1. p \in Player  BY <1>9
    <3>2. m \in Member
      <4>1. sent[x] \in Sheet
        <5>1. CASE x = e  BY <1>4, <5>1 DEF Sheet
        <5>2. CASE x # e  BY <1>2, <1>9, <2>2, <5>2 DEF TeamTypes
        <5> QED BY <5>1, <5>2
      <4> QED BY <2>2, <4>1 DEF Sheet
    <3>3. CASE p \in viewers[x] /\ m \notin joined[x]
      <4>1. on[p][m] = x \/ <<p, x, m>> \in turned  BY <1>2, <2>2, <3>3 DEF Enlisted
      <4>2. on[p][m] = x => on'[p][m] = x  BY <1>7, <1>11, <3>1, <3>2 DEF TeamsDistinct
      <4> QED BY <1>13, <4>1, <4>2
    <3>4. CASE x = e /\ m \in asks(p)
      <4>1. CASE m \in gets(p)  BY <1>11, <3>1, <3>2, <3>4, <4>1
      <4>2. CASE m \notin gets(p)
        <5>1. on[p][m] # None  BY <1>7, <3>4, <4>2
        <5>2. p \in viewers[on[p][m]]  BY <1>2, <3>1, <3>2, <5>1 DEF Enlisted
        <5> QED BY <1>13, <3>1, <3>4, <4>2, <5>2
      <4> QED BY <4>1, <4>2
    <3> QED BY <1>4, <1>8, <1>9, <2>2, <3>3, <3>4
  <2> QED BY <1>1, <2>1, <2>2 DEF Enlisted
<1>18. TeamClaimsShown'
  <2>1. ASSUME NEW p \in Player, p \notin audience
        PROVE  /\ \A k \in Name : teams'[p][k] = None
               /\ \A m \in Member : playsOn'[p][m] = None
    <3>1. p \notin viewers[e] /\ p \notin win  BY <1>3, <1>4, <1>6, <2>1
    <3>2. \A m : m \notin gets(p)  BY <1>7, <1>8, <3>1
    <3>3. \A k \in Name : teams'[p][k] = teams[p][k]  BY <1>12, <3>1
    <3>4. \A m \in Member : playsOn'[p][m] = playsOn[p][m]  BY <1>11, <3>2
    <3> QED BY <1>2, <2>1, <3>3, <3>4 DEF TeamClaimsShown
  <2>2. ASSUME NEW p \in audience, p \in Player, NEW k \in Name
        PROVE  IF own'[p][k] = None THEN teams'[p][k] = None
               ELSE teams'[p][k] # None /\ (own'[p][k] \notin update' =>
                                              teams'[p][k] = sent[own'[p][k]].param)
    <3>1. IF own[p][k] = None THEN teams[p][k] = None
          ELSE teams[p][k] # None /\ (own[p][k] \notin update => teams[p][k] = sent[own[p][k]].param)
      BY <1>2, <2>2 DEF TeamClaimsShown
    <3>2. CASE k = n /\ p \in win
      <4>1. own'[p][k] = e /\ teams'[p][k] = team[e].param  BY <1>10, <1>12, <2>2, <3>2
      <4> QED BY <1>4, <4>1 DEF TeamsDistinct
    <3>3. CASE k = n /\ p \notin win /\ p \in viewers[e]
      <4>1. own'[p][k] = e /\ own[p][k] = e /\ e # None  BY <1>5, <1>10, <2>2, <3>3 DEF TeamsDistinct
      <4>2. CASE e \in update
        <5>1. teams'[p][k] = team[e].param  BY <1>12, <2>2, <3>1, <3>3, <4>1, <4>2
        <5> QED BY <1>4, <4>1, <5>1
      <4>3. CASE e \notin update
        <5>1. teams'[p][k] = teams[p][k]  BY <1>12, <2>2, <3>3, <4>3
        <5> QED BY <3>1, <4>1, <4>3, <5>1
      <4> QED BY <4>2, <4>3
    <3>4. CASE k # n \/ (p \notin win /\ p \notin viewers[e])
      <4>1. own'[p][k] = own[p][k] /\ teams'[p][k] = teams[p][k]  BY <1>10, <1>12, <2>2, <3>4
      <4>2. own[p][k] # e  BY <1>2, <1>4, <2>2, <3>4 DEF NamesOwned, TeamsDistinct
      <4> QED BY <1>1, <3>1, <4>1, <4>2
    <3> QED BY <3>2, <3>3, <3>4
  <2>3. ASSUME NEW p \in audience, p \in Player, NEW m \in Member
        PROVE  playsOn'[p][m] = IF on'[p][m] = None THEN None ELSE known[on'[p][m]]
    <3>1. CASE m \in gets(p)  BY <1>4, <1>11, <2>3, <3>1 DEF TeamsDistinct
    <3>2. CASE m \notin gets(p)  BY <1>2, <1>11, <2>3, <3>2 DEF TeamClaimsShown
    <3> QED BY <3>1, <3>2
  <2> QED BY <1>1, <1>3, <2>1, <2>2, <2>3 DEF TeamClaimsShown
<1>19. TeamRefusedFor'
  <2> SUFFICES ASSUME NEW y \in T!Alive, y \notin stale' \/ (y \in todo' /\ ~freed), NEW p \in refused'[y]
               PROVE  own'[p][known[y]] \notin {None, y}
    BY <1>1, <1>3 DEF TeamRefusedFor
  <2>1. p \in Player /\ known[y] \in Name  BY <1>2, <1>3, <1>9 DEF TeamTypes
  <2>2. CASE y # e
    <3>1. own[p][known[y]] \notin {None, y}
      BY <1>1, <1>2, <1>3, <1>9, <1>14, <2>2 DEF TeamRefusedFor
    <3> QED BY <1>6, <1>10, <2>1, <3>1
  <2>3. CASE y = e /\ e \notin pending
    <3>1. e \notin stale /\ p \in refused[e]  BY <1>1, <1>9, <2>3 DEF T!Marked
    <3>2. own[p][known[e]] \notin {None, e}  BY <1>2, <1>3, <3>1 DEF TeamRefusedFor
    <3> QED BY <1>6, <1>10, <2>1, <2>3, <3>2
  <2>4. CASE y = e /\ e \in pending
    <3>1. ~freed  BY <1>1, <2>4 DEF T!Marked
    <3>2. \A q \in refused[e] : own[q][n] \notin {None, e}
      BY <1>1, <1>2, <1>3, <1>4, <3>1 DEF TeamRefusedFor
    <3>3. own[p][n] \notin {None, e} /\ p \notin win  BY <1>6, <1>9, <2>4, <3>2
    <3> QED BY <1>4, <1>10, <2>1, <2>4, <3>3
  <2> QED BY <2>2, <2>3, <2>4
<1>20. TeamsCurrent'
  <2> SUFFICES ASSUME NEW x \in T!Alive
               PROVE  /\ known[x] = team[x].name
                      /\ sent[x] = [param |-> team[x].param, members |-> team[x].members]
                      /\ joined'[x] \subseteq team[x].members
                      /\ viewers'[x] \subseteq T!Desired(x)
                      /\ x \notin pending' => viewers'[x] \cup refused'[x] = T!Desired(x)
    BY <1>1, <1>3 DEF TeamsCurrent
  <2>1. CASE x # e  BY <1>1, <1>2, <1>3, <1>9, <2>1 DEF TeamsCurrent
  <2>2. CASE x = e
    <3>1. viewers'[e] \subseteq T!Desired(e) /\ viewers'[e] \cup refused'[e] = T!Desired(e)
      BY <1>4, <1>6, <1>9
    <3> QED BY <1>4, <1>9, <2>2, <3>1 DEF n
  <2> QED BY <2>1, <2>2
<1>21. broken' = {}
  <2>1. \A p \in win : teams[p][n] = None  BY <1>2, <1>3, <1>4, <1>6 DEF TeamClaimsShown
  <2>2. \A p \in viewers[e] : teams[p][n] # None
    BY <1>2, <1>3, <1>4, <1>5 DEF TeamClaimsShown, TeamsDistinct
  <2> QED BY <1>1, <1>2, <2>1, <2>2
<1> QED BY <1>15, <1>16, <1>17, <1>18, <1>19, <1>20, <1>21 DEF TeamsInv

(* The phase passes, or nothing does. *)
LEMMA TeamRestKeeps ==
  ASSUME TeamsInv, T!EndSync \/ T!EndTick \/ UNCHANGED T!vars PROVE TeamsInv'
<1>1. /\ UNCHANGED <<audience, team, known, sent, viewers, refused, stale, pending, update, joined, todo,
                     own, on, freed, turned, teams, playsOn, broken>>
      /\ phase' \in {"game", "joins", "done"} /\ (phase' # "joins" => todo = {})
      /\ phase' # "game" => phase # "game"
  BY DEF T!EndSync, T!EndTick, T!vars, T!state, T!claims, T!client, TeamsInv, TeamTypes
<1>2. TeamTypes /\ NamesOwned /\ Enlisted /\ TeamClaimsShown /\ TeamRefusedFor /\ TeamsCurrent /\ broken = {}
  BY DEF TeamsInv
<1>3. T!Alive' = T!Alive /\ \A e : T!Desired(e)' = T!Desired(e)  BY <1>1 DEF T!Alive, T!Desired
<1>4. TeamTypes'  BY <1>1, <1>2, <1>3 DEF TeamTypes
<1>5. NamesOwned' /\ Enlisted' /\ TeamClaimsShown' /\ TeamRefusedFor' /\ TeamsCurrent'
  BY <1>1, <1>2, <1>3 DEF NamesOwned, Enlisted, TeamClaimsShown, TeamRefusedFor, TeamsCurrent
<1> QED BY <1>1, <1>2, <1>4, <1>5 DEF TeamsInv

LEMMA TeamsKeep == ASSUME TeamsDistinct, TeamsInv, [T!Next]_T!vars PROVE TeamsInv'
<1>1. CASE T!Game
  BY <1>1, TeamsReadyKeep, TeamsLeaveKeep, TeamForgetKeeps, TeamDespawnKeeps, TeamChangesKeep, TeamSpawnKeeps DEF T!Game
<1>2. CASE T!Tick  BY <1>2, TeamLeavesKeep, TeamJoinsKeep, TeamRestKeeps DEF T!Tick
<1>3. CASE UNCHANGED T!vars  BY <1>3, TeamRestKeeps
<1> QED BY <1>1, <1>2, <1>3 DEF T!Next

LEMMA TeamsShow == ASSUME TeamsDistinct, TeamsInv PROVE T!TeamsShown
<1> SUFFICES ASSUME phase = "done" PROVE
      /\ broken = {}
      /\ \A e \in T!Alive : viewers[e] \cup refused[e] = T!Desired(e)
      /\ \A e \in T!Alive \ stale : \A p \in refused[e] : own[p][team[e].name] \notin {None, e}
      /\ \A p \in audience :
         /\ \A n \in Name : teams[p][n] # None => \E e \in T!Shown(p) : team[e].name = n
         /\ \A e \in T!Shown(p) :
              /\ teams[p][team[e].name] = team[e].param
              /\ \A m \in team[e].members :
                   playsOn[p][m] = team[e].name \/ <<p, e, m>> \in turned
         /\ \A m \in Member : playsOn[p][m] # None =>
              \E e \in T!Shown(p) : m \in team[e].members /\ team[e].name = playsOn[p][m]
  BY DEF T!TeamsShown
<1>1. TeamTypes /\ NamesOwned /\ Enlisted /\ TeamClaimsShown /\ TeamRefusedFor /\ TeamsCurrent /\ broken = {}
  BY DEF TeamsInv
<1>2. pending = {} /\ update = {} /\ audience \subseteq Player /\ T!Alive \subseteq Ranked
      /\ \A e \in Ranked : joined[e] = {}
  BY <1>1 DEF TeamTypes, T!Alive
<1>3. ASSUME NEW e \in T!Alive
      PROVE  /\ known[e] = team[e].name /\ team[e] \in Banner /\ team[e].name \in Name
             /\ sent[e].param = team[e].param /\ sent[e].members = team[e].members
             /\ viewers[e] \cup refused[e] = T!Desired(e)
             /\ team[e].members \subseteq Member
  <2>1. team[e] \in Banner  BY <1>1 DEF TeamTypes, T!Alive
  <2>2. /\ known[e] = team[e].name
        /\ sent[e] = [param |-> team[e].param, members |-> team[e].members]
        /\ viewers[e] \cup refused[e] = T!Desired(e)
    BY <1>1, <1>2 DEF TeamsCurrent
  <2>3. team[e].name \in Name /\ team[e].members \subseteq Member  BY <2>1 DEF Banner
  <2> QED BY <2>1, <2>2, <2>3
<1>4. \A e \in T!Alive \ stale : \A p \in refused[e] : own[p][team[e].name] \notin {None, e}
  BY <1>1, <1>3 DEF TeamRefusedFor
<1>5. \A e \in Ranked : viewers[e] # {} => e \in T!Alive  BY <1>1 DEF TeamTypes
<1>6. ASSUME NEW p \in audience, NEW n \in Name, teams[p][n] # None
      PROVE  \E e \in T!Shown(p) : team[e].name = n
  <2>1. own[p][n] # None  BY <1>1, <1>2, <1>6 DEF TeamClaimsShown
  <2>2. own[p][n] \in Ranked /\ p \in viewers[own[p][n]] /\ known[own[p][n]] = n
    BY <1>1, <1>2, <2>1 DEF NamesOwned, TeamTypes
  <2> QED BY <1>3, <1>5, <2>2 DEF T!Shown
<1>7. ASSUME NEW p \in audience, NEW e \in T!Shown(p)
      PROVE  /\ teams[p][team[e].name] = team[e].param
             /\ \A m \in team[e].members : playsOn[p][m] = team[e].name \/ <<p, e, m>> \in turned
  <2>1. e \in T!Alive /\ p \in viewers[e] /\ p \in Player /\ e # None  BY <1>2 DEF T!Shown, TeamsDistinct
  <2>2. own[p][team[e].name] = e  BY <1>1, <1>2, <1>3, <2>1 DEF NamesOwned
  <2>3. teams[p][team[e].name] = team[e].param  BY <1>1, <1>2, <1>3, <2>1, <2>2 DEF TeamClaimsShown
  <2>4. ASSUME NEW m \in team[e].members
        PROVE  playsOn[p][m] = team[e].name \/ <<p, e, m>> \in turned
    <3>1. on[p][m] = e \/ <<p, e, m>> \in turned  BY <1>1, <1>2, <1>3, <2>1 DEF Enlisted
    <3>2. on[p][m] = e => playsOn[p][m] = known[e]  BY <1>1, <1>3, <2>1 DEF TeamClaimsShown
    <3> QED BY <1>3, <2>1, <3>1, <3>2
  <2> QED BY <2>3, <2>4
<1>8. ASSUME NEW p \in audience, NEW m \in Member, playsOn[p][m] # None
      PROVE  \E e \in T!Shown(p) : m \in team[e].members /\ team[e].name = playsOn[p][m]
  <2>1. on[p][m] # None /\ playsOn[p][m] = known[on[p][m]]  BY <1>1, <1>2, <1>8 DEF TeamClaimsShown
  <2>2. on[p][m] \in Ranked /\ p \in viewers[on[p][m]] /\ m \in sent[on[p][m]].members
    BY <1>1, <1>2, <2>1 DEF Enlisted, TeamTypes
  <2> QED BY <1>3, <1>5, <2>1, <2>2 DEF T!Shown
<1> QED BY <1>1, <1>3, <1>4, <1>6, <1>7, <1>8

-----------------------------------------------------------------------------
(***************************************************************************)
(* Objectives and sidebars: at the end of a tick a client has the          *)
(* objectives it is a viewer of, each as it is and on its slot; who is     *)
(* refused one is refused for a cause; and the lines of a sidebar are read *)
(* in the order of its widgets.                                            *)
(***************************************************************************)

Objective == [name : Name, slot : Slot, body : S!Body, audience : SUBSET Player]
Posted == [slot : Slot, body : S!Body]

(* What is absent is none of what is there; a sidebar is an objective. *)
ObjectivesDistinct ==
  /\ None \notin Ranked /\ None \notin Name /\ None \notin S!Body
  /\ None \notin Objective /\ None \notin Posted /\ None \notin Int \X Line
  /\ Board \subseteq Ranked /\ BoardName \in Name /\ BoardSlot \in Slot /\ MaxLines \in Nat

-----------------------------------------------------------------------------
(* The inductive invariant *)

ObjectiveTypes ==
  /\ phase \in {"game", "begin", "sync", "done"} /\ audience \subseteq Player
  /\ obj \in [Ranked -> Objective \cup {None}]
  /\ lines \in [Board -> Seq(Line)] /\ redraw \subseteq S!Alive \cap Board
  /\ known \in [Ranked -> Name] /\ sent \in [Ranked -> Posted \cup {None}]
  /\ viewers \in [Ranked -> SUBSET Player] /\ refused \in [Ranked -> SUBSET Player]
  /\ stale \subseteq Ranked /\ freed \in BOOLEAN
  /\ todo \subseteq S!Alive /\ pending \subseteq todo
  /\ own \in [Player -> [Name -> Ranked \cup {None}]]
  /\ hold \in [Player -> [Slot -> Ranked \cup {None}]]
  /\ objs \in [Player -> [Name -> S!Body \cup {None}]]
  /\ display \in [Player -> [Slot -> Name \cup {None}]]
  /\ phase # "sync" => todo = {}
  /\ phase # "game" => redraw = {}
  /\ \A e \in Ranked \ S!Alive : sent[e] = None
  /\ \A e \in Ranked : sent[e] = None => viewers[e] = {} /\ refused[e] = {}
  /\ \A e \in Ranked : viewers[e] \cap refused[e] = {}
  /\ freed => stale = Ranked

(* A sidebar that is not to be redrawn is drawn, and never changed slot. *)
BoardsRendered ==
  \A e \in S!Alive \cap Board :
    /\ obj[e].name = BoardName
    /\ sent[e] # None => obj[e].slot = BoardSlot
    /\ e \notin redraw => /\ obj[e].slot = BoardSlot
                          /\ \A r \in S!Row : obj[e].body[r] = S!Scores(lines[e])[r]

(* A viewer holds the name and the slot of an objective for it, as they     *)
(* were sent, and nothing else is held.                                     *)
ObjectivesClaimed ==
  /\ \A e \in Ranked : \A p \in viewers[e] : own[p][known[e]] = e /\ hold[p][sent[e].slot] = e
  /\ \A p \in Player, n \in Name : own[p][n] # None =>
       p \in viewers[own[p][n]] /\ known[own[p][n]] = n
  /\ \A p \in Player, s \in Slot : hold[p][s] # None =>
       p \in viewers[hold[p][s]] /\ sent[hold[p][s]].slot = s

(* Clients are as the claims say. *)
ObjectiveClaimsShown ==
  \A p \in Player :
    /\ \A n \in Name : objs[p][n] = IF own[p][n] = None THEN None ELSE sent[own[p][n]].body
    /\ \A s \in Slot : display[p][s] = IF hold[p][s] = None THEN None ELSE known[hold[p][s]]

(* After the first loop viewers are of the audience; after the second,      *)
(* what was sent is what is.                                                *)
ObjectivesCurrent ==
  phase \in {"sync", "done"} =>
    \A e \in S!Alive :
      /\ known[e] = obj[e].name /\ viewers[e] \subseteq S!Desired(e)
      /\ e \notin pending => viewers[e] \cup refused[e] = S!Desired(e)
      /\ e \notin todo => sent[e] = [slot |-> obj[e].slot, body |-> obj[e].body]

(* Who is refused is refused because another has the name or the slot. *)
ObjectiveRefusedFor ==
  \A e \in S!Alive : e \notin stale \/ (e \in todo /\ ~freed) =>
    \A p \in refused[e] : \/ own[p][known[e]] \notin {None, e}
                          \/ hold[p][sent[e].slot] \notin {None, e}

(* An objective that changes slot gives up a claim by doing so. *)
ObjectivesMoving ==
  \A e \in S!Alive : refused[e] # {} /\ obj[e].slot # sent[e].slot =>
    viewers[e] # {} \/ (phase = "sync" /\ freed)

ObjectivesInv ==
  /\ ObjectiveTypes /\ BoardsRendered /\ ObjectivesClaimed /\ ObjectiveClaimsShown /\ ObjectivesCurrent /\ broken = {}
  /\ ~MovesRefused => ObjectiveRefusedFor /\ ObjectivesMoving

-----------------------------------------------------------------------------
LEMMA ObjectivesStart == ASSUME ObjectivesDistinct, S!Init PROVE ObjectivesInv
<1>1. S!Alive = {}  BY DEF S!Init, S!Alive
<1>2. lines \in [Board -> Seq(Line)]
  <2>1. << >> \in Seq(Line)  OBVIOUS
  <2> QED BY <2>1 DEF S!Init
<1>3. known \in [Ranked -> Name]  BY DEF S!Init, ObjectivesDistinct
<1>4. ObjectiveTypes  BY <1>1, <1>2, <1>3 DEF S!Init, ObjectiveTypes
<1>5. BoardsRendered /\ ObjectivesClaimed /\ ObjectiveClaimsShown
  BY <1>1 DEF S!Init, BoardsRendered, ObjectivesClaimed, ObjectiveClaimsShown
<1> QED BY <1>1, <1>4, <1>5 DEF S!Init, ObjectivesInv, ObjectiveRefusedFor, ObjectivesMoving, ObjectivesCurrent

(* Remove, to the viewers in out. *)
LEMMA WithdrawSays ==
  ASSUME ObjectivesDistinct, ObjectiveTypes, ObjectivesClaimed, ObjectiveClaimsShown,
         NEW out \in [Ranked -> SUBSET Player], \A e \in Ranked : out[e] \subseteq viewers[e],
         S!Withdraw(out)
  PROVE  /\ own' \in [Player -> [Name -> Ranked \cup {None}]]
         /\ hold' \in [Player -> [Slot -> Ranked \cup {None}]]
         /\ objs' \in [Player -> [Name -> S!Body \cup {None}]]
         /\ display' \in [Player -> [Slot -> Name \cup {None}]]
         /\ \A p \in Player, n \in Name :
              IF own[p][n] # None /\ p \in out[own[p][n]]
              THEN own'[p][n] = None /\ objs'[p][n] = None
              ELSE own'[p][n] = own[p][n] /\ objs'[p][n] = objs[p][n]
         /\ \A p \in Player, s \in Slot :
              IF hold[p][s] # None /\ p \in out[hold[p][s]]
              THEN hold'[p][s] = None /\ display'[p][s] = None
              ELSE hold'[p][s] = hold[p][s] /\ display'[p][s] = display[p][s]
<1> DEFINE names(p) == {known[e] : e \in {x \in Ranked : p \in out[x]}}
<1>1. /\ own' = [p \in Player |-> [n \in Name |->
                   IF \E e \in Ranked : p \in out[e] /\ n = known[e] /\ own[p][n] = e
                   THEN None ELSE own[p][n]]]
      /\ hold' = [p \in Player |-> [s \in Slot |->
                   IF \E e \in Ranked : /\ p \in out[e] /\ sent[e] # None
                                        /\ s = sent[e].slot /\ hold[p][s] = e
                   THEN None ELSE hold[p][s]]]
      /\ objs' = [p \in Player |-> [n \in Name |-> IF n \in names(p) THEN None ELSE objs[p][n]]]
      /\ display' = [p \in Player |-> [s \in Slot |->
                       IF display[p][s] \in names(p) THEN None ELSE display[p][s]]]
  BY DEF S!Withdraw
<1>2. ASSUME NEW p \in Player, NEW n \in Name
      PROVE  /\ n \in names(p) <=> own[p][n] # None /\ p \in out[own[p][n]]
             /\ (\E e \in Ranked : p \in out[e] /\ n = known[e] /\ own[p][n] = e)
                  <=> own[p][n] # None /\ p \in out[own[p][n]]
  <2>1. own[p][n] # None => own[p][n] \in Ranked /\ known[own[p][n]] = n
    BY DEF ObjectiveTypes, ObjectivesClaimed
  <2>2. \A e \in Ranked : p \in out[e] => own[p][known[e]] = e  BY DEF ObjectivesClaimed
  <2> QED BY <2>1, <2>2 DEF ObjectivesDistinct
<1>3. \A p \in Player : None \notin names(p)  BY DEF ObjectiveTypes, ObjectivesDistinct
<1>4. ASSUME NEW p \in Player, NEW s \in Slot
      PROVE  /\ (\E e \in Ranked : /\ p \in out[e] /\ sent[e] # None
                                   /\ s = sent[e].slot /\ hold[p][s] = e)
                  <=> hold[p][s] # None /\ p \in out[hold[p][s]]
             /\ display[p][s] \in names(p) <=> hold[p][s] # None /\ p \in out[hold[p][s]]
  <2>1. hold[p][s] \in Ranked \cup {None}  BY DEF ObjectiveTypes
  <2>2. hold[p][s] # None =>
          /\ p \in viewers[hold[p][s]] /\ sent[hold[p][s]].slot = s /\ sent[hold[p][s]] # None
          /\ known[hold[p][s]] \in Name /\ own[p][known[hold[p][s]]] = hold[p][s]
    BY <2>1 DEF ObjectiveTypes, ObjectivesClaimed
  <2>3. display[p][s] = IF hold[p][s] = None THEN None ELSE known[hold[p][s]]
    BY DEF ObjectiveClaimsShown
  <2>4. hold[p][s] # None => (known[hold[p][s]] \in names(p) <=> p \in out[hold[p][s]])
    BY <1>2, <2>2
  <2>5. display[p][s] \in names(p) <=> hold[p][s] # None /\ p \in out[hold[p][s]]
    <3> HIDE DEF names
    <3> QED BY <1>3, <2>3, <2>4
  <2>6. (\E e \in Ranked : /\ p \in out[e] /\ sent[e] # None
                           /\ s = sent[e].slot /\ hold[p][s] = e)
          <=> hold[p][s] # None /\ p \in out[hold[p][s]]
    BY <2>1, <2>2 DEF ObjectivesDistinct
  <2> QED BY <2>5, <2>6
<1> HIDE DEF names
<1>5. \A p \in Player, n \in Name :
        IF own[p][n] # None /\ p \in out[own[p][n]]
        THEN own'[p][n] = None /\ objs'[p][n] = None
        ELSE own'[p][n] = own[p][n] /\ objs'[p][n] = objs[p][n]
  BY <1>1, <1>2
<1>6. \A p \in Player, s \in Slot :
        IF hold[p][s] # None /\ p \in out[hold[p][s]]
        THEN hold'[p][s] = None /\ display'[p][s] = None
        ELSE hold'[p][s] = hold[p][s] /\ display'[p][s] = display[p][s]
  BY <1>1, <1>4
<1>7. /\ own' \in [Player -> [Name -> Ranked \cup {None}]]
      /\ hold' \in [Player -> [Slot -> Ranked \cup {None}]]
      /\ objs' \in [Player -> [Name -> S!Body \cup {None}]]
      /\ display' \in [Player -> [Slot -> Name \cup {None}]]
  BY <1>1 DEF ObjectiveTypes
<1> QED BY <1>5, <1>6, <1>7

-----------------------------------------------------------------------------
(* The game, between two ticks *)

LEMMA ObjectivePlayersKeep ==
  ASSUME ObjectivesDistinct, ObjectivesInv, NEW p \in Player, S!GetReady(p) \/ S!Leave(p)
  PROVE  ObjectivesInv'
<1>1. /\ phase = "game" /\ phase' = "game" /\ audience' \in {audience \cup {p}, audience \ {p}}
      /\ UNCHANGED <<obj, lines, redraw, known, sent, viewers, refused, stale, pending, todo,
                     own, hold, freed, objs, display, broken>>
  BY DEF S!GetReady, S!Leave, S!Act, S!Unsynced, S!state, S!client
<1>2. /\ ObjectiveTypes /\ BoardsRendered /\ ObjectivesClaimed /\ ObjectiveClaimsShown /\ broken = {}
      /\ S!Alive' = S!Alive /\ (~MovesRefused => ObjectiveRefusedFor /\ ObjectivesMoving)
  BY <1>1 DEF ObjectivesInv, S!Alive
<1>3. ObjectiveTypes'  BY <1>1, <1>2 DEF ObjectiveTypes
<1>4. BoardsRendered' /\ ObjectivesClaimed' /\ ObjectiveClaimsShown' /\ ObjectivesCurrent'
  BY <1>1, <1>2 DEF BoardsRendered, ObjectivesClaimed, ObjectiveClaimsShown, ObjectivesCurrent
<1>5. ~MovesRefused => ObjectiveRefusedFor' /\ ObjectivesMoving'
  BY <1>1, <1>2 DEF ObjectiveRefusedFor, ObjectivesMoving
<1> QED BY <1>1, <1>2, <1>3, <1>4, <1>5 DEF ObjectivesInv

(* Objectives are given or changed. *)
LEMMA ObjectiveComponentsKeep ==
  ASSUME ObjectivesDistinct, ObjectivesInv, phase = "game", phase' = phase, audience' = audience, S!Unsynced,
         obj' \in [Ranked -> Objective \cup {None}], \A e \in S!Alive : obj'[e] # None,
         lines' \in [Board -> Seq(Line)], redraw' \subseteq S!Alive' \cap Board, BoardsRendered',
         ~MovesRefused => \A e \in S!Alive : obj'[e].slot # obj[e].slot =>
                                             viewers[e] # {} \/ refused[e] = {}
  PROVE  ObjectivesInv'
<1>1. UNCHANGED <<audience, known, sent, viewers, refused, stale, pending, todo, own, hold, freed,
                  objs, display, broken>>
  BY DEF S!Unsynced, S!state, S!client
<1>2. /\ ObjectiveTypes /\ ObjectivesClaimed /\ ObjectiveClaimsShown /\ broken = {}
      /\ ~MovesRefused => ObjectiveRefusedFor /\ ObjectivesMoving
  BY DEF ObjectivesInv
<1>3. S!Alive \subseteq S!Alive' /\ S!Alive' \subseteq Ranked /\ S!Alive \subseteq Ranked /\ todo = {}
  BY <1>2 DEF ObjectiveTypes, S!Alive
<1>4. ObjectiveTypes'  BY <1>1, <1>2, <1>3 DEF ObjectiveTypes
<1>5. \A e \in S!Alive' \ S!Alive : refused[e] = {}  BY <1>2, <1>3 DEF ObjectiveTypes
<1>6. ~MovesRefused => ObjectiveRefusedFor' /\ ObjectivesMoving'
  BY <1>1, <1>2, <1>3, <1>5 DEF ObjectiveRefusedFor, ObjectivesMoving
<1>7. ObjectivesClaimed' /\ ObjectiveClaimsShown' /\ ObjectivesCurrent'
  BY <1>1, <1>2 DEF ObjectivesClaimed, ObjectiveClaimsShown, ObjectivesCurrent
<1> QED BY <1>1, <1>2, <1>4, <1>6, <1>7 DEF ObjectivesInv

LEMMA BlankBodyTyped == ASSUME NEW t \in Text PROVE S!Blank(t) \in S!Body
  BY DEF S!Blank, S!Body

LEMMA ObjectiveSpawnKeeps ==
  ASSUME ObjectivesDistinct, ObjectivesInv, NEW e \in Ranked, NEW n \in Name, NEW s \in Slot,
         S!Spawn(e, n, s)
  PROVE  ObjectivesInv'
<1>1. PICK t \in Text : obj' = [obj EXCEPT ![e] =
        [name |-> n, slot |-> s, body |-> S!Blank(t), audience |-> Player]]
  BY DEF S!Spawn
<1> DEFINE o == [name |-> n, slot |-> s, body |-> S!Blank(t), audience |-> Player]
<1>2. o \in Objective /\ o.name = n  BY BlankBodyTyped DEF Objective
<1>3. /\ phase = "game" /\ phase' = phase /\ audience' = audience /\ S!Unsynced
      /\ obj[e] = None /\ (e \in Board => n = BoardName) /\ obj' = [obj EXCEPT ![e] = o]
      /\ redraw' = redraw \cup ({e} \cap Board)
      /\ lines' = [b \in Board |-> IF b = e THEN <<>> ELSE lines[b]]
  BY <1>1 DEF S!Spawn, S!Act
<1> HIDE DEF o
<1>4. ObjectiveTypes /\ BoardsRendered  BY DEF ObjectivesInv
<1>5. /\ obj' \in [Ranked -> Objective \cup {None}] /\ obj'[e] = o
      /\ \A x \in Ranked \ {e} : obj'[x] = obj[x]
  BY <1>2, <1>3, <1>4 DEF ObjectiveTypes
<1>6. S!Alive' = S!Alive \cup {e} /\ e \notin S!Alive
  BY <1>2, <1>3, <1>5 DEF S!Alive, ObjectivesDistinct
<1>7. lines' \in [Board -> Seq(Line)]
  <2>1. << >> \in Seq(Line)  OBVIOUS
  <2> QED BY <1>3, <1>4, <2>1 DEF ObjectiveTypes
<1>8. redraw' \subseteq S!Alive' \cap Board  BY <1>3, <1>4, <1>6 DEF ObjectiveTypes
<1>9. BoardsRendered'
  <2> SUFFICES ASSUME NEW x \in S!Alive' \cap Board
               PROVE  /\ obj'[x].name = BoardName
                      /\ sent'[x] # None => obj'[x].slot = BoardSlot
                      /\ x \notin redraw' =>
                           /\ obj'[x].slot = BoardSlot
                           /\ \A r \in S!Row : obj'[x].body[r] = S!Scores(lines'[x])[r]
    BY DEF BoardsRendered
  <2>1. sent' = sent /\ sent[e] = None  BY <1>3, <1>4, <1>6 DEF S!Unsynced, S!state, ObjectiveTypes
  <2>2. CASE x = e  BY <1>2, <1>3, <1>5, <2>1, <2>2
  <2>3. CASE x # e
    <3>1. x \in S!Alive /\ x \in Board /\ obj'[x] = obj[x] /\ lines'[x] = lines[x]
      BY <1>3, <1>5, <1>6, <2>3 DEF S!Alive
    <3> QED BY <1>3, <1>4, <2>1, <3>1 DEF BoardsRendered
  <2> QED BY <2>2, <2>3
<1>10. \A x \in S!Alive : obj'[x] # None /\ obj'[x] = obj[x]  BY <1>5, <1>6 DEF S!Alive
<1> QED BY <1>3, <1>5, <1>7, <1>8, <1>9, <1>10, ObjectiveComponentsKeep

LEMMA ObjectiveEditKeeps ==
  ASSUME ObjectivesDistinct, ObjectivesInv, NEW e \in Ranked, NEW o \in Objective, S!Edit(e, o),
         MovesRefused \/ o.slot = obj[e].slot \/ viewers[e] # {} \/ refused[e] = {}
  PROVE  ObjectivesInv'
<1>1. /\ phase = "game" /\ phase' = phase /\ audience' = audience /\ S!Unsynced
      /\ e \in S!Alive \ Board /\ obj' = [obj EXCEPT ![e] = o] /\ UNCHANGED <<lines, redraw>>
  BY DEF S!Edit, S!Act
<1>2. ObjectiveTypes /\ BoardsRendered  BY DEF ObjectivesInv
<1>3. /\ obj' \in [Ranked -> Objective \cup {None}] /\ obj'[e] = o /\ o # None
      /\ \A x \in Ranked \ {e} : obj'[x] = obj[x]
  BY <1>1, <1>2 DEF ObjectiveTypes, ObjectivesDistinct
<1>4. S!Alive' = S!Alive /\ S!Alive \subseteq Ranked  BY <1>1, <1>3 DEF S!Alive
<1>5. lines' \in [Board -> Seq(Line)] /\ redraw' \subseteq S!Alive' \cap Board
  BY <1>1, <1>2, <1>4 DEF ObjectiveTypes
<1>6. BoardsRendered'  BY <1>1, <1>2, <1>3, <1>4 DEF BoardsRendered, S!Unsynced, S!state
<1>7. \A x \in S!Alive : obj'[x] # None  BY <1>3, <1>4 DEF S!Alive
<1>8. ~MovesRefused => \A x \in S!Alive : obj'[x].slot # obj[x].slot => viewers[x] # {} \/ refused[x] = {}
  BY <1>3, <1>4
<1> QED BY <1>1, <1>3, <1>5, <1>6, <1>7, <1>8, ObjectiveComponentsKeep

LEMMA ObjectiveChangesKeep ==
  ASSUME ObjectivesDistinct, ObjectivesInv, NEW e \in Ranked,
         \/ \E n \in Name : S!Rename(e, n)
         \/ \E s \in Slot : S!MoveSlot(e, s)
         \/ \E r \in S!Part, x \in Text \cup {None} : S!SetScore(e, r, x)
  PROVE  ObjectivesInv'
<1>1. e \in S!Alive /\ obj[e] \in Objective
  BY DEF S!Rename, S!MoveSlot, S!SetScore, ObjectivesInv, ObjectiveTypes, S!Alive
<1>2. \A o \in Objective :
        /\ \A n \in Name : [o EXCEPT !.name = n] \in Objective /\ [o EXCEPT !.name = n].slot = o.slot
        /\ \A s \in Slot : [o EXCEPT !.slot = s] \in Objective
        /\ \A r \in S!Part, x \in Text \cup {None} :
             [o EXCEPT !.body[r] = x] \in Objective /\ [o EXCEPT !.body[r] = x].slot = o.slot
  BY DEF Objective, S!Body
<1>3. ASSUME NEW n \in Name, S!Rename(e, n) PROVE ObjectivesInv'
  <2> DEFINE o == [obj[e] EXCEPT !.name = n]
  <2>1. o \in Objective /\ o.slot = obj[e].slot /\ S!Edit(e, o)  BY <1>1, <1>2, <1>3 DEF S!Rename
  <2> HIDE DEF o
  <2> QED BY <2>1, ObjectiveEditKeeps
<1>4. ASSUME NEW s \in Slot, S!MoveSlot(e, s) PROVE ObjectivesInv'
  <2> DEFINE o == [obj[e] EXCEPT !.slot = s]
  <2>1. o \in Objective /\ S!Edit(e, o) /\ (MovesRefused \/ viewers[e] # {} \/ refused[e] = {})
    BY <1>1, <1>2, <1>4 DEF S!MoveSlot
  <2> HIDE DEF o
  <2> QED BY <2>1, ObjectiveEditKeeps
<1>5. ASSUME NEW r \in S!Part, NEW x \in Text \cup {None}, S!SetScore(e, r, x) PROVE ObjectivesInv'
  <2> DEFINE o == [obj[e] EXCEPT !.body[r] = x]
  <2>1. o \in Objective /\ o.slot = obj[e].slot /\ S!Edit(e, o)  BY <1>1, <1>2, <1>5 DEF S!SetScore
  <2> HIDE DEF o
  <2> QED BY <2>1, ObjectiveEditKeeps
<1> QED BY <1>3, <1>4, <1>5

LEMMA SidebarsKeep ==
  ASSUME ObjectivesDistinct, ObjectivesInv, NEW e \in Ranked,
         \/ \E A \in SUBSET Player : S!Readdress(e, A)
         \/ \E k \in 0..MaxLines + 1 : \E ls \in [1..k -> Line] : S!EditWidgets(e, ls)
  PROVE  ObjectivesInv'
<1>1. ObjectiveTypes /\ BoardsRendered  BY DEF ObjectivesInv
<1>2. ASSUME NEW A \in SUBSET Player, S!Readdress(e, A) PROVE ObjectivesInv'
  <2> DEFINE o == [obj[e] EXCEPT !.audience = A]
  <2>1. /\ phase = "game" /\ phase' = phase /\ audience' = audience /\ S!Unsynced
        /\ e \in S!Alive /\ obj' = [obj EXCEPT ![e].audience = A] /\ lines' = lines
        /\ redraw' = redraw \cup ({e} \cap Board)
    BY <1>2 DEF S!Readdress, S!Act
  <2>2. obj[e] \in Objective  BY <1>1, <2>1 DEF ObjectiveTypes, S!Alive
  <2>3. o \in Objective /\ o.name = obj[e].name /\ o.slot = obj[e].slot /\ o.body = obj[e].body
    BY <2>2 DEF Objective
  <2>4. obj' = [obj EXCEPT ![e] = o]
    <3>1. obj \in [Ranked -> Objective \cup {None}]  BY <1>1 DEF ObjectiveTypes
    <3> QED BY <2>1, <3>1
  <2> HIDE DEF o
  <2>5. /\ obj' \in [Ranked -> Objective \cup {None}] /\ obj'[e] = o /\ o # None
        /\ \A x \in Ranked \ {e} : obj'[x] = obj[x]
    BY <1>1, <2>3, <2>4 DEF ObjectiveTypes, ObjectivesDistinct
  <2>6. S!Alive' = S!Alive /\ S!Alive \subseteq Ranked  BY <2>1, <2>5 DEF S!Alive
  <2>7. lines' \in [Board -> Seq(Line)] /\ redraw' \subseteq S!Alive' \cap Board
    BY <1>1, <2>1, <2>6 DEF ObjectiveTypes
  <2>8. BoardsRendered'
    <3> SUFFICES ASSUME NEW x \in S!Alive \cap Board
                 PROVE  /\ obj'[x].name = BoardName
                        /\ sent[x] # None => obj'[x].slot = BoardSlot
                        /\ x \notin redraw' =>
                             /\ obj'[x].slot = BoardSlot
                             /\ \A r \in S!Row : obj'[x].body[r] = S!Scores(lines[x])[r]
      BY <2>1, <2>6 DEF BoardsRendered, S!Unsynced, S!state
    <3>1. obj'[x].name = obj[x].name /\ obj'[x].slot = obj[x].slot /\ obj'[x].body = obj[x].body
      BY <2>3, <2>5, <2>6
    <3> QED BY <1>1, <2>1, <3>1 DEF BoardsRendered
  <2>9. \A x \in S!Alive : obj'[x] # None /\ obj'[x].slot = obj[x].slot
    BY <2>3, <2>5, <2>6 DEF S!Alive
  <2> QED BY <2>1, <2>5, <2>7, <2>8, <2>9, ObjectiveComponentsKeep
<1>3. ASSUME NEW k \in 0..MaxLines + 1, NEW ls \in [1..k -> Line], S!EditWidgets(e, ls)
      PROVE  ObjectivesInv'
  <2>1. /\ phase = "game" /\ phase' = phase /\ audience' = audience /\ S!Unsynced /\ obj' = obj
        /\ e \in S!Alive \cap Board /\ lines' = [lines EXCEPT ![e] = ls] /\ redraw' = redraw \cup {e}
    BY <1>3 DEF S!EditWidgets, S!Act
  <2>2. ls \in Seq(Line)
    <3>1. k \in Nat  BY DEF ObjectivesDistinct
    <3> QED BY <3>1
  <2>3. /\ obj' \in [Ranked -> Objective \cup {None}] /\ \A x \in S!Alive : obj'[x] # None
        /\ S!Alive' = S!Alive /\ lines' \in [Board -> Seq(Line)] /\ redraw' \subseteq S!Alive' \cap Board
    BY <1>1, <2>1, <2>2 DEF ObjectiveTypes, S!Alive
  <2>4. BoardsRendered'  BY <1>1, <2>1, <2>3 DEF BoardsRendered, S!Unsynced, S!state, ObjectiveTypes
  <2> QED BY <2>1, <2>3, <2>4, ObjectiveComponentsKeep
<1> QED BY <1>2, <1>3

LEMMA ObjectiveDespawnKeeps ==
  ASSUME ObjectivesDistinct, ObjectivesInv, NEW e \in Ranked, S!Despawn(e)
  PROVE  ObjectivesInv'
<1> DEFINE out == [x \in Ranked |-> IF x = e THEN viewers[e] ELSE {}]
<1>1. /\ ObjectiveTypes /\ BoardsRendered /\ ObjectivesClaimed /\ ObjectiveClaimsShown /\ broken = {}
      /\ ~MovesRefused => ObjectiveRefusedFor /\ ObjectivesMoving
  BY DEF ObjectivesInv
<1>2. /\ S!Withdraw(out)
      /\ phase = "game" /\ phase' = "game" /\ e \in S!Alive
      /\ freed' = (freed \/ own' # own \/ hold' # hold)
      /\ stale' = (IF own' # own \/ hold' # hold THEN Ranked ELSE stale)
      /\ obj' = [obj EXCEPT ![e] = None] /\ sent' = [sent EXCEPT ![e] = None]
      /\ viewers' = [viewers EXCEPT ![e] = {}] /\ refused' = [refused EXCEPT ![e] = {}]
      /\ redraw' = redraw \ {e}
      /\ UNCHANGED <<audience, lines, known, pending, todo, broken>>
  BY DEF S!Despawn, S!Act
<1>3. /\ out \in [Ranked -> SUBSET Player] /\ \A x \in Ranked : out[x] \subseteq viewers[x]
      /\ \A x \in Ranked : out[x] = IF x = e THEN viewers[e] ELSE {}
  BY <1>1 DEF ObjectiveTypes
<1> HIDE DEF out
<1>4. /\ own' \in [Player -> [Name -> Ranked \cup {None}]]
      /\ hold' \in [Player -> [Slot -> Ranked \cup {None}]]
      /\ objs' \in [Player -> [Name -> S!Body \cup {None}]]
      /\ display' \in [Player -> [Slot -> Name \cup {None}]]
      /\ \A p \in Player, n \in Name :
           IF own[p][n] # None /\ p \in out[own[p][n]]
           THEN own'[p][n] = None /\ objs'[p][n] = None
           ELSE own'[p][n] = own[p][n] /\ objs'[p][n] = objs[p][n]
      /\ \A p \in Player, s \in Slot :
           IF hold[p][s] # None /\ p \in out[hold[p][s]]
           THEN hold'[p][s] = None /\ display'[p][s] = None
           ELSE hold'[p][s] = hold[p][s] /\ display'[p][s] = display[p][s]
  BY <1>1, <1>2, <1>3, WithdrawSays
<1>5. \A p \in Player, n \in Name :
        IF own[p][n] = e
        THEN own'[p][n] = None /\ objs'[p][n] = None
        ELSE own'[p][n] = own[p][n] /\ objs'[p][n] = objs[p][n]
  <2> SUFFICES ASSUME NEW p \in Player, NEW n \in Name
               PROVE  IF own[p][n] = e
                      THEN own'[p][n] = None /\ objs'[p][n] = None
                      ELSE own'[p][n] = own[p][n] /\ objs'[p][n] = objs[p][n]
    OBVIOUS
  <2>1. own[p][n] \in Ranked \cup {None} /\ e # None  BY <1>1 DEF ObjectiveTypes, ObjectivesDistinct
  <2>2. own[p][n] = e => p \in out[e]  BY <1>1, <1>3, <2>1 DEF ObjectivesClaimed
  <2>3. own[p][n] # e /\ own[p][n] # None => out[own[p][n]] = {}  BY <1>3, <2>1
  <2> QED BY <1>4, <2>1, <2>2, <2>3
<1>6. \A p \in Player, s \in Slot :
        IF hold[p][s] = e
        THEN hold'[p][s] = None /\ display'[p][s] = None
        ELSE hold'[p][s] = hold[p][s] /\ display'[p][s] = display[p][s]
  BY <1>1, <1>3, <1>4 DEF ObjectiveTypes, ObjectivesClaimed, ObjectivesDistinct
<1>7. /\ obj' \in [Ranked -> Objective \cup {None}] /\ obj'[e] = None
      /\ sent' \in [Ranked -> Posted \cup {None}] /\ sent'[e] = None
      /\ viewers' \in [Ranked -> SUBSET Player] /\ viewers'[e] = {}
      /\ refused' \in [Ranked -> SUBSET Player] /\ refused'[e] = {}
      /\ \A x \in Ranked \ {e} : /\ obj'[x] = obj[x] /\ sent'[x] = sent[x]
                                  /\ viewers'[x] = viewers[x] /\ refused'[x] = refused[x]
  BY <1>1, <1>2 DEF ObjectiveTypes
<1>8. /\ S!Alive' = S!Alive \ {e} /\ S!Alive \subseteq Ranked /\ todo = {} /\ pending = {}
      /\ todo' = {} /\ pending' = {}
  BY <1>1, <1>2, <1>7 DEF S!Alive, ObjectiveTypes
<1>9. ObjectiveTypes'
  <2>1. redraw' \subseteq S!Alive' \cap Board  BY <1>1, <1>2, <1>8 DEF ObjectiveTypes
  <2>2. /\ \A x \in Ranked \ S!Alive' : sent'[x] = None
        /\ \A x \in Ranked : sent'[x] = None => viewers'[x] = {} /\ refused'[x] = {}
        /\ \A x \in Ranked : viewers'[x] \cap refused'[x] = {}
    BY <1>1, <1>7, <1>8 DEF ObjectiveTypes
  <2>3. (freed' => stale' = Ranked) /\ stale' \subseteq Ranked /\ freed' \in BOOLEAN
    BY <1>1, <1>2 DEF ObjectiveTypes
  <2> QED BY <1>1, <1>2, <1>4, <1>7, <1>8, <2>1, <2>2, <2>3 DEF ObjectiveTypes
<1>10. BoardsRendered'
  BY <1>1, <1>2, <1>7, <1>8 DEF BoardsRendered
<1>11. ObjectivesClaimed'
  <2>1. \A x \in Ranked : \A p \in viewers'[x] :
          own'[p][known'[x]] = x /\ hold'[p][sent'[x].slot] = x
    <3> SUFFICES ASSUME NEW x \in Ranked, NEW p \in viewers'[x]
                 PROVE  own'[p][known'[x]] = x /\ hold'[p][sent'[x].slot] = x
      OBVIOUS
    <3>1. x # e /\ p \in viewers[x] /\ p \in Player /\ sent[x] \in Posted
      BY <1>1, <1>7 DEF ObjectiveTypes
    <3>2. known[x] \in Name /\ sent[x].slot \in Slot  BY <1>1, <3>1 DEF ObjectiveTypes, Posted
    <3> QED BY <1>1, <1>2, <1>5, <1>6, <1>7, <3>1, <3>2 DEF ObjectivesClaimed
  <2>2. \A p \in Player, n \in Name : own'[p][n] # None =>
          p \in viewers'[own'[p][n]] /\ known'[own'[p][n]] = n
    BY <1>1, <1>2, <1>5, <1>7 DEF ObjectivesClaimed, ObjectiveTypes
  <2>3. \A p \in Player, s \in Slot : hold'[p][s] # None =>
          p \in viewers'[hold'[p][s]] /\ sent'[hold'[p][s]].slot = s
    BY <1>1, <1>2, <1>6, <1>7 DEF ObjectivesClaimed, ObjectiveTypes
  <2> QED BY <2>1, <2>2, <2>3 DEF ObjectivesClaimed
<1>12. ObjectiveClaimsShown'
  <2>1. \A p \in Player, n \in Name :
          objs'[p][n] = IF own'[p][n] = None THEN None ELSE sent'[own'[p][n]].body
    BY <1>1, <1>5, <1>7 DEF ObjectiveClaimsShown, ObjectiveTypes
  <2>2. \A p \in Player, s \in Slot :
          display'[p][s] = IF hold'[p][s] = None THEN None ELSE known'[hold'[p][s]]
    BY <1>1, <1>2, <1>6, <1>7 DEF ObjectiveClaimsShown, ObjectiveTypes
  <2> QED BY <2>1, <2>2 DEF ObjectiveClaimsShown
<1>13. ~MovesRefused => ObjectiveRefusedFor' /\ ObjectivesMoving'
  <2> SUFFICES ASSUME ~MovesRefused PROVE ObjectiveRefusedFor' /\ ObjectivesMoving'
    OBVIOUS
  <2>1. ObjectivesMoving'  BY <1>1, <1>2, <1>7, <1>8 DEF ObjectivesMoving
  <2>2. CASE own' # own \/ hold' # hold
    <3>1. stale' = Ranked  BY <1>2, <2>2
    <3> QED BY <1>8, <2>1, <3>1 DEF ObjectiveRefusedFor
  <2>3. CASE own' = own /\ hold' = hold
    <3>1. stale' = stale /\ known' = known  BY <1>2, <2>3
    <3>2. \A x \in S!Alive' : x \in S!Alive /\ sent'[x] = sent[x] /\ refused'[x] = refused[x]
      BY <1>7, <1>8
    <3>3. ObjectiveRefusedFor'  BY <1>1, <1>8, <2>3, <3>1, <3>2 DEF ObjectiveRefusedFor
    <3> QED BY <2>1, <3>3
  <2> QED BY <2>1, <2>2, <2>3
<1>14. ObjectivesCurrent'  BY <1>2 DEF ObjectivesCurrent
<1> QED BY <1>1, <1>2, <1>9, <1>10, <1>11, <1>12, <1>13, <1>14 DEF ObjectivesInv

LEMMA RenderKeeps ==
  ASSUME ObjectivesDistinct, ObjectivesInv, S!RenderSidebars
  PROVE  ObjectivesInv'
<1>1. /\ ObjectiveTypes /\ BoardsRendered /\ ObjectivesClaimed /\ ObjectiveClaimsShown /\ broken = {}
      /\ ~MovesRefused => ObjectiveRefusedFor /\ ObjectivesMoving
  BY DEF ObjectivesInv
<1> DEFINE body(e) == [r \in S!Part |-> IF r = -1 THEN obj[e].body[r] ELSE S!Scores(lines[e])[r]]
           drawn(e) == [obj[e] EXCEPT !.slot = BoardSlot, !.body = body(e)]
<1>2. /\ phase = "game" /\ phase' = "begin"
      /\ obj' = [e \in Ranked |-> IF e \in redraw THEN drawn(e) ELSE obj[e]]
      /\ redraw' = {} /\ UNCHANGED <<audience, lines>>
      /\ UNCHANGED <<known, sent, viewers, refused, stale, pending, todo, own, hold, freed,
                     objs, display, broken>>
  <2>1. /\ phase = "game" /\ phase' = "begin" /\ redraw' = {} /\ UNCHANGED <<audience, lines>>
        /\ UNCHANGED <<known, sent, viewers, refused, stale, pending, todo, own, hold, freed,
                       objs, display, broken>>
    BY DEF S!RenderSidebars, S!Unsynced, S!state, S!client
  <2>2. obj' = [e \in Ranked |-> IF e \in redraw THEN drawn(e) ELSE obj[e]]
    BY DEF S!RenderSidebars
  <2> QED BY <2>1, <2>2
<1>3. ASSUME NEW e \in redraw
      PROVE  /\ e \in S!Alive /\ e \in Board /\ e \in Ranked
             /\ drawn(e) \in Objective /\ drawn(e).name = obj[e].name
             /\ drawn(e).slot = BoardSlot /\ drawn(e).audience = obj[e].audience
             /\ \A r \in S!Row : drawn(e).body[r] = S!Scores(lines[e])[r]
  <2>1. e \in S!Alive /\ e \in Board /\ e \in Ranked /\ obj[e] \in Objective
        /\ lines[e] \in Seq(Line)
    BY <1>1 DEF ObjectiveTypes, S!Alive
  <2>2. \A r \in S!Row : r \in S!Part /\ r # -1 /\ r \in Int
    BY DEF S!Row, S!Part, ObjectivesDistinct
  <2>3. \A r \in S!Row : S!Scores(lines[e])[r] \in (Text \cup {None}) \cup (Int \X Line)
    <3> SUFFICES ASSUME NEW r \in S!Row
                 PROVE  S!Scores(lines[e])[r] \in (Text \cup {None}) \cup (Int \X Line)
      OBVIOUS
    <3>1. r \in Nat /\ MaxLines - r \in Int  BY DEF S!Row, ObjectivesDistinct
    <3>2. Len(lines[e]) \in Nat  BY <2>1
    <3>3. r < Len(lines[e]) => lines[e][r + 1] \in Line
      <4>1. r < Len(lines[e]) => r + 1 \in 1..Len(lines[e])  BY <3>1, <3>2
      <4> QED BY <2>1, <4>1
    <3>4. S!Scores(lines[e])[r] =
            IF r < Len(lines[e]) THEN <<MaxLines - r, lines[e][r + 1]>> ELSE None
      BY DEF S!Scores
    <3> QED BY <3>1, <3>3, <3>4
  <2>4. obj[e].body \in S!Body  BY <2>1 DEF Objective
  <2>5. body(e) \in S!Body /\ \A r \in S!Row : body(e)[r] = S!Scores(lines[e])[r]
    BY <2>2, <2>3, <2>4 DEF S!Body, S!Part
  <2> HIDE DEF body
  <2>6. /\ drawn(e) \in Objective /\ drawn(e).name = obj[e].name /\ drawn(e).body = body(e)
        /\ drawn(e).slot = BoardSlot /\ drawn(e).audience = obj[e].audience
    BY <2>1, <2>5 DEF Objective, ObjectivesDistinct
  <2> QED BY <2>1, <2>5, <2>6
<1> HIDE DEF drawn
<1>4. /\ \A e \in Ranked : obj'[e] = IF e \in redraw THEN drawn(e) ELSE obj[e]
      /\ obj' \in [Ranked -> Objective \cup {None}]
  BY <1>1, <1>2, <1>3 DEF ObjectiveTypes
<1>5. S!Alive' = S!Alive /\ S!Alive \subseteq Ranked /\ todo = {} /\ todo' = {}
  BY <1>1, <1>2, <1>3, <1>4 DEF S!Alive, ObjectiveTypes, ObjectivesDistinct
<1>6. ObjectiveTypes'  BY <1>1, <1>2, <1>4, <1>5 DEF ObjectiveTypes
<1>7. BoardsRendered'
  BY <1>1, <1>2, <1>3, <1>4, <1>5 DEF BoardsRendered
<1>8. ObjectivesClaimed' /\ ObjectiveClaimsShown' /\ ObjectivesCurrent'
  BY <1>1, <1>2 DEF ObjectivesClaimed, ObjectiveClaimsShown, ObjectivesCurrent
<1>9. ASSUME ~MovesRefused PROVE ObjectiveRefusedFor' /\ ObjectivesMoving'
  <2>1. ObjectiveRefusedFor'  BY <1>1, <1>2, <1>5, <1>9 DEF ObjectiveRefusedFor
  <2>2. \A e \in redraw : refused[e] # {} => obj[e].slot = BoardSlot
    BY <1>1, <1>3 DEF BoardsRendered, ObjectiveTypes
  <2>3. \A e \in S!Alive : refused[e] # {} => obj'[e].slot = obj[e].slot
    BY <1>3, <1>4, <1>5, <2>2
  <2>4. ObjectivesMoving'  BY <1>1, <1>2, <1>5, <1>9, <2>3 DEF ObjectivesMoving
  <2> QED BY <2>1, <2>4
<1> QED BY <1>1, <1>2, <1>6, <1>7, <1>8, <1>9 DEF ObjectivesInv

(* The first loop: who is out of an audience, or knows an old name, is told. *)
LEMMA ObjectivesBeginKeep ==
  ASSUME ObjectivesDistinct, ObjectivesInv, S!Begin
  PROVE  ObjectivesInv'
<1>1. /\ ObjectiveTypes /\ BoardsRendered /\ ObjectivesClaimed /\ ObjectiveClaimsShown /\ broken = {}
      /\ ~MovesRefused => ObjectiveRefusedFor /\ ObjectivesMoving
  BY DEF ObjectivesInv
<1> DEFINE out == [e \in Ranked |->
                     IF e \notin S!Alive THEN {}
                     ELSE IF S!Renamed(e) THEN viewers[e] ELSE viewers[e] \ S!Desired(e)]
           kept == [e \in Ranked |->
                     IF e \in S!Alive /\ (S!Renamed(e) \/ e \in stale) THEN {} ELSE refused[e]]
<1>2. /\ phase = "begin" /\ phase' = "sync" /\ S!Withdraw(out)
      /\ viewers' = [e \in Ranked |-> viewers[e] \ out[e]] /\ refused' = kept
      /\ known' = [e \in Ranked |-> IF e \in S!Alive THEN obj[e].name ELSE known[e]]
      /\ freed' = (own' # own \/ hold' # hold)
      /\ stale' = IF freed' THEN Ranked ELSE stale
      /\ todo' = S!Alive
      /\ UNCHANGED <<audience, obj, lines, redraw, broken>>
  BY DEF S!Begin
<1> DEFINE renamed == {e \in S!Alive : sent[e] # None /\ known[e] # obj[e].name}
<1>3. /\ renamed \subseteq S!Alive /\ S!Alive \subseteq Ranked
      /\ \A e \in S!Alive \ renamed : sent[e] # None => known[e] = obj[e].name
  BY DEF S!Alive
<1>4. /\ out \in [Ranked -> SUBSET Player] /\ \A e \in Ranked : out[e] \subseteq viewers[e]
      /\ \A e \in Ranked \ S!Alive : out[e] = {}
      /\ \A e \in renamed : out[e] = viewers[e]
      /\ \A e \in S!Alive \ renamed : out[e] = viewers[e] \ S!Desired(e)
  <2>1. \A e \in Ranked : out[e] = IF e \notin S!Alive THEN {}
                                   ELSE IF e \in renamed THEN viewers[e] ELSE viewers[e] \ S!Desired(e)
    BY DEF S!Renamed
  <2>2. out = [e \in Ranked |-> out[e]]  OBVIOUS
  <2> HIDE DEF out, renamed
  <2>3. /\ \A e \in Ranked \ S!Alive : out[e] = {}
        /\ \A e \in renamed : out[e] = viewers[e]
        /\ \A e \in S!Alive \ renamed : out[e] = viewers[e] \ S!Desired(e)
    BY <1>3, <2>1
  <2>4. \A e \in Ranked : out[e] \subseteq viewers[e]  BY <1>3, <2>3
  <2>5. out \in [Ranked -> SUBSET Player]  BY <1>1, <2>2, <2>4 DEF ObjectiveTypes
  <2> QED BY <2>3, <2>4, <2>5
<1>5. /\ kept \in [Ranked -> SUBSET Player] /\ \A e \in Ranked : kept[e] \subseteq refused[e]
      /\ \A e \in renamed \cup (S!Alive \cap stale) : kept[e] = {}
      /\ \A e \in Ranked \ (renamed \cup (S!Alive \cap stale)) : kept[e] = refused[e]
  <2>1. \A e \in Ranked : kept[e] = IF e \in renamed \cup (S!Alive \cap stale) THEN {} ELSE refused[e]
    BY DEF S!Renamed
  <2>2. kept = [e \in Ranked |-> kept[e]]  OBVIOUS
  <2> HIDE DEF kept, renamed
  <2> QED BY <1>1, <1>3, <2>1, <2>2 DEF ObjectiveTypes
<1>6. pending' = {e \in S!Alive :
        (IF e \in renamed THEN {} ELSE viewers[e]) \cup kept[e] # S!Desired(e)}
  BY DEF S!Begin, S!Renamed
<1>7. sent' = [e \in Ranked |-> IF e \in renamed THEN None ELSE sent[e]]
  BY DEF S!Begin, S!Renamed
<1> HIDE DEF out, kept, renamed
<1>8. /\ own' \in [Player -> [Name -> Ranked \cup {None}]]
      /\ hold' \in [Player -> [Slot -> Ranked \cup {None}]]
      /\ objs' \in [Player -> [Name -> S!Body \cup {None}]]
      /\ display' \in [Player -> [Slot -> Name \cup {None}]]
      /\ \A p \in Player, n \in Name :
           IF own[p][n] # None /\ p \in out[own[p][n]]
           THEN own'[p][n] = None /\ objs'[p][n] = None
           ELSE own'[p][n] = own[p][n] /\ objs'[p][n] = objs[p][n]
      /\ \A p \in Player, s \in Slot :
           IF hold[p][s] # None /\ p \in out[hold[p][s]]
           THEN hold'[p][s] = None /\ display'[p][s] = None
           ELSE hold'[p][s] = hold[p][s] /\ display'[p][s] = display[p][s]
  BY <1>1, <1>2, <1>4, WithdrawSays
<1>9. S!Alive' = S!Alive /\ S!Alive \subseteq Ranked /\ \A e \in S!Alive : obj[e] \in Objective
  BY <1>1, <1>2 DEF S!Alive, ObjectiveTypes
<1>10. /\ viewers' \in [Ranked -> SUBSET Player] /\ refused' \in [Ranked -> SUBSET Player]
       /\ sent' \in [Ranked -> Posted \cup {None}] /\ known' \in [Ranked -> Name]
       /\ \A e \in Ranked : viewers'[e] = viewers[e] \ out[e] /\ refused'[e] = kept[e]
       /\ \A e \in renamed : sent'[e] = None
       /\ \A e \in Ranked \ renamed : sent'[e] = sent[e]
       /\ \A e \in S!Alive : known'[e] = obj[e].name
       /\ \A e \in Ranked \ S!Alive : known'[e] = known[e]
  <2>1. \A e \in S!Alive : obj[e].name \in Name  BY <1>9 DEF Objective
  <2>2. viewers' \in [Ranked -> SUBSET Player]  BY <1>1, <1>2, <1>4 DEF ObjectiveTypes
  <2>3. refused' \in [Ranked -> SUBSET Player]  BY <1>2, <1>5
  <2>4. sent' \in [Ranked -> Posted \cup {None}]  BY <1>1, <1>7 DEF ObjectiveTypes
  <2>5. known' \in [Ranked -> Name]  BY <1>1, <1>2, <2>1 DEF ObjectiveTypes
  <2>6. \A e \in Ranked : viewers'[e] = viewers[e] \ out[e] /\ refused'[e] = kept[e]
    BY <1>2
  <2>7. /\ \A e \in S!Alive : known'[e] = obj[e].name
        /\ \A e \in Ranked \ S!Alive : known'[e] = known[e]
    BY <1>2, <1>3
  <2>8. /\ \A e \in renamed : sent'[e] = None
        /\ \A e \in Ranked \ renamed : sent'[e] = sent[e]
    BY <1>3, <1>7
  <2> QED BY <2>2, <2>3, <2>4, <2>5, <2>6, <2>7, <2>8
(* a viewer that stays knows it by the name it has and as it was sent *)
<1>11. \A e \in Ranked : \A p \in viewers'[e] :
        /\ p \in viewers[e] /\ p \notin out[e] /\ sent[e] # None
        /\ known'[e] = known[e] /\ sent'[e] = sent[e]
  <2> SUFFICES ASSUME NEW e \in Ranked, NEW p \in viewers'[e]
               PROVE  /\ p \in viewers[e] /\ p \notin out[e] /\ sent[e] # None
                      /\ known'[e] = known[e] /\ sent'[e] = sent[e]
    OBVIOUS
  <2>1. p \in viewers[e] /\ p \notin out[e] /\ sent[e] # None
    BY <1>1, <1>10 DEF ObjectiveTypes
  <2>2. e \notin renamed  BY <1>4, <1>3, <2>1
  <2> QED BY <1>10, <1>3, <2>1, <2>2
<1>12. ObjectiveTypes'
  <2>1. \A e \in Ranked : sent'[e] = None => viewers'[e] = {} /\ refused'[e] = {}
    <3> SUFFICES ASSUME NEW e \in Ranked, sent'[e] = None
                 PROVE  viewers'[e] = {} /\ refused'[e] = {}
      OBVIOUS
    <3>1. CASE e \in renamed  BY <1>4, <1>5, <1>10, <1>3, <3>1
    <3>2. CASE e \notin renamed
      <4>1. sent[e] = None  BY <1>10, <3>2
      <4> QED BY <1>1, <1>4, <1>5, <1>10, <4>1 DEF ObjectiveTypes
    <3> QED BY <3>1, <3>2
  <2>2. \A e \in Ranked : viewers'[e] \cap refused'[e] = {}
    BY <1>1, <1>5, <1>10 DEF ObjectiveTypes
  <2>3. \A e \in Ranked \ S!Alive' : sent'[e] = None  BY <1>1, <1>9, <1>10, <1>3 DEF ObjectiveTypes
  <2>4. /\ phase' = "sync" /\ redraw' = redraw /\ redraw = {} /\ audience' \subseteq Player
        /\ todo' \subseteq S!Alive' /\ redraw' \subseteq S!Alive' \cap Board
        /\ obj' \in [Ranked -> Objective \cup {None}] /\ lines' \in [Board -> Seq(Line)]
    BY <1>1, <1>2, <1>9 DEF ObjectiveTypes
  <2>5. pending' \subseteq todo'  BY <1>2, <1>6
  <2>6. freed' \in BOOLEAN /\ stale' \subseteq Ranked /\ (freed' => stale' = Ranked)
    BY <1>1, <1>2 DEF ObjectiveTypes
  <2> QED BY <1>8, <1>10, <2>1, <2>2, <2>3, <2>4, <2>5, <2>6 DEF ObjectiveTypes
<1>13. BoardsRendered'
  BY <1>1, <1>2, <1>9, <1>10 DEF BoardsRendered
<1>14. ObjectivesClaimed'
  <2>1. \A e \in Ranked : \A p \in viewers'[e] :
          own'[p][known'[e]] = e /\ hold'[p][sent'[e].slot] = e
    <3> SUFFICES ASSUME NEW e \in Ranked, NEW p \in viewers'[e]
                 PROVE  own'[p][known'[e]] = e /\ hold'[p][sent'[e].slot] = e
      OBVIOUS
    <3>1. /\ p \in viewers[e] /\ p \notin out[e] /\ known'[e] = known[e] /\ sent'[e] = sent[e]
          /\ p \in Player /\ sent[e] \in Posted
      BY <1>1, <1>11 DEF ObjectiveTypes
    <3>2. known[e] \in Name /\ sent[e].slot \in Slot  BY <1>1, <3>1 DEF ObjectiveTypes, Posted
    <3>3. own[p][known[e]] = e /\ hold[p][sent[e].slot] = e  BY <1>1, <3>1 DEF ObjectivesClaimed
    <3>4. own'[p][known[e]] = e  BY <1>8, <3>1, <3>2, <3>3
    <3>5. hold'[p][sent[e].slot] = e  BY <1>8, <3>1, <3>2, <3>3
    <3> QED BY <3>1, <3>4, <3>5
  <2>2. \A p \in Player, n \in Name : own'[p][n] # None =>
          p \in viewers'[own'[p][n]] /\ known'[own'[p][n]] = n
    <3> SUFFICES ASSUME NEW p \in Player, NEW n \in Name, own'[p][n] # None
                 PROVE  p \in viewers'[own'[p][n]] /\ known'[own'[p][n]] = n
      OBVIOUS
    <3>1. own'[p][n] = own[p][n] /\ p \notin out[own[p][n]] /\ own[p][n] \in Ranked
      BY <1>1, <1>8 DEF ObjectiveTypes
    <3>2. p \in viewers[own[p][n]] /\ known[own[p][n]] = n  BY <1>1, <3>1 DEF ObjectivesClaimed
    <3>3. p \in viewers'[own[p][n]]  BY <1>10, <3>1, <3>2
    <3> QED BY <1>11, <3>1, <3>2, <3>3
  <2>3. \A p \in Player, s \in Slot : hold'[p][s] # None =>
          p \in viewers'[hold'[p][s]] /\ sent'[hold'[p][s]].slot = s
    <3> SUFFICES ASSUME NEW p \in Player, NEW s \in Slot, hold'[p][s] # None
                 PROVE  p \in viewers'[hold'[p][s]] /\ sent'[hold'[p][s]].slot = s
      OBVIOUS
    <3>1. hold'[p][s] = hold[p][s] /\ p \notin out[hold[p][s]] /\ hold[p][s] \in Ranked
      BY <1>1, <1>8 DEF ObjectiveTypes
    <3>2. p \in viewers[hold[p][s]] /\ sent[hold[p][s]].slot = s  BY <1>1, <3>1 DEF ObjectivesClaimed
    <3>3. p \in viewers'[hold[p][s]]  BY <1>10, <3>1, <3>2
    <3> QED BY <1>11, <3>1, <3>2, <3>3
  <2> QED BY <2>1, <2>2, <2>3 DEF ObjectivesClaimed
<1>15. ObjectiveClaimsShown'
  <2>1. \A p \in Player, n \in Name :
          objs'[p][n] = IF own'[p][n] = None THEN None ELSE sent'[own'[p][n]].body
    <3> SUFFICES ASSUME NEW p \in Player, NEW n \in Name
                 PROVE  objs'[p][n] = IF own'[p][n] = None THEN None ELSE sent'[own'[p][n]].body
      OBVIOUS
    <3>1. own'[p][n] # None => /\ own'[p][n] \in Ranked /\ p \in viewers'[own'[p][n]]
      BY <1>8, <1>14 DEF ObjectivesClaimed
    <3>2. own'[p][n] # None => sent'[own'[p][n]] = sent[own'[p][n]]  BY <1>11, <3>1
    <3>3. objs[p][n] = IF own[p][n] = None THEN None ELSE sent[own[p][n]].body
      BY <1>1 DEF ObjectiveClaimsShown
    <3>4. \/ own'[p][n] = None /\ objs'[p][n] = None
          \/ own'[p][n] = own[p][n] /\ objs'[p][n] = objs[p][n]
      BY <1>8
    <3> QED BY <3>2, <3>3, <3>4
  <2>2. \A p \in Player, s \in Slot :
          display'[p][s] = IF hold'[p][s] = None THEN None ELSE known'[hold'[p][s]]
    <3> SUFFICES ASSUME NEW p \in Player, NEW s \in Slot
                 PROVE  display'[p][s] = IF hold'[p][s] = None THEN None ELSE known'[hold'[p][s]]
      OBVIOUS
    <3>1. hold'[p][s] # None => /\ hold'[p][s] \in Ranked /\ p \in viewers'[hold'[p][s]]
      BY <1>8, <1>14 DEF ObjectivesClaimed
    <3>2. hold'[p][s] # None => known'[hold'[p][s]] = known[hold'[p][s]]  BY <1>11, <3>1
    <3>3. display[p][s] = IF hold[p][s] = None THEN None ELSE known[hold[p][s]]
      BY <1>1 DEF ObjectiveClaimsShown
    <3>4. \/ hold'[p][s] = None /\ display'[p][s] = None
          \/ hold'[p][s] = hold[p][s] /\ display'[p][s] = display[p][s]
      BY <1>8
    <3> QED BY <3>2, <3>3, <3>4
  <2> QED BY <2>1, <2>2 DEF ObjectiveClaimsShown
<1>16. ObjectivesCurrent'
  <2> SUFFICES ASSUME NEW e \in S!Alive
               PROVE  /\ known'[e] = obj[e].name /\ viewers'[e] \subseteq S!Desired(e)
                      /\ e \notin pending' => viewers'[e] \cup refused'[e] = S!Desired(e)
    BY <1>2, <1>9 DEF ObjectivesCurrent, S!Desired
  <2>1. known'[e] = obj[e].name /\ viewers'[e] \subseteq S!Desired(e)  BY <1>4, <1>9, <1>10
  <2>2. e \notin pending' => viewers'[e] \cup refused'[e] = S!Desired(e)
    <3> SUFFICES ASSUME e \notin pending' PROVE viewers'[e] \cup refused'[e] = S!Desired(e)
      OBVIOUS
    <3>1. (IF e \in renamed THEN {} ELSE viewers[e]) \cup kept[e] = S!Desired(e)  BY <1>6
    <3> QED BY <1>4, <1>9, <1>10, <3>1
  <2> QED BY <2>1, <2>2
<1>17. ASSUME ~MovesRefused PROVE ObjectiveRefusedFor' /\ ObjectivesMoving'
  <2>1. CASE own' # own \/ hold' # hold
    <3>1. stale' = Ranked /\ freed'  BY <1>2, <2>1
    <3>2. ObjectiveRefusedFor'  BY <1>9, <3>1 DEF ObjectiveRefusedFor
    <3>3. ObjectivesMoving'  BY <1>2, <3>1 DEF ObjectivesMoving
    <3> QED BY <3>2, <3>3
  <2>2. CASE own' = own /\ hold' = hold
    <3>1. stale' = stale /\ ~freed' /\ todo' = S!Alive  BY <1>2, <2>2
    <3>2. \A e \in Ranked : viewers'[e] = viewers[e]
      <4> SUFFICES ASSUME NEW e \in Ranked, NEW p \in viewers[e] PROVE p \in viewers'[e]
        BY <1>10
      <4>1. known[e] \in Name /\ p \in Player /\ own[p][known[e]] = e /\ e # None
        BY <1>1 DEF ObjectiveTypes, ObjectivesClaimed, ObjectivesDistinct
      <4>2. p \notin out[e]  BY <1>8, <2>2, <4>1
      <4> QED BY <1>10, <4>2
    <3>3. \A e \in S!Alive : refused'[e] # {} =>
            /\ e \notin stale /\ refused'[e] = refused[e]
            /\ sent'[e] = sent[e] /\ known'[e] = known[e]
      <4> SUFFICES ASSUME NEW e \in S!Alive, refused'[e] # {}
                   PROVE  /\ e \notin stale /\ refused'[e] = refused[e]
                          /\ sent'[e] = sent[e] /\ known'[e] = known[e]
        OBVIOUS
      <4>1. e \notin renamed /\ e \notin stale /\ refused'[e] = refused[e] /\ sent'[e] = sent[e]
        BY <1>5, <1>9, <1>10
      <4>2. sent[e] # None  BY <1>1, <1>9, <4>1 DEF ObjectiveTypes
      <4> QED BY <1>9, <1>10, <1>3, <4>1, <4>2
    <3>4. ObjectiveRefusedFor'  BY <1>1, <1>9, <1>17, <2>2, <3>3 DEF ObjectiveRefusedFor
    <3>5. ObjectivesMoving'
      BY <1>1, <1>2, <1>9, <1>17, <3>2, <3>3 DEF ObjectivesMoving
    <3> QED BY <3>4, <3>5
  <2> QED BY <2>1, <2>2
<1> QED BY <1>1, <1>2, <1>12, <1>13, <1>14, <1>15, <1>16, <1>17 DEF ObjectivesInv

(* The parts of a body that changed are all of what changed. *)
LEMMA UpdatedAll == ASSUME NEW b \in S!Body, NEW c \in S!Body PROVE S!Updated(b, b, c) = c
<1>1. S!Updated(b, b, c) = [r \in S!Part |-> c[r]]  BY DEF S!Updated
<1>2. c = [r \in S!Part |-> c[r]]  BY DEF S!Body
<1> QED BY <1>1, <1>2

(* The second loop, for one objective. *)
LEMMA ObjectiveSyncKeeps ==
  ASSUME ObjectivesDistinct, ObjectivesInv, NEW e \in Ranked, S!Sync(e)
  PROVE  ObjectivesInv'
<1> DEFINE o     == obj[e]
           s     == o.slot
           n     == o.name
           moved == sent[e] # None /\ sent[e].slot # s
           lost  == S!Lost(e, moved)
           stay  == viewers[e] \ lost
           out   == refused[e] \cup lost
           own1  == [p \in Player |-> IF p \in lost THEN S!Released(own[p], n, e) ELSE own[p]]
           hold1 == [p \in Player |->
                       IF moved /\ p \in viewers[e]
                       THEN LET h == S!Released(hold[p], sent[e].slot, e) IN
                            IF p \in stay THEN [h EXCEPT ![s] = e] ELSE h
                       ELSE hold[p]]
           new   == IF e \in pending THEN S!Desired(e) \ (stay \cup out) ELSE {}
           win   == {p \in new : hold1[p][s] \in {None, e} /\ own1[p][n] \in {None, e}}
           rel   == own1 # own \/ (moved /\ viewers[e] # {})
<1>1. /\ ObjectiveTypes /\ BoardsRendered /\ ObjectivesClaimed /\ ObjectiveClaimsShown /\ ObjectivesCurrent /\ broken = {}
      /\ ~MovesRefused => ObjectiveRefusedFor /\ ObjectivesMoving
  BY DEF ObjectivesInv
<1>2. /\ phase = "sync" /\ phase' = "sync" /\ e \in todo /\ todo' = todo \ {e}
      /\ pending' = pending \ {e} /\ UNCHANGED <<audience, obj, lines, redraw, known>>
  BY DEF S!Sync
<1>3. /\ own' = [p \in Player |-> IF p \in win THEN [own1[p] EXCEPT ![n] = e] ELSE own1[p]]
      /\ hold' = [p \in Player |-> IF p \in win THEN [hold1[p] EXCEPT ![s] = e] ELSE hold1[p]]
      /\ viewers' = [viewers EXCEPT ![e] = stay \cup win]
      /\ refused' = [refused EXCEPT ![e] =
           IF e \in pending THEN (out \cap S!Desired(e)) \cup (new \ win) ELSE out]
      /\ sent' = [sent EXCEPT ![e] = [slot |-> s, body |-> o.body]]
  BY DEF S!Sync
<1>4. freed' = (freed \/ rel) /\ stale' = (IF rel THEN Ranked ELSE S!Marked(e))
  BY DEF S!Sync
<1>5. objs' = [p \in Player |->
        [objs[p] EXCEPT ![n] =
           IF p \in lost THEN None
           ELSE IF p \in win THEN o.body
           ELSE IF p \in stay /\ @ # None /\ sent[e] # None
                THEN S!Updated(@, sent[e].body, o.body)
           ELSE @]]
  BY DEF S!Sync
<1>6. display' = [p \in Player |-> [x \in Slot |->
        CASE p \in lost /\ display[p][x] = n -> None
          [] p \in stay /\ moved /\ x = sent[e].slot -> None
          [] (p \in win \/ (p \in stay /\ moved)) /\ x = s -> n
          [] OTHER -> display[p][x]]]
  BY DEF S!Sync
<1>7. broken' = broken \cup {p \in win : objs[p][n] # None}
  BY DEF S!Sync
<1>8. /\ e \in S!Alive /\ S!Alive' = S!Alive /\ S!Alive \subseteq Ranked /\ o \in Objective
      /\ n \in Name /\ s \in Slot /\ o.body \in S!Body /\ e # None
      /\ known[e] = n /\ viewers[e] \subseteq S!Desired(e) /\ S!Desired(e) \subseteq Player
      /\ redraw = {} /\ S!Desired(e)' = S!Desired(e)
  <2>1. e \in S!Alive /\ S!Alive' = S!Alive /\ S!Alive \subseteq Ranked /\ redraw = {} /\ e # None
    BY <1>1, <1>2 DEF ObjectiveTypes, S!Alive, ObjectivesDistinct
  <2>2. o \in Objective  BY <1>1, <2>1 DEF ObjectiveTypes, S!Alive
  <2>3. n \in Name /\ s \in Slot /\ o.body \in S!Body /\ o.audience \subseteq Player
    BY <2>2 DEF Objective
  <2>4. known[e] = n /\ viewers[e] \subseteq S!Desired(e)  BY <1>1, <1>2, <2>1 DEF ObjectivesCurrent
  <2>5. S!Desired(e) \subseteq Player /\ S!Desired(e)' = S!Desired(e)  BY <1>2, <2>3 DEF S!Desired
  <2> QED BY <2>1, <2>2, <2>3, <2>4, <2>5
<1>9. /\ lost \subseteq viewers[e] /\ (lost # {} => moved)
      /\ \A p \in viewers[e] : p \notin lost /\ moved => hold[p][s] \in {None, e}
  BY DEF S!Lost
<1>10. \A p \in viewers[e] :
         /\ p \in Player /\ own[p][n] = e /\ sent[e] \in Posted /\ sent[e] # None
         /\ sent[e].slot \in Slot /\ sent[e].body \in S!Body /\ hold[p][sent[e].slot] = e
  <2> SUFFICES ASSUME NEW p \in viewers[e]
               PROVE  /\ p \in Player /\ own[p][n] = e /\ sent[e] \in Posted /\ sent[e] # None
                      /\ sent[e].slot \in Slot /\ sent[e].body \in S!Body
                      /\ hold[p][sent[e].slot] = e
    OBVIOUS
  <2>1. p \in Player /\ sent[e] \in Posted /\ sent[e] # None  BY <1>1 DEF ObjectiveTypes
  <2>2. own[p][n] = e /\ hold[p][sent[e].slot] = e  BY <1>1, <1>8 DEF ObjectivesClaimed
  <2>3. sent[e].slot \in Slot /\ sent[e].body \in S!Body  BY <2>1 DEF Posted
  <2> QED BY <2>1, <2>2, <2>3
<1>11. moved \in BOOLEAN /\ (sent[e] # None /\ ~moved => sent[e].slot = s)
       /\ (moved => sent[e].slot # s)
  OBVIOUS
<1>12. /\ \A p \in Player \ lost : own1[p] = own[p]
       /\ \A p \in lost : /\ own1[p] \in [Name -> Ranked \cup {None}] /\ own1[p][n] = None
                          /\ \A k \in Name \ {n} : own1[p][k] = own[p][k]
       /\ own1 \in [Player -> [Name -> Ranked \cup {None}]]
  <2>1. \A p \in Player : own[p] \in [Name -> Ranked \cup {None}]  BY <1>1 DEF ObjectiveTypes
  <2>2. \A p \in Player : own1[p] = IF p \in lost THEN S!Released(own[p], n, e) ELSE own[p]
    OBVIOUS
  <2>3. ASSUME NEW p \in lost
        PROVE  /\ p \in Player /\ own1[p] \in [Name -> Ranked \cup {None}] /\ own1[p][n] = None
               /\ \A k \in Name \ {n} : own1[p][k] = own[p][k]
    <3>1. p \in Player /\ own[p][n] = e  BY <1>9, <1>10
    <3>2. own1[p] = [own[p] EXCEPT ![n] = None]  BY <2>2, <3>1 DEF S!Released
    <3> HIDE DEF own1
    <3> QED BY <1>8, <2>1, <3>1, <3>2
  <2>4. own1 = [p \in Player |-> own1[p]]  OBVIOUS
  <2> HIDE DEF own1
  <2>5. \A p \in Player \ lost : own1[p] = own[p]  BY <2>2
  <2>6. own1 \in [Player -> [Name -> Ranked \cup {None}]]  BY <2>1, <2>3, <2>4, <2>5
  <2> QED BY <2>3, <2>5, <2>6
<1>13. /\ \A p \in Player : ~(moved /\ p \in viewers[e]) => hold1[p] = hold[p]
       /\ \A p \in viewers[e] : moved =>
            /\ hold1[p] \in [Slot -> Ranked \cup {None}]
            /\ hold1[p][sent[e].slot] = None
            /\ p \in stay => hold1[p][s] = e
            /\ \A x \in Slot : x # sent[e].slot /\ (p \in stay => x # s) => hold1[p][x] = hold[p][x]
       /\ hold1 \in [Player -> [Slot -> Ranked \cup {None}]]
  <2>1. \A p \in Player : hold[p] \in [Slot -> Ranked \cup {None}]  BY <1>1 DEF ObjectiveTypes
  <2>2. \A p \in Player : ~(moved /\ p \in viewers[e]) => hold1[p] = hold[p]  OBVIOUS
  <2>3. ASSUME NEW p \in viewers[e], moved
        PROVE  /\ hold1[p] \in [Slot -> Ranked \cup {None}]
               /\ hold1[p][sent[e].slot] = None
               /\ p \in stay => hold1[p][s] = e
               /\ \A x \in Slot : x # sent[e].slot /\ (p \in stay => x # s) =>
                    hold1[p][x] = hold[p][x]
    <3>1. /\ p \in Player /\ hold[p][sent[e].slot] = e /\ sent[e].slot \in Slot
          /\ sent[e].slot # s
      BY <1>10, <2>3
    <3>2. hold1[p] = IF p \in stay
                     THEN [S!Released(hold[p], sent[e].slot, e) EXCEPT ![s] = e]
                     ELSE S!Released(hold[p], sent[e].slot, e)
      BY <2>3, <3>1
    <3>3. S!Released(hold[p], sent[e].slot, e) = [hold[p] EXCEPT ![sent[e].slot] = None]
      BY <3>1 DEF S!Released
    <3> HIDE DEF hold1, moved, stay, s
    <3>4. CASE p \in stay
      <4>1. hold1[p] = [[hold[p] EXCEPT ![sent[e].slot] = None] EXCEPT ![s] = e]
        BY <3>2, <3>3, <3>4
      <4> QED BY <1>8, <2>1, <3>1, <3>4, <4>1
    <3>5. CASE p \notin stay
      <4>1. hold1[p] = [hold[p] EXCEPT ![sent[e].slot] = None]  BY <3>2, <3>3, <3>5
      <4> QED BY <1>8, <2>1, <3>1, <3>5, <4>1
    <3> QED BY <3>4, <3>5
  <2>4. hold1 = [p \in Player |-> hold1[p]]  OBVIOUS
  <2> HIDE DEF hold1, moved
  <2>5. hold1 \in [Player -> [Slot -> Ranked \cup {None}]]
    <3>1. \A p \in Player : hold1[p] \in [Slot -> Ranked \cup {None}]  BY <2>1, <2>2, <2>3
    <3> QED BY <2>4, <3>1
  <2> QED BY <2>2, <2>3, <2>5
<1> HIDE DEF own1, hold1, moved, lost, o, s, n
<1>14. /\ win \subseteq new /\ win \subseteq Player
       /\ \A p \in win : /\ p \notin viewers[e] /\ own1[p] = own[p] /\ hold1[p] = hold[p]
                         /\ own[p][n] = None /\ hold[p][s] = None
  <2>1. new \subseteq Player /\ \A p \in new : p \notin viewers[e]  BY <1>8, <1>9
  <2> SUFFICES ASSUME NEW p \in win
               PROVE  /\ p \notin viewers[e] /\ own1[p] = own[p] /\ hold1[p] = hold[p]
                      /\ own[p][n] = None /\ hold[p][s] = None
    BY <2>1
  <2>2. p \in new /\ p \in Player /\ p \notin viewers[e]  BY <2>1
  <2>3. own1[p] = own[p] /\ hold1[p] = hold[p]  BY <1>9, <1>12, <1>13, <2>2
  <2>4. own[p][n] \in {None, e} /\ hold[p][s] \in {None, e}  BY <2>3
  <2>5. own[p][n] # e /\ hold[p][s] # e  BY <1>1, <1>8, <2>2 DEF ObjectivesClaimed
  <2> QED BY <2>2, <2>3, <2>4, <2>5
(* who stays, who wins and who loses it: three disjoint sets *)
<1>15. /\ stay \subseteq viewers[e] /\ lost \subseteq viewers[e] /\ viewers[e] = stay \cup lost
       /\ stay \cap lost = {} /\ win \cap viewers[e] = {} /\ viewers[e] \subseteq Player
       /\ (lost # {} => moved)
  BY <1>8, <1>9, <1>14
<1>16. /\ e \in pending => new = S!Desired(e) \ (stay \cup out)
       /\ e \notin pending => new = {}
       /\ out = refused[e] \cup lost
  OBVIOUS
<1>17. \A p \in new \ win : own1[p][n] \notin {None, e} \/ hold1[p][s] \notin {None, e}
  OBVIOUS
<1> HIDE DEF win, new, stay, out
(* names *)
<1>18. /\ own' \in [Player -> [Name -> Ranked \cup {None}]]
       /\ \A p \in win \cup stay : own'[p][n] = e
       /\ \A p \in lost : own'[p][n] = None
       /\ \A p \in Player, k \in Name :
            (p \notin win \cup viewers[e] \/ k # n) => own'[p][k] = own[p][k]
  <2>1. /\ \A p \in win : own'[p] = [own1[p] EXCEPT ![n] = e]
        /\ \A p \in Player \ win : own'[p] = own1[p]
        /\ own' = [p \in Player |-> own'[p]]
    BY <1>3, <1>14
  <2>2. \A p \in Player : own1[p] \in [Name -> Ranked \cup {None}]  BY <1>12
  <2>3. ASSUME NEW p \in win
        PROVE  /\ own'[p] \in [Name -> Ranked \cup {None}] /\ own'[p][n] = e
               /\ \A k \in Name \ {n} : own'[p][k] = own[p][k]
    <3>1. own[p] \in [Name -> Ranked \cup {None}]  BY <1>14, <2>2
    <3>2. own'[p] = [own[p] EXCEPT ![n] = e]  BY <1>14, <2>1
    <3> QED BY <1>8, <3>1, <3>2
  <2>4. \A p \in stay : own'[p][n] = e  BY <1>10, <1>12, <1>15, <2>1
  <2>5. \A p \in lost : own'[p][n] = None  BY <1>12, <1>15, <2>1
  <2>6. own' \in [Player -> [Name -> Ranked \cup {None}]]
    <3>1. \A p \in Player : own'[p] \in [Name -> Ranked \cup {None}]  BY <2>1, <2>2, <2>3
    <3> QED BY <2>1, <3>1
  <2>7. \A p \in Player, k \in Name :
          (p \notin win \cup viewers[e] \/ k # n) => own'[p][k] = own[p][k]
    BY <1>12, <1>15, <2>1, <2>3
  <2> QED BY <2>3, <2>4, <2>5, <2>6, <2>7
(* slots *)
<1>19. /\ hold' \in [Player -> [Slot -> Ranked \cup {None}]]
       /\ \A p \in win : hold'[p][s] = e
       /\ \A p \in stay : moved => hold'[p][s] = e
       /\ \A p \in viewers[e] : moved => hold'[p][sent[e].slot] = None
       /\ \A p \in Player, x \in Slot :
            /\ ~((p \in win \/ (p \in stay /\ moved)) /\ x = s)
            /\ ~(moved /\ p \in viewers[e] /\ x = sent[e].slot)
            => hold'[p][x] = hold[p][x]
  <2>1. /\ \A p \in win : hold'[p] = [hold1[p] EXCEPT ![s] = e]
        /\ \A p \in Player \ win : hold'[p] = hold1[p]
        /\ hold' = [p \in Player |-> hold'[p]]
    BY <1>3, <1>14
  <2>2. \A p \in Player : hold1[p] \in [Slot -> Ranked \cup {None}]  BY <1>13
  <2>3. ASSUME NEW p \in win
        PROVE  /\ hold'[p] \in [Slot -> Ranked \cup {None}] /\ hold'[p][s] = e
               /\ \A x \in Slot \ {s} : hold'[p][x] = hold[p][x]
    <3>1. hold[p] \in [Slot -> Ranked \cup {None}]  BY <1>14, <2>2
    <3>2. hold'[p] = [hold[p] EXCEPT ![s] = e]  BY <1>14, <2>1
    <3> QED BY <1>8, <3>1, <3>2
  <2>4. \A p \in stay : moved => hold'[p][s] = e  BY <1>13, <1>15, <2>1
  <2>5. \A p \in viewers[e] : moved => hold'[p][sent[e].slot] = None  BY <1>13, <1>15, <2>1
  <2>6. hold' \in [Player -> [Slot -> Ranked \cup {None}]]
    <3>1. \A p \in Player : hold'[p] \in [Slot -> Ranked \cup {None}]  BY <2>1, <2>2, <2>3
    <3> QED BY <2>1, <3>1
  <2>7. ASSUME NEW p \in Player, NEW x \in Slot,
               ~((p \in win \/ (p \in stay /\ moved)) /\ x = s),
               ~(moved /\ p \in viewers[e] /\ x = sent[e].slot)
        PROVE  hold'[p][x] = hold[p][x]
    <3>1. CASE p \in win  BY <2>3, <2>7, <3>1
    <3>2. CASE p \notin win /\ moved /\ p \in viewers[e]  BY <1>13, <1>15, <2>1, <2>7, <3>2
    <3>3. CASE p \notin win /\ ~(moved /\ p \in viewers[e])  BY <1>13, <2>1, <3>3
    <3> QED BY <3>1, <3>2, <3>3
  <2> QED BY <2>3, <2>4, <2>5, <2>6, <2>7
(* what clients have *)
<1>20. /\ objs' \in [Player -> [Name -> S!Body \cup {None}]]
       /\ \A p \in win \cup stay : objs'[p][n] = o.body
       /\ \A p \in lost : objs'[p][n] = None
       /\ \A p \in Player, k \in Name :
            (p \notin win \cup viewers[e] \/ k # n) => objs'[p][k] = objs[p][k]
  <2> DEFINE has(p) == IF p \in lost THEN None
                       ELSE IF p \in win THEN o.body
                       ELSE IF p \in stay /\ objs[p][n] # None /\ sent[e] # None
                            THEN S!Updated(objs[p][n], sent[e].body, o.body)
                       ELSE objs[p][n]
  <2>1. objs' = [p \in Player |-> [objs[p] EXCEPT ![n] = has(p)]]  BY <1>5
  <2>2. \A p \in Player : objs[p] \in [Name -> S!Body \cup {None}]  BY <1>1 DEF ObjectiveTypes
  <2>3. \A p \in lost : has(p) = None  OBVIOUS
  <2>4. \A p \in win : has(p) = o.body  BY <1>15
  <2>5. \A p \in stay : has(p) = o.body
    <3> SUFFICES ASSUME NEW p \in stay PROVE has(p) = o.body
      OBVIOUS
    <3>1. p \in viewers[e] /\ p \notin lost /\ p \notin win  BY <1>15
    <3>2. sent[e] # None /\ sent[e].body \in S!Body /\ own[p][n] = e /\ p \in Player
      BY <1>10, <3>1
    <3>3. objs[p][n] = sent[e].body /\ objs[p][n] # None
      BY <1>1, <1>8, <3>2 DEF ObjectiveClaimsShown, ObjectivesDistinct
    <3>4. S!Updated(objs[p][n], sent[e].body, o.body) = o.body  BY <1>8, <3>2, <3>3, UpdatedAll
    <3> QED BY <3>1, <3>2, <3>3, <3>4
  <2>6. \A p \in Player \ (win \cup viewers[e]) : has(p) = objs[p][n]  BY <1>15
  <2> HIDE DEF has
  <2>7. \A p \in Player : has(p) \in S!Body \cup {None}
    BY <1>8, <1>15, <2>2, <2>3, <2>4, <2>5, <2>6
  <2>8. \A p \in Player : /\ objs'[p] \in [Name -> S!Body \cup {None}] /\ objs'[p][n] = has(p)
                          /\ \A k \in Name \ {n} : objs'[p][k] = objs[p][k]
    BY <1>8, <2>1, <2>2, <2>7
  <2>9. objs' \in [Player -> [Name -> S!Body \cup {None}]]
    <3>1. objs' = [p \in Player |-> objs'[p]]  BY <2>1
    <3> QED BY <2>8, <3>1
  <2>10. \A p \in win \cup stay : objs'[p][n] = o.body  BY <1>14, <1>15, <2>4, <2>5, <2>8
  <2>11. \A p \in lost : objs'[p][n] = None  BY <1>15, <2>3, <2>8
  <2>12. \A p \in Player, k \in Name :
           (p \notin win \cup viewers[e] \/ k # n) => objs'[p][k] = objs[p][k]
    BY <1>8, <2>6, <2>8
  <2> QED BY <2>9, <2>10, <2>11, <2>12
(* a display slot is cleared with the objective it showed *)
<1>21. \A p \in lost, x \in Slot : display[p][x] = n <=> x = sent[e].slot
  <2> SUFFICES ASSUME NEW p \in lost, NEW x \in Slot
               PROVE  display[p][x] = n <=> x = sent[e].slot
    OBVIOUS
  <2>1. p \in viewers[e] /\ p \in Player /\ own[p][n] = e /\ hold[p][sent[e].slot] = e
    BY <1>10, <1>15
  <2>2. display[p][x] = IF hold[p][x] = None THEN None ELSE known[hold[p][x]]
    BY <1>1, <2>1 DEF ObjectiveClaimsShown
  <2>3. x = sent[e].slot => display[p][x] = n  BY <1>8, <2>1, <2>2
  <2>4. ASSUME display[p][x] = n PROVE x = sent[e].slot
    <3>1. hold[p][x] # None /\ known[hold[p][x]] = n
      BY <1>8, <2>2, <2>4 DEF ObjectivesDistinct
    <3>2. hold[p][x] \in Ranked  BY <1>1, <2>1, <3>1 DEF ObjectiveTypes
    <3>3. p \in viewers[hold[p][x]] /\ sent[hold[p][x]].slot = x
      BY <1>1, <2>1, <3>1 DEF ObjectivesClaimed
    <3>4. own[p][n] = hold[p][x]  BY <1>1, <3>1, <3>2, <3>3 DEF ObjectivesClaimed
    <3> QED BY <2>1, <3>3, <3>4
  <2> QED BY <2>3, <2>4
<1>22. /\ display' \in [Player -> [Slot -> Name \cup {None}]]
       /\ \A p \in win : display'[p][s] = n
       /\ \A p \in stay : moved => display'[p][s] = n
       /\ \A p \in viewers[e] : moved => display'[p][sent[e].slot] = None
       /\ \A p \in Player, x \in Slot :
            /\ ~((p \in win \/ (p \in stay /\ moved)) /\ x = s)
            /\ ~(moved /\ p \in viewers[e] /\ x = sent[e].slot)
            => display'[p][x] = display[p][x]
  <2> DEFINE shows(p, x) ==
               CASE p \in lost /\ display[p][x] = n -> None
                 [] p \in stay /\ moved /\ x = sent[e].slot -> None
                 [] (p \in win \/ (p \in stay /\ moved)) /\ x = s -> n
                 [] OTHER -> display[p][x]
  <2>1. display' = [p \in Player |-> [x \in Slot |-> shows(p, x)]]  BY <1>6
  <2>2. ASSUME NEW p \in Player, NEW x \in Slot, p \in lost, display[p][x] = n
        PROVE  shows(p, x) = None
    <3>1. p \notin stay /\ p \notin win  BY <1>15, <2>2
    <3> QED BY <2>2, <3>1
  <2>3. ASSUME NEW p \in Player, NEW x \in Slot, p \in stay, moved, x = sent[e].slot
        PROVE  shows(p, x) = None
    <3>1. p \notin lost /\ p \notin win /\ x # s  BY <1>11, <1>15, <2>3
    <3> QED BY <2>3, <3>1
  <2>4. ASSUME NEW p \in Player, NEW x \in Slot, p \in win \/ (p \in stay /\ moved), x = s
        PROVE  shows(p, x) = n
    <3>1. p \notin lost /\ ~(p \in stay /\ moved /\ x = sent[e].slot)  BY <1>11, <1>15, <2>4
    <3> QED BY <2>4, <3>1
  <2>5. ASSUME NEW p \in Player, NEW x \in Slot,
               ~(p \in lost /\ display[p][x] = n),
               ~(p \in stay /\ moved /\ x = sent[e].slot),
               ~((p \in win \/ (p \in stay /\ moved)) /\ x = s)
        PROVE  shows(p, x) = display[p][x]
    BY <2>5
  <2> HIDE DEF shows
  <2>6. \A p \in Player, x \in Slot : display'[p][x] = shows(p, x)  BY <2>1
  <2>7. \A p \in win : display'[p][s] = n  BY <1>8, <1>14, <2>4, <2>6
  <2>8. \A p \in stay : moved => display'[p][s] = n  BY <1>8, <1>15, <2>4, <2>6
  <2>9. ASSUME NEW p \in viewers[e], moved PROVE display'[p][sent[e].slot] = None
    <3>1. p \in Player /\ sent[e].slot \in Slot  BY <1>10
    <3>2. CASE p \in lost
      <4>1. display[p][sent[e].slot] = n  BY <1>21, <3>1, <3>2
      <4> QED BY <2>2, <2>6, <3>1, <3>2, <4>1
    <3>3. CASE p \in stay  BY <2>3, <2>6, <2>9, <3>1, <3>3
    <3> QED BY <1>15, <3>2, <3>3
  <2>10. ASSUME NEW p \in Player, NEW x \in Slot,
                ~((p \in win \/ (p \in stay /\ moved)) /\ x = s),
                ~(moved /\ p \in viewers[e] /\ x = sent[e].slot)
         PROVE  display'[p][x] = display[p][x]
    <3>1. ~(p \in lost /\ display[p][x] = n)  BY <1>15, <1>21, <2>10
    <3>2. ~(p \in stay /\ moved /\ x = sent[e].slot)  BY <1>15, <2>10
    <3> QED BY <2>5, <2>6, <2>10, <3>1, <3>2
  <2>11. display' \in [Player -> [Slot -> Name \cup {None}]]
    <3>1. \A p \in Player, x \in Slot : shows(p, x) \in Name \cup {None}
      <4> SUFFICES ASSUME NEW p \in Player, NEW x \in Slot PROVE shows(p, x) \in Name \cup {None}
        OBVIOUS
      <4>1. display[p][x] \in Name \cup {None}  BY <1>1 DEF ObjectiveTypes
      <4>2. shows(p, x) \in {None, n, display[p][x]}  BY <2>2, <2>3, <2>4, <2>5
      <4> QED BY <1>8, <4>1, <4>2
    <3> QED BY <2>1, <3>1
  <2> QED BY <2>7, <2>8, <2>9, <2>10, <2>11
(* SyncState *)
<1>23. /\ viewers' \in [Ranked -> SUBSET Player] /\ viewers'[e] = stay \cup win
       /\ refused' \in [Ranked -> SUBSET Player]
       /\ e \in pending => refused'[e] = (out \cap S!Desired(e)) \cup (new \ win)
       /\ e \notin pending => refused'[e] = out
       /\ sent' \in [Ranked -> Posted \cup {None}]
       /\ sent'[e] = [slot |-> s, body |-> o.body] /\ sent'[e].slot = s
       /\ sent'[e].body = o.body /\ sent'[e] # None
       /\ \A x \in Ranked \ {e} : /\ viewers'[x] = viewers[x] /\ refused'[x] = refused[x]
                                   /\ sent'[x] = sent[x]
  <2>1. stay \cup win \subseteq Player  BY <1>14, <1>15
  <2>2. viewers' \in [Ranked -> SUBSET Player] /\ viewers'[e] = stay \cup win
        /\ \A x \in Ranked \ {e} : viewers'[x] = viewers[x]
    BY <1>1, <1>3, <2>1 DEF ObjectiveTypes
  <2>3. /\ \A x \in Ranked \ {e} : refused'[x] = refused[x]
        /\ e \in pending => refused'[e] = (out \cap S!Desired(e)) \cup (new \ win)
        /\ e \notin pending => refused'[e] = out
        /\ refused' = [x \in Ranked |-> refused'[x]]
    BY <1>1, <1>3 DEF ObjectiveTypes
  <2>4. out \subseteq Player /\ new \subseteq Player
    BY <1>1, <1>8, <1>15, <1>16 DEF ObjectiveTypes
  <2>5. \A x \in Ranked : refused'[x] \subseteq Player
    BY <1>1, <1>8, <2>3, <2>4 DEF ObjectiveTypes
  <2>6. refused' \in [Ranked -> SUBSET Player]  BY <2>3, <2>5
  <2>7. [slot |-> s, body |-> o.body] \in Posted  BY <1>8 DEF Posted
  <2>8. /\ sent' \in [Ranked -> Posted \cup {None}]
        /\ sent'[e] = [slot |-> s, body |-> o.body]
        /\ \A x \in Ranked \ {e} : sent'[x] = sent[x]
    BY <1>1, <1>3, <2>7 DEF ObjectiveTypes
  <2>9. sent'[e].slot = s /\ sent'[e].body = o.body /\ sent'[e] # None
    BY <2>7, <2>8 DEF ObjectivesDistinct
  <2> QED BY <2>2, <2>3, <2>6, <2>8, <2>9
<1>24. viewers'[e] \cap refused'[e] = {} /\ viewers'[e] \subseteq S!Desired(e)
       /\ viewers'[e] \cup refused'[e] = S!Desired(e)
  <2>1. viewers[e] \cap refused[e] = {}  BY <1>1 DEF ObjectiveTypes
  <2>2. e \notin pending => viewers[e] \cup refused[e] = S!Desired(e)
    BY <1>1, <1>2, <1>8 DEF ObjectivesCurrent
  <2>3. CASE e \in pending  BY <1>8, <1>14, <1>15, <1>16, <1>23, <2>1, <2>3
  <2>4. CASE e \notin pending  BY <1>8, <1>14, <1>15, <1>16, <1>23, <2>1, <2>2, <2>4
  <2> QED BY <2>3, <2>4
<1>25. rel \in BOOLEAN /\ (rel => freed' /\ stale' = Ranked)
       /\ (~rel => freed' = freed /\ stale' = S!Marked(e))
       /\ (~rel => lost = {} /\ (moved => viewers[e] = {}))
  <2>1. rel \in BOOLEAN  OBVIOUS
  <2>2. freed' = (freed \/ rel) /\ stale' = (IF rel THEN Ranked ELSE S!Marked(e))  BY <1>4
  <2>3. ~rel => own1 = own /\ (moved => viewers[e] = {})  OBVIOUS
  <2>4. own1 = own => lost = {}
    <3>1. \A p \in lost : own1[p][n] = None /\ own[p][n] = e  BY <1>10, <1>12, <1>15
    <3> QED BY <1>8, <3>1
  <2> HIDE DEF rel
  <2>5. freed \in BOOLEAN  BY <1>1 DEF ObjectiveTypes
  <2> QED BY <2>1, <2>2, <2>3, <2>4, <2>5
<1> HIDE DEF rel
<1>26. /\ freed' \in BOOLEAN /\ stale' \subseteq Ranked /\ (freed' => stale' = Ranked)
       /\ (freed => freed')
       /\ ~rel => /\ \A x \in Ranked \ {e} : x \in stale' <=> x \in stale
                  /\ e \notin stale' => ~freed
  <2>1. freed \in BOOLEAN /\ stale \subseteq Ranked /\ (freed => stale = Ranked)
    BY <1>1 DEF ObjectiveTypes
  <2>2. CASE rel  BY <1>25, <2>1, <2>2
  <2>3. CASE ~rel  BY <1>25, <2>1, <2>3 DEF S!Marked
  <2> QED BY <2>2, <2>3
<1>27. ObjectiveTypes'
  <2>1. /\ phase' = "sync" /\ audience' \subseteq Player /\ redraw' = {} /\ known' \in [Ranked -> Name]
        /\ obj' \in [Ranked -> Objective \cup {None}] /\ lines' \in [Board -> Seq(Line)]
        /\ todo' \subseteq S!Alive' /\ pending' \subseteq todo'
    BY <1>1, <1>2, <1>8 DEF ObjectiveTypes
  <2>2. /\ \A x \in Ranked \ S!Alive' : sent'[x] = None
        /\ \A x \in Ranked : sent'[x] = None => viewers'[x] = {} /\ refused'[x] = {}
        /\ \A x \in Ranked : viewers'[x] \cap refused'[x] = {}
    BY <1>1, <1>8, <1>23, <1>24 DEF ObjectiveTypes
  <2> QED BY <1>18, <1>19, <1>20, <1>22, <1>23, <1>26, <2>1, <2>2 DEF ObjectiveTypes
<1>28. BoardsRendered'
  <2> SUFFICES ASSUME NEW x \in S!Alive \cap Board
               PROVE  /\ obj[x].name = BoardName /\ obj[x].slot = BoardSlot
                      /\ \A r \in S!Row : obj[x].body[r] = S!Scores(lines[x])[r]
    BY <1>2, <1>8 DEF BoardsRendered
  <2> QED BY <1>1, <1>8 DEF BoardsRendered
<1>29. ObjectivesClaimed'
  <2>1. \A p \in viewers'[e] : own'[p][known'[e]] = e /\ hold'[p][sent'[e].slot] = e
    <3> SUFFICES ASSUME NEW p \in viewers'[e] PROVE own'[p][n] = e /\ hold'[p][s] = e
      BY <1>2, <1>8, <1>23
    <3>1. p \in stay \cup win /\ p \in Player  BY <1>14, <1>15, <1>23
    <3>2. own'[p][n] = e  BY <1>18, <3>1
    <3>3. CASE p \in win  BY <1>19, <3>2, <3>3
    <3>4. CASE p \in stay /\ moved  BY <1>19, <3>2, <3>4
    <3>5. CASE p \notin win /\ p \in stay /\ ~moved
      <4>1. sent[e].slot = s /\ hold[p][sent[e].slot] = e  BY <1>10, <1>11, <1>15, <3>5
      <4>2. hold'[p][s] = hold[p][s]  BY <1>8, <1>19, <3>1, <3>5
      <4> QED BY <3>2, <4>1, <4>2
    <3> QED BY <1>11, <3>1, <3>3, <3>4, <3>5
  <2>2. ASSUME NEW x \in Ranked \ {e}, NEW p \in viewers'[x]
        PROVE  own'[p][known'[x]] = x /\ hold'[p][sent'[x].slot] = x
    <3>1. p \in viewers[x] /\ p \in Player /\ sent'[x] = sent[x] /\ known'[x] = known[x]
      BY <1>1, <1>2, <1>23 DEF ObjectiveTypes
    <3>2. sent[x] \in Posted /\ known[x] \in Name /\ x # None
      BY <1>1, <3>1 DEF ObjectiveTypes, ObjectivesDistinct
    <3>3. own[p][known[x]] = x /\ hold[p][sent[x].slot] = x  BY <1>1, <3>1 DEF ObjectivesClaimed
    <3>4. sent[x].slot \in Slot  BY <3>2 DEF Posted
    <3>5. own'[p][known[x]] = own[p][known[x]]
      <4>1. p \in win \cup viewers[e] => known[x] # n  BY <1>10, <1>14, <3>2, <3>3
      <4> QED BY <1>18, <3>1, <3>2, <4>1
    <3>6. hold'[p][sent[x].slot] = hold[p][sent[x].slot]
      <4>1. p \in win => sent[x].slot # s  BY <1>14, <3>2, <3>3
      <4>2. p \in stay /\ moved => sent[x].slot # s  BY <1>9, <1>15, <3>2, <3>3
      <4>3. p \in viewers[e] => sent[x].slot # sent[e].slot  BY <1>10, <3>3
      <4> QED BY <1>19, <3>1, <3>4, <4>1, <4>2, <4>3
    <3> QED BY <3>1, <3>3, <3>5, <3>6
  <2>3. ASSUME NEW p \in Player, NEW k \in Name, own'[p][k] # None
        PROVE  p \in viewers'[own'[p][k]] /\ known'[own'[p][k]] = k
    <3>1. CASE p \in win \cup stay /\ k = n  BY <1>2, <1>8, <1>18, <1>23, <3>1
    <3>2. CASE p \in lost /\ k = n  BY <1>18, <2>3, <3>2
    <3>3. CASE p \notin win \cup viewers[e] \/ k # n
      <4>1. own'[p][k] = own[p][k] /\ own[p][k] \in Ranked
        BY <1>1, <1>18, <2>3, <3>3 DEF ObjectiveTypes
      <4>2. p \in viewers[own[p][k]] /\ known[own[p][k]] = k  BY <1>1, <2>3, <4>1 DEF ObjectivesClaimed
      <4>3. own[p][k] # e  BY <1>8, <3>3, <4>2
      <4> QED BY <1>2, <1>23, <4>1, <4>2, <4>3
    <3> QED BY <1>15, <3>1, <3>2, <3>3
  <2>4. ASSUME NEW p \in Player, NEW x \in Slot, hold'[p][x] # None
        PROVE  p \in viewers'[hold'[p][x]] /\ sent'[hold'[p][x]].slot = x
    <3>1. CASE (p \in win \/ (p \in stay /\ moved)) /\ x = s
      BY <1>19, <1>23, <3>1
    <3>2. CASE moved /\ p \in viewers[e] /\ x = sent[e].slot  BY <1>19, <2>4, <3>2
    <3>3. CASE /\ ~((p \in win \/ (p \in stay /\ moved)) /\ x = s)
               /\ ~(moved /\ p \in viewers[e] /\ x = sent[e].slot)
      <4>1. hold'[p][x] = hold[p][x] /\ hold[p][x] \in Ranked
        BY <1>1, <1>19, <2>4, <3>3 DEF ObjectiveTypes
      <4>2. p \in viewers[hold[p][x]] /\ sent[hold[p][x]].slot = x
        BY <1>1, <2>4, <4>1 DEF ObjectivesClaimed
      <4>3. CASE hold[p][x] # e  BY <1>23, <4>1, <4>2, <4>3
      <4>4. CASE hold[p][x] = e
        <5>1. p \in viewers[e] /\ x = sent[e].slot /\ ~moved  BY <3>3, <4>2, <4>4
        <5>2. sent[e].slot = s /\ p \in stay  BY <1>10, <1>11, <1>15, <5>1
        <5> QED BY <1>23, <4>1, <4>4, <5>1, <5>2
      <4> QED BY <4>3, <4>4
    <3> QED BY <3>1, <3>2, <3>3
  <2> QED BY <2>1, <2>2, <2>3, <2>4 DEF ObjectivesClaimed
<1>30. ObjectiveClaimsShown'
  <2>1. ASSUME NEW p \in Player, NEW k \in Name
        PROVE  objs'[p][k] = IF own'[p][k] = None THEN None ELSE sent'[own'[p][k]].body
    <3>1. CASE p \in win \cup stay /\ k = n
      <4>1. own'[p][k] = e /\ objs'[p][k] = o.body  BY <1>18, <1>20, <3>1
      <4> QED BY <1>8, <1>23, <4>1
    <3>2. CASE p \in lost /\ k = n  BY <1>18, <1>20, <3>2
    <3>3. CASE p \notin win \cup viewers[e] \/ k # n
      <4>1. own'[p][k] = own[p][k] /\ objs'[p][k] = objs[p][k]  BY <1>18, <1>20, <3>3
      <4>2. objs[p][k] = IF own[p][k] = None THEN None ELSE sent[own[p][k]].body
        BY <1>1 DEF ObjectiveClaimsShown
      <4>3. own[p][k] # None => /\ own[p][k] \in Ranked /\ p \in viewers[own[p][k]]
                                /\ known[own[p][k]] = k
        BY <1>1 DEF ObjectivesClaimed, ObjectiveTypes
      <4>4. own[p][k] # e  BY <1>8, <3>3, <4>3
      <4>5. own[p][k] # None => sent'[own[p][k]] = sent[own[p][k]]  BY <1>23, <4>3, <4>4
      <4> QED BY <4>1, <4>2, <4>5
    <3> QED BY <1>15, <3>1, <3>2, <3>3
  <2>2. ASSUME NEW p \in Player, NEW x \in Slot
        PROVE  display'[p][x] = IF hold'[p][x] = None THEN None ELSE known'[hold'[p][x]]
    <3>1. CASE (p \in win \/ (p \in stay /\ moved)) /\ x = s
      <4>1. hold'[p][x] = e /\ display'[p][x] = n  BY <1>19, <1>22, <3>1
      <4> QED BY <1>2, <1>8, <4>1
    <3>2. CASE moved /\ p \in viewers[e] /\ x = sent[e].slot  BY <1>19, <1>22, <3>2
    <3>3. CASE /\ ~((p \in win \/ (p \in stay /\ moved)) /\ x = s)
               /\ ~(moved /\ p \in viewers[e] /\ x = sent[e].slot)
      <4>1. hold'[p][x] = hold[p][x] /\ display'[p][x] = display[p][x]  BY <1>19, <1>22, <3>3
      <4>2. display[p][x] = IF hold[p][x] = None THEN None ELSE known[hold[p][x]]
        BY <1>1 DEF ObjectiveClaimsShown
      <4> QED BY <1>2, <4>1, <4>2
    <3> QED BY <3>1, <3>2, <3>3
  <2> QED BY <2>1, <2>2 DEF ObjectiveClaimsShown
<1>31. ObjectivesCurrent'
  <2> SUFFICES ASSUME NEW x \in S!Alive
               PROVE  /\ known'[x] = obj'[x].name /\ viewers'[x] \subseteq S!Desired(x)'
                      /\ x \notin pending' => viewers'[x] \cup refused'[x] = S!Desired(x)'
                      /\ x \notin todo' => sent'[x] = [slot |-> obj'[x].slot, body |-> obj'[x].body]
    BY <1>8 DEF ObjectivesCurrent
  <2>1. CASE x = e
    <3>1. known'[x] = obj'[x].name  BY <1>2, <1>8, <2>1 DEF n, o
    <3>2. viewers'[x] \subseteq S!Desired(x)' /\ viewers'[x] \cup refused'[x] = S!Desired(x)'
      BY <1>8, <1>24, <2>1
    <3>3. sent'[x] = [slot |-> obj'[x].slot, body |-> obj'[x].body]
      BY <1>2, <1>23, <2>1 DEF s, o
    <3> QED BY <3>1, <3>2, <3>3
  <2>2. CASE x # e
    <3>1. viewers'[x] = viewers[x] /\ refused'[x] = refused[x] /\ sent'[x] = sent[x]
      BY <1>8, <1>23, <2>2
    <3>2. S!Desired(x)' = S!Desired(x)  BY <1>2 DEF S!Desired
    <3>3. (x \notin pending' => x \notin pending) /\ (x \notin todo' => x \notin todo)
      BY <1>2, <2>2
    <3>4. /\ known[x] = obj[x].name /\ viewers[x] \subseteq S!Desired(x)
          /\ x \notin pending => viewers[x] \cup refused[x] = S!Desired(x)
          /\ x \notin todo => sent[x] = [slot |-> obj[x].slot, body |-> obj[x].body]
      BY <1>1, <1>2 DEF ObjectivesCurrent
    <3> QED BY <1>2, <3>1, <3>2, <3>3, <3>4
  <2> QED BY <2>1, <2>2
<1>32. broken' = {}
  <2>1. \A p \in win : objs[p][n] = None  BY <1>1, <1>8, <1>14 DEF ObjectiveClaimsShown
  <2> QED BY <1>1, <1>7, <2>1
<1>33. ASSUME ~MovesRefused PROVE ObjectiveRefusedFor' /\ ObjectivesMoving'
  <2>1. ObjectiveRefusedFor /\ ObjectivesMoving  BY <1>1, <1>33
  <2>2. ObjectivesMoving'
    <3> SUFFICES ASSUME NEW x \in S!Alive, refused'[x] # {}, obj[x].slot # sent'[x].slot
                 PROVE  viewers'[x] # {} \/ freed'
      BY <1>2, <1>8 DEF ObjectivesMoving
    <3>1. x # e  BY <1>23 DEF s, o
    <3>2. viewers'[x] = viewers[x] /\ refused'[x] = refused[x] /\ sent'[x] = sent[x]
      BY <1>8, <1>23, <3>1
    <3>3. refused[x] # {} /\ obj[x].slot # sent[x].slot  BY <3>2
    <3>4. viewers[x] # {} \/ freed  BY <2>1, <3>3 DEF ObjectivesMoving
    <3> QED BY <1>26, <3>2, <3>4
  <2>3. CASE rel
    <3>1. ObjectiveRefusedFor'  BY <1>8, <1>25, <2>3 DEF ObjectiveRefusedFor
    <3> QED BY <2>2, <3>1
  <2>4. CASE ~rel
    <3>1. lost = {} /\ (moved => viewers[e] = {}) /\ freed' = freed  BY <1>25, <2>4
    <3>2. /\ \A p \in Player, k \in Name : own[p][k] # None => own'[p][k] = own[p][k]
          /\ \A p \in Player \ win : \A k \in Name : own'[p][k] = own[p][k]
      BY <1>10, <1>14, <1>15, <1>18, <3>1
    <3>3. /\ \A p \in Player, x \in Slot : hold[p][x] # None => hold'[p][x] = hold[p][x]
          /\ \A p \in Player \ win : \A x \in Slot : hold'[p][x] = hold[p][x]
      BY <1>14, <1>15, <1>19, <3>1
    <3> SUFFICES ASSUME NEW x \in S!Alive, x \notin stale' \/ (x \in todo' /\ ~freed'),
                        NEW p \in refused'[x]
                 PROVE  \/ own'[p][known[x]] \notin {None, x}
                        \/ hold'[p][sent'[x].slot] \notin {None, x}
      BY <1>2, <1>8, <2>2 DEF ObjectiveRefusedFor
    <3>4. p \in Player /\ known[x] \in Name  BY <1>1, <1>8, <1>23 DEF ObjectiveTypes
    <3>5. CASE x # e
      <4>1. refused'[x] = refused[x] /\ sent'[x] = sent[x] /\ p \in refused[x]
        BY <1>8, <1>23, <3>5
      <4>2. x \notin stale \/ (x \in todo /\ ~freed)  BY <1>2, <1>8, <1>26, <2>4, <3>1, <3>5
      <4>3. own[p][known[x]] \notin {None, x} \/ hold[p][sent[x].slot] \notin {None, x}
        BY <2>1, <4>1, <4>2 DEF ObjectiveRefusedFor
      <4>4. sent[x].slot \in Slot
        <5>1. sent[x] \in Posted  BY <1>1, <1>8, <4>1 DEF ObjectiveTypes
        <5> QED BY <5>1 DEF Posted
      <4> QED BY <3>2, <3>3, <3>4, <4>1, <4>3, <4>4
    <3>6. CASE x = e
      <4>1. e \notin todo' /\ ~freed  BY <1>2, <1>26, <2>4, <3>6
      <4>2. sent'[e].slot = s /\ known[e] = n  BY <1>8, <1>23
      <4>3. CASE p \in refused[e]
        <5>1. sent[e] # None  BY <1>1, <4>3 DEF ObjectiveTypes
        <5>2. ~moved
          <6>1. obj[e].slot # sent[e].slot => viewers[e] # {}
            BY <1>8, <2>1, <4>1, <4>3 DEF ObjectivesMoving
          <6> QED BY <1>11, <3>1, <6>1 DEF s, o
        <5>3. sent[e].slot = s  BY <1>11, <5>1, <5>2
        <5>4. own[p][n] \notin {None, e} \/ hold[p][s] \notin {None, e}
          BY <1>2, <1>8, <2>1, <4>1, <4>2, <4>3, <5>3 DEF ObjectiveRefusedFor
        <5> QED BY <1>8, <3>2, <3>3, <3>4, <3>6, <4>2, <5>4
      <4>4. CASE p \in new \ win
        <5>1. own1[p][n] \notin {None, e} \/ hold1[p][s] \notin {None, e}  BY <1>17, <4>4
        <5>2. own1[p] = own[p] /\ hold1[p] = hold[p]  BY <1>12, <1>13, <3>1, <3>4
        <5> QED BY <1>8, <3>2, <3>3, <3>4, <3>6, <4>2, <5>1, <5>2
      <4>5. p \in refused[e] \/ p \in new \ win  BY <1>16, <1>23, <3>1, <3>6
      <4> QED BY <4>3, <4>4, <4>5
    <3> QED BY <3>5, <3>6
  <2> QED BY <2>2, <2>3, <2>4
<1> QED BY <1>27, <1>28, <1>29, <1>30, <1>31, <1>32, <1>33 DEF ObjectivesInv

-----------------------------------------------------------------------------
(* The rest of a tick *)

LEMMA SentAsItIs ==
  ASSUME ObjectivesCurrent, phase \in {"sync", "done"}, NEW e \in S!Alive, e \notin todo
  PROVE  sent[e].slot = obj[e].slot /\ sent[e].body = obj[e].body /\ known[e] = obj[e].name
<1>1. sent[e] = [slot |-> obj[e].slot, body |-> obj[e].body] /\ known[e] = obj[e].name
  BY DEF ObjectivesCurrent
<1>2. sent[e].slot = obj[e].slot  BY <1>1
<1>3. sent[e].body = obj[e].body  BY <1>1
<1> QED BY <1>1, <1>2, <1>3

LEMMA ObjectivesRestKeep ==
  ASSUME ObjectivesDistinct, ObjectivesInv, S!EndSync \/ S!EndTick \/ UNCHANGED S!vars
  PROVE  ObjectivesInv'
<1>1. /\ ObjectiveTypes /\ BoardsRendered /\ ObjectivesClaimed /\ ObjectiveClaimsShown /\ ObjectivesCurrent /\ broken = {}
      /\ ~MovesRefused => ObjectiveRefusedFor /\ ObjectivesMoving
  BY DEF ObjectivesInv
<1>2. UNCHANGED <<audience, obj, lines, redraw, known, sent, viewers, refused, stale, pending, todo,
                  own, hold, freed, objs, display, broken>>
  BY DEF S!EndSync, S!EndTick, S!Unsynced, S!state, S!client, S!vars
<1>3. \/ phase = "sync" /\ todo = {} /\ phase' = "done"
      \/ phase = "done" /\ phase' = "game"
      \/ phase' = phase
  BY DEF S!EndSync, S!EndTick, S!vars
<1>4. S!Alive' = S!Alive  BY <1>2 DEF S!Alive
<1>5. ObjectiveTypes'  BY <1>1, <1>2, <1>3, <1>4 DEF ObjectiveTypes
<1>6. BoardsRendered' /\ ObjectivesClaimed' /\ ObjectiveClaimsShown'
  BY <1>1, <1>2, <1>4 DEF BoardsRendered, ObjectivesClaimed, ObjectiveClaimsShown
<1>7. ObjectivesCurrent'  BY <1>1, <1>2, <1>3, <1>4 DEF ObjectivesCurrent, S!Desired
<1>8. ASSUME ~MovesRefused PROVE ObjectiveRefusedFor' /\ ObjectivesMoving'
  <2>1. ObjectiveRefusedFor'  BY <1>1, <1>2, <1>4, <1>8 DEF ObjectiveRefusedFor
  <2>2. CASE phase' = phase  BY <1>1, <1>2, <1>4, <1>8, <2>1, <2>2 DEF ObjectivesMoving
  <2>3. CASE phase = "done"  BY <1>1, <1>2, <1>4, <1>8, <2>1, <2>3 DEF ObjectivesMoving
  (* what was sent is what is: no slot is about to change *)
  <2>4. CASE phase = "sync" /\ todo = {} /\ phase' = "done"
    <3>1. \A e \in S!Alive : obj[e].slot = sent[e].slot  BY <1>1, <2>4, SentAsItIs
    <3> QED BY <1>2, <1>4, <2>1, <3>1 DEF ObjectivesMoving
  <2> QED BY <1>3, <2>2, <2>3, <2>4
<1> QED BY <1>1, <1>2, <1>5, <1>6, <1>7, <1>8 DEF ObjectivesInv

LEMMA ObjectivesKeep ==
  ASSUME ObjectivesDistinct, ObjectivesInv, [S!Next]_S!vars
  PROVE  ObjectivesInv'
<1>1. CASE S!Game
  <2>1. ASSUME NEW p \in Player, S!GetReady(p) \/ S!Leave(p) PROVE ObjectivesInv'
    BY <2>1, ObjectivePlayersKeep
  <2>2. ASSUME NEW e \in Ranked, S!Despawn(e) PROVE ObjectivesInv'
    BY <2>2, ObjectiveDespawnKeeps
  <2>3. ASSUME NEW e \in Ranked, \E A \in SUBSET Player : S!Readdress(e, A) PROVE ObjectivesInv'
    BY <2>3, SidebarsKeep
  <2>4. ASSUME NEW e \in Ranked, \E n \in Name, s \in Slot : S!Spawn(e, n, s) PROVE ObjectivesInv'
    BY <2>4, ObjectiveSpawnKeeps
  <2>5. ASSUME NEW e \in Ranked,
               \/ \E n \in Name : S!Rename(e, n)
               \/ \E s \in Slot : S!MoveSlot(e, s)
               \/ \E r \in S!Part, x \in Text \cup {None} : S!SetScore(e, r, x)
        PROVE  ObjectivesInv'
    BY <2>5, ObjectiveChangesKeep
  <2>6. ASSUME NEW e \in Ranked,
               \E k \in 0..MaxLines + 1 : \E ls \in [1..k -> Line] : S!EditWidgets(e, ls)
        PROVE  ObjectivesInv'
    BY <2>6, SidebarsKeep
  <2> QED BY <1>1, <2>1, <2>2, <2>3, <2>4, <2>5, <2>6 DEF S!Game
<1>2. CASE S!Tick
  <2>1. CASE S!RenderSidebars  BY <2>1, RenderKeeps
  <2>2. CASE S!Begin  BY <2>2, ObjectivesBeginKeep
  <2>3. ASSUME NEW e \in Ranked, S!Sync(e) PROVE ObjectivesInv'
    BY <2>3, ObjectiveSyncKeeps
  <2>4. CASE S!EndSync \/ S!EndTick  BY <2>4, ObjectivesRestKeep
  <2> QED BY <1>2, <2>1, <2>2, <2>3, <2>4 DEF S!Tick
<1>3. CASE UNCHANGED S!vars  BY <1>3, ObjectivesRestKeep
<1> QED BY <1>1, <1>2, <1>3 DEF S!Next

-----------------------------------------------------------------------------
(* What the invariant says at the end of a tick *)

LEMMA ObjectivesShow == ASSUME ObjectivesDistinct, ObjectivesInv PROVE S!ObjectivesShown
<1> SUFFICES ASSUME phase = "done"
             PROVE  /\ broken = {}
                    /\ \A e \in S!Alive : /\ viewers[e] \cup refused[e] = S!Desired(e)
                                          /\ viewers[e] \cap refused[e] = {}
                    /\ \A p \in audience :
                       /\ \A n \in Name : objs[p][n] # None =>
                            \E e \in S!Shown(p) : n = obj[e].name /\ objs[p][n] = obj[e].body
                       /\ \A e \in S!Shown(p) : objs[p][obj[e].name] = obj[e].body
                       /\ \A s \in Slot :
                            IF \E e \in S!Shown(p) : obj[e].slot = s
                            THEN \E e \in S!Shown(p) : obj[e].slot = s /\ display[p][s] = obj[e].name
                            ELSE display[p][s] = None
  BY DEF S!ObjectivesShown
<1>1. ObjectiveTypes /\ ObjectivesClaimed /\ ObjectiveClaimsShown /\ ObjectivesCurrent /\ broken = {}
  BY DEF ObjectivesInv
<1>2. todo = {} /\ pending = {} /\ S!Alive \subseteq Ranked /\ audience \subseteq Player
  BY <1>1 DEF ObjectiveTypes, S!Alive
<1>3. \A e \in S!Alive : /\ known[e] = obj[e].name /\ viewers[e] \cup refused[e] = S!Desired(e)
                         /\ viewers[e] \cap refused[e] = {} /\ obj[e].name \in Name /\ obj[e].slot \in Slot
  <2>1. \A e \in S!Alive : obj[e] \in Objective  BY <1>1 DEF ObjectiveTypes, S!Alive
  <2>2. \A e \in S!Alive : obj[e].name \in Name /\ obj[e].slot \in Slot  BY <2>1 DEF Objective
  <2> QED BY <1>1, <1>2, <2>2 DEF ObjectivesCurrent, ObjectiveTypes
<1>4. \A e \in S!Alive : sent[e].slot = obj[e].slot /\ sent[e].body = obj[e].body
  BY <1>1, <1>2, SentAsItIs
<1>5. \A e \in Ranked : viewers[e] # {} => e \in S!Alive  BY <1>1 DEF ObjectiveTypes
<1>6. ASSUME NEW p \in audience
      PROVE  /\ \A n \in Name : objs[p][n] # None =>
                  \E e \in S!Shown(p) : n = obj[e].name /\ objs[p][n] = obj[e].body
             /\ \A e \in S!Shown(p) : objs[p][obj[e].name] = obj[e].body
             /\ \A s \in Slot :
                  IF \E e \in S!Shown(p) : obj[e].slot = s
                  THEN \E e \in S!Shown(p) : obj[e].slot = s /\ display[p][s] = obj[e].name
                  ELSE display[p][s] = None
  <2>1. p \in Player  BY <1>2
  <2>2. ASSUME NEW n \in Name, objs[p][n] # None
        PROVE  \E e \in S!Shown(p) : n = obj[e].name /\ objs[p][n] = obj[e].body
    <3>1. own[p][n] # None /\ objs[p][n] = sent[own[p][n]].body
      BY <1>1, <2>1, <2>2 DEF ObjectiveClaimsShown
    <3>2. own[p][n] \in Ranked /\ p \in viewers[own[p][n]] /\ known[own[p][n]] = n
      BY <1>1, <2>1, <3>1 DEF ObjectiveTypes, ObjectivesClaimed
    <3>3. own[p][n] \in S!Shown(p)  BY <1>5, <3>2 DEF S!Shown
    <3> QED BY <1>3, <1>4, <3>1, <3>2, <3>3 DEF S!Shown
  <2>3. ASSUME NEW e \in S!Shown(p)
        PROVE  /\ objs[p][obj[e].name] = obj[e].body /\ hold[p][obj[e].slot] = e
               /\ display[p][obj[e].slot] = obj[e].name
    <3>1. e \in S!Alive /\ e \in Ranked /\ p \in viewers[e] /\ e # None
      BY <1>2 DEF S!Shown, ObjectivesDistinct
    <3>2. own[p][known[e]] = e /\ hold[p][sent[e].slot] = e  BY <1>1, <3>1 DEF ObjectivesClaimed
    <3>3. objs[p][known[e]] = sent[e].body /\ display[p][sent[e].slot] = known[e]
      <4>1. known[e] \in Name /\ sent[e].slot \in Slot  BY <1>3, <1>4, <3>1
      <4> QED BY <1>1, <2>1, <3>1, <3>2, <4>1 DEF ObjectiveClaimsShown
    <3> QED BY <1>3, <1>4, <3>1, <3>2, <3>3
  <2>4. ASSUME NEW s \in Slot, ~\E e \in S!Shown(p) : obj[e].slot = s PROVE display[p][s] = None
    <3>1. SUFFICES ASSUME hold[p][s] # None PROVE FALSE
      BY <1>1, <2>1 DEF ObjectiveClaimsShown
    <3>2. hold[p][s] \in Ranked /\ p \in viewers[hold[p][s]] /\ sent[hold[p][s]].slot = s
      BY <1>1, <2>1, <3>1 DEF ObjectiveTypes, ObjectivesClaimed
    <3>3. hold[p][s] \in S!Shown(p)  BY <1>5, <3>2 DEF S!Shown
    <3> QED BY <1>4, <2>4, <3>2, <3>3 DEF S!Shown
  <2>5. ASSUME NEW s \in Slot
        PROVE  IF \E e \in S!Shown(p) : obj[e].slot = s
               THEN \E e \in S!Shown(p) : obj[e].slot = s /\ display[p][s] = obj[e].name
               ELSE display[p][s] = None
    <3>1. CASE \E e \in S!Shown(p) : obj[e].slot = s
      <4>1. PICK e \in S!Shown(p) : obj[e].slot = s  BY <3>1
      <4>2. display[p][s] = obj[e].name  BY <2>3, <4>1
      <4> QED BY <3>1, <4>1, <4>2
    <3>2. CASE ~\E e \in S!Shown(p) : obj[e].slot = s  BY <2>4, <3>2
    <3> QED BY <3>1, <3>2
  <2> QED BY <2>2, <2>3, <2>5
<1> QED BY <1>1, <1>3, <1>6

LEMMA CausesShow ==
  ASSUME ObjectivesDistinct, ~MovesRefused, ObjectivesInv
  PROVE  S!RefusedForCause
<1> SUFFICES ASSUME phase = "done", NEW e \in S!Alive \ stale, NEW p \in refused[e]
             PROVE  \/ own[p][obj[e].name] \notin {None, e}
                    \/ hold[p][obj[e].slot] \notin {None, e}
  BY DEF S!RefusedForCause
<1>1. ObjectiveTypes /\ ObjectivesCurrent /\ ObjectiveRefusedFor /\ todo = {}
  BY DEF ObjectivesInv, ObjectiveTypes
<1>2. known[e] = obj[e].name /\ sent[e].slot = obj[e].slot  BY <1>1, SentAsItIs
<1> QED BY <1>1, <1>2 DEF ObjectiveRefusedFor

(* Scoreboard counts with an instance of the operator the library speaks of. *)
LEMMA CountBelow == ASSUME NEW k \in Nat PROVE S!Cardinality(0..k - 1) = k
<1>1. Cardinality(0..k - 1) = IF 0 > k - 1 THEN 0 ELSE (k - 1) - 0 + 1  BY FS_Interval
<1>2. S!Cardinality(0..k - 1) = Cardinality(0..k - 1)  BY DEF S!Cardinality, Cardinality
<1> QED BY <1>1, <1>2

(* As many lines are above a line as come before it. *)
LEMMA BoardShows == ASSUME ObjectivesDistinct, ObjectivesInv PROVE S!BoardInOrder
<1> SUFFICES ASSUME phase = "done", NEW e \in S!Alive \cap Board, NEW p \in viewers[e] \cap audience
             PROVE  LET rows == {r \in S!Row : objs[p][BoardName][r] # None}
                        n    == IF Len(lines[e]) < MaxLines THEN Len(lines[e]) ELSE MaxLines
                    IN /\ S!Cardinality(rows) = n
                       /\ \A i \in 1..n : \E r \in rows :
                            /\ objs[p][BoardName][r][2] = lines[e][i]
                            /\ S!Cardinality({q \in rows :
                                   objs[p][BoardName][q][1] > objs[p][BoardName][r][1]}) = i - 1
  BY DEF S!BoardInOrder
<1> DEFINE have == objs[p][BoardName]
           rows == {r \in S!Row : have[r] # None}
           n    == IF Len(lines[e]) < MaxLines THEN Len(lines[e]) ELSE MaxLines
<1>1. ObjectiveTypes /\ BoardsRendered /\ ObjectivesClaimed /\ ObjectiveClaimsShown /\ ObjectivesCurrent
  BY DEF ObjectivesInv
<1>2. lines[e] \in Seq(Line) /\ Len(lines[e]) \in Nat /\ MaxLines \in Nat /\ n \in Nat
      /\ n <= MaxLines /\ n <= Len(lines[e])
  <2>1. lines[e] \in Seq(Line)  BY <1>1 DEF ObjectiveTypes
  <2>2. Len(lines[e]) \in Nat  BY <2>1
  <2> QED BY <2>1, <2>2 DEF ObjectivesDistinct
<1>3. \A r \in S!Row : have[r] = IF r < Len(lines[e]) THEN <<MaxLines - r, lines[e][r + 1]>> ELSE None
  <2>1. e \in Ranked /\ e # None /\ redraw = {} /\ todo = {} /\ p \in Player /\ BoardName \in Name
    BY <1>1 DEF ObjectiveTypes, ObjectivesDistinct, S!Alive
  <2>2. known[e] = BoardName /\ sent[e].body = obj[e].body
    BY <1>1, <2>1, SentAsItIs DEF BoardsRendered
  <2>3. own[p][BoardName] = e  BY <1>1, <2>1, <2>2 DEF ObjectivesClaimed
  <2>4. have = obj[e].body  BY <1>1, <2>1, <2>2, <2>3 DEF ObjectiveClaimsShown
  <2>5. \A r \in S!Row : obj[e].body[r] = S!Scores(lines[e])[r]  BY <1>1, <2>1 DEF BoardsRendered
  <2>6. \A r \in S!Row : S!Scores(lines[e])[r] =
          IF r < Len(lines[e]) THEN <<MaxLines - r, lines[e][r + 1]>> ELSE None
    BY DEF S!Scores
  <2> QED BY <2>4, <2>5, <2>6
<1> HIDE DEF have
<1>4. \A r \in 0..n - 1 : /\ r \in S!Row /\ have[r] # None /\ have[r][1] = MaxLines - r
                          /\ have[r][2] = lines[e][r + 1]
  <2> SUFFICES ASSUME NEW r \in 0..n - 1
               PROVE  /\ r \in S!Row /\ have[r] # None /\ have[r][1] = MaxLines - r
                      /\ have[r][2] = lines[e][r + 1]
    OBVIOUS
  <2>1. r \in S!Row /\ r \in Nat /\ r < Len(lines[e]) /\ MaxLines - r \in Int
    <3> HIDE DEF n
    <3> QED BY <1>2 DEF S!Row
  <2>2. have[r] = <<MaxLines - r, lines[e][r + 1]>>  BY <1>3, <2>1
  <2>3. lines[e][r + 1] \in Line
    <3>1. r + 1 \in 1..Len(lines[e])  BY <1>2, <2>1
    <3> QED BY <1>2, <3>1
  <2>4. <<MaxLines - r, lines[e][r + 1]>> \in Int \X Line  BY <2>1, <2>3
  <2> QED BY <2>1, <2>2, <2>4 DEF ObjectivesDistinct
<1>5. rows = 0..n - 1
  <2>1. ASSUME NEW r \in rows PROVE r \in 0..n - 1
    <3>1. r \in S!Row /\ r < Len(lines[e])  BY <1>3
    <3> QED BY <1>2, <3>1 DEF S!Row
  <2>2. 0..n - 1 \subseteq rows  BY <1>4
  <2> HIDE DEF rows
  <2> QED BY <2>1, <2>2
<1> HIDE DEF rows, n
<1>6. S!Cardinality(rows) = n  BY <1>2, <1>5, CountBelow
<1>7. ASSUME NEW i \in 1..n
      PROVE  \E r \in rows : /\ have[r][2] = lines[e][i]
                             /\ S!Cardinality({q \in rows : have[q][1] > have[r][1]}) = i - 1
  <2>1. i - 1 \in 0..n - 1 /\ (i - 1) + 1 = i /\ i \in Nat /\ i - 1 \in Nat  BY <1>2
  <2>2. have[i - 1][2] = lines[e][i] /\ have[i - 1][1] = MaxLines - (i - 1)
    BY <1>4, <2>1
  <2>3. {q \in rows : have[q][1] > have[i - 1][1]} = 0..i - 2
    <3>1. ASSUME NEW q \in 0..n - 1
          PROVE  have[q][1] > have[i - 1][1] <=> q \in 0..i - 2
      <4>1. have[q][1] = MaxLines - q /\ q \in Nat  BY <1>2, <1>4
      <4> QED BY <1>2, <2>1, <2>2, <4>1
    <3>2. 0..i - 2 \subseteq 0..n - 1  BY <1>2, <2>1
    <3> QED BY <1>5, <3>1, <3>2
  <2>4. S!Cardinality(0..i - 2) = i - 1
    <3>1. S!Cardinality(0..(i - 1) - 1) = i - 1  BY <2>1, CountBelow
    <3>2. (i - 1) - 1 = i - 2  BY <2>1
    <3> QED BY <3>1, <3>2
  <2> QED BY <1>5, <2>1, <2>2, <2>3, <2>4
<1> QED BY <1>6, <1>7 DEF have, rows, n

-----------------------------------------------------------------------------
(* The parts of MCViewers: a behaviour takes the steps of one of them. *)

sided == <<part, tick, onlyEntities, claims, onlyObjectives, onlyTeams, onlyOverlays>>

LEMMA StepOfPart ==
  ASSUME [NextViewers]_sided
  PROVE  /\ part' = part
         /\ part = "objectives" => [S!Next]_S!vars
         /\ part = "overlays" => [O!Next]_O!vars
         /\ part = "teams" => [T!Next]_T!vars
<1>1. CASE NextViewers
  BY <1>1 DEF NextViewers, EntitiesStep, ObjectivesStep, TeamsStep, OverlaysStep
<1>2. CASE UNCHANGED sided
  <2>1. UNCHANGED <<part, tick, onlyOverlays, claims, onlyTeams, onlyObjectives>>
    BY <1>2 DEF sided
  <2>2. UNCHANGED O!vars
    BY <2>1 DEF tick, onlyOverlays, O!vars, O!state
  <2>3. UNCHANGED T!vars
    BY <2>1 DEF tick, claims, onlyTeams, T!vars, T!state, T!claims, T!client
  <2>4. UNCHANGED S!vars
    BY <2>1 DEF tick, claims, onlyObjectives, S!vars, S!state, S!client
  <2> QED BY <2>1, <2>2, <2>3, <2>4
<1> QED BY <1>1, <1>2

-----------------------------------------------------------------------------
(* sync_weathers, sync_world_borders, sync_tab_lists, sync_boss_bars and    *)
(* their observers: at the end of a tick a client shows what the one        *)
(* component that covers its player has sent, and the default where none    *)
(* does.                                                                    *)
THEOREM OverlaysTold == ASSUME OverlaysDistinct PROVE SpecViewers => []OverlaysShown
<1> DEFINE Inv == part = "overlays" => OverlaysInv
<1>1. InitViewers => Inv  BY OverlaysStart DEF InitViewers
<1>2. Inv /\ [NextViewers]_sided => Inv'  BY StepOfPart, OverlaysKeep
<1>3. Inv => OverlaysShown  BY OverlaysShow DEF OverlaysShown
<1> QED BY <1>1, <1>2, <1>3, PTL DEF SpecViewers, sided

(* sync_teams, forget_player_in_teams and the observer of removed teams: at *)
(* the end of a tick a client has the teams it is a viewer of, with each   *)
(* member on the one team that claims it, and no leave was ever wrong.      *)
THEOREM TeamsTold == ASSUME TeamsDistinct PROVE SpecViewers => []TeamsShown
<1> DEFINE Inv == part = "teams" => TeamsInv
<1>1. InitViewers => Inv  BY TeamsStart DEF InitViewers
<1>2. Inv /\ [NextViewers]_sided => Inv'  BY StepOfPart, TeamsKeep
<1>3. Inv => TeamsShown  BY TeamsShow DEF TeamsShown
<1> QED BY <1>1, <1>2, <1>3, PTL DEF SpecViewers, sided

(* sync_objectives, forget_player_in_objectives and the observer of removed *)
(* objectives: at the end of a tick a client has the objectives it is a     *)
(* viewer of, as they are and each on its slot, though names and slots are  *)
(* claimed, moved, refused and given up; none is created twice.             *)
THEOREM ObjectivesTold == ASSUME ObjectivesDistinct PROVE SpecViewers => []ObjectivesShown
<1> DEFINE Inv == part = "objectives" => ObjectivesInv
<1>1. InitViewers => Inv  BY ObjectivesStart DEF InitViewers
<1>2. Inv /\ [NextViewers]_sided => Inv'  BY StepOfPart, ObjectivesKeep
<1>3. Inv => ObjectivesShown  BY ObjectivesShow DEF ObjectivesShown
<1> QED BY <1>1, <1>2, <1>3, PTL DEF SpecViewers, sided

(* begin_sync, try_claim and finish_sync: a player who stays refused is     *)
(* refused because another objective has the name or the slot for it, as    *)
(* long as no objective that nobody is shown changes slot.                  *)
THEOREM RefusalsHaveCauses ==
  ASSUME ObjectivesDistinct, ~MovesRefused PROVE SpecViewers => []RefusedForCause
<1> DEFINE Inv == part = "objectives" => ObjectivesInv
<1>1. InitViewers => Inv  BY ObjectivesStart DEF InitViewers
<1>2. Inv /\ [NextViewers]_sided => Inv'  BY StepOfPart, ObjectivesKeep
<1>3. Inv => RefusedForCause  BY CausesShow DEF RefusedForCause
<1> QED BY <1>1, <1>2, <1>3, PTL DEF SpecViewers, sided

(* Sidebar::scores and render_sidebars: the viewers of a sidebar read its   *)
(* first lines in the order of its widgets.                                 *)
THEOREM BoardsRead == ASSUME ObjectivesDistinct PROVE SpecViewers => []BoardInOrder
<1> DEFINE Inv == part = "objectives" => ObjectivesInv
<1>1. InitViewers => Inv  BY ObjectivesStart DEF InitViewers
<1>2. Inv /\ [NextViewers]_sided => Inv'  BY StepOfPart, ObjectivesKeep
<1>3. Inv => BoardInOrder  BY BoardShows DEF BoardInOrder
<1> QED BY <1>1, <1>2, <1>3, PTL DEF SpecViewers, sided
=============================================================================
