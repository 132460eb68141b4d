------------------------------- MODULE Roster -------------------------------
(***************************************************************************)
(* The players as the other players' clients show them: who is listed, who  *)
(* is spawned, and where.  Players join, quit, move and ride during a tick  *)
(* (void/src/plugins, void/src/systems/player.rs); at its end the moves are *)
(* sent as deltas from PreviousPosition (void/src/systems/position.rs).     *)
(* One coordinate stands for the position.  A client that connects again is *)
(* a new entity with a new id: nothing of it is left after its quit.        *)
(***************************************************************************)
EXTENDS Integers, FiniteSets

CONSTANTS
  Clients,  \* connections
  Uuid,     \* the uuid each one logs in with, of its own choosing
  Places,   \* where players can be, in the fixed-point units of a delta
  Spawn,    \* where they join
  Reach,    \* a delta is in -Reach .. Reach - 1 (an i16)
  Movers    \* bound: the clients that move and ride

ASSUME RosterAssumption ==
  /\ Places \subseteq Int /\ Spawn \in Places /\ Reach \in Nat /\ Movers \subseteq Clients
  /\ Uuid = [c \in Clients |-> Uuid[c]]

VARIABLES
  phase,       \* what the tick is at
  level,       \* "out" until configured, "play", "ready" (PlayerReady)
  pos,         \* Position
  prev,        \* PreviousPosition
  changed,     \* players whose Position or Rotation changed this tick
  mounted,     \* players with a Mount
  dismounted,  \* players whose Mount was removed this tick
  listed,      \* uuids in the tab list of each client
  shown,       \* players each client has an entity for
  view,        \* where each client has them: the base of their next delta
  skewed       \* <<q, p>>: p's position was not its base of deltas when q was
               \* sent p's spawn, and q was sent no base since

vars == <<phase, level, pos, prev, changed, mounted, dismounted, listed, shown,
          view, skewed>>

Phases == {"packets", "disconnects", "update", "end"}
Ready == {c \in Clients : level[c] = "ready"}
Playing == {c \in Clients : level[c] # "out"}
Others(p) == {q \in Clients : level[q] = "ready"} \ {p}

TypeOK ==
  /\ phase \in Phases
  /\ level \in [Clients -> {"out", "play", "ready"}]
  /\ pos \in [Clients -> Places] /\ prev \in [Clients -> Places]
  /\ changed \subseteq Clients /\ mounted \subseteq Ready /\ dismounted \subseteq Clients
  /\ listed \in [Clients -> SUBSET {Uuid[c] : c \in Clients}]
  /\ shown \in [Clients -> SUBSET Clients]
  /\ view \in [Clients -> [Clients -> Int]]
  /\ skewed \subseteq Clients \X Clients

Init ==
  /\ phase = "packets"
  /\ level = [c \in Clients |-> "out"]
  /\ pos = [c \in Clients |-> Spawn] /\ prev = pos
  /\ changed = {} /\ mounted = {} /\ dismounted = {}
  /\ listed = [c \in Clients |-> {}] /\ shown = [c \in Clients |-> {}]
  /\ view = [c \in Clients |-> pos] /\ skewed = {}

-----------------------------------------------------------------------------
(* Packets *)

(* handle_finish_configuration: the player's components are inserted. *)
FinishConfiguration(p) ==
  /\ phase = "packets" /\ level[p] = "out"
  /\ level' = [level EXCEPT ![p] = "play"]
  /\ pos' = [pos EXCEPT ![p] = Spawn] /\ prev' = [prev EXCEPT ![p] = Spawn]
  /\ changed' = changed \cup {p}
  /\ UNCHANGED <<phase, mounted, dismounted, listed, shown, view, skewed>>

(* handle_player_loaded and on_player_ready: the list goes to the player, its *)
(* entry to the others, then each is sent the other's spawn.  Nothing stops  *)
(* a client from sending PlayerLoaded again.                                 *)
PlayerLoaded(p) ==
  /\ phase = "packets" /\ level[p] # "out"
  /\ level' = [level EXCEPT ![p] = "ready"]
  /\ listed' = [q \in Clients |->
                  IF q = p THEN listed[q] \cup {Uuid[c] : c \in Ready \cup {p}}
                  ELSE IF q \in Others(p) THEN listed[q] \cup {Uuid[p]} ELSE listed[q]]
  /\ shown' = [q \in Clients |->
                 IF q = p THEN shown[q] \cup Others(p)
                 ELSE IF q \in Others(p) THEN shown[q] \cup {p} ELSE shown[q]]
  /\ LET sent == ({p} \X Others(p)) \cup (Others(p) \X {p})
     IN  /\ view' = [q \in Clients |-> [o \in Clients |->
                       IF <<q, o>> \in sent THEN pos[o] ELSE view[q][o]]]
         /\ skewed' = (skewed \ sent) \cup {s \in sent : pos[s[2]] # prev[s[2]]}
  /\ UNCHANGED <<phase, pos, prev, changed, mounted, dismounted>>

(* apply_position: the position of a rider is the vehicle's. *)
Move(p, x) ==
  /\ phase = "packets" /\ level[p] # "out" /\ p \notin mounted
  /\ pos' = [pos EXCEPT ![p] = x]
  /\ changed' = changed \cup {p}
  /\ UNCHANGED <<phase, level, prev, mounted, dismounted, listed, shown, view, skewed>>

(* apply_rotation *)
Rotate(p) ==
  /\ phase = "packets" /\ level[p] # "out"
  /\ changed' = changed \cup {p}
  /\ UNCHANGED <<phase, level, pos, prev, mounted, dismounted, listed, shown, view,
                 skewed>>

-----------------------------------------------------------------------------
(* Disconnects *)

(* What becomes of the state that goes with the entity and with its client *)
Forgotten(p) ==
  /\ pos' = [pos EXCEPT ![p] = Spawn] /\ prev' = [prev EXCEPT ![p] = Spawn]
  /\ view' = [q \in Clients |-> [o \in Clients |->
                IF p \in {q, o} THEN Spawn ELSE view[q][o]]]
  /\ skewed' = {s \in skewed : p \notin {s[1], s[2]}}
  /\ changed' = changed \ {p} /\ mounted' = mounted \ {p}
  /\ dismounted' = dismounted \ {p}
  /\ UNCHANGED phase

(* Fault: the quit of a player who rides is not announced. *)
QuitUnlessMounted(p) ==
  /\ phase = "disconnects" /\ level[p] # "out"
  /\ level' = [level EXCEPT ![p] = "out"]
  /\ LET told == IF p \in Ready /\ p \notin mounted THEN Others(p) ELSE {}
     IN  /\ shown' = [q \in Clients |->
                        IF q = p THEN {} ELSE IF q \in told THEN shown[q] \ {p} ELSE shown[q]]
         /\ listed' = [q \in Clients |->
                         IF q = p THEN {} ELSE IF q \in told THEN listed[q] \ {Uuid[p]}
                         ELSE listed[q]]
  /\ Forgotten(p)

(* on_player_quit for a ready player, then the entity is despawned; its     *)
(* client is closed and shows nothing.                                      *)
Quit(p) ==
  /\ phase = "disconnects" /\ level[p] # "out"
  /\ level' = [level EXCEPT ![p] = "out"]
  /\ LET told == IF p \in Ready THEN Others(p) ELSE {}
     IN  /\ shown' = [q \in Clients |->
                        IF q = p THEN {} ELSE IF q \in told THEN shown[q] \ {p} ELSE shown[q]]
         /\ listed' = [q \in Clients |->
                         IF q = p THEN {} ELSE IF q \in told THEN listed[q] \ {Uuid[p]}
                         ELSE listed[q]]
  /\ Forgotten(p)

-----------------------------------------------------------------------------
(* Update: systems of the server move players, seat them and lift them out. *)
ServerMove(p, x) ==
  /\ phase = "update" /\ level[p] # "out"
  /\ pos' = [pos EXCEPT ![p] = x]
  /\ changed' = changed \cup {p}
  /\ UNCHANGED <<phase, level, prev, mounted, dismounted, listed, shown, view, skewed>>

Mount(p) ==
  /\ phase = "update" /\ p \in Ready \ mounted
  /\ mounted' = mounted \cup {p}
  /\ UNCHANGED <<phase, level, pos, prev, changed, dismounted, listed, shown, view,
                 skewed>>

(* Also when a packet is handled: the vehicle may be removed at any time. *)
Dismount(p) ==
  /\ phase # "end" /\ p \in mounted
  /\ mounted' = mounted \ {p} /\ dismounted' = dismounted \cup {p}
  /\ UNCHANGED <<phase, level, pos, prev, changed, listed, shown, view, skewed>>

-----------------------------------------------------------------------------
(* PostUpdate *)

(* broadcast_position: who is synced to an absolute position, and who is    *)
(* sent as a delta.                                                         *)
Resynced == (dismounted \cap Ready) \ mounted
Moved == ((changed \cap Ready) \ mounted) \ Resynced
Far(p) == pos[p] - prev[p] \notin -Reach .. Reach - 1

(* Fault: PreviousPosition does not follow a rider. *)
UpdateUnmounted ==
  prev' = [p \in Clients |-> IF p \in (changed \cap Ready) \ mounted THEN pos[p] ELSE prev[p]]

(* update_previous_positions *)
UpdatePrevious ==
  prev' = [p \in Clients |-> IF p \in changed \cap Ready THEN pos[p] ELSE prev[p]]

Broadcast ==
  LET absolute == Resynced \cup {p \in Moved : Far(p)}
      told(q, p) == q \in Ready \ {p} /\ p \in shown[q]
  IN  /\ phase = "update" /\ phase' = "end"
      /\ view' = [q \in Clients |-> [p \in Clients |->
                    CASE told(q, p) /\ p \in absolute -> pos[p]
                      [] told(q, p) /\ p \in Moved \ absolute
                           -> view[q][p] + (pos[p] - prev[p])
                      [] OTHER -> view[q][p]]]
      /\ UpdatePrevious
      /\ skewed' = {s \in skewed : ~ /\ told(s[1], s[2]) /\ s[2] \in absolute
                                     /\ prev'[s[2]] = pos[s[2]]}
      /\ changed' = {} /\ dismounted' = {}
      /\ UNCHANGED <<level, pos, mounted, listed, shown>>

(* The tick goes on: after the packets the disconnects are handled.         *)
Proceed ==
  /\ phase' = CASE phase = "packets" -> "disconnects"
                [] phase = "disconnects" -> "update"
                [] phase = "end" -> "packets"
                [] OTHER -> phase
  /\ phase # "update"
  /\ UNCHANGED <<level, pos, prev, changed, mounted, dismounted, listed, shown, view,
                 skewed>>

Next ==
  \/ \E p \in Clients :
       \/ FinishConfiguration(p) \/ PlayerLoaded(p) \/ Quit(p)
       \/ /\ p \in Movers
          /\ \/ Rotate(p) \/ Mount(p) \/ Dismount(p)
             \/ \E x \in Places : Move(p, x) \/ ServerMove(p, x)
  \/ Proceed \/ Broadcast

Spec == Init /\ [][Next]_vars

-----------------------------------------------------------------------------
(* Every ready client has an entity for exactly the other ready players and *)
(* lists them and itself, whatever the order of joins, repeated joins and   *)
(* quits.  A uuid two connections share is left out: the list has one row   *)
(* for both.                                                                *)
Unshared(p) == \A c \in Clients \ {p} : Uuid[c] # Uuid[p]

RosterMirrored ==
  \A q \in Ready :
    /\ shown[q] = Others(q)
    /\ \A p \in Clients : Unshared(p) => (Uuid[p] \in listed[q] <=> p \in Ready)

(* The deltas add up: at the end of a tick a player is shown where it is to *)
(* everyone, riders and the players whose spawn was sent at a position not  *)
(* yet broadcast aside.  Moves beyond the reach of a delta, rides and       *)
(* dismounts keep it.                                                       *)
DeltasAddUp ==
  phase = "end" =>
    \A p \in Ready \ mounted : \A q \in Others(p) :
      <<q, p>> \notin skewed => view[q][p] = pos[p]

(* "Position from the previous tick (used for delta encoding)", ecs.md:30:  *)
(* deltas taken from it lead every other client to where the player is.     *)
MirrorExact ==
  phase = "end" => \A p \in Ready \ mounted : \A q \in Others(p) : view[q][p] = pos[p]
=============================================================================
