-------------------------------- MODULE Teams --------------------------------
(***************************************************************************)
(* Teams (plugins/scoreboard.rs, sync_teams).  A client has a player on at *)
(* most one team and throws when it is told that someone leaves a team it  *)
(* is not on; so the claims say, per viewer, which entity has a team name  *)
(* and which team a member is on, and the leaves of every team are sent    *)
(* before the joins of any.                                                *)
(*                                                                         *)
(* begin_sync and the leaves of every team are one step here (Leaves): a   *)
(* team gives up only claims of its own, so their order does not matter.   *)
(* The joins and finish_sync are one step per team (Joins), in any order.  *)
(***************************************************************************)
EXTENDS Naturals, FiniteSets

CONSTANTS Player, Entity, Name, Member,
          Param,    \* colour, prefix, flags and so on, as one value
          None,     \* absent: a team, an owner
          MaxActs   \* actions of the game that are explored

VARIABLES
  phase,    \* the part of the tick that is next
  acts,     \* bound: actions of the game so far
  ready,    \* players with PlayerReady
  team,     \* Team, or None; members by name, as resolved_members gives them
  \* TeamState
  known,    \* name: as the viewers know it
  sent,     \* parameters and members as sent, or None
  viewers, refused,
  stale,    \* teams with refused_at # generation
  pending,  \* those whose audience is not what viewers and refused say
  update, joined,
  todo,     \* teams the last loop has yet to reach
  \* Claims
  own, on,  \* per viewer, who has a name and which team a member is on
  freed,    \* a team name was released since generation was read
  turned,   \* history: the members a team was refused for another the viewer has
  \* what each client has
  teams, playsOn, broken

state  == <<known, sent, viewers, refused, stale, pending, update, joined, todo>>
claims == <<own, on, freed, turned>>
client == <<teams, playsOn, broken>>
vars == <<phase, acts, ready, team, state, claims, client>>

Init ==
  /\ phase = "game" /\ acts = 0
  /\ ready \in SUBSET Player
  /\ team = [e \in Entity |-> None]
  /\ known \in [Entity -> {CHOOSE n \in Name : TRUE}]
  /\ sent = [e \in Entity |-> None]
  /\ viewers = [e \in Entity |-> {}] /\ refused = [e \in Entity |-> {}]
  /\ stale = {} /\ pending = {} /\ update = {} /\ todo = {}
  /\ joined = [e \in Entity |-> {}]
  /\ own = [p \in Player |-> [n \in Name |-> None]]
  /\ on = [p \in Player |-> [m \in Member |-> None]]
  /\ freed = FALSE /\ turned = {}
  /\ teams = [p \in Player |-> [n \in Name |-> None]]
  /\ playsOn = [p \in Player |-> [m \in Member |-> None]]
  /\ broken = {}

Alive == {e \in Entity : team[e] # None}
Desired(e) == team[e].audience \cap ready

(* Mutant of OnWithout: the members of a removed team stay claimed. *)
OnKept(out) == [p \in Player |-> [m \in Member |-> on[p][m]]]

(* The viewers in out[e] are sent Remove and give up every claim of e. *)
OwnWithout(out) == [p \in Player |-> [n \in Name |->
  IF \E e \in Entity : p \in out[e] /\ n = known[e] /\ own[p][n] = e THEN None ELSE own[p][n]]]
OnWithout(out) == [p \in Player |-> [m \in Member |->
  IF \E e \in Entity : p \in out[e] /\ on[p][m] = e THEN None ELSE on[p][m]]]
Names(out, p) == {known[e] : e \in {x \in Entity : p \in out[x]}}
TeamsWithout(out) == [p \in Player |-> [n \in Name |->
  IF n \in Names(out, p) THEN None ELSE teams[p][n]]]
PlaysWithout(out) == [p \in Player |-> [m \in Member |->
  IF playsOn[p][m] \in Names(out, p) THEN None ELSE playsOn[p][m]]]

-----------------------------------------------------------------------------
(* The game, between two ticks. *)

Act == phase = "game" /\ acts < MaxActs /\ acts' = acts + 1 /\ phase' = phase

GetReady(p) ==
  /\ Act /\ p \notin ready /\ ready' = ready \cup {p}
  /\ teams[p] = [n \in Name |-> None] \* who left comes back as another entity
  /\ \A e \in Entity : p \notin viewers[e] \cup refused[e]
  /\ UNCHANGED <<team, state, claims, client>>

(* The client is gone, and all it had. *)
Leave(p) ==
  /\ Act /\ p \in ready /\ ready' = ready \ {p}
  /\ teams' = [teams EXCEPT ![p] = [n \in Name |-> None]]
  /\ playsOn' = [playsOn EXCEPT ![p] = [m \in Member |-> None]]
  /\ UNCHANGED <<team, state, claims, broken>>

(* For everybody, until it is given another audience. *)
Spawn(e, n, M) ==
  /\ Act /\ team[e] = None
  /\ \E x \in Param :
       team' = [team EXCEPT ![e] = [name |-> n, param |-> x, members |-> M, audience |-> Player]]
  /\ UNCHANGED <<ready, state, claims, client>>

Edit(e, t) ==
  /\ Act /\ e \in Alive /\ t # team[e]
  /\ team' = [team EXCEPT ![e] = t]
  /\ UNCHANGED <<ready, state, claims, client>>

Rename(e, n)    == e \in Alive /\ Edit(e, [team[e] EXCEPT !.name = n])
Restyle(e, x)   == e \in Alive /\ Edit(e, [team[e] EXCEPT !.param = x])
Add(e, m)       == e \in Alive /\ Edit(e, [team[e] EXCEPT !.members = @ \cup {m}])
Remove(e, m)    == e \in Alive /\ Edit(e, [team[e] EXCEPT !.members = @ \ {m}])
Readdress(e, A) == e \in Alive /\ Edit(e, [team[e] EXCEPT !.audience = A])

(* forget_player_in_teams: the one who left is on no team any more. *)
ForgetPlayer(m) ==
  /\ Act /\ \E e \in Alive : m \in team[e].members
  /\ team' = [e \in Entity |->
       IF e \in Alive THEN [team[e] EXCEPT !.members = @ \ {m}] ELSE None]
  /\ UNCHANGED <<ready, state, claims, client>>

(* The observer of a removed Team. *)
Despawn(e) ==
  /\ Act /\ e \in Alive
  /\ LET out == [x \in Entity |-> IF x = e THEN viewers[e] ELSE {}] IN
     /\ own' = OwnWithout(out) /\ on' = OnWithout(out)
     /\ teams' = TeamsWithout(out) /\ playsOn' = PlaysWithout(out)
  /\ freed' = (freed \/ own' # own)
  /\ stale' = IF own' # own THEN Entity ELSE stale
  /\ team' = [team EXCEPT ![e] = None]
  /\ sent' = [sent EXCEPT ![e] = None]
  /\ viewers' = [viewers EXCEPT ![e] = {}] /\ refused' = [refused EXCEPT ![e] = {}]
  /\ UNCHANGED <<ready, known, pending, update, joined, todo, turned, broken>>

-----------------------------------------------------------------------------
(* sync_teams. *)

Renamed(e) == sent[e] # None /\ known[e] # team[e].name

(* Members of a changed team that were sent and are no more. *)
Left(e) == IF Renamed(e) \/ sent[e] = None THEN {} ELSE sent[e].members \ team[e].members

Came(e) == IF Renamed(e) \/ sent[e] = None THEN {} ELSE team[e].members \ sent[e].members

Leaves ==
  /\ phase = "game" /\ phase' = "joins"
  /\ LET out == [e \in Entity |->
                   IF e \notin Alive THEN {}
                   ELSE IF Renamed(e) THEN viewers[e] ELSE viewers[e] \ Desired(e)]
         kept == [e \in Entity |->
                   IF e \in Alive /\ (Renamed(e) \/ e \in stale) THEN {} ELSE refused[e]]
         \* release says which members were on the team for this viewer
         quit(p) == {m \in Member : \E e \in Alive :
                       p \in viewers[e] \ out[e] /\ m \in Left(e) /\ on[p][m] = e}
     IN
     /\ own' = OwnWithout(out)
     /\ on' = [p \in Player |-> [m \in Member |->
                 IF m \in quit(p) THEN None ELSE OnWithout(out)[p][m]]]
     /\ teams' = TeamsWithout(out)
     /\ playsOn' = [p \in Player |-> [m \in Member |->
                      IF m \in quit(p) THEN None ELSE PlaysWithout(out)[p][m]]]
     /\ broken' = broken \cup {p \in ready : \E m \in quit(p) :
                    playsOn[p][m] # team[on[p][m]].name}
     /\ viewers' = [e \in Entity |-> viewers[e] \ out[e]]
     /\ refused' = kept
     /\ pending' = {e \in Alive :
          (IF Renamed(e) THEN {} ELSE viewers[e]) \cup kept[e] # Desired(e)}
  /\ joined' = [e \in Entity |-> IF e \in Alive THEN Came(e) ELSE joined[e]]
  /\ update' = {e \in Alive : ~Renamed(e) /\ sent[e] # None /\ sent[e].param # team[e].param}
  /\ sent' = [e \in Entity |->
       IF e \in Alive THEN [param |-> team[e].param, members |-> team[e].members] ELSE sent[e]]
  /\ known' = [e \in Entity |-> IF e \in Alive THEN team[e].name ELSE known[e]]
  /\ freed' = (own' # own)
  /\ stale' = IF freed' THEN Entity ELSE stale
  /\ todo' = Alive
  /\ UNCHANGED <<acts, ready, team, turned>>

(* claim_members: those of M that e gets for p. *)
Mine(e, p, M) == {m \in M : on[p][m] \in {None, e}}

(* Mutant of Marked: a refusal is marked with the generation it has by then. *)
MarkedNow(e) == IF e \in pending THEN stale \ {e} ELSE stale

(* finish_sync marks a refusal with the generation of the tick's beginning *)
(* if it looked at the audience at all.                                    *)
Marked(e) == IF e \notin pending THEN stale
             ELSE IF freed THEN stale \cup {e} ELSE stale \ {e}

Joins(e) ==
  /\ phase = "joins" /\ e \in todo /\ todo' = todo \ {e}
  /\ LET n    == team[e].name
         new  == IF e \in pending THEN Desired(e) \ (viewers[e] \cup refused[e]) ELSE {}
         win  == {p \in new : own[p][n] \in {None, e}}
         \* whom each viewer is asked to take: the joins, or all of them
         asks(p) == IF p \in viewers[e] THEN joined[e]
                    ELSE IF p \in win THEN sent[e].members ELSE {}
         gets(p) == Mine(e, p, asks(p))
     IN
     /\ own' = [p \in Player |-> IF p \in win THEN [own[p] EXCEPT ![n] = e] ELSE own[p]]
     /\ on' = [p \in Player |-> [m \in Member |-> IF m \in gets(p) THEN e ELSE on[p][m]]]
     /\ turned' = turned \cup
          UNION {{<<p, e, m>> : m \in {x \in asks(p) \ gets(p) : p \in viewers[on[p][x]]}}
                   : p \in Player}
     /\ viewers' = [viewers EXCEPT ![e] = @ \cup win]
     /\ refused' = [refused EXCEPT ![e] =
          IF e \in pending THEN (@ \cap Desired(e)) \cup (new \ win) ELSE @]
     /\ stale' = Marked(e)
     /\ teams' = [p \in Player |-> [teams[p] EXCEPT ![n] =
          IF p \in win \/ (p \in viewers[e] /\ e \in update /\ @ # None)
          THEN team[e].param ELSE @]]
     /\ playsOn' = [p \in Player |-> [m \in Member |->
          IF m \in gets(p) THEN n ELSE playsOn[p][m]]]
     /\ broken' = broken \cup {p \in win : teams[p][n] # None}
                         \cup {p \in viewers[e] : gets(p) # {} /\ teams[p][n] = None}
  /\ joined' = [joined EXCEPT ![e] = {}]
  /\ update' = update \ {e} /\ pending' = pending \ {e}
  /\ UNCHANGED <<phase, acts, ready, team, known, sent, freed>>

EndSync ==
  /\ phase = "joins" /\ todo = {} /\ phase' = "done"
  /\ UNCHANGED <<acts, ready, team, state, claims, client>>

EndTick ==
  /\ phase = "done" /\ phase' = "game"
  /\ UNCHANGED <<acts, ready, team, state, claims, client>>

-----------------------------------------------------------------------------
Game ==
  \/ \E p \in Player : GetReady(p) \/ Leave(p)
  \/ \E m \in Member : ForgetPlayer(m)
  \/ \E e \in Entity :
       \/ Despawn(e)
       \/ \E n \in Name : Rename(e, n)
       \/ \E x \in Param : Restyle(e, x)
       \/ \E m \in Member : Add(e, m) \/ Remove(e, m)
       \/ \E A \in SUBSET Player : Readdress(e, A)
       \/ \E n \in Name, M \in SUBSET Member : Spawn(e, n, M)

Tick == Leaves \/ (\E e \in Entity : Joins(e)) \/ EndSync \/ EndTick

Next == Game \/ Tick

Spec == Init /\ [][Next]_vars

-----------------------------------------------------------------------------
Shown(p) == {e \in Alive : p \in viewers[e]}

(***************************************************************************)
(* At the end of a tick a client has the teams it is a viewer of, with     *)
(* their parameters, and every member on the one team that claims it, a    *)
(* team it is a member of; a member is on no team only if it is on none    *)
(* or its team was refused it.  A player is refused a team because another *)
(* has its name, or the next tick tries again.  On the way the client was  *)
(* never told of a leave from a team the member was not on                 *)
(* (scoreboard.rs 689-765, 897-1018).                                      *)
(***************************************************************************)
TeamsShown ==
  phase = "done" =>
  /\ broken = {}
  /\ \A e \in Alive : viewers[e] \cup refused[e] = Desired(e)
  /\ \A e \in Alive \ stale : \A p \in refused[e] : own[p][team[e].name] \notin {None, e}
  /\ \A p \in ready :
     /\ \A n \in Name : teams[p][n] # None => \E e \in Shown(p) : team[e].name = n
     /\ \A e \in Shown(p) :
          /\ teams[p][team[e].name] = team[e].param
          /\ \A m \in team[e].members :
               playsOn[p][m] = team[e].name \/ <<p, e, m>> \in turned
     /\ \A m \in Member : playsOn[p][m] # None =>
          \E e \in Shown(p) : m \in team[e].members /\ team[e].name = playsOn[p][m]
=============================================================================
