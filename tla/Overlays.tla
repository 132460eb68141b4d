------------------------------- MODULE Overlays -------------------------------
(***************************************************************************)
(* Components that put something on the screens of an audience and keep it *)
(* there: weathers (plugins/weather.rs, plugins/viewers.rs), world borders *)
(* (plugins/world_border.rs), tab lists (plugins/tab_list.rs) and boss     *)
(* bars (plugins/boss_bar.rs).  Each remembers what it sent and to whom,   *)
(* and sends differences to the viewers it keeps, all of it to the ones    *)
(* that join and a reset to the ones that go.                              *)
(*                                                                         *)
(* A client has one weather, one border and one list, which the last       *)
(* packet decides, and any number of bars.  Only weathers settle who has a *)
(* client: explicit audiences are synced first and claim their players,    *)
(* and who is let go by one is forgotten by the others of its pass, which  *)
(* then send all of it again.                                              *)
(*                                                                         *)
(* What is shown is a flag and a level: the rain and how hard it falls,    *)
(* the portal boundary of a border and the rest of it.  A change of the    *)
(* flag sends both, a change of the level sends the level.                 *)
(***************************************************************************)
EXTENDS Naturals, FiniteSets

CONSTANTS Player, Entity,
          Screen,     \* the one place of a client that all but bars share
          None,       \* absent: a component, a bar
          Full,       \* the highest level
          Transition, \* the transitions of weathers
          Overlap,    \* may two audiences of one kind include the same player?
          Handover,   \* may a player change borders within a tick?
          Hasty,      \* may a weather be withdrawn before it has sent again?
          MaxActs     \* actions of the game that are explored

Value == [flag : BOOLEAN, level : 0..Full]
Default == [flag |-> FALSE, level |-> 0]

VARIABLES
  kind,      \* "weather", "border" (or list) or "bar": which of them this is
  phase,     \* the part of the tick that is next
  acts,      \* bound: actions of the game so far
  acted,     \* did the game act since the last tick?
  ready,     \* players with PlayerReady
  comp,      \* the component, or None: value, explicit, audience, transition
  \* the state beside it
  sent,      \* as sent, or None
  target, from, elapsed, \* the ramp of a weather
  viewers,
  todo,      \* those the pass has yet to reach
  released,  \* players let go in this pass
  forgot,    \* history: those that forgot viewers and were not synced since
  view       \* what each client has

state == <<sent, target, from, elapsed, viewers>>
vars == <<kind, phase, acts, acted, ready, comp, state, todo, released, forgot, view>>

Init ==
  /\ kind \in {"weather", "border", "bar"}
  /\ phase = "game" /\ acts = 0 /\ acted = FALSE
  /\ ready \in SUBSET Player
  /\ comp = [e \in Entity |-> None]
  /\ sent = [e \in Entity |-> None]
  /\ target = [e \in Entity |-> Default] /\ from = target
  /\ elapsed = [e \in Entity |-> 0]
  /\ viewers = [e \in Entity |-> {}]
  /\ todo = {} /\ released = {} /\ forgot = {}
  /\ view = [p \in Player |-> [s \in Entity \cup {Screen} |->
               IF s = Screen THEN Default ELSE None]]

Alive == {e \in Entity : comp[e] # None}

(* Where a client shows e; what it shows once e has let it go. *)
Place(e) == IF kind = "bar" THEN e ELSE Screen
Nothing == IF kind = "bar" THEN None ELSE Default

(* What a client that has v makes of the difference of two values. *)
Patched(v, old, new) ==
  IF old.flag # new.flag THEN new
  ELSE IF old.level # new.level THEN [v EXCEPT !.level = new.level]
  ELSE v

(* The reset of a weather is a difference too; a border's is all of it. *)
Reset(v, old) == IF kind = "weather" THEN Patched(v, old, Default) ELSE Nothing

-----------------------------------------------------------------------------
(* Who sees what. *)

Members(e) == comp[e].audience \cap ready

(* viewers::claimed *)
Claimed ==
  IF kind = "weather" THEN UNION {Members(e) : e \in {x \in Alive : comp[x].explicit}}
  ELSE {}

(* viewers::desired_viewers: a broad audience yields to the claims. *)
Desired(e) == IF comp[e].explicit THEN Members(e) ELSE Members(e) \ Claimed

-----------------------------------------------------------------------------
(* The game, between two ticks. *)

Act == phase = "game" /\ acts < MaxActs /\ acts' = acts + 1 /\ phase' = phase /\ acted' = TRUE

(* Audiences are kept apart, within a kind of audience for weathers. *)
Apart(e, explicit, A) ==
  \A x \in Alive \ {e} :
    CASE kind = "weather" -> Overlap \/ comp[x].explicit # explicit \/ comp[x].audience \cap A = {}
      [] kind = "border" ->
           /\ Overlap \/ comp[x].audience \cap A = {}
           /\ Handover \/ viewers[x] \cap A = {}
      [] kind = "bar" -> TRUE

GetReady(p) ==
  /\ Act /\ p \notin ready /\ ready' = ready \cup {p}
  /\ \A e \in Entity : p \notin viewers[e] \* a player that comes back is another entity
  /\ UNCHANGED <<kind, comp, state, todo, released, forgot, view>>

Leave(p) ==
  /\ Act /\ p \in ready /\ ready' = ready \ {p}
  /\ view' = [view EXCEPT ![p] = [s \in DOMAIN @ |-> IF s = Screen THEN Default ELSE None]]
  /\ UNCHANGED <<kind, comp, state, todo, released, forgot>>

(* A clear sky has no level; only weathers take their time. *)
Legal(v, n) == kind = "weather" => (~v.flag => v.level = 0)
Times == IF kind = "weather" THEN Transition ELSE {0}

Spawn(e, v, x, A, n) ==
  /\ Act /\ comp[e] = None /\ Apart(e, x, A) /\ Legal(v, n)
  /\ comp' = [comp EXCEPT ![e] = [value |-> v, explicit |-> x, audience |-> A, ticks |-> n]]
  /\ UNCHANGED <<kind, ready, state, todo, released, forgot, view>>

Set(e, v, n) ==
  /\ Act /\ e \in Alive /\ Legal(v, n) /\ v # comp[e].value
  /\ comp' = [comp EXCEPT ![e].value = v, ![e].ticks = n]
  /\ UNCHANGED <<kind, ready, state, todo, released, forgot, view>>

(* Also a player that changes dimension, under Audience::InDimension. *)
Readdress(e, x, A) ==
  /\ Act /\ e \in Alive /\ Apart(e, x, A) /\ (Hasty \/ e \notin forgot)
  /\ <<x, A>> # <<comp[e].explicit, comp[e].audience>>
  /\ comp' = [comp EXCEPT ![e].explicit = x, ![e].audience = A]
  /\ UNCHANGED <<kind, ready, state, todo, released, forgot, view>>

(* The observer of a removed component; a weather also has the others forget. *)
Despawn(e) ==
  /\ Act /\ e \in Alive /\ (Hasty \/ e \notin forgot)
  /\ view' = [p \in Player |->
       IF p \in viewers[e] /\ p \in ready
       THEN [view[p] EXCEPT ![Place(e)] = Reset(@, sent[e])] ELSE view[p]]
  /\ viewers' = [x \in Entity |->
       IF x = e THEN {}
       ELSE IF kind = "weather" THEN viewers[x] \ viewers[e] ELSE viewers[x]]
  /\ sent' = [sent EXCEPT ![e] = None]
  /\ comp' = [comp EXCEPT ![e] = None]
  \* a spawned entity begins with a state of its own
  /\ target' = [target EXCEPT ![e] = Default] /\ from' = [from EXCEPT ![e] = Default]
  /\ elapsed' = [elapsed EXCEPT ![e] = 0]
  /\ forgot' = {x \in Entity \ {e} : viewers'[x] # viewers[x]} \cup (forgot \ {e})
  /\ UNCHANGED <<kind, ready, todo, released>>

-----------------------------------------------------------------------------
(* The systems: the explicit weathers, then everything else. *)

Explicit == {e \in Alive : kind = "weather" /\ comp[e].explicit}

BeginTick ==
  /\ phase = "game" /\ phase' = "explicit" /\ todo' = Explicit /\ released' = {}
  /\ UNCHANGED <<kind, acts, acted, ready, comp, state, forgot, view>>

Current(e) == IF sent[e] = None THEN Default ELSE sent[e]

(* WeatherState::next: a new target starts a ramp from what is shown. *)
Retargeted(e) == sent[e] = None \/ comp[e].value # target[e]
RampFrom(e) == IF Retargeted(e) THEN Current(e) ELSE from[e]
Elapsed(e) ==
  LET n == (IF Retargeted(e) THEN 0 ELSE elapsed[e]) + 1
  IN IF n < comp[e].ticks THEN n ELSE comp[e].ticks

(* Levels::towards, in whole levels. *)
Towards(old, new, n, ticks) ==
  IF n >= ticks THEN new
  ELSE [flag |-> new.flag,
        level |-> IF new.level >= old.level
                  THEN old.level + ((new.level - old.level) * n) \div ticks
                  ELSE old.level - ((old.level - new.level) * n) \div ticks]

(* The viewers that go, but for those an explicit audience has taken over. *)
Told(e) == viewers[e] \ (IF comp[e].explicit THEN Members(e) ELSE Members(e) \cup Claimed)

Sync(e) ==
  /\ phase \in {"explicit", "broad"} /\ e \in todo /\ todo' = todo \ {e}
  /\ LET old  == Current(e)
         new  == Towards(RampFrom(e), comp[e].value, Elapsed(e), comp[e].ticks)
         keep == viewers[e] \cap Desired(e)
         come == Desired(e) \ viewers[e]
     IN
     /\ view' = [p \in Player |->
          IF p \notin ready THEN view[p]
          ELSE [view[p] EXCEPT ![Place(e)] =
                  CASE p \in come    -> new
                    [] p \in keep    -> Patched(@, old, new)
                    [] p \in Told(e) -> Reset(@, old)
                    [] OTHER         -> @]]
     /\ sent' = [sent EXCEPT ![e] = new]
  /\ target' = [target EXCEPT ![e] = comp[e].value]
  /\ from' = [from EXCEPT ![e] = RampFrom(e)]
  /\ elapsed' = [elapsed EXCEPT ![e] = Elapsed(e)]
  /\ viewers' = [viewers EXCEPT ![e] = Desired(e)]
  /\ released' = released \cup Told(e) /\ forgot' = forgot \ {e}
  /\ UNCHANGED <<kind, phase, acts, acted, ready, comp>>

(* Mutant of Forget: nobody is forgotten at the end of a pass. *)
ForgetNone(pass) == viewers

(* The others of the pass forget whom one of them let go. *)
Forget(pass) ==
  [e \in Entity |-> IF kind = "weather" /\ e \in pass THEN viewers[e] \ released ELSE viewers[e]]

EndExplicit ==
  /\ phase = "explicit" /\ todo = {} /\ phase' = "broad"
  /\ viewers' = Forget(Explicit)
  /\ forgot' = forgot \cup {e \in Entity : viewers'[e] # viewers[e]}
  /\ released' = {} /\ todo' = Alive \ Explicit
  /\ UNCHANGED <<kind, acts, acted, ready, comp, sent, target, from, elapsed, view>>

EndBroad ==
  /\ phase = "broad" /\ todo = {} /\ phase' = "done"
  /\ viewers' = Forget(Alive \ Explicit)
  /\ forgot' = forgot \cup {e \in Entity : viewers'[e] # viewers[e]}
  /\ released' = {}
  /\ UNCHANGED <<kind, acts, acted, ready, comp, sent, target, from, elapsed, todo, view>>

EndTick ==
  /\ phase = "done" /\ phase' = "game" /\ acted' = FALSE
  /\ UNCHANGED <<kind, acts, ready, comp, state, todo, released, forgot, view>>

-----------------------------------------------------------------------------
Game ==
  \/ \E p \in Player : GetReady(p) \/ Leave(p)
  \/ \E e \in Entity :
       \/ Despawn(e)
       \/ \E v \in [flag : BOOLEAN, level : {0, Full}], n \in Times :
            Set(e, v, n) \/ \E x \in BOOLEAN, A \in SUBSET Player : Spawn(e, v, x, A, n)
       \/ \E x \in BOOLEAN, A \in SUBSET Player : Readdress(e, x, A)

Tick == BeginTick \/ (\E e \in Entity : Sync(e)) \/ EndExplicit \/ EndBroad \/ EndTick

Next == Game \/ Tick

Spec == Init /\ [][Next]_vars

-----------------------------------------------------------------------------
(***************************************************************************)
(* At the end of a tick a client shows what the one component that covers  *)
(* it has sent, and the default when none does; who was forgotten to be    *)
(* sent all again has been by the end of the next tick.  Nothing is left   *)
(* of the one before, whatever the order in which a player is let go by    *)
(* one and taken by another, and although only differences are sent        *)
(* (weather.rs 222-355, world_border.rs 333-399, boss_bar.rs 205-259).     *)
(***************************************************************************)
Covering(p) == {e \in Alive : p \in Desired(e)}

OverlaysShown ==
  phase = "done" =>
  /\ \A e \in Alive :
       /\ viewers[e] \subseteq Desired(e)
       /\ ~acted => viewers[e] = Desired(e)
       /\ elapsed[e] = comp[e].ticks => sent[e] = comp[e].value
  /\ \A p \in ready :
       /\ \A e \in Covering(p) : p \in viewers[e] => view[p][Place(e)] = sent[e]
       /\ kind # "bar" /\ Covering(p) = {} => view[p][Screen] = Default
       /\ kind = "bar" => \A e \in Entity \ Covering(p) : view[p][e] = None
=============================================================================
