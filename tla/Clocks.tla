-------------------------------- MODULE Clocks --------------------------------
(***************************************************************************)
(* World clocks (plugins/world_time.rs, plugins/viewers.rs): entities that *)
(* set the time of day of an audience, run it or freeze it.  A client runs *)
(* its clocks by itself, so a clock sends when the game interferes, now    *)
(* and then, and to who joins its audience; who leaves a frozen clock is   *)
(* told to run on.  Explicit audiences claim their players as they do for  *)
(* weathers (Overlays).  Ticks of clients and of the server are in step.   *)
(***************************************************************************)
EXTENDS Naturals

CONSTANTS Player, Entity,
          Clock,      \* the world clocks in use
          None,       \* absent: a component, nothing sent yet
          Wrap,       \* times of day, which wrap around
          Interval,   \* TIME_SYNC_INTERVAL
          Hasty,      \* may a clock be withdrawn before it has sent again?
          MaxActs     \* actions of the game that are explored

Time == 0..(Wrap - 1)
Later(t) == (t + 1) % Wrap

VARIABLES
  phase,     \* the part of the tick that is next
  acts,      \* bound: actions of the game so far
  acted,     \* did the game act since the last tick?
  ready,     \* players with PlayerReady
  comp,      \* WorldTime, or None: time, frozen, clock, explicit, audience
  sent, expected, since, viewers, \* WorldTimeState
  todo,      \* those the pass has yet to reach
  released,  \* players let go in this pass
  forgot,    \* history: those that forgot viewers and were not synced since
  view       \* the clocks of each client

state == <<sent, expected, since, viewers>>
vars == <<phase, acts, acted, ready, comp, state, todo, released, forgot, view>>

Fresh == [c \in Clock |-> [time |-> 0, runs |-> TRUE]]

Init ==
  /\ phase = "game" /\ acts = 0 /\ acted = FALSE
  /\ ready \in SUBSET Player
  /\ comp = [e \in Entity |-> None]
  /\ sent = [e \in Entity |-> None]
  /\ expected = [e \in Entity |-> 0] /\ since = [e \in Entity |-> 0]
  /\ viewers = [e \in Entity |-> {}]
  /\ todo = {} /\ released = {} /\ forgot = {}
  /\ view = [p \in Player |-> Fresh]

Alive == {e \in Entity : comp[e] # None}
Explicit == {e \in Alive : comp[e].explicit}

-----------------------------------------------------------------------------
(* Who sees what, and what is sent. *)

Members(e) == comp[e].audience \cap ready

(* viewers::claimed *)
Claimed == UNION {Members(e) : e \in Explicit}

(* viewers::desired_viewers *)
Desired(e) == IF comp[e].explicit THEN Members(e) ELSE Members(e) \ Claimed

(* WorldTime::packet *)
Packet(e, runs) == [time |-> comp[e].time, runs |-> runs]

(* Told to run on, if what they were sent last was frozen. *)
Shown(e, resumed, shown) ==
  [p \in Player |->
    CASE p \in shown -> [view[p] EXCEPT ![comp[e].clock] = Packet(e, ~comp[e].frozen)]
      [] p \in (resumed \cap ready) \ shown /\ sent[e] # None /\ sent[e].frozen ->
           [view[p] EXCEPT ![comp[e].clock] = Packet(e, TRUE)]
      [] OTHER -> view[p]]

-----------------------------------------------------------------------------
(* The game, between two ticks. *)

Act == phase = "game" /\ acts < MaxActs /\ acts' = acts + 1 /\ phase' = phase /\ acted' = TRUE

(* Audiences of one kind are kept apart. *)
Apart(e, explicit, A) ==
  \A x \in Alive \ {e} : comp[x].explicit = explicit => comp[x].audience \cap A = {}

(* A player that comes back is another entity. *)
GetReady(p) ==
  /\ Act /\ p \notin ready /\ ready' = ready \cup {p}
  /\ \A e \in Entity : p \notin viewers[e]
  /\ UNCHANGED <<comp, state, todo, released, forgot, view>>

Leave(p) ==
  /\ Act /\ p \in ready /\ ready' = ready \ {p}
  /\ view' = [view EXCEPT ![p] = Fresh]
  /\ UNCHANGED <<comp, state, todo, released, forgot>>

Appear(e, t, f, c, x, A) ==
  /\ Act /\ comp[e] = None /\ Apart(e, x, A)
  /\ comp' = [comp EXCEPT ![e] =
       [time |-> t, frozen |-> f, clock |-> c, explicit |-> x, audience |-> A]]
  /\ UNCHANGED <<ready, state, todo, released, forgot, view>>

(* set, add, freeze, resume, or the fields themselves *)
Change(e, t, f, c) ==
  LET new == [comp[e] EXCEPT !.time = t, !.frozen = f, !.clock = c]
  IN /\ Act /\ e \in Alive /\ new # comp[e]
     /\ comp' = [comp EXCEPT ![e] = new]
     /\ UNCHANGED <<ready, state, todo, released, forgot, view>>

(* Also a player that changes dimension, under Audience::InDimension. *)
Readdress(e, x, A) ==
  /\ Act /\ e \in Alive /\ Apart(e, x, A) /\ (Hasty \/ e \notin forgot)
  /\ <<x, A>> # <<comp[e].explicit, comp[e].audience>>
  /\ comp' = [comp EXCEPT ![e].explicit = x, ![e].audience = A]
  /\ UNCHANGED <<ready, state, todo, released, forgot, view>>

(* release_on_remove, with the entity or the component alone *)
Despawn(e) ==
  /\ Act /\ e \in Alive /\ (Hasty \/ e \notin forgot)
  /\ view' = Shown(e, viewers[e], {})
  /\ comp' = [comp EXCEPT ![e] = None] /\ sent' = [sent EXCEPT ![e] = None]
  /\ expected' = [expected EXCEPT ![e] = 0] /\ since' = [since EXCEPT ![e] = 0]
  /\ viewers' = [x \in Entity |-> IF x = e THEN {} ELSE viewers[x] \ viewers[e]]
  /\ forgot' = {x \in Entity \ {e} : viewers'[x] # viewers[x]} \cup (forgot \ {e})
  /\ UNCHANGED <<ready, todo, released>>

-----------------------------------------------------------------------------
(* sync_world_time: the explicit clocks, then the others. *)

BeginTick ==
  /\ phase = "game" /\ phase' = "explicit" /\ todo' = Explicit /\ released' = {}
  /\ UNCHANGED <<acts, acted, ready, comp, state, forgot, view>>

(* Fault: a clock that ran on by itself is not told from one that was set. *)
ChangedFlags(e) ==
  \/ sent[e] = None
  \/ <<comp[e].frozen, comp[e].clock>> # <<sent[e].frozen, sent[e].clock>>

Changed(e) ==
  \/ sent[e] = None
  \/ comp[e].time # expected[e]
  \/ <<comp[e].frozen, comp[e].clock>> # <<sent[e].frozen, sent[e].clock>>

Since(e) == IF comp[e].frozen THEN since[e] ELSE since[e] + 1
Sends(e) == Changed(e) \/ (~comp[e].frozen /\ Since(e) >= Interval)

(* The viewers that go, but for those an explicit audience has taken over. *)
Gone(e) == viewers[e] \ (IF comp[e].explicit THEN Members(e) ELSE Members(e) \cup Claimed)

Now(e) == IF comp[e].frozen THEN comp[e].time ELSE Later(comp[e].time)

Sync(e) ==
  /\ phase \in {"explicit", "broad"} /\ e \in todo /\ todo' = todo \ {e}
  /\ view' = Shown(e, Gone(e), IF Sends(e) THEN Desired(e) ELSE Desired(e) \ viewers[e])
  /\ IF Sends(e)
     THEN /\ sent' = [sent EXCEPT ![e] = [frozen |-> comp[e].frozen, clock |-> comp[e].clock]]
          /\ since' = [since EXCEPT ![e] = 0]
     ELSE sent' = sent /\ since' = [since EXCEPT ![e] = Since(e)]
  /\ viewers' = [viewers EXCEPT ![e] = Desired(e)]
  /\ comp' = [comp EXCEPT ![e].time = Now(e)] /\ expected' = [expected EXCEPT ![e] = Now(e)]
  /\ released' = released \cup Gone(e) /\ forgot' = forgot \ {e}
  /\ UNCHANGED <<phase, acts, acted, ready>>

(* forget: the others of the pass resend to whom one of them let go. *)
Forget(pass) == [e \in Entity |-> IF e \in pass THEN viewers[e] \ released ELSE viewers[e]]

EndPass(from, to, pass, rest) ==
  /\ phase = from /\ todo = {} /\ phase' = to
  /\ viewers' = Forget(pass)
  /\ forgot' = forgot \cup {e \in Entity : viewers'[e] # viewers[e]}
  /\ released' = {} /\ todo' = rest
  /\ UNCHANGED <<acts, acted, ready, comp, sent, expected, since, view>>

EndExplicit == EndPass("explicit", "broad", Explicit, Alive \ Explicit)
EndBroad == EndPass("broad", "done", Alive \ Explicit, {})

(* Clients run their clocks on (external). *)
EndTick ==
  /\ phase = "done" /\ phase' = "game" /\ acted' = FALSE
  /\ view' = [p \in Player |-> [c \in Clock |->
       IF view[p][c].runs THEN [view[p][c] EXCEPT !.time = Later(@)] ELSE view[p][c]]]
  /\ UNCHANGED <<acts, ready, comp, state, todo, released, forgot>>

-----------------------------------------------------------------------------
Game ==
  \/ \E p \in Player : GetReady(p) \/ Leave(p)
  \/ \E e \in Entity :
       \/ Despawn(e)
       \/ \E t \in Time, f \in BOOLEAN, c \in Clock :
            Change(e, t, f, c) \/ \E x \in BOOLEAN, A \in SUBSET Player : Appear(e, t, f, c, x, A)
       \/ \E x \in BOOLEAN, A \in SUBSET Player : Readdress(e, x, A)

Tick == BeginTick \/ (\E e \in Entity : Sync(e)) \/ EndExplicit \/ EndBroad \/ EndTick

Next == Game \/ Tick

Spec == Init /\ [][Next]_vars

-----------------------------------------------------------------------------
(***************************************************************************)
(* At the end of a tick every clock is at a client what the component that *)
(* covers it has it at, frozen or running, also when nothing was sent for  *)
(* many ticks; and no client is left with a frozen clock that no component *)
(* holds (world_time.rs 170-296).                                          *)
(***************************************************************************)
Covering(p, c) == {e \in Alive : p \in Desired(e) /\ comp[e].clock = c}

ClocksShown ==
  phase = "done" =>
  /\ ~acted => \A e \in Alive : viewers[e] = Desired(e)
  /\ \A p \in ready, c \in Clock :
       /\ Covering(p, c) = {} => view[p][c].runs
       /\ \A e \in Covering(p, c) : p \in viewers[e] =>
            LET shown == view[p][c]
            IN /\ shown.runs = ~comp[e].frozen
               /\ comp[e].time = IF shown.runs THEN Later(shown.time) ELSE shown.time
=============================================================================
