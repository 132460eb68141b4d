------------------------------ MODULE Scoreboard ------------------------------
(***************************************************************************)
(* Objectives and the sidebars drawn with them (plugins/scoreboard.rs,     *)
(* plugins/sidebar.rs).  A client knows an objective by its name and shows *)
(* one per display slot, so two entities may use the same name or slot as  *)
(* long as no player sees both: the claims say, per viewer, whose name and *)
(* slot it is.  A claim that fails is not tried again until some claim has *)
(* been released.                                                          *)
(*                                                                         *)
(* A tick is the actions of the game, then render_sidebars, then           *)
(* sync_objectives: its first loop withdraws what no longer applies, for   *)
(* every objective (Begin), its second sends and claims, for one objective *)
(* after another in the order of the query (Sync).                         *)
(*                                                                         *)
(* Title, colour and format are one part of an objective's body and each   *)
(* score is another: SetObjective, SetScore and ResetScore carry the parts *)
(* that changed.                                                           *)
(***************************************************************************)
EXTENDS Integers, FiniteSets, Sequences

CONSTANTS Player, Entity, Name, Slot,
          Board,        \* entities whose objective is drawn by a Sidebar
          BoardName, BoardSlot, \* one of Name, one of Slot
          Text,         \* what a title or a score of the game's own can be
          Line,         \* what a widget renders
          None,         \* absent: a score, an owner, an objective
          MaxLines,     \* MAX_SIDEBAR_LINES
          MovesRefused, \* may an objective nobody is shown change slot?
          MaxActs       \* actions of the game that are explored

Row  == 0..MaxLines - 1
Part == {-1} \cup Row  \* the title, then the scores by their owners
Body == [Part -> (Text \cup {None}) \cup (Int \X Line)]

VARIABLES
  phase,     \* the part of the tick that is next
  acts,      \* bound: actions of the game so far
  ready,     \* players with PlayerReady
  gone,      \* players who left
  \* the components
  obj,       \* Objective, or None
  lines,     \* the lines a Sidebar renders
  redraw,    \* boards changed since they were rendered
  \* SyncState
  known,     \* name: as the viewers know it
  sent,      \* slot and body as sent, or None
  viewers, refused,
  stale,     \* objectives with refused_at # generation
  pending,   \* those whose audience is not what viewers and refused say
  todo,      \* objectives the second loop has yet to reach
  \* Claims
  own, hold, \* per viewer, who has a name and who has a slot
  freed,     \* a claim was released since generation was read
  \* what each client has
  objs, display, broken

state  == <<known, sent, viewers, refused>>
client == <<objs, display, broken>>
vars == <<phase, acts, ready, gone, obj, lines, redraw, state, stale, pending,
          todo, own, hold, freed, client>>

Init ==
  /\ phase = "game" /\ acts = 0
  /\ ready \in SUBSET Player /\ gone = {}
  /\ obj = [e \in Entity |-> None]
  /\ lines = [e \in Board |-> <<>>] /\ redraw = {}
  /\ known \in [Entity -> {BoardName}]
  /\ sent = [e \in Entity |-> None]
  /\ viewers = [e \in Entity |-> {}] /\ refused = [e \in Entity |-> {}]
  /\ stale = {} /\ pending = {} /\ todo = {} /\ freed = FALSE
  /\ own = [p \in Player |-> [n \in Name |-> None]]
  /\ hold = [p \in Player |-> [s \in Slot |-> None]]
  /\ objs = [p \in Player |-> [n \in Name |-> None]]
  /\ display = [p \in Player |-> [s \in Slot |-> None]]
  /\ broken = {}

Alive == {e \in Entity : obj[e] # None}
Desired(e) == obj[e].audience \cap ready

-----------------------------------------------------------------------------
(* Giving a claim up, and what a client makes of a Remove. *)

(* release: only the owner's claim goes. *)
Released(claims, k, e) == IF claims[k] = e THEN [claims EXCEPT ![k] = None] ELSE claims

(* Each viewer in out[e] is sent Remove and gives up the claims of e. *)
Withdraw(out) ==
  /\ own' = [p \in Player |-> [n \in Name |->
               IF \E e \in Entity : p \in out[e] /\ n = known[e] /\ own[p][n] = e
               THEN None ELSE own[p][n]]]
  /\ hold' = [p \in Player |-> [s \in Slot |->
               IF \E e \in Entity : /\ p \in out[e] /\ sent[e] # None
                                    /\ s = sent[e].slot /\ hold[p][s] = e
               THEN None ELSE hold[p][s]]]
  /\ LET names(p) == {known[e] : e \in {x \in Entity : p \in out[x]}} IN
     /\ objs' = [p \in Player |-> [n \in Name |->
                   IF n \in names(p) THEN None ELSE objs[p][n]]]
     /\ display' = [p \in Player |-> [s \in Slot |->
                   IF display[p][s] \in names(p) THEN None ELSE display[p][s]]]

-----------------------------------------------------------------------------
(* The game, between two ticks. *)

Act == phase = "game" /\ acts < MaxActs /\ acts' = acts + 1 /\ phase' = phase

Unsynced == UNCHANGED <<state, stale, pending, todo, own, hold, freed, client>>

GetReady(p) ==
  /\ Act /\ p \notin ready \cup gone /\ ready' = ready \cup {p}
  /\ UNCHANGED <<gone, obj, lines, redraw>> /\ Unsynced

Leave(p) ==
  /\ Act /\ p \in ready /\ ready' = ready \ {p} /\ gone' = gone \cup {p}
  /\ UNCHANGED <<obj, lines, redraw>> /\ Unsynced

Blank(t) == [r \in Part |-> IF r = -1 THEN t ELSE None]

(* An Objective of the game's own, or a Sidebar, which requires one; for   *)
(* everybody until it is given another audience.                           *)
Spawn(e, n, s) ==
  /\ Act /\ obj[e] = None
  /\ e \in Board => n = BoardName
  /\ \E t \in Text : obj' = [obj EXCEPT ![e] =
       [name |-> n, slot |-> s, body |-> Blank(t), audience |-> Player]]
  /\ redraw' = redraw \cup ({e} \cap Board)
  /\ lines' = [b \in Board |-> IF b = e THEN <<>> ELSE lines[b]]
  /\ UNCHANGED <<ready, gone>> /\ Unsynced

Edit(e, o) ==
  /\ Act /\ e \in Alive \ Board /\ o # obj[e]
  /\ obj' = [obj EXCEPT ![e] = o]
  /\ UNCHANGED <<ready, gone, lines, redraw>> /\ Unsynced

Rename(e, n) == e \in Alive /\ Edit(e, [obj[e] EXCEPT !.name = n])
SetScore(e, r, x) == e \in Alive /\ Edit(e, [obj[e] EXCEPT !.body[r] = x])
MoveSlot(e, s) ==
  /\ e \in Alive
  /\ MovesRefused \/ viewers[e] # {} \/ refused[e] = {}
  /\ Edit(e, [obj[e] EXCEPT !.slot = s])

(* The audience of a Sidebar is copied to its objective when it is rendered. *)
Readdress(e, A) ==
  /\ Act /\ e \in Alive /\ A # obj[e].audience
  /\ obj' = [obj EXCEPT ![e].audience = A]
  /\ redraw' = redraw \cup ({e} \cap Board)
  /\ UNCHANGED <<ready, gone, lines>> /\ Unsynced

(* A widget is pushed, inserted, set, removed or truncated away. *)
EditWidgets(e, ls) ==
  /\ Act /\ e \in Alive \cap Board /\ ls # lines[e]
  /\ lines' = [lines EXCEPT ![e] = ls] /\ redraw' = redraw \cup {e}
  /\ UNCHANGED <<ready, gone, obj>> /\ Unsynced

(* The observers of a removed Objective run before anything else does. *)
Despawn(e) ==
  /\ Act /\ e \in Alive
  /\ Withdraw([x \in Entity |-> IF x = e THEN viewers[e] ELSE {}])
  /\ freed' = (freed \/ own' # own \/ hold' # hold)
  /\ stale' = IF own' # own \/ hold' # hold THEN Entity ELSE stale
  /\ obj' = [obj EXCEPT ![e] = None]
  /\ sent' = [sent EXCEPT ![e] = None]
  /\ viewers' = [viewers EXCEPT ![e] = {}] /\ refused' = [refused EXCEPT ![e] = {}]
  /\ redraw' = redraw \ {e}
  /\ UNCHANGED <<ready, gone, lines, known, pending, todo, broken>>

-----------------------------------------------------------------------------
(* The systems. *)

(* Mutant of Scores: a line scores its index, so the last one is on top. *)
ScoresUp(ls) == [r \in Row |-> IF r < Len(ls) THEN <<r, ls[r + 1]>> ELSE None]

(* Sidebar::scores: the first lines, the highest score on top. *)
Scores(ls) == [r \in Row |->
  IF r < Len(ls) THEN <<MaxLines - r, ls[r + 1]>> ELSE None]

RenderSidebars ==
  /\ phase = "game" /\ phase' = "begin"
  /\ obj' = [e \in Entity |->
       IF e \in redraw
       THEN [obj[e] EXCEPT !.slot = BoardSlot,
                           !.body = [r \in Part |->
                              IF r = -1 THEN @[r] ELSE Scores(lines[e])[r]]]
       ELSE obj[e]]
  /\ redraw' = {}
  /\ UNCHANGED <<acts, ready, gone, lines>> /\ Unsynced

Renamed(e) == sent[e] # None /\ known[e] # obj[e].name

(* begin_sync of every objective.  A viewer that is out of the audience is *)
(* told at once; a refusal is forgotten when some claim was released.      *)
Begin ==
  /\ phase = "begin" /\ phase' = "sync"
  /\ LET out == [e \in Entity |->
                   IF e \notin Alive THEN {}
                   ELSE IF Renamed(e) THEN viewers[e] ELSE viewers[e] \ Desired(e)]
         kept == [e \in Entity |->
                   IF e \in Alive /\ (Renamed(e) \/ e \in stale) THEN {} ELSE refused[e]]
     IN
     /\ Withdraw(out)
     /\ viewers' = [e \in Entity |-> viewers[e] \ out[e]]
     /\ refused' = kept
     /\ pending' = {e \in Alive :
          (IF Renamed(e) THEN {} ELSE viewers[e]) \cup kept[e] # Desired(e)}
  /\ sent' = [e \in Entity |-> IF e \in Alive /\ Renamed(e) THEN None ELSE sent[e]]
  /\ known' = [e \in Entity |-> IF e \in Alive THEN obj[e].name ELSE known[e]]
  /\ freed' = (own' # own \/ hold' # hold)
  /\ stale' = IF freed' THEN Entity ELSE stale
  /\ todo' = Alive
  /\ UNCHANGED <<acts, ready, gone, obj, lines, redraw, broken>>

(* Mutant of Updated: a score that is gone is not reset. *)
UpdatedOnly(have, was, is) ==
  [r \in Part |-> IF was[r] # is[r] /\ is[r] # None THEN is[r] ELSE have[r]]

(* The parts of a body that updates_since sends, as the client applies them. *)
Updated(have, was, is) == [r \in Part |-> IF was[r] # is[r] THEN is[r] ELSE have[r]]

(* The new slot is another's for these viewers of an objective that moved. *)
Lost(e, moved) == {p \in viewers[e] : moved /\ hold[p][obj[e].slot] \notin {None, e}}

(* Mutant of Marked: a refusal is marked with the generation it has by then. *)
MarkedNow(e) == IF e \in pending THEN stale \ {e} ELSE stale

(* finish_sync marks a refusal with the generation of the tick's beginning *)
(* if it looked at the audience at all.                                    *)
Marked(e) == IF e \notin pending THEN stale
             ELSE IF freed THEN stale \cup {e} ELSE stale \ {e}

(* The second loop, for one objective: updates to the viewers that stay, a *)
(* claim of the new slot, then finish_sync for the new viewers.            *)
Sync(e) ==
  /\ phase = "sync" /\ e \in todo /\ todo' = todo \ {e}
  /\ LET o     == obj[e]
         s     == o.slot
         n     == o.name
         moved == sent[e] # None /\ sent[e].slot # s
         stay  == viewers[e] \ Lost(e, moved)
         lost  == Lost(e, moved)
         out   == refused[e] \cup lost
         own1  == [p \in Player |-> IF p \in lost THEN Released(own[p], n, e) ELSE own[p]]
         hold1 == [p \in Player |->
                     IF moved /\ p \in viewers[e]
                     THEN LET h == Released(hold[p], sent[e].slot, e) IN
                          IF p \in stay THEN [h EXCEPT ![s] = e] ELSE h
                     ELSE hold[p]]
         new   == IF e \in pending THEN Desired(e) \ (stay \cup out) ELSE {}
         win   == {p \in new : hold1[p][s] \in {None, e} /\ own1[p][n] \in {None, e}}
         rel   == own1 # own \/ (moved /\ viewers[e] # {})
     IN
     /\ own' = [p \in Player |-> IF p \in win THEN [own1[p] EXCEPT ![n] = e] ELSE own1[p]]
     /\ hold' = [p \in Player |-> IF p \in win THEN [hold1[p] EXCEPT ![s] = e] ELSE hold1[p]]
     /\ viewers' = [viewers EXCEPT ![e] = stay \cup win]
     /\ refused' = [refused EXCEPT ![e] =
          IF e \in pending THEN (out \cap Desired(e)) \cup (new \ win) ELSE out]
     /\ freed' = (freed \/ rel)
     /\ stale' = IF rel THEN Entity ELSE Marked(e)
     /\ sent' = [sent EXCEPT ![e] = [slot |-> s, body |-> o.body]]
     /\ objs' = [p \in Player |->
          [objs[p] EXCEPT ![n] =
             IF p \in lost THEN None
             ELSE IF p \in win THEN o.body
             ELSE IF p \in stay /\ @ # None /\ sent[e] # None
                  THEN Updated(@, sent[e].body, o.body)
             ELSE @]]
     /\ display' = [p \in Player |-> [x \in Slot |->
          CASE p \in lost /\ display[p][x] = n -> None
            [] p \in stay /\ moved /\ x = sent[e].slot -> None
            [] (p \in win \/ (p \in stay /\ moved)) /\ x = s -> n
            [] OTHER -> display[p][x]]]
     /\ broken' = broken \cup {p \in win : objs[p][n] # None}
  /\ pending' = pending \ {e}
  /\ UNCHANGED <<phase, acts, ready, gone, obj, lines, redraw, known>>

EndSync ==
  /\ phase = "sync" /\ todo = {} /\ phase' = "done"
  /\ UNCHANGED <<acts, ready, gone, obj, lines, redraw>> /\ Unsynced

EndTick ==
  /\ phase = "done" /\ phase' = "game"
  /\ UNCHANGED <<acts, ready, gone, obj, lines, redraw>> /\ Unsynced

-----------------------------------------------------------------------------
Game ==
  \/ \E p \in Player : GetReady(p) \/ Leave(p)
  \/ \E e \in Entity :
       \/ Despawn(e)
       \/ \E A \in SUBSET Player : Readdress(e, A)
       \/ \E n \in Name, s \in Slot : Spawn(e, n, s)
       \/ \E n \in Name : Rename(e, n)
       \/ \E s \in Slot : MoveSlot(e, s)
       \/ \E r \in Part, x \in Text \cup {None} :
            (r = -1 => x # None) /\ SetScore(e, r, x)
       \/ \E k \in 0..MaxLines + 1 : \E ls \in [1..k -> Line] : EditWidgets(e, ls)

Tick == RenderSidebars \/ Begin \/ (\E e \in Entity : Sync(e)) \/ EndSync \/ EndTick

Next == Game \/ Tick

Spec == Init /\ [][Next]_vars

-----------------------------------------------------------------------------
Shown(p) == {e \in Alive : p \in viewers[e]}

(***************************************************************************)
(* At the end of a tick a client has the objectives it is a viewer of, as  *)
(* they are and each on its slot, and no others; an audience is split into *)
(* viewers and refused.  Nothing was created twice on the way, which a     *)
(* client answers by disconnecting (scoreboard.rs 689-862).                *)
(***************************************************************************)
ObjectivesShown ==
  phase = "done" =>
  /\ broken = {}
  /\ \A e \in Alive : /\ viewers[e] \cup refused[e] = Desired(e)
                      /\ viewers[e] \cap refused[e] = {}
  /\ \A p \in ready :
     /\ \A n \in Name : objs[p][n] # None =>
          \E e \in Shown(p) : n = obj[e].name /\ objs[p][n] = obj[e].body
     /\ \A e \in Shown(p) : objs[p][obj[e].name] = obj[e].body
     /\ \A s \in Slot :
          IF \E e \in Shown(p) : obj[e].slot = s
          THEN \E e \in Shown(p) : obj[e].slot = s /\ display[p][s] = obj[e].name
          ELSE display[p][s] = None

(***************************************************************************)
(* A player is refused an objective for a cause: another has the name or   *)
(* the slot, or a claim was released and the next tick tries again.  No    *)
(* release is missed, wherever in the tick it happens                      *)
(* (scoreboard.rs 514-578, 689-765).                                       *)
(***************************************************************************)
RefusedForCause ==
  phase = "done" => \A e \in Alive \ stale : \A p \in refused[e] :
    \/ own[p][obj[e].name] \notin {None, e}
    \/ hold[p][obj[e].slot] \notin {None, e}

(***************************************************************************)
(* A client lists the scores of an objective from the highest: the lines   *)
(* of a sidebar are read in the order of its widgets, the first MaxLines,  *)
(* whatever was inserted or removed (sidebar.rs 557-590, 690-745).         *)
(***************************************************************************)
BoardInOrder ==
  phase = "done" => \A e \in Alive \cap Board : \A p \in viewers[e] \cap ready :
    LET rows == {r \in Row : objs[p][BoardName][r] # None}
        n    == IF Len(lines[e]) < MaxLines THEN Len(lines[e]) ELSE MaxLines
    IN /\ Cardinality(rows) = n
       /\ \A i \in 1..n : \E r \in rows :
            /\ objs[p][BoardName][r][2] = lines[e][i]
            /\ Cardinality({q \in rows : objs[p][BoardName][q][1] > objs[p][BoardName][r][1]})
                 = i - 1
=============================================================================
