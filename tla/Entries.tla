------------------------------- MODULE Entries -------------------------------
(***************************************************************************)
(* The entry of each player in the lists of all: its TabEntry, resolved    *)
(* with the round trip that keep-alives measure (plugins/tab_list.rs,      *)
(* systems/keep_alive.rs, plugins/play.rs, systems/player.rs).  A client   *)
(* that gets ready is sent every entry as it was last sent to the others,  *)
(* and from then on the fields that change, found by change detection.     *)
(*                                                                         *)
(* Of the fields, the display name and its colour, which go together, and  *)
(* the latency, which has a fallback, are modelled; the rest are each like *)
(* the latency without one.                                                *)
(***************************************************************************)
EXTENDS Naturals, FiniteSets

CONSTANTS Player,
          Interval,  \* interval_ticks
          Trip,      \* round trips that are measured
          Colour,
          None,      \* no TabEntry, no override, nothing sent, no entry
          MaxActs    \* actions of the game and of clients that are explored

Entry == [named : BOOLEAN, colour : Colour, latency : {None} \cup Trip]

VARIABLES
  phase,     \* the part of the tick that is next
  acts,      \* bound: actions so far
  ready,     \* players with PlayerReady
  left,      \* players who left
  ticker,    \* ticks_since_last
  awaiting, measured,    \* KeepAliveState
  answers,   \* keep-alives that a client has and did not answer
  entry,     \* TabEntry, or None
  \* change detection, and TabEntryState
  fresh, sentEntry,
  list       \* what each client has: the colour of a name and a latency

keepAlive == <<ticker, awaiting, measured, answers>>
vars == <<phase, acts, ready, left, keepAlive, entry, fresh, sentEntry, list>>

Init ==
  /\ phase = "game" /\ acts = 0 /\ ready = {} /\ left = {}
  /\ ticker = 0
  /\ awaiting = {} /\ measured = [p \in Player |-> 0]
  /\ answers = [p \in Player |-> 0]
  /\ entry = [p \in Player |-> None]
  /\ fresh = {} /\ sentEntry = [p \in Player |-> None]
  /\ list = [q \in Player |-> [p \in Player |-> None]]

DefaultEntry == [named |-> FALSE, colour |-> CHOOSE c \in Colour : TRUE, latency |-> None]

(* EntrySnapshot::resolve *)
Resolved(p) ==
  LET e == IF entry[p] = None THEN DefaultEntry ELSE entry[p]
  IN [e EXCEPT !.latency = IF @ = None THEN measured[p] ELSE @]

(* EntrySnapshot::wire *)
Wire(s) == [name |-> IF s.named THEN s.colour ELSE None, latency |-> s.latency]

-----------------------------------------------------------------------------
(* Packets and the game. *)

Act == phase = "game" /\ acts < MaxActs /\ acts' = acts + 1 /\ phase' = phase

(* handle_player_loaded and on_player_ready, as often as a client likes. *)
Loaded(p) ==
  /\ Act /\ p \notin left /\ ready' = ready \cup {p}
  /\ entry' = [entry EXCEPT ![p] = IF @ = None THEN DefaultEntry ELSE @]
  /\ fresh' = IF entry[p] = None THEN fresh \cup {p} ELSE fresh
  /\ sentEntry' = [sentEntry EXCEPT ![p] = Resolved(p)]
  /\ list' = [q \in Player |-> [r \in Player |->
       CASE q = p /\ r \in ready \ {p} ->
              Wire(IF sentEntry[r] = None THEN Resolved(r) ELSE sentEntry[r])
         [] q \in ready' /\ r = p -> Wire(Resolved(p))
         [] OTHER -> list[q][r]]]
  /\ UNCHANGED <<left, keepAlive>>

(* on_player_quit *)
Quit(p) ==
  /\ Act /\ p \in ready /\ ready' = ready \ {p} /\ left' = left \cup {p}
  /\ list' = [q \in Player |-> [r \in Player |-> IF p \in {q, r} THEN None ELSE list[q][r]]]
  /\ awaiting' = awaiting \ {p} /\ answers' = [answers EXCEPT ![p] = 0]
  /\ entry' = [entry EXCEPT ![p] = None] /\ sentEntry' = [sentEntry EXCEPT ![p] = None]
  /\ measured' = [measured EXCEPT ![p] = 0] /\ fresh' = fresh \ {p}
  /\ UNCHANGED ticker

(* handle_keep_alive: an answer to the keep-alive that is awaited.  Players *)
(* that await one are not sent another, so it is the last one sent.         *)
Answer(p, n) ==
  /\ Act /\ p \in awaiting /\ answers[p] > 0
  /\ answers' = [answers EXCEPT ![p] = @ - 1]
  /\ awaiting' = awaiting \ {p}
  /\ measured' = [measured EXCEPT ![p] = n]
  /\ fresh' = fresh \cup {p}
  /\ UNCHANGED <<ready, left, ticker, entry, sentEntry, list>>

(* The game inserts or changes a TabEntry, also before the player is ready. *)
SetEntry(p, e) ==
  /\ Act /\ p \notin left /\ e # entry[p]
  /\ entry' = [entry EXCEPT ![p] = e]
  /\ fresh' = fresh \cup {p}
  /\ UNCHANGED <<ready, left, keepAlive, sentEntry, list>>

(* Mutant of RemoveEntry: a removed entry is no change. *)
RemoveEntryUnmarked(p) ==
  /\ Act /\ entry[p] # None
  /\ entry' = [entry EXCEPT ![p] = None]
  /\ UNCHANGED <<ready, left, keepAlive, fresh, sentEntry, list>>

(* mark_removed_entry *)
RemoveEntry(p) ==
  /\ Act /\ entry[p] # None
  /\ entry' = [entry EXCEPT ![p] = None]
  /\ fresh' = fresh \cup {p}
  /\ UNCHANGED <<ready, left, keepAlive, sentEntry, list>>

-----------------------------------------------------------------------------
(* The systems. *)

(* send_keep_alive: who did not answer is passed over. *)
SendKeepAlive ==
  /\ phase = "game" /\ phase' = "entries"
  /\ ticker' = (ticker + 1) % Interval
  /\ IF ticker + 1 < Interval THEN UNCHANGED <<awaiting, answers>>
     ELSE /\ awaiting' = awaiting \cup ready
          /\ answers' = [p \in Player |-> answers[p] + IF p \in ready \ awaiting THEN 1 ELSE 0]
  \* KeepAliveState is written, which counts as a change
  /\ fresh' = IF ticker + 1 < Interval THEN fresh ELSE fresh \cup (ready \ awaiting)
  /\ UNCHANGED <<acts, ready, left, measured, entry, sentEntry, list>>

(* EntrySnapshot::changes_since, applied to what a client shows. *)
Changed(row, old, new) ==
  LET named == old.named # new.named \/ (new.named /\ old.colour # new.colour)
  IN [name |-> IF named THEN Wire(new).name ELSE row.name,
      latency |-> IF old.latency # new.latency THEN new.latency ELSE row.latency]

Visited == fresh \cap ready

(* sync_tab_entries: no change is sent that shows nothing new, and then what *)
(* was sent stays as it was.                                                 *)
SyncTabEntries ==
  /\ phase = "entries" /\ phase' = "done" /\ fresh' = {}
  /\ list' = [q \in Player |-> [p \in Player |->
       IF q \in ready /\ p \in Visited THEN Changed(list[q][p], sentEntry[p], Resolved(p))
       ELSE list[q][p]]]
  /\ sentEntry' = [p \in Player |->
       IF p \in Visited /\ Wire(sentEntry[p]) # Wire(Resolved(p)) THEN Resolved(p)
       ELSE sentEntry[p]]
  /\ UNCHANGED <<acts, ready, left, keepAlive, entry>>

EndTick ==
  /\ phase = "done" /\ phase' = "game"
  /\ UNCHANGED <<acts, ready, left, keepAlive, entry, fresh, sentEntry, list>>

-----------------------------------------------------------------------------
Next ==
  \/ \E p \in Player :
       \/ Loaded(p) \/ Quit(p) \/ RemoveEntry(p)
       \/ \E n \in Trip : Answer(p, n)
       \/ \E e \in Entry : SetEntry(p, e)
  \/ SendKeepAlive \/ SyncTabEntries \/ EndTick

Spec == Init /\ [][Next]_vars

-----------------------------------------------------------------------------
(***************************************************************************)
(* After a tick every ready client lists every ready player as its entry   *)
(* and its last answered keep-alive say, also the clients that got ready   *)
(* in the tick in which an entry changed, although a new client is sent    *)
(* what the others were and all get the same difference                    *)
(* (tab_list.rs 357-418, player.rs 58-104).                                *)
(***************************************************************************)
EntriesShown ==
  phase = "done" => \A p, q \in ready : list[q][p] = Wire(Resolved(p))
=============================================================================
