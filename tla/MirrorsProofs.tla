----------------------------- MODULE MirrorsProofs -----------------------------
(***************************************************************************)
(* What clients know of list entries, attributes, status effects, world    *)
(* clocks and blocks they change: for any players, entities and values, and *)
(* as many actions as one likes, clients show at the end of a tick what the *)
(* components say, and the blocks as they are once they have read all.     *)
(*                                                                         *)
(* One inductive invariant for each component, and at the end the parts of  *)
(* MCMirrors, which are these components side by side.                      *)
(***************************************************************************)
EXTENDS MCMirrors, SequenceTheorems, TLAPS

-----------------------------------------------------------------------------
(***************************************************************************)
(* The roster: for any clients, uuids, places and reach of a delta whoever  *)
(* is ready shows exactly the others, and at the end of a tick where they   *)
(* are.                                                                     *)
(***************************************************************************)

(* The inductive invariant *)

Sets ==
  /\ phase \in Phases
  /\ level \in [Clients -> {"out", "play", "ready"}]
  /\ pos \in [Clients -> Places] /\ prev \in [Clients -> Places]
  /\ changed \subseteq Clients /\ mounted \subseteq Ready /\ dismounted \subseteq Ready
  /\ listed \in [Clients -> SUBSET {Uuid[c] : c \in Clients}]
  /\ shown \in [Clients -> SUBSET Clients]
  /\ view \in [Clients -> [Clients -> Int]]
  /\ skewed \subseteq Clients \X Clients

(* A client that is not ready was sent nobody yet. *)
Unseen == \A q \in Clients \ Ready : shown[q] = {} /\ listed[q] = {}

(* What a viewer was sent adds up to PreviousPosition, the base of the next *)
(* delta, and a player whose flag is down is at it.                         *)
Based ==
  \A p \in Ready : \A q \in Others(p) : <<q, p>> \notin skewed =>
    /\ p \notin changed => pos[p] = prev[p]
    /\ p \notin mounted \cup dismounted => view[q][p] = prev[p]

Settled == phase = "end" => changed = {} /\ dismounted = {}

RosterInv == Sets /\ Unseen /\ RosterMirrored /\ Based /\ Settled

-----------------------------------------------------------------------------
(* Only level is looked at by who is ready. *)
LEMMA SameReady ==
  ASSUME level' = level
  PROVE  Ready' = Ready /\ \A p \in Clients : Others(p)' = Others(p)
BY DEF Ready, Others

(* on_player_ready: the newcomer and the others learn of each other, at a   *)
(* position that is the base of deltas or counted as skewed.                *)
LEMMA PlayerLoadedKeeps ==
  ASSUME RosterInv, NEW p \in Clients, PlayerLoaded(p)
  PROVE  RosterInv'
<1> DEFINE sent == ({p} \X Others(p)) \cup (Others(p) \X {p})
<1>1. Ready' = Ready \cup {p} /\ level' \in [Clients -> {"out", "play", "ready"}]
  BY DEF RosterInv, Sets, PlayerLoaded, Ready
<1>2. Others(p) = Ready \ {p} /\ Others(p)' = Others(p) /\ Others(p) \subseteq Clients
  BY <1>1 DEF Others, Ready
<1>3. \A q \in Clients : Others(q)' = IF q = p THEN Others(q) ELSE Others(q) \cup {p}
  BY <1>1, <1>2 DEF Others, Ready
<1>4. /\ view' = [q \in Clients |-> [o \in Clients |->
                    IF <<q, o>> \in sent THEN pos[o] ELSE view[q][o]]]
      /\ skewed' = (skewed \ sent) \cup {s \in sent : pos[s[2]] # prev[s[2]]}
      /\ UNCHANGED <<phase, pos, prev, changed, mounted, dismounted>>
  BY DEF PlayerLoaded
<1>5. /\ shown'[p] = shown[p] \cup Others(p)
      /\ listed'[p] = listed[p] \cup {Uuid[c] : c \in Ready \cup {p}}
  BY DEF PlayerLoaded
<1>6. \A q \in Others(p) : /\ shown'[q] = shown[q] \cup {p}
                            /\ listed'[q] = listed[q] \cup {Uuid[p]}
  BY <1>2 DEF PlayerLoaded, Others
<1>7. \A q \in Clients \ (Others(p) \cup {p}) : shown'[q] = shown[q] /\ listed'[q] = listed[q]
  BY DEF PlayerLoaded
<1> HIDE DEF sent
<1>8. Sets'
  <2>1. shown' \in [Clients -> SUBSET Clients]
    BY <1>2 DEF RosterInv, Sets, PlayerLoaded
  <2>2. listed' \in [Clients -> SUBSET {Uuid[c] : c \in Clients}]
    BY <1>2 DEF RosterInv, Sets, PlayerLoaded, Ready
  <2>3. sent \subseteq Clients \X Clients
    BY <1>2 DEF sent
  <2>4. view' \in [Clients -> [Clients -> Int]]
    BY <1>4, RosterAssumption DEF RosterInv, Sets
  <2> QED
    BY <1>1, <1>4, <2>1, <2>2, <2>3, <2>4 DEF RosterInv, Sets
<1>9. Unseen'
  BY <1>1, <1>2, <1>7 DEF RosterInv, Unseen
<1>10. RosterMirrored'
  <2> SUFFICES ASSUME NEW q \in Ready'
               PROVE  /\ shown'[q] = Others(q)'
                      /\ \A o \in Clients : Unshared(o) =>
                           (Uuid[o] \in listed'[q] <=> o \in Ready')
    BY DEF RosterMirrored, Unshared
  <2>0. q \in Clients  BY DEF Ready
  <2>1. p \notin Ready => shown[p] = {} /\ listed[p] = {}
    BY DEF RosterInv, Unseen
  <2>2. q # p => q \in Ready /\ q \in Others(p)
    BY <2>0, <1>1, <1>2
  <2>3. q \in Ready => shown[q] = Others(q)
    BY DEF RosterInv, RosterMirrored
  <2>4. shown'[q] = Others(q)'
    <3>1. CASE q = p
      <4>1. shown'[q] = shown[q] \cup Others(p)  BY <3>1, <1>5
      <4>2. Others(q)' = Others(p)  BY <2>0, <3>1, <1>3
      <4> QED BY <2>1, <2>3, <3>1, <4>1, <4>2
    <3>2. CASE q # p
      <4>1. shown'[q] = shown[q] \cup {p}  BY <2>2, <3>2, <1>6
      <4>2. Others(q)' = Others(q) \cup {p}  BY <2>0, <3>2, <1>3
      <4> QED BY <2>2, <2>3, <3>2, <4>1, <4>2
    <3> QED BY <3>1, <3>2
  <2>5. ASSUME NEW o \in Clients, Unshared(o)
        PROVE  Uuid[o] \in listed'[q] <=> o \in Ready'
    <3>1. q \in Ready => (Uuid[o] \in listed[q] <=> o \in Ready)
      BY <2>5 DEF RosterInv, RosterMirrored
    <3>2. \A c \in Clients : Uuid[c] = Uuid[o] <=> c = o
      BY <2>5 DEF Unshared
    <3>3. CASE q = p
      <4>1. listed'[q] = listed[q] \cup {Uuid[c] : c \in Ready \cup {p}}
        BY <3>3, <1>5
      <4>2. Uuid[o] \in {Uuid[c] : c \in Ready \cup {p}} <=> o \in Ready \cup {p}
        BY <3>2 DEF Ready
      <4> QED BY <1>1, <2>1, <3>1, <3>3, <4>1, <4>2
    <3>4. CASE q # p
      <4>1. listed'[q] = listed[q] \cup {Uuid[p]}  BY <2>2, <3>4, <1>6
      <4>2. Uuid[o] = Uuid[p] <=> o = p  BY <3>2
      <4> QED BY <1>1, <2>2, <3>1, <3>4, <4>1, <4>2
    <3> QED BY <3>3, <3>4
  <2> QED BY <2>4, <2>5
<1>11. Based'
  <2> SUFFICES ASSUME NEW o \in Ready', NEW q \in Others(o)', <<q, o>> \notin skewed'
               PROVE  /\ o \notin changed => pos[o] = prev[o]
                      /\ o \notin mounted \cup dismounted => view'[q][o] = prev[o]
    BY <1>4 DEF Based
  <2>0. o \in Clients /\ q \in Clients /\ q # o  BY DEF Ready, Others
  <2>1. CASE <<q, o>> \in sent
    <3>1. pos[o] = prev[o]  BY <2>1, <1>4
    <3>2. view'[q][o] = pos[o]  BY <2>0, <2>1, <1>4
    <3> QED BY <3>1, <3>2
  <2>2. CASE <<q, o>> \notin sent
    <3>1. q # p /\ o # p
      BY <2>0, <2>2, <1>1, <1>2, <1>3 DEF sent, Others, Ready
    <3>2. o \in Ready /\ q \in Others(o) /\ <<q, o>> \notin skewed
      BY <2>0, <2>2, <3>1, <1>1, <1>3, <1>4
    <3>3. view'[q][o] = view[q][o]  BY <2>0, <2>2, <1>4
    <3> QED BY <3>2, <3>3 DEF RosterInv, Based
  <2> QED BY <2>1, <2>2
<1> QED BY <1>4, <1>8, <1>9, <1>10, <1>11 DEF RosterInv, Settled

(* on_player_quit: nobody shows the player or lists it any more. *)
LEMMA PlayerQuitKeeps ==
  ASSUME RosterInv, NEW p \in Clients, Quit(p)
  PROVE  RosterInv'
<1>1. Ready' = Ready \ {p} /\ level' \in [Clients -> {"out", "play", "ready"}]
  BY DEF RosterInv, Sets, Quit, Ready
<1>2. \A q \in Clients : Others(q)' = Others(q) \ {p}
  BY <1>1 DEF Others, Ready
<1> DEFINE told == IF p \in Ready THEN Others(p) ELSE {}
<1>3. /\ \A q \in Clients : shown'[q] = IF q = p THEN {} ELSE
                              IF q \in told THEN shown[q] \ {p} ELSE shown[q]
      /\ \A q \in Clients : listed'[q] = IF q = p THEN {} ELSE
                              IF q \in told THEN listed[q] \ {Uuid[p]} ELSE listed[q]
      /\ \A q, o \in Clients : p \notin {q, o} => view'[q][o] = view[q][o]
      /\ \A o \in Clients \ {p} : pos'[o] = pos[o] /\ prev'[o] = prev[o]
      /\ skewed' = {s \in skewed : p \notin {s[1], s[2]}}
      /\ changed' = changed \ {p} /\ mounted' = mounted \ {p}
      /\ dismounted' = dismounted \ {p} /\ phase' = phase
  BY DEF Quit, Forgotten, RosterInv, Sets
<1>4. Sets'
  <2>1. /\ shown' \in [Clients -> SUBSET Clients]
        /\ listed' \in [Clients -> SUBSET {Uuid[c] : c \in Clients}]
    BY DEF RosterInv, Sets, Quit
  <2>2. /\ pos' \in [Clients -> Places] /\ prev' \in [Clients -> Places]
        /\ view' \in [Clients -> [Clients -> Int]]
    BY RosterAssumption DEF RosterInv, Sets, Quit, Forgotten
  <2> QED BY <1>1, <1>3, <2>1, <2>2 DEF RosterInv, Sets
<1>5. Unseen'
  BY <1>1, <1>3 DEF RosterInv, Unseen, Others
<1>6. RosterMirrored'
  <2> SUFFICES ASSUME NEW q \in Ready'
               PROVE  /\ shown'[q] = Others(q)'
                      /\ \A o \in Clients : Unshared(o) =>
                           (Uuid[o] \in listed'[q] <=> o \in Ready')
    BY DEF RosterMirrored, Unshared
  <2>1. q \in Clients /\ q \in Ready /\ q # p  BY <1>1 DEF Ready
  <2>2. q \in told <=> p \in Ready  BY <2>1 DEF Others, Ready
  <2>3. shown[q] = Others(q)  BY <2>1 DEF RosterInv, RosterMirrored
  <2>4. shown'[q] = Others(q)'
    <3>1. Others(q)' = Others(q) \ {p}  BY <1>2, <2>1
    <3>2. CASE p \in Ready
      <4>1. shown'[q] = shown[q] \ {p}  BY <1>3, <2>1, <2>2, <3>2
      <4> QED BY <2>3, <3>1, <4>1
    <3>3. CASE p \notin Ready
      <4>1. shown'[q] = shown[q]  BY <1>3, <2>1, <2>2, <3>3
      <4>2. p \notin Others(q)  BY <3>3 DEF Others, Ready
      <4> QED BY <2>3, <3>1, <4>1, <4>2
    <3> QED BY <3>2, <3>3
  <2>5. ASSUME NEW o \in Clients, Unshared(o)
        PROVE  Uuid[o] \in listed'[q] <=> o \in Ready'
    <3>1. Uuid[o] \in listed[q] <=> o \in Ready
      BY <2>1, <2>5 DEF RosterInv, RosterMirrored
    <3>2. o # p => Uuid[o] # Uuid[p]  BY <2>5 DEF Unshared
    <3> QED BY <1>1, <1>3, <2>1, <2>2, <3>1, <3>2
  <2> QED BY <2>4, <2>5
<1>7. Based'
  <2> SUFFICES ASSUME NEW o \in Ready', NEW q \in Others(o)', <<q, o>> \notin skewed'
               PROVE  /\ o \notin changed' => pos'[o] = prev'[o]
                      /\ o \notin mounted' \cup dismounted' => view'[q][o] = prev'[o]
    BY DEF Based
  <2>1. o \in Ready /\ o # p /\ q \in Others(o) /\ q # p /\ o \in Clients /\ q \in Clients
    BY <1>1, <1>2 DEF Ready, Others
  <2>2. <<q, o>> \notin skewed  BY <1>3, <2>1
  <2> QED BY <1>3, <2>1, <2>2 DEF RosterInv, Based
<1> QED BY <1>3, <1>4, <1>5, <1>6, <1>7 DEF RosterInv, Settled

(* broadcast_position and update_previous_positions: every viewer is given  *)
(* what is missing between its base and the position.                       *)
LEMMA BroadcastKeeps ==
  ASSUME RosterInv, Broadcast
  PROVE  RosterInv'
<1> DEFINE absolute == Resynced \cup {p \in Moved : Far(p)}
           told(q, p) == q \in Ready \ {p} /\ p \in shown[q]
<1>1. /\ \A q, p \in Clients :
           view'[q][p] = CASE told(q, p) /\ p \in absolute -> pos[p]
                           [] told(q, p) /\ p \in Moved \ absolute
                                -> view[q][p] + (pos[p] - prev[p])
                           [] OTHER -> view[q][p]
      /\ view' = [q \in Clients |-> [p \in Clients |-> view'[q][p]]]
      /\ prev' = [p \in Clients |-> IF p \in changed \cap Ready THEN pos[p] ELSE prev[p]]
      /\ skewed' = {s \in skewed : ~ /\ told(s[1], s[2]) /\ s[2] \in absolute
                                     /\ prev'[s[2]] = pos[s[2]]}
      /\ changed' = {} /\ dismounted' = {} /\ phase' = "end"
      /\ UNCHANGED <<level, pos, mounted, listed, shown>>
  BY DEF Broadcast, UpdatePrevious
<1>2. Ready' = Ready /\ \A p \in Clients : Others(p)' = Others(p)
  BY <1>1, SameReady
<1>3. \A p \in Clients : pos[p] \in Int /\ prev[p] \in Int
  BY RosterAssumption DEF RosterInv, Sets
<1>4. Sets'
  <2>1. \A q, p \in Clients : view'[q][p] \in Int
    <3> HIDE DEF absolute, told
    <3> QED BY <1>1, <1>3 DEF RosterInv, Sets
  <2>2. view' \in [Clients -> [Clients -> Int]]
    <3> HIDE DEF absolute, told
    <3> QED BY <1>1, <2>1
  <2>3. prev' \in [Clients -> Places]  BY <1>1 DEF RosterInv, Sets
  <2>4. skewed' \subseteq Clients \X Clients  BY <1>1 DEF RosterInv, Sets
  <2> QED BY <1>1, <1>2, <2>2, <2>3, <2>4 DEF RosterInv, Sets, Phases
<1>5. Unseen' /\ RosterMirrored'
  BY <1>1, <1>2 DEF RosterInv, Unseen, RosterMirrored, Unshared, Ready
<1>6. Based'
  <2> SUFFICES ASSUME NEW p \in Ready', NEW q \in Others(p)', <<q, p>> \notin skewed'
               PROVE  /\ p \notin changed' => pos'[p] = prev'[p]
                      /\ p \notin mounted' \cup dismounted' => view'[q][p] = prev'[p]
    BY DEF Based
  <2>1. p \in Ready /\ q \in Others(p)
    BY <1>2 DEF Ready
  <2>2. pos' = pos /\ mounted' = mounted  BY <1>1
  <2>3. p \in Clients /\ q \in Clients /\ q # p /\ q \in Ready  BY <2>1 DEF Others, Ready
  <2>4. told(q, p)
    BY <2>1, <2>3 DEF RosterInv, RosterMirrored, Others, Ready
  <2>5. prev'[p] = IF p \in changed THEN pos[p] ELSE prev[p]  BY <1>1, <2>1, <2>3
  <2>6. CASE <<q, p>> \in skewed
    <3>1. p \in absolute /\ prev'[p] = pos[p]
      BY <1>1, <2>6
    <3>2. view'[q][p] = pos[p]  BY <1>1, <2>3, <2>4, <3>1
    <3> QED BY <2>2, <3>1, <3>2
  <2>7. CASE <<q, p>> \notin skewed
    <3>1. /\ p \notin changed => pos[p] = prev[p]
          /\ p \notin mounted \cup dismounted => view[q][p] = prev[p]
      BY <2>1, <2>7 DEF RosterInv, Based
    <3>2. pos[p] = prev'[p]  BY <2>5, <3>1
    <3>3. ASSUME p \notin mounted PROVE view'[q][p] = pos[p]
      <4>1. CASE p \in absolute  BY <1>1, <2>3, <2>4, <4>1
      <4>2. CASE p \in Moved \ absolute
        <5>1. view[q][p] = prev[p]
          BY <3>1, <3>3, <4>2 DEF Moved, Resynced
        <5>2. view'[q][p] = prev[p] + (pos[p] - prev[p])
          BY <1>1, <2>3, <2>4, <4>2, <5>1
        <5> QED BY <5>2, <1>3, <2>3
      <4>3. CASE p \notin Moved \cup absolute
        <5>1. p \notin changed /\ p \notin dismounted
          BY <2>1, <3>3, <4>3 DEF Moved, Resynced
        <5>2. view'[q][p] = view[q][p]
          BY <1>1, <2>3, <4>3
        <5> QED BY <3>1, <3>3, <5>1, <5>2
      <4> QED BY <4>1, <4>2, <4>3
    <3> QED BY <2>2, <3>2, <3>3
  <2> QED BY <2>6, <2>7
<1> QED BY <1>1, <1>4, <1>5, <1>6 DEF RosterInv, Settled

(* What moves a player flags it, so its base may differ from its position    *)
(* until the broadcast; turning does not move.                               *)
LEMMA MovesKeep ==
  ASSUME RosterInv, NEW p \in Clients, NEW x \in Places,
         \/ Move(p, x) \/ ServerMove(p, x) \/ Rotate(p)
  PROVE  RosterInv'
<1>1. /\ changed' = changed \cup {p} /\ phase # "end"
      /\ \A o \in Clients \ {p} : pos'[o] = pos[o]
      /\ pos' \in [Clients -> Places]
      /\ UNCHANGED <<phase, level, prev, mounted, dismounted, listed, shown, view, skewed>>
  BY DEF Move, ServerMove, Rotate, RosterInv, Sets
<1>2. Ready' = Ready /\ \A o \in Clients : Others(o)' = Others(o)
  BY <1>1, SameReady
<1>3. Sets' /\ Settled'
  BY <1>1, <1>2 DEF RosterInv, Sets, Settled
<1>4. Unseen' /\ RosterMirrored'
  BY <1>1, <1>2 DEF RosterInv, Unseen, RosterMirrored, Unshared, Ready
<1>5. Based'
  <2> SUFFICES ASSUME NEW o \in Ready, NEW q \in Others(o), <<q, o>> \notin skewed
               PROVE  /\ o \notin changed' => pos'[o] = prev[o]
                      /\ o \notin mounted \cup dismounted => view[q][o] = prev[o]
    BY <1>1, <1>2 DEF Based, Ready
  <2> QED BY <1>1 DEF RosterInv, Based, Ready
<1> QED BY <1>3, <1>4, <1>5 DEF RosterInv

(* A player who is configured is not ready yet: nobody shows it. *)
LEMMA ConfiguredKeeps ==
  ASSUME RosterInv, NEW p \in Clients, FinishConfiguration(p)
  PROVE  RosterInv'
<1>1. /\ \A o \in Clients \ {p} : pos'[o] = pos[o] /\ prev'[o] = prev[o]
      /\ pos' \in [Clients -> Places] /\ prev' \in [Clients -> Places]
      /\ level' \in [Clients -> {"out", "play", "ready"}]
      /\ changed' = changed \cup {p} /\ phase # "end"
      /\ UNCHANGED <<phase, mounted, dismounted, listed, shown, view, skewed>>
  BY RosterAssumption DEF FinishConfiguration, RosterInv, Sets
<1>2. Ready' = Ready /\ p \notin Ready /\ \A o \in Clients : Others(o)' = Others(o)
  BY DEF FinishConfiguration, RosterInv, Sets, Ready, Others
<1>3. Sets' /\ Settled'
  BY <1>1, <1>2 DEF RosterInv, Sets, Settled
<1>4. Unseen' /\ RosterMirrored'
  BY <1>1, <1>2 DEF RosterInv, Unseen, RosterMirrored, Unshared, Ready
<1>5. Based'
  <2> SUFFICES ASSUME NEW o \in Ready, NEW q \in Others(o), <<q, o>> \notin skewed
               PROVE  /\ o \notin changed' => pos'[o] = prev'[o]
                      /\ o \notin mounted \cup dismounted => view[q][o] = prev'[o]
    BY <1>1, <1>2 DEF Based, Ready
  <2> QED BY <1>1, <1>2 DEF RosterInv, Based, Ready
<1> QED BY <1>3, <1>4, <1>5 DEF RosterInv

(* Who rides is not followed by deltas; who is lifted out is synced again. *)
LEMMA RidesKeep ==
  ASSUME RosterInv, NEW p \in Clients, Mount(p) \/ Dismount(p)
  PROVE  RosterInv'
<1>1. /\ phase # "end" /\ mounted \cup dismounted \subseteq mounted' \cup dismounted'
      /\ mounted' \subseteq Ready /\ dismounted' \subseteq Ready
      /\ UNCHANGED <<phase, level, pos, prev, changed, listed, shown, view, skewed>>
  BY DEF Mount, Dismount, RosterInv, Sets, Settled
<1>2. Ready' = Ready /\ \A o \in Clients : Others(o)' = Others(o)
  BY <1>1, SameReady
<1>3. Sets' /\ Settled'
  BY <1>1, <1>2 DEF RosterInv, Sets, Settled
<1>4. Unseen' /\ RosterMirrored'
  BY <1>1, <1>2 DEF RosterInv, Unseen, RosterMirrored, Unshared, Ready
<1>5. Based'
  BY <1>1, <1>2 DEF RosterInv, Based, Ready
<1> QED BY <1>3, <1>4, <1>5 DEF RosterInv

(* What the server holds between two steps of a tick is not touched by the  *)
(* tick going on.                                                           *)
LEMMA ProceedKeeps ==
  ASSUME RosterInv, phase' \in Phases, phase' # "end" \/ phase' = phase,
         UNCHANGED <<level, pos, prev, changed, mounted, dismounted, listed, shown,
                     view, skewed>>
  PROVE  RosterInv'
<1>1. Ready' = Ready /\ \A o \in Clients : Others(o)' = Others(o)
  BY SameReady
<1>2. Sets' /\ Settled'
  BY <1>1 DEF RosterInv, Sets, Settled
<1>3. Unseen' /\ RosterMirrored'
  BY <1>1 DEF RosterInv, Unseen, RosterMirrored, Unshared, Ready
<1>4. Based'
  BY <1>1 DEF RosterInv, Based, Ready
<1> QED BY <1>2, <1>3, <1>4 DEF RosterInv

-----------------------------------------------------------------------------
(* No player is there at first. *)
LEMMA RosterInit == Init => RosterInv
<1> SUFFICES ASSUME Init PROVE RosterInv
  OBVIOUS
<1>1. Ready = {}
  BY DEF Init, Ready
<1>2. Sets
  BY <1>1, RosterAssumption DEF Init, Sets, Phases
<1> QED
  BY <1>1, <1>2 DEF Init, RosterInv, Unseen, RosterMirrored, Based, Settled

(* Every step of a tick keeps the invariant. *)
LEMMA RosterKeeps == RosterInv /\ [Next]_vars => RosterInv'
<1> SUFFICES ASSUME RosterInv, [Next]_vars PROVE RosterInv'
  OBVIOUS
<1>1. CASE UNCHANGED vars
  BY <1>1, ProceedKeeps DEF vars, RosterInv, Sets
<1>2. ASSUME NEW p \in Clients, FinishConfiguration(p) PROVE RosterInv'
  BY <1>2, ConfiguredKeeps
<1>3. ASSUME NEW p \in Clients, PlayerLoaded(p) PROVE RosterInv'
  BY <1>3, PlayerLoadedKeeps
<1>4. ASSUME NEW p \in Clients, Quit(p) PROVE RosterInv'
  BY <1>4, PlayerQuitKeeps
<1>5. ASSUME NEW p \in Clients, Rotate(p) PROVE RosterInv'
  BY <1>5, RosterAssumption, MovesKeep
<1>6. ASSUME NEW p \in Clients, Mount(p) \/ Dismount(p) PROVE RosterInv'
  BY <1>6, RidesKeep
<1>7. ASSUME NEW p \in Clients, NEW x \in Places, Move(p, x) \/ ServerMove(p, x)
      PROVE  RosterInv'
  BY <1>7, MovesKeep
<1>8. CASE Proceed
  <2>1. phase' \in Phases /\ (phase' # "end" \/ phase' = phase)
    BY <1>8 DEF Proceed, RosterInv, Sets, Phases
  <2> QED BY <1>8, <2>1, ProceedKeeps DEF Proceed
<1>9. CASE Broadcast
  BY <1>9, BroadcastKeeps
<1>10. Movers \subseteq Clients
  BY RosterAssumption
<1> QED
  BY <1>1, <1>2, <1>3, <1>4, <1>5, <1>6, <1>7, <1>8, <1>9, <1>10 DEF Next

LEMMA RosterAlways == Spec => []RosterInv
<1> QED BY RosterInit, RosterKeeps, PTL DEF Spec

(* Every variable keeps its type. *)
THEOREM Typed == Spec => []TypeOK
<1>1. RosterInv => TypeOK
  BY DEF RosterInv, Sets, TypeOK, Ready
<1> QED BY <1>1, RosterAlways, PTL

(* Whatever the order of joins, repeated joins and quits, every ready client *)
(* shows exactly the other ready players and lists all of them and itself.   *)
THEOREM Mirrored == Spec => []RosterMirrored
<1>1. RosterInv => RosterMirrored
  BY DEF RosterInv
<1> QED BY <1>1, RosterAlways, PTL

(* At the end of a tick a player is where every other client shows it: the   *)
(* base of its deltas is what each viewer has added up so far.               *)
THEOREM AddUp == Spec => []DeltasAddUp
<1>1. RosterInv => DeltasAddUp
  <2> SUFFICES ASSUME RosterInv, phase = "end", NEW p \in Ready \ mounted,
                      NEW q \in Others(p), <<q, p>> \notin skewed
               PROVE  view[q][p] = pos[p]
    BY DEF DeltasAddUp
  <2>1. p \notin changed /\ p \notin dismounted
    BY DEF RosterInv, Settled
  <2> QED BY <2>1 DEF RosterInv, Based
<1> QED BY <1>1, RosterAlways, PTL

-----------------------------------------------------------------------------
(***************************************************************************)
(* List entries: for any players, intervals, round trips and colours every *)
(* ready client lists every ready player, at the end of a tick, as its     *)
(* entry and its last answered keep-alive say.                             *)
(***************************************************************************)

(* What has been resolved: an entry with a latency. *)
Snapshot == [named : BOOLEAN, colour : Colour, latency : Trip \cup {0}]

(* What the theorems assume of the constants *)
EntriesDistinct == Colour # {} /\ None \notin N!Entry /\ None \notin Snapshot

-----------------------------------------------------------------------------
(* The inductive invariant *)

EntryTypes ==
  /\ step \in {"game", "entries", "done"}
  /\ listeners \subseteq Player /\ left \subseteq Player /\ listeners \cap left = {}
  /\ fresh \subseteq Player
  /\ measured \in [Player -> Trip \cup {0}]
  /\ entry \in [Player -> N!Entry \cup {None}]
  /\ sentEntry \in [Player -> Snapshot \cup {None}]
  /\ list \in [Player -> [Player -> [name : Colour \cup {None}, latency : Trip \cup {0}]
                                      \cup {None}]]

(* Every client lists what was last sent of each player. *)
ListsSent ==
  \A p \in listeners : sentEntry[p] # None /\ \A q \in listeners : list[q][p] = N!Wire(sentEntry[p])

(* What was not seen to change shows as it was last sent. *)
FreshOnly == \A p \in listeners \ fresh : N!Wire(sentEntry[p]) = N!Wire(N!Resolved(p))

EntriesSwept == step = "done" => fresh = {}

EntriesInv == EntryTypes /\ ListsSent /\ FreshOnly /\ EntriesSwept

-----------------------------------------------------------------------------
LEMMA DefaultIsEntry == ASSUME EntriesDistinct PROVE N!DefaultEntry \in N!Entry
<1>1. (CHOOSE c \in Colour : TRUE) \in Colour  BY DEF EntriesDistinct
<1> QED BY <1>1 DEF N!DefaultEntry, N!Entry

(* EntrySnapshot::resolve fills in a latency. *)
LEMMA ResolvedIsSnapshot ==
  ASSUME EntriesDistinct, EntryTypes, NEW p \in Player PROVE N!Resolved(p) \in Snapshot
<1> DEFINE e == IF entry[p] = None THEN N!DefaultEntry ELSE entry[p]
<1>1. e \in N!Entry  BY DefaultIsEntry DEF EntryTypes
<1>2. measured[p] \in Trip \cup {0}  BY DEF EntryTypes
<1>3. N!Resolved(p) = [e EXCEPT !.latency = IF @ = None THEN measured[p] ELSE @]
  BY DEF N!Resolved
<1> HIDE DEF e
<1> QED BY <1>1, <1>2, <1>3 DEF N!Entry, Snapshot

LEMMA WireIsRow ==
  ASSUME NEW s \in Snapshot
  PROVE  N!Wire(s) \in [name : Colour \cup {None}, latency : Trip \cup {0}]
  BY DEF N!Wire, Snapshot

(* EntrySnapshot::changes_since: the difference, applied to a client that   *)
(* shows what was sent, gives what is now.                                  *)
LEMMA DifferenceAdds ==
  ASSUME NEW old \in Snapshot, NEW new \in Snapshot
  PROVE  N!Changed(N!Wire(old), old, new) = N!Wire(new)
  BY DEF N!Changed, N!Wire, Snapshot

-----------------------------------------------------------------------------
(* Each step keeps the invariant. *)

LEMMA LoadedKeeps ==
  ASSUME EntriesDistinct, EntriesInv, NEW p \in Player, N!Loaded(p) PROVE EntriesInv'
<1>1. /\ step = "game" /\ step' = "game" /\ p \notin left
      /\ listeners' = listeners \cup {p} /\ UNCHANGED <<left, measured>>
      /\ entry' = [entry EXCEPT ![p] = IF @ = None THEN N!DefaultEntry ELSE @]
      /\ fresh' = IF entry[p] = None THEN fresh \cup {p} ELSE fresh
      /\ sentEntry' = [sentEntry EXCEPT ![p] = N!Resolved(p)]
  BY DEF N!Loaded, N!Act, N!keepAlive
<1>2. list' = [q \in Player |-> [r \in Player |->
        CASE q = p /\ r \in listeners \ {p} ->
               N!Wire(IF sentEntry[r] = None THEN N!Resolved(r) ELSE sentEntry[r])
          [] q \in listeners' /\ r = p -> N!Wire(N!Resolved(p))
          [] OTHER -> list[q][r]]]
  BY DEF N!Loaded
<1>3. EntryTypes  BY DEF EntriesInv
<1>4. N!Resolved(p) \in Snapshot /\ N!Resolved(p) # None
  BY <1>3, ResolvedIsSnapshot DEF EntriesDistinct
<1>5. \A r \in Player : N!Resolved(r)' = N!Resolved(r)
  <2> TAKE r \in Player
  <2>1. measured' = measured  BY <1>1
  <2>2. (IF entry'[r] = None THEN N!DefaultEntry ELSE entry'[r])
          = IF entry[r] = None THEN N!DefaultEntry ELSE entry[r]
    BY <1>1, <1>3, DefaultIsEntry DEF EntryTypes, EntriesDistinct
  <2> QED BY <2>1, <2>2 DEF N!Resolved, N!DefaultEntry
<1>6. sentEntry'[p] = N!Resolved(p) /\ \A r \in Player \ {p} : sentEntry'[r] = sentEntry[r]
  BY <1>1, <1>3 DEF EntryTypes
<1>7. \A q \in listeners' : list'[q][p] = N!Wire(N!Resolved(p))
  BY <1>1, <1>2, <1>3 DEF EntryTypes
<1>8. \A r \in listeners \ {p} : list'[p][r] = N!Wire(sentEntry[r])
  BY <1>2, <1>3 DEF EntryTypes, EntriesInv, ListsSent
<1>9. \A q, r \in Player : q # p /\ r # p => list'[q][r] = list[q][r]
  BY <1>2
<1>10. EntryTypes'
  <2>1. \A r \in listeners : sentEntry[r] \in Snapshot
    BY <1>3 DEF EntryTypes, EntriesInv, ListsSent
  <2>2. \A q, r \in Player : list'[q][r]
          \in [name : Colour \cup {None}, latency : Trip \cup {0}] \cup {None}
    <3> SUFFICES ASSUME NEW q \in Player, NEW r \in Player
                 PROVE  list'[q][r] \in [name : Colour \cup {None}, latency : Trip \cup {0}]
                                          \cup {None}
      OBVIOUS
    <3>1. CASE q = p /\ r \in listeners \ {p}
      BY <3>1, <1>8, <2>1, WireIsRow
    <3>2. CASE ~(q = p /\ r \in listeners \ {p}) /\ q \in listeners' /\ r = p
      BY <3>2, <1>4, <1>7, WireIsRow
    <3>3. CASE ~(q = p /\ r \in listeners \ {p}) /\ ~(q \in listeners' /\ r = p)
      <4>1. list'[q][r] = list[q][r]  BY <3>3, <1>2
      <4> QED BY <4>1, <1>3 DEF EntryTypes
    <3> QED BY <3>1, <3>2, <3>3
  <2>3. list' \in [Player -> [Player ->
          [name : Colour \cup {None}, latency : Trip \cup {0}] \cup {None}]]
    BY <1>2, <2>2
  <2> QED BY <1>1, <1>3, <1>4, <2>3, DefaultIsEntry DEF EntryTypes
<1>11. ListsSent'
  <2> SUFFICES ASSUME NEW r \in listeners'
               PROVE  /\ sentEntry'[r] # None
                      /\ \A q \in listeners' : list'[q][r] = N!Wire(sentEntry'[r])
    BY DEF ListsSent, N!Wire
  <2>1. CASE r = p  BY <2>1, <1>4, <1>6, <1>7
  <2>2. CASE r # p
    BY <2>2, <1>1, <1>3, <1>6, <1>8, <1>9 DEF EntriesInv, ListsSent, EntryTypes
  <2> QED BY <2>1, <2>2
<1>12. FreshOnly'
  <2> SUFFICES ASSUME NEW r \in listeners', r \notin fresh'
               PROVE  N!Wire(sentEntry'[r]) = N!Wire(N!Resolved(r)')
    BY DEF FreshOnly, N!Wire
  <2>1. CASE r = p  BY <2>1, <1>5, <1>6
  <2>2. CASE r # p
    BY <2>2, <1>1, <1>3, <1>5, <1>6 DEF EntriesInv, FreshOnly, EntryTypes
  <2> QED BY <2>1, <2>2
<1> QED BY <1>1, <1>10, <1>11, <1>12 DEF EntriesInv, EntriesSwept

LEMMA EntryQuitKeeps ==
  ASSUME EntriesDistinct, EntriesInv, NEW p \in Player, N!Quit(p) PROVE EntriesInv'
<1>1. /\ step = "game" /\ step' = "game" /\ listeners' = listeners \ {p} /\ left' = left \cup {p}
      /\ list' = [q \in Player |-> [r \in Player |-> IF p \in {q, r} THEN None ELSE list[q][r]]]
      /\ entry' = [entry EXCEPT ![p] = None] /\ sentEntry' = [sentEntry EXCEPT ![p] = None]
      /\ measured' = [measured EXCEPT ![p] = 0] /\ fresh' = fresh \ {p}
  BY DEF N!Quit, N!Act
<1>2. EntryTypes  BY DEF EntriesInv
<1>3. EntryTypes'
  <2>1. list' \in [Player -> [Player ->
          [name : Colour \cup {None}, latency : Trip \cup {0}] \cup {None}]]
    BY <1>1, <1>2 DEF EntryTypes
  <2> QED BY <1>1, <1>2, <2>1 DEF EntryTypes
<1>4. \A r \in listeners' :
        /\ r # p /\ r \in listeners /\ N!Resolved(r)' = N!Resolved(r) /\ sentEntry'[r] = sentEntry[r]
        /\ \A q \in listeners' : list'[q][r] = list[q][r]
  BY <1>1, <1>2 DEF EntryTypes, N!Resolved, N!DefaultEntry
<1>5. ListsSent'
  <2> SUFFICES ASSUME NEW r \in listeners'
               PROVE  /\ sentEntry'[r] # None
                      /\ \A q \in listeners' : list'[q][r] = N!Wire(sentEntry'[r])
    BY DEF ListsSent, N!Wire
  <2>1. sentEntry[r] # None /\ \A q \in listeners : list[q][r] = N!Wire(sentEntry[r])
    BY <1>4 DEF EntriesInv, ListsSent
  <2>2. sentEntry'[r] = sentEntry[r] /\ \A q \in listeners' : list'[q][r] = list[q][r]
    BY <1>4
  <2>3. listeners' \subseteq listeners  BY <1>1
  <2> QED BY <2>1, <2>2, <2>3
<1>6. FreshOnly'
  BY <1>1, <1>4 DEF EntriesInv, FreshOnly, N!Wire
<1> QED BY <1>1, <1>3, <1>5, <1>6 DEF EntriesInv, EntriesSwept

(* Answers and changed or removed entries: of p alone, which is marked. *)
LEMMA EntryChangeKeeps ==
  ASSUME EntriesInv, NEW p \in Player, step' = "game",
         UNCHANGED <<listeners, left, sentEntry, list>>, fresh' = fresh \cup {p},
         NEW e \in N!Entry \cup {None}, entry' = [entry EXCEPT ![p] = e],
         NEW n \in Trip \cup {0}, measured' = [measured EXCEPT ![p] = n]
  PROVE  EntriesInv'
<1>1. EntryTypes  BY DEF EntriesInv
<1>2. EntryTypes'  BY <1>1 DEF EntryTypes
<1>3. \A r \in listeners \ {p} : N!Resolved(r)' = N!Resolved(r)
  BY <1>1 DEF EntryTypes, N!Resolved, N!DefaultEntry
<1>4. ListsSent'  BY DEF EntriesInv, ListsSent, N!Wire
<1>5. FreshOnly'  BY <1>3 DEF EntriesInv, FreshOnly, N!Wire
<1> QED BY <1>2, <1>4, <1>5 DEF EntriesInv, EntriesSwept

(* Nothing is told, and no more than before is taken as unchanged. *)
LEMMA EntriesIdleKeep ==
  ASSUME EntriesInv, step' \in {"game", "entries"} \/ (step' = step /\ fresh' = fresh),
         fresh \subseteq fresh', fresh' \subseteq Player,
         UNCHANGED <<listeners, left, measured, entry, sentEntry, list>>
  PROVE  EntriesInv'
<1>1. EntryTypes'  BY DEF EntriesInv, EntryTypes
<1>2. ListsSent'  BY DEF EntriesInv, ListsSent, N!Wire
<1>3. FreshOnly'  BY DEF EntriesInv, FreshOnly, N!Wire, N!Resolved, N!DefaultEntry
<1> QED BY <1>1, <1>2, <1>3 DEF EntriesInv, EntriesSwept

LEMMA EntriesSyncKeep ==
  ASSUME EntriesDistinct, EntriesInv, N!SyncTabEntries PROVE EntriesInv'
<1>1. /\ step' = "done" /\ fresh' = {} /\ UNCHANGED <<listeners, left, measured, entry>>
      /\ list' = [q \in Player |-> [p \in Player |->
            IF q \in listeners /\ p \in N!Visited THEN N!Changed(list[q][p], sentEntry[p], N!Resolved(p))
            ELSE list[q][p]]]
      /\ sentEntry' = [p \in Player |->
            IF p \in N!Visited /\ N!Wire(sentEntry[p]) # N!Wire(N!Resolved(p)) THEN N!Resolved(p)
            ELSE sentEntry[p]]
  BY DEF N!SyncTabEntries, N!keepAlive
<1>2. EntryTypes /\ N!Visited \subseteq listeners /\ listeners \subseteq Player
  BY DEF EntriesInv, EntryTypes, N!Visited
<1>3. \A p \in Player : N!Resolved(p) \in Snapshot /\ N!Resolved(p) # None
  BY <1>2, ResolvedIsSnapshot DEF EntriesDistinct
<1>4. \A p \in listeners : sentEntry[p] \in Snapshot /\ sentEntry[p] # None
  BY <1>2 DEF EntriesInv, EntryTypes, ListsSent
<1>5. \A p \in Player : N!Resolved(p)' = N!Resolved(p)
  BY <1>1 DEF N!Resolved, N!DefaultEntry
(* Whom the pass visits is now shown as it is; the others did not change. *)
<1>6. ASSUME NEW p \in listeners, NEW q \in listeners
      PROVE  list'[q][p] = N!Wire(N!Resolved(p)) /\ N!Wire(sentEntry'[p]) = N!Wire(N!Resolved(p))
  <2>1. list[q][p] = N!Wire(sentEntry[p])  BY DEF EntriesInv, ListsSent
  <2>2. CASE p \in N!Visited
    <3>1. list'[q][p] = N!Changed(list[q][p], sentEntry[p], N!Resolved(p))
      BY <1>1, <1>2, <2>2
    <3>2. N!Wire(sentEntry'[p]) = N!Wire(N!Resolved(p))  BY <1>1, <1>2, <2>2
    <3>3. N!Changed(N!Wire(sentEntry[p]), sentEntry[p], N!Resolved(p)) = N!Wire(N!Resolved(p))
      BY <1>2, <1>3, <1>4, DifferenceAdds
    <3> QED BY <2>1, <3>1, <3>2, <3>3
  <2>3. CASE p \notin N!Visited
    <3>1. N!Wire(sentEntry[p]) = N!Wire(N!Resolved(p))
      BY <2>3 DEF N!Visited, EntriesInv, FreshOnly
    <3> QED BY <2>1, <2>3, <3>1, <1>1, <1>2
  <2> QED BY <2>2, <2>3
<1>7. EntryTypes'
  <2>1. \A q, p \in Player : list'[q][p]
          \in [name : Colour \cup {None}, latency : Trip \cup {0}] \cup {None}
    <3> SUFFICES ASSUME NEW q \in Player, NEW p \in Player
                 PROVE  list'[q][p] \in [name : Colour \cup {None}, latency : Trip \cup {0}]
                                          \cup {None}
      OBVIOUS
    <3>1. CASE q \in listeners /\ p \in N!Visited
      BY <3>1, <1>2, <1>3, <1>6, WireIsRow
    <3>2. CASE ~(q \in listeners /\ p \in N!Visited)
      <4>1. list'[q][p] = list[q][p]  BY <3>2, <1>1
      <4> QED BY <4>1, <1>2 DEF EntryTypes
    <3> QED BY <3>1, <3>2
  <2>2. list' \in [Player -> [Player ->
          [name : Colour \cup {None}, latency : Trip \cup {0}] \cup {None}]]
    BY <1>1, <2>1
  <2>3. sentEntry' \in [Player -> Snapshot \cup {None}]
    BY <1>1, <1>2, <1>3 DEF EntryTypes
  <2> QED BY <1>1, <1>2, <2>2, <2>3 DEF EntryTypes
<1>8. \A p \in listeners : sentEntry'[p] # None  BY <1>1, <1>2, <1>3, <1>4
<1>9. ListsSent'
  <2> SUFFICES ASSUME NEW r \in listeners
               PROVE  /\ sentEntry'[r] # None
                      /\ \A q \in listeners : list'[q][r] = N!Wire(sentEntry'[r])
    BY <1>1 DEF ListsSent, N!Wire
  <2> QED BY <1>6, <1>8
<1>10. FreshOnly'
  <2> SUFFICES ASSUME NEW r \in listeners PROVE N!Wire(sentEntry'[r]) = N!Wire(N!Resolved(r)')
    BY <1>1 DEF FreshOnly, N!Wire
  <2> QED BY <1>2, <1>5, <1>6
<1> QED BY <1>1, <1>7, <1>9, <1>10 DEF EntriesInv, EntriesSwept

-----------------------------------------------------------------------------
LEMMA EntriesStart == N!Init => EntriesInv
  BY DEF N!Init, EntriesInv, EntryTypes, ListsSent, FreshOnly, EntriesSwept

LEMMA EntriesKeep ==
  ASSUME EntriesDistinct PROVE EntriesInv /\ [N!Next]_N!vars => EntriesInv'
<1> SUFFICES ASSUME EntriesInv, [N!Next]_N!vars PROVE EntriesInv'  OBVIOUS
<1>0. EntryTypes  BY DEF EntriesInv
<1>1. ASSUME NEW p \in Player, N!Loaded(p) PROVE EntriesInv'  BY <1>1, LoadedKeeps
<1>2. ASSUME NEW p \in Player, N!Quit(p) PROVE EntriesInv'  BY <1>2, EntryQuitKeeps
<1>3. ASSUME NEW p \in Player, N!RemoveEntry(p) PROVE EntriesInv'
  <2>1. measured[p] \in Trip \cup {0} /\ measured = [measured EXCEPT ![p] = measured[p]]
    BY <1>0 DEF EntryTypes
  <2> QED BY <1>3, <2>1, EntryChangeKeeps DEF N!RemoveEntry, N!Act, N!keepAlive
<1>4. ASSUME NEW p \in Player, NEW n \in Trip, N!Answer(p, n) PROVE EntriesInv'
  <2>1. entry[p] \in N!Entry \cup {None} /\ entry = [entry EXCEPT ![p] = entry[p]]
    BY <1>0 DEF EntryTypes
  <2> QED BY <1>4, <2>1, EntryChangeKeeps DEF N!Answer, N!Act
<1>5. ASSUME NEW p \in Player, NEW e \in N!Entry, N!SetEntry(p, e) PROVE EntriesInv'
  <2>1. measured[p] \in Trip \cup {0} /\ measured = [measured EXCEPT ![p] = measured[p]]
    BY <1>0 DEF EntryTypes
  <2> QED BY <1>5, <2>1, EntryChangeKeeps DEF N!SetEntry, N!Act, N!keepAlive
<1>6. CASE N!SendKeepAlive
  BY <1>0, <1>6, EntriesIdleKeep DEF N!SendKeepAlive, EntryTypes
<1>7. CASE N!SyncTabEntries  BY <1>7, EntriesSyncKeep
<1>8. CASE N!EndTick
  BY <1>0, <1>8, EntriesIdleKeep DEF N!EndTick, N!keepAlive, EntryTypes
<1>9. CASE UNCHANGED N!vars
  BY <1>0, <1>9, EntriesIdleKeep DEF N!vars, N!keepAlive, EntryTypes
<1> QED BY <1>1, <1>2, <1>3, <1>4, <1>5, <1>6, <1>7, <1>8, <1>9 DEF N!Next

LEMMA EntriesShow == EntriesInv => N!EntriesShown
  BY DEF EntriesInv, ListsSent, FreshOnly, EntriesSwept, N!EntriesShown

-----------------------------------------------------------------------------
(***************************************************************************)
(* Attribute overrides: for any players, mobs and attributes every client  *)
(* that has an entity shows, at the end of a tick, its overrides and its   *)
(* kind's defaults for the rest, as long as no player has overrides before *)
(* it is ready.                                                            *)
(***************************************************************************)

Override == [base : Base \cup {0, KindBase}, modified : BOOLEAN]
Rows == [Attribute -> Override]

(* What the theorems assume of the constants *)
AttributesDistinct ==
  /\ Player \cap Mob = {} /\ None \notin Override /\ None \notin Rows
  /\ ~Early

-----------------------------------------------------------------------------
(* The inductive invariant *)

AttributeTypes ==
  /\ step \in {"game", "tracker", "done"} /\ ready \subseteq Player
  /\ viewersOf \in [Mob -> SUBSET ready]
  /\ bearing \subseteq Mob \cup ready
  /\ overrides \in [A!Bearer -> [Attribute -> Override \cup {None}]]
  /\ marked \in [A!Bearer -> SUBSET Attribute] /\ sentOnes \in [A!Bearer -> SUBSET Attribute]
  /\ audience \in [Player -> SUBSET Player]
  /\ rows \in [Player -> [A!Bearer -> Rows \cup {None}]]

(* Who has an entity: mobs their viewers, players whoever is ready. *)
RowsHad ==
  \A q \in Player, e \in A!Bearer :
    rows[q][e] # None <=> IF e \in Mob THEN q \in viewersOf[e] ELSE q \in ready /\ e \in ready

(* Without the component there are no overrides and nothing was sent. *)
Bare ==
  \A e \in A!Bearer \ bearing :
    /\ A!Has(e) = {} /\ marked[e] = {} /\ sentOnes[e] = {}
    /\ e \in Player => audience[e] = {}

(* What is not marked was sent if and only if it is overridden. *)
Remembered == \A e \in A!Bearer : sentOnes[e] \ marked[e] = A!Has(e) \ marked[e]

Informed(q, e) == IF e \in Mob THEN q \in viewersOf[e] ELSE q \in ready \cap audience[e]

(* A client that has e shows defaults for what was never sent; one that was *)
(* told of its overrides shows what is not marked as it is.                 *)
RowsShowing ==
  \A q \in Player, e \in A!Bearer : rows[q][e] # None =>
    /\ \A a \in Attribute \ sentOnes[e] : rows[q][e][a] = A!DefaultRow(e)
    /\ ~Informed(q, e) => rows[q][e] = A!Defaults(e)
    /\ Informed(q, e) => \A a \in Attribute \ marked[e] : rows[q][e][a] = A!Row(e, a)

(* After the pass nothing is marked and everyone was told. *)
AttributesSynced ==
  step # "game" =>
    /\ \A e \in A!Bearer : marked[e] = {}
    /\ \A e \in Player \cap bearing : audience[e] = ready

AttributesInv == AttributeTypes /\ RowsHad /\ Bare /\ Remembered /\ RowsShowing /\ AttributesSynced

-----------------------------------------------------------------------------
LEMMA DefaultsTyped ==
  ASSUME AttributesDistinct, NEW e \in A!Bearer
  PROVE  A!DefaultRow(e) \in Override /\ A!Defaults(e) \in Rows /\ A!Defaults(e) # None
<1>1. A!DefaultRow(e) \in Override  BY DEF A!DefaultRow, A!DefaultBase, Override
<1>2. A!Defaults(e) \in Rows  BY <1>1 DEF A!Defaults, Rows
<1> QED BY <1>1, <1>2 DEF AttributesDistinct

LEMMA RowTyped ==
  ASSUME AttributeTypes, NEW e \in A!Bearer, NEW a \in Attribute PROVE A!Row(e, a) \in Override
  BY DEF AttributeTypes, A!Row, A!DefaultRow, A!DefaultBase, Override

(* A marked override that is gone was there, or was never sent: what a pass *)
(* remembers as sent is what is overridden.                                 *)
LEMMA SentIsHad ==
  ASSUME AttributesInv, NEW e \in A!Bearer PROVE A!Sent(e) = A!Has(e)
  BY DEF AttributesInv, AttributeTypes, Remembered, A!Sent, A!Has

-----------------------------------------------------------------------------
(* Each step keeps the invariant. *)

LEMMA AttributesReadyKeep ==
  ASSUME AttributesDistinct, AttributesInv, NEW p \in Player, A!GetReady(p) PROVE AttributesInv'
<1>1. /\ step = "game" /\ step' = "game" /\ p \notin ready /\ ready' = ready \cup {p}
      /\ \A e \in Player : p \notin audience[e]
      /\ UNCHANGED <<viewersOf, bearing, overrides, marked, sentOnes, audience>>
      /\ rows' = [q \in Player |-> [e \in A!Bearer |->
           IF e \in ready' /\ q \in ready' /\ p \in {q, e} THEN A!Defaults(e) ELSE rows[q][e]]]
  BY DEF A!GetReady, A!Act, A!component, A!state
<1>2. AttributeTypes /\ ready \subseteq Player  BY DEF AttributesInv, AttributeTypes
<1>3. p \in A!Bearer /\ p \notin Mob /\ p \notin bearing
  BY <1>1, <1>2 DEF A!Bearer, AttributesDistinct, AttributeTypes
<1>4. \A e \in A!Bearer : A!Defaults(e) \in Rows /\ A!Defaults(e) # None
  BY DefaultsTyped
<1>5. \A q \in Player, e \in A!Bearer :
        IF e \in ready' /\ q \in ready' /\ p \in {q, e}
        THEN rows'[q][e] = A!Defaults(e) ELSE rows'[q][e] = rows[q][e]
  BY <1>1
<1>6. AttributeTypes'
  <2>1. rows' \in [Player -> [A!Bearer -> Rows \cup {None}]]
    BY <1>1, <1>2, <1>4 DEF AttributeTypes
  <2> QED BY <1>1, <1>2, <2>1 DEF AttributeTypes
<1>7. RowsHad'
  BY <1>1, <1>2, <1>3, <1>4, <1>5 DEF AttributesInv, RowsHad, AttributesDistinct, A!Bearer
<1>8. Bare' /\ Remembered' /\ AttributesSynced'
  BY <1>1 DEF AttributesInv, Bare, Remembered, AttributesSynced, A!Has
<1>9. RowsShowing'
  <2> SUFFICES ASSUME NEW q \in Player, NEW e \in A!Bearer, rows'[q][e] # None
               PROVE  /\ \A a \in Attribute \ sentOnes'[e] : rows'[q][e][a] = A!DefaultRow(e)'
                      /\ ~Informed(q, e)' => rows'[q][e] = A!Defaults(e)'
                      /\ Informed(q, e)' =>
                           \A a \in Attribute \ marked'[e] : rows'[q][e][a] = A!Row(e, a)'
    BY DEF RowsShowing
  <2>1. /\ A!DefaultRow(e)' = A!DefaultRow(e) /\ A!Defaults(e)' = A!Defaults(e)
        /\ \A a \in Attribute : A!Row(e, a)' = A!Row(e, a)
    BY <1>1 DEF A!DefaultRow, A!DefaultBase, A!Defaults, A!Row
  <2>2. CASE e \in ready' /\ q \in ready' /\ p \in {q, e}
    <3>1. rows'[q][e] = A!Defaults(e)  BY <2>2, <1>5
    <3>2. e \in Player /\ e \notin Mob  BY <2>2, <1>1, <1>2 DEF AttributesDistinct
    <3>3. ~Informed(q, e)'
      BY <2>2, <3>2, <1>1, <1>3 DEF Informed, AttributesInv, Bare
    <3> QED BY <2>1, <3>1, <3>3 DEF A!Defaults
  <2>3. CASE ~(e \in ready' /\ q \in ready' /\ p \in {q, e})
    <3>1. rows'[q][e] = rows[q][e]  BY <2>3, <1>5
    <3>2. Informed(q, e)' <=> Informed(q, e)
      BY <2>3, <3>1, <1>1, <1>2 DEF Informed, AttributesInv, RowsHad, A!Bearer
    <3> QED BY <2>1, <3>1, <3>2, <1>1 DEF AttributesInv, RowsShowing
  <2> QED BY <2>2, <2>3
<1> QED BY <1>6, <1>7, <1>8, <1>9 DEF AttributesInv

LEMMA AttributesLeaveKeep ==
  ASSUME AttributesDistinct, AttributesInv, NEW p \in Player, A!Leave(p) PROVE AttributesInv'
<1>1. /\ step = "game" /\ step' = "game" /\ p \in ready /\ ready' = ready \ {p}
      /\ rows' = [q \in Player |-> IF q = p THEN A!NoRows ELSE [rows[q] EXCEPT ![p] = None]]
      /\ viewersOf' = [m \in Mob |-> viewersOf[m] \ {p}]
      /\ bearing' = bearing \ {p}
      /\ overrides' = [overrides EXCEPT ![p] = A!Untouched]
      /\ marked' = [marked EXCEPT ![p] = {}] /\ sentOnes' = [sentOnes EXCEPT ![p] = {}]
      /\ audience' = [audience EXCEPT ![p] = {}]
  BY DEF A!Leave, A!Act
<1>2. AttributeTypes /\ p \in A!Bearer /\ p \notin Mob  BY DEF AttributesInv, A!Bearer, AttributesDistinct
<1>3. /\ \A q \in Player, e \in A!Bearer :
           rows'[q][e] = IF p \in {q, e} THEN None ELSE rows[q][e]
      /\ \A e \in A!Bearer \ {p} :
           /\ overrides'[e] = overrides[e] /\ marked'[e] = marked[e] /\ sentOnes'[e] = sentOnes[e]
           /\ e \in Player => audience'[e] = audience[e]
      /\ overrides'[p] = A!Untouched /\ marked'[p] = {} /\ sentOnes'[p] = {} /\ audience'[p] = {}
  BY <1>1, <1>2 DEF AttributeTypes, A!NoRows
<1>4. AttributeTypes'
  <2>1. rows' \in [Player -> [A!Bearer -> Rows \cup {None}]]
    BY <1>1, <1>2 DEF AttributeTypes, A!NoRows
  <2> QED BY <1>1, <1>2, <2>1 DEF AttributeTypes, A!Untouched
<1>5. RowsHad'
  BY <1>1, <1>2, <1>3 DEF AttributesInv, RowsHad
<1>6. \A e \in A!Bearer \ {p} : A!Has(e)' = A!Has(e)  BY <1>3 DEF A!Has
<1>7. A!Has(p)' = {}  BY <1>3 DEF A!Has, A!Untouched
<1>8. Bare'
  BY <1>1, <1>3, <1>6, <1>7 DEF AttributesInv, Bare
<1>9. Remembered'  BY <1>3, <1>6, <1>7 DEF AttributesInv, Remembered
<1>10. RowsShowing'
  <2> SUFFICES ASSUME NEW q \in Player, NEW e \in A!Bearer, rows'[q][e] # None
               PROVE  /\ \A a \in Attribute \ sentOnes'[e] : rows'[q][e][a] = A!DefaultRow(e)'
                      /\ ~Informed(q, e)' => rows'[q][e] = A!Defaults(e)'
                      /\ Informed(q, e)' =>
                           \A a \in Attribute \ marked'[e] : rows'[q][e][a] = A!Row(e, a)'
    BY DEF RowsShowing
  <2>1. q # p /\ e # p /\ rows'[q][e] = rows[q][e]  BY <1>3
  <2>2. /\ A!DefaultRow(e)' = A!DefaultRow(e) /\ A!Defaults(e)' = A!Defaults(e)
        /\ \A a \in Attribute : A!Row(e, a)' = A!Row(e, a)
    BY <2>1, <1>3 DEF A!DefaultRow, A!DefaultBase, A!Defaults, A!Row
  <2>3. Informed(q, e)' <=> Informed(q, e)
    BY <2>1, <1>1, <1>3 DEF Informed, A!Bearer
  <2> QED BY <2>1, <2>2, <2>3, <1>3 DEF AttributesInv, RowsShowing
<1> QED BY <1>1, <1>4, <1>5, <1>8, <1>9, <1>10 DEF AttributesInv, AttributesSynced

(* Insert, SetBase, Modify, ResetOne: the overrides of e become f, and all  *)
(* that is not marked is as it was, or was never sent and is not overridden *)
(* now.                                                                     *)
AttributesChange(e, f, M) ==
  /\ step = "game" /\ UNCHANGED <<step, ready, viewersOf, A!state, rows>>
  /\ bearing' = bearing \cup {e} /\ e \in Mob \cup ready
  /\ f \in [Attribute -> Override \cup {None}] /\ overrides' = [overrides EXCEPT ![e] = f]
  /\ M \in SUBSET Attribute /\ marked' = [marked EXCEPT ![e] = M]
  /\ \A a \in Attribute \ M :
       \/ a \notin marked[e] /\ f[a] = overrides[e][a]
       \/ a \notin sentOnes[e] /\ f[a] = None

LEMMA AttributesChangeKeep ==
  ASSUME AttributesDistinct, AttributesInv, NEW e \in A!Bearer, NEW f, NEW M, AttributesChange(e, f, M)
  PROVE  AttributesInv'
<1> USE DEF AttributesChange
<1>1. AttributeTypes /\ UNCHANGED <<step, ready, viewersOf, rows, sentOnes, audience>>
  BY DEF AttributesInv, A!state
<1>2. /\ \A d \in A!Bearer \ {e} : overrides'[d] = overrides[d] /\ marked'[d] = marked[d]
      /\ overrides'[e] = f /\ marked'[e] = M
  BY <1>1 DEF AttributeTypes
<1>3. AttributeTypes'  BY <1>1 DEF AttributeTypes
<1>4. RowsHad'  BY <1>1 DEF AttributesInv, RowsHad
<1>5. \A d \in A!Bearer \ {e} : A!Has(d)' = A!Has(d)  BY <1>2 DEF A!Has
<1>6. Bare'  BY <1>1, <1>2, <1>5 DEF AttributesInv, Bare
<1>7. Remembered'
  <2>1. sentOnes[e] \ M = A!Has(e)' \ M
    <3>1. \A a \in Attribute \ M : a \in sentOnes[e] <=> f[a] # None
      BY DEF AttributesInv, Remembered, A!Has
    <3> QED BY <1>1, <1>2, <3>1 DEF A!Has, AttributeTypes
  <2> QED BY <2>1, <1>1, <1>2, <1>5 DEF AttributesInv, Remembered
<1>8. RowsShowing'
  <2> SUFFICES ASSUME NEW q \in Player, NEW d \in A!Bearer, rows[q][d] # None
               PROVE  /\ \A a \in Attribute \ sentOnes[d] : rows[q][d][a] = A!DefaultRow(d)'
                      /\ ~Informed(q, d)' => rows[q][d] = A!Defaults(d)'
                      /\ Informed(q, d)' =>
                           \A a \in Attribute \ marked'[d] : rows[q][d][a] = A!Row(d, a)'
    BY <1>1 DEF RowsShowing
  <2>1. /\ A!DefaultRow(d)' = A!DefaultRow(d) /\ A!Defaults(d)' = A!Defaults(d)
        /\ Informed(q, d)' <=> Informed(q, d)
    BY <1>1 DEF A!DefaultRow, A!DefaultBase, A!Defaults, Informed
  <2>2. ASSUME Informed(q, d), NEW a \in Attribute \ marked'[d]
        PROVE  rows[q][d][a] = A!Row(d, a)'
    <3>1. CASE d # e
      BY <3>1, <2>2, <1>2 DEF AttributesInv, RowsShowing, A!Row, A!DefaultRow, A!DefaultBase
    <3>2. CASE d = e
      <4>1. A!Row(e, a)' = IF f[a] # None THEN f[a] ELSE A!DefaultRow(e)
        BY <1>2 DEF A!Row, A!DefaultRow, A!DefaultBase
      <4>2. CASE a \notin marked[e] /\ f[a] = overrides[e][a]
        BY <3>2, <4>1, <4>2, <2>2 DEF AttributesInv, RowsShowing, A!Row
      <4>3. CASE a \notin sentOnes[e] /\ f[a] = None
        BY <3>2, <4>1, <4>3 DEF AttributesInv, RowsShowing
      <4> QED BY <3>2, <2>2, <1>2, <4>2, <4>3
    <3> QED BY <3>1, <3>2
  <2> QED BY <2>1, <2>2 DEF AttributesInv, RowsShowing
<1> QED BY <1>1, <1>3, <1>4, <1>6, <1>7, <1>8 DEF AttributesInv, AttributesSynced

LEMMA AttributesInsertKeep ==
  ASSUME AttributesDistinct, AttributesInv, NEW e \in A!Bearer, NEW S \in SUBSET Attribute,
         NEW B \in SUBSET Attribute, NEW b \in Base, A!Insert(e, S, B, b)
  PROVE  AttributesInv'
<1> DEFINE f == [a \in Attribute |->
                  IF a \in S THEN [base |-> IF a \in B THEN b ELSE A!DefaultBase(e),
                                   modified |-> a \notin B]
                  ELSE None]
           M == S \cup (sentOnes[e] \ S)
<1>1. sentOnes[e] \subseteq Attribute  BY DEF AttributesInv, AttributeTypes
<1>2. f \in [Attribute -> Override \cup {None}]  BY DEF Override, A!DefaultBase
<1>3. \A a \in Attribute \ M : a \notin sentOnes[e] /\ f[a] = None  OBVIOUS
<1>4. /\ bearing' = bearing \cup {e} /\ e \in Mob \cup ready /\ step = "game"
      /\ overrides' = [overrides EXCEPT ![e] = f] /\ marked' = [marked EXCEPT ![e] = M]
      /\ UNCHANGED <<step, ready, viewersOf, A!state, rows>>
  BY DEF A!Insert, A!Act, AttributesDistinct
<1>5. M \in SUBSET Attribute  BY <1>1
<1>6. AttributesChange(e, f, M)  BY <1>2, <1>3, <1>4, <1>5 DEF AttributesChange
<1> HIDE DEF f, M
<1> QED BY <1>6, AttributesChangeKeep

LEMMA AttributesPutKeep ==
  ASSUME AttributesDistinct, AttributesInv, NEW e \in A!Bearer, NEW a \in Attribute,
         NEW i \in Override \cup {None}, A!Put(e, a, i)
  PROVE  AttributesInv'
<1> DEFINE f == [overrides[e] EXCEPT ![a] = i]
           M == marked[e] \cup {a}
<1>1. AttributeTypes /\ e \in bearing  BY DEF AttributesInv, A!Put
<1>2. overrides[e] \in [Attribute -> Override \cup {None}] /\ M \in SUBSET Attribute
  BY <1>1 DEF AttributeTypes
<1>3. f \in [Attribute -> Override \cup {None}]  BY <1>2
<1>4. \A c \in Attribute \ M : c \notin marked[e] /\ f[c] = overrides[e][c]
  BY <1>2
<1>5. /\ bearing' = bearing \cup {e} /\ e \in Mob \cup ready /\ step = "game"
      /\ overrides' = [overrides EXCEPT ![e] = f] /\ marked' = [marked EXCEPT ![e] = M]
      /\ UNCHANGED <<step, ready, viewersOf, A!state, rows>>
  BY <1>1 DEF A!Put, A!Act, AttributeTypes
<1>6. AttributesChange(e, f, M)  BY <1>2, <1>3, <1>4, <1>5 DEF AttributesChange
<1> HIDE DEF f, M
<1> QED BY <1>6, AttributesChangeKeep

(* reset_on_remove: what was sent is sent back as the default. *)
LEMMA AttributesRemoveKeep ==
  ASSUME AttributesDistinct, AttributesInv, NEW e \in A!Bearer, A!Remove(e) PROVE AttributesInv'
<1> DEFINE told == IF e \in Mob THEN viewersOf[e] ELSE audience[e] \cap ready
<1>1. /\ step = "game" /\ step' = "game" /\ e \in bearing /\ bearing' = bearing \ {e}
      /\ UNCHANGED <<ready, viewersOf>>
      /\ rows' = [q \in Player |->
           IF q \in told /\ rows[q][e] # None
           THEN [rows[q] EXCEPT ![e] = [a \in Attribute |->
                  IF a \in sentOnes[e] THEN A!DefaultRow(e) ELSE @[a]]]
           ELSE rows[q]]
      /\ overrides' = [overrides EXCEPT ![e] = A!Untouched]
      /\ marked' = [marked EXCEPT ![e] = {}] /\ sentOnes' = [sentOnes EXCEPT ![e] = {}]
      /\ audience' = [p \in Player |-> IF p = e THEN {} ELSE audience[p]]
  BY DEF A!Remove, A!Act
<1>2. AttributeTypes /\ ready \subseteq Player  BY DEF AttributesInv, AttributeTypes
<1>3. \A q \in Player : q \in told <=> Informed(q, e)
  BY <1>2 DEF Informed
<1> HIDE DEF told
<1>4. /\ \A d \in A!Bearer \ {e} :
           /\ overrides'[d] = overrides[d] /\ marked'[d] = marked[d] /\ sentOnes'[d] = sentOnes[d]
           /\ d \in Player => audience'[d] = audience[d]
           /\ \A q \in Player : rows'[q][d] = rows[q][d]
      /\ overrides'[e] = A!Untouched /\ marked'[e] = {} /\ sentOnes'[e] = {}
      /\ e \in Player => audience'[e] = {}
  BY <1>1, <1>2 DEF AttributeTypes
(* All show the defaults of e now. *)
<1>5. ASSUME NEW q \in Player
      PROVE  rows'[q][e] = IF rows[q][e] = None THEN None ELSE A!Defaults(e)
  <2>1. CASE q \in told /\ rows[q][e] # None
    <3>1. rows'[q][e] = [a \in Attribute |->
                           IF a \in sentOnes[e] THEN A!DefaultRow(e) ELSE rows[q][e][a]]
      BY <2>1, <1>1, <1>2 DEF AttributeTypes
    <3>2. \A a \in Attribute \ sentOnes[e] : rows[q][e][a] = A!DefaultRow(e)
      BY <2>1 DEF AttributesInv, RowsShowing
    <3> QED BY <2>1, <3>1, <3>2 DEF A!Defaults
  <2>2. CASE ~(q \in told /\ rows[q][e] # None)
    <3>1. rows'[q][e] = rows[q][e]  BY <2>2, <1>1
    <3> QED BY <2>2, <3>1, <1>3 DEF AttributesInv, RowsShowing
  <2> QED BY <2>1, <2>2
<1>6. AttributeTypes'
  <2>1. \A q \in Player, d \in A!Bearer : rows'[q][d] \in Rows \cup {None}
    BY <1>2, <1>4, <1>5, DefaultsTyped DEF AttributeTypes
  <2>2. \A q \in Player : rows'[q] \in [A!Bearer -> Rows \cup {None}]
    <3> TAKE q \in Player
    <3>1. DOMAIN rows'[q] = A!Bearer /\ rows'[q] = [d \in A!Bearer |-> rows'[q][d]]
      BY <1>1, <1>2 DEF AttributeTypes
    <3> QED BY <2>1, <3>1
  <2>3. rows' \in [Player -> [A!Bearer -> Rows \cup {None}]]  BY <1>1, <2>2
  <2> QED BY <1>1, <1>2, <2>3 DEF AttributeTypes, A!Untouched
<1>7. RowsHad'
  BY <1>1, <1>4, <1>5, DefaultsTyped DEF AttributesInv, RowsHad
<1>8. A!Has(e)' = {} /\ \A d \in A!Bearer \ {e} : A!Has(d)' = A!Has(d)
  BY <1>4 DEF A!Has, A!Untouched
<1>9. Bare' /\ Remembered'
  BY <1>1, <1>4, <1>8 DEF AttributesInv, Bare, Remembered
<1>10. RowsShowing'
  <2> SUFFICES ASSUME NEW q \in Player, NEW d \in A!Bearer, rows'[q][d] # None
               PROVE  /\ \A a \in Attribute \ sentOnes'[d] : rows'[q][d][a] = A!DefaultRow(d)'
                      /\ ~Informed(q, d)' => rows'[q][d] = A!Defaults(d)'
                      /\ Informed(q, d)' =>
                           \A a \in Attribute \ marked'[d] : rows'[q][d][a] = A!Row(d, a)'
    BY DEF RowsShowing
  <2>1. A!DefaultRow(d)' = A!DefaultRow(d) /\ A!Defaults(d)' = A!Defaults(d)
    BY DEF A!DefaultRow, A!DefaultBase, A!Defaults
  <2>2. CASE d = e
    <3>1. rows'[q][e] = A!Defaults(e)  BY <2>2, <1>5
    <3>2. \A a \in Attribute : A!Row(e, a)' = A!DefaultRow(e)
      BY <1>4 DEF A!Row, A!Untouched, A!DefaultRow, A!DefaultBase
    <3> QED BY <2>1, <2>2, <3>1, <3>2 DEF A!Defaults
  <2>3. CASE d # e
    <3>1. \A a \in Attribute : A!Row(d, a)' = A!Row(d, a)
      BY <2>3, <1>4 DEF A!Row, A!DefaultRow, A!DefaultBase
    <3>2. Informed(q, d)' <=> Informed(q, d)
      BY <2>3, <1>1, <1>4 DEF Informed, A!Bearer
    <3> QED BY <2>1, <2>3, <3>1, <3>2, <1>4 DEF AttributesInv, RowsShowing
  <2> QED BY <2>2, <2>3
<1> QED BY <1>1, <1>6, <1>7, <1>9, <1>10 DEF AttributesInv, AttributesSynced

(* sync_attributes: who was told before is told what is marked, and players *)
(* who were not are told all of it, as they show the defaults.              *)
LEMMA AttributesSyncKeep ==
  ASSUME AttributesDistinct, AttributesInv, A!Sync PROVE AttributesInv'
<1>1. /\ step = "game" /\ step' = "tracker" /\ UNCHANGED <<ready, viewersOf, bearing, overrides>>
      /\ rows' = [q \in Player |-> [e \in A!Bearer |->
           IF e \in bearing THEN A!Told(q, e) ELSE rows[q][e]]]
      /\ sentOnes' = [e \in A!Bearer |-> IF e \in bearing THEN A!Sent(e) ELSE sentOnes[e]]
      /\ marked' = [e \in A!Bearer |-> {}]
      /\ audience' = [p \in Player |-> IF p \in bearing THEN ready ELSE audience[p]]
  BY DEF A!Sync
<1>2. AttributeTypes /\ ready \subseteq Player  BY DEF AttributesInv, AttributeTypes
<1>3. \A e \in A!Bearer : sentOnes'[e] = A!Has(e) /\ A!Has(e)' = A!Has(e) /\ A!Has(e) \subseteq Attribute
  BY <1>1, SentIsHad DEF AttributesInv, Bare, A!Has
<1>4. \A e \in A!Bearer : /\ A!DefaultRow(e)' = A!DefaultRow(e) /\ A!Defaults(e)' = A!Defaults(e)
                        /\ \A a \in Attribute : A!Row(e, a)' = A!Row(e, a)
  BY <1>1 DEF A!DefaultRow, A!DefaultBase, A!Defaults, A!Row
(* Every row is now as it should be. *)
<1>5. ASSUME NEW q \in Player, NEW e \in A!Bearer
      PROVE  rows'[q][e] = IF rows[q][e] = None THEN None ELSE [a \in Attribute |-> A!Row(e, a)]
  <2> DEFINE row == rows[q][e]
             all == [a \in Attribute |-> A!Row(e, a)]
  <2>1. row \in Rows \cup {None}  BY <1>2 DEF AttributeTypes
  <2>2. CASE row = None
    <3>1. A!Told(q, e) = None  BY <2>2 DEF A!Told
    <3>2. rows'[q][e] = IF e \in bearing THEN A!Told(q, e) ELSE row  BY <1>1
    <3> QED BY <2>2, <3>1, <3>2
  <2>3. CASE row # None /\ e \notin bearing
    <3>1. A!Has(e) = {} /\ marked[e] = {} /\ sentOnes[e] = {} /\ rows'[q][e] = row
      BY <2>3, <1>1 DEF AttributesInv, Bare
    <3>2. \A a \in Attribute : row[a] = A!DefaultRow(e) /\ A!Row(e, a) = A!DefaultRow(e)
      BY <2>3, <3>1 DEF AttributesInv, RowsShowing, A!Row, A!Has
    <3>3. row = [a \in Attribute |-> row[a]]  BY <2>1, <2>3 DEF Rows
    <3>4. [a \in Attribute |-> row[a]] = all  BY <3>2
    <3> QED BY <2>3, <3>1, <3>3, <3>4
  <2>4. CASE row # None /\ e \in bearing /\ Informed(q, e)
    <3>1. A!Told(q, e) = [a \in Attribute |-> IF a \in marked[e] THEN A!Row(e, a) ELSE row[a]]
      BY <2>4 DEF A!Told, Informed, A!Bearer, AttributesDistinct
    <3>2. \A a \in Attribute \ marked[e] : row[a] = A!Row(e, a)
      BY <2>4 DEF AttributesInv, RowsShowing
    <3>3. [a \in Attribute |-> IF a \in marked[e] THEN A!Row(e, a) ELSE row[a]] = all
      BY <3>2
    <3>4. rows'[q][e] = A!Told(q, e)  BY <2>4, <1>1
    <3> QED BY <2>4, <3>1, <3>3, <3>4
  <2>5. CASE row # None /\ e \in bearing /\ ~Informed(q, e)
    <3>1. e \in Player /\ q \in ready \ audience[e]
      BY <2>5 DEF AttributesInv, RowsHad, Informed, A!Bearer
    <3>2. row = A!Defaults(e) /\ rows'[q][e] = A!Told(q, e)
      BY <2>5, <1>1 DEF AttributesInv, RowsShowing
    <3>3. A!Told(q, e) = IF A!Has(e) # {} THEN A!Full(e, row) ELSE row
      <4>1. A!Sent(e) = A!Has(e) /\ e \notin Mob  BY <3>1, SentIsHad DEF AttributesDistinct
      <4> QED BY <3>1, <4>1, <2>5 DEF A!Told
    <3>4. A!Full(e, row) = all  BY <3>2 DEF A!Full, A!Has, A!Row, A!Defaults
    <3>5. A!Has(e) = {} => row = all  BY <3>2 DEF A!Has, A!Row, A!Defaults
    <3> QED BY <2>5, <3>2, <3>3, <3>4, <3>5
  <2> QED BY <2>2, <2>3, <2>4, <2>5
<1>6. ASSUME NEW e \in A!Bearer
      PROVE  [a \in Attribute |-> A!Row(e, a)] \in Rows /\ [a \in Attribute |-> A!Row(e, a)] # None
  BY <1>2, RowTyped DEF Rows, AttributesDistinct
<1>7. AttributeTypes'
  <2>1. \A q \in Player, e \in A!Bearer : rows'[q][e] \in Rows \cup {None}
    BY <1>5, <1>6
  <2>2. rows' \in [Player -> [A!Bearer -> Rows \cup {None}]]  BY <1>1, <2>1
  <2>3. sentOnes' \in [A!Bearer -> SUBSET Attribute]  BY <1>1, <1>2, <1>3 DEF AttributeTypes
  <2> QED BY <1>1, <1>2, <2>2, <2>3 DEF AttributeTypes
<1>8. RowsHad'  BY <1>1, <1>5, <1>6 DEF AttributesInv, RowsHad
<1>9. Bare'  BY <1>1, <1>3 DEF AttributesInv, Bare, A!Bearer
<1>10. Remembered'  BY <1>1, <1>3 DEF Remembered
<1>11. AttributesSynced'  BY <1>1 DEF AttributesSynced
<1>12. RowsShowing'
  <2> SUFFICES ASSUME NEW q \in Player, NEW e \in A!Bearer, rows'[q][e] # None
               PROVE  /\ \A a \in Attribute \ sentOnes'[e] : rows'[q][e][a] = A!DefaultRow(e)'
                      /\ ~Informed(q, e)' => rows'[q][e] = A!Defaults(e)'
                      /\ \A a \in Attribute : rows'[q][e][a] = A!Row(e, a)'
    BY DEF RowsShowing
  <2>1. rows[q][e] # None /\ rows'[q][e] = [a \in Attribute |-> A!Row(e, a)]  BY <1>5
  <2>2. \A a \in Attribute \ A!Has(e) : A!Row(e, a) = A!DefaultRow(e)  BY DEF A!Row, A!Has
  <2>3. ~Informed(q, e)' => A!Has(e) = {}
    BY <2>1, <1>1 DEF Informed, AttributesInv, RowsHad, Bare, A!Bearer
  <2>4. A!Has(e) = {} => rows'[q][e] = A!Defaults(e)  BY <2>1, <2>2 DEF A!Defaults
  <2> QED BY <2>1, <2>2, <2>3, <2>4, <1>3, <1>4
<1> QED BY <1>7, <1>8, <1>9, <1>10, <1>11, <1>12 DEF AttributesInv

(* The tracker: whom a mob is shown to is sent its overrides. *)
LEMMA AttributesTrackKeep ==
  ASSUME AttributesDistinct, AttributesInv, NEW V \in [Mob -> SUBSET ready], A!Track(V)
  PROVE  AttributesInv'
<1>1. /\ step = "tracker" /\ step' = "done" /\ viewersOf' = V
      /\ UNCHANGED <<ready, bearing, overrides, marked, sentOnes, audience>>
      /\ rows' = [q \in Player |-> [e \in A!Bearer |->
           CASE e \in Player \/ (q \in V[e] /\ q \in viewersOf[e]) -> rows[q][e]
             [] e \in Mob /\ q \in V[e] \ viewersOf[e] -> A!Full(e, A!Defaults(e))
             [] OTHER -> None]]
  BY DEF A!Track, A!component, A!state
<1>2. AttributeTypes  BY DEF AttributesInv
<1>3. \A e \in A!Bearer : marked[e] = {} /\ sentOnes[e] = A!Has(e) /\ A!Has(e) \subseteq Attribute
  <2> TAKE e \in A!Bearer
  <2>1. marked[e] = {}  BY <1>1 DEF AttributesInv, AttributesSynced
  <2> QED BY <2>1 DEF AttributesInv, Remembered, A!Has
<1>4. \A e \in A!Bearer : A!Full(e, A!Defaults(e)) = [a \in Attribute |-> A!Row(e, a)]
  BY DEF A!Full, A!Defaults, A!Has, A!Row
<1>5. \A e \in A!Bearer :
        /\ [a \in Attribute |-> A!Row(e, a)] \in Rows /\ [a \in Attribute |-> A!Row(e, a)] # None
  BY <1>2, RowTyped DEF Rows, AttributesDistinct
<1>6. ASSUME NEW q \in Player, NEW e \in A!Bearer
      PROVE  rows'[q][e] = IF e \in Player \/ (q \in V[e] /\ q \in viewersOf[e]) THEN rows[q][e]
                           ELSE IF q \in V[e] THEN [a \in Attribute |-> A!Row(e, a)] ELSE None
  <2>1. rows'[q][e] =
          CASE e \in Player \/ (q \in V[e] /\ q \in viewersOf[e]) -> rows[q][e]
            [] e \in Mob /\ q \in V[e] \ viewersOf[e] -> A!Full(e, A!Defaults(e))
            [] OTHER -> None
    BY <1>1
  <2>2. (e \in Player <=> e \notin Mob) /\ A!Full(e, A!Defaults(e)) = [a \in Attribute |-> A!Row(e, a)]
    BY <1>4 DEF A!Bearer, AttributesDistinct
  <2> HIDE DEF A!Full, A!Defaults
  <2>3. CASE e \in Player \/ (q \in V[e] /\ q \in viewersOf[e])  BY <2>1, <2>2, <2>3
  <2>4. CASE ~(e \in Player \/ (q \in V[e] /\ q \in viewersOf[e])) /\ q \in V[e]
    BY <2>1, <2>2, <2>4
  <2>5. CASE ~(e \in Player \/ (q \in V[e] /\ q \in viewersOf[e])) /\ q \notin V[e]
    BY <2>1, <2>2, <2>5
  <2> QED BY <2>3, <2>4, <2>5
<1>7. AttributeTypes'
  <2>1. \A q \in Player, e \in A!Bearer : rows'[q][e] \in Rows \cup {None}
    <3> SUFFICES ASSUME NEW q \in Player, NEW e \in A!Bearer
                 PROVE  rows'[q][e] \in Rows \cup {None}
      OBVIOUS
    <3>1. rows[q][e] \in Rows \cup {None}  BY <1>2 DEF AttributeTypes
    <3>2. [a \in Attribute |-> A!Row(e, a)] \in Rows  BY <1>5
    <3> QED BY <3>1, <3>2, <1>6
  <2>2. rows' \in [Player -> [A!Bearer -> Rows \cup {None}]]  BY <1>1, <2>1
  <2> QED BY <1>1, <1>2, <2>2 DEF AttributeTypes
<1>8. RowsHad'
  <2> SUFFICES ASSUME NEW q \in Player, NEW e \in A!Bearer
               PROVE  rows'[q][e] # None <=>
                        IF e \in Mob THEN q \in V[e] ELSE q \in ready /\ e \in ready
    BY <1>1 DEF RowsHad
  <2>1. rows[q][e] # None <=>
          IF e \in Mob THEN q \in viewersOf[e] ELSE q \in ready /\ e \in ready
    BY DEF AttributesInv, RowsHad
  <2>2. [a \in Attribute |-> A!Row(e, a)] # None  BY <1>5
  <2>3. e \in Player <=> e \notin Mob  BY DEF A!Bearer, AttributesDistinct
  <2> QED BY <2>1, <2>2, <2>3, <1>6
<1>9. Bare' /\ Remembered' /\ AttributesSynced'
  BY <1>1 DEF AttributesInv, Bare, Remembered, AttributesSynced, A!Has
<1>10. RowsShowing'
  <2> SUFFICES ASSUME NEW q \in Player, NEW e \in A!Bearer, rows'[q][e] # None
               PROVE  /\ \A a \in Attribute \ sentOnes[e] : rows'[q][e][a] = A!DefaultRow(e)'
                      /\ ~Informed(q, e)' => rows'[q][e] = A!Defaults(e)'
                      /\ Informed(q, e)' =>
                           \A a \in Attribute \ marked[e] : rows'[q][e][a] = A!Row(e, a)'
    BY <1>1 DEF RowsShowing
  <2>1. /\ A!DefaultRow(e)' = A!DefaultRow(e) /\ A!Defaults(e)' = A!Defaults(e)
        /\ \A a \in Attribute : A!Row(e, a)' = A!Row(e, a)
    BY <1>1 DEF A!DefaultRow, A!DefaultBase, A!Defaults, A!Row
  <2>2. e \in Player <=> e \notin Mob  BY DEF A!Bearer, AttributesDistinct
  <2>3. CASE e \in Player \/ (q \in V[e] /\ q \in viewersOf[e])
    <3>1. rows'[q][e] = rows[q][e]  BY <2>3, <1>6
    <3>2. Informed(q, e)' <=> Informed(q, e)  BY <2>2, <2>3, <1>1 DEF Informed
    <3> QED BY <2>1, <3>1, <3>2 DEF AttributesInv, RowsShowing
  <2>4. CASE ~(e \in Player \/ (q \in V[e] /\ q \in viewersOf[e]))
    <3>1. q \in V[e] /\ rows'[q][e] = [a \in Attribute |-> A!Row(e, a)]  BY <2>4, <1>6
    <3>2. Informed(q, e)'  BY <2>2, <2>4, <3>1, <1>1 DEF Informed
    <3>3. \A a \in Attribute \ sentOnes[e] : A!Row(e, a) = A!DefaultRow(e)
      BY <1>3 DEF A!Row, A!Has
    <3> QED BY <2>1, <3>1, <3>2, <3>3
  <2> QED BY <2>3, <2>4
<1> QED BY <1>1, <1>7, <1>8, <1>9, <1>10 DEF AttributesInv

(* The end of the tick, and steps of others *)
LEMMA AttributesRestKeep ==
  ASSUME AttributesInv, step' = step \/ step' = "game",
         UNCHANGED <<ready, viewersOf, A!component, A!state, rows>>
  PROVE  AttributesInv'
<1>1. UNCHANGED <<ready, viewersOf, bearing, overrides, marked, sentOnes, audience, rows>>
  BY DEF A!component, A!state
<1>2. AttributeTypes' /\ RowsHad'  BY <1>1 DEF AttributesInv, AttributeTypes, RowsHad
<1>3. Bare' /\ Remembered' /\ AttributesSynced'
  BY <1>1 DEF AttributesInv, Bare, Remembered, AttributesSynced, A!Has
<1>4. /\ \A e \in A!Bearer : /\ A!DefaultRow(e)' = A!DefaultRow(e) /\ A!Defaults(e)' = A!Defaults(e)
                           /\ \A a \in Attribute : A!Row(e, a)' = A!Row(e, a)
      /\ \A q \in Player, e \in A!Bearer : Informed(q, e)' <=> Informed(q, e)
  BY <1>1 DEF Informed, A!DefaultRow, A!DefaultBase, A!Defaults, A!Row
<1>5. RowsShowing'
  <2> SUFFICES ASSUME NEW q \in Player, NEW e \in A!Bearer, rows[q][e] # None
               PROVE  /\ \A a \in Attribute \ sentOnes[e] : rows[q][e][a] = A!DefaultRow(e)'
                      /\ ~Informed(q, e)' => rows[q][e] = A!Defaults(e)'
                      /\ Informed(q, e)' =>
                           \A a \in Attribute \ marked[e] : rows[q][e][a] = A!Row(e, a)'
    BY <1>1 DEF RowsShowing
  <2> QED BY <1>4 DEF AttributesInv, RowsShowing
<1> QED BY <1>2, <1>3, <1>5 DEF AttributesInv

-----------------------------------------------------------------------------
LEMMA AttributesStart == ASSUME AttributesDistinct PROVE A!Init => AttributesInv
<1> SUFFICES ASSUME A!Init PROVE AttributesInv  OBVIOUS
<1>1. AttributeTypes
  <2>1. \A q \in Player, e \in A!Bearer :
          (IF q \in ready /\ e \in ready THEN A!Defaults(e) ELSE None) \in Rows \cup {None}
    BY DefaultsTyped
  <2>2. rows \in [Player -> [A!Bearer -> Rows \cup {None}]]  BY <2>1 DEF A!Init
  <2> QED BY <2>2 DEF A!Init, AttributeTypes, A!Untouched
<1>2. \A q \in Player, e \in A!Bearer :
        rows[q][e] = IF q \in ready /\ e \in ready THEN A!Defaults(e) ELSE None
  BY DEF A!Init
<1>3. ready \subseteq Player /\ \A m \in Mob : m \notin ready /\ viewersOf[m] = {}
  BY DEF A!Init, AttributesDistinct
<1>4. RowsHad  BY <1>2, <1>3, DefaultsTyped DEF RowsHad
<1>5. \A e \in A!Bearer : A!Has(e) = {} /\ marked[e] = {} /\ sentOnes[e] = {}
  BY DEF A!Init, A!Has, A!Untouched
<1>6. \A p \in Player : audience[p] = {}  BY DEF A!Init
<1>7. Bare /\ Remembered /\ AttributesSynced  BY <1>5, <1>6 DEF Bare, Remembered, AttributesSynced, A!Init
<1>8. RowsShowing
  <2>1. ASSUME NEW q \in Player, NEW e \in A!Bearer, rows[q][e] # None
        PROVE  rows[q][e] = A!Defaults(e) /\ ~Informed(q, e)
    <3>1. q \in ready /\ e \in ready /\ rows[q][e] = A!Defaults(e)  BY <2>1, <1>2
    <3> QED BY <3>1, <1>3, <1>6 DEF Informed
  <2>2. \A e \in A!Bearer, a \in Attribute : A!Defaults(e)[a] = A!DefaultRow(e)  BY DEF A!Defaults
  <2> QED BY <2>1, <2>2 DEF RowsShowing
<1> QED BY <1>1, <1>4, <1>7, <1>8 DEF AttributesInv

LEMMA AttributesKeep ==
  ASSUME AttributesDistinct PROVE AttributesInv /\ [A!Next]_A!vars => AttributesInv'
<1> SUFFICES ASSUME AttributesInv, [A!Next]_A!vars PROVE AttributesInv'  OBVIOUS
<1>0. AttributeTypes  BY DEF AttributesInv
<1>1. ASSUME NEW p \in Player, A!GetReady(p) \/ A!Leave(p) PROVE AttributesInv'
  BY <1>1, AttributesReadyKeep, AttributesLeaveKeep
<1>2. ASSUME NEW e \in A!Bearer, A!Remove(e) PROVE AttributesInv'  BY <1>2, AttributesRemoveKeep
<1>3. ASSUME NEW e \in A!Bearer, NEW S \in SUBSET Attribute, NEW B \in SUBSET Attribute,
             NEW b \in Base, A!Insert(e, S, B, b)
      PROVE  AttributesInv'
  BY <1>3, AttributesInsertKeep
<1>4. ASSUME NEW e \in A!Bearer, NEW a \in Attribute, NEW b \in Base, A!SetBase(e, a, b)
      PROVE  AttributesInv'
  <2>1. [A!Row(e, a) EXCEPT !.base = b] \in Override  BY <1>0, RowTyped DEF Override
  <2> QED BY <1>4, <2>1, AttributesPutKeep DEF A!SetBase
<1>5. ASSUME NEW e \in A!Bearer, NEW a \in Attribute, NEW on \in BOOLEAN, A!Modify(e, a, on)
      PROVE  AttributesInv'
  <2>1. [A!Row(e, a) EXCEPT !.modified = on] \in Override  BY <1>0, RowTyped DEF Override
  <2> QED BY <1>5, <2>1, AttributesPutKeep DEF A!Modify
<1>6. ASSUME NEW e \in A!Bearer, NEW a \in Attribute, A!ResetOne(e, a) PROVE AttributesInv'
  BY <1>6, AttributesPutKeep DEF A!ResetOne
<1>7. CASE A!Sync  BY <1>7, AttributesSyncKeep
<1>8. ASSUME NEW V \in [Mob -> SUBSET ready], A!Track(V) PROVE AttributesInv'
  BY <1>8, AttributesTrackKeep
<1>9. CASE A!EndTick  BY <1>9, AttributesRestKeep DEF A!EndTick
<1>10. CASE UNCHANGED A!vars  BY <1>10, AttributesRestKeep DEF A!vars
<1> QED
  BY <1>1, <1>2, <1>3, <1>4, <1>5, <1>6, <1>7, <1>8, <1>9, <1>10 DEF A!Next

LEMMA AttributesShow == ASSUME AttributesDistinct PROVE AttributesInv => A!AttributesShown
<1> SUFFICES ASSUME AttributesInv, step = "done",
                    NEW q \in ready, NEW e \in A!Bearer, rows[q][e] # None
             PROVE  rows[q][e] = [a \in Attribute |-> A!Row(e, a)]
  BY DEF A!AttributesShown
<1>1. q \in Player /\ marked[e] = {}  BY DEF AttributesInv, AttributeTypes, AttributesSynced
<1>2. rows[q][e] \in Rows  BY <1>1 DEF AttributesInv, AttributeTypes
<1>3. \A a \in Attribute : rows[q][e][a] = A!Row(e, a)
  <2>1. CASE Informed(q, e)  BY <1>1, <2>1 DEF AttributesInv, RowsShowing
  <2>2. CASE ~Informed(q, e)
    <3>1. rows[q][e] = A!Defaults(e)  BY <1>1, <2>2 DEF AttributesInv, RowsShowing
    <3>2. e \notin bearing
      BY <1>1, <2>2 DEF AttributesInv, RowsHad, Informed, AttributesSynced, A!Bearer
    <3> QED BY <3>1, <3>2 DEF AttributesInv, Bare, A!Has, A!Row, A!Defaults
  <2> QED BY <2>1, <2>2
<1> QED BY <1>2, <1>3 DEF Rows

-----------------------------------------------------------------------------
(***************************************************************************)
(* Status effects: for any players, vehicles, effects and durations every   *)
(* client has, at the end of a tick, the effects of its player and of what  *)
(* it rides, as old as they are on the server.                              *)
(***************************************************************************)

(* An effect as it runs: any time may be left of it. *)
Timed == [amplifier : {1, 2}, left : Nat \cup {Forever}]
Held == [Effect -> Timed \cup {None}]

(* What the theorems assume of the constants *)
EffectsDistinct ==
  /\ Length \subseteq Nat /\ Forever \notin Nat /\ None \notin Timed
  /\ Solo \cap Mob = {} /\ None \notin E!Bearer
  /\ ~Replaced

-----------------------------------------------------------------------------
(* The inductive invariant *)

EffectTypes ==
  /\ step \in {"game", "done"} /\ mounts \subseteq Solo
  /\ riding \in [Solo -> Mob \cup {None}]
  /\ bears \subseteq E!Bearer
  /\ effects \in [E!Bearer -> Held]
  /\ dirty \in [E!Bearer -> SUBSET Effect] /\ removed \in [E!Bearer -> SUBSET Effect]
  /\ recipients \in [E!Bearer -> SUBSET Solo]
  /\ sentEffects \in [E!Bearer -> SUBSET Effect]
  /\ hud \in [Solo -> [E!Bearer -> Held]]

(* Without the component nothing is worn, pending or sent, and a player's   *)
(* own effects go to it alone.                                              *)
Unworn ==
  /\ \A e \in E!Bearer \ bears :
       /\ effects[e] = E!Nothing /\ dirty[e] = {} /\ removed[e] = {}
       /\ recipients[e] = {} /\ sentEffects[e] = {}
  /\ \A e \in Solo : recipients[e] \subseteq {e}

(* What changed is worn, what was removed is not, and what is neither was   *)
(* sent if and only if it is worn.                                          *)
Pending ==
  \A e \in E!Bearer :
    /\ dirty[e] \subseteq E!Worn(e) /\ removed[e] \cap E!Worn(e) = {}
    /\ \A a \in Effect \ (dirty[e] \cup removed[e]) :
         a \in sentEffects[e] <=> effects[e][a] # None

(* A recipient has what was not changed since as it is, and nothing that    *)
(* was not sent; nobody else has anything.                                  *)
EffectsHad ==
  \A p \in Solo, e \in E!Bearer :
    IF p \in mounts \cap recipients[e]
    THEN \A a \in Effect :
           /\ a \notin sentEffects[e] => hud[p][e][a] = None
           /\ a \notin dirty[e] \cup removed[e] => hud[p][e][a] = effects[e][a]
    ELSE hud[p][e] = E!Nothing

EffectsDone ==
  step = "done" =>
    /\ \A e \in E!Bearer : dirty[e] = {} /\ removed[e] = {}
    /\ \A e \in bears : recipients[e] = E!Members(e)

EffectsInv == EffectTypes /\ Unworn /\ Pending /\ EffectsHad /\ EffectsDone

-----------------------------------------------------------------------------
LEMMA NothingHeld == E!Nothing \in Held
  BY DEF E!Nothing, Held

LEMMA DownTyped ==
  ASSUME EffectsDistinct, NEW i \in Timed \cup {None}
  PROVE  E!Down(i) \in Timed \cup {None} /\ (E!Down(i) = None <=> i = None)
<1>1. CASE i = None \/ i.left \in {Forever, 0}  BY <1>1 DEF E!Down
<1>2. CASE ~(i = None \/ i.left \in {Forever, 0})
  <2>1. i \in Timed /\ i.left \in Nat /\ i.left # 0  BY <1>2 DEF Timed
  <2>2. E!Down(i) = [i EXCEPT !.left = @ - 1]  BY <1>2 DEF E!Down
  <2>3. E!Down(i) \in Timed  BY <2>1, <2>2 DEF Timed
  <2> QED BY <2>1, <2>3 DEF EffectsDistinct
<1> QED BY <1>1, <1>2

(* What of e is kept by a tick, and what is sent of it then *)
LEMMA KeptTyped ==
  ASSUME EffectsDistinct, EffectTypes, NEW e \in E!Bearer, NEW a \in Effect
  PROVE  /\ E!Kept(e, a) \in Timed \cup {None}
         /\ a \notin dirty[e] => E!Kept(e, a) = None \/ E!Kept(e, a) = E!Down(effects[e][a])
         /\ E!Kept(e, a) = None <=> a \in E!Expired(e) \/ effects[e][a] = None
<1>1. effects[e][a] \in Timed \cup {None}  BY DEF EffectTypes, Held
<1> QED BY <1>1, DownTyped DEF E!Kept, E!Aged

LEMMA SentIsKept ==
  ASSUME EffectsDistinct, EffectsInv, NEW e \in E!Bearer, NEW a \in Effect
  PROVE  a \in E!Sent(e) <=> E!Kept(e, a) # None
<1>1. EffectTypes /\ (E!Kept(e, a) = None <=> a \in E!Expired(e) \/ effects[e][a] = None)
  BY KeptTyped DEF EffectsInv
<1>2. /\ dirty[e] \subseteq E!Worn(e) /\ removed[e] \cap E!Worn(e) = {}
      /\ a \notin dirty[e] \cup removed[e] => (a \in sentEffects[e] <=> effects[e][a] # None)
  BY DEF EffectsInv, Pending
<1>3. (a \in E!Worn(e) <=> effects[e][a] # None) /\ (a \in E!Expired(e) => a \in E!Worn(e) \ dirty[e])
  BY DEF E!Worn, E!Expired
<1> QED BY <1>1, <1>2, <1>3 DEF E!Sent, E!Removed

-----------------------------------------------------------------------------
(* Each step keeps the invariant. *)

LEMMA RiderReadyKeeps ==
  ASSUME EffectsDistinct, EffectsInv, NEW p \in Solo, E!GetReady(p) PROVE EffectsInv'
<1>1. /\ step = "game" /\ step' = "game" /\ mounts' = mounts \cup {p} /\ p \notin mounts
      /\ \A e \in E!Bearer : p \notin recipients[e]
      /\ UNCHANGED <<riding, bears, effects, dirty, removed, recipients, sentEffects, hud>>
  BY DEF E!GetReady, E!Act, E!component, E!state
<1>2. EffectTypes'  BY <1>1 DEF EffectsInv, EffectTypes
<1>3. Unworn'  BY <1>1 DEF EffectsInv, Unworn, E!Nothing
<1>4. Pending'  BY <1>1 DEF EffectsInv, Pending, E!Worn
<1>5. EffectsHad'  BY <1>1 DEF EffectsInv, EffectsHad, E!Nothing
<1> QED BY <1>1, <1>2, <1>3, <1>4, <1>5 DEF EffectsInv, EffectsDone

LEMMA RiderLeavesKeeps ==
  ASSUME EffectsDistinct, EffectsInv, NEW p \in Solo, E!Leave(p) PROVE EffectsInv'
<1>1. /\ step = "game" /\ step' = "game" /\ mounts' = mounts \ {p} /\ bears' = bears \ {p}
      /\ riding' = [riding EXCEPT ![p] = None]
      /\ effects' = [effects EXCEPT ![p] = E!Nothing]
      /\ dirty' = [dirty EXCEPT ![p] = {}] /\ removed' = [removed EXCEPT ![p] = {}]
      /\ recipients' = [recipients EXCEPT ![p] = {}]
      /\ sentEffects' = [sentEffects EXCEPT ![p] = {}]
      /\ hud' = [hud EXCEPT ![p] = [e \in E!Bearer |-> E!Nothing]]
  BY DEF E!Leave, E!Act
<1>2. EffectTypes /\ p \in E!Bearer  BY DEF EffectsInv, E!Bearer
<1>3. EffectTypes'  BY <1>1, <1>2, NothingHeld DEF EffectTypes
<1>4. /\ \A e \in E!Bearer \ {p} :
           /\ effects'[e] = effects[e] /\ dirty'[e] = dirty[e] /\ removed'[e] = removed[e]
           /\ recipients'[e] = recipients[e] /\ sentEffects'[e] = sentEffects[e]
      /\ effects'[p] = E!Nothing /\ dirty'[p] = {} /\ removed'[p] = {}
      /\ recipients'[p] = {} /\ sentEffects'[p] = {}
  BY <1>1, <1>2 DEF EffectTypes
<1>5. Unworn'  BY <1>1, <1>4 DEF EffectsInv, Unworn, E!Nothing, E!Bearer
<1>6. Pending'
  <2> SUFFICES ASSUME NEW e \in E!Bearer
               PROVE  /\ dirty'[e] \subseteq E!Worn(e)' /\ removed'[e] \cap E!Worn(e)' = {}
                      /\ \A a \in Effect \ (dirty'[e] \cup removed'[e]) :
                           a \in sentEffects'[e] <=> effects'[e][a] # None
    BY DEF Pending
  <2>1. CASE e = p  BY <2>1, <1>4 DEF E!Nothing
  <2>2. CASE e # p  BY <2>2, <1>4 DEF EffectsInv, Pending, E!Worn
  <2> QED BY <2>1, <2>2
<1>7. EffectsHad'
  <2> SUFFICES ASSUME NEW q \in Solo, NEW e \in E!Bearer
               PROVE  IF q \in mounts' \cap recipients'[e]
                      THEN \A a \in Effect :
                             /\ a \notin sentEffects'[e] => hud'[q][e][a] = None
                             /\ a \notin dirty'[e] \cup removed'[e] =>
                                  hud'[q][e][a] = effects'[e][a]
                      ELSE hud'[q][e] = E!Nothing
    BY DEF EffectsHad, E!Nothing
  <2>1. CASE q = p  BY <2>1, <1>1, <1>2 DEF EffectTypes
  <2>2. CASE q # p /\ e # p  BY <2>2, <1>1, <1>2, <1>4 DEF EffectsInv, EffectsHad, EffectTypes
  <2>3. CASE q # p /\ e = p
    <3>1. q \notin recipients[p]  BY <2>3 DEF EffectsInv, Unworn
    <3> QED BY <2>3, <3>1, <1>1, <1>2, <1>4 DEF EffectsInv, EffectsHad, EffectTypes
  <2> QED BY <2>1, <2>2, <2>3
<1> QED BY <1>1, <1>3, <1>5, <1>6, <1>7 DEF EffectsInv, EffectsDone

(* Insert, Add, Remove: the effects of e become f with D changed and R      *)
(* removed, and the rest is as it was.                                      *)
EffectsChange(e, f, D, R) ==
  /\ step = "game" /\ UNCHANGED <<step, mounts, riding, E!state, hud>>
  /\ bears' = bears \cup {e} /\ f \in Held /\ D \in SUBSET Effect /\ R \in SUBSET Effect
  /\ effects' = [effects EXCEPT ![e] = f]
  /\ dirty' = [dirty EXCEPT ![e] = D] /\ removed' = [removed EXCEPT ![e] = R]
  /\ \A a \in Effect : (a \in D => f[a] # None) /\ (a \in R => f[a] = None)
  /\ \A a \in Effect \ (D \cup R) : a \notin dirty[e] \cup removed[e] /\ f[a] = effects[e][a]

LEMMA EffectsChangeKeeps ==
  ASSUME EffectsDistinct, EffectsInv, NEW e \in E!Bearer, NEW f, NEW D, NEW R,
         EffectsChange(e, f, D, R)
  PROVE  EffectsInv'
<1> USE DEF EffectsChange
<1>1. EffectTypes /\ UNCHANGED <<recipients, sentEffects>>  BY DEF EffectsInv, E!state
<1>2. EffectTypes'  BY <1>1 DEF EffectTypes
<1>3. /\ \A d \in E!Bearer \ {e} :
           effects'[d] = effects[d] /\ dirty'[d] = dirty[d] /\ removed'[d] = removed[d]
      /\ effects'[e] = f /\ dirty'[e] = D /\ removed'[e] = R
  BY <1>1 DEF EffectTypes
<1>4. Unworn'  BY <1>1, <1>3 DEF EffectsInv, Unworn, E!Nothing
<1>5. Pending'
  <2> SUFFICES ASSUME NEW d \in E!Bearer
               PROVE  /\ dirty'[d] \subseteq E!Worn(d)' /\ removed'[d] \cap E!Worn(d)' = {}
                      /\ \A a \in Effect \ (dirty'[d] \cup removed'[d]) :
                           a \in sentEffects[d] <=> effects'[d][a] # None
    BY <1>1 DEF Pending
  <2>1. CASE d = e  BY <2>1, <1>3 DEF EffectsInv, Pending, E!Worn
  <2>2. CASE d # e  BY <2>2, <1>3 DEF EffectsInv, Pending, E!Worn
  <2> QED BY <2>1, <2>2
<1>6. EffectsHad'
  <2> SUFFICES ASSUME NEW q \in Solo, NEW d \in E!Bearer
               PROVE  IF q \in mounts \cap recipients[d]
                      THEN \A a \in Effect :
                             /\ a \notin sentEffects[d] => hud[q][d][a] = None
                             /\ a \notin dirty'[d] \cup removed'[d] =>
                                  hud[q][d][a] = effects'[d][a]
                      ELSE hud[q][d] = E!Nothing
    BY <1>1 DEF EffectsHad, E!Nothing
  <2>1. CASE d = e  BY <2>1, <1>3 DEF EffectsInv, EffectsHad
  <2>2. CASE d # e  BY <2>2, <1>3 DEF EffectsInv, EffectsHad
  <2> QED BY <2>1, <2>2
<1> QED BY <1>1, <1>2, <1>4, <1>5, <1>6 DEF EffectsInv, EffectsDone

LEMMA InsertedKeeps ==
  ASSUME EffectsDistinct, EffectsInv, NEW e \in E!Bearer, NEW S \in SUBSET Effect,
         NEW i \in E!Instance, E!Insert(e, S, i)
  PROVE  EffectsInv'
<1> DEFINE f == [a \in Effect |-> IF a \in S THEN i ELSE None]
<1>1. i \in Timed /\ i # None  BY DEF E!Instance, E!Duration, Timed, EffectsDistinct
<1>2. e \notin bears  BY DEF E!Insert, EffectsDistinct
<1>3. /\ step = "game" /\ UNCHANGED <<step, mounts, riding, E!state, hud>>
      /\ bears' = bears \cup {e} /\ effects' = [effects EXCEPT ![e] = f]
      /\ dirty' = [dirty EXCEPT ![e] = S] /\ removed' = [removed EXCEPT ![e] = {}]
  BY DEF E!Insert, E!Act
<1>4. \A a \in Effect : effects[e][a] = None /\ dirty[e] = {} /\ removed[e] = {}
  BY <1>2 DEF EffectsInv, Unworn, E!Nothing
<1>5. EffectsChange(e, f, S, {})  BY <1>1, <1>3, <1>4 DEF EffectsChange, Held
<1> HIDE DEF f
<1> QED BY <1>5, EffectsChangeKeeps

LEMMA AddedKeeps ==
  ASSUME EffectsDistinct, EffectsInv, NEW e \in E!Bearer, NEW a \in Effect,
         NEW i \in E!Instance, E!Add(e, a, i)
  PROVE  EffectsInv'
<1> DEFINE f == [effects[e] EXCEPT ![a] = i]
           D == dirty[e] \cup {a}
           R == removed[e] \ {a}
<1>1. i \in Timed /\ i # None  BY DEF E!Instance, E!Duration, Timed, EffectsDistinct
<1>2. EffectTypes  BY DEF EffectsInv
<1>3. /\ step = "game" /\ UNCHANGED <<step, mounts, riding, E!state, hud>>
      /\ bears' = bears \cup {e} /\ effects' = [effects EXCEPT ![e] = f]
      /\ dirty' = [dirty EXCEPT ![e] = D] /\ removed' = [removed EXCEPT ![e] = R]
  BY <1>2 DEF E!Add, E!Act, EffectTypes
<1>4. effects[e] \in Held /\ D \in SUBSET Effect /\ R \in SUBSET Effect
  BY <1>2 DEF EffectTypes
<1>5. f \in Held /\ f[a] = i /\ \A b \in Effect \ {a} : f[b] = effects[e][b]
  BY <1>1, <1>4 DEF Held
<1>6. \A b \in Effect : (b \in D => f[b] # None) /\ (b \in R => f[b] = None)
  BY <1>1, <1>5 DEF EffectsInv, Pending, E!Worn
<1>7. \A b \in Effect \ (D \cup R) : b \notin dirty[e] \cup removed[e] /\ f[b] = effects[e][b]
  BY <1>5
<1> HIDE DEF f, D, R
<1>8. EffectsChange(e, f, D, R)  BY <1>3, <1>4, <1>5, <1>6, <1>7 DEF EffectsChange
<1> QED BY <1>8, EffectsChangeKeeps

LEMMA RemovedKeeps ==
  ASSUME EffectsDistinct, EffectsInv, NEW e \in E!Bearer, NEW S \in SUBSET Effect, E!Remove(e, S)
  PROVE  EffectsInv'
<1> DEFINE f == [a \in Effect |-> IF a \in S THEN None ELSE effects[e][a]]
           D == dirty[e] \ S
           R == removed[e] \cup S
<1>1. EffectTypes  BY DEF EffectsInv
<1>2. /\ step = "game" /\ UNCHANGED <<step, mounts, riding, E!state, hud>>
      /\ bears' = bears \cup {e} /\ effects' = [effects EXCEPT ![e] = f]
      /\ dirty' = [dirty EXCEPT ![e] = D] /\ removed' = [removed EXCEPT ![e] = R]
  BY <1>1 DEF E!Remove, E!Act, EffectTypes
<1>3. f \in Held /\ D \in SUBSET Effect /\ R \in SUBSET Effect
  BY <1>1 DEF EffectTypes, Held
<1>4. \A b \in Effect : (b \in D => f[b] # None) /\ (b \in R => f[b] = None)
  BY DEF EffectsInv, Pending, E!Worn
<1>5. \A b \in Effect \ (D \cup R) : b \notin dirty[e] \cup removed[e] /\ f[b] = effects[e][b]
  OBVIOUS
<1> HIDE DEF f, D, R
<1>6. EffectsChange(e, f, D, R)  BY <1>2, <1>3, <1>4, <1>5 DEF EffectsChange
<1> QED BY <1>6, EffectsChangeKeeps

(* remove_from_recipients: those that were told lose what was sent, which   *)
(* is all they have.                                                        *)
LEMMA WithdrawnKeeps ==
  ASSUME EffectsDistinct, EffectsInv, NEW e \in E!Bearer, E!Withdraw(e) PROVE EffectsInv'
<1>1. /\ step = "game" /\ step' = "game" /\ UNCHANGED <<mounts, riding>>
      /\ hud' = [p \in Solo |->
           IF p \in recipients[e] \cap mounts
           THEN [hud[p] EXCEPT ![e] =
                   [a \in Effect |-> IF a \in sentEffects[e] THEN None ELSE @[a]]]
           ELSE hud[p]]
      /\ bears' = bears \ {e} /\ effects' = [effects EXCEPT ![e] = E!Nothing]
      /\ dirty' = [dirty EXCEPT ![e] = {}] /\ removed' = [removed EXCEPT ![e] = {}]
      /\ recipients' = [recipients EXCEPT ![e] = {}]
      /\ sentEffects' = [sentEffects EXCEPT ![e] = {}]
  BY DEF E!Withdraw, E!Act
<1>2. EffectTypes  BY DEF EffectsInv
<1>3. /\ \A d \in E!Bearer \ {e} :
           /\ effects'[d] = effects[d] /\ dirty'[d] = dirty[d] /\ removed'[d] = removed[d]
           /\ recipients'[d] = recipients[d] /\ sentEffects'[d] = sentEffects[d]
           /\ \A p \in Solo : hud'[p][d] = hud[p][d]
      /\ effects'[e] = E!Nothing /\ dirty'[e] = {} /\ removed'[e] = {}
      /\ recipients'[e] = {} /\ sentEffects'[e] = {}
  BY <1>1, <1>2 DEF EffectTypes
<1>4. ASSUME NEW p \in Solo PROVE hud'[p][e] = E!Nothing
  <2>1. CASE p \in mounts \cap recipients[e]
    <3>1. hud'[p][e] = [a \in Effect |-> IF a \in sentEffects[e] THEN None ELSE hud[p][e][a]]
      BY <2>1, <1>1, <1>2 DEF EffectTypes
    <3>2. \A a \in Effect : a \notin sentEffects[e] => hud[p][e][a] = None
      BY <2>1 DEF EffectsInv, EffectsHad
    <3> QED BY <3>1, <3>2 DEF E!Nothing
  <2>2. CASE p \notin mounts \cap recipients[e]
    <3>1. hud'[p] = hud[p]  BY <2>2, <1>1
    <3> QED BY <2>2, <3>1 DEF EffectsInv, EffectsHad
  <2> QED BY <2>1, <2>2
<1>5. EffectTypes'
  <2>1. \A p \in Solo : hud'[p] \in [E!Bearer -> Held]
    <3> TAKE p \in Solo
    <3>1. DOMAIN hud'[p] = E!Bearer /\ hud'[p] = [d \in E!Bearer |-> hud'[p][d]]
      BY <1>1, <1>2 DEF EffectTypes
    <3>2. \A d \in E!Bearer : hud'[p][d] \in Held
      BY <1>2, <1>3, <1>4, NothingHeld DEF EffectTypes
    <3> QED BY <3>1, <3>2
  <2>2. hud' \in [Solo -> [E!Bearer -> Held]]  BY <1>1, <2>1
  <2> QED BY <1>1, <1>2, <2>2, NothingHeld DEF EffectTypes
<1>6. Unworn'  BY <1>1, <1>3 DEF EffectsInv, Unworn, E!Nothing
<1>7. Pending'
  <2> SUFFICES ASSUME NEW d \in E!Bearer
               PROVE  /\ dirty'[d] \subseteq E!Worn(d)' /\ removed'[d] \cap E!Worn(d)' = {}
                      /\ \A a \in Effect \ (dirty'[d] \cup removed'[d]) :
                           a \in sentEffects'[d] <=> effects'[d][a] # None
    BY DEF Pending
  <2>1. CASE d = e  BY <2>1, <1>3 DEF E!Nothing
  <2>2. CASE d # e  BY <2>2, <1>3 DEF EffectsInv, Pending, E!Worn
  <2> QED BY <2>1, <2>2
<1>8. EffectsHad'
  BY <1>1, <1>3, <1>4 DEF EffectsInv, EffectsHad, E!Nothing
<1> QED BY <1>1, <1>5, <1>6, <1>7, <1>8 DEF EffectsInv, EffectsDone

(* sync_status_effects: who is a member has what is kept, nobody else any.  *)
LEMMA ToldIsKept ==
  ASSUME EffectsDistinct, EffectsInv, NEW p \in mounts, NEW e \in bears, NEW a \in Effect
  PROVE  E!Told(p, e, a) = IF p \in E!Members(e) THEN E!Kept(e, a) ELSE None
<1> DEFINE held == p \in recipients[e]
           new == E!Kept(e, a)
<1>1. EffectTypes /\ p \in Solo /\ e \in E!Bearer  BY DEF EffectsInv, EffectTypes
<1>2. /\ new \in Timed \cup {None}
      /\ a \notin dirty[e] => new = None \/ new = E!Down(effects[e][a])
      /\ new = None <=> a \in E!Expired(e) \/ effects[e][a] = None
      /\ a \in E!Sent(e) <=> new # None
  BY <1>1, KeptTyped, SentIsKept
<1>3. /\ a \in dirty[e] => effects[e][a] # None
      /\ a \in removed[e] => effects[e][a] = None
      /\ a \in E!Expired(e) => a \notin dirty[e] /\ effects[e][a] # None
      /\ a \notin dirty[e] \cup removed[e] => (a \in sentEffects[e] <=> effects[e][a] # None)
  BY <1>1 DEF EffectsInv, Pending, E!Worn, E!Expired
<1>4. IF held THEN /\ a \notin sentEffects[e] => hud[p][e][a] = None
                   /\ a \notin dirty[e] \cup removed[e] => hud[p][e][a] = effects[e][a]
      ELSE hud[p][e][a] = None
  BY <1>1 DEF EffectsInv, EffectsHad, E!Nothing
<1>5. /\ a \in E!Removed(e) <=> (a \in removed[e] \/ a \in E!Expired(e)) /\ a \in sentEffects[e]
      /\ E!Down(None) = None
  BY DEF E!Removed, E!Down
<1>6. E!Told(p, e, a) =
        CASE ~held /\ p \in E!Members(e) /\ new # None                  -> new
          [] held /\ p \in E!Members(e) /\ a \in dirty[e] /\ new # None -> new
          [] held /\ a \in E!Removed(e)                                 -> None
          [] held /\ p \notin E!Members(e) /\ a \in E!Sent(e)             -> None
          [] OTHER                                                    -> E!Down(hud[p][e][a])
  BY DEF E!Told
<1> SUFFICES E!Told(p, e, a) = IF p \in E!Members(e) THEN new ELSE None  OBVIOUS
<1> HIDE DEF new, held
<1>7. CASE ~held  BY <1>7, <1>2, <1>4, <1>5, <1>6
<1>8. CASE held /\ a \in E!Removed(e)
  <2>1. a \notin dirty[e]  BY <1>3, <1>5, <1>8
  <2>2. new = None  BY <1>2, <1>3, <1>5, <1>8
  <2> QED BY <2>1, <2>2, <1>6, <1>8
<1>9. CASE held /\ a \notin E!Removed(e) /\ p \in E!Members(e)
  <2>1. CASE a \in dirty[e]
    <3>1. new # None  BY <2>1, <1>2, <1>3
    <3> QED BY <2>1, <3>1, <1>6, <1>9
  <2>2. CASE a \notin dirty[e]
    <3>1. E!Told(p, e, a) = E!Down(hud[p][e][a])  BY <2>2, <1>6, <1>9
    <3>2. CASE new = None
      <4>1. hud[p][e][a] = None  BY <2>2, <3>2, <1>2, <1>3, <1>4, <1>5, <1>9
      <4> QED BY <3>1, <3>2, <4>1, <1>5, <1>9
    <3>3. CASE new # None
      <4>1. hud[p][e][a] = effects[e][a] /\ new = E!Down(effects[e][a])
        BY <2>2, <3>3, <1>2, <1>3, <1>4, <1>9
      <4> QED BY <3>1, <4>1, <1>9
    <3> QED BY <3>2, <3>3
  <2> QED BY <2>1, <2>2
<1>10. CASE held /\ a \notin E!Removed(e) /\ p \notin E!Members(e)
  <2>1. CASE new # None  BY <2>1, <1>2, <1>6, <1>10
  <2>2. CASE new = None
    <3>1. E!Told(p, e, a) = E!Down(hud[p][e][a])  BY <2>2, <1>2, <1>6, <1>10
    <3>2. hud[p][e][a] = None  BY <2>2, <1>2, <1>3, <1>4, <1>5, <1>10
    <3> QED BY <3>1, <3>2, <1>5, <1>10
  <2> QED BY <2>1, <2>2
<1> QED BY <1>7, <1>8, <1>9, <1>10

LEMMA EffectsSyncKeeps ==
  ASSUME EffectsDistinct, EffectsInv, E!Sync PROVE EffectsInv'
<1>1. /\ step = "game" /\ step' = "done" /\ UNCHANGED <<mounts, riding, bears>>
      /\ hud' = [p \in Solo |-> [e \in E!Bearer |-> [a \in Effect |->
           IF p \in mounts /\ e \in bears THEN E!Told(p, e, a) ELSE E!Down(hud[p][e][a])]]]
      /\ effects' = [e \in E!Bearer |-> [a \in Effect |-> E!Kept(e, a)]]
      /\ sentEffects' = [e \in E!Bearer |-> IF e \in bears THEN E!Sent(e) ELSE sentEffects[e]]
      /\ recipients' = [e \in E!Bearer |-> IF e \in bears THEN E!Members(e) ELSE recipients[e]]
      /\ dirty' = [e \in E!Bearer |-> {}] /\ removed' = [e \in E!Bearer |-> {}]
  BY DEF E!Sync
<1>2. EffectTypes /\ mounts \subseteq Solo /\ bears \subseteq E!Bearer
  BY DEF EffectsInv, EffectTypes
<1>3. \A e \in E!Bearer, a \in Effect : E!Kept(e, a) \in Timed \cup {None}  BY <1>2, KeptTyped
<1>4. \A e \in E!Bearer \ bears : /\ effects[e] = E!Nothing /\ dirty[e] = {}
                                /\ recipients[e] = {} /\ sentEffects[e] = {}
  BY DEF EffectsInv, Unworn
<1>5. \A e \in E!Bearer \ bears : \A a \in Effect : E!Kept(e, a) = None
  BY <1>2, <1>4, KeptTyped DEF E!Nothing
<1>6. E!Down(None) = None  BY DEF E!Down
(* What every client has after the pass *)
<1>7. ASSUME NEW p \in Solo, NEW e \in E!Bearer, NEW a \in Effect
      PROVE  hud'[p][e][a] = IF p \in mounts /\ e \in bears /\ p \in E!Members(e)
                             THEN E!Kept(e, a) ELSE None
  <2>1. hud'[p][e][a] =
          IF p \in mounts /\ e \in bears THEN E!Told(p, e, a) ELSE E!Down(hud[p][e][a])
    BY <1>1
  <2>2. CASE p \in mounts /\ e \in bears  BY <2>1, <2>2, ToldIsKept
  <2>3. CASE ~(p \in mounts /\ e \in bears)
    <3>1. hud[p][e] = E!Nothing  BY <2>3, <1>4 DEF EffectsInv, EffectsHad
    <3> QED BY <2>1, <2>3, <3>1, <1>6 DEF E!Nothing
  <2> QED BY <2>2, <2>3
<1>8. \A e \in E!Bearer : E!Members(e)' = E!Members(e) /\ E!Members(e) \subseteq Solo
  BY <1>1, <1>2 DEF E!Members
<1>9. EffectTypes'
  <2>1. \A p \in Solo, e \in E!Bearer, a \in Effect : hud'[p][e][a] \in Timed \cup {None}
    BY <1>3, <1>7
  <2>2. hud' \in [Solo -> [E!Bearer -> Held]]
    <3>1. \A p \in Solo, e \in E!Bearer : hud'[p][e] \in Held
      <4> TAKE p \in Solo, e \in E!Bearer
      <4>1. hud'[p][e] = [a \in Effect |-> hud'[p][e][a]]  BY <1>1
      <4> QED BY <2>1, <4>1 DEF Held
    <3> QED BY <3>1, <1>1
  <2>3. effects' \in [E!Bearer -> Held]  BY <1>1, <1>3 DEF Held
  <2>4. sentEffects' \in [E!Bearer -> SUBSET Effect]
    BY <1>1, <1>2 DEF EffectTypes, E!Sent, E!Worn
  <2>5. recipients' \in [E!Bearer -> SUBSET Solo]
    BY <1>1, <1>2, <1>8 DEF EffectTypes
  <2> QED BY <1>1, <1>2, <2>2, <2>3, <2>4, <2>5 DEF EffectTypes
<1>10. Unworn'
  <2>1. \A e \in E!Bearer \ bears : effects'[e] = E!Nothing  BY <1>1, <1>5 DEF E!Nothing
  <2>2. \A e \in Solo : recipients'[e] \subseteq {e}
    <3> SUFFICES ASSUME NEW e \in Solo, NEW p \in recipients'[e] PROVE p = e  OBVIOUS
    <3>1. e \in E!Bearer /\ e \notin Mob /\ e # None /\ (p \in Solo => riding[p] # e)
      BY <1>2 DEF E!Bearer, EffectsDistinct, EffectTypes
    <3>2. CASE e \in bears  BY <3>1, <3>2, <1>1, <1>8 DEF E!Members
    <3>3. CASE e \notin bears  BY <3>1, <3>3, <1>1, <1>4
    <3> QED BY <3>2, <3>3
  <2> QED BY <2>1, <2>2, <1>1, <1>4 DEF Unworn, E!Nothing
<1>11. Pending'
  <2> SUFFICES ASSUME NEW e \in E!Bearer, NEW a \in Effect
               PROVE  a \in sentEffects'[e] <=> effects'[e][a] # None
    BY <1>1 DEF Pending, E!Worn
  <2>1. effects'[e][a] = E!Kept(e, a)  BY <1>1
  <2>2. CASE e \in bears  BY <2>1, <2>2, <1>1, SentIsKept
  <2>3. CASE e \notin bears  BY <2>1, <2>3, <1>1, <1>4, <1>5
  <2> QED BY <2>2, <2>3
<1>12. EffectsHad'
  <2> SUFFICES ASSUME NEW p \in Solo, NEW e \in E!Bearer
               PROVE  IF p \in mounts \cap recipients'[e]
                      THEN \A a \in Effect :
                             /\ a \notin sentEffects'[e] => hud'[p][e][a] = None
                             /\ hud'[p][e][a] = effects'[e][a]
                      ELSE hud'[p][e] = E!Nothing
    BY <1>1 DEF EffectsHad, E!Nothing
  <2>1. p \in mounts \cap recipients'[e] <=> p \in mounts /\ e \in bears /\ p \in E!Members(e)
    BY <1>1, <1>4
  <2>2. CASE p \in mounts \cap recipients'[e]
    <3>1. \A a \in Effect : hud'[p][e][a] = effects'[e][a]  BY <2>1, <2>2, <1>1, <1>7
    <3>2. \A a \in Effect : a \notin sentEffects'[e] => effects'[e][a] = None
      BY <1>1, <1>11 DEF Pending
    <3> QED BY <2>2, <3>1, <3>2
  <2>3. CASE p \notin mounts \cap recipients'[e]
    <3>1. hud'[p][e] = [a \in Effect |-> hud'[p][e][a]]  BY <1>1
    <3>2. \A a \in Effect : hud'[p][e][a] = None  BY <2>1, <2>3, <1>7
    <3> QED BY <2>3, <3>1, <3>2 DEF E!Nothing
  <2> QED BY <2>2, <2>3
<1>13. EffectsDone'  BY <1>1, <1>2, <1>8 DEF EffectsDone
<1> QED BY <1>9, <1>10, <1>11, <1>12, <1>13 DEF EffectsInv

(* Steps that concern no effect *)
LEMMA EffectsRestKeep ==
  ASSUME EffectsInv, step' = step \/ step' = "game",
         UNCHANGED <<mounts, bears, effects, dirty, removed, recipients, sentEffects, hud>>,
         riding' \in [Solo -> Mob \cup {None}], step' # "game" => riding' = riding
  PROVE  EffectsInv'
<1>1. EffectTypes'  BY DEF EffectsInv, EffectTypes
<1>2. Unworn'  BY DEF EffectsInv, Unworn, E!Nothing
<1>3. Pending'  BY DEF EffectsInv, Pending, E!Worn
<1>4. EffectsHad'  BY DEF EffectsInv, EffectsHad, E!Nothing
<1>5. EffectsDone'  BY DEF EffectsInv, EffectsDone, E!Members
<1> QED BY <1>1, <1>2, <1>3, <1>4, <1>5 DEF EffectsInv

-----------------------------------------------------------------------------
LEMMA EffectsStart == ASSUME EffectsDistinct PROVE E!Init => EffectsInv
<1> SUFFICES ASSUME E!Init PROVE EffectsInv  OBVIOUS
<1>1. EffectTypes  BY NothingHeld DEF E!Init, EffectTypes
<1>2. Unworn /\ Pending /\ EffectsHad /\ EffectsDone
  BY DEF E!Init, Unworn, Pending, EffectsHad, EffectsDone, E!Nothing, E!Worn, E!Bearer
<1> QED BY <1>1, <1>2 DEF EffectsInv

LEMMA EffectsKeep ==
  ASSUME EffectsDistinct PROVE EffectsInv /\ [E!Next]_E!vars => EffectsInv'
<1> SUFFICES ASSUME EffectsInv, [E!Next]_E!vars PROVE EffectsInv'  OBVIOUS
<1>0. EffectTypes  BY DEF EffectsInv
<1>1. ASSUME NEW p \in Solo, E!GetReady(p) PROVE EffectsInv'  BY <1>1, RiderReadyKeeps
<1>2. ASSUME NEW p \in Solo, E!Leave(p) PROVE EffectsInv'  BY <1>2, RiderLeavesKeeps
<1>3. ASSUME NEW p \in Solo, NEW m \in Mob \cup {None}, E!Ride(p, m) PROVE EffectsInv'
  BY <1>0, <1>3, EffectsRestKeep DEF E!Ride, E!Act, E!component, E!state, EffectTypes
<1>4. ASSUME NEW e \in E!Bearer, NEW S \in SUBSET Effect, NEW i \in E!Instance, E!Insert(e, S, i)
      PROVE  EffectsInv'
  BY <1>4, InsertedKeeps
<1>5. ASSUME NEW e \in E!Bearer, NEW S \in SUBSET Effect, E!Remove(e, S) PROVE EffectsInv'
  BY <1>5, RemovedKeeps
<1>6. ASSUME NEW e \in E!Bearer, NEW a \in Effect, NEW i \in E!Instance, E!Add(e, a, i)
      PROVE  EffectsInv'
  BY <1>6, AddedKeeps
<1>7. ASSUME NEW e \in E!Bearer, E!Withdraw(e) PROVE EffectsInv'  BY <1>7, WithdrawnKeeps
<1>8. CASE E!Sync  BY <1>8, EffectsSyncKeeps
<1>9. CASE E!EndTick
  BY <1>0, <1>9, EffectsRestKeep DEF E!EndTick, E!component, E!state, EffectTypes
<1>10. CASE UNCHANGED E!vars
  BY <1>0, <1>10, EffectsRestKeep DEF E!vars, E!component, E!state, EffectTypes
<1> QED BY <1>1, <1>2, <1>3, <1>4, <1>5, <1>6, <1>7, <1>8, <1>9, <1>10 DEF E!Next

LEMMA EffectsShow == EffectsInv => E!EffectsShown
<1> SUFFICES ASSUME EffectsInv, step = "done", NEW p \in mounts, NEW e \in E!Bearer
             PROVE  hud[p][e] = IF p \in E!Members(e) THEN effects[e] ELSE E!Nothing
  BY DEF E!EffectsShown
<1>1. p \in Solo /\ effects[e] \in Held /\ hud[p][e] \in Held
  BY DEF EffectsInv, EffectTypes
<1>2. dirty[e] = {} /\ removed[e] = {} /\ (e \in bears => recipients[e] = E!Members(e))
  BY DEF EffectsInv, EffectsDone
<1>3. CASE e \notin bears
  <2>1. effects[e] = E!Nothing /\ hud[p][e] = E!Nothing
    BY <1>1, <1>3 DEF EffectsInv, Unworn, EffectsHad
  <2> QED BY <2>1
<1>4. CASE e \in bears /\ p \in E!Members(e)
  <2>1. \A a \in Effect : hud[p][e][a] = effects[e][a]
    BY <1>1, <1>2, <1>4 DEF EffectsInv, EffectsHad
  <2> QED BY <2>1, <1>1, <1>4 DEF Held
<1>5. CASE e \in bears /\ p \notin E!Members(e)
  BY <1>1, <1>2, <1>5 DEF EffectsInv, EffectsHad
<1> QED BY <1>3, <1>4, <1>5

-----------------------------------------------------------------------------
(***************************************************************************)
(* World clocks, of which one is in use: at the end of a tick a client has *)
(* it as the component that covers the player does, and a client that      *)
(* nothing covers lets it run.                                             *)
(***************************************************************************)

ClockComponent == [time : C!Time, frozen : BOOLEAN, clock : Clock, explicit : BOOLEAN,
              audience : SUBSET Solo]
ClockView == [Clock -> [time : C!Time, runs : BOOLEAN]]
ClockMark == [frozen : BOOLEAN, clock : Clock]

(* One clock, and no clock withdrawn while players it let go wait for it. *)
ClocksDistinct ==
  /\ \A c, d \in Clock : c = d
  /\ ~Hasty /\ Wrap \in Nat \ {0}
  /\ None \notin ClockComponent /\ None \notin ClockMark

-----------------------------------------------------------------------------
(* The inductive invariant *)

ClockTypes ==
  /\ step \in {"game", "explicit", "broad", "done"} /\ acted \in BOOLEAN
  /\ watching \subseteq Solo
  /\ comp \in [Dial -> ClockComponent \cup {None}]
  /\ sentClock \in [Dial -> ClockMark \cup {None}]
  /\ expected \in [Dial -> C!Time] /\ since \in [Dial -> Nat]
  /\ watchers \in [Dial -> SUBSET Solo]
  /\ released \subseteq Solo /\ forgot \subseteq C!Alive
  /\ dials \in [Solo -> ClockView]
  /\ todo \subseteq C!Alive
  /\ step \in {"game", "done"} => todo = {} /\ released = {}
  /\ step = "explicit" => todo \subseteq C!Explicit
  /\ step = "broad" => todo \cap C!Explicit = {}
  /\ \A e \in Dial \ C!Alive : watchers[e] = {} /\ sentClock[e] = None
  /\ \A p \in Solo \ watching : \A c \in Clock : dials[p][c].runs

(* Audiences of one kind share no player. *)
AudiencesApart ==
  \A e, x \in C!Alive : e # x /\ comp[e].explicit = comp[x].explicit =>
    comp[e].audience \cap comp[x].audience = {}

(* Reached in this tick *)
ClockSynced(e) ==
  \/ step = "done"
  \/ step = "explicit" /\ comp[e].explicit /\ e \notin todo
  \/ step = "broad" /\ e \notin todo

(* The pass that is under way *)
InPass(e) == step = IF comp[e].explicit THEN "explicit" ELSE "broad"

(* The client of p has the clock as e sent it, or let it run since. *)
HoldsClock(p, e) ==
  /\ sentClock[e] # None
  /\ \A c \in Clock :
       /\ dials[p][c].runs = ~sentClock[e].frozen
       /\ expected[e] = IF ClockSynced(e) /\ dials[p][c].runs THEN C!Later(dials[p][c].time)
                        ELSE dials[p][c].time

(* Whom a clock is yet to sync, it shares with no other and holds, but for  *)
(* those that one synced before it has taken over.                          *)
BeforeSync ==
  \A e \in C!Alive : ~ClockSynced(e) => \A p \in watchers[e] \cap watching :
    /\ p \notin released
    /\ \A x \in C!Alive \ {e} : p \in watchers[x] => ClockSynced(x)
    /\ HoldsClock(p, e) \/ \E x \in C!Alive \ {e} : p \in watchers[x]

(* Whom it has synced it covers and holds, but for those that another of    *)
(* the pass let go; and whom it covers and does not view, it will sync anew.*)
AfterSync ==
  \A e \in C!Alive : ClockSynced(e) =>
    /\ sentClock[e] = [frozen |-> comp[e].frozen, clock |-> comp[e].clock]
    /\ expected[e] = comp[e].time
    /\ watchers[e] \subseteq C!Desired(e)
    /\ watchers[e] = C!Desired(e) \/ e \in forgot
    /\ \A p \in watchers[e] : HoldsClock(p, e) \/ (InPass(e) /\ p \in released)

(* A frozen clock is one that a component answers for. *)
FrozenAnswered ==
  \A p \in watching : \A c \in Clock : ~dials[p][c].runs =>
    \E e \in C!Alive : p \in watchers[e] \/ (e \in forgot /\ p \in C!Members(e))

(* Without actions of the game nobody is let go. *)
ClocksSettled ==
  ~acted =>
    /\ released = {}
    /\ \A e \in C!Alive : IF ClockSynced(e) THEN watchers[e] = C!Desired(e) ELSE watchers[e] \subseteq C!Desired(e)

ClocksInv == ClockTypes /\ AudiencesApart /\ BeforeSync /\ AfterSync /\ FrozenAnswered /\ ClocksSettled

-----------------------------------------------------------------------------
(* The clock that wraps, who is covered, and who is told what *)

LEMMA LaterTime == ASSUME ClocksDistinct, NEW t \in C!Time PROVE C!Later(t) \in C!Time
  BY DEF ClocksDistinct, C!Time, C!Later

LEMMA DesiredApart ==
  ASSUME ClockTypes, AudiencesApart, NEW e \in C!Alive, NEW x \in C!Alive, e # x
  PROVE  C!Desired(e) \cap C!Desired(x) = {}
<1> comp[e].explicit \in BOOLEAN /\ comp[x].explicit \in BOOLEAN
  BY DEF ClockTypes, C!Alive, ClockComponent
<1>1. CASE comp[e].explicit = comp[x].explicit
  BY <1>1 DEF AudiencesApart, C!Desired, C!Members
<1>2. CASE comp[e].explicit # comp[x].explicit
  <2>1. e \in C!Explicit => C!Members(e) \subseteq C!Claimed  BY DEF C!Claimed
  <2>2. x \in C!Explicit => C!Members(x) \subseteq C!Claimed  BY DEF C!Claimed
  <2>4. CASE comp[e].explicit /\ ~comp[x].explicit
    BY <2>1, <2>4 DEF C!Desired, C!Explicit
  <2>5. CASE ~comp[e].explicit /\ comp[x].explicit
    BY <2>2, <2>5 DEF C!Desired, C!Explicit
  <2> QED BY <1>2, <2>4, <2>5
<1> QED BY <1>1, <1>2

LEMMA DesiredReady == ASSUME NEW e PROVE C!Desired(e) \subseteq C!Members(e) /\ C!Members(e) \subseteq watching
  BY DEF C!Desired, C!Members

(* What was sent last was frozen. *)
SentFrozen(e) == sentClock[e] # None /\ sentClock[e].frozen

(* The ones are told the time, and the clock of the others is let run. *)
TellsClock(new, e, resumed, ones, p) ==
  /\ new \in ClockView
  /\ p \in ones => \A c \in Clock : new[c] = [time |-> comp[e].time, runs |-> ~comp[e].frozen]
  /\ p \in (resumed \cap watching) \ ones /\ SentFrozen(e) => \A c \in Clock : new[c].runs
  /\ p \notin ones /\ (p \notin resumed \/ p \notin watching \/ ~SentFrozen(e)) => new = dials[p]

LEMMA ClockShownTo ==
  ASSUME ClocksDistinct, ClockTypes, NEW e \in C!Alive, NEW resumed, NEW ones, NEW p \in Solo
  PROVE  TellsClock(C!Shown(e, resumed, ones)[p], e, resumed, ones, p)
<1>1. comp[e] \in ClockComponent /\ comp[e].clock \in Clock /\ comp[e].time \in C!Time
      /\ comp[e].frozen \in BOOLEAN /\ dials[p] \in ClockView
  BY DEF ClockTypes, C!Alive, ClockComponent
<1>2. \A c \in Clock : c = comp[e].clock  BY <1>1 DEF ClocksDistinct
<1> DEFINE new == C!Shown(e, resumed, ones)[p]
           told == p \in (resumed \cap watching) \ ones /\ SentFrozen(e)
<1>3. new = CASE p \in ones -> [dials[p] EXCEPT ![comp[e].clock] = C!Packet(e, ~comp[e].frozen)]
              [] told -> [dials[p] EXCEPT ![comp[e].clock] = C!Packet(e, TRUE)]
              [] OTHER -> dials[p]
  BY DEF C!Shown, SentFrozen
<1> HIDE DEF new, TellsClock
<1>4. CASE p \in ones
  <2>1. new = [dials[p] EXCEPT ![comp[e].clock] = C!Packet(e, ~comp[e].frozen)]
    BY <1>3, <1>4
  <2> DEFINE packet == [time |-> comp[e].time, runs |-> ~comp[e].frozen]
  <2>2. C!Packet(e, ~comp[e].frozen) = packet /\ packet \in [time : C!Time, runs : BOOLEAN]
    BY <1>1 DEF C!Packet
  <2> HIDE DEF packet
  <2>3. new \in ClockView /\ \A c \in Clock : new[c] = packet
    BY <1>1, <1>2, <2>1, <2>2 DEF ClockView
  <2> QED BY <1>4, <2>3 DEF new, packet, TellsClock
<1>5. CASE told
  <2>1. p \in watching /\ p \notin ones  BY <1>5
  <2>2. new = [dials[p] EXCEPT ![comp[e].clock] = C!Packet(e, TRUE)]
    BY <1>3, <1>5, <2>1
  <2>3. C!Packet(e, TRUE) \in [time : C!Time, runs : BOOLEAN] /\ C!Packet(e, TRUE).runs
    BY <1>1 DEF C!Packet
  <2>4. new \in ClockView /\ \A c \in Clock : new[c].runs
    BY <1>1, <1>2, <2>2, <2>3 DEF ClockView
  <2> QED BY <1>5, <2>1, <2>4 DEF new, TellsClock
<1>6. CASE p \notin ones /\ ~told
  <2>1. new = dials[p]  BY <1>3, <1>6
  <2>2. p \notin resumed \/ p \notin watching \/ ~SentFrozen(e)  BY <1>6
  <2> QED BY <1>1, <1>6, <2>1, <2>2 DEF new, TellsClock
<1> QED BY <1>4, <1>5, <1>6

(* What is held stays held while nothing of it changes. *)
LEMMA HoldsClockOn ==
  ASSUME NEW p, NEW e, HoldsClock(p, e), sentClock'[e] = sentClock[e], expected'[e] = expected[e],
         dials'[p] = dials[p], ClockSynced(e)' <=> ClockSynced(e)
  PROVE  HoldsClock(p, e)'
BY DEF HoldsClock

(* Between two ticks each clock holds its viewers, and shares none. *)
BeforeTick ==
  \A e \in C!Alive : \A p \in watchers[e] \cap watching :
    p \notin released /\ (\A x \in C!Alive \ {e} : p \notin watchers[x]) /\ HoldsClock(p, e)

LEMMA BetweenTicks ==
  /\ step = "game" => (BeforeSync <=> BeforeTick) /\ AfterSync /\ \A e : ~ClockSynced(e)
  /\ step' = "game" => (BeforeSync' <=> BeforeTick') /\ AfterSync' /\ \A e : ~ClockSynced(e)'
<1>1. step = "game" => \A e : ~ClockSynced(e)  BY DEF ClockSynced
<1>2. step' = "game" => \A e : ~ClockSynced(e)'  BY DEF ClockSynced
<1> QED BY <1>1, <1>2 DEF BeforeSync, BeforeTick, AfterSync

LEMMA ClocksStart == ASSUME ClocksDistinct, C!Init PROVE ClocksInv
<1>1. C!Alive = {}  BY DEF C!Init, C!Alive
<1>2. 0 \in C!Time /\ \A p \in Solo : dials[p] \in ClockView
  BY DEF C!Init, C!Fresh, C!Time, ClocksDistinct, ClockView
<1>3. ClockTypes
  <2>1. dials = [p \in Solo |-> C!Fresh]  BY DEF C!Init
  <2>2. dials \in [Solo -> ClockView]
    BY <1>2, <2>1
  <2>3. \A p \in Solo : \A c \in Clock : dials[p][c].runs  BY <2>1 DEF C!Fresh
  <2> QED BY <1>1, <1>2, <2>2, <2>3 DEF C!Init, ClockTypes
<1>4. FrozenAnswered
  BY DEF C!Init, FrozenAnswered, C!Fresh
<1> QED BY <1>1, <1>3, <1>4 DEF ClocksInv, AudiencesApart, BeforeSync, AfterSync, ClocksSettled, C!Init

-----------------------------------------------------------------------------
(* The game, between two ticks *)

LEMMA WatcherReadyKeeps ==
  ASSUME ClocksDistinct, ClocksInv, NEW p \in Solo, C!GetReady(p) PROVE ClocksInv'
<1>1. /\ step = "game" /\ step' = "game" /\ acted' = TRUE /\ p \notin watching
      /\ watching' = watching \cup {p} /\ \A e \in Dial : p \notin watchers[e]
      /\ UNCHANGED <<comp, sentClock, expected, since, watchers, todo, released, forgot, dials>>
  BY DEF C!GetReady, C!Act, C!state
<1>2. C!Alive' = C!Alive /\ C!Explicit' = C!Explicit /\ C!Alive \subseteq Dial
  BY <1>1 DEF C!Alive, C!Explicit
<1>3. ClockTypes /\ AudiencesApart /\ BeforeTick /\ FrozenAnswered
  BY <1>1, BetweenTicks DEF ClocksInv
<1>4. ClockTypes'  BY <1>1, <1>2, <1>3 DEF ClockTypes
<1>5. AudiencesApart'  BY <1>1, <1>2, <1>3 DEF AudiencesApart
<1>6. BeforeTick'
  <2> SUFFICES ASSUME NEW e \in C!Alive, NEW q \in watchers[e] \cap watching
               PROVE  q \notin released /\ (\A x \in C!Alive \ {e} : q \notin watchers[x]) /\ HoldsClock(q, e)'
    BY <1>1, <1>2 DEF BeforeTick
  <2>1. ClockSynced(e)' <=> ClockSynced(e)  BY <1>1, BetweenTicks
  <2> QED BY <1>1, <1>3, <2>1, HoldsClockOn DEF BeforeTick
<1>7. FrozenAnswered'
  <2> SUFFICES ASSUME NEW q \in watching', NEW c \in Clock, ~dials[q][c].runs
               PROVE  \E e \in C!Alive : q \in watchers[e] \/ (e \in forgot /\ q \in C!Members(e)')
    BY <1>1, <1>2 DEF FrozenAnswered
  <2>1. q # p /\ q \in watching  BY <1>1, <1>3 DEF ClockTypes
  <2>2. \A e : q \in C!Members(e) => q \in C!Members(e)'  BY <1>1 DEF C!Members
  <2> QED BY <1>3, <2>1, <2>2 DEF FrozenAnswered
<1>8. ClocksSettled'  BY <1>1 DEF ClocksSettled
<1> QED BY <1>1, <1>4, <1>5, <1>6, <1>7, <1>8, BetweenTicks DEF ClocksInv

LEMMA WatcherLeavesKeeps ==
  ASSUME ClocksDistinct, ClocksInv, NEW p \in Solo, C!Leave(p) PROVE ClocksInv'
<1>1. /\ step = "game" /\ step' = "game" /\ acted' = TRUE /\ p \in watching
      /\ watching' = watching \ {p} /\ dials' = [dials EXCEPT ![p] = C!Fresh]
      /\ UNCHANGED <<comp, sentClock, expected, since, watchers, todo, released, forgot>>
  BY DEF C!Leave, C!Act, C!state
<1>2. C!Alive' = C!Alive /\ C!Explicit' = C!Explicit /\ C!Alive \subseteq Dial
  BY <1>1 DEF C!Alive, C!Explicit
<1>3. ClockTypes /\ AudiencesApart /\ BeforeTick /\ FrozenAnswered
  BY <1>1, BetweenTicks DEF ClocksInv
<1>4. C!Fresh \in ClockView /\ \A c \in Clock : C!Fresh[c].runs
  BY DEF C!Fresh, C!Time, ClocksDistinct, ClockView
<1>5. /\ dials' \in [Solo -> ClockView]
      /\ dials'[p] = C!Fresh /\ \A q \in Solo \ {p} : dials'[q] = dials[q]
  <2> HIDE DEF C!Fresh
  <2> QED BY <1>1, <1>3, <1>4 DEF ClockTypes
<1>6. ClockTypes'  BY <1>1, <1>2, <1>3, <1>4, <1>5 DEF ClockTypes
<1>7. AudiencesApart'  BY <1>1, <1>2, <1>3 DEF AudiencesApart
<1>8. BeforeTick'
  <2> SUFFICES ASSUME NEW e \in C!Alive, NEW q \in watchers[e] \cap watching'
               PROVE  q \notin released /\ (\A x \in C!Alive \ {e} : q \notin watchers[x]) /\ HoldsClock(q, e)'
    BY <1>1, <1>2 DEF BeforeTick
  <2>1. ClockSynced(e)' <=> ClockSynced(e)  BY <1>1, BetweenTicks
  <2>2. q \in watching /\ dials'[q] = dials[q]  BY <1>1, <1>3, <1>5 DEF ClockTypes
  <2> QED BY <1>1, <1>3, <2>1, <2>2, HoldsClockOn DEF BeforeTick
<1>9. FrozenAnswered'
  <2> SUFFICES ASSUME NEW q \in watching', NEW c \in Clock, ~dials'[q][c].runs
               PROVE  \E e \in C!Alive : q \in watchers[e] \/ (e \in forgot /\ q \in C!Members(e)')
    BY <1>1, <1>2 DEF FrozenAnswered
  <2>1. q \in watching /\ q # p /\ dials'[q] = dials[q]  BY <1>1, <1>3, <1>5 DEF ClockTypes
  <2>2. \A e : q \in C!Members(e) => q \in C!Members(e)'  BY <1>1, <2>1 DEF C!Members
  <2> QED BY <1>3, <2>1, <2>2 DEF FrozenAnswered
<1>10. ClocksSettled'  BY <1>1 DEF ClocksSettled
<1> QED BY <1>1, <1>6, <1>7, <1>8, <1>9, <1>10, BetweenTicks DEF ClocksInv

(* A component is given, changed or given another audience. *)
LEMMA ClockComponentKeeps ==
  ASSUME ClocksDistinct, ClocksInv, NEW e \in Dial, NEW new \in ClockComponent,
         comp' = [comp EXCEPT ![e] = new], C!Apart(e, new.explicit, new.audience),
         e \in C!Alive /\ e \in forgot => new.audience = comp[e].audience,
         step = "game", step' = "game", acted' = TRUE,
         UNCHANGED <<watching, C!state, todo, released, forgot, dials>>
  PROVE  ClocksInv'
<1>1. UNCHANGED <<watching, sentClock, expected, since, watchers, todo, released, forgot, dials>>
  BY DEF C!state
<1>2. ClockTypes /\ AudiencesApart /\ BeforeTick /\ FrozenAnswered
  BY BetweenTicks DEF ClocksInv
<1>3. /\ comp'[e] = new /\ \A x \in Dial \ {e} : comp'[x] = comp[x]
      /\ comp' \in [Dial -> ClockComponent \cup {None}] /\ new # None
  BY <1>2 DEF ClockTypes, ClocksDistinct
<1>4. C!Alive' = C!Alive \cup {e}  BY <1>3 DEF C!Alive
<1>5. ClockTypes'
  BY <1>1, <1>2, <1>3, <1>4 DEF ClockTypes
<1>6. AudiencesApart'
  <2> SUFFICES ASSUME NEW a \in C!Alive', NEW b \in C!Alive', a # b,
                      comp'[a].explicit = comp'[b].explicit
               PROVE  comp'[a].audience \cap comp'[b].audience = {}
    BY DEF AudiencesApart
  <2>1. \A x \in C!Alive \ {e} : new.explicit = comp[x].explicit => comp[x].audience \cap new.audience = {}
    BY DEF C!Apart
  <2>2. CASE a = e  BY <1>3, <1>4, <2>1, <2>2 DEF C!Alive
  <2>3. CASE b = e  BY <1>3, <1>4, <2>1, <2>3 DEF C!Alive
  <2>4. CASE a # e /\ b # e
    <3>1. a \in C!Alive /\ b \in C!Alive /\ comp'[a] = comp[a] /\ comp'[b] = comp[b]
      BY <1>3, <1>4, <2>4 DEF C!Alive
    <3> QED BY <1>2, <3>1 DEF AudiencesApart
  <2> QED BY <2>2, <2>3, <2>4
<1>7. e \notin C!Alive => watchers[e] = {}  BY <1>2 DEF ClockTypes
<1>8. BeforeTick'
  <2> SUFFICES ASSUME NEW x \in C!Alive', NEW q \in watchers[x] \cap watching
               PROVE  q \notin released /\ (\A y \in C!Alive' \ {x} : q \notin watchers[y]) /\ HoldsClock(q, x)'
    BY <1>1 DEF BeforeTick
  <2>1. x \in C!Alive  BY <1>4, <1>7
  <2>2. \A y \in C!Alive' \ {x} : q \in watchers[y] => y \in C!Alive \ {x}  BY <1>4, <1>7
  <2>3. ClockSynced(x)' <=> ClockSynced(x)  BY BetweenTicks
  <2> QED BY <1>1, <1>2, <2>1, <2>2, <2>3, HoldsClockOn DEF BeforeTick
<1>9. FrozenAnswered'
  <2> SUFFICES ASSUME NEW q \in watching, NEW c \in Clock, ~dials[q][c].runs
               PROVE  \E x \in C!Alive' : q \in watchers[x] \/ (x \in forgot /\ q \in C!Members(x)')
    BY <1>1 DEF FrozenAnswered
  <2>1. PICK x \in C!Alive : q \in watchers[x] \/ (x \in forgot /\ q \in C!Members(x))
    BY <1>2 DEF FrozenAnswered
  <2>2. x \in forgot => C!Members(x)' = C!Members(x)
    <3>1. CASE x = e  BY <1>1, <1>3, <2>1, <3>1 DEF C!Members
    <3>2. CASE x # e  BY <1>1, <1>3, <2>1, <3>2 DEF C!Members, C!Alive
    <3> QED BY <3>1, <3>2
  <2> QED BY <1>4, <2>1, <2>2
<1>10. ClocksSettled'  BY DEF ClocksSettled
<1> QED BY <1>5, <1>6, <1>8, <1>9, <1>10, BetweenTicks DEF ClocksInv

LEMMA ClockDespawnKeeps ==
  ASSUME ClocksDistinct, ClocksInv, NEW e \in Dial, C!Despawn(e) PROVE ClocksInv'
<1>1. /\ step = "game" /\ step' = "game" /\ acted' = TRUE /\ e \in C!Alive /\ e \notin forgot
      /\ dials' = C!Shown(e, watchers[e], {})
      /\ comp' = [comp EXCEPT ![e] = None] /\ sentClock' = [sentClock EXCEPT ![e] = None]
      /\ expected' = [expected EXCEPT ![e] = 0] /\ since' = [since EXCEPT ![e] = 0]
      /\ watchers' = [x \in Dial |-> IF x = e THEN {} ELSE watchers[x] \ watchers[e]]
      /\ forgot' = {x \in Dial \ {e} : watchers'[x] # watchers[x]} \cup (forgot \ {e})
      /\ UNCHANGED <<watching, todo, released>>
  BY DEF C!Despawn, C!Act, ClocksDistinct
<1>2. ClockTypes /\ AudiencesApart /\ BeforeTick /\ FrozenAnswered
  BY <1>1, BetweenTicks DEF ClocksInv
<1>3. /\ comp'[e] = None /\ sentClock'[e] = None /\ watchers'[e] = {}
      /\ \A x \in Dial \ {e} : /\ comp'[x] = comp[x] /\ sentClock'[x] = sentClock[x]
                                 /\ expected'[x] = expected[x]
                                 /\ watchers'[x] = watchers[x] \ watchers[e]
      /\ comp' \in [Dial -> ClockComponent \cup {None}] /\ sentClock' \in [Dial -> ClockMark \cup {None}]
      /\ expected' \in [Dial -> C!Time] /\ since' \in [Dial -> Nat]
      /\ watchers' \in [Dial -> SUBSET Solo]
  <2>1. 0 \in C!Time  BY DEF C!Time, ClocksDistinct
  <2> QED BY <1>1, <1>2, <2>1 DEF ClockTypes
<1>4. C!Alive' = C!Alive \ {e} /\ C!Alive \subseteq Dial  BY <1>3 DEF C!Alive
<1>5. /\ dials' \in [Solo -> ClockView]
      /\ \A q \in Solo \ watchers[e] : dials'[q] = dials[q]
      /\ \A q \in Solo \ watching : dials'[q] = dials[q]
      /\ \A q \in watching : SentFrozen(e) /\ q \in watchers[e] => \A c \in Clock : dials'[q][c].runs
      /\ \A q \in Solo : ~SentFrozen(e) => dials'[q] = dials[q]
  <2> DEFINE theirs == watchers[e]
             nobody == {}
             told == C!Shown(e, theirs, nobody)
  <2>1. watching \subseteq Solo /\ told = [q \in Solo |-> told[q]]  BY <1>2 DEF ClockTypes, C!Shown
  <2>2. ASSUME NEW q \in Solo PROVE TellsClock(told[q], e, theirs, nobody, q)
    <3> HIDE DEF theirs, nobody
    <3> QED BY <1>1, <1>2, ClockShownTo
  <2>3. dials' = told  BY <1>1
  <2> HIDE DEF told
  <2> QED BY <2>1, <2>2, <2>3 DEF TellsClock
<1>6. forgot' \subseteq C!Alive'
  <2>1. \A x \in Dial \ {e} : watchers'[x] # watchers[x] => x \in C!Alive
    BY <1>2, <1>3 DEF ClockTypes
  <2> QED BY <1>1, <1>2, <1>4, <2>1 DEF ClockTypes
<1>7. ClockTypes'
  <2>1. \A x \in Dial \ C!Alive' : watchers'[x] = {} /\ sentClock'[x] = None
    BY <1>2, <1>3, <1>4 DEF ClockTypes
  <2> QED BY <1>1, <1>2, <1>3, <1>4, <1>5, <1>6, <2>1 DEF ClockTypes
<1>8. AudiencesApart'
  <2>1. \A x \in C!Alive' : x \in C!Alive /\ comp'[x] = comp[x]  BY <1>3, <1>4
  <2> QED BY <1>2, <2>1 DEF AudiencesApart
<1>9. BeforeTick'
  <2> SUFFICES ASSUME NEW x \in C!Alive', NEW q \in watchers'[x] \cap watching
               PROVE  q \notin released /\ (\A y \in C!Alive' \ {x} : q \notin watchers'[y]) /\ HoldsClock(q, x)'
    BY <1>1 DEF BeforeTick
  <2>1. x \in C!Alive /\ x \in Dial \ {e} /\ q \in watchers[x] /\ q \notin watchers[e]  BY <1>3, <1>4
  <2>2. \A y \in C!Alive' \ {x} : y \in C!Alive /\ watchers'[y] \subseteq watchers[y]  BY <1>3, <1>4
  <2>3. dials'[q] = dials[q]  BY <1>2, <1>5, <2>1 DEF ClockTypes
  <2>4. ClockSynced(x)' <=> ClockSynced(x)  BY <1>1, BetweenTicks
  <2>5. HoldsClock(q, x)'  BY <1>2, <1>3, <2>1, <2>3, <2>4, HoldsClockOn DEF BeforeTick
  <2> QED BY <1>2, <2>1, <2>2, <2>5 DEF BeforeTick
<1>10. FrozenAnswered'
  <2> SUFFICES ASSUME NEW q \in watching, NEW c \in Clock, ~dials'[q][c].runs
               PROVE  \E x \in C!Alive' : q \in watchers'[x] \/ (x \in forgot' /\ q \in C!Members(x)')
    BY <1>1 DEF FrozenAnswered
  <2>1. q \in Solo  BY <1>2 DEF ClockTypes
  <2>2. q \notin watchers[e]
    <3> SUFFICES ASSUME q \in watchers[e] PROVE FALSE  OBVIOUS
    <3>1. HoldsClock(q, e) /\ ~ClockSynced(e)  BY <1>1, <1>2, BetweenTicks DEF BeforeTick
    <3>2. sentClock[e] # None /\ dials[q][c].runs = ~sentClock[e].frozen  BY <3>1 DEF HoldsClock
    <3>3. SentFrozen(e) \/ dials[q][c].runs  BY <3>2 DEF SentFrozen
    <3> QED BY <1>5, <2>1, <3>3
  <2>3. dials'[q] = dials[q]  BY <1>5, <2>1, <2>2
  <2>4. PICK x \in C!Alive : q \in watchers[x] \/ (x \in forgot /\ q \in C!Members(x))
    BY <1>2, <2>3 DEF FrozenAnswered
  <2>5. x # e  BY <1>1, <2>2, <2>4
  <2>6. C!Members(x)' = C!Members(x)  BY <1>1, <1>3, <1>4, <2>5 DEF C!Members
  <2>7. q \in watchers[x] => q \in watchers'[x]  BY <1>3, <1>4, <2>2, <2>5
  <2> QED BY <1>1, <1>4, <2>4, <2>5, <2>6, <2>7
<1>11. ClocksSettled'  BY <1>1 DEF ClocksSettled
<1> QED BY <1>1, <1>7, <1>8, <1>9, <1>10, <1>11, BetweenTicks DEF ClocksInv

-----------------------------------------------------------------------------
(* sync_world_time *)

LEMMA ClocksBeginKeep == ASSUME ClocksDistinct, ClocksInv, C!BeginTick PROVE ClocksInv'
<1>1. /\ step = "game" /\ step' = "explicit" /\ todo' = C!Explicit /\ released' = {}
      /\ UNCHANGED <<acted, watching, comp, sentClock, expected, since, watchers, forgot, dials>>
  BY DEF C!BeginTick, C!state
<1>2. C!Alive' = C!Alive /\ C!Explicit' = C!Explicit /\ C!Explicit \subseteq C!Alive  BY <1>1 DEF C!Alive, C!Explicit
<1>3. ClockTypes /\ AudiencesApart /\ BeforeTick /\ FrozenAnswered /\ ClocksSettled /\ \A e : ~ClockSynced(e)
  BY <1>1, BetweenTicks DEF ClocksInv
<1>4. \A e \in C!Alive : ~ClockSynced(e)'  BY <1>1 DEF ClockSynced, C!Explicit
<1>5. \A e : C!Members(e)' = C!Members(e) /\ C!Desired(e)' = C!Desired(e)
  BY <1>1, <1>2 DEF C!Members, C!Desired, C!Claimed
<1>6. ClockTypes'  BY <1>1, <1>2, <1>3 DEF ClockTypes
<1>7. AudiencesApart'  BY <1>1, <1>2, <1>3 DEF AudiencesApart
<1>8. BeforeSync'
  <2> SUFFICES ASSUME NEW e \in C!Alive, NEW p \in watchers[e] \cap watching
               PROVE  /\ p \notin released' /\ \A x \in C!Alive \ {e} : p \notin watchers[x]
                      /\ HoldsClock(p, e)'
    BY <1>1, <1>2 DEF BeforeSync
  <2>1. ClockSynced(e)' <=> ClockSynced(e)  BY <1>3, <1>4
  <2> QED BY <1>1, <1>3, <2>1, HoldsClockOn DEF BeforeTick
<1>9. AfterSync'  BY <1>2, <1>4 DEF AfterSync
<1>10. FrozenAnswered'  BY <1>1, <1>2, <1>3, <1>5 DEF FrozenAnswered
<1>11. ClocksSettled'  BY <1>1, <1>2, <1>3, <1>4, <1>5 DEF ClocksSettled
<1> QED BY <1>6, <1>7, <1>8, <1>9, <1>10, <1>11 DEF ClocksInv

(* Whom an explicit clock claims it answers for once the broad ones sync. *)
LEMMA ClaimedAnswered ==
  ASSUME ClockTypes, AfterSync, step \in {"broad", "done"}, NEW p \in C!Claimed
  PROVE  \E y \in C!Explicit : p \in C!Members(y) /\ (p \in watchers[y] \/ y \in forgot)
<1>1. PICK y \in C!Explicit : p \in C!Members(y)  BY DEF C!Claimed
<1>2. y \in C!Alive /\ comp[y].explicit /\ ClockSynced(y)  BY DEF ClockTypes, C!Explicit, ClockSynced
<1>3. C!Desired(y) = C!Members(y)  BY <1>2 DEF C!Desired
<1> QED BY <1>1, <1>2, <1>3 DEF AfterSync

LEMMA ClockPassKeeps ==
  ASSUME ClocksDistinct, ClocksInv, NEW from, NEW to, NEW pass, NEW rest,
         C!EndPass(from, to, pass, rest), pass \subseteq C!Alive,
         \A e \in C!Alive : e \in pass <=> InPass(e),
         \A e \in pass : ClockSynced(e), \A e \in C!Alive : ClockSynced(e)' <=> ClockSynced(e),
         rest \subseteq C!Alive, rest \cap C!Explicit = {}, to = "broad" \/ (to = "done" /\ rest = {})
  PROVE  ClocksInv'
<1>1. /\ step' = to /\ released' = {} /\ todo' = rest /\ watchers' = C!Forget(pass)
      /\ forgot' = forgot \cup {e \in Dial : watchers'[e] # watchers[e]}
      /\ UNCHANGED <<acted, watching, comp, sentClock, expected, since, dials>>
  BY DEF C!EndPass
<1>2. C!Alive' = C!Alive /\ C!Explicit' = C!Explicit /\ C!Alive \subseteq Dial  BY <1>1 DEF C!Alive, C!Explicit
<1>3. ClockTypes /\ AudiencesApart /\ BeforeSync /\ AfterSync /\ FrozenAnswered /\ ClocksSettled  BY DEF ClocksInv
<1>4. /\ watchers' \in [Dial -> SUBSET Solo]
      /\ \A e \in Dial : watchers'[e] \subseteq watchers[e]
      /\ \A e \in Dial \ pass : watchers'[e] = watchers[e]
      /\ \A e \in Dial : \A p \in watchers[e] : p \notin released => p \in watchers'[e]
      /\ \A e \in pass : watchers'[e] = watchers[e] \ released
  BY <1>1, <1>2, <1>3 DEF C!Forget, ClockTypes
<1>5. \A e : C!Members(e)' = C!Members(e) /\ C!Desired(e)' = C!Desired(e)
  BY <1>1, <1>2 DEF C!Members, C!Desired, C!Claimed
<1>6. ClockTypes'
  <2>1. forgot' \subseteq C!Alive  BY <1>1, <1>3, <1>4 DEF ClockTypes
  <2>2. \A e \in Dial \ C!Alive : watchers'[e] = {} /\ sentClock'[e] = None  BY <1>1, <1>3, <1>4 DEF ClockTypes
  <2> QED BY <1>1, <1>2, <1>3, <1>4, <2>1, <2>2 DEF ClockTypes
<1>7. AudiencesApart'  BY <1>1, <1>2, <1>3 DEF AudiencesApart
<1>8. \A e \in C!Alive : \A p : HoldsClock(p, e) => HoldsClock(p, e)'  BY <1>1, HoldsClockOn
<1>9. BeforeSync'
  <2> SUFFICES ASSUME NEW e \in C!Alive, ~ClockSynced(e), NEW p \in watchers'[e] \cap watching
               PROVE  /\ p \notin released'
                      /\ \A x \in C!Alive \ {e} : p \in watchers'[x] => ClockSynced(x)'
                      /\ HoldsClock(p, e)' \/ \E x \in C!Alive \ {e} : p \in watchers'[x]
    BY <1>1, <1>2 DEF BeforeSync
  <2>1. p \in watchers[e] \cap watching  BY <1>2, <1>4
  <2> QED BY <1>1, <1>2, <1>3, <1>4, <1>8, <2>1 DEF BeforeSync
<1>10. AfterSync'
  <2> SUFFICES ASSUME NEW e \in C!Alive, ClockSynced(e)
               PROVE  /\ sentClock[e] = [frozen |-> comp[e].frozen, clock |-> comp[e].clock]
                      /\ expected[e] = comp[e].time /\ watchers'[e] \subseteq C!Desired(e)
                      /\ watchers'[e] = C!Desired(e) \/ e \in forgot'
                      /\ \A p \in watchers'[e] : HoldsClock(p, e)'
    BY <1>1, <1>2, <1>5 DEF AfterSync
  <2>1. \A p \in watchers'[e] : HoldsClock(p, e)
    <3>1. CASE e \in pass  BY <1>3, <1>4, <3>1 DEF AfterSync
    <3>2. CASE e \notin pass  BY <1>2, <1>3, <1>4, <3>2 DEF AfterSync
    <3> QED BY <3>1, <3>2
  <2>2. watchers'[e] = watchers[e] \/ e \in forgot'  BY <1>1, <1>2
  <2> QED BY <1>1, <1>2, <1>3, <1>4, <1>8, <2>1, <2>2 DEF AfterSync
<1>11. FrozenAnswered'
  <2> SUFFICES ASSUME NEW p \in watching, NEW c \in Clock, ~dials[p][c].runs
               PROVE  \E e \in C!Alive : p \in watchers'[e] \/ (e \in forgot' /\ p \in C!Members(e))
    BY <1>1, <1>2, <1>5 DEF FrozenAnswered
  <2>1. PICK e \in C!Alive : p \in watchers[e] \/ (e \in forgot /\ p \in C!Members(e))
    BY <1>3 DEF FrozenAnswered
  <2>2. CASE e \in forgot /\ p \in C!Members(e)  BY <1>1, <2>2
  <2>3. CASE p \in watchers[e] /\ e \notin pass  BY <1>2, <1>4, <2>3
  <2>4. CASE p \in watchers[e] /\ e \in pass
    <3>1. p \in C!Members(e)  BY <1>3, <2>4, DesiredReady DEF AfterSync
    <3>2. watchers'[e] = watchers[e] \/ e \in forgot'  BY <1>1, <1>2
    <3> QED BY <2>4, <3>1, <3>2
  <2> QED BY <2>1, <2>2, <2>3, <2>4
<1>12. ClocksSettled'
  <2>1. ~acted => \A e \in C!Alive : watchers'[e] = watchers[e]  BY <1>2, <1>3, <1>4 DEF ClocksSettled
  <2> QED BY <1>1, <1>2, <1>3, <1>5, <2>1 DEF ClocksSettled
<1> QED BY <1>6, <1>7, <1>9, <1>10, <1>11, <1>12 DEF ClocksInv

LEMMA ClockPassesEndKeep == ASSUME ClocksDistinct, ClocksInv, C!EndExplicit \/ C!EndBroad PROVE ClocksInv'
<1>1. ClockTypes  BY DEF ClocksInv
<1>2. CASE C!EndExplicit
  <2>1. /\ C!EndPass("explicit", "broad", C!Explicit, C!Alive \ C!Explicit)
        /\ step = "explicit" /\ step' = "broad" /\ todo = {} /\ todo' = C!Alive \ C!Explicit /\ comp' = comp
    BY <1>2 DEF C!EndExplicit, C!EndPass
  <2>2. \A e \in C!Alive : e \in C!Explicit <=> InPass(e)  BY <2>1 DEF C!Explicit, InPass
  <2>3. \A e \in C!Explicit : ClockSynced(e)  BY <2>1 DEF C!Explicit, ClockSynced
  <2>4. \A e \in C!Alive : ClockSynced(e)' <=> ClockSynced(e)  BY <2>1 DEF C!Explicit, ClockSynced
  <2> DEFINE rest == C!Alive \ C!Explicit
  <2>5. C!Explicit \subseteq C!Alive /\ rest \subseteq C!Alive /\ rest \cap C!Explicit = {}  BY DEF C!Explicit
  <2>6. C!EndPass("explicit", "broad", C!Explicit, rest)  BY <2>1
  <2> HIDE DEF rest
  <2> QED BY <2>2, <2>3, <2>4, <2>5, <2>6, ClockPassKeeps
<1>3. CASE C!EndBroad
  <2>1. /\ C!EndPass("broad", "done", C!Alive \ C!Explicit, {})
        /\ step = "broad" /\ step' = "done" /\ todo = {} /\ comp' = comp
    BY <1>3 DEF C!EndBroad, C!EndPass
  <2>2. \A e \in C!Alive : e \in C!Alive \ C!Explicit <=> InPass(e)  BY <2>1 DEF C!Explicit, InPass
  <2>3. \A e \in C!Alive : ClockSynced(e) /\ ClockSynced(e)'  BY <2>1 DEF ClockSynced
  <2> DEFINE pass == C!Alive \ C!Explicit  rest == {}
  <2>4. pass \subseteq C!Alive /\ rest \subseteq C!Alive /\ rest \cap C!Explicit = {} /\ rest = {}  OBVIOUS
  <2>5. C!EndPass("broad", "done", pass, rest)  BY <2>1
  <2>6. \A e \in C!Alive : e \in pass <=> InPass(e)  BY <2>2
  <2>7. \A e \in pass : ClockSynced(e)  BY <2>3
  <2> HIDE DEF pass, rest
  <2> QED BY <2>3, <2>4, <2>5, <2>6, <2>7, ClockPassKeeps
<1> QED BY <1>2, <1>3

LEMMA ClockTickKeeps == ASSUME ClocksDistinct, ClocksInv, C!EndTick PROVE ClocksInv'
<1>1. /\ step = "done" /\ step' = "game" /\ acted' = FALSE
      /\ dials' = [p \in Solo |-> [c \in Clock |->
           IF dials[p][c].runs THEN [dials[p][c] EXCEPT !.time = C!Later(@)] ELSE dials[p][c]]]
      /\ UNCHANGED <<watching, comp, sentClock, expected, since, watchers, todo, released, forgot>>
  BY DEF C!EndTick, C!state
<1>2. C!Alive' = C!Alive /\ C!Explicit' = C!Explicit  BY <1>1 DEF C!Alive, C!Explicit
<1>3. ClockTypes /\ AudiencesApart /\ AfterSync /\ FrozenAnswered /\ ClocksSettled  BY DEF ClocksInv
<1>4. \A e : C!Members(e)' = C!Members(e) /\ C!Desired(e)' = C!Desired(e)
  BY <1>1, <1>2 DEF C!Members, C!Desired, C!Claimed
<1>5. /\ dials' \in [Solo -> ClockView]
      /\ \A p \in Solo : \A c \in Clock :
           /\ dials'[p][c].runs = dials[p][c].runs
           /\ dials'[p][c].time = IF dials[p][c].runs THEN C!Later(dials[p][c].time) ELSE dials[p][c].time
  <2> DEFINE new(p, c) == IF dials[p][c].runs THEN [dials[p][c] EXCEPT !.time = C!Later(@)] ELSE dials[p][c]
  <2>1. ASSUME NEW p \in Solo, NEW c \in Clock
        PROVE  /\ new(p, c) \in [time : C!Time, runs : BOOLEAN] /\ new(p, c).runs = dials[p][c].runs
               /\ new(p, c).time = IF dials[p][c].runs THEN C!Later(dials[p][c].time) ELSE dials[p][c].time
    <3>1. dials[p][c] \in [time : C!Time, runs : BOOLEAN] /\ dials[p][c].time \in C!Time
      BY <1>3 DEF ClockTypes, ClockView
    <3>2. C!Later(dials[p][c].time) \in C!Time  BY <3>1, LaterTime
    <3> QED BY <3>1, <3>2
  <2>2. dials' = [p \in Solo |-> [c \in Clock |-> new(p, c)]]  BY <1>1
  <2> HIDE DEF new
  <2>3. ASSUME NEW p \in Solo PROVE dials'[p] = [c \in Clock |-> new(p, c)]
    BY <2>2
  <2>4. ASSUME NEW p \in Solo PROVE dials'[p] \in ClockView
    BY <2>1, <2>3 DEF ClockView
  <2>5. ASSUME NEW p \in Solo, NEW c \in Clock PROVE dials'[p][c] = new(p, c)
    BY <2>3
  <2>6. dials' \in [Solo -> ClockView]  BY <2>2, <2>4
  <2>7. ASSUME NEW p \in Solo, NEW c \in Clock
        PROVE  /\ dials'[p][c].runs = dials[p][c].runs
               /\ dials'[p][c].time = IF dials[p][c].runs THEN C!Later(dials[p][c].time) ELSE dials[p][c].time
    <3>1. dials'[p][c] = new(p, c)  BY <2>5
    <3>2. /\ new(p, c).runs = dials[p][c].runs
          /\ new(p, c).time = IF dials[p][c].runs THEN C!Later(dials[p][c].time) ELSE dials[p][c].time
      BY <2>1
    <3> QED BY <3>1, <3>2
  <2> QED BY <2>6, <2>7
<1>6. ClockTypes'
  <2>1. \A p \in Solo \ watching : \A c \in Clock : dials'[p][c].runs  BY <1>3, <1>5 DEF ClockTypes
  <2>2. todo = {} /\ released = {}  BY <1>1, <1>3 DEF ClockTypes
  <2>3. dials' \in [Solo -> ClockView]  BY <1>5
  <2> QED BY ONLY <1>1, <1>2, <1>3, <2>1, <2>2, <2>3 DEF ClockTypes
<1>7. AudiencesApart'  BY <1>1, <1>2, <1>3 DEF AudiencesApart
<1>8. \A e \in C!Alive : ClockSynced(e)  BY <1>1 DEF ClockSynced
<1>9. BeforeTick'
  <2> SUFFICES ASSUME NEW e \in C!Alive, NEW p \in watchers[e] \cap watching
               PROVE  p \notin released /\ (\A x \in C!Alive \ {e} : p \notin watchers[x]) /\ HoldsClock(p, e)'
    BY <1>1, <1>2 DEF BeforeTick
  <2>1. released = {} /\ p \in Solo  BY <1>1, <1>3 DEF ClockTypes
  <2>2. \A x \in C!Alive \ {e} : p \notin watchers[x]  BY <1>3, <1>8, DesiredApart DEF AfterSync
  <2>3. HoldsClock(p, e)  BY <1>3, <1>8, <2>1 DEF AfterSync
  <2>4. ~ClockSynced(e)' /\ ClockSynced(e)  BY <1>1, <1>8 DEF ClockSynced
  <2>5. HoldsClock(p, e)'  BY <1>1, <1>5, <2>1, <2>3, <2>4 DEF HoldsClock
  <2> QED BY <2>1, <2>2, <2>5
<1>10. FrozenAnswered'
  <2>1. watching \subseteq Solo  BY <1>3 DEF ClockTypes
  <2> QED BY <1>1, <1>2, <1>3, <1>4, <1>5, <2>1 DEF FrozenAnswered
<1>11. ClocksSettled'
  <2>1. released = {}  BY <1>1, <1>3 DEF ClockTypes
  <2>2. \A e \in C!Alive : ~ClockSynced(e)' /\ watchers[e] \subseteq C!Desired(e)
    BY <1>1, <1>3, <1>8, BetweenTicks DEF AfterSync
  <2> QED BY <1>1, <1>2, <1>4, <2>1, <2>2 DEF ClocksSettled
<1> QED BY <1>1, <1>6, <1>7, <1>9, <1>10, <1>11, BetweenTicks DEF ClocksInv

LEMMA ClockSyncKeeps ==
  ASSUME ClocksDistinct, ClocksInv, NEW e \in Dial, C!Sync(e) PROVE ClocksInv'
<1> DEFINE D == C!Desired(e)
           G == C!Gone(e)
           S == IF C!Sends(e) THEN D ELSE D \ watchers[e]
<1>1. /\ step \in {"explicit", "broad"} /\ e \in todo /\ todo' = todo \ {e}
      /\ dials' = C!Shown(e, G, S)
      /\ watchers' = [watchers EXCEPT ![e] = D]
      /\ comp' = [comp EXCEPT ![e].time = C!Now(e)] /\ expected' = [expected EXCEPT ![e] = C!Now(e)]
      /\ released' = released \cup G /\ forgot' = forgot \ {e}
      /\ UNCHANGED <<step, acted, watching>>
      /\ C!Sends(e) => /\ sentClock' = [sentClock EXCEPT ![e] = [frozen |-> comp[e].frozen, clock |-> comp[e].clock]]
                     /\ since' = [since EXCEPT ![e] = 0]
      /\ ~C!Sends(e) => sentClock' = sentClock /\ since' = [since EXCEPT ![e] = C!Since(e)]
  BY DEF C!Sync
<1>2. ClockTypes /\ AudiencesApart /\ BeforeSync /\ AfterSync /\ FrozenAnswered /\ ClocksSettled  BY DEF ClocksInv
<1>3. e \in C!Alive /\ comp[e] \in ClockComponent /\ InPass(e) /\ ~ClockSynced(e)
  <2>1. e \in C!Alive /\ comp[e] \in ClockComponent  BY <1>1, <1>2 DEF ClockTypes, C!Alive
  <2>2. step = "explicit" => comp[e].explicit  BY <1>1, <1>2 DEF ClockTypes, C!Explicit
  <2>3. step = "broad" => ~comp[e].explicit  BY <1>1, <1>2, <2>1 DEF ClockTypes, C!Explicit
  <2> QED BY <1>1, <2>1, <2>2, <2>3 DEF InPass, ClockSynced
<1>4. C!Now(e) \in C!Time /\ C!Since(e) \in Nat
  <2>1. comp[e].time \in C!Time /\ since[e] \in Nat  BY <1>2, <1>3 DEF ClockComponent, ClockTypes
  <2> QED BY <2>1, LaterTime DEF C!Now, C!Since
<1>5. /\ comp' \in [Dial -> ClockComponent \cup {None}]
      /\ comp'[e] \in ClockComponent /\ comp'[e].time = C!Now(e) /\ comp'[e].frozen = comp[e].frozen
      /\ comp'[e].clock = comp[e].clock /\ comp'[e].explicit = comp[e].explicit
      /\ comp'[e].audience = comp[e].audience
      /\ \A x \in Dial \ {e} : comp'[x] = comp[x]
  <2> DEFINE new == [comp[e] EXCEPT !.time = C!Now(e)]
  <2>1. /\ new \in ClockComponent /\ new.time = C!Now(e) /\ new.frozen = comp[e].frozen
        /\ new.clock = comp[e].clock /\ new.explicit = comp[e].explicit
        /\ new.audience = comp[e].audience
    BY <1>3, <1>4 DEF ClockComponent
  <2>2. comp' = [comp EXCEPT ![e] = new] /\ comp \in [Dial -> ClockComponent \cup {None}]
    BY <1>1, <1>2 DEF ClockTypes
  <2> HIDE DEF new
  <2> QED BY <2>1, <2>2
<1>6. /\ C!Alive' = C!Alive /\ C!Explicit' = C!Explicit /\ C!Alive \subseteq Dial
      /\ \A x \in C!Alive : comp'[x].explicit = comp[x].explicit /\ comp'[x].audience = comp[x].audience
  <2>1. None \notin ClockComponent  BY DEF ClocksDistinct
  <2>2. C!Alive' = C!Alive /\ C!Alive \subseteq Dial  BY <1>3, <1>5, <2>1 DEF C!Alive
  <2>3. \A x \in C!Alive : comp'[x].explicit = comp[x].explicit /\ comp'[x].audience = comp[x].audience
    BY <1>5, <2>2
  <2> QED BY <2>2, <2>3 DEF C!Explicit
<1>7. \A x \in C!Alive : C!Members(x)' = C!Members(x) /\ C!Desired(x)' = C!Desired(x) /\ (InPass(x)' <=> InPass(x))
  <2>1. \A x \in C!Alive : C!Members(x)' = C!Members(x)  BY <1>1, <1>6 DEF C!Members
  <2>2. C!Claimed' = C!Claimed  BY <1>6, <2>1 DEF C!Claimed, C!Explicit
  <2> QED BY <1>1, <1>6, <2>1, <2>2 DEF C!Desired, InPass
<1>8. ClockSynced(e)' /\ \A x \in C!Alive \ {e} : ClockSynced(x)' <=> ClockSynced(x)
  BY <1>1, <1>3, <1>6 DEF ClockSynced, InPass
<1>9. /\ watchers' \in [Dial -> SUBSET Solo] /\ watchers'[e] = D /\ D \subseteq watching
      /\ G \subseteq watchers[e] /\ G \cap D = {} /\ S \subseteq D /\ watching \subseteq Solo
      /\ \A x \in Dial \ {e} : watchers'[x] = watchers[x]
  <2>1. D \subseteq watching /\ watching \subseteq Solo  BY <1>2, DesiredReady DEF ClockTypes
  <2>2. G \cap D = {}  BY DEF C!Gone, C!Desired
  <2> QED BY <1>1, <1>2, <2>1, <2>2 DEF ClockTypes, C!Gone
<1>10. /\ sentClock' \in [Dial -> ClockMark \cup {None}] /\ since' \in [Dial -> Nat]
       /\ sentClock'[e] = [frozen |-> comp[e].frozen, clock |-> comp[e].clock] /\ sentClock'[e] \in ClockMark
       /\ \A x \in Dial \ {e} : sentClock'[x] = sentClock[x]
       /\ expected' \in [Dial -> C!Time] /\ expected'[e] = C!Now(e)
       /\ \A x \in Dial \ {e} : expected'[x] = expected[x]
  <2> DEFINE mark == [frozen |-> comp[e].frozen, clock |-> comp[e].clock]
  <2>1. mark \in ClockMark  BY <1>3 DEF ClockComponent, ClockMark
  <2>2. CASE C!Sends(e)
    <3> HIDE DEF mark
    <3>1. sentClock' = [sentClock EXCEPT ![e] = mark] /\ since' = [since EXCEPT ![e] = 0]  BY <1>1, <2>2 DEF mark
    <3>2. sentClock'[e] = mark  BY <1>2, <3>1 DEF ClockTypes
    <3> QED BY <1>1, <1>2, <1>4, <2>1, <3>1, <3>2 DEF ClockTypes, mark
  <2>3. CASE ~C!Sends(e)
    <3>1. sentClock[e] # None /\ <<comp[e].frozen, comp[e].clock>> = <<sentClock[e].frozen, sentClock[e].clock>>
      BY <2>3 DEF C!Sends, C!Changed
    <3>2. sentClock[e] \in ClockMark  BY <1>2, <3>1 DEF ClockTypes
    <3>3. sentClock[e] = mark  BY <3>1, <3>2 DEF ClockMark
    <3> HIDE DEF mark
    <3> QED BY <1>1, <1>2, <1>4, <2>1, <2>3, <3>3 DEF ClockTypes, mark
  <2> QED BY <2>2, <2>3
<1>11. /\ dials' \in [Solo -> ClockView]
       /\ \A p \in Solo : TellsClock(dials'[p], e, G, S, p)
  <2> DEFINE told == C!Shown(e, G, S)
  <2>1. told = [p \in Solo |-> told[p]]  BY DEF C!Shown
  <2>2. ASSUME NEW p \in Solo PROVE TellsClock(told[p], e, G, S, p)
    <3> HIDE DEF G, S
    <3> QED BY <1>2, <1>3, ClockShownTo
  <2>3. dials' = told  BY <1>1
  <2> HIDE DEF told, G, S
  <2> QED BY <2>1, <2>2, <2>3 DEF TellsClock
<1>12. \A p \in Solo : p \notin D /\ (p \notin G \/ p \notin watching \/ ~SentFrozen(e)) => dials'[p] = dials[p]
  BY <1>9, <1>11 DEF TellsClock
<1> HIDE DEF D, G, S
<1>13. \A p \in D : HoldsClock(p, e)'
  <2> SUFFICES ASSUME NEW p \in D PROVE HoldsClock(p, e)'  OBVIOUS
  <2>1. p \in watching /\ p \in Solo  BY <1>9
  <2>2. comp[e].frozen \in BOOLEAN  BY <1>3 DEF ClockComponent
  <2>3. sentClock'[e] # None /\ sentClock'[e].frozen = comp[e].frozen  BY <1>10 DEF ClocksDistinct
  <2>4. SUFFICES \A c \in Clock : /\ dials'[p][c].runs = ~comp[e].frozen
                                 /\ dials'[p][c].time = comp[e].time
    <3>1. C!Now(e) = IF ~comp[e].frozen THEN C!Later(comp[e].time) ELSE comp[e].time  BY DEF C!Now
    <3> QED BY <1>8, <1>10, <2>3, <2>4, <3>1 DEF HoldsClock
  <2>5. CASE p \in S  BY <1>11, <2>1, <2>5 DEF TellsClock
  <2>6. CASE p \notin S
    <3>1. ~C!Sends(e) /\ p \in watchers[e]  BY <2>6 DEF S
    <3>2. /\ sentClock[e] # None /\ comp[e].time = expected[e]
          /\ <<comp[e].frozen, comp[e].clock>> = <<sentClock[e].frozen, sentClock[e].clock>>
      BY <3>1 DEF C!Sends, C!Changed
    <3>3. dials'[p] = dials[p]  BY <1>9, <1>11, <2>1, <2>6 DEF TellsClock
    <3>4. HoldsClock(p, e)
      <4>1. \A x \in C!Alive \ {e} : p \notin watchers[x]
        <5> SUFFICES ASSUME NEW x \in C!Alive \ {e}, p \in watchers[x] PROVE FALSE  OBVIOUS
        <5>1. ClockSynced(x)  BY <1>2, <1>3, <2>1, <3>1 DEF BeforeSync
        <5>2. p \in C!Desired(x)  BY <1>2, <5>1 DEF AfterSync
        <5> QED BY <1>2, <1>3, <5>2, DesiredApart DEF D
      <4> QED BY <1>2, <1>3, <2>1, <3>1, <4>1 DEF BeforeSync
    <3>5. \A c \in Clock : dials[p][c].runs = ~sentClock[e].frozen /\ dials[p][c].time = expected[e]
      BY <1>3, <3>4 DEF HoldsClock
    <3> QED BY <3>2, <3>3, <3>5
  <2> QED BY <2>5, <2>6
<1>14. ClockTypes'
  <2>1. \A x \in Dial \ C!Alive : watchers'[x] = {} /\ sentClock'[x] = None
    BY <1>2, <1>3, <1>9, <1>10 DEF ClockTypes
  <2>2. \A p \in Solo \ watching : dials'[p] = dials[p]  BY <1>9, <1>12
  <2> QED BY <1>1, <1>2, <1>5, <1>6, <1>9, <1>10, <1>11, <2>1, <2>2 DEF ClockTypes
<1>15. AudiencesApart'  BY <1>2, <1>6 DEF AudiencesApart
<1>16. BeforeSync'
  <2> SUFFICES ASSUME NEW x \in C!Alive, ~ClockSynced(x)', NEW p \in watchers'[x] \cap watching
               PROVE  /\ p \notin released'
                      /\ \A y \in C!Alive \ {x} : p \in watchers'[y] => ClockSynced(y)'
                      /\ HoldsClock(p, x)' \/ \E y \in C!Alive \ {x} : p \in watchers'[y]
    BY <1>1, <1>6 DEF BeforeSync
  <2>1. x # e /\ ~ClockSynced(x) /\ p \in watchers[x] /\ p \in watching /\ p \in Solo
    BY <1>6, <1>8, <1>9
  <2>2. p \notin watchers[e]  BY <1>2, <1>3, <2>1 DEF BeforeSync
  <2>3. p \notin released'  BY <1>1, <1>2, <1>9, <2>1, <2>2 DEF BeforeSync
  <2>4. \A y \in C!Alive \ {x} : p \in watchers'[y] => ClockSynced(y)'
    <3> SUFFICES ASSUME NEW y \in C!Alive \ {x}, p \in watchers'[y], y # e PROVE ClockSynced(y)'
      BY <1>8
    <3>1. p \in watchers[y]  BY <1>6, <1>9
    <3> QED BY <1>2, <1>8, <2>1, <3>1 DEF BeforeSync
  <2>5. CASE p \in D  BY <1>3, <1>9, <2>1, <2>3, <2>4, <2>5
  <2>6. CASE p \notin D
    <3>1. dials'[p] = dials[p]  BY <1>9, <1>12, <2>1, <2>2, <2>6
    <3>2. HoldsClock(p, x) => HoldsClock(p, x)'  BY <1>6, <1>8, <1>10, <2>1, <3>1, HoldsClockOn
    <3>3. \A y \in C!Alive \ {x} : p \in watchers[y] => p \in watchers'[y]  BY <1>6, <1>9, <2>2
    <3> QED BY <1>2, <2>1, <2>3, <2>4, <3>2, <3>3 DEF BeforeSync
  <2> QED BY <2>5, <2>6
<1>17. AfterSync'
  <2> SUFFICES ASSUME NEW x \in C!Alive, ClockSynced(x)'
               PROVE  /\ sentClock'[x] = [frozen |-> comp'[x].frozen, clock |-> comp'[x].clock]
                      /\ expected'[x] = comp'[x].time
                      /\ watchers'[x] \subseteq C!Desired(x)
                      /\ watchers'[x] = C!Desired(x) \/ x \in forgot'
                      /\ \A p \in watchers'[x] : HoldsClock(p, x)' \/ (InPass(x) /\ p \in released')
    BY <1>6, <1>7 DEF AfterSync
  <2>1. CASE x = e  BY <1>5, <1>9, <1>10, <1>13, <2>1 DEF D
  <2>2. CASE x # e
    <3>1. ClockSynced(x) /\ watchers'[x] = watchers[x] /\ comp'[x] = comp[x] /\ sentClock'[x] = sentClock[x]
          /\ expected'[x] = expected[x]
      BY <1>5, <1>6, <1>8, <1>9, <1>10, <2>2
    <3>2. ASSUME NEW p \in watchers[x] PROVE HoldsClock(p, x)' \/ (InPass(x) /\ p \in released')
      <4>1. p \in C!Desired(x)  BY <1>2, <3>1 DEF AfterSync
      <4>2. p \notin D  BY <1>2, <1>3, <2>2, <4>1, DesiredApart DEF D
      <4>3. p \in Solo  BY <1>2, <1>6 DEF ClockTypes
      <4>4. CASE p \in G
        <5>1. InPass(x)
          <6> SUFFICES ASSUME ~InPass(x) PROVE FALSE  OBVIOUS
          <6>1. step = "broad" /\ comp[x].explicit /\ ~comp[e].explicit
            BY <1>1, <1>3, <3>1 DEF InPass, ClockSynced
          <6>2. p \in C!Claimed  BY <4>1, <6>1 DEF C!Desired, C!Claimed, C!Explicit
          <6> QED BY <4>4, <6>1, <6>2 DEF G, C!Gone
        <5> QED BY <1>1, <4>4, <5>1
      <4>5. CASE p \notin G
        <5>1. dials'[p] = dials[p]  BY <1>12, <4>2, <4>3, <4>5
        <5>2. HoldsClock(p, x) => HoldsClock(p, x)'  BY <1>8, <2>2, <3>1, <5>1, HoldsClockOn
        <5> QED BY <1>1, <1>2, <3>1, <5>2 DEF AfterSync
      <4> QED BY <4>4, <4>5
    <3>3. x \in forgot => x \in forgot'  BY <1>1, <2>2
    <3> QED BY <1>2, <3>1, <3>2, <3>3 DEF AfterSync
  <2> QED BY <2>1, <2>2
<1>18. FrozenAnswered'
  <2> SUFFICES ASSUME NEW p \in watching, NEW c \in Clock, ~dials'[p][c].runs
               PROVE  \E x \in C!Alive : p \in watchers'[x] \/ (x \in forgot' /\ p \in C!Members(x))
    BY <1>1, <1>6, <1>7 DEF FrozenAnswered
  <2>1. p \in Solo  BY <1>9
  <2>2. CASE p \in D  BY <1>3, <1>9, <2>2
  <2>3. CASE p \notin D
    <3>1. p \notin G \/ ~SentFrozen(e)  BY <1>9, <1>11, <2>1, <2>3 DEF TellsClock
    <3>2. dials'[p] = dials[p]  BY <1>12, <2>1, <2>3, <3>1
    <3>3. PICK x \in C!Alive : p \in watchers[x] \/ (x \in forgot /\ p \in C!Members(x))
      BY <1>2, <3>2 DEF FrozenAnswered
    <3>4. CASE x # e
      <4>1. watchers'[x] = watchers[x] /\ (x \in forgot => x \in forgot')  BY <1>1, <1>6, <1>9, <3>4
      <4> QED BY <3>3, <4>1
    <3>5. CASE \E y \in C!Alive \ {e} : p \in watchers[y]  BY <1>6, <1>9, <3>5
    <3>6. CASE x = e /\ \A y \in C!Alive \ {e} : p \notin watchers[y]
      <4>1. p \in watchers[e] => p \notin G
        <5> SUFFICES ASSUME p \in watchers[e] PROVE SentFrozen(e)  BY <3>1
        <5>1. HoldsClock(p, e)  BY <1>2, <1>3, <3>6 DEF BeforeSync
        <5> QED BY <3>2, <5>1 DEF HoldsClock, SentFrozen
      <4>2. step = "broad" /\ p \in C!Claimed
        <5>1. CASE p \in watchers[e]
          <6>1. p \in IF comp[e].explicit THEN C!Members(e) ELSE C!Members(e) \cup C!Claimed
            BY <4>1, <5>1 DEF G, C!Gone
          <6> QED BY <1>1, <1>3, <2>3, <6>1 DEF D, C!Desired, InPass
        <5>2. CASE p \in C!Members(e)
          BY <1>1, <1>3, <2>3, <5>2 DEF D, C!Desired, InPass
        <5> QED BY <3>3, <3>6, <5>1, <5>2
      <4>3. PICK y \in C!Explicit : p \in C!Members(y) /\ (p \in watchers[y] \/ y \in forgot)
        BY <1>2, <4>2, ClaimedAnswered
      <4>4. y \in C!Alive /\ y # e
        BY <1>1, <1>2, <4>2, <4>3 DEF C!Explicit, ClockTypes
      <4>5. watchers'[y] = watchers[y] /\ (y \in forgot => y \in forgot')  BY <1>1, <1>6, <1>9, <4>4
      <4> QED BY <4>3, <4>4, <4>5
    <3> QED BY <3>4, <3>5, <3>6
  <2> QED BY <2>2, <2>3
<1>19. ClocksSettled'
  <2> SUFFICES ASSUME ~acted
               PROVE  /\ released' = {}
                      /\ \A x \in C!Alive : IF ClockSynced(x)' THEN watchers'[x] = C!Desired(x)
                                           ELSE watchers'[x] \subseteq C!Desired(x)
    BY <1>1, <1>6, <1>7 DEF ClocksSettled
  <2>1. watchers[e] \subseteq C!Desired(e)  BY <1>2, <1>3 DEF ClocksSettled
  <2>2. G = {}  BY <2>1 DEF G, C!Gone, C!Desired
  <2>3. released' = {}  BY <1>1, <1>2, <2>2 DEF ClocksSettled
  <2>4. \A x \in C!Alive \ {e} : watchers'[x] = watchers[x]  BY <1>6, <1>9
  <2> QED BY <1>2, <1>8, <1>9, <2>3, <2>4 DEF ClocksSettled, D
<1> QED BY <1>14, <1>15, <1>16, <1>17, <1>18, <1>19 DEF ClocksInv

-----------------------------------------------------------------------------
LEMMA ClockChangesKeep ==
  ASSUME ClocksDistinct, ClocksInv, NEW e \in Dial, NEW t \in C!Time, NEW f \in BOOLEAN,
         NEW c \in Clock, NEW x \in BOOLEAN, NEW who \in SUBSET Solo,
         C!Appear(e, t, f, c, x, who) \/ C!Change(e, t, f, c) \/ C!Readdress(e, x, who)
  PROVE  ClocksInv'
<1>1. step = "game" /\ step' = "game" /\ acted' = TRUE
      /\ UNCHANGED <<watching, C!state, todo, released, forgot, dials>>
  BY DEF C!Appear, C!Change, C!Readdress, C!Act
<1>2. ClockTypes /\ AudiencesApart  BY DEF ClocksInv
<1>3. CASE C!Appear(e, t, f, c, x, who)
  <2> DEFINE new == [time |-> t, frozen |-> f, clock |-> c, explicit |-> x, audience |-> who]
  <2>1. /\ new \in ClockComponent /\ comp' = [comp EXCEPT ![e] = new] /\ e \notin C!Alive
        /\ C!Apart(e, new.explicit, new.audience)
    BY <1>3 DEF C!Appear, ClockComponent, C!Alive
  <2> HIDE DEF new
  <2> QED BY <1>1, <2>1, ClockComponentKeeps
<1>4. CASE C!Change(e, t, f, c)
  <2> DEFINE new == [comp[e] EXCEPT !.time = t, !.frozen = f, !.clock = c]
  <2>1. e \in C!Alive /\ comp' = [comp EXCEPT ![e] = new]  BY <1>4 DEF C!Change
  <2>2. comp[e] \in ClockComponent  BY <1>2, <2>1 DEF ClockTypes, C!Alive
  <2>3. new \in ClockComponent /\ new.explicit = comp[e].explicit /\ new.audience = comp[e].audience
    BY <2>2 DEF ClockComponent
  <2> HIDE DEF new
  <2>4. C!Apart(e, new.explicit, new.audience)  BY <1>2, <2>1, <2>3 DEF C!Apart, AudiencesApart
  <2> QED BY <1>1, <2>1, <2>3, <2>4, ClockComponentKeeps
<1>5. CASE C!Readdress(e, x, who)
  <2> DEFINE new == [comp[e] EXCEPT !.explicit = x, !.audience = who]
  <2>1. e \in C!Alive /\ e \notin forgot /\ C!Apart(e, x, who)
        /\ comp' = [comp EXCEPT ![e].explicit = x, ![e].audience = who]
    BY <1>5 DEF C!Readdress, ClocksDistinct
  <2>2. comp[e] \in ClockComponent /\ comp \in [Dial -> ClockComponent \cup {None}]
    BY <1>2, <2>1 DEF ClockTypes, C!Alive
  <2>3. new \in ClockComponent /\ new.explicit = x /\ new.audience = who
    BY <2>2 DEF ClockComponent
  <2>4. comp' = [comp EXCEPT ![e] = new]  BY <2>1, <2>2
  <2> HIDE DEF new
  <2> QED BY <1>1, <2>1, <2>3, <2>4, ClockComponentKeeps
<1> QED BY <1>3, <1>4, <1>5

LEMMA ClocksIdle == ASSUME ClocksInv, UNCHANGED C!vars PROVE ClocksInv'
<1>1. UNCHANGED <<step, acted, watching, comp, sentClock, expected, since, watchers, todo, released, forgot, dials>>
  BY DEF C!vars, C!state
<1>2. /\ C!Alive' = C!Alive /\ C!Explicit' = C!Explicit /\ C!Claimed' = C!Claimed
      /\ \A e : /\ C!Members(e)' = C!Members(e) /\ C!Desired(e)' = C!Desired(e)
                /\ ClockSynced(e)' = ClockSynced(e) /\ InPass(e)' = InPass(e)
                /\ \A p : HoldsClock(p, e)' = HoldsClock(p, e)
  BY <1>1 DEF C!Alive, C!Explicit, C!Claimed, C!Members, C!Desired, ClockSynced, InPass, HoldsClock
<1>3. ClockTypes' = ClockTypes /\ AudiencesApart' = AudiencesApart /\ ClocksSettled' = ClocksSettled
  BY <1>1, <1>2 DEF ClockTypes, AudiencesApart, ClocksSettled
<1>4. BeforeSync' = BeforeSync /\ AfterSync' = AfterSync  BY <1>1, <1>2 DEF BeforeSync, AfterSync
<1>5. FrozenAnswered' = FrozenAnswered  BY <1>1, <1>2 DEF FrozenAnswered
<1> QED BY <1>3, <1>4, <1>5 DEF ClocksInv

LEMMA ClocksKeep == ASSUME ClocksDistinct PROVE ClocksInv /\ [C!Next]_C!vars => ClocksInv'
<1> SUFFICES ASSUME ClocksInv, [C!Next]_C!vars PROVE ClocksInv'  OBVIOUS
<1>1. ASSUME NEW p \in Solo, C!GetReady(p) \/ C!Leave(p) PROVE ClocksInv'
  BY <1>1, WatcherReadyKeeps, WatcherLeavesKeeps
<1>2. ASSUME NEW e \in Dial, C!Despawn(e) \/ C!Sync(e) PROVE ClocksInv'
  BY <1>2, ClockDespawnKeeps, ClockSyncKeeps
<1>3. 0 \in C!Time  BY DEF ClocksDistinct, C!Time
<1>4. ASSUME NEW e \in Dial, NEW t \in C!Time, NEW f \in BOOLEAN, NEW c \in Clock,
             \/ C!Change(e, t, f, c)
             \/ \E x \in BOOLEAN, who \in SUBSET Solo : C!Appear(e, t, f, c, x, who)
      PROVE  ClocksInv'
  BY <1>4, ClockChangesKeep
<1>5. ASSUME NEW e \in Dial, NEW x \in BOOLEAN, NEW who \in SUBSET Solo, C!Readdress(e, x, who)
      PROVE  ClocksInv'
  <2>1. PICK c \in Clock : TRUE
    <3>1. e \in C!Alive  BY <1>5 DEF C!Readdress
    <3> QED BY <3>1 DEF ClocksInv, ClockTypes, C!Alive, ClockComponent
  <2> QED BY <1>3, <1>5, <2>1, ClockChangesKeep
<1>6. CASE C!Game  BY <1>1, <1>2, <1>4, <1>5, <1>6 DEF C!Game
<1>7. CASE C!Tick  BY <1>2, <1>7, ClocksBeginKeep, ClockPassesEndKeep, ClockTickKeeps DEF C!Tick
<1>8. CASE UNCHANGED C!vars  BY <1>8, ClocksIdle
<1> QED BY <1>6, <1>7, <1>8 DEF C!Next

LEMMA ClocksShow == ASSUME ClocksDistinct, ClocksInv PROVE C!ClocksShown
<1> SUFFICES ASSUME step = "done"
             PROVE  /\ ~acted => \A e \in C!Alive : watchers[e] = C!Desired(e)
                    /\ \A p \in watching, c \in Clock :
                         /\ C!Covering(p, c) = {} => dials[p][c].runs
                         /\ \A e \in C!Covering(p, c) : p \in watchers[e] =>
                              /\ dials[p][c].runs = ~comp[e].frozen
                              /\ comp[e].time = IF dials[p][c].runs THEN C!Later(dials[p][c].time)
                                                ELSE dials[p][c].time
  BY DEF C!ClocksShown
<1>1. ClockTypes /\ AfterSync /\ FrozenAnswered /\ ClocksSettled /\ \A e : ClockSynced(e)  BY DEF ClocksInv, ClockSynced
<1>2. ~acted => \A e \in C!Alive : watchers[e] = C!Desired(e)  BY <1>1 DEF ClocksSettled
<1>3. ASSUME NEW p \in watching, NEW c \in Clock, ~dials[p][c].runs PROVE C!Covering(p, c) # {}
  <2>1. PICK e \in C!Alive : p \in watchers[e] \/ (e \in forgot /\ p \in C!Members(e))
    BY <1>1, <1>3 DEF FrozenAnswered
  <2>2. \A x \in C!Alive : comp[x].clock = c  BY <1>1 DEF ClocksDistinct, ClockTypes, C!Alive, ClockComponent
  <2>3. p \in watchers[e] => p \in C!Desired(e)  BY <1>1 DEF AfterSync
  <2>4. p \in C!Members(e) => p \in C!Desired(e) \/ p \in C!Claimed  BY DEF C!Desired
  <2>5. p \in C!Claimed => \E y \in C!Alive : p \in C!Desired(y)  BY DEF C!Claimed, C!Desired, C!Explicit
  <2> QED BY <2>1, <2>2, <2>3, <2>4, <2>5 DEF C!Covering
<1>4. ASSUME NEW p \in watching, NEW c \in Clock, NEW e \in C!Covering(p, c), p \in watchers[e]
      PROVE  /\ dials[p][c].runs = ~comp[e].frozen
             /\ comp[e].time = IF dials[p][c].runs THEN C!Later(dials[p][c].time) ELSE dials[p][c].time
  <2>1. e \in C!Alive  BY DEF C!Covering
  <2>2. HoldsClock(p, e)
    <3>1. ~InPass(e)  BY DEF InPass
    <3> QED BY <1>1, <1>4, <2>1, <3>1 DEF AfterSync
  <2>3. sentClock[e].frozen = comp[e].frozen /\ expected[e] = comp[e].time
    <3>1. ClockSynced(e)  BY <1>1
    <3>2. sentClock[e] = [frozen |-> comp[e].frozen, clock |-> comp[e].clock] /\ expected[e] = comp[e].time
      BY <1>1, <2>1, <3>1 DEF AfterSync
    <3> QED BY <3>2
  <2> QED BY <1>1, <2>2, <2>3 DEF HoldsClock
<1> QED BY <1>2, <1>3, <1>4

-----------------------------------------------------------------------------
(***************************************************************************)
(* Blocks and predictions: once a client's actions are all answered and it *)
(* has read everything, it expects nothing and shows the blocks of its     *)
(* dimension as they are.                                                  *)
(***************************************************************************)

BlockKinds == Block \cup {Air}
Hotbar == [selected : I!Item, items : SUBSET I!Item]
Expectation == [seq : Nat, was : BlockKinds]
Showing == [shown : [Cell -> BlockKinds], expects : [Cell -> Expectation \cup {None}], seq : Nat,
            hotbar : Hotbar]
SentAction == [kind : {"use", "start", "finish"}, seq : Nat, cell : Cell]
SentUp == SentAction \cup [kind : {"select"}, item : I!Item] \cup [kind : {"drop"}]
Word == [kind : {"ack"}, seq : Nat] \cup [kind : {"world"}, blocks : [Cell -> BlockKinds]]
          \cup [kind : {"block"}, cell : Cell, block : BlockKinds]
QueuedAction ==
  [player : Player, seq : Nat, cell : Cell, breaks : BOOLEAN, hand : I!Item \cup {None}]
BlockChange == [cell : Cell, block : BlockKinds]

(* What is absent is none of what is there, and survival clients have to dig:  *)
(* the server has no answer to a block that breaks at the first touch.         *)
ItemsDistinct ==
  /\ None \notin Expectation /\ None \notin BlockChange /\ I!Item # {} /\ Start \in Dim
  /\ Creative \/ ~Instant

-----------------------------------------------------------------------------
(* The inductive invariant *)

UseTypes ==
  /\ present \subseteq Player /\ dim \in [Player -> Dim] /\ hotbar \in [Player -> Hotbar]
  /\ queue \in Seq(QueuedAction) /\ world \in [Dim -> [Cell -> BlockKinds]]
  /\ client \in [Player -> Showing]
  /\ up \in [Player -> Seq(SentUp)] /\ down \in [Player -> Seq(Word)]

(* What the server last said of a cell, as a client has it. *)
Heard(cl, c) == IF cl.expects[c] = None THEN cl.shown[c] ELSE cl.expects[c].was

(* What a packet says of a cell. *)
Says(m, c) == m.kind = "world" \/ (m.kind = "block" /\ m.cell = c)
Said(m, c) == IF m.kind = "world" THEN m.blocks[c] ELSE m.block

(* A client that heard b of a cell has v once it has read all of dn. *)
Ends(b, dn, c, v) ==
  \/ b = v /\ \A k \in 1..Len(dn) : ~Says(dn[k], c)
  \/ \E k \in 1..Len(dn) : /\ Says(dn[k], c) /\ Said(dn[k], c) = v
                           /\ \A j \in 1..Len(dn) : j > k => ~Says(dn[j], c)

(* Whoever reads the packet no longer expects what action n should do. *)
Settles(m, n) == m.kind = "world" \/ (m.kind = "ack" /\ m.seq >= n)

(* Clients will have heard of every block as it is. *)
BlocksHeard ==
  \A p \in present : \A c \in Cell : Ends(Heard(client[p], c), down[p], c, world[dim[p]][c])

(* What a client expects will be answered: the answer, the action in the    *)
(* queue or the packet is on its way.                                       *)
Awaited(p, n, dn, ups, actions) ==
  \/ \E k \in 1..Len(dn) : Settles(dn[k], n)
  \/ \E k \in 1..Len(ups) : I!Queues(ups[k]) /\ ups[k].seq >= n
  \/ \E k \in 1..Len(actions) : actions[k].player = p /\ actions[k].seq >= n

Answering ==
  \A p \in present : \A c \in Cell :
    client[p].expects[c] # None =>
      Awaited(p, client[p].expects[c].seq, down[p], up[p], queue)

UseInv == UseTypes /\ BlocksHeard /\ Answering

-----------------------------------------------------------------------------
(* Packets on their way to a client *)

LEMMA AppendSays ==
  ASSUME NEW dn \in Seq(Word), NEW m \in Word, NEW c, NEW b, NEW v, Ends(b, dn, c, v)
  PROVE  Ends(b, Append(dn, m), c, IF Says(m, c) THEN Said(m, c) ELSE v)
<1> DEFINE more == Append(dn, m)
<1>1. /\ Len(more) = Len(dn) + 1 /\ Len(dn) \in Nat /\ more[Len(dn) + 1] = m
      /\ \A k \in 1..Len(dn) : more[k] = dn[k]
  OBVIOUS
<1> HIDE DEF more
<1>2. 1..Len(more) = 1..Len(dn) \cup {Len(dn) + 1} /\ Len(dn) + 1 \notin 1..Len(dn)
      /\ \A j \in 1..Len(more) : ~(j > Len(dn) + 1)
      /\ \A k \in 1..Len(dn) : k < Len(dn) + 1
  BY <1>1
<1>3. CASE Says(m, c)
  <2>1. Says(more[Len(dn) + 1], c) /\ Said(more[Len(dn) + 1], c) = Said(m, c)  BY <1>1, <1>3
  <2>2. Ends(b, more, c, Said(m, c))  BY <1>2, <2>1 DEF Ends
  <2> QED BY <1>3, <2>2 DEF more
<1>4. CASE ~Says(m, c)
  <2>1. Ends(b, more, c, v)  BY <1>1, <1>2, <1>4 DEF Ends
  <2> QED BY <1>4, <2>1 DEF more
<1> QED BY <1>3, <1>4

LEMMA ReadSays ==
  ASSUME NEW dn \in Seq(Word), dn # <<>>, NEW c, NEW b, NEW v, NEW b2, Ends(b, dn, c, v),
         b2 = IF Says(Head(dn), c) THEN Said(Head(dn), c) ELSE b
  PROVE  Ends(b2, Tail(dn), c, v)
<1> DEFINE rest == Tail(dn)
<1>1. /\ Len(dn) \in Nat \ {0} /\ Len(rest) = Len(dn) - 1 /\ Head(dn) = dn[1]
      /\ \A k \in 1..Len(rest) : rest[k] = dn[k + 1]
  OBVIOUS
<1> HIDE DEF rest
<1>2. /\ Len(rest) \in Nat /\ 1 \in 1..Len(dn)
      /\ \A k \in 1..Len(rest) : k + 1 \in 1..Len(dn) /\ k + 1 > 1
      /\ \A k \in 1..Len(dn) : k # 1 => k - 1 \in 1..Len(rest) /\ (k - 1) + 1 = k /\ k > 1
  BY <1>1
<1>3. CASE b = v /\ \A k \in 1..Len(dn) : ~Says(dn[k], c)
  <2>1. b2 = v /\ \A k \in 1..Len(rest) : ~Says(rest[k], c)  BY <1>1, <1>2, <1>3
  <2> QED BY <2>1 DEF Ends, rest
<1>4. ASSUME NEW k \in 1..Len(dn), Says(dn[k], c), Said(dn[k], c) = v,
             \A j \in 1..Len(dn) : j > k => ~Says(dn[j], c)
      PROVE  Ends(b2, rest, c, v)
  <2>1. CASE k = 1
    <3>1. b2 = v  BY <1>1, <1>4, <2>1
    <3>2. \A j \in 1..Len(rest) : ~Says(rest[j], c)  BY <1>1, <1>2, <1>4, <2>1
    <3> QED BY <3>1, <3>2 DEF Ends
  <2>2. CASE k # 1
    <3>1. k - 1 \in 1..Len(rest) /\ rest[k - 1] = dn[k]  BY <1>1, <1>2, <2>2
    <3>2. ASSUME NEW j \in 1..Len(rest), j > k - 1 PROVE ~Says(rest[j], c)
      <4>1. j + 1 \in 1..Len(dn) /\ j + 1 > k  BY <1>1, <1>2, <3>2
      <4> QED BY <1>1, <1>4, <4>1
    <3> QED BY <1>4, <3>1, <3>2 DEF Ends
  <2> QED BY <2>1, <2>2
<1> QED BY <1>3, <1>4 DEF Ends, rest

(* A change of a block is told. *)
LEMMA MutateSays ==
  ASSUME ItemsDistinct, NEW acc \in [blocks : [Cell -> BlockKinds], told : Seq(Word)],
         NEW change \in BlockChange \cup {None}, NEW dn \in Seq(Word), NEW b,
         \A c \in Cell : Ends(b[c], dn \o acc.told, c, acc.blocks[c])
  PROVE  /\ I!Mutate(acc, change) \in [blocks : [Cell -> BlockKinds], told : Seq(Word)]
         /\ \A c \in Cell : Ends(b[c], dn \o I!Mutate(acc, change).told, c, I!Mutate(acc, change).blocks[c])
<1>1. CASE change = None \/ acc.blocks[change.cell] = change.block
  BY <1>1 DEF I!Mutate
<1>2. CASE ~(change = None \/ acc.blocks[change.cell] = change.block)
  <2> DEFINE x == change.cell
             m == [kind |-> "block", cell |-> x, block |-> change.block]
             blocks == [acc.blocks EXCEPT ![x] = change.block]
             told == Append(acc.told, m)
  <2>1. x \in Cell /\ change.block \in BlockKinds  BY <1>2 DEF BlockChange
  <2>2. m \in Word  BY <2>1 DEF Word
  <2>3. m.kind = "block" /\ m.cell = x /\ m.block = change.block  OBVIOUS
  <2>4. I!Mutate(acc, change) = [blocks |-> blocks, told |-> told]  BY <1>2 DEF I!Mutate
  <2> HIDE DEF m
  <2>5. blocks \in [Cell -> BlockKinds] /\ told \in Seq(Word) /\ acc.told \in Seq(Word)  BY <2>1, <2>2
  <2>6. dn \o told = Append(dn \o acc.told, m) /\ dn \o acc.told \in Seq(Word)  BY <2>2, <2>5
  <2>7. ASSUME NEW c \in Cell
        PROVE  Ends(b[c], dn \o told, c, blocks[c])
    <3>1. blocks[c] = IF Says(m, c) THEN Said(m, c) ELSE acc.blocks[c]
      BY <2>1, <2>3 DEF Says, Said
    <3>2. Ends(b[c], Append(dn \o acc.told, m), c, IF Says(m, c) THEN Said(m, c) ELSE acc.blocks[c])
      BY <2>2, <2>6, AppendSays
    <3> HIDE DEF blocks, told
    <3> QED BY <2>6, <3>1, <3>2
  <2> HIDE DEF blocks, told
  <2>8. I!Mutate(acc, change).blocks = blocks /\ I!Mutate(acc, change).told = told  BY <2>4
  <2> QED BY <2>4, <2>5, <2>7, <2>8
<1> QED BY <1>1, <1>2

-----------------------------------------------------------------------------
(* What clients do *)

LEMMA UseStart == ASSUME ItemsDistinct, I!Init PROVE UseInv
<1>1. I!FullHotbar \in Hotbar  BY DEF ItemsDistinct, I!FullHotbar, Hotbar
<1>2. Air \in BlockKinds /\ 0 \in Nat  BY DEF BlockKinds
<1>3. world \in [Dim -> [Cell -> BlockKinds]]  BY <1>2 DEF I!Init
<1>4. world[Start] \in [Cell -> BlockKinds]  BY <1>3 DEF ItemsDistinct
<1>5. I!Expects \in [Cell -> Expectation \cup {None}] /\ \A c \in Cell : I!Expects[c] = None
  BY DEF I!Expects
<1>6. client \in [Player -> Showing]
      /\ \A p \in Player : client[p].shown = world[Start] /\ client[p].expects = I!Expects
  BY <1>1, <1>2, <1>4, <1>5 DEF I!Init, Showing
<1>7. UseTypes
  <2>1. /\ present \subseteq Player /\ dim \in [Player -> Dim] /\ hotbar \in [Player -> Hotbar]
    BY <1>1 DEF I!Init, ItemsDistinct
  <2>2. queue \in Seq(QueuedAction) /\ up \in [Player -> Seq(SentUp)] /\ down \in [Player -> Seq(Word)]
    <3>1. \A S : <<>> \in Seq(S)  OBVIOUS
    <3> QED BY <3>1 DEF I!Init
  <2> QED BY <1>3, <1>6, <2>1, <2>2 DEF UseTypes
<1>8. BlocksHeard
  <2>1. \A p \in present : p \in Player /\ down[p] = <<>> /\ dim[p] = Start  BY DEF I!Init
  <2> QED BY <1>5, <1>6, <2>1 DEF BlocksHeard, Ends, Heard
<1>9. Answering  BY <1>5, <1>6 DEF Answering, I!Init
<1> QED BY <1>7, <1>8, <1>9 DEF UseInv

(* A client shows something and sends a packet about it. *)
LEMMA SendKeeps ==
  ASSUME ItemsDistinct, UseInv, NEW p \in present, NEW cl \in Showing, NEW m \in SentUp,
         client' = [client EXCEPT ![p] = cl], I!Sends(p, m),
         UNCHANGED <<present, dim, hotbar, queue, world, down>>,
         \A c \in Cell : Heard(cl, c) = Heard(client[p], c),
         \A c \in Cell : cl.expects[c] # None =>
           \/ cl.expects[c] = client[p].expects[c]
           \/ I!Queues(m) /\ m.seq >= cl.expects[c].seq
  PROVE  UseInv'
<1>1. UseTypes /\ BlocksHeard /\ Answering /\ p \in Player  BY DEF UseInv, UseTypes
<1>2. up' = [up EXCEPT ![p] = Append(up[p], m)]  BY DEF I!Sends
<1>3. /\ client' \in [Player -> Showing] /\ client'[p] = cl
      /\ \A q \in Player \ {p} : client'[q] = client[q]
  BY <1>1 DEF UseTypes
<1>4. /\ up' \in [Player -> Seq(SentUp)] /\ up'[p] = Append(up[p], m) /\ up[p] \in Seq(SentUp)
      /\ \A q \in Player \ {p} : up'[q] = up[q]
  BY <1>1, <1>2 DEF UseTypes
<1>5. /\ Len(up'[p]) = Len(up[p]) + 1 /\ Len(up[p]) \in Nat /\ up'[p][Len(up[p]) + 1] = m
      /\ \A k \in 1..Len(up[p]) : up'[p][k] = up[p][k]
  BY <1>4
<1>6. /\ Len(up[p]) + 1 \in 1..Len(up'[p]) /\ \A k \in 1..Len(up[p]) : k \in 1..Len(up'[p])
  BY <1>5
<1>7. UseTypes'  BY <1>1, <1>3, <1>4 DEF UseTypes
<1>8. BlocksHeard'
  <2> SUFFICES ASSUME NEW q \in present, NEW c \in Cell
               PROVE  Ends(Heard(client'[q], c), down[q], c, world[dim[q]][c])
    BY DEF BlocksHeard
  <2>1. Heard(client'[q], c) = Heard(client[q], c)
    <3>1. q \in Player  BY <1>1 DEF UseTypes
    <3> QED BY <1>3, <3>1
  <2>2. Ends(Heard(client[q], c), down[q], c, world[dim[q]][c])  BY <1>1 DEF BlocksHeard
  <2> QED BY <2>1, <2>2
<1>9. ASSUME NEW q \in Player, NEW n, Awaited(q, n, down[q], up[q], queue)
      PROVE  Awaited(q, n, down[q], up'[q], queue)
  <2>1. CASE q = p  BY <1>4, <1>5, <1>6, <1>9, <2>1 DEF Awaited
  <2>2. CASE q # p  BY <1>4, <1>9, <2>2 DEF Awaited
  <2> QED BY <2>1, <2>2
<1>10. ASSUME NEW q \in present, NEW c \in Cell, client'[q].expects[c] # None
       PROVE  Awaited(q, client'[q].expects[c].seq, down[q], up'[q], queue)
  <2>1. q \in Player  BY <1>1 DEF UseTypes
  <2>2. CASE client'[q].expects[c] = client[q].expects[c]
    BY <1>1, <1>9, <1>10, <2>1, <2>2 DEF Answering
  <2>3. CASE client'[q].expects[c] # client[q].expects[c]
    <3>1. q = p /\ I!Queues(m) /\ m.seq >= client'[q].expects[c].seq
      BY <1>3, <1>10, <2>1, <2>3
    <3> QED BY <1>5, <1>6, <3>1 DEF Awaited
  <2> QED BY <2>2, <2>3
<1>11. Answering'  BY <1>10 DEF Answering
<1> QED BY <1>7, <1>8, <1>11 DEF UseInv

(* What is predicted is remembered beside what was heard. *)
LEMMA PredictedSays ==
  ASSUME ItemsDistinct, NEW cl \in Showing, NEW c \in Cell, NEW b \in BlockKinds, NEW n \in Nat
  PROVE  /\ I!Predicted(cl, c, b, n) \in Showing
         /\ \A x \in Cell : Heard(I!Predicted(cl, c, b, n), x) = Heard(cl, x)
         /\ I!Predicted(cl, c, b, n).expects[c].seq = n
         /\ \A x \in Cell \ {c} : I!Predicted(cl, c, b, n).expects[x] = cl.expects[x]
<1> DEFINE e == [seq |-> n, was |-> IF cl.expects[c] = None THEN cl.shown[c] ELSE cl.expects[c].was]
           looks == [cl.shown EXCEPT ![c] = b]
           expects == [cl.expects EXCEPT ![c] = e]
<1>1. /\ cl.shown \in [Cell -> BlockKinds] /\ cl.expects \in [Cell -> Expectation \cup {None}]
      /\ cl.hotbar \in Hotbar
      /\ cl = [shown |-> cl.shown, expects |-> cl.expects, seq |-> cl.seq, hotbar |-> cl.hotbar]
  BY DEF Showing
<1>2. (IF cl.expects[c] = None THEN cl.shown[c] ELSE cl.expects[c].was) \in BlockKinds
  <2>1. cl.expects[c] # None => cl.expects[c] \in Expectation  BY <1>1
  <2>2. cl.expects[c] # None => cl.expects[c].was \in BlockKinds  BY <2>1 DEF Expectation
  <2> QED BY <1>1, <2>2
<1>3. e \in Expectation /\ e.seq = n /\ e.was = Heard(cl, c)  BY <1>2 DEF Expectation, Heard
<1>4. I!Predicted(cl, c, b, n) = [shown |-> looks, expects |-> expects, seq |-> n, hotbar |-> cl.hotbar]
  <2> DEFINE pre == I!Predicted(cl, c, b, n)
  <2>1. DOMAIN pre = {"shown", "expects", "seq", "hotbar"}  BY <1>1 DEF I!Predicted
  <2>2. pre.shown = looks  BY <1>1 DEF I!Predicted
  <2>3. pre.expects = expects  BY <1>1 DEF I!Predicted
  <2>4. pre.seq = n /\ pre.hotbar = cl.hotbar  BY <1>1 DEF I!Predicted
  <2>5. pre = [x \in DOMAIN pre |-> pre[x]]  BY DEF I!Predicted
  <2> HIDE DEF pre, looks, expects
  <2>6. pre = [shown |-> looks, expects |-> expects, seq |-> n, hotbar |-> cl.hotbar]
    BY <2>1, <2>2, <2>3, <2>4, <2>5
  <2> QED BY <2>6 DEF pre
<1> HIDE DEF e
<1>5. /\ looks \in [Cell -> BlockKinds] /\ expects \in [Cell -> Expectation \cup {None}]
      /\ expects[c] = e /\ \A x \in Cell \ {c} : expects[x] = cl.expects[x] /\ looks[x] = cl.shown[x]
  BY <1>1, <1>3
<1> HIDE DEF looks, expects
<1>6. I!Predicted(cl, c, b, n).expects = expects /\ I!Predicted(cl, c, b, n).shown = looks  BY <1>4
<1>7. I!Predicted(cl, c, b, n) \in Showing  BY <1>1, <1>4, <1>5 DEF Showing
<1>8. e # None  BY <1>3 DEF ItemsDistinct
<1> QED BY <1>3, <1>5, <1>6, <1>7, <1>8 DEF Heard

LEMMA UsesKeep ==
  ASSUME ItemsDistinct, UseInv, NEW p \in Player, NEW c \in Cell, I!ClientUses(p, c)
  PROVE  UseInv'
<1> DEFINE cl == client[p]
           n == cl.seq + 1
           i == I!Held(cl.hotbar)
           m == [kind |-> "use", seq |-> n, cell |-> c]
           after == IF i \in Block /\ cl.shown[c] = Air
                    THEN I!Predicted(cl, c, i, n) ELSE [cl EXCEPT !.seq = n]
<1>1. cl \in Showing /\ p \in present  BY DEF UseInv, UseTypes, I!ClientUses
<1>2. n \in Nat /\ cl.seq \in Nat  BY <1>1 DEF Showing
<1>3. m \in SentUp /\ I!Queues(m) /\ m.seq = n  BY <1>2 DEF SentUp, SentAction, I!Queues
<1>4. /\ client' = [client EXCEPT ![p] = after] /\ I!Sends(p, m)
      /\ UNCHANGED <<present, dim, hotbar, queue, world, down>>
  BY DEF I!ClientUses
<1> HIDE DEF m
<1>5. CASE i \in Block /\ cl.shown[c] = Air
  <2>1. i \in BlockKinds /\ after = I!Predicted(cl, c, i, n)  BY <1>5 DEF BlockKinds
  <2> HIDE DEF cl, n, i, after
  <2>2. /\ after \in Showing
        /\ \A x \in Cell : Heard(after, x) = Heard(cl, x)
        /\ after.expects[c].seq = n
        /\ \A x \in Cell \ {c} : after.expects[x] = cl.expects[x]
    BY <1>1, <1>2, <2>1, PredictedSays
  <2>3. \A x \in Cell : after.expects[x] # None =>
          after.expects[x] = cl.expects[x] \/ (I!Queues(m) /\ m.seq >= after.expects[x].seq)
    BY <1>2, <1>3, <2>2
  <2> USE DEF cl
  <2> QED BY <1>1, <1>3, <1>4, <2>2, <2>3, SendKeeps
<1>6. CASE ~(i \in Block /\ cl.shown[c] = Air)
  <2>1. after = [cl EXCEPT !.seq = n]  BY <1>6
  <2> HIDE DEF after
  <2>2. after \in Showing /\ after.expects = cl.expects /\ after.shown = cl.shown
    BY <1>1, <1>2, <2>1 DEF Showing
  <2>3. \A x \in Cell : Heard(after, x) = Heard(cl, x) /\ after.expects[x] = cl.expects[x]
    BY <2>2 DEF Heard
  <2> QED BY <1>1, <1>3, <1>4, <2>2, <2>3, SendKeeps
<1> QED BY <1>5, <1>6

(* Here it matters that a survival client digs: its start of a break is not queued. *)
LEMMA BreaksKeep ==
  ASSUME ItemsDistinct, UseInv, NEW p \in Player, NEW c \in Cell, I!ClientBreaks(p, c)
  PROVE  UseInv'
<1> DEFINE cl == client[p]
           n == cl.seq + 1
           after == I!Predicted(cl, c, Air, n)
<1>1. cl \in Showing /\ p \in present  BY DEF UseInv, UseTypes, I!ClientBreaks
<1>2. n \in Nat /\ cl.seq \in Nat  BY <1>1 DEF Showing
<1>3. PICK kind \in {"start", "finish"} :
        I!Sends(p, [kind |-> kind, seq |-> n, cell |-> c]) /\ (kind = "finish" \/ Creative)
  BY DEF I!ClientBreaks, ItemsDistinct
<1> DEFINE m == [kind |-> kind, seq |-> n, cell |-> c]
<1>4. m \in SentUp /\ I!Queues(m) /\ m.seq = n  BY <1>2, <1>3 DEF SentUp, SentAction, I!Queues
<1>5. /\ client' = [client EXCEPT ![p] = after] /\ I!Sends(p, m)
      /\ UNCHANGED <<present, dim, hotbar, queue, world, down>>
  BY <1>3 DEF I!ClientBreaks
<1>6. Air \in BlockKinds  BY DEF BlockKinds
<1> HIDE DEF m, cl, n
<1>7. /\ after \in Showing
      /\ \A x \in Cell : Heard(after, x) = Heard(cl, x)
      /\ after.expects[c].seq = n
      /\ \A x \in Cell \ {c} : after.expects[x] = cl.expects[x]
  BY <1>1, <1>2, <1>6, PredictedSays
<1> HIDE DEF after
<1>8. \A x \in Cell : after.expects[x] # None =>
        after.expects[x] = cl.expects[x] \/ (I!Queues(m) /\ m.seq >= after.expects[x].seq)
  BY <1>2, <1>4, <1>7
<1> USE DEF cl
<1> QED BY <1>1, <1>4, <1>5, <1>7, <1>8, SendKeeps

(* Both tell of a hotbar the client has changed, and leave what it shows. *)
LEMMA HandlesKeep ==
  ASSUME ItemsDistinct, UseInv, NEW p \in Player,
         (\E i \in I!Item : I!ClientSelects(p, i)) \/ I!ClientDrops(p)
  PROVE  UseInv'
<1>1. p \in present /\ client[p] \in Showing
  BY DEF UseInv, UseTypes, I!ClientSelects, I!ClientDrops
<1>2. client[p].hotbar \in Hotbar  BY <1>1 DEF Showing
<1>3. PICK bar \in Hotbar, m \in SentUp :
        /\ client' = [client EXCEPT ![p].hotbar = bar] /\ I!Sends(p, m)
        /\ UNCHANGED <<present, dim, hotbar, queue, world, down>>
  <2>1. CASE \E i \in I!Item : I!ClientSelects(p, i)
    <3>1. PICK i \in I!Item : I!ClientSelects(p, i)  BY <2>1
    <3>2. I!Select(client[p].hotbar, i) \in Hotbar  BY <1>2 DEF I!Select, Hotbar
    <3>3. [kind |-> "select", item |-> i] \in SentUp  BY DEF SentUp
    <3> QED BY <3>1, <3>2, <3>3 DEF I!ClientSelects
  <2>2. CASE I!ClientDrops(p)
    <3>1. I!DropHeld(client[p].hotbar) \in Hotbar  BY <1>2 DEF I!DropHeld, Hotbar
    <3>2. [kind |-> "drop"] \in SentUp  BY DEF SentUp
    <3> QED BY <2>2, <3>1, <3>2 DEF I!ClientDrops
  <2> QED BY <2>1, <2>2
<1> DEFINE after == [client[p] EXCEPT !.hotbar = bar]
<1>4. /\ after \in Showing /\ after.expects = client[p].expects /\ after.shown = client[p].shown
      /\ client' = [client EXCEPT ![p] = after]
  BY <1>1, <1>3 DEF Showing
<1> HIDE DEF after
<1>5. \A x \in Cell : Heard(after, x) = Heard(client[p], x) /\ after.expects[x] = client[p].expects[x]
  BY <1>4 DEF Heard
<1> QED BY <1>1, <1>3, <1>4, <1>5, SendKeeps

(* An acknowledgement ends expectations, and shows what was heard. *)
LEMMA AcknowledgedSays ==
  ASSUME ItemsDistinct, NEW cl \in Showing, NEW n \in Nat
  PROVE  /\ I!Acknowledged(cl, n) \in Showing
         /\ \A c \in Cell : Heard(I!Acknowledged(cl, n), c) = Heard(cl, c)
         /\ \A c \in Cell : I!Acknowledged(cl, n).expects[c] # None =>
              I!Acknowledged(cl, n).expects[c] = cl.expects[c] /\ ~(cl.expects[c].seq <= n)
<1> DEFINE over == {c \in Cell : cl.expects[c] # None /\ cl.expects[c].seq <= n}
           looks == [c \in Cell |-> IF c \in over THEN cl.expects[c].was ELSE cl.shown[c]]
           expects == [c \in Cell |-> IF c \in over THEN None ELSE cl.expects[c]]
           after == [cl EXCEPT !.shown = looks, !.expects = expects]
<1>1. /\ cl.shown \in [Cell -> BlockKinds] /\ cl.expects \in [Cell -> Expectation \cup {None}]
      /\ \A c \in Cell : cl.expects[c] # None => cl.expects[c].was \in BlockKinds
  <2>1. cl.shown \in [Cell -> BlockKinds] /\ cl.expects \in [Cell -> Expectation \cup {None}]
    BY DEF Showing
  <2>2. \A c \in Cell : cl.expects[c] # None => cl.expects[c].was \in BlockKinds
    BY <2>1 DEF Expectation
  <2> QED BY <2>1, <2>2
<1>2. I!Acknowledged(cl, n) = after  BY DEF I!Acknowledged
<1>3. looks \in [Cell -> BlockKinds] /\ expects \in [Cell -> Expectation \cup {None}]  BY <1>1
<1>4. \A c \in Cell : /\ c \in over <=> cl.expects[c] # None /\ cl.expects[c].seq <= n
                      /\ c \in over => expects[c] = None /\ looks[c] = cl.expects[c].was
                      /\ c \notin over => expects[c] = cl.expects[c] /\ looks[c] = cl.shown[c]
  OBVIOUS
<1> HIDE DEF looks, expects, over
<1>5. after \in Showing /\ after.shown = looks /\ after.expects = expects  BY <1>3 DEF Showing
<1> HIDE DEF after
<1>6. \A c \in Cell : Heard(after, c) = Heard(cl, c)  BY <1>4, <1>5 DEF Heard
<1>7. \A c \in Cell : after.expects[c] # None =>
        after.expects[c] = cl.expects[c] /\ ~(cl.expects[c].seq <= n)
  BY <1>4, <1>5
<1> QED BY <1>2, <1>5, <1>6, <1>7

LEMMA ReadsKeep ==
  ASSUME ItemsDistinct, UseInv, NEW p \in Player, I!ClientReads(p)
  PROVE  UseInv'
<1> DEFINE cl == client[p]
           m == Head(down[p])
           after == client'[p]
<1>1. /\ UseTypes /\ BlocksHeard /\ Answering /\ p \in present
      /\ cl \in Showing /\ down[p] \in Seq(Word) /\ down[p] # <<>>
  BY DEF UseInv, UseTypes, I!ClientReads
<1>2. m \in Word  BY <1>1
<1>3. /\ down' = [down EXCEPT ![p] = Tail(@)]
      /\ UNCHANGED <<present, dim, hotbar, queue, world, up>>
  BY DEF I!ClientReads
<1>4. /\ cl.shown \in [Cell -> BlockKinds] /\ cl.expects \in [Cell -> Expectation \cup {None}]
  BY <1>1 DEF Showing
<1>5. /\ client' = [client EXCEPT ![p] = after] /\ after \in Showing
      /\ \A c \in Cell : Heard(after, c) = IF Says(m, c) THEN Said(m, c) ELSE Heard(cl, c)
      /\ \A c \in Cell : after.expects[c] # None =>
           /\ cl.expects[c] # None /\ after.expects[c].seq = cl.expects[c].seq
           /\ ~Settles(m, cl.expects[c].seq)
  <2>1. CASE m.kind = "ack"
    <3>1. client' = [client EXCEPT ![p] = I!Acknowledged(cl, m.seq)]
      BY <2>1, Zenon DEF I!ClientReads
    <3>2. after = I!Acknowledged(cl, m.seq)  BY <1>1, <3>1 DEF UseTypes
    <3>3. m.seq \in Nat /\ \A c \in Cell : ~Says(m, c)  BY <1>2, <2>1 DEF Word, Says
    <3> HIDE DEF m, cl, after
    <3>4. /\ after \in Showing /\ \A c \in Cell : Heard(after, c) = Heard(cl, c)
          /\ \A c \in Cell : after.expects[c] # None =>
               after.expects[c] = cl.expects[c] /\ ~(cl.expects[c].seq <= m.seq)
      BY <1>1, <3>2, <3>3, AcknowledgedSays
    <3>5. \A c \in Cell : after.expects[c] # None => ~Settles(m, cl.expects[c].seq)
      <4> SUFFICES ASSUME NEW c \in Cell, after.expects[c] # None
                   PROVE  ~Settles(m, cl.expects[c].seq)
        OBVIOUS
      <4>1. cl.expects[c] \in Expectation /\ ~(cl.expects[c].seq <= m.seq)  BY <1>4, <3>4
      <4>2. cl.expects[c].seq \in Nat  BY <4>1 DEF Expectation
      <4> QED BY <2>1, <3>3, <4>1, <4>2 DEF Settles
    <3> QED BY <3>1, <3>2, <3>3, <3>4, <3>5
  <2>2. CASE m.kind = "world"
    <3>1. client' = [client EXCEPT ![p] = [cl EXCEPT !.shown = m.blocks, !.expects = I!Expects, !.seq = 0]]
      BY <2>2, Zenon DEF I!ClientReads
    <3>2. after = [cl EXCEPT !.shown = m.blocks, !.expects = I!Expects, !.seq = 0]
      BY <1>1, <3>1 DEF UseTypes
    <3>3. m.blocks \in [Cell -> BlockKinds]  BY <1>2, <2>2 DEF Word
    <3> HIDE DEF m, cl, after
    <3>4. I!Expects \in [Cell -> Expectation \cup {None}] /\ \A c \in Cell : I!Expects[c] = None
      BY DEF I!Expects
    <3>5. after \in Showing /\ after.shown = m.blocks /\ after.expects = I!Expects
      BY <1>1, <3>2, <3>3, <3>4 DEF Showing
    <3>6. \A c \in Cell : Says(m, c) /\ Said(m, c) = m.blocks[c]  BY <2>2 DEF Says, Said
    <3> QED BY <3>1, <3>2, <3>4, <3>5, <3>6 DEF Heard
  <2>3. CASE m.kind = "block"
    <3>1. m.cell \in Cell /\ m.block \in BlockKinds  BY <1>2, <2>3 DEF Word
    <3>2. \A c \in Cell : (Says(m, c) <=> m.cell = c) /\ Said(m, c) = m.block
                          /\ \A n : ~Settles(m, n)
      BY <2>3 DEF Says, Said, Settles
    <3>3. CASE cl.expects[m.cell] = None
      <4>1. client' = [client EXCEPT ![p] = [cl EXCEPT !.shown[m.cell] = m.block]]
        BY <2>3, <3>3, Zenon DEF I!ClientReads
      <4>2. after = [cl EXCEPT !.shown[m.cell] = m.block]  BY <1>1, <4>1 DEF UseTypes
      <4> HIDE DEF m, cl, after
      <4>3. /\ after \in Showing /\ after.shown = [cl.shown EXCEPT ![m.cell] = m.block]
            /\ after.expects = cl.expects
        BY <1>1, <1>4, <3>1, <4>2 DEF Showing
      <4> QED BY <1>4, <3>1, <3>2, <3>3, <4>1, <4>2, <4>3 DEF Heard
    <3>4. CASE cl.expects[m.cell] # None
      <4>1. client' = [client EXCEPT ![p] = [cl EXCEPT !.expects[m.cell].was = m.block]]
        BY <2>3, <3>4, Zenon DEF I!ClientReads
      <4>2. after = [cl EXCEPT !.expects[m.cell].was = m.block]  BY <1>1, <4>1 DEF UseTypes
      <4> HIDE DEF m, cl, after
      <4> DEFINE e == cl.expects[m.cell]
                 e2 == [e EXCEPT !.was = m.block]
                 expects == [cl.expects EXCEPT ![m.cell] = e2]
      <4>3. e \in Expectation  BY <1>4, <3>1, <3>4
      <4>4. e2 \in Expectation /\ e2.was = m.block /\ e2.seq = e.seq
        BY <3>1, <4>3 DEF Expectation
      <4>5. after = [cl EXCEPT !.expects = expects]  BY <4>2
      <4> HIDE DEF e2
      <4>6. /\ expects \in [Cell -> Expectation \cup {None}] /\ expects[m.cell] = e2
            /\ \A c \in Cell \ {m.cell} : expects[c] = cl.expects[c]
        BY <1>4, <3>1, <4>4
      <4> HIDE DEF expects
      <4>7. after \in Showing /\ after.shown = cl.shown /\ after.expects = expects
        BY <1>1, <4>5, <4>6 DEF Showing
      <4>8. e2 # None  BY <4>4 DEF ItemsDistinct
      <4>9. \A c \in Cell : Heard(after, c) = IF Says(m, c) THEN Said(m, c) ELSE Heard(cl, c)
        BY <3>2, <4>4, <4>6, <4>7, <4>8 DEF Heard
      <4>10. \A c \in Cell : after.expects[c] # None =>
               cl.expects[c] # None /\ after.expects[c].seq = cl.expects[c].seq
        BY <3>1, <3>4, <4>4, <4>6, <4>7
      <4> QED BY <3>2, <4>1, <4>2, <4>7, <4>9, <4>10
    <3> QED BY <3>3, <3>4
  <2> QED BY <1>2, <2>1, <2>2, <2>3 DEF Word
<1> HIDE DEF after
<1>6. UseTypes'
  <2>1. down' \in [Player -> Seq(Word)]  BY <1>1, <1>3 DEF UseTypes
  <2>2. client' \in [Player -> Showing]  BY <1>1, <1>5 DEF UseTypes
  <2> QED BY <1>1, <1>3, <2>1, <2>2 DEF UseTypes
<1>7. /\ client'[p] = after /\ down'[p] = Tail(down[p])
      /\ \A q \in Player \ {p} : client'[q] = client[q] /\ down'[q] = down[q]
  BY <1>1, <1>3, <1>5 DEF UseTypes
<1>8. BlocksHeard'
  <2> SUFFICES ASSUME NEW q \in present, NEW c \in Cell
               PROVE  Ends(Heard(client'[q], c), down'[q], c, world[dim[q]][c])
    BY <1>3 DEF BlocksHeard
  <2>1. q \in Player /\ Ends(Heard(client[q], c), down[q], c, world[dim[q]][c])
    BY <1>1 DEF BlocksHeard, UseTypes
  <2>2. CASE q = p
    <3>1. Heard(after, c) = IF Says(m, c) THEN Said(m, c) ELSE Heard(cl, c)  BY <1>5
    <3>2. Ends(Heard(after, c), Tail(down[p]), c, world[dim[p]][c])
      BY <1>1, <2>1, <2>2, <3>1, ReadSays
    <3> QED BY <1>7, <2>2, <3>2
  <2>3. CASE q # p  BY <1>7, <2>1, <2>3
  <2> QED BY <2>2, <2>3
<1>9. Answering'
  <2> SUFFICES ASSUME NEW q \in present, NEW c \in Cell, client'[q].expects[c] # None
               PROVE  Awaited(q, client'[q].expects[c].seq, down'[q], up[q], queue)
    BY <1>3 DEF Answering
  <2>1. q \in Player  BY <1>1 DEF UseTypes
  <2>2. CASE q = p
    <3> DEFINE n == cl.expects[c].seq
    <3>1. after.expects[c].seq = n /\ ~Settles(m, n) /\ cl.expects[c] # None  BY <1>5, <1>7, <2>2
    <3> HIDE DEF n
    <3>2. Awaited(p, n, down[p], up[p], queue)  BY <1>1, <3>1 DEF Answering, n
    <3>3. ASSUME NEW k \in 1..Len(down[p]), Settles(down[p][k], n)
          PROVE  \E j \in 1..Len(Tail(down[p])) : Settles(Tail(down[p])[j], n)
      <4>1. k # 1  BY <1>1, <3>1, <3>3
      <4>2. k - 1 \in 1..Len(Tail(down[p])) /\ Tail(down[p])[k - 1] = down[p][k]  BY <1>1, <4>1
      <4> QED BY <3>3, <4>2
    <3>4. Awaited(p, n, Tail(down[p]), up[p], queue)  BY <3>2, <3>3 DEF Awaited
    <3> QED BY <1>7, <2>2, <3>1, <3>4
  <2>3. CASE q # p  BY <1>1, <1>7, <2>1, <2>3 DEF Answering
  <2> QED BY <2>2, <2>3
<1> QED BY <1>6, <1>8, <1>9 DEF UseInv

-----------------------------------------------------------------------------
(* What the server does *)

LEMMA HeldTypes == ASSUME NEW bar \in Hotbar PROVE I!Held(bar) \in I!Item \cup {None}
BY DEF I!Held, Hotbar

LEMMA ReceiveKeeps ==
  ASSUME ItemsDistinct, UseInv, NEW p \in Player, I!Receive(p)
  PROVE  UseInv'
<1> DEFINE m == Head(up[p])
           action == [player |-> p, seq |-> m.seq, cell |-> m.cell,
                      breaks |-> m.kind # "use", hand |-> I!Held(hotbar[p])]
<1>1. /\ UseTypes /\ BlocksHeard /\ Answering /\ p \in present
      /\ up[p] \in Seq(SentUp) /\ up[p] # <<>> /\ hotbar[p] \in Hotbar
  BY DEF UseInv, UseTypes, I!Receive
<1>2. m \in SentUp  BY <1>1
<1>3. /\ up' = [up EXCEPT ![p] = Tail(@)]
      /\ queue' = IF I!Queues(m) THEN Append(queue, action) ELSE queue
      /\ UNCHANGED <<present, dim, world, client, down>>
  BY DEF I!Receive
<1>4. hotbar' \in [Player -> Hotbar]
  <2>1. CASE m.kind = "select"
    <3>1. hotbar' = [hotbar EXCEPT ![p] = I!Select(@, m.item)]  BY <2>1, Zenon DEF I!Receive
    <3>2. m.item \in I!Item  BY <1>2, <2>1 DEF SentUp, SentAction
    <3>3. I!Select(hotbar[p], m.item) \in Hotbar  BY <1>1, <3>2 DEF I!Select, Hotbar
    <3> QED BY <1>1, <3>1, <3>3 DEF UseTypes
  <2>2. CASE m.kind = "drop"
    <3>1. hotbar' = [hotbar EXCEPT ![p] = I!DropHeld(@)]  BY <2>2, Zenon DEF I!Receive
    <3>2. I!DropHeld(hotbar[p]) \in Hotbar  BY <1>1 DEF I!DropHeld, Hotbar
    <3> QED BY <1>1, <3>1, <3>2 DEF UseTypes
  <2>3. CASE m.kind # "select" /\ m.kind # "drop"
    <3>1. hotbar' = [hotbar EXCEPT ![p] = @]  BY <2>3, Zenon DEF I!Receive
    <3> QED BY <1>1, <3>1 DEF UseTypes
  <2> QED BY <2>1, <2>2, <2>3
<1>5. I!Queues(m) => /\ action \in QueuedAction /\ m.seq \in Nat
                     /\ action.player = p /\ action.seq = m.seq
  <2>1. I!Queues(m) => m \in SentAction  BY <1>2 DEF I!Queues, SentUp
  <2>2. I!Held(hotbar[p]) \in I!Item \cup {None}  BY <1>1, HeldTypes
  <2> QED BY <2>1, <2>2 DEF SentAction, QueuedAction
<1> HIDE DEF action
<1>6. queue \in Seq(QueuedAction) /\ queue' \in Seq(QueuedAction)
  BY <1>1, <1>3, <1>5 DEF UseTypes
<1>7. /\ \A k \in 1..Len(queue) : k \in 1..Len(queue') /\ queue'[k] = queue[k]
      /\ I!Queues(m) => Len(queue) + 1 \in 1..Len(queue') /\ queue'[Len(queue) + 1] = action
  BY <1>3, <1>5, <1>6
<1>8. /\ up' \in [Player -> Seq(SentUp)] /\ up'[p] = Tail(up[p])
      /\ \A q \in Player \ {p} : up'[q] = up[q]
  BY <1>1, <1>3 DEF UseTypes
<1>9. UseTypes'  BY <1>1, <1>3, <1>4, <1>6, <1>8 DEF UseTypes
<1>10. BlocksHeard'  BY <1>1, <1>3 DEF BlocksHeard
<1>11. Answering'
  <2> SUFFICES ASSUME NEW q \in present, NEW c \in Cell, client[q].expects[c] # None
               PROVE  Awaited(q, client[q].expects[c].seq, down[q], up'[q], queue')
    BY <1>3 DEF Answering
  <2> DEFINE n == client[q].expects[c].seq
  <2>1. q \in Player /\ Awaited(q, n, down[q], up[q], queue)
    BY <1>1 DEF Answering, UseTypes
  <2> HIDE DEF n
  <2>2. ASSUME NEW k \in 1..Len(up[q]), I!Queues(up[q][k]), up[q][k].seq >= n
        PROVE  Awaited(q, n, down[q], up'[q], queue')
    <3>1. CASE q # p  BY <1>8, <2>1, <2>2, <3>1 DEF Awaited
    <3>2. CASE q = p /\ k = 1
      <4>1. up[q][k] = m  BY <1>1, <3>2
      <4>2. /\ Len(queue) + 1 \in 1..Len(queue') /\ queue'[Len(queue) + 1].player = q
            /\ queue'[Len(queue) + 1].seq >= n
        BY <1>5, <1>7, <2>2, <3>2, <4>1
      <4> QED BY <4>2 DEF Awaited
    <3>3. CASE q = p /\ k # 1
      <4>1. k - 1 \in 1..Len(Tail(up[p])) /\ Tail(up[p])[k - 1] = up[p][k]  BY <1>1, <2>2, <3>3
      <4> QED BY <1>8, <2>2, <3>3, <4>1 DEF Awaited
    <3> QED BY <3>1, <3>2, <3>3
  <2>3. ASSUME NEW k \in 1..Len(queue), queue[k].player = q, queue[k].seq >= n
        PROVE  Awaited(q, n, down[q], up'[q], queue')
    BY <1>7, <2>3 DEF Awaited
  <2>4. Awaited(q, n, down[q], up'[q], queue')  BY <2>1, <2>2, <2>3 DEF Awaited
  <2> QED BY <2>4 DEF n
<1> QED BY <1>9, <1>10, <1>11 DEF UseInv

LEMMA QuitKeeps ==
  ASSUME ItemsDistinct, UseInv, NEW p \in Player, I!Quit(p)
  PROVE  UseInv'
<1>1. UseTypes /\ BlocksHeard /\ Answering  BY DEF UseInv
<1>2. /\ present' = present \ {p} /\ up' = [up EXCEPT ![p] = <<>>] /\ down' = [down EXCEPT ![p] = <<>>]
      /\ UNCHANGED <<dim, hotbar, queue, world, client>>
  BY DEF I!Quit
<1>3. \A q \in present' : q \in present /\ q \in Player /\ up'[q] = up[q] /\ down'[q] = down[q]
  BY <1>1, <1>2 DEF UseTypes
<1>4. UseTypes'
  <2>1. \A S : <<>> \in Seq(S)  OBVIOUS
  <2> QED BY <1>1, <1>2, <2>1 DEF UseTypes
<1>5. BlocksHeard'  BY <1>1, <1>2, <1>3 DEF BlocksHeard
<1>6. Answering'  BY <1>1, <1>2, <1>3 DEF Answering
<1> QED BY <1>4, <1>5, <1>6 DEF UseInv

LEMMA WordsAssociate ==
  ASSUME NEW a \in Seq(Word), NEW b \in Seq(Word), NEW c \in Seq(Word)
  PROVE  a \o (b \o c) = (a \o b) \o c
OBVIOUS

LEMMA LongerWords ==
  ASSUME NEW a \in Seq(Word), NEW b \in Seq(Word)
  PROVE  /\ a \o b \in Seq(Word)
         /\ \A k \in 1..Len(b) : Len(a) + k \in 1..Len(a \o b) /\ (a \o b)[Len(a) + k] = b[k]
         /\ \A m \in Word : a \o Append(b, m) = Append(a \o b, m)
         /\ \A c \in Seq(Word) : a \o (b \o c) = (a \o b) \o c
<1>1. /\ a \o b \in Seq(Word)
      /\ \A k \in 1..Len(b) : Len(a) + k \in 1..Len(a \o b) /\ (a \o b)[Len(a) + k] = b[k]
  OBVIOUS
<1>2. \A m \in Word : a \o Append(b, m) = Append(a \o b, m)
  OBVIOUS
<1>3. \A c \in Seq(Word) : a \o (b \o c) = (a \o b) \o c
  BY WordsAssociate
<1> QED BY <1>1, <1>2, <1>3

(* More packets leave what answers a client where it is. *)
LEMMA MoreAwaited ==
  ASSUME NEW p, NEW n, NEW dn \in Seq(Word), NEW more \in Seq(Word), NEW ups, NEW actions,
         Awaited(p, n, dn, ups, actions)
  PROVE  Awaited(p, n, dn \o more, ups, actions)
<1>1. \A k \in 1..Len(dn) : k \in 1..Len(dn \o more) /\ (dn \o more)[k] = dn[k]
  OBVIOUS
<1> QED BY <1>1 DEF Awaited

LEMMA TravelKeeps ==
  ASSUME ItemsDistinct, UseInv, NEW p \in Player, NEW d \in Dim, I!Travel(p, d)
  PROVE  UseInv'
<1> DEFINE m == [kind |-> "world", blocks |-> world[d]]
<1>1. /\ UseTypes /\ BlocksHeard /\ Answering /\ p \in present /\ down[p] \in Seq(Word)
  BY DEF UseInv, UseTypes, I!Travel
<1>2. m \in Word /\ \A c \in Cell : Says(m, c) /\ Said(m, c) = world[d][c]
  BY <1>1 DEF UseTypes, Word, Says, Said
<1>3. /\ dim' = [dim EXCEPT ![p] = d] /\ down' = [down EXCEPT ![p] = Append(@, m)]
      /\ UNCHANGED <<present, hotbar, queue, world, client, up>>
  BY DEF I!Travel
<1> HIDE DEF m
<1>4. /\ dim' \in [Player -> Dim] /\ dim'[p] = d
      /\ down' \in [Player -> Seq(Word)] /\ down'[p] = Append(down[p], m)
      /\ \A q \in Player \ {p} : dim'[q] = dim[q] /\ down'[q] = down[q]
  BY <1>1, <1>2, <1>3 DEF UseTypes
<1>5. UseTypes'  BY <1>1, <1>3, <1>4 DEF UseTypes
<1>6. BlocksHeard'
  <2> SUFFICES ASSUME NEW q \in present, NEW c \in Cell
               PROVE  Ends(Heard(client[q], c), down'[q], c, world[dim'[q]][c])
    BY <1>3 DEF BlocksHeard
  <2>1. q \in Player /\ Ends(Heard(client[q], c), down[q], c, world[dim[q]][c])
    BY <1>1 DEF BlocksHeard, UseTypes
  <2>2. CASE q = p
    <3>1. Ends(Heard(client[p], c), Append(down[p], m), c,
               IF Says(m, c) THEN Said(m, c) ELSE world[dim[p]][c])
      BY <1>1, <1>2, <2>1, <2>2, AppendSays
    <3> QED BY <1>2, <1>4, <2>2, <3>1
  <2>3. CASE q # p  BY <1>4, <2>1, <2>3
  <2> QED BY <2>2, <2>3
<1>7. Answering'
  <2> SUFFICES ASSUME NEW q \in present, NEW c \in Cell, client[q].expects[c] # None
               PROVE  Awaited(q, client[q].expects[c].seq, down'[q], up[q], queue)
    BY <1>3 DEF Answering
  <2>1. q \in Player /\ Awaited(q, client[q].expects[c].seq, down[q], up[q], queue)
    BY <1>1 DEF Answering, UseTypes
  <2>2. CASE q = p
    <3>1. Append(down[p], m) = down[p] \o <<m>> /\ <<m>> \in Seq(Word)  BY <1>1, <1>2
    <3>2. Awaited(p, client[p].expects[c].seq, down[p] \o <<m>>, up[p], queue)
      BY <1>1, <2>1, <2>2, <3>1, MoreAwaited
    <3> QED BY <1>4, <2>2, <3>1, <3>2
  <2>3. CASE q # p  BY <1>4, <2>1, <2>3
  <2> QED BY <2>2, <2>3
<1> QED BY <1>5, <1>6, <1>7 DEF UseInv

LEMMA ChangesTypes ==
  ASSUME UseTypes, NEW q \in QueuedAction, NEW changes \in I!Changes(q)
  PROVE  changes[1] \in BlockChange \cup {None} /\ changes[2] \in BlockChange \cup {None}
<1> DEFINE item == I!Held(hotbar[q.player])
           placed == IF item \in Block THEN [cell |-> q.cell, block |-> item] ELSE None
           gone == [cell |-> q.cell, block |-> Air]
           was == world[dim[q.player]][q.cell]
<1>1. I!Sets = BlockChange \cup {None}  BY DEF I!Sets, BlockChange, BlockKinds
<1>2. q.cell \in Cell  BY DEF QueuedAction
<1>3. placed \in BlockChange \cup {None} /\ gone \in BlockChange  BY <1>2 DEF BlockChange, BlockKinds
<1>4. CASE q.breaks
  <2>1. changes \in {gone} \X (IF item \in Tool /\ was # Air THEN I!Sets ELSE {None})
    BY <1>4 DEF I!Changes, I!BreakChanges
  <2> HIDE DEF gone, item, was
  <2> QED BY <1>1, <1>3, <2>1
<1>5. CASE ~q.breaks
  <2>1. changes \in IF item \in Tool THEN I!Sets \X {None, placed} ELSE {<<None, placed>>}
    BY <1>5 DEF I!Changes, I!UseChanges
  <2> HIDE DEF placed, item
  <2> QED BY <1>1, <1>3, <2>1
<1> QED BY <1>4, <1>5

(* The changes are told before the action is acknowledged. *)
LEMMA DrainKeeps == ASSUME ItemsDistinct, UseInv, I!Drain PROVE UseInv'
<1> DEFINE q == Head(queue)
           d == dim[q.player]
<1>1. UseTypes /\ BlocksHeard /\ Answering /\ queue \in Seq(QueuedAction) /\ queue # <<>>
  BY DEF UseInv, UseTypes, I!Drain
<1>2. q \in QueuedAction /\ q = queue[1] /\ q.player \in Player /\ q.seq \in Nat /\ d \in Dim
      /\ world[d] \in [Cell -> BlockKinds]
  <2>1. q \in QueuedAction /\ q = queue[1]  BY <1>1
  <2>2. q.player \in Player /\ q.seq \in Nat  BY <2>1 DEF QueuedAction
  <2> QED BY <1>1, <2>1, <2>2 DEF UseTypes
<1>3. queue' = Tail(queue) /\ UNCHANGED <<present, dim, hotbar, client, up>>
  BY DEF I!Drain
<1>4. /\ queue' \in Seq(QueuedAction)
      /\ \A k \in 1..Len(queue) : k # 1 => k - 1 \in 1..Len(queue') /\ queue'[k - 1] = queue[k]
  BY <1>1, <1>3
<1>5. PICK more \in [Player -> Seq(Word)], blocks \in [Cell -> BlockKinds] :
        /\ world' = [world EXCEPT ![d] = blocks]
        /\ down' = [p \in Player |-> down[p] \o more[p]]
        /\ \A p \in present : dim[p] = d =>
             \A c \in Cell : Ends(Heard(client[p], c), down[p] \o more[p], c, blocks[c])
        /\ \A p \in present : dim[p] # d => more[p] = <<>>
        /\ q.player \in present => \E k \in 1..Len(more[q.player]) :
             more[q.player][k] = [kind |-> "ack", seq |-> q.seq]
  <2>1. CASE q.player \notin present
    <3> DEFINE none == [p \in Player |-> <<>>]
    <3>1. UNCHANGED <<world, down>>  BY <2>1 DEF I!Drain
    <3>2. \A S : <<>> \in Seq(S)  OBVIOUS
    <3>3. none \in [Player -> Seq(Word)]  BY <3>2
    <3>4. \A p \in Player : down[p] \in Seq(Word) /\ down[p] \o <<>> = down[p]
      <4> SUFFICES ASSUME NEW p \in Player PROVE down[p] \in Seq(Word) /\ down[p] \o <<>> = down[p]
        OBVIOUS
      <4>1. down[p] \in Seq(Word)  BY <1>1 DEF UseTypes
      <4> QED BY <4>1
    <3>5. \A p \in Player : none[p] = <<>> /\ down[p] \o none[p] = down[p]  BY <3>4
    <3> HIDE DEF none
    <3>6. down' = [p \in Player |-> down[p] \o none[p]]  BY <1>1, <3>1, <3>5 DEF UseTypes
    <3>7. world' = [world EXCEPT ![d] = world[d]]  BY <1>1, <1>2, <3>1 DEF UseTypes
    <3>8. \A p \in present : dim[p] = d =>
            \A c \in Cell : Ends(Heard(client[p], c), down[p] \o none[p], c, world[d][c])
      <4> SUFFICES ASSUME NEW p \in present, dim[p] = d, NEW c \in Cell
                   PROVE  Ends(Heard(client[p], c), down[p] \o none[p], c, world[d][c])
        OBVIOUS
      <4>1. p \in Player /\ Ends(Heard(client[p], c), down[p], c, world[d][c])
        BY <1>1 DEF UseTypes, BlocksHeard
      <4> QED BY <3>5, <4>1
    <3>9. \A p \in present : p \in Player  BY <1>1 DEF UseTypes
    <3> QED BY <1>2, <2>1, <3>3, <3>5, <3>6, <3>7, <3>8, <3>9
  <2>2. CASE q.player \in present
    <3> DEFINE first(changes) == I!Mutate([blocks |-> world[d], told |-> <<>>], changes[1])
               after(changes) == I!Mutate(first(changes), changes[2])
               ack == <<[kind |-> "ack", seq |-> q.seq]>>
    <3>1. PICK changes \in I!Changes(q) :
            /\ world' = [world EXCEPT ![d] = after(changes).blocks]
            /\ down' = [p \in Player |->
                 (IF p \in present /\ dim[p] = d THEN down[p] \o after(changes).told ELSE down[p])
                 \o IF p = q.player THEN ack ELSE <<>>]
      BY <2>2 DEF I!Drain, I!Ack
    <3> DEFINE start == [blocks |-> world[d], told |-> <<>>]
               once == I!Mutate(start, changes[1])
               twice == I!Mutate(once, changes[2])
               told == twice.told
    <3>2. changes[1] \in BlockChange \cup {None} /\ changes[2] \in BlockChange \cup {None}
      BY <1>1, <1>2, ChangesTypes
    <3>3. start \in [blocks : [Cell -> BlockKinds], told : Seq(Word)]
          /\ start.told = <<>> /\ start.blocks = world[d]
      <4>1. <<>> \in Seq(Word)  OBVIOUS
      <4> QED BY <1>2, <4>1
    <3>4. world' = [world EXCEPT ![d] = twice.blocks]  BY <3>1
    <3>5. \A p \in Player : down'[p] =
             (IF p \in present /\ dim[p] = d THEN down[p] \o told ELSE down[p])
             \o IF p = q.player THEN ack ELSE <<>>
      BY <3>1
    <3>6. DOMAIN down' = Player /\ down' = [p \in Player |-> down'[p]]  BY <3>1
    <3> HIDE DEF start, first, after
    <3>7. ASSUME NEW p \in present, dim[p] = d
          PROVE  /\ twice \in [blocks : [Cell -> BlockKinds], told : Seq(Word)]
                 /\ \A c \in Cell : Ends(Heard(client[p], c), down[p] \o told, c, twice.blocks[c])
      <4> DEFINE b == [c \in Cell |-> Heard(client[p], c)]
      <4>1. p \in Player /\ down[p] \in Seq(Word)  BY <1>1 DEF UseTypes
      <4>2. down[p] \o start.told = down[p]  BY <3>3, <4>1
      <4>3. \A c \in Cell : b[c] = Heard(client[p], c)  OBVIOUS
      <4> HIDE DEF b
      <4>4. \A c \in Cell : Ends(b[c], down[p] \o start.told, c, start.blocks[c])
        BY <1>1, <3>3, <3>7, <4>2, <4>3 DEF BlocksHeard
      <4>5. /\ once \in [blocks : [Cell -> BlockKinds], told : Seq(Word)]
            /\ \A c \in Cell : Ends(b[c], down[p] \o once.told, c, once.blocks[c])
        BY <3>2, <3>3, <4>1, <4>4, MutateSays
      <4> HIDE DEF once
      <4>6. /\ twice \in [blocks : [Cell -> BlockKinds], told : Seq(Word)]
            /\ \A c \in Cell : Ends(b[c], down[p] \o twice.told, c, twice.blocks[c])
        BY <3>2, <4>1, <4>5, MutateSays
      <4> QED BY <4>3, <4>6
    <3>8. twice.blocks \in [Cell -> BlockKinds] /\ told \in Seq(Word)
      <4>1. twice \in [blocks : [Cell -> BlockKinds], told : Seq(Word)]  BY <2>2, <3>7
      <4> HIDE DEF twice
      <4> QED BY <4>1
    <3> HIDE DEF twice, once, told
    <3>9. ack \in Seq(Word) /\ ack # <<>> /\ Len(ack) = 1 /\ ack[1] = [kind |-> "ack", seq |-> q.seq]
          /\ [kind |-> "ack", seq |-> q.seq] \in Word
      BY <1>2 DEF Word
    <3> DEFINE here(p) == IF p \in present /\ dim[p] = d THEN told ELSE <<>>
               more == [p \in Player |-> here(p) \o IF p = q.player THEN ack ELSE <<>>]
    <3>10. \A p \in Player : here(p) \in Seq(Word) /\ more[p] \in Seq(Word)
                             /\ (p = q.player => more[p] = Append(here(p), ack[1]))
                             /\ (p # q.player => more[p] = here(p))
      <4> SUFFICES ASSUME NEW p \in Player
                   PROVE  here(p) \in Seq(Word) /\ more[p] \in Seq(Word)
                          /\ (p = q.player => more[p] = Append(here(p), ack[1]))
                          /\ (p # q.player => more[p] = here(p))
        OBVIOUS
      <4>1. here(p) \in Seq(Word)
        <5>1. <<>> \in Seq(Word)  OBVIOUS
        <5> QED BY <3>8, <5>1
      <4>2. more[p] = here(p) \o IF p = q.player THEN ack ELSE <<>>  OBVIOUS
      <4> HIDE DEF here, more
      <4>3. CASE p = q.player
        <5>1. more[p] = here(p) \o <<[kind |-> "ack", seq |-> q.seq]>>  BY <4>2, <4>3
        <5>2. more[p] = Append(here(p), [kind |-> "ack", seq |-> q.seq])  BY <3>9, <4>1, <5>1
        <5> QED BY <3>9, <4>1, <4>3, <5>2
      <4>4. CASE p # q.player  BY <4>1, <4>2, <4>4
      <4> QED BY <4>1, <4>3, <4>4
    <3>11. ASSUME NEW p \in Player PROVE down'[p] = down[p] \o more[p]
      <4> DEFINE tail == IF p = q.player THEN ack ELSE <<>>
      <4>1. down[p] \in Seq(Word) /\ here(p) \in Seq(Word)  BY <1>1, <3>10 DEF UseTypes
      <4>2. more[p] = here(p) \o tail  OBVIOUS
      <4>3. tail \in Seq(Word)  BY <3>9
      <4>4. down'[p] = (down[p] \o here(p)) \o tail
        <5>1. CASE p \in present /\ dim[p] = d  BY <3>5, <5>1
        <5>2. CASE ~(p \in present /\ dim[p] = d)
          <6>1. down[p] \o <<>> = down[p]  BY <4>1
          <6>2. here(p) = <<>>  BY <5>2
          <6> QED BY <3>5, <5>2, <6>1, <6>2
        <5> QED BY <5>1, <5>2
      <4> HIDE DEF here, tail, more
      <4>5. down[p] \o (here(p) \o tail) = (down[p] \o here(p)) \o tail
        BY <4>1, <4>3, WordsAssociate
      <4> QED BY <4>2, <4>4, <4>5
    <3>12. DOMAIN more = Player  OBVIOUS
    <3>13. ASSUME NEW p \in present
           PROVE  /\ dim[p] = d => here(p) = told
                  /\ dim[p] # d => here(p) = <<>> /\ p # q.player
      OBVIOUS
    <3> HIDE DEF here
    <3>14. more \in [Player -> Seq(Word)]  BY <3>10
    <3> HIDE DEF more
    <3>15. down' = [p \in Player |-> down[p] \o more[p]]  BY <3>6, <3>11
    <3>16. ASSUME NEW p \in present, dim[p] = d, NEW c \in Cell
           PROVE  Ends(Heard(client[p], c), down[p] \o more[p], c, twice.blocks[c])
      <4>1. p \in Player /\ down[p] \in Seq(Word)  BY <1>1 DEF UseTypes
      <4>2. Ends(Heard(client[p], c), down[p] \o told, c, twice.blocks[c])  BY <3>7, <3>16
      <4>3. CASE p # q.player  BY <3>10, <3>13, <3>16, <4>1, <4>2, <4>3
      <4>4. CASE p = q.player
        <5> HIDE DEF ack
        <5>1. more[p] = Append(told, ack[1])  BY <3>10, <3>13, <3>16, <4>1, <4>4
        <5>2. ack[1] \in Word  BY <3>9
        <5>3. down[p] \o more[p] = Append(down[p] \o told, ack[1]) /\ down[p] \o told \in Seq(Word)
          <6> DEFINE a == down[p]
                     e == ack[1]
          <6>1. a \in Seq(Word) /\ e \in Word /\ more[p] = Append(told, e)
            BY <4>1, <5>1, <5>2
          <6> HIDE DEF a, e
          <6>2. a \o Append(told, e) = Append(a \o told, e) /\ a \o told \in Seq(Word)
            BY <3>8, <6>1, LongerWords
          <6> USE DEF a, e
          <6> QED BY <6>1, <6>2
        <5>4. ~Says(ack[1], c)  BY <3>9 DEF Says
        <5>5. Ends(Heard(client[p], c), Append(down[p] \o told, ack[1]), c,
                   IF Says(ack[1], c) THEN Said(ack[1], c) ELSE twice.blocks[c])
          BY <4>2, <5>2, <5>3, AppendSays
        <5> QED BY <5>3, <5>4, <5>5
      <4> QED BY <4>3, <4>4
    <3>17. \A p \in present : dim[p] # d => more[p] = <<>>
      <4>1. \A p \in present : p \in Player  BY <1>1 DEF UseTypes
      <4> QED BY <3>10, <3>13, <4>1
    <3>18. \E k \in 1..Len(more[q.player]) : more[q.player][k] = [kind |-> "ack", seq |-> q.seq]
      <4>1. more[q.player] = Append(here(q.player), ack[1]) /\ here(q.player) \in Seq(Word)
        BY <1>2, <3>10
      <4>2. /\ Len(here(q.player)) + 1 \in 1..Len(more[q.player])
            /\ more[q.player][Len(here(q.player)) + 1] = ack[1]
        BY <3>9, <4>1
      <4> QED BY <3>9, <4>2
    <3> QED BY <3>4, <3>8, <3>14, <3>15, <3>16, <3>17, <3>18
  <2> QED BY <2>1, <2>2
<1>6. /\ \A p \in Player : down[p] \in Seq(Word) /\ more[p] \in Seq(Word)
      /\ \A p \in Player : down'[p] = down[p] \o more[p]
  BY <1>1, <1>5 DEF UseTypes
<1>7. UseTypes'
  <2>1. \A p \in Player : down[p] \o more[p] \in Seq(Word)
    <3> SUFFICES ASSUME NEW p \in Player PROVE down[p] \o more[p] \in Seq(Word)
      OBVIOUS
    <3>1. down[p] \in Seq(Word) /\ more[p] \in Seq(Word)  BY <1>6
    <3> QED BY <3>1
  <2>2. down' \in [Player -> Seq(Word)]  BY <1>5, <2>1
  <2>3. world' \in [Dim -> [Cell -> BlockKinds]]  BY <1>1, <1>2, <1>5 DEF UseTypes
  <2> QED BY <1>1, <1>3, <1>4, <2>2, <2>3 DEF UseTypes
<1>8. BlocksHeard'
  <2> SUFFICES ASSUME NEW p \in present, NEW c \in Cell
               PROVE  Ends(Heard(client[p], c), down'[p], c, world'[dim[p]][c])
    BY <1>3 DEF BlocksHeard
  <2>1. p \in Player /\ dim[p] \in Dim /\ down'[p] = down[p] \o more[p]
    BY <1>1, <1>6 DEF UseTypes
  <2>2. CASE dim[p] = d
    <3>1. world'[dim[p]] = blocks  BY <1>1, <1>2, <1>5, <2>2 DEF UseTypes
    <3> QED BY <1>5, <2>1, <2>2, <3>1
  <2>3. CASE dim[p] # d
    <3>1. world'[dim[p]] = world[dim[p]]  BY <1>1, <1>5, <2>1, <2>3 DEF UseTypes
    <3>2. down[p] \o <<>> = down[p]  BY <1>6, <2>1
    <3>3. down'[p] = down[p]  BY <1>5, <2>1, <2>3, <3>2
    <3>4. Ends(Heard(client[p], c), down[p], c, world[dim[p]][c])  BY <1>1 DEF BlocksHeard
    <3> QED BY <3>1, <3>3, <3>4
  <2> QED BY <2>2, <2>3
<1>9. Answering'
  <2> SUFFICES ASSUME NEW p \in present, NEW c \in Cell, client[p].expects[c] # None
               PROVE  Awaited(p, client[p].expects[c].seq, down'[p], up[p], queue')
    BY <1>3 DEF Answering
  <2> DEFINE n == client[p].expects[c].seq
  <2>1. p \in Player /\ Awaited(p, n, down[p], up[p], queue)
    BY <1>1 DEF Answering, UseTypes
  <2>2. down[p] \in Seq(Word) /\ more[p] \in Seq(Word) /\ down'[p] = down[p] \o more[p]
    BY <1>6, <2>1
  <2>3. n \in Nat
    <3>1. client[p] \in Showing  BY <1>1, <2>1 DEF UseTypes
    <3>2. client[p].expects[c] \in Expectation  BY <3>1 DEF Showing
    <3> QED BY <3>2 DEF Expectation
  <2> HIDE DEF n
  <2>4. Awaited(p, n, down'[p], up[p], queue)  BY <2>1, <2>2, MoreAwaited
  <2>5. ASSUME NEW k \in 1..Len(queue), queue[k].player = p, queue[k].seq >= n
        PROVE  Awaited(p, n, down'[p], up[p], queue')
    <3>1. CASE k = 1
      <4>1. q.player = p /\ q.seq >= n  BY <1>2, <2>5, <3>1
      <4>2. PICK j \in 1..Len(more[p]) : more[p][j] = [kind |-> "ack", seq |-> q.seq]
        BY <1>5, <4>1
      <4>3. Len(down[p]) + j \in 1..Len(down'[p]) /\ down'[p][Len(down[p]) + j] = more[p][j]
        <5> DEFINE a == down[p]
                   b == more[p]
        <5>1. a \in Seq(Word) /\ b \in Seq(Word) /\ down'[p] = a \o b /\ j \in 1..Len(b)
          BY <2>2
        <5> HIDE DEF a, b
        <5>2. Len(a) + j \in 1..Len(a \o b) /\ (a \o b)[Len(a) + j] = b[j]  BY <5>1, LongerWords
        <5> USE DEF a, b
        <5> QED BY <5>1, <5>2
      <4>4. Settles(down'[p][Len(down[p]) + j], n)  BY <4>1, <4>2, <4>3 DEF Settles
      <4> QED BY <4>3, <4>4 DEF Awaited
    <3>2. CASE k # 1
      <4>1. k - 1 \in 1..Len(queue') /\ queue'[k - 1] = queue[k]  BY <1>4, <3>2
      <4> QED BY <2>5, <4>1 DEF Awaited
    <3> QED BY <3>1, <3>2
  <2>6. Awaited(p, n, down'[p], up[p], queue')  BY <2>4, <2>5 DEF Awaited
  <2> QED BY <2>6 DEF n
<1> QED BY <1>7, <1>8, <1>9 DEF UseInv

LEMMA UseKeep == ASSUME ItemsDistinct, UseInv, [I!Next]_I!vars PROVE UseInv'
<1>1. CASE I!Next
  <2>1. ASSUME NEW p \in Player, NEW c \in Cell, I!ClientUses(p, c) \/ I!ClientBreaks(p, c) PROVE UseInv'
    BY <2>1, UsesKeep, BreaksKeep
  <2>2. ASSUME NEW p \in Player, (\E i \in I!Item : I!ClientSelects(p, i)) \/ I!ClientDrops(p) PROVE UseInv'
    BY <2>2, HandlesKeep
  <2>3. ASSUME NEW p \in Player, I!ClientReads(p) PROVE UseInv'  BY <2>3, ReadsKeep
  <2>4. ASSUME NEW p \in Player, I!Receive(p) PROVE UseInv'  BY <2>4, ReceiveKeeps
  <2>5. ASSUME NEW p \in Player, I!Quit(p) PROVE UseInv'  BY <2>5, QuitKeeps
  <2>6. ASSUME NEW p \in Player, NEW d \in Dim, I!Travel(p, d) PROVE UseInv'  BY <2>6, TravelKeeps
  <2>7. CASE I!Drain  BY <2>7, DrainKeeps
  <2>8. CASE I!EndIngest \/ I!EndTick
    BY <2>8 DEF I!EndIngest, I!EndTick, UseInv, UseTypes, BlocksHeard, Answering
  <2> QED BY <1>1, <2>1, <2>2, <2>3, <2>4, <2>5, <2>6, <2>7, <2>8 DEF I!Next
<1>2. CASE UNCHANGED I!vars
  BY <1>2 DEF I!vars, UseInv, UseTypes, BlocksHeard, Answering
<1> QED BY <1>1, <1>2

LEMMA UseShow == ASSUME ItemsDistinct, UseInv PROVE I!PredictionsSettle
<1> SUFFICES ASSUME NEW p \in present, up[p] = <<>>, down[p] = <<>>,
                    \A k \in DOMAIN queue : queue[k].player # p
             PROVE  client[p].expects = I!Expects /\ client[p].shown = world[dim[p]]
  BY DEF I!PredictionsSettle
<1>1. UseTypes /\ BlocksHeard /\ Answering /\ p \in Player  BY DEF UseInv, UseTypes
<1>2. client[p] \in Showing /\ world[dim[p]] \in [Cell -> BlockKinds] /\ queue \in Seq(QueuedAction)
  BY <1>1 DEF UseTypes
<1>3. client[p].shown \in [Cell -> BlockKinds] /\ client[p].expects \in [Cell -> Expectation \cup {None}]
  BY <1>2 DEF Showing
<1>4. DOMAIN queue = 1..Len(queue)  BY <1>2
<1>5. \A c \in Cell : client[p].expects[c] = None
  <2> SUFFICES ASSUME NEW c \in Cell, client[p].expects[c] # None PROVE FALSE
    OBVIOUS
  <2>1. Awaited(p, client[p].expects[c].seq, <<>>, <<>>, queue)  BY <1>1 DEF Answering
  <2> QED BY <1>4, <2>1 DEF Awaited
<1>6. client[p].expects = I!Expects  BY <1>3, <1>5 DEF I!Expects
<1>7. \A c \in Cell : client[p].shown[c] = world[dim[p]][c]
  <2> SUFFICES ASSUME NEW c \in Cell PROVE client[p].shown[c] = world[dim[p]][c]
    OBVIOUS
  <2>1. Ends(client[p].shown[c], <<>>, c, world[dim[p]][c])  BY <1>1, <1>5 DEF BlocksHeard, Heard
  <2> QED BY <2>1 DEF Ends
<1>8. client[p].shown = world[dim[p]]  BY <1>2, <1>3, <1>7
<1> QED BY <1>6, <1>8

-----------------------------------------------------------------------------
(* The parts of MCMirrors: a behaviour takes the steps of one of them. *)

mirrored == <<part, tick, vars, onlyEffects, onlyAttributes, onlyEntries,
              onlyBlocks, onlyClocks>>

LEMMA StepOfPart ==
  ASSUME [NextMirrors]_mirrored
  PROVE  /\ part' = part
         /\ part = "effects" => [E!Next]_E!vars
         /\ part = "attributes" => [A!Next]_A!vars
         /\ part = "entries" => [N!Next]_N!vars
         /\ part = "blocks" => [I!Next]_I!vars
         /\ part = "clocks" => [C!Next]_C!vars
<1>1. CASE NextMirrors
  BY <1>1 DEF NextMirrors, RosterStep, EffectsStep, AttributesStep, EntriesStep, BlocksStep,
       ClocksStep
<1>2. CASE UNCHANGED mirrored
  <2>1. UNCHANGED <<part, tick, onlyEffects, onlyAttributes, onlyEntries, onlyBlocks, onlyClocks>>
    BY <1>2 DEF mirrored
  <2>2. UNCHANGED E!vars
    BY <2>1 DEF tick, onlyEffects, E!vars, E!component, E!state
  <2>3. UNCHANGED A!vars
    BY <2>1 DEF tick, onlyAttributes, A!vars, A!component, A!state
  <2>4. UNCHANGED N!vars
    BY <2>1 DEF tick, onlyEntries, N!vars, N!keepAlive
  <2>5. UNCHANGED C!vars
    BY <2>1 DEF tick, onlyClocks, C!vars, C!state
  <2>6. UNCHANGED I!vars
    BY <2>1 DEF tick, onlyBlocks, I!vars
  <2> QED BY <2>1, <2>2, <2>3, <2>4, <2>5, <2>6
<1> QED BY <1>1, <1>2

-----------------------------------------------------------------------------
(* on_player_ready, sync_tab_entries: at the end of a tick the lists say    *)
(* what the entries say.                                                    *)
THEOREM EntriesTold == ASSUME EntriesDistinct PROVE SpecMirrors => []EntriesShown
<1> DEFINE Inv == part = "entries" => EntriesInv
<1>1. InitMirrors => Inv  BY EntriesStart DEF InitMirrors
<1>2. Inv /\ [NextMirrors]_mirrored => Inv'  BY StepOfPart, EntriesKeep
<1>3. Inv => EntriesShown  BY EntriesShow DEF EntriesShown
<1> QED BY <1>1, <1>2, <1>3, PTL DEF SpecMirrors, mirrored

(* sync_attributes, send_attributes_on_shown, reset_on_remove: at the end   *)
(* of a tick clients show the overrides that are in force.                  *)
THEOREM AttributesTold == ASSUME AttributesDistinct PROVE SpecMirrors => []AttributesShown
<1> DEFINE Inv == part = "attributes" => AttributesInv
<1>1. InitMirrors => Inv  BY AttributesStart DEF InitMirrors
<1>2. Inv /\ [NextMirrors]_mirrored => Inv'  BY StepOfPart, AttributesKeep
<1>3. Inv => AttributesShown  BY AttributesShow DEF AttributesShown
<1> QED BY <1>1, <1>2, <1>3, PTL DEF SpecMirrors, mirrored

(* sync_status_effects, remove_from_recipients: at the end of a tick        *)
(* clients have the effects of their players and of what these ride, as old *)
(* as they are, and no others.                                              *)
THEOREM EffectsTold == ASSUME EffectsDistinct PROVE SpecMirrors => []EffectsShown
<1> DEFINE Inv == part = "effects" => EffectsInv
<1>1. InitMirrors => Inv  BY EffectsStart DEF InitMirrors
<1>2. Inv /\ [NextMirrors]_mirrored => Inv'  BY StepOfPart, EffectsKeep
<1>3. Inv => EffectsShown  BY EffectsShow DEF EffectsShown
<1> QED BY <1>1, <1>2, <1>3, PTL DEF SpecMirrors, mirrored

(* sync_world_time, forget, release_on_remove: at the end of a tick a client *)
(* has the clock as the component that covers its player does, frozen or    *)
(* running, and a client that nothing covers has no frozen clock.           *)
THEOREM ClocksTold == ASSUME ClocksDistinct PROVE SpecMirrors => []ClocksShown
<1> DEFINE Inv == part = "clocks" => ClocksInv
<1>1. InitMirrors => Inv  BY ClocksStart DEF InitMirrors
<1>2. Inv /\ [NextMirrors]_mirrored => Inv'  BY StepOfPart, ClocksKeep
<1>3. Inv => ClocksShown  BY ClocksShow DEF ClocksShown
<1> QED BY <1>1, <1>2, <1>3, PTL DEF SpecMirrors, mirrored

(* drain_item_use_queue, mutate_block: a client whose actions are all       *)
(* answered and that has read everything expects nothing more, and shows    *)
(* the blocks as they are, whatever came of what it did.                    *)
THEOREM PredictionsEnd == ASSUME ItemsDistinct PROVE SpecMirrors => []PredictionsSettle
<1> DEFINE Inv == part = "blocks" => UseInv
<1>1. InitMirrors => Inv  BY UseStart DEF InitMirrors
<1>2. Inv /\ [NextMirrors]_mirrored => Inv'  BY StepOfPart, UseKeep
<1>3. Inv => PredictionsSettle  BY UseShow DEF PredictionsSettle
<1> QED BY <1>1, <1>2, <1>3, PTL DEF SpecMirrors, mirrored
=============================================================================
