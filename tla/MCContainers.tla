---------------------------- MODULE MCContainers ----------------------------
(***************************************************************************)
(* A small instance of Containers.  A behaviour is one of two: two clicks   *)
(* of a few kinds, both in flight at once, among menus that open and close  *)
(* and a game that edits the slots; or, with the inventory alone, a longer  *)
(* series of clicks of every kind, drags among them, by a player who waits  *)
(* for the server's answer to each.                                         *)
(***************************************************************************)
EXTENDS Containers

CONSTANTS a, b, MenuClicks

VARIABLE alone

MCStack == [x \in {a, b} |-> IF x = a THEN 3 ELSE 1]
Stack(x, n) == [item |-> x, count |-> n]
\* crafting output, main, hotbar, offhand
MCInitial == [i \in 0..3 |-> CASE i = 1 -> Stack(a, 3) [] i = 2 -> Stack(b, 1) [] OTHER -> Empty]
MCOffers == {[s \in 0..0 |-> Stack(a, 1)]}
Click(slot, button, input) == [slot |-> slot, button |-> button, input |-> input]
Few ==
  {Click(s, 0, "pickup") : s \in {1, Outside}} \cup {Click(1, 0, "quick_move")}
Drags ==
  {Click(Outside, n, "quick_craft") : n \in {0, 4, 2, 6}}
  \cup {Click(s, n, "quick_craft") : s \in {0, 3}, n \in {1}}
MCClicks ==
  Few \cup Drags
  \cup {Click(0, 0, "swap"), Click(0, 0, "pickup"), Click(2, 0, "pickup"), Click(1, 1, "pickup"), Click(1, 1, "throw"), Click(1, 0, "throw"),
        Click(1, 0, "pickup_all")}

NextContainers ==
  /\ UNCHANGED alone
  /\ IF alone
     THEN /\ Next
          /\ done'.menus = 0 /\ done'.edits = 0
          /\ Waits
     ELSE StepWith(Few) /\ done'.clicks <= MenuClicks

InitContainers == Init /\ alone \in BOOLEAN

SpecContainers == InitContainers /\ [][NextContainers]_<<vars, alone>>
=============================================================================
