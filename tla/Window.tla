------------------------------- MODULE Window -------------------------------
(***************************************************************************)
(* Container clicks over a window of slots (void/src/window.rs): the engine *)
(* that the player's own inventory and editable menus share.  A window is a *)
(* record of its slots, the stack on the cursor and the drag under way; a   *)
(* click returns the window after it and the stack thrown into the world.   *)
(* An item stands for an id with its components.  A stack of no items is    *)
(* Empty: the code may leave the item's id in it, which nothing reads.      *)
(***************************************************************************)
EXTENDS Integers, SequencesExt

CONSTANTS
  Items,    \* kinds of items
  MaxStack, \* how many of each fit in a slot
  Air       \* the item of an empty stack

Empty == [item |-> Air, count |-> 0]
Outside == -999

WithCount(stack, n) == IF n = 0 THEN Empty ELSE [stack EXCEPT !.count = n]
SameItem(a, b) == a.count > 0 /\ a.item = b.item
Least(a, b) == IF a < b THEN a ELSE b

(***************************************************************************)
(* deposit: matching stacks first, then empty slots, both in order; what    *)
(* does not fit stays in the stack.                                         *)
(***************************************************************************)
Merge(acc, i) ==
  LET moved == Least(MaxStack[acc.stack.item] - acc.slots[i].count, acc.stack.count)
  IN IF acc.stack.count > 0 /\ SameItem(acc.slots[i], acc.stack) /\ moved > 0
     THEN [slots |-> [acc.slots EXCEPT ![i].count = @ + moved],
           stack |-> WithCount(acc.stack, acc.stack.count - moved)]
     ELSE acc

Fill(acc, i) ==
  LET moved == Least(MaxStack[acc.stack.item], acc.stack.count)
  IN IF acc.stack.count > 0 /\ acc.slots[i].count = 0
     THEN [slots |-> [acc.slots EXCEPT ![i] = WithCount(acc.stack, moved)],
           stack |-> WithCount(acc.stack, acc.stack.count - moved)]
     ELSE acc

Deposit(slots, stack, order) ==
  FoldLeft(Fill, FoldLeft(Merge, [slots |-> slots, stack |-> stack], order), order)

(***************************************************************************)
(* Layouts.  A layout lists the indices of its parts in ascending order.    *)
(***************************************************************************)
Among(i, part) == \E k \in 1..Len(part) : part[k] = i

QuickMoveTargets(layout, from) ==
  IF layout.player
  THEN IF Among(from, layout.hotbar) THEN layout.main
       ELSE IF Among(from, layout.main) THEN layout.hotbar
       ELSE layout.main \o layout.hotbar
  ELSE IF Among(from, layout.container) THEN Reverse(layout.main \o layout.hotbar)
       ELSE layout.container

\* The slots a hotbar key (0-8) or the offhand key (40) swaps with, none or one.
SwapTargets(layout, button) ==
  IF button = 40 THEN layout.offhand
  ELSE {layout.hotbar[k] : k \in {button + 1} \cap 1..Len(layout.hotbar)}

(***************************************************************************)
(* One operator per kind of click.                                          *)
(***************************************************************************)
Thrown(w, stack) == [w EXCEPT !.dropped = stack]

Pickup(w, s, right) ==
  LET target == w.slots[s]
      cursor == w.cursor
      half == (target.count + 1) \div 2
      space == MaxStack[cursor.item] - target.count
      moved == Least(IF right THEN 1 ELSE cursor.count, space)
      Put(t, c) == [w EXCEPT !.slots[s] = t, !.cursor = c]
  IN IF cursor.count = 0
     THEN IF target.count = 0 THEN w
          ELSE IF right THEN Put(WithCount(target, target.count - half), WithCount(target, half))
          ELSE Put(Empty, target)
     ELSE IF target.count = 0
          THEN IF right THEN Put(WithCount(cursor, 1), WithCount(cursor, cursor.count - 1))
               ELSE Put(cursor, Empty)
     ELSE IF SameItem(target, cursor)
          THEN IF space > 0
               THEN Put(WithCount(target, target.count + moved),
                        WithCount(cursor, cursor.count - moved))
               ELSE w
     ELSE Put(cursor, target)

QuickMove(w, s) ==
  IF w.slots[s].count = 0 THEN w
  ELSE LET d == Deposit([w.slots EXCEPT ![s] = Empty], w.slots[s],
                        QuickMoveTargets(w.layout, s))
       IN [w EXCEPT !.slots = [d.slots EXCEPT ![s] = d.stack]]

Swap(w, s, button) ==
  LET targets == SwapTargets(w.layout, button) \ {s}
      t == CHOOSE x \in targets : TRUE
  IN IF targets = {} THEN w
     ELSE [w EXCEPT !.slots = [@ EXCEPT ![s] = w.slots[t], ![t] = w.slots[s]]]

CloneStack(w, s, creative) ==
  IF creative /\ w.cursor.count = 0 /\ w.slots[s].count > 0
  THEN [w EXCEPT !.cursor = WithCount(w.slots[s], MaxStack[w.slots[s].item])]
  ELSE w

Throw(w, s, button) ==
  LET n == IF button = 1 THEN w.slots[s].count ELSE 1
  IN IF w.slots[s].count = 0 THEN w
     ELSE Thrown([w EXCEPT !.slots[s] = WithCount(@, @.count - n)], WithCount(w.slots[s], n))

DropCursor(w, single) ==
  LET n == IF single THEN 1 ELSE w.cursor.count
  IN IF w.cursor.count = 0 THEN w
     ELSE Thrown([w EXCEPT !.cursor = WithCount(@, @.count - n)], WithCount(w.cursor, n))

\* Double click: gather the item of the cursor from every slot but the crafting output.
Gather(w, i) ==
  LET moved == Least(MaxStack[w.cursor.item] - w.cursor.count, w.slots[i].count)
  IN IF moved > 0 /\ i \notin w.layout.output /\ SameItem(w.slots[i], w.cursor)
     THEN [w EXCEPT !.cursor.count = @ + moved,
                    !.slots[i] = WithCount(@, @.count - moved)]
     ELSE w

PickupAll(w) ==
  IF w.cursor.count = 0 THEN w
  ELSE FoldLeft(Gather, w, w.layout.container \o w.layout.main \o w.layout.hotbar
                           \o SetToSeq(w.layout.offhand))

(***************************************************************************)
(* A drag: it starts with a kind, gathers slots, and is applied at its end. *)
(***************************************************************************)
NoDrag == [kind |-> "none", slots |-> <<>>]

\* The slots of the drag that can take some of what is on the cursor.
Eligible(w) ==
  {i \in DOMAIN w.slots :
     /\ Among(i, w.drag.slots)
     /\ \/ w.slots[i].count = 0
        \/ w.slots[i].item = w.cursor.item /\ w.slots[i].count < MaxStack[w.cursor.item]}

\* At most n items from the cursor into slot i.
Spread(w, i, n) ==
  LET room == MaxStack[w.cursor.item] - w.slots[i].count
      moved == Least(Least(n, room), w.cursor.count)
  IN IF w.cursor.count = 0 \/ moved = 0 THEN w
     ELSE [w EXCEPT !.slots[i] = WithCount(w.cursor, w.slots[i].count + moved),
                    !.cursor = WithCount(@, @.count - moved)]

\* What slot i gets when the drag of w is applied.
Share(w, acc, i) ==
  IF i \notin Eligible(w) THEN acc
  ELSE CASE w.drag.kind = "left" -> Spread(acc, i, w.cursor.count \div Cardinality(Eligible(w)))
         [] w.drag.kind = "right" -> Spread(acc, i, 1)
         [] OTHER -> [acc EXCEPT !.slots[i] = WithCount(w.cursor, MaxStack[w.cursor.item])]

ApplyDrag(w) ==
  LET rest == [w EXCEPT !.drag = NoDrag]
  IN IF w.cursor.count = 0 \/ Eligible(w) = {} THEN rest
     ELSE FoldLeft(LAMBDA acc, i : Share(w, acc, i), rest, w.drag.slots)

QuickCraft(w, s, button, creative) ==
  LET Started(kind) == [w EXCEPT !.drag = [kind |-> kind, slots |-> <<>>]]
  IN CASE button = 0 -> Started("left")
       [] button = 4 -> Started("right")
       [] button = 8 /\ creative -> Started("middle")
       [] button \in {1, 5, 9} ->
            IF s \in DOMAIN w.slots /\ w.drag.kind # "none" /\ ~Among(s, w.drag.slots)
            THEN [w EXCEPT !.drag.slots = Append(@, s)] ELSE w
       [] button \in {2, 6, 10} -> IF w.drag.kind = "none" THEN w ELSE ApplyDrag(w)
       [] OTHER -> [w EXCEPT !.drag = NoDrag]

(***************************************************************************)
(* Window::apply_click.  Slots that are not in the window count as outside  *)
(* where outside means something, and are ignored where it does not.        *)
(***************************************************************************)
ApplyClick(window, layout, creative, click) ==
  LET s == click.slot
      inside == s \in DOMAIN window.slots
      w == [slots |-> window.slots, cursor |-> window.cursor, layout |-> layout,
            drag |-> IF click.input = "quick_craft" THEN window.drag ELSE NoDrag,
            dropped |-> Empty]
  IN IF s < 0 /\ s # Outside THEN [w EXCEPT !.drag = window.drag]
     ELSE CASE click.input = "pickup" -> IF inside THEN Pickup(w, s, click.button = 1)
                                         ELSE DropCursor(w, click.button = 1)
            [] click.input = "quick_move" /\ inside -> QuickMove(w, s)
            [] click.input = "swap" /\ inside -> Swap(w, s, click.button)
            [] click.input = "clone" /\ inside -> CloneStack(w, s, creative)
            [] click.input = "throw" /\ inside -> Throw(w, s, click.button)
            [] click.input = "pickup_all" /\ inside -> PickupAll(w)
            [] click.input = "quick_craft" -> QuickCraft(w, s, click.button, creative)
            [] OTHER -> w
=============================================================================
