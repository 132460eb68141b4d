----------------------------- MODULE Containers -----------------------------
(***************************************************************************)
(* One player's containers (void/src/plugins/inventory.rs, inventory.rs,    *)
(* menu.rs): the inventory, the menu that may be open over it, the marks of *)
(* what the client has to be told, and the client's own picture of it all,  *)
(* which runs ahead of the server whenever the player clicks.               *)
(*                                                                         *)
(* A tick reads packets (ingest), runs the game and the queued clicks       *)
(* (update) and sends what is marked (Sync).  The held slot, which no other *)
(* part depends on, is left out.  sync_containers looks at changed entities *)
(* only; one that did not change has no marks but those a menu hides, for   *)
(* which Sync sends nothing.                                                *)
(***************************************************************************)
EXTENDS Window

CONSTANTS
  Gear,        \* slots of the inventory before the main part (9 in the code)
  Main,        \* slots of the main part (27)
  Hotbar,      \* slots of the hotbar (9)
  MenuSize,    \* slots of the menus that are opened
  ShowsInventory, \* FALSE for the lectern: its window has no other slots
  MaxId,       \* container ids go from 1 to MaxId (100)
  Initial,     \* the stacks the inventory starts with
  Offers,      \* the stacks a menu is opened with
  Clicks,      \* the clicks the player makes
  Creative,    \* whether the server's game mode is creative
  GameIn,      \* phases in which game code changes things, beside "answer"
  Retitles,    \* whether it gives open menus new titles
  MaxClicks, MaxEdits, MaxMenus, \* bounds on what the player and the game do
  Flight       \* bound on packets on their way, each direction

VARIABLES
  phase,    \* "ingest", "update", "answer" while a click is answered, or "gone"
  inv,      \* Inventory: slots, cursor, drag, state id, marks
  open,     \* OpenMenu, or Closed
  lastId,   \* ContainerIds
  clicks,   \* MenuClickQueue
  closed,   \* MenuClosedEvents so far: the menus they were about
  thrown,   \* items thrown into the world, of each kind
  made,     \* what game code and menus brought into the world so far
  client,   \* what the client shows, knows and drags
  up, down, \* packets on their way
  done      \* how many clicks, edits and menus there were

vars == <<phase, inv, open, lastId, clicks, closed, thrown, made, client, up, down, done>>

(***************************************************************************)
(* Layouts.                                                                 *)
(***************************************************************************)
Indices(from, n) == [k \in 1..n |-> from + k - 1]
Size == Gear + Main + Hotbar + 1
PlayerLayout ==
  [player |-> TRUE, container |-> Indices(0, Gear), main |-> Indices(Gear, Main),
   hotbar |-> Indices(Gear + Main, Hotbar), offhand |-> {Size - 1}, output |-> {0}]
MenuLayout ==
  LET shown(n) == IF ShowsInventory THEN n ELSE 0
  IN [player |-> FALSE, container |-> Indices(0, MenuSize),
      main |-> Indices(MenuSize, shown(Main)),
      hotbar |-> Indices(MenuSize + shown(Main), shown(Hotbar)),
      offhand |-> {}, output |-> {}]
MenuWindow == MenuSize + Len(MenuLayout.main) + Len(MenuLayout.hotbar)
\* The inventory's slots that a menu's window shows, and the others.
Visible == Gear..(Gear + MenuWindow - MenuSize - 1)
Hidden == (0..Size - 1) \ Visible
\* Where a window slot of a menu is in the inventory.
InInventory(s) == Gear + s - MenuSize
WindowOf(menu, slots) ==
  [s \in 0..MenuWindow - 1 |-> IF s < MenuSize THEN menu[s] ELSE slots[InInventory(s)]]

Closed == [gen |-> 0, id |-> 0]
IsOpen == open.gen # 0
Clean == [slots |-> {}, full |-> FALSE, cursor |-> FALSE]
Differ(f, g) == {i \in DOMAIN f : f[i] # g[i]}
Marked(i, slots) == [i EXCEPT !.dirty.slots = @ \cup slots]
Full(i) == [i EXCEPT !.dirty.full = TRUE]
CursorMarked(i) == [i EXCEPT !.dirty.cursor = TRUE]
\* A setter: what really changes is marked.
SetSlots(i, slots) == [Marked(i, Differ(slots, i.slots)) EXCEPT !.slots = slots]
SetCursor(i, stack) == [i EXCEPT !.cursor = stack, !.dirty.cursor = @ \/ stack # i.cursor]
GiveOrder == PlayerLayout.hotbar \o PlayerLayout.main

Count(slots, x) == MapThenSumSet(LAMBDA i : IF slots[i].item = x THEN slots[i].count ELSE 0,
                                 DOMAIN slots)
OfStack(stack, x) == IF stack.item = x THEN stack.count ELSE 0
Adds(f, stack) == [x \in Items |-> f[x] + OfStack(stack, x)]
Throws(stack) == thrown' = Adds(thrown, stack)

Init ==
  /\ phase = "ingest"
  /\ inv = [slots |-> Initial, cursor |-> Empty, drag |-> NoDrag, state |-> 0, dirty |-> Clean]
  /\ open = Closed /\ lastId = 0 /\ clicks = <<>> /\ closed = <<>>
  /\ thrown = [x \in Items |-> 0]
  /\ made = [x \in Items |-> Count(Initial, x)]
  /\ client = [win |-> 0, gen |-> 0, inv |-> Initial, menu |-> <<>>, cursor |-> Empty,
               drag |-> NoDrag, state |-> [inventory |-> 0, menu |-> 0]]
  /\ up = <<>> /\ down = <<>>
  /\ done = [clicks |-> 0, edits |-> 0, menus |-> 0]

(***************************************************************************)
(* The client (external): it applies each click to what it shows, at once,  *)
(* and tells the server which slots changed.  It acts while the server      *)
(* reads packets: at other times nothing it does could be noticed.          *)
(***************************************************************************)
Shown == IF client.win = 0 THEN client.inv ELSE WindowOf(client.menu, client.inv)

ClientClicks(click) ==
  LET menu == client.win # 0
      after == ApplyClick([slots |-> Shown, cursor |-> client.cursor, drag |-> client.drag],
                          IF menu THEN MenuLayout ELSE PlayerLayout, Creative, click)
  IN /\ phase = "ingest" /\ Len(up) < Flight /\ done.clicks < MaxClicks
     /\ click.slot < 0 \/ click.slot \in DOMAIN Shown
     /\ client' = [client EXCEPT
          !.cursor = after.cursor, !.drag = after.drag,
          !.menu = IF menu THEN [s \in DOMAIN @ |-> after.slots[s]] ELSE @,
          !.inv = IF ~menu THEN after.slots
                  ELSE [i \in DOMAIN @ |-> IF i \in Visible THEN after.slots[i - Gear + MenuSize]
                                           ELSE @[i]]]
     /\ up' = Append(up, [type |-> "click", id |-> client.win, gen |-> client.gen,
                          state |-> IF menu THEN client.state.menu ELSE client.state.inventory,
                          click |-> click, changed |-> Differ(after.slots, Shown)])
     /\ done' = [done EXCEPT !.clicks = @ + 1]
     /\ UNCHANGED <<phase, inv, open, lastId, clicks, closed, thrown, made, down>>

ClientCloses ==
  /\ phase = "ingest" /\ client.win # 0 /\ Len(up) < Flight
  /\ up' = Append(up, [type |-> "close", id |-> client.win])
  /\ client' = [client EXCEPT !.win = 0, !.gen = 0, !.menu = <<>>, !.cursor = Empty, !.drag = NoDrag]
  /\ UNCHANGED <<phase, inv, open, lastId, clicks, closed, thrown, made, down, done>>

ClientReads ==
  LET m == Head(down)
      shown == client.win # 0 /\ client.win = m.id
      Screen(id, gen, menu) ==
        [client EXCEPT !.win = id, !.gen = gen, !.menu = menu, !.cursor = Empty, !.drag = NoDrag,
                       !.state.menu = 0]
      FromMenu(slots) == [i \in DOMAIN client.inv |->
                            IF i \in Visible THEN slots[i - Gear + MenuSize] ELSE client.inv[i]]
  IN /\ phase = "ingest" /\ down # <<>>
     /\ down' = Tail(down)
     /\ client' = CASE m.type = "open" -> Screen(m.id, m.gen, [s \in 0..MenuSize - 1 |-> Empty])
                    [] m.type = "close" -> Screen(0, 0, <<>>)
                    [] m.type = "content" /\ m.id = 0 ->
                         [client EXCEPT !.inv = m.slots, !.state.inventory = m.state,
                                        !.cursor = IF client.win = 0 THEN m.cursor ELSE @]
                    [] m.type = "content" /\ shown ->
                         [client EXCEPT !.menu = [s \in DOMAIN @ |-> m.slots[s]],
                                        !.inv = FromMenu(m.slots),
                                        !.state.menu = m.state, !.cursor = m.cursor]
                    [] m.type = "slot" /\ m.id = 0 ->
                         [client EXCEPT !.inv[m.slot] = m.stack, !.state.inventory = m.state]
                    [] m.type = "slot" /\ shown ->
                         IF m.slot < MenuSize
                         THEN [client EXCEPT !.menu[m.slot] = m.stack, !.state.menu = m.state]
                         ELSE [client EXCEPT !.inv[InInventory(m.slot)] = m.stack,
                                             !.state.menu = m.state]
                    [] m.type = "cursor" -> [client EXCEPT !.cursor = m.cursor]
                    [] OTHER -> client
     /\ UNCHANGED <<phase, inv, open, lastId, clicks, closed, thrown, made, up, done>>

(***************************************************************************)
(* handle_container_click, handle_close_container.                          *)
(***************************************************************************)
Applied(i, click) ==
  LET w == ApplyClick([slots |-> i.slots, cursor |-> i.cursor, drag |-> i.drag],
                      PlayerLayout, Creative, click)
  IN [inv |-> SetCursor([SetSlots(i, w.slots) EXCEPT !.drag = w.drag], w.cursor),
      dropped |-> w.dropped]

\* apply_menu_click: the slots of the menu and the inventory's visible ones as one window.
AppliedToMenu(click) ==
  LET w == ApplyClick([slots |-> WindowOf(open.slots, inv.slots), cursor |-> inv.cursor,
                       drag |-> open.drag], MenuLayout, Creative, click)
      slots == [i \in DOMAIN inv.slots |-> IF i \in Visible THEN w.slots[i - Gear + MenuSize]
                                           ELSE inv.slots[i]]
      menu == [s \in DOMAIN open.slots |-> w.slots[s]]
  IN [inv |-> SetCursor(SetSlots(inv, slots), w.cursor),
      open |-> [open EXCEPT !.slots = menu, !.drag = w.drag,
                            !.marked = @ \cup Differ(menu, open.slots)],
      dropped |-> w.dropped]

\* Fault in handle_container_click: the cursor of the client is forgotten.
RestoredSlotsOnly(changed) ==
  [inv |-> Marked(inv, {InInventory(s) : s \in {c \in changed : c >= MenuSize}}),
   open |-> [open EXCEPT !.marked = @ \cup {c \in changed : c < MenuSize}],
   dropped |-> Empty]

\* A read-only menu: what the client believes it changed is marked, with the cursor.
Restored(changed) ==
  [inv |-> CursorMarked(Marked(inv, {InInventory(s) : s \in {c \in changed : c >= MenuSize}})),
   open |-> [open EXCEPT !.marked = @ \cup {c \in changed : c < MenuSize}],
   dropped |-> Empty]

Stale(i, state) == IF state # i.state THEN Full(i) ELSE i

InventoryClick ==
  LET m == Head(up)
      after == Applied(Stale(inv, m.state), m.click)
  IN /\ phase = "ingest" /\ up # <<>> /\ m.type = "click" /\ m.id = 0 /\ ~IsOpen
     /\ up' = Tail(up)
     /\ inv' = after.inv /\ Throws(after.dropped)
     /\ UNCHANGED <<phase, open, lastId, clicks, closed, made, client, down, done>>

MenuClick ==
  LET m == Head(up)
      after == IF open.editable THEN AppliedToMenu(m.click) ELSE Restored(m.changed)
  IN /\ phase = "ingest" /\ up # <<>> /\ m.type = "click" /\ m.id # 0 /\ IsOpen /\ open.id = m.id
     /\ up' = Tail(up)
     /\ inv' = after.inv /\ Throws(after.dropped)
     /\ open' = [after.open EXCEPT !.full = @ \/ m.state # open.state]
     /\ clicks' = Append(clicks, [id |-> m.id, gen |-> m.gen])
     /\ UNCHANGED <<phase, lastId, closed, made, client, down, done>>

\* A click in a window that is not open (any more), or whose menu was not announced yet.
IgnoreClick ==
  LET m == Head(up)
  IN /\ phase = "ingest" /\ up # <<>> /\ m.type = "click"
     /\ IF m.id = 0 THEN IsOpen ELSE open.id # m.id
     /\ up' = Tail(up)
     /\ UNCHANGED <<phase, inv, open, lastId, clicks, closed, thrown, made, client, down, done>>

(***************************************************************************)
(* on_menu_removed, for each way a menu can go.  The stacks of the menu go  *)
(* with it.  A menu that was not announced yet goes without a word.         *)
(***************************************************************************)
\* Fault in on_menu_removed: the cursor is given back, and kept.
GoneCursorKept(reason) ==
  LET given == Deposit(inv.slots, inv.cursor, GiveOrder)
  IN [inv |-> Full(CursorMarked(SetSlots(inv, given.slots))), left |-> given.stack,
      told |-> <<>>, closed |-> closed]

\* Fault in on_menu_removed: it returns early when a menu replaces another.
GoneUnreported(reason) ==
  [inv |-> Full(inv), left |-> Empty, told |-> <<>>,
   closed |-> IF reason = "replaced" THEN closed ELSE Append(closed, open.gen)]

Gone(reason) ==
  LET given == Deposit(inv.slots, inv.cursor, GiveOrder)
  IN IF open.id = 0
     THEN [inv |-> inv, left |-> Empty, told |-> <<>>, closed |-> closed]
     ELSE [inv |-> Full(CursorMarked([SetSlots(inv, given.slots) EXCEPT !.cursor = Empty])),
           left |-> given.stack,
           told |-> IF reason \in {"client", "disconnect"} THEN <<>>
                    ELSE <<[type |-> "close", id |-> open.id]>>,
           closed |-> Append(closed, open.gen)]

Removal(reason) ==
  LET gone == Gone(reason)
  IN /\ inv' = gone.inv /\ Throws(gone.left) /\ closed' = gone.closed
     /\ down' = down \o gone.told
     /\ made' = [x \in Items |-> made[x] - Count(open.slots, x)]

ReceiveClose ==
  LET m == Head(up)
  IN /\ phase = "ingest" /\ up # <<>> /\ m.type = "close"
     /\ up' = Tail(up)
     /\ IF IsOpen /\ open.id = m.id
        THEN Removal("client") /\ open' = Closed
        ELSE UNCHANGED <<inv, open, closed, thrown, made, down>>
     /\ UNCHANGED <<phase, lastId, clicks, client, done>>

Quit ==
  /\ phase = "ingest" /\ IsOpen
  /\ Removal("disconnect") /\ open' = Closed /\ phase' = "gone"
  /\ UNCHANGED <<lastId, clicks, client, up, done>>

(***************************************************************************)
(* Game code: menus are opened (over another one, if need be) and closed,   *)
(* slots set, items picked up again.  The observers of a click and the      *)
(* handler of its menu are game code too.                                   *)
(***************************************************************************)
GameRuns == phase \in GameIn \cup {"answer"}

NewMenu(slots, editable) ==
  [gen |-> done.menus + 1, id |-> 0, slots |-> slots, editable |-> editable, state |-> 0,
   drag |-> NoDrag, full |-> TRUE, marked |-> {}, title |-> FALSE]

\* open_in_world
OpenIt(slots, editable) ==
  /\ done.menus < MaxMenus
  /\ done' = [done EXCEPT !.menus = @ + 1]
  /\ open' = NewMenu(slots, editable)
  /\ IF IsOpen THEN LET gone == Gone("replaced")
                    IN /\ inv' = gone.inv /\ Throws(gone.left) /\ closed' = gone.closed
                       /\ down' = down \o gone.told
                       /\ made' = [x \in Items |-> made[x] - Count(open.slots, x) + Count(slots, x)]
     ELSE /\ made' = [x \in Items |-> made[x] + Count(slots, x)]
          /\ UNCHANGED <<inv, thrown, closed, down>>

CloseIt == IsOpen /\ Removal("server") /\ open' = Closed /\ UNCHANGED done

GameOpens ==
  /\ GameRuns
  /\ \E slots \in Offers, editable \in BOOLEAN : OpenIt(slots, editable)
  /\ UNCHANGED <<phase, lastId, clicks, client, up>>

GameCloses ==
  /\ GameRuns /\ CloseIt
  /\ UNCHANGED <<phase, lastId, clicks, client, up>>

Edits == GameRuns /\ done.edits < MaxEdits /\ done' = [done EXCEPT !.edits = @ + 1]

\* Inventory::set, as /clear, consume and creative slots use it; here, to take a stack away.
TakeStack(i) ==
  /\ Edits /\ inv.slots[i].count > 0
  /\ inv' = SetSlots(inv, [inv.slots EXCEPT ![i] = Empty])
  /\ made' = [x \in Items |-> made[x] - OfStack(inv.slots[i], x)]
  /\ UNCHANGED <<phase, open, lastId, clicks, closed, thrown, client, up, down>>

\* Menu::set_slot and set_title
EditMenu(s, stack) ==
  /\ Edits /\ IsOpen
  /\ open' = [open EXCEPT !.slots[s] = stack, !.title = Retitles,
                          !.marked = IF open.slots[s] = stack THEN @ ELSE @ \cup {s}]
  /\ made' = [x \in Items |-> made[x] - OfStack(open.slots[s], x) + OfStack(stack, x)]
  /\ UNCHANGED <<phase, inv, lastId, clicks, closed, thrown, client, up, down>>

\* pickup_items: what fits of a stack on the ground.
PickupItems(x) ==
  LET n == Least(thrown[x], MaxStack[x])
      given == Deposit(inv.slots, [item |-> x, count |-> n], GiveOrder)
  IN /\ phase = "update" /\ n > 0
     /\ inv' = SetSlots(inv, given.slots)
     /\ thrown' = [thrown EXCEPT ![x] = @ - n + given.stack.count]
     /\ UNCHANGED <<phase, open, lastId, clicks, closed, made, client, up, down, done>>

(***************************************************************************)
(* drain_menu_clicks: if its window is still open, a click is answered, by  *)
(* all observers of the event and then by the handler its menu had.  Each   *)
(* may do what game code does, several times, to whatever menu the ones     *)
(* before it left open.                                                     *)
(***************************************************************************)
\* Fault in drain_menu_clicks: whatever menu is open gets the click.
AnswersAny(click) == IsOpen

Answers(click) == IsOpen /\ open.id = click.id

DrainClick ==
  /\ phase = "update" /\ clicks # <<>>
  /\ clicks' = Tail(clicks)
  /\ phase' = IF Answers(Head(clicks)) THEN "answer" ELSE "update"
  /\ UNCHANGED <<inv, open, lastId, closed, thrown, made, client, up, down, done>>

EndAnswer ==
  /\ phase = "answer" /\ phase' = "update"
  /\ UNCHANGED <<inv, open, lastId, clicks, closed, thrown, made, client, up, down, done>>

EndIngest ==
  /\ phase = "ingest" /\ Len(down) < Flight /\ phase' = "update"
  /\ UNCHANGED <<inv, open, lastId, clicks, closed, thrown, made, client, up, down, done>>

(***************************************************************************)
(* sync_containers.                                                         *)
(***************************************************************************)
NextState(state, n) == (state + n) % 32768
\* The marked slots in ascending order.  A menu has a mask of 64 bits, the inventory another.
SlotPackets(id, state, slots, window) ==
  LET mask == slots \cap 0..127
      Slot(k) == CHOOSE s \in mask : Cardinality({t \in mask : t < s}) = k - 1
  IN [k \in 1..Cardinality(mask) |-> [type |-> "slot", id |-> id, state |-> NextState(state, k),
                                     slot |-> Slot(k), stack |-> window[Slot(k)]]]
Content(id, state, slots) ==
  [type |-> "content", id |-> id, state |-> NextState(state, 1), slots |-> slots,
   cursor |-> inv.cursor]
CursorPacket == IF inv.dirty.cursor THEN <<[type |-> "cursor", cursor |-> inv.cursor]>> ELSE <<>>

\* What stays marked under a menu, for when it is closed.
Kept == IF inv.dirty.full THEN Hidden ELSE inv.dirty.slots \cap Hidden

NextContainerId == (lastId % MaxId) + 1

SyncMenu ==
  LET new == open.id = 0
      id == IF new THEN NextContainerId ELSE open.id
      window == WindowOf(open.slots, inv.slots)
      screen == IF new \/ open.title THEN <<[type |-> "open", id |-> id, gen |-> open.gen]>>
                ELSE <<>>
      marked == open.marked \cup {i - Gear + MenuSize : i \in inv.dirty.slots \cap Visible}
      whole == new \/ open.title \/ open.full \/ inv.dirty.full
  IN /\ down' = down \o screen \o
                IF whole THEN <<Content(id, open.state, window)>>
                ELSE SlotPackets(id, open.state, marked, window) \o CursorPacket
     /\ open' = [open EXCEPT !.id = id, !.full = FALSE, !.title = FALSE, !.marked = {},
                   !.state = NextState(@, IF whole THEN 1 ELSE Cardinality(marked))]
     /\ inv' = [inv EXCEPT !.dirty = [Clean EXCEPT !.slots = Kept]]
     /\ lastId' = id

SyncInventory ==
  LET whole == inv.dirty.full \/ Cardinality(inv.dirty.slots) > Size \div 2
  IN /\ down' = down \o IF whole THEN <<Content(0, inv.state, inv.slots)>>
                        ELSE SlotPackets(0, inv.state, inv.dirty.slots, inv.slots)
                             \o CursorPacket
     /\ inv' = [inv EXCEPT !.dirty = Clean,
                  !.state = NextState(@, IF whole THEN 1 ELSE Cardinality(inv.dirty.slots))]
     /\ UNCHANGED <<open, lastId>>

Sync ==
  /\ phase = "update" /\ clicks = <<>> /\ phase' = "ingest"
  /\ IF IsOpen THEN SyncMenu ELSE SyncInventory
  /\ UNCHANGED <<clicks, closed, thrown, made, client, up, done>>

\* What may happen when the player makes the clicks of a set.
StepWith(some) ==
  \/ \E click \in some : ClientClicks(click)
  \/ ClientCloses \/ ClientReads
  \/ InventoryClick \/ MenuClick \/ IgnoreClick \/ ReceiveClose \/ Quit
  \/ GameOpens \/ GameCloses
  \/ \E i \in 0..Size - 1 : TakeStack(i)
  \/ \E s \in 0..MenuSize - 1 : \E stack \in {Empty} \cup {o[s] : o \in Offers} : EditMenu(s, stack)
  \/ \E x \in Items : PickupItems(x)
  \/ DrainClick \/ EndAnswer \/ EndIngest \/ Sync

Next == StepWith(Clicks)

Spec == Init /\ [][Next]_vars
-----------------------------------------------------------------------------
\* Items are moved, never lost or doubled: what is in the inventory, on the cursor, in the
\* open menu and on the ground is what the game brought into the world, whatever clicks,
\* drags, closes and replacements did to it (window.rs, on_menu_removed).  Only a creative
\* player makes items.
Conserved ==
  phase # "gone" /\ ~Creative =>
    \A x \in Items :
      made[x] = Count(inv.slots, x) + OfStack(inv.cursor, x) + thrown[x]
                + IF IsOpen THEN Count(open.slots, x) ELSE 0

\* Once nothing is marked or on its way, the client shows the window that is open, its slots and the
\* cursor as the server has them, although it applied clicks the server ignored, cancelled
\* or applied to other contents (sync_containers, the marks, the state ids).
Unmarked ==
  IF IsOpen
  THEN /\ open.id # 0 /\ ~open.full /\ ~open.title /\ open.marked = {}
       /\ ~inv.dirty.full /\ ~inv.dirty.cursor /\ inv.dirty.slots \subseteq Hidden
  ELSE inv.dirty = Clean
Settled ==
  (phase = "ingest" /\ Unmarked /\ up = <<>> /\ down = <<>>) =>
    /\ client.win = open.id
    /\ client.cursor = inv.cursor
    /\ Shown = IF IsOpen THEN WindowOf(open.slots, inv.slots) ELSE inv.slots

\* The player waits for the answer to a click before the next one, and no state id comes round
\* while the click that carries it is on its way.
Clicked == Len(up') > Len(up) /\ up'[Len(up')].type = "click"
Waits == Clicked => up = <<>> /\ down = <<>> /\ Unmarked
StateId == IF open.id # 0 THEN open.state ELSE inv.state
Steady ==
  \A k \in DOMAIN up' :
    up'[k].type = "click" /\ up'[k].id = open.id /\ open'.id = open.id /\ StateId' = up'[k].state
      => StateId = up'[k].state

\* A click is handled for the menu the player made it in, never for one that took its place
\* since (handle_container_click, drain_menu_clicks).
ClickInItsMenu ==
  [][clicks' # clicks /\ clicks # <<>> /\ Len(clicks') < Len(clicks)
     /\ Answers(Head(clicks)) => Head(clicks).gen = open.gen]_vars

\* Every menu that was announced is reported closed once, in whatever way it went.
ClosedOnce ==
  /\ \A j, k \in DOMAIN closed : closed[j] = closed[k] => j = k
  /\ client.gen # 0 => client.gen = open.gen \/ client.gen \in {closed[k] : k \in DOMAIN closed}
=============================================================================
