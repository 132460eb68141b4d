--------------------------- MODULE ClientLifecycle ---------------------------
(***************************************************************************)
(* What the connection layer promises the rest of the server about each    *)
(* client, without channels, tasks or ticks: it is linked when accepted,    *)
(* gets an entity with its first packet, may become ready, leaves once and  *)
(* for good, is announced as having quit exactly if it was ready, and sees  *)
(* the packets sent to it in order until it leaves.                         *)
(***************************************************************************)
EXTENDS Naturals

CONSTANT Clients

VARIABLES
  phase,   \* phase[c]: "absent", "linked", "joined", "ready" or "gone"
  quits,   \* clients announced as having quit
  seen     \* seen[c]: number of the last packet c was written

vars == <<phase, quits, seen>>

Phases == {"absent", "linked", "joined", "ready", "gone"}

Init ==
  /\ phase = [c \in Clients |-> "absent"]
  /\ quits = {}
  /\ seen = [c \in Clients |-> 0]

Become(c, from, to) ==
  /\ phase[c] \in from
  /\ phase' = [phase EXCEPT ![c] = to]
  /\ UNCHANGED seen

Link(c) == Become(c, {"absent"}, "linked") /\ UNCHANGED quits
Join(c) == Become(c, {"linked"}, "joined") /\ UNCHANGED quits
GetReady(c) == Become(c, {"joined"}, "ready") /\ UNCHANGED quits

Leave(c) ==
  /\ Become(c, {"linked", "joined", "ready"}, "gone")
  /\ quits' = IF phase[c] = "ready" THEN quits \cup {c} ELSE quits

See(c) ==
  /\ phase[c] \in {"joined", "ready"}
  /\ seen' = [seen EXCEPT ![c] = @ + 1]
  /\ UNCHANGED <<phase, quits>>

Next == \E c \in Clients :
          Link(c) \/ Join(c) \/ GetReady(c) \/ Leave(c) \/ See(c)

Spec == Init /\ [][Next]_vars
=============================================================================
