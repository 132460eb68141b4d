----------------------------- MODULE MCTeleport -----------------------------
(* Three places: a spawn, a place two chunks wide elsewhere, and a place of *)
(* another dimension at the chunk of the spawn.                             *)
EXTENDS Teleport

CONSTANTS home, away, below, k1, k2, k3

MCPlaces == {home, away, below}
MCCenter == [p \in MCPlaces |-> IF p = away THEN k2 ELSE k1]
MCNear == [p \in MCPlaces |-> IF p = away THEN {k2, k3} ELSE {k1}]
MCDim == [p \in MCPlaces |-> IF p = below THEN "nether" ELSE "overworld"]
MCBudgets == {0, 1}
=============================================================================
