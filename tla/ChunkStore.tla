----------------------------- MODULE ChunkStore -----------------------------
(***************************************************************************)
(* What the ChunkStore trait promises (void-world-io/src/store.rs): read    *)
(* returns the payload saved last for a chunk, or none, and a write changes *)
(* that chunk only.                                                         *)
(***************************************************************************)
CONSTANTS Chunks, Payloads, Nothing

VARIABLE saved

Init == saved = [c \in Chunks |-> Nothing]

Write(c) ==
  /\ saved' = [saved EXCEPT ![c] = saved'[c]]
  /\ saved'[c] \in {p \in Payloads : p.of = c}

Next == \E c \in Chunks : Write(c)

Spec == Init /\ [][Next]_saved
=============================================================================
