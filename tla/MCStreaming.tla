----------------------------- MODULE MCStreaming -----------------------------
(* An instance of Streaming: a line of chunks that is only partly generated *)
(* at startup, and two players who share the generation cap.               *)
EXTENDS Streaming

CONSTANTS Low, High

MCColumn == Low..High
=============================================================================
