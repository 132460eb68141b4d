----------------------------- MODULE Persistence -----------------------------
(***************************************************************************)
(* The chunks of one region from edit to file and back: chunk entities and  *)
(* their ChunkDirty markers (void), the periodic save, the flush on exit    *)
(* and the loader (void-world-io/src/systems.rs, store.rs), over the        *)
(* RegionFile they share.  The process may stop, be killed and be started   *)
(* again.  A flush runs inside one system: nothing edits chunks meanwhile,  *)
(* but chunk streaming may load others between two writes (the store's      *)
(* mutex is held for one read or one write).                                *)
(***************************************************************************)
EXTENDS RegionFile, SequencesExt

CONSTANTS
  Sizes,         \* sectors a chunk may take
  SaveInterval,  \* save_interval_ticks
  MaxSaves,      \* max_saves_per_flush, 0 for no limit
  Versions,      \* bound: the versions of a chunk are numbered round this many
  MaxEdits,      \* bound: edits in all, 0 for no bound
  MaxStops       \* bound: exits and kills

ASSUME PersistenceAssumption ==
  /\ Sizes \subseteq Nat \ {0} /\ SaveInterval \in Nat /\ MaxSaves \in Nat
  /\ Versions \in Nat \ {0} /\ MaxEdits \in Nat /\ MaxStops \in Nat

VARIABLES
  mode,    \* "up", "saving", "exiting" (the flush on exit), "down"
  mem,     \* the chunk entities: their content, or Nothing when not loaded
  dirty,   \* the entities marked ChunkDirty, in the order a query visits them
  ticker,  \* SaveTicker
  queue,   \* chunks the flush has still to visit
  saved,   \* chunks the flush has saved, whose markers it will remove
  edits,   \* edits so far
  stops    \* exits and kills so far

ecsVars == <<mode, mem, dirty, ticker, queue, saved>>
vars == <<fileVars, ecsVars, edits, stops>>

(* What the generator makes of a chunk *)
Generated(c) == [of |-> c, ver |-> 0, size |-> 1]

Init ==
  /\ FileInit
  /\ mode = "up" /\ mem = [c \in Chunks |-> Nothing] /\ dirty = <<>> /\ ticker = 0
  /\ queue = <<>> /\ saved = <<>> /\ edits = 0 /\ stops = 0

Loaded == {c \in Chunks : mem[c] # Nothing}
Dirty(c) == c \in ToSet(dirty)

-----------------------------------------------------------------------------
(* load_or_generate: what cannot be read or decoded is generated anew, and  *)
(* a chunk that was loaded is not marked.                                   *)
LoadOrGenerate(c) == IF ReadChunk(c) = Nothing THEN Generated(c) ELSE ReadChunk(c)

(* stream_chunks, or init_world, wants a chunk for the first time. *)
Load(c) ==
  /\ mode \in {"up", "saving"} /\ write = Idle
  /\ c \notin Loaded
  /\ mem' = [mem EXCEPT ![c] = LoadOrGenerate(c)]
  /\ UNCHANGED <<fileVars, mode, dirty, ticker, queue, saved, edits, stops>>

(* Inserting a marker that is there moves nothing. *)
Marked(c) == IF Dirty(c) THEN dirty ELSE Append(dirty, c)

(* mutate_block, set_biome: the content changes and the entity is marked. *)
Edit(c, n) ==
  /\ mode = "up"
  /\ c \in Loaded
  /\ edits < MaxEdits \/ MaxEdits = 0
  /\ edits' = IF MaxEdits = 0 THEN 0 ELSE edits + 1
  /\ mem' = [mem EXCEPT ![c] = [of |-> mem[c].of, ver |-> (mem[c].ver % Versions) + 1,
                                size |-> n]]
  /\ dirty' = Marked(c)
  /\ UNCHANGED <<fileVars, mode, ticker, queue, saved, stops>>

-----------------------------------------------------------------------------
(* save_dirty_chunks, every SaveInterval ticks *)
SaveTick ==
  /\ mode = "up"
  /\ IF ticker + 1 < SaveInterval
     THEN /\ ticker' = ticker + 1
          /\ UNCHANGED <<mode, queue>>
     ELSE /\ ticker' = 0
          /\ mode' = "saving" /\ queue' = dirty
  /\ UNCHANGED <<fileVars, mem, dirty, saved, edits, stops>>

(* flush_on_exit: in the Last schedule of the tick that wrote AppExit *)
Exit ==
  /\ mode = "up"
  /\ stops < MaxStops
  /\ stops' = stops + 1
  /\ mode' = "exiting" /\ queue' = dirty
  /\ UNCHANGED <<fileVars, mem, dirty, ticker, saved, edits>>

(* Fault: the limit of a periodic save also holds on exit. *)
LimitAlways == MaxSaves # 0 /\ Len(saved) >= MaxSaves

(* Fault: a limit of 0 is taken as it is. *)
LimitLiteral == mode = "saving" /\ Len(saved) >= MaxSaves

Flushing == mode \in {"saving", "exiting"}
LimitReached == mode = "saving" /\ MaxSaves # 0 /\ Len(saved) >= MaxSaves
Visiting == Flushing /\ write = Idle /\ queue # <<>> /\ ~LimitReached

(* Fault: the marker of a chunk that cannot be saved is removed too. *)
VisitClears ==
  /\ Visiting
  /\ queue' = Tail(queue)
  /\ IF mem[Head(queue)].size > MaxRun
     THEN saved' = Append(saved, Head(queue)) /\ UNCHANGED fileVars
     ELSE BeginWrite(Head(queue), mem[Head(queue)]) /\ UNCHANGED saved
  /\ UNCHANGED <<mode, mem, dirty, ticker, edits, stops>>

(* flush_dirty goes on to the next entity: save_chunk starts its write, or  *)
(* fails at once on a chunk that takes too many sectors.                    *)
Visit ==
  /\ Visiting
  /\ queue' = Tail(queue)
  /\ IF mem[Head(queue)].size > MaxRun
     THEN UNCHANGED fileVars
     ELSE BeginWrite(Head(queue), mem[Head(queue)])
  /\ UNCHANGED <<mode, mem, dirty, ticker, saved, edits, stops>>

(* The payload is written, or the save fails and the marker stays. *)
Data == (WriteData \/ DataFails) /\ UNCHANGED <<ecsVars, edits, stops>>

(* The save is Ok, and its marker will be removed, or fails this late. *)
Header ==
  /\ \/ WriteHeader /\ saved' = Append(saved, write.chunk)
     \/ HeaderFails /\ UNCHANGED saved
  /\ UNCHANGED <<mode, mem, dirty, ticker, queue, edits, stops>>

(* Removing a marker takes the entity out of the table of marked entities:  *)
(* the last one takes its place.                                            *)
SwapRemove(s, c) ==
  LET i == CHOOSE j \in DOMAIN s : s[j] = c
  IN  [j \in 1..(Len(s) - 1) |-> IF j = i THEN s[Len(s)] ELSE s[j]]

(* flush_dirty breaks off, leaving the rest for the next flush. *)
Break ==
  /\ LimitReached /\ write = Idle /\ queue # <<>>
  /\ queue' = <<>>
  /\ UNCHANGED <<fileVars, mode, mem, dirty, ticker, saved, edits, stops>>

(* The commands of the flush are applied, one by one. *)
Clear ==
  /\ Flushing /\ write = Idle /\ queue = <<>> /\ saved # <<>>
  /\ dirty' = SwapRemove(dirty, Head(saved)) /\ saved' = Tail(saved)
  /\ UNCHANGED <<fileVars, mode, mem, ticker, queue, edits, stops>>

(* The flush is over; after the one on exit the process stops. *)
EndFlush ==
  /\ Flushing /\ write = Idle /\ queue = <<>> /\ saved = <<>>
  /\ mode' = IF mode = "saving" THEN "up" ELSE "down"
  /\ UNCHANGED <<fileVars, mem, dirty, ticker, queue, saved, edits, stops>>

-----------------------------------------------------------------------------
Kill ==
  /\ mode # "down"
  /\ stops < MaxStops
  /\ stops' = stops + 1
  /\ FileKilled
  /\ mode' = "down"
  /\ mem' = [c \in Chunks |-> Nothing]
  /\ dirty' = <<>> /\ queue' = <<>> /\ saved' = <<>>
  /\ UNCHANGED <<ticker, edits>>

(* The server is started again: the region file is opened anew. *)
Start ==
  /\ mode = "down"
  /\ Opened
  /\ mode' = "up" /\ ticker' = 0 /\ dirty' = <<>>
  /\ mem' = [c \in Chunks |-> Nothing]
  /\ UNCHANGED <<queue, saved, edits, stops>>

-----------------------------------------------------------------------------
Next ==
  \/ \E c \in Chunks : Load(c)
  \/ \E c \in Chunks, n \in Sizes : Edit(c, n)
  \/ SaveTick \/ Exit \/ Visit \/ Data \/ Header
  \/ Break \/ Clear \/ EndFlush \/ Kill \/ Start

Spec == Init /\ [][Next]_vars

(* The tick loop runs, a flush is finished unless the process is killed, and *)
(* no one is obliged to edit, stop or start anything.                        *)
Ticking ==
  /\ WF_vars(SaveTick) /\ WF_vars(Visit) /\ WF_vars(Data) /\ WF_vars(Header)
  /\ WF_vars(Break) /\ WF_vars(Clear) /\ WF_vars(EndFlush)
-----------------------------------------------------------------------------
TypeOK ==
  /\ head \in [Chunks -> Locs] /\ locations \in [Chunks -> Locs]
  /\ disk \in [Sectors -> Pieces] /\ length \in HeaderSectors..(MaxSector + 1)
  /\ used \subseteq 0..MaxSector /\ total \in HeaderSectors..(MaxSector + 1)
  /\ write.step \in {"idle", "data", "header"} /\ (write = Idle <=> write.step = "idle")
  /\ \A c \in Chunks : {mem[c], stored[c], tried[c]} \subseteq Payloads \cup {Nothing}
  /\ mode \in {"up", "saving", "exiting", "down"}
  /\ ToSet(dirty) \subseteq Loaded /\ IsInjective(dirty) /\ IsInjective(saved \o queue)
  /\ ToSet(saved) \cup ToSet(queue) \subseteq ToSet(dirty)
  /\ ticker \in 0..SaveInterval /\ failures \in 0..MaxFailures /\ edits \in 0..MaxEdits /\ stops \in 0..MaxStops

(* A chunk that is not marked and not waiting for its marker to be removed  *)
(* would be loaded again as it is: an edit is never forgotten by a flush.   *)
CleanIsStored ==
  write = Idle =>
    \A c \in Loaded : ~Dirty(c) \/ c \in ToSet(saved) => mem[c] = LoadOrGenerate(c)

(* "On shutdown [...] every remaining dirty chunk is flushed": after a stop *)
(* without a kill, a start finds what was in memory, chunks too large for   *)
(* the file aside.                                                          *)
ExitKeepsAll ==
  [][mode = "exiting" /\ mode' = "down" /\ stops' = stops =>
       \A c \in Loaded : mem[c].size <= MaxRun => mem[c] = LoadOrGenerate(c)']_vars

(* "A save system periodically writes every dirty chunk to disk and clears  *)
(* the marker": a marked chunk is saved, or the process stops.              *)
EverySaved ==
  \A c \in Chunks :
    Dirty(c) /\ mem[c].size <= MaxRun
      ~> \/ ~Dirty(c) \/ mode \in {"exiting", "down"} \/ mem[c].size > MaxRun
=============================================================================
