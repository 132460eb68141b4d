----------------------------- MODULE RegionFile -----------------------------
(***************************************************************************)
(* One sectorized region file, void-world-io/src/region/file.rs, with the   *)
(* operations of write_chunk on its file as separate steps, so that the     *)
(* process may die, or a write fail, between them.  A payload stands for    *)
(* the compressed chunk: whose it is, which version, how many sectors it    *)
(* takes.  Timestamps are left out: nothing reads them.  Writes that were   *)
(* issued survive the death of the process (sync_all guards against the     *)
(* loss of power, which is not modelled).                                   *)
(***************************************************************************)
EXTENDS Integers, FiniteSets, Sequences

CONSTANTS
  Chunks,       \* the chunks of the region
  MaxRun,       \* largest sector count of a location entry (255)
  MaxSector,    \* bound: the file ends at this sector
  KillMidWrite, \* TRUE: the process may die between the steps of write_chunk
  MaxFailures   \* bound: writes to the file that fail, 0 for a sound disk

HeaderSectors == 2

ASSUME RegionAssumption ==
  /\ MaxRun \in Nat \ {0} /\ MaxSector \in Nat /\ MaxSector > HeaderSectors
  /\ KillMidWrite \in BOOLEAN /\ MaxFailures \in Nat

Sectors == HeaderSectors..MaxSector

VARIABLES
  head,       \* location entries in the file
  disk,       \* what each payload sector holds
  length,     \* sectors the file has
  locations,  \* RegionFile::locations
  used,       \* RegionFile::used, the sectors marked
  total,      \* used.len()
  write,      \* the write_chunk in progress, or Idle
  failures,   \* writes to the file that failed
  stored,     \* the last payload whose write returned Ok, per chunk
  tried       \* the last payload whose write began, per chunk

diskVars == <<head, disk, length>>
memoryVars == <<locations, used, total>>
fileVars == <<diskVars, memoryVars, write, failures, stored, tried>>

(* A location entry; the entry 0 is "no chunk". *)
NoLoc == [off |-> 0, cnt |-> 0]
Locs == [off : Nat, cnt : 0..MaxRun]
Run(loc) == loc.off .. (loc.off + loc.cnt - 1)

Payloads == [of : Chunks, ver : Nat, size : Nat \ {0}]
Nothing == [of |-> {}, ver |-> 0, size |-> 0]
Blank == [is |-> Nothing, part |-> 0]
Pieces == [is : Payloads, part : Nat \ {0}] \cup {Blank}
Piece(p, i) == [is |-> p, part |-> i]

Idle == [chunk |-> {}, payload |-> Nothing, at |-> 0, step |-> "idle"]

FileInit ==
  /\ head = [c \in Chunks |-> NoLoc] /\ disk = [s \in Sectors |-> Blank]
  /\ length = HeaderSectors
  /\ locations = head /\ used = 0..(HeaderSectors - 1) /\ total = HeaderSectors
  /\ write = Idle /\ failures = 0
  /\ stored = [c \in Chunks |-> Nothing] /\ tried = stored

-----------------------------------------------------------------------------
(* read_chunk and the decoding after it: the payload is there when it       *)
(* starts at the sector and none of its sectors holds something else.       *)
PayloadAt(off) ==
  LET p == IF off \in Sectors THEN disk[off] ELSE Blank
      whole == \A i \in 1..p.is.size :
                 off + i - 1 \in Sectors /\ disk[off + i - 1] = Piece(p.is, i)
  IN  IF p.part = 1 /\ whole THEN p.is ELSE Nothing

ReadChunk(c) == IF locations[c] = NoLoc THEN Nothing ELSE PayloadAt(locations[c].off)

-----------------------------------------------------------------------------
(* Fault: a free run may lack its last sector. *)
FreeRunsShort(marked, n) ==
  {s \in HeaderSectors..(total - 1) : s + n <= total /\ s..(s + n - 2) \cap marked = {}}

(* allocate: the first run of n unmarked sectors, else the end of the file. *)
FreeRuns(marked, n) ==
  {s \in HeaderSectors..(total - 1) : s + n <= total /\ s..(s + n - 1) \cap marked = {}}

Allocate(marked, n) ==
  LET runs == FreeRuns(marked, n)
  IN  IF runs = {} THEN total ELSE CHOOSE s \in runs : \A t \in runs : s <= t

(* Fault: a payload one sector longer than the run is written in place. *)
FitsLoosely(c, n) == locations[c] # NoLoc /\ locations[c].cnt + 1 >= n

Fits(c, n) == locations[c] # NoLoc /\ locations[c].cnt >= n

(* write_chunk up to its first write: the run is chosen in memory. *)
BeginWrite(c, p) ==
  LET n == p.size
      marked == IF Fits(c, n) THEN used ELSE used \ Run(locations[c])
      off == IF Fits(c, n) THEN locations[c].off ELSE Allocate(marked, n)
  IN  /\ write = Idle
      /\ n <= MaxRun
      /\ off + n - 1 <= MaxSector
      /\ used' = marked \cup off..(off + n - 1)
      /\ total' = IF off + n > total THEN off + n ELSE total
      /\ write' = [chunk |-> c, payload |-> p, at |-> off, step |-> "data"]
      /\ tried' = [tried EXCEPT ![c] = p]
      /\ UNCHANGED <<diskVars, locations, failures, stored>>

(* The first k sectors of the payload are in the file. *)
Put(k) ==
  /\ disk' = [s \in Sectors |->
                IF s \in write.at..(write.at + k - 1)
                THEN Piece(write.payload, s - write.at + 1) ELSE disk[s]]
  /\ length' = IF k > 0 /\ write.at + k > length THEN write.at + k ELSE length

WriteData ==
  /\ write.step = "data"
  /\ Put(write.payload.size)
  /\ write' = [write EXCEPT !.step = "header"]
  /\ UNCHANGED <<head, memoryVars, failures, stored, tried>>

Entry == [off |-> write.at, cnt |-> write.payload.size]

(* The location entry is set in memory and in the file: Ok is returned. *)
WriteHeader ==
  /\ write.step = "header"
  /\ locations' = [locations EXCEPT ![write.chunk] = Entry]
  /\ head' = [head EXCEPT ![write.chunk] = Entry]
  /\ stored' = [stored EXCEPT ![write.chunk] = write.payload]
  /\ write' = Idle
  /\ UNCHANGED <<disk, length, used, total, failures, tried>>

-----------------------------------------------------------------------------
(* The write of the payload fails after some of its sectors: write_chunk    *)
(* returns with the new run marked, the old one not, and the entry as is.   *)
DataFails ==
  /\ failures < MaxFailures
  /\ failures' = failures + 1
  /\ write.step = "data"
  /\ \E k \in 0..(write.payload.size - 1) : Put(k)
  /\ write' = Idle
  /\ UNCHANGED <<head, memoryVars, stored, tried>>

(* The write of the entry, or of its timestamp, fails: memory has it, the   *)
(* file may not.                                                            *)
HeaderFails ==
  /\ failures < MaxFailures
  /\ failures' = failures + 1
  /\ write.step = "header"
  /\ locations' = [locations EXCEPT ![write.chunk] = Entry]
  /\ \/ head' = [head EXCEPT ![write.chunk] = Entry]
     \/ head' = head
  /\ write' = Idle
  /\ UNCHANGED <<disk, length, used, total, stored, tried>>

(* The process dies; sectors of a payload being written may be in the file. *)
FileKilled ==
  /\ write = Idle \/ KillMidWrite
  /\ IF write.step = "data"
     THEN \E k \in 0..write.payload.size : Put(k)
     ELSE UNCHANGED <<disk, length>>
  /\ write' = Idle
  /\ UNCHANGED <<head, memoryVars, failures, stored, tried>>

(* Fault: the runs of the chunks are not marked when the file is opened. *)
OpenedUnmarked ==
  /\ write = Idle
  /\ locations' = head
  /\ used' = 0..(HeaderSectors - 1) /\ total' = length
  /\ UNCHANGED <<diskVars, write, failures, stored, tried>>

(* open: memory is rebuilt from the header and the length of the file. *)
Opened ==
  /\ write = Idle
  /\ locations' = head
  /\ used' = 0..(HeaderSectors - 1) \cup UNION {Run(head[c]) : c \in Chunks}
  /\ LET ends == {length, HeaderSectors} \cup {head[c].off + head[c].cnt : c \in Chunks}
     IN  total' = CHOOSE n \in ends : \A m \in ends : m <= n
  /\ UNCHANGED <<diskVars, write, failures, stored, tried>>

FileNext ==
  \/ \E c \in Chunks : \E p \in Payloads : p.of = c /\ BeginWrite(c, p)
  \/ WriteData \/ WriteHeader \/ DataFails \/ HeaderFails \/ FileKilled \/ Opened

FileSpec == FileInit /\ [][FileNext]_fileVars

-----------------------------------------------------------------------------
(* The sectors being written, none between writes *)
WriteRun == write.at..(write.at + write.payload.size - 1)

(* The sectors of two chunks never meet, in memory or in the file, and      *)
(* every sector of a chunk is marked used, as those being written are; only *)
(* the chunk being written may have an old run that is not marked any more. *)
(* So what allocate hands out is nobody's.                                  *)
NoOverlap ==
  /\ \A c, d \in Chunks : c # d =>
       /\ Run(locations[c]) \cap Run(locations[d]) = {}
       /\ Run(head[c]) \cap Run(head[d]) = {}
       /\ write.chunk = c => WriteRun \cap Run(locations[d]) = {}
  /\ \A c \in Chunks : write.chunk # c => Run(locations[c]) \cup Run(head[c]) \subseteq used
  /\ WriteRun \subseteq used

(* What is read back for a chunk is the last payload saved for it, or the   *)
(* one whose save was cut short or failed: neither an older one, nor        *)
(* another chunk's, nor nothing.                                            *)
SavedSurvives ==
  write = Idle => \A c \in Chunks : ReadChunk(c) \in {stored[c], tried[c]}

(* "Reads and decompresses the chunk payload at (cx, cz), if present":      *)
(* what is read for a chunk was written for it.                             *)
OwnPayload ==
  write = Idle => \A c \in Chunks : ReadChunk(c) # Nothing => ReadChunk(c).of = c

(* What a reader of the store is shown: reads wait for the write in progress. *)
Shown == [c \in Chunks |-> IF write.chunk = c THEN stored[c] ELSE ReadChunk(c)]

(* The file is the ChunkStore it stands for: a write shows when it is done, *)
(* and for its chunk only.                                                  *)
Store == INSTANCE ChunkStore WITH saved <- Shown
StoreSpec == Store!Spec
=============================================================================
