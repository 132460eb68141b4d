-------------------------- MODULE PersistenceProofs --------------------------
(***************************************************************************)
(* The region file and the saving of chunks to it, on a sound disk and      *)
(* unless the process dies inside write_chunk, for any chunks, sectors,     *)
(* limits and numbers of edits, saves, kills and restarts: the file keeps   *)
(* every chunk apart from the others and gives back what was saved last, no *)
(* flush forgets an edit, and the one on exit leaves nothing behind.        *)
(***************************************************************************)
EXTENDS Persistence, WellFoundedInduction, TLAPS

(* What the theorems assume of the disk and of the process *)
Sound == MaxFailures = 0 /\ ~KillMidWrite

-----------------------------------------------------------------------------
(* The inductive invariant of the file *)

Busy == write.step # "idle"

(* The file's header is the one in memory; entries lie in the file. *)
Entries ==
  /\ failures \in Nat
  /\ head = locations
  /\ length \in Nat /\ total \in Nat /\ length >= HeaderSectors /\ total >= HeaderSectors
  /\ locations \in [Chunks -> Locs]
  /\ \A c \in Chunks : locations[c] # NoLoc =>
       /\ locations[c].cnt >= 1
       /\ locations[c].off >= HeaderSectors
       /\ locations[c].off + locations[c].cnt <= length
       /\ locations[c].off + locations[c].cnt <= total
       /\ locations[c].off + locations[c].cnt - 1 <= MaxSector

(* The write in progress has a run of its own in the file. *)
Writing ==
  /\ write = Idle \/ write \in [chunk : Chunks, payload : Payloads, at : Nat,
                                step : {"data", "header"}]
  /\ Busy =>
       /\ write.at >= HeaderSectors
       /\ write.at + write.payload.size <= total
       /\ write.at + write.payload.size - 1 <= MaxSector
       /\ write.payload.size <= MaxRun
       /\ write.payload.of = write.chunk
       /\ WriteRun \subseteq used
  /\ write.step = "header" => write.at + write.payload.size <= length

(* Every sector of a chunk is marked, those of the one being moved aside. *)
Marks ==
  /\ used \subseteq 0..(total - 1)
  /\ \A c \in Chunks : ~(Busy /\ write.chunk = c) => Run(locations[c]) \subseteq used

Apart ==
  \A c, d \in Chunks : c # d =>
    /\ Run(locations[c]) \cap Run(locations[d]) = {}
    /\ Busy /\ write.chunk = c => WriteRun \cap Run(locations[d]) = {}

Holds(off, p) == \A i \in 1..p.size : disk[off + i - 1] = Piece(p, i)

(* The run of a chunk holds what was stored for it. *)
Contents ==
  /\ stored \in [Chunks -> Payloads \cup {Nothing}]
  /\ \A c \in Chunks :
       /\ stored[c] = Nothing <=> locations[c] = NoLoc
       /\ stored[c] # Nothing =>
            /\ stored[c].size = locations[c].cnt
            /\ stored[c].of = c
            /\ ~(Busy /\ write.chunk = c) => Holds(locations[c].off, stored[c])
  /\ write.step = "header" => Holds(write.at, write.payload)

FileInv == Entries /\ Writing /\ Marks /\ Apart /\ Contents

-----------------------------------------------------------------------------
(* allocate returns sectors that are past the header and not marked. *)
LEMMA AllocateFree ==
  ASSUME total \in Nat, total >= HeaderSectors,
         NEW marked, marked \subseteq 0..(total - 1), NEW n \in Nat \ {0}
  PROVE  /\ Allocate(marked, n) \in Nat
         /\ Allocate(marked, n) >= HeaderSectors
         /\ Allocate(marked, n)..(Allocate(marked, n) + n - 1) \cap marked = {}
<1> DEFINE runs == FreeRuns(marked, n)
<1>1. CASE runs = {}
  <2>1. Allocate(marked, n) = total  BY <1>1 DEF Allocate
  <2> QED BY <2>1 DEF HeaderSectors
<1>2. CASE runs # {}
  <2>1. runs \subseteq Nat  BY DEF FreeRuns, HeaderSectors
  <2>2. \E x \in runs : \A y \in runs : ~ (<<y, x>> \in OpToRel(<, Nat))
    <3> HIDE DEF runs
    <3> QED BY <2>1, <1>2, NatLessThanWellFounded, WFMin
  <2>3. PICK x \in runs : \A y \in runs : ~ (<<y, x>> \in OpToRel(<, Nat))  BY <2>2
  <2>4. \A y \in runs : x <= y
    <3> SUFFICES ASSUME NEW y \in runs PROVE x <= y  OBVIOUS
    <3>1. x \in Nat /\ y \in Nat  BY <2>1, <2>3
    <3>2. ~ (y < x)  BY <3>1, <2>3 DEF OpToRel
    <3> QED BY <3>1, <3>2
  <2>5. Allocate(marked, n) = CHOOSE s \in runs : \A t \in runs : s <= t
    BY <1>2 DEF Allocate
  <2>6. Allocate(marked, n) \in runs
    <3> HIDE DEF runs
    <3> QED BY <2>3, <2>4, <2>5
  <2> QED BY <2>6 DEF FreeRuns, HeaderSectors
<1> QED BY <1>1, <1>2

-----------------------------------------------------------------------------
(* Choosing a run: in place or among the free sectors, it meets no sector   *)
(* of another chunk.                                                        *)
LEMMA BeginKeeps ==
  ASSUME FileInv, NEW c \in Chunks, NEW p \in Payloads, p.of = c, BeginWrite(c, p)
  PROVE  FileInv'
<1> DEFINE n == p.size
           marked == IF Fits(c, n) THEN used ELSE used \ Run(locations[c])
           off == IF Fits(c, n) THEN locations[c].off ELSE Allocate(marked, n)
           run == off..(off + n - 1)
<1>1. write = Idle /\ ~Busy  BY DEF BeginWrite, Idle, Busy
<1>2. n \in Nat \ {0} /\ n <= MaxRun  BY DEF BeginWrite, Payloads
<1>3. \A d \in Chunks : locations[d] \in Locs /\ Run(locations[d]) \subseteq used
  BY <1>1 DEF FileInv, Entries, Marks
<1>4. marked \subseteq 0..(total - 1)  BY DEF FileInv, Marks
<1>5. /\ off \in Nat /\ off >= HeaderSectors
      /\ \A d \in Chunks : d # c => run \cap Run(locations[d]) = {}
                                 /\ Run(locations[d]) \subseteq marked
  <2>1. \A d \in Chunks : d # c => Run(locations[c]) \cap Run(locations[d]) = {}
    BY DEF FileInv, Apart
  <2>2. CASE Fits(c, n)
    <3>1. off = locations[c].off /\ marked = used  BY <2>2
    <3>2. locations[c] # NoLoc /\ n <= locations[c].cnt  BY <2>2 DEF Fits
    <3>3. off \in Nat /\ off >= HeaderSectors /\ locations[c].cnt \in Nat
      BY <3>1, <3>2, <1>3, RegionAssumption DEF FileInv, Entries, Locs
    <3>4. run \subseteq Run(locations[c])  BY <3>1, <3>2, <3>3, <1>2 DEF Run
    <3> QED BY <3>1, <3>3, <3>4, <2>1, <1>3
  <2>3. CASE ~Fits(c, n)
    <3>1. marked = used \ Run(locations[c]) /\ off = Allocate(marked, n)  BY <2>3
    <3>2. off \in Nat /\ off >= HeaderSectors /\ run \cap marked = {}
      <4>1. total \in Nat /\ total >= HeaderSectors  BY DEF FileInv, Entries
      <4>2. PICK m \in SUBSET (0..(total - 1)) : m = marked  BY <1>4
      <4> HIDE DEF marked, off
      <4>3. /\ Allocate(m, n) \in Nat /\ Allocate(m, n) >= HeaderSectors
            /\ Allocate(m, n)..(Allocate(m, n) + n - 1) \cap m = {}
        BY <4>1, <1>2, AllocateFree
      <4> QED BY <3>1, <4>2, <4>3
    <3>3. \A d \in Chunks : d # c => Run(locations[d]) \subseteq marked
      BY <3>1, <1>3, <2>1
    <3> QED BY <3>2, <3>3
  <2> QED BY <2>2, <2>3
<1>6. /\ used' = marked \cup run
      /\ total' = IF off + n > total THEN off + n ELSE total
      /\ write' = [chunk |-> c, payload |-> p, at |-> off, step |-> "data"]
      /\ off + n - 1 <= MaxSector
      /\ UNCHANGED <<head, disk, length, locations, stored, failures>>
  BY DEF BeginWrite, diskVars
<1>7. Busy' /\ write'.chunk = c /\ write'.at = off /\ write'.payload = p
      /\ write'.step = "data" /\ WriteRun' = run
  BY <1>6 DEF Busy, WriteRun
<1> HIDE DEF marked, off
<1>8. total \in Nat /\ total' \in Nat /\ total' >= total /\ off + n <= total'
  BY <1>2, <1>5, <1>6 DEF FileInv, Entries
<1>9. Entries'
  BY <1>6, <1>8, <1>3, RegionAssumption DEF FileInv, Entries, HeaderSectors, Locs
<1>10. Writing'
  BY <1>2, <1>5, <1>6, <1>7, <1>8 DEF Writing
<1>11. Marks'
  <2>1. used' \subseteq 0..(total' - 1)
    <3>0. \A s, t \in Nat : s <= t => 0..(s - 1) \subseteq 0..(t - 1)  OBVIOUS
    <3>1. 0..(total - 1) \subseteq 0..(total' - 1)
      <4>1. total \in Nat /\ total' \in Nat /\ total <= total'  BY <1>8
      <4> QED BY <3>0, <4>1, Zenon
    <3>2. run \subseteq 0..(total' - 1)  BY <1>2, <1>5, <1>8 DEF HeaderSectors
    <3> QED BY <3>1, <3>2, <1>4, <1>6
  <2>2. ASSUME NEW d \in Chunks, d # c PROVE Run(locations[d])' \subseteq used'
    BY <2>2, <1>5, <1>6 DEF Run
  <2> QED BY <2>1, <2>2, <1>7 DEF Marks
<1>12. Apart'
  <2>1. locations' = locations  BY <1>6
  <2>2. \A d, e \in Chunks : d # e => Run(locations[d])' \cap Run(locations[e])' = {}
    BY <2>1 DEF FileInv, Apart, Run
  <2>3. \A e \in Chunks : c # e => WriteRun' \cap Run(locations[e])' = {}
    BY <2>1, <1>5, <1>7 DEF Run
  <2> QED BY <2>2, <2>3, <1>7 DEF Apart
<1>13. Contents'
  BY <1>1, <1>6, <1>7 DEF FileInv, Contents, Holds
<1> QED BY <1>9, <1>10, <1>11, <1>12, <1>13 DEF FileInv

(* Writing the payload touches the run of the write only. *)
LEMMA DataKeeps ==
  ASSUME FileInv, WriteData PROVE FileInv'
<1> DEFINE n == write.payload.size
<1>1. write.step = "data" /\ Busy  BY DEF WriteData, Busy
<1>2. write \in [chunk : Chunks, payload : Payloads, at : Nat, step : {"data", "header"}]
  BY <1>1 DEF FileInv, Writing, Idle
<1>3. n \in Nat \ {0} /\ write.at \in Nat  BY <1>2 DEF Payloads
<1>4. /\ disk' = [s \in Sectors |->
                    IF s \in WriteRun
                    THEN Piece(write.payload, s - write.at + 1) ELSE disk[s]]
      /\ length' = IF n > 0 /\ write.at + n > length THEN write.at + n ELSE length
      /\ write' = [write EXCEPT !.step = "header"]
      /\ UNCHANGED <<head, locations, used, total, stored, failures>>
  BY DEF WriteData, Put, memoryVars, WriteRun
<1>5. /\ write'.chunk = write.chunk /\ write'.at = write.at
      /\ write'.payload = write.payload /\ write'.step = "header"
      /\ write' \in [chunk : Chunks, payload : Payloads, at : Nat, step : {"data", "header"}]
  BY <1>2, <1>4
<1>6. Busy' /\ WriteRun' = WriteRun  BY <1>5 DEF Busy, WriteRun
<1>7. length \in Nat /\ length' \in Nat /\ length' >= length /\ write.at + n <= length'
  BY <1>3, <1>4 DEF FileInv, Entries
<1>8. Entries'
  BY <1>4, <1>7, RegionAssumption DEF FileInv, Entries, HeaderSectors, Locs
<1>9. Writing'
  BY <1>1, <1>3, <1>4, <1>5, <1>6, <1>7 DEF FileInv, Writing
<1>10. Marks'  BY <1>1, <1>4, <1>5, <1>6 DEF FileInv, Marks, Run
<1>11. Apart'  BY <1>1, <1>4, <1>5, <1>6 DEF FileInv, Apart, Run
<1>12. Contents'
  <2>1. Holds(write.at, write.payload)'
    <3> SUFFICES ASSUME NEW i \in 1..n
                 PROVE  disk'[write.at + i - 1] = Piece(write.payload, i)
      BY <1>5 DEF Holds
    <3>1. write.at + i - 1 \in WriteRun  BY <1>3 DEF WriteRun
    <3>2. write.at >= HeaderSectors /\ write.at + n - 1 <= MaxSector
      BY <1>1 DEF FileInv, Writing
    <3>3. write.at + i - 1 \in Sectors
      BY <3>2, <1>3, RegionAssumption DEF Sectors, HeaderSectors
    <3>4. (write.at + i - 1) - write.at + 1 = i  BY <1>3
    <3> QED BY <1>4, <3>1, <3>3, <3>4
  <2>2. ASSUME NEW c \in Chunks, stored[c] # Nothing, write.chunk # c
        PROVE  Holds(locations[c].off, stored[c])'
    <3> DEFINE q == stored[c]
               o == locations[c].off
    <3>1. q.size = locations[c].cnt /\ Holds(o, q) /\ locations[c] # NoLoc
      BY <2>2 DEF FileInv, Contents
    <3>2. o \in Nat /\ locations[c].cnt \in Nat /\ o >= HeaderSectors
          /\ o + locations[c].cnt - 1 <= MaxSector
      BY <3>1, RegionAssumption DEF FileInv, Entries, Locs
    <3>3. WriteRun \cap Run(locations[c]) = {}
      BY <2>2, <1>1, <1>2 DEF FileInv, Apart
    <3> SUFFICES ASSUME NEW i \in 1..q.size PROVE disk'[o + i - 1] = Piece(q, i)
      BY <1>4 DEF Holds
    <3>4. o + i - 1 \in Run(locations[c])  BY <3>1, <3>2 DEF Run
    <3>5. o + i - 1 \in Sectors
      BY <3>1, <3>2, RegionAssumption DEF Sectors, HeaderSectors
    <3>6. disk'[o + i - 1] = disk[o + i - 1]  BY <1>4, <3>3, <3>4, <3>5
    <3> QED BY <3>6, <3>1 DEF Holds
  <2> QED BY <1>4, <1>5, <1>6, <2>1, <2>2 DEF FileInv, Contents
<1> QED BY <1>8, <1>9, <1>10, <1>11, <1>12 DEF FileInv

(* The entry written is that of the run the payload was put in. *)
LEMMA HeaderKeeps ==
  ASSUME FileInv, WriteHeader PROVE FileInv'
<1> DEFINE c == write.chunk
           n == write.payload.size
<1>1. write.step = "header" /\ Busy  BY DEF WriteHeader, Busy
<1>2. write \in [chunk : Chunks, payload : Payloads, at : Nat, step : {"data", "header"}]
  BY <1>1 DEF FileInv, Writing, Idle
<1>3. c \in Chunks /\ n \in Nat \ {0} /\ write.at \in Nat /\ n <= MaxRun
      /\ write.payload \in Payloads /\ write.payload # Nothing
  BY <1>1, <1>2 DEF Payloads, Nothing, FileInv, Writing
<1>4. /\ locations' = [locations EXCEPT ![c] = Entry]
      /\ head' = [head EXCEPT ![c] = Entry]
      /\ stored' = [stored EXCEPT ![c] = write.payload]
      /\ write' = Idle /\ ~Busy'
      /\ UNCHANGED <<disk, length, used, total, failures>>
  BY DEF WriteHeader, Idle, Busy
<1>5. /\ Entry \in Locs /\ Entry.off = write.at /\ Entry.cnt = n /\ Entry # NoLoc
      /\ Run(Entry) = WriteRun
  BY <1>3, RegionAssumption DEF Entry, Locs, NoLoc, Run, WriteRun
<1>6. /\ locations'[c] = Entry /\ stored'[c] = write.payload
      /\ \A d \in Chunks : d # c => locations'[d] = locations[d] /\ stored'[d] = stored[d]
  BY <1>3, <1>4 DEF FileInv, Entries, Contents
<1>7. Entries'
  <2>1. head' = locations'  BY <1>4 DEF FileInv, Entries
  <2>2. locations' \in [Chunks -> Locs]  BY <1>4, <1>5 DEF FileInv, Entries
  <2>3. ASSUME NEW d \in Chunks, locations'[d] # NoLoc
        PROVE /\ locations'[d].cnt >= 1 /\ locations'[d].off >= HeaderSectors
              /\ locations'[d].off + locations'[d].cnt <= length
              /\ locations'[d].off + locations'[d].cnt <= total
              /\ locations'[d].off + locations'[d].cnt - 1 <= MaxSector
    <3>1. CASE d = c
      BY <3>1, <1>1, <1>3, <1>5, <1>6 DEF FileInv, Writing
    <3>2. CASE d # c  BY <3>2, <2>3, <1>6 DEF FileInv, Entries
    <3> QED BY <3>1, <3>2
  <2> QED BY <2>1, <2>2, <2>3, <1>4 DEF FileInv, Entries
<1>8. Writing'  BY <1>4 DEF Writing, Idle, Busy
<1>9. Marks'
  <2>1. ASSUME NEW d \in Chunks PROVE Run(locations'[d]) \subseteq used
    <3>1. CASE d = c  BY <3>1, <1>1, <1>5, <1>6 DEF FileInv, Writing
    <3>2. CASE d # c  BY <3>2, <1>6 DEF FileInv, Marks
    <3> QED BY <3>1, <3>2
  <2> QED BY <2>1, <1>4 DEF FileInv, Marks, Run
<1>10. Apart'
  <2>1. ASSUME NEW d \in Chunks, NEW e \in Chunks, d # e
        PROVE Run(locations'[d]) \cap Run(locations'[e]) = {}
    <3>1. CASE d = c
      BY <3>1, <2>1, <1>1, <1>5, <1>6 DEF FileInv, Apart
    <3>2. CASE e = c
      BY <3>2, <2>1, <1>1, <1>5, <1>6 DEF FileInv, Apart
    <3>3. CASE d # c /\ e # c  BY <3>3, <2>1, <1>6 DEF FileInv, Apart
    <3> QED BY <3>1, <3>2, <3>3
  <2> QED BY <2>1, <1>4 DEF Apart, Run
<1>11. Contents'
  <2>1. stored' \in [Chunks -> Payloads \cup {Nothing}]
    BY <1>3, <1>4 DEF FileInv, Contents
  <2>2. ASSUME NEW d \in Chunks
        PROVE /\ stored'[d] = Nothing <=> locations'[d] = NoLoc
              /\ stored'[d] # Nothing =>
                   /\ stored'[d].size = locations'[d].cnt /\ stored'[d].of = d
                   /\ Holds(locations'[d].off, stored'[d])
    <3>1. CASE d = c
      BY <3>1, <1>1, <1>3, <1>5, <1>6 DEF FileInv, Contents, Writing
    <3>2. CASE d # c
      BY <3>2, <1>6 DEF FileInv, Contents
    <3> QED BY <3>1, <3>2
  <2> QED BY <2>1, <2>2, <1>4 DEF Contents, Holds, Idle
<1> QED BY <1>7, <1>8, <1>9, <1>10, <1>11 DEF FileInv

(* Opening the file finds in its header and its length what memory held, or *)
(* a tighter bound of it.                                                   *)
LEMMA OpenKeeps ==
  ASSUME FileInv, Opened PROVE FileInv'
<1> DEFINE ends == {length, HeaderSectors} \cup {head[c].off + head[c].cnt : c \in Chunks}
<1>1. write = Idle /\ ~Busy /\ write.step = "idle"  BY DEF Opened, Idle, Busy
<1>2. /\ head = locations /\ locations' = locations
      /\ used' = 0..(HeaderSectors - 1) \cup UNION {Run(head[c]) : c \in Chunks}
      /\ total' = CHOOSE k \in ends : \A m \in ends : m <= k
      /\ UNCHANGED <<head, disk, length, write, stored, failures>>
  BY DEF Opened, FileInv, Entries, diskVars
<1>3. length \in Nat /\ length >= HeaderSectors /\ ends \subseteq Nat
  <2>1. \A c \in Chunks : head[c].off \in Nat /\ head[c].cnt \in Nat
    BY <1>2, RegionAssumption DEF FileInv, Entries, Locs
  <2> QED BY <2>1 DEF FileInv, Entries, HeaderSectors
<1>4. \A m \in ends : m <= length
  <2>1. ASSUME NEW c \in Chunks PROVE head[c].off + head[c].cnt <= length
    <3>1. CASE locations[c] = NoLoc  BY <3>1, <1>2, <1>3 DEF NoLoc
    <3>2. CASE locations[c] # NoLoc  BY <3>2, <1>2 DEF FileInv, Entries
    <3> QED BY <3>1, <3>2
  <2> QED BY <2>1, <1>3
<1>5. total' = length
  <2>1. length \in ends  OBVIOUS
  <2> HIDE DEF ends
  <2>2. \A k \in ends : (\A m \in ends : m <= k) => k = length
    BY <2>1, <1>3, <1>4
  <2> QED BY <2>1, <2>2, <1>2, <1>4
<1>6. Entries'  BY <1>2, <1>3, <1>5 DEF FileInv, Entries
<1>7. Writing'  BY <1>1, <1>2 DEF Writing, Idle, Busy
<1>8. Marks'
  <2>1. \A c \in Chunks : Run(head[c]) \subseteq used'  BY <1>2
  <2>2. ASSUME NEW c \in Chunks PROVE Run(head[c]) \subseteq 0..(length - 1)
    <3>1. CASE locations[c] = NoLoc  BY <3>1, <1>2, <1>3 DEF NoLoc, Run
    <3>2. CASE locations[c] # NoLoc
      <4>1. locations[c].off \in Nat /\ locations[c].cnt \in Nat
            /\ locations[c].off + locations[c].cnt <= length
        BY <3>2, RegionAssumption DEF FileInv, Entries, Locs
      <4> QED BY <4>1, <1>2, <1>3 DEF Run
    <3> QED BY <3>1, <3>2
  <2>3. 0..(HeaderSectors - 1) \subseteq 0..(length - 1)  BY <1>3 DEF HeaderSectors
  <2> QED BY <2>1, <2>2, <2>3, <1>2, <1>5 DEF Marks
<1>9. Apart'  BY <1>1, <1>2 DEF FileInv, Apart, Run, Busy
<1>10. Contents'  BY <1>1, <1>2 DEF FileInv, Contents, Holds, Busy
<1> QED BY <1>6, <1>7, <1>8, <1>9, <1>10 DEF FileInv

(* Every step of a sound file keeps the invariant: no write fails, and the  *)
(* process dies between writes only.                                        *)
LEMMA FileKeeps == ASSUME Sound PROVE FileInv /\ [FileNext]_fileVars => FileInv'
<1> SUFFICES ASSUME FileInv, [FileNext]_fileVars PROVE FileInv'  OBVIOUS
<1> USE DEF FileInv
<1>1. CASE UNCHANGED fileVars
  BY <1>1 DEF fileVars, diskVars, memoryVars, Entries, Writing, Marks, Apart,
              Contents, Holds, Busy, WriteRun, Run
<1>2. ASSUME NEW c \in Chunks, NEW p \in Payloads, p.of = c, BeginWrite(c, p)
      PROVE FileInv'
  BY <1>2, BeginKeeps
<1>3. CASE WriteData  BY <1>3, DataKeeps
<1>4. CASE WriteHeader  BY <1>4, HeaderKeeps
<1>5. ~DataFails /\ ~HeaderFails
  BY DEF Sound, DataFails, HeaderFails, Entries
<1>6. CASE FileKilled
  <2>1. write = Idle /\ write' = write  BY <1>6 DEF FileKilled, Sound
  <2>2. UNCHANGED <<disk, length, head, memoryVars, stored, failures>>
    BY <1>6, <2>1 DEF FileKilled, Idle
  <2> QED
    BY <2>1, <2>2 DEF memoryVars, Entries, Writing, Marks, Apart, Contents, Holds,
                      Busy, WriteRun, Run
<1>7. CASE Opened  BY <1>7, OpenKeeps
<1> QED BY <1>1, <1>2, <1>3, <1>4, <1>5, <1>6, <1>7 DEF FileNext

(* A new file *)
LEMMA FileStarts == FileInit => FileInv
<1> SUFFICES ASSUME FileInit PROVE FileInv  OBVIOUS
<1>1. NoLoc \in Locs /\ Run(NoLoc) = {}
  BY RegionAssumption DEF NoLoc, Locs, Run
<1>2. write.step = "idle" /\ ~Busy  BY DEF FileInit, Idle, Busy
<1> QED
  BY <1>1, <1>2 DEF FileInit, FileInv, Entries, Writing, Marks, Apart, Contents,
                    HeaderSectors

-----------------------------------------------------------------------------
(* No two chunks ever share a sector of the region file, and their sectors  *)
(* are marked (write_chunk, allocate, open), if no write fails and no kill  *)
(* falls inside one.                                                        *)
THEOREM ChunksApart == ASSUME Sound PROVE FileSpec => []NoOverlap
<1>1. FileInv => NoOverlap
  <2> SUFFICES ASSUME FileInv PROVE NoOverlap  OBVIOUS
  <2>1. head = locations  BY DEF FileInv, Entries
  <2>2. Busy \/ WriteRun = {}
    <3>1. ~Busy => write = Idle  BY DEF FileInv, Writing, Busy
    <3>2. write = Idle => WriteRun = {}  BY DEF WriteRun, Idle, Nothing
    <3> QED BY <3>1, <3>2
  <2>3. ASSUME NEW c \in Chunks, NEW d \in Chunks, c # d
        PROVE  /\ Run(locations[c]) \cap Run(locations[d]) = {}
               /\ write.chunk = c => WriteRun \cap Run(locations[d]) = {}
    BY <2>2, <2>3 DEF FileInv, Apart
  <2>4. ASSUME NEW c \in Chunks, write.chunk # c PROVE Run(locations[c]) \subseteq used
    BY <2>4 DEF FileInv, Marks
  <2>5. WriteRun \subseteq used  BY <2>2 DEF FileInv, Writing
  <2> QED BY <2>1, <2>3, <2>4, <2>5 DEF NoOverlap
<1> QED BY <1>1, FileKeeps, FileStarts, PTL DEF FileSpec

(* What read_chunk returns outside a write *)
LEMMA ReadsStored ==
  ASSUME FileInv, NEW c \in Chunks, ~(Busy /\ write.chunk = c)
  PROVE  ReadChunk(c) = stored[c]
<1>1. CASE locations[c] = NoLoc
  BY <1>1 DEF FileInv, Contents, ReadChunk
<1>2. CASE locations[c] # NoLoc
  <2> DEFINE q == stored[c]
             o == locations[c].off
  <2>1. q # Nothing /\ q \in Payloads /\ q.size = locations[c].cnt /\ Holds(o, q)
    BY <1>2 DEF FileInv, Contents
  <2>2. o \in Nat /\ q.size \in Nat \ {0} /\ o >= HeaderSectors /\ o + q.size - 1 <= MaxSector
    BY <1>2, <2>1, RegionAssumption DEF FileInv, Entries, Locs, Payloads
  <2>3. \A i \in 1..q.size : o + i - 1 \in Sectors /\ disk[o + i - 1] = Piece(q, i)
    BY <2>1, <2>2, RegionAssumption DEF Sectors, HeaderSectors, Holds
  <2>4. o \in Sectors /\ disk[o] = Piece(q, 1)
    <3>1. 1 \in 1..q.size /\ o + 1 - 1 = o  BY <2>2
    <3> QED BY <3>1, <2>3
  <2>5. PayloadAt(o) = q  BY <2>3, <2>4 DEF PayloadAt, Piece
  <2> QED BY <1>2, <2>5 DEF ReadChunk
<1> QED BY <1>1, <1>2

(* A chunk saved is read back as it was saved last, across saves of others, *)
(* moves within the file, kills between saves and restarts.                 *)
THEOREM SavedIsRead == ASSUME Sound PROVE FileSpec => []SavedSurvives
<1>1. FileInv => SavedSurvives
  BY ReadsStored DEF SavedSurvives, Busy, Idle
<1> QED BY <1>1, FileKeeps, FileStarts, PTL DEF FileSpec

(* What is read for a chunk was saved for it. *)
THEOREM ReadIsOwn == ASSUME Sound PROVE FileSpec => []OwnPayload
<1>1. FileInv => OwnPayload
  BY ReadsStored DEF OwnPayload, Busy, Idle, FileInv, Contents
<1> QED BY <1>1, FileKeeps, FileStarts, PTL DEF FileSpec

(* The region file implements the ChunkStore trait: seen through its reads, *)
(* a write_chunk is one atomic change of one chunk.                         *)
THEOREM FileIsStore == ASSUME Sound PROVE FileSpec => StoreSpec
<1>1. FileInv => Shown = stored
  BY ReadsStored DEF Shown, FileInv, Contents
<1>1a. FileInv' => (Shown = stored)'
  BY <1>1, PTL
<1>2. FileInit => Store!Init
  BY <1>1, FileStarts DEF FileInit, Store!Init
<1>3. FileInv /\ FileInv' /\ [FileNext]_fileVars => [Store!Next]_Shown
  <2> SUFFICES ASSUME FileInv, FileInv', [FileNext]_fileVars
               PROVE  Store!Next \/ UNCHANGED Shown
    OBVIOUS
  <2>1. Shown = stored /\ Shown' = stored'  BY <1>1, <1>1a
  <2>2. CASE WriteHeader
    <3>1. write.step = "header" /\ Busy  BY <2>2 DEF WriteHeader, Busy
    <3>2. write.chunk \in Chunks /\ write.payload \in Payloads
          /\ write.payload.of = write.chunk
      BY <3>1 DEF FileInv, Writing, Idle
    <3>3. stored' = [stored EXCEPT ![write.chunk] = write.payload]
      BY <2>2 DEF WriteHeader
    <3>4. stored'[write.chunk] = write.payload
      BY <3>2, <3>3 DEF FileInv, Contents
    <3>5. Store!Write(write.chunk)
      BY <2>1, <3>2, <3>3, <3>4 DEF Store!Write
    <3> QED BY <3>2, <3>5 DEF Store!Next
  <2>3. CASE ~WriteHeader
    <3>1. stored' = stored
      BY <2>3 DEF FileNext, BeginWrite, WriteData, DataFails, HeaderFails, FileKilled,
                  Opened, fileVars
    <3> QED BY <2>1, <3>1
  <2> QED BY <2>2, <2>3
<1> QED BY <1>2, <1>3, FileKeeps, FileStarts, PTL DEF FileSpec, StoreSpec, Store!Spec


-----------------------------------------------------------------------------
(* The inductive invariant of memory and file *)

(* What the file has for c once its write in progress is over or given up. *)
Kept(c) == IF stored[c] = Nothing THEN Generated(c) ELSE stored[c]

Memory ==
  /\ mem \in [Chunks -> Payloads \cup {Nothing}]
  /\ \A c \in Loaded : mem[c].of = c
  /\ mode \in {"up", "saving", "exiting", "down"}

(* Sequences of chunks without repetitions *)
Lists == {s \in Seq(Chunks) : IsInjective(s)}

Markers ==
  /\ dirty \in Lists /\ queue \in Lists /\ saved \in Lists
  /\ ToSet(dirty) \subseteq Loaded
  /\ ToSet(queue) \subseteq ToSet(dirty) /\ ToSet(saved) \subseteq ToSet(dirty)
  /\ ToSet(queue) \cap ToSet(saved) = {}
  /\ ~Flushing => queue = <<>> /\ saved = <<>>

(* The chunk being written is marked, visited and not yet saved, and what   *)
(* is written is what memory holds.                                         *)
Saving ==
  Busy =>
    /\ Flushing
    /\ write.chunk \in ToSet(dirty) \ (ToSet(queue) \cup ToSet(saved))
    /\ write.payload = mem[write.chunk]

Clean ==
  \A c \in Loaded : c \notin ToSet(dirty) \/ c \in ToSet(saved) => mem[c] = Kept(c)

(* The flush on exit has yet to visit what it has not saved. *)
Exiting ==
  mode = "exiting" =>
    \A c \in ToSet(dirty) : mem[c].size <= MaxRun =>
      c \in ToSet(queue) \cup ToSet(saved) \/ (Busy /\ write.chunk = c)

EcsInv == Memory /\ Markers /\ Saving /\ Clean /\ Exiting

PersistenceInv == FileInv /\ EcsInv

-----------------------------------------------------------------------------
(* Sequences *)

LEMMA HeadTail ==
  ASSUME NEW s \in Lists, s # <<>>
  PROVE  /\ Head(s) \in Chunks /\ Tail(s) \in Lists
         /\ ToSet(s) = {Head(s)} \cup ToSet(Tail(s))
         /\ Head(s) \notin ToSet(Tail(s))
<1>1. s \in Seq(Chunks) /\ Len(s) \in Nat \ {0} /\ IsInjective(s) BY DEF Lists
<1>2. /\ Head(s) = s[1] /\ Head(s) \in Chunks /\ Tail(s) \in Seq(Chunks)
      /\ Len(Tail(s)) = Len(s) - 1
      /\ \A i \in 1..(Len(s) - 1) : Tail(s)[i] = s[i + 1]
  BY <1>1
<1>3. \A i, j \in 1..Len(s) : s[i] = s[j] => i = j
  BY <1>1 DEF IsInjective
<1>4. IsInjective(Tail(s))
  BY <1>1, <1>2, <1>3 DEF IsInjective
<1>5. Head(s) \notin ToSet(Tail(s))
  BY <1>1, <1>2, <1>3 DEF ToSet
<1>6. ToSet(s) = {Head(s)} \cup ToSet(Tail(s))
  <2>1. ASSUME NEW i \in 1..Len(s) PROVE s[i] \in {Head(s)} \cup ToSet(Tail(s))
    <3>1. CASE i = 1  BY <3>1, <1>2
    <3>2. CASE i # 1
      <4>1. i - 1 \in 1..(Len(s) - 1) /\ (i - 1) + 1 = i  BY <3>2, <1>1
      <4>2. Tail(s)[i - 1] = s[i] /\ i - 1 \in DOMAIN Tail(s)  BY <4>1, <1>1, <1>2
      <4> QED BY <4>2 DEF ToSet
    <3> QED BY <3>1, <3>2
  <2>2. ToSet(Tail(s)) \subseteq ToSet(s)
    BY <1>1, <1>2 DEF ToSet
  <2>3. Head(s) \in ToSet(s)  BY <1>1, <1>2 DEF ToSet
  <2>4. ToSet(s) = {s[i] : i \in 1..Len(s)}  BY <1>1 DEF ToSet
  <2> QED BY <2>1, <2>2, <2>3, <2>4
<1> QED BY <1>2, <1>4, <1>5, <1>6 DEF Lists

LEMMA Appended ==
  ASSUME NEW s \in Lists, NEW c \in Chunks, c \notin ToSet(s)
  PROVE  Append(s, c) \in Lists /\ ToSet(Append(s, c)) = ToSet(s) \cup {c}
<1>1. s \in Seq(Chunks) /\ Len(s) \in Nat /\ IsInjective(s) BY DEF Lists
<1>2. /\ Append(s, c) \in Seq(Chunks) /\ Len(Append(s, c)) = Len(s) + 1
      /\ \A i \in 1..Len(s) : Append(s, c)[i] = s[i]
      /\ Append(s, c)[Len(s) + 1] = c
  BY <1>1
<1>3. \A i \in 1..Len(s) : s[i] # c  BY <1>1 DEF ToSet
<1>4. IsInjective(Append(s, c))
  <2> SUFFICES ASSUME NEW i \in 1..(Len(s) + 1), NEW j \in 1..(Len(s) + 1),
                      Append(s, c)[i] = Append(s, c)[j]
               PROVE  i = j
    BY <1>1, <1>2 DEF IsInjective
  <2>1. \A k, l \in 1..Len(s) : s[k] = s[l] => k = l  BY <1>1 DEF IsInjective
  <2> QED BY <1>1, <1>2, <1>3, <2>1
<1>5. ToSet(Append(s, c)) = ToSet(s) \cup {c}
  <2>1. ToSet(Append(s, c)) = {Append(s, c)[i] : i \in 1..(Len(s) + 1)}
    BY <1>1, <1>2 DEF ToSet
  <2>2. ToSet(s) = {s[i] : i \in 1..Len(s)}  BY <1>1 DEF ToSet
  <2> QED BY <1>1, <1>2, <2>1, <2>2
<1> QED BY <1>2, <1>4, <1>5 DEF Lists

(* Removing a marker takes out that chunk and keeps the others. *)
LEMMA SwapRemoved ==
  ASSUME NEW s \in Lists, NEW c \in ToSet(s)
  PROVE  SwapRemove(s, c) \in Lists /\ ToSet(SwapRemove(s, c)) = ToSet(s) \ {c}
<1> DEFINE n == Len(s)
           i == CHOOSE j \in DOMAIN s : s[j] = c
           t == SwapRemove(s, c)
<1>1. s \in Seq(Chunks) /\ n \in Nat /\ DOMAIN s = 1..n /\ IsInjective(s) BY DEF Lists
<1>2. \A k, l \in 1..n : s[k] = s[l] => k = l  BY <1>1 DEF IsInjective
<1>3. i \in 1..n /\ s[i] = c
  <2>1. \E j \in DOMAIN s : s[j] = c  BY DEF ToSet
  <2> QED BY <2>1, <1>1
<1>4. t = [j \in 1..(n - 1) |-> IF j = i THEN s[n] ELSE s[j]]
  BY DEF SwapRemove
<1> HIDE DEF i
<1>5. n \in Nat \ {0} /\ n - 1 \in Nat  BY <1>1, <1>3
<1>6. t \in Seq(Chunks) /\ Len(t) = n - 1 /\ DOMAIN t = 1..(n - 1)
  <2>1. \A j \in 1..(n - 1) : (IF j = i THEN s[n] ELSE s[j]) \in Chunks
    BY <1>1, <1>5
  <2>2. t \in [1..(n - 1) -> Chunks]  BY <1>4, <2>1
  <2> HIDE DEF t
  <2> QED BY <2>2, <1>5
<1>7. \A j \in 1..(n - 1) : t[j] = IF j = i THEN s[n] ELSE s[j]  BY <1>4
<1> HIDE DEF t
<1>8. IsInjective(t)
  <2> SUFFICES ASSUME NEW k \in 1..(n - 1), NEW l \in 1..(n - 1), t[k] = t[l]
               PROVE  k = l
    BY <1>6 DEF IsInjective
  <2> QED BY <1>2, <1>3, <1>5, <1>7
<1>9. ToSet(t) = {t[j] : j \in 1..(n - 1)} /\ ToSet(s) = {s[j] : j \in 1..n}
  BY <1>1, <1>6 DEF ToSet
<1>10. ASSUME NEW j \in 1..(n - 1) PROVE t[j] \in ToSet(s) \ {c}
  <2>1. CASE j = i  BY <2>1, <1>2, <1>3, <1>5, <1>7, <1>9
  <2>2. CASE j # i  BY <2>2, <1>2, <1>3, <1>5, <1>7, <1>9
  <2> QED BY <2>1, <2>2
<1>11. ASSUME NEW j \in 1..n, s[j] # c PROVE s[j] \in ToSet(t)
  <2>1. j # i  BY <1>11, <1>3
  <2>2. CASE j = n
    <3>1. i \in 1..(n - 1)  BY <2>1, <2>2, <1>3, <1>5
    <3> QED BY <3>1, <2>2, <1>7, <1>9
  <2>3. CASE j # n
    <3>1. j \in 1..(n - 1)  BY <2>3, <1>5
    <3> QED BY <3>1, <2>1, <1>7, <1>9
  <2> QED BY <2>2, <2>3
<1> QED BY <1>6, <1>8, <1>9, <1>10, <1>11 DEF t, Lists

-----------------------------------------------------------------------------
(* The file's steps as the chunks take them *)

LEMMA FileSteps ==
  ASSUME PersistenceInv, [Next]_vars
  PROVE  [FileNext]_fileVars
<1>1. ASSUME Visiting, mem[Head(queue)].size <= MaxRun, BeginWrite(Head(queue), mem[Head(queue)])
      PROVE  FileNext
  <2>1. Head(queue) \in Loaded
    BY <1>1, HeadTail DEF Visiting, PersistenceInv, EcsInv, Markers
  <2>2. mem[Head(queue)] \in Payloads /\ mem[Head(queue)].of = Head(queue)
    BY <2>1 DEF PersistenceInv, EcsInv, Memory, Loaded
  <2> QED BY <1>1, <2>1, <2>2 DEF FileNext, Loaded
<1>2. CASE Visit
  BY <1>1, <1>2 DEF Visit, BeginWrite
<1>3. CASE UNCHANGED vars  BY <1>3 DEF vars
<1> QED
  BY <1>2, <1>3 DEF Next, Load, Edit, SaveTick, Exit, Data, Header, Break,
       Clear, EndFlush, Kill, Start, FileNext

LEMMA NoFailures == ASSUME Sound, PersistenceInv PROVE ~DataFails /\ ~HeaderFails
  BY DEF DataFails, HeaderFails, Sound, PersistenceInv, FileInv, Entries

(* Nobody is writing but a flush. *)
LEMMA IdleOrBusy == ASSUME FileInv PROVE write = Idle <=> ~Busy
  BY DEF FileInv, Writing, Busy, Idle

-----------------------------------------------------------------------------
(* Each step keeps the invariant. *)

LEMMA LoadKeeps ==
  ASSUME PersistenceInv, NEW c \in Chunks, Load(c) PROVE EcsInv'
<1>1. /\ mem' = [mem EXCEPT ![c] = LoadOrGenerate(c)] /\ mem[c] = Nothing
      /\ UNCHANGED <<fileVars, mode, dirty, queue, saved>> /\ write = Idle /\ ~Busy
  BY IdleOrBusy DEF Load, Loaded, PersistenceInv
<1>2. LoadOrGenerate(c) = Kept(c)
  BY <1>1, ReadsStored DEF LoadOrGenerate, Kept, PersistenceInv
<1>3. Kept(c) \in Payloads /\ Kept(c).of = c
  BY DEF Kept, Generated, Payloads, PersistenceInv, FileInv, Contents
<1>4. Nothing \notin Payloads  BY DEF Nothing, Payloads
<1>5. Loaded' = Loaded \cup {c} /\ c \notin Loaded /\ c \notin ToSet(dirty)
      /\ mem'[c] = Kept(c) /\ \A d \in Chunks \ {c} : mem'[d] = mem[d]
  BY <1>1, <1>2, <1>3, <1>4 DEF Loaded, PersistenceInv, EcsInv, Memory, Markers
<1>6. Kept(c)' = Kept(c) /\ \A d \in Chunks : Kept(d)' = Kept(d)
  BY <1>1 DEF Kept, Generated, fileVars
<1>7. Memory'
  BY <1>1, <1>2, <1>3, <1>5 DEF PersistenceInv, EcsInv, Memory, Loaded
<1>8. Markers'
  BY <1>1, <1>5 DEF PersistenceInv, EcsInv, Markers, Flushing
<1>9. Saving'  BY <1>1 DEF Saving, Busy, fileVars
<1>10. Clean'
  BY <1>1, <1>5, <1>6 DEF PersistenceInv, EcsInv, Clean, Loaded
<1>11. Exiting'
  BY <1>1, <1>5 DEF PersistenceInv, EcsInv, Exiting, Markers, Loaded, Load, Busy, fileVars
<1> QED BY <1>7, <1>8, <1>9, <1>10, <1>11 DEF EcsInv

LEMMA EditKeeps ==
  ASSUME PersistenceInv, NEW c \in Chunks, NEW n \in Sizes, Edit(c, n) PROVE EcsInv'
<1> DEFINE p == [of |-> mem[c].of, ver |-> (mem[c].ver % Versions) + 1, size |-> n]
<1>1. /\ mode = "up" /\ c \in Loaded /\ mem' = [mem EXCEPT ![c] = p] /\ dirty' = Marked(c)
      /\ UNCHANGED <<fileVars, mode, queue, saved>>
  BY DEF Edit
<1>2. mem[c] \in Payloads /\ mem[c].of = c
  BY <1>1 DEF PersistenceInv, EcsInv, Memory, Loaded
<1>3. p \in Payloads /\ p.of = c /\ p # Nothing
  <2>1. mem[c].ver \in Nat /\ Versions \in Nat \ {0} /\ n \in Nat \ {0}
    BY <1>2, PersistenceAssumption DEF Payloads
  <2>2. (mem[c].ver % Versions) + 1 \in Nat  BY <2>1
  <2> QED BY <1>2, <2>1, <2>2 DEF Payloads, Nothing
<1> HIDE DEF p
<1>4. mem'[c] = p /\ (\A d \in Chunks \ {c} : mem'[d] = mem[d]) /\ Loaded' = Loaded
  BY <1>1, <1>3 DEF PersistenceInv, EcsInv, Memory, Loaded
<1>5. dirty' \in Lists /\ ToSet(dirty') = ToSet(dirty) \cup {c}
  <2>1. CASE Dirty(c)  BY <2>1, <1>1 DEF Marked, Dirty, PersistenceInv, EcsInv, Markers
  <2>2. CASE ~Dirty(c)
    BY <2>2, <1>1, Appended DEF Marked, Dirty, PersistenceInv, EcsInv, Markers, Loaded
  <2> QED BY <2>1, <2>2
<1>6. ~Flushing /\ queue = <<>> /\ saved = <<>> /\ ~Busy
  BY <1>1 DEF PersistenceInv, EcsInv, Markers, Saving, Flushing
<1>7. ~Busy' /\ ~Flushing' /\ mode' = "up" /\ queue' = <<>> /\ saved' = <<>>
  BY <1>1, <1>6 DEF Busy, Flushing, fileVars
<1>8. ToSet(<<>>) = {}  BY DEF ToSet
<1>9. Memory'
  BY <1>1, <1>3, <1>4, <1>7 DEF PersistenceInv, EcsInv, Memory, Loaded
<1>10. Markers'
  BY <1>1, <1>4, <1>5, <1>6, <1>7, <1>8 DEF PersistenceInv, EcsInv, Markers
<1>11. Clean'
  <2>1. \A d \in Chunks : Kept(d)' = Kept(d)  BY <1>1 DEF Kept, Generated, fileVars
  <2> QED BY <2>1, <1>4, <1>5, <1>7, <1>8 DEF PersistenceInv, EcsInv, Clean, Loaded
<1> QED BY <1>7, <1>9, <1>10, <1>11 DEF EcsInv, Saving, Exiting

LEMMA EmptySet == ToSet(<<>>) = {} /\ <<>> \in Lists
  BY DEF ToSet, Lists, IsInjective

(* A flush begins with all that is marked. *)
LEMMA FlushKeeps ==
  ASSUME PersistenceInv, mode = "up", mode' \in {"saving", "exiting"}, queue' = dirty,
         UNCHANGED <<fileVars, mem, dirty, saved>>
  PROVE  EcsInv'
<1>1. ~Flushing /\ queue = <<>> /\ saved = <<>> /\ ~Busy
  BY DEF PersistenceInv, EcsInv, Markers, Saving, Flushing
<1>2. ~Busy' /\ Loaded' = Loaded /\ (\A d \in Chunks : Kept(d)' = Kept(d))
  BY <1>1 DEF Busy, fileVars, Loaded, Kept, Generated
<1>3. Memory'  BY <1>2 DEF PersistenceInv, EcsInv, Memory
<1>4. Markers'
  BY <1>1, <1>2, EmptySet DEF PersistenceInv, EcsInv, Markers, Flushing
<1>5. Saving' /\ Exiting'  BY <1>2 DEF Saving, Exiting
<1>6. Clean'  BY <1>2 DEF PersistenceInv, EcsInv, Clean, Loaded
<1> QED BY <1>3, <1>4, <1>5, <1>6 DEF EcsInv

LEMMA WaitKeeps ==
  ASSUME PersistenceInv, UNCHANGED <<fileVars, mode, mem, dirty, queue, saved>>
  PROVE  EcsInv'
<1>1. /\ Busy' = Busy /\ Loaded' = Loaded /\ Flushing' = Flushing
      /\ \A d \in Chunks : Kept(d)' = Kept(d)
  BY DEF Busy, fileVars, Loaded, Kept, Generated, Flushing
<1>2. Memory' /\ Markers'  BY <1>1 DEF PersistenceInv, EcsInv, Memory, Markers
<1>3. Saving' /\ Exiting'  BY <1>1 DEF PersistenceInv, EcsInv, Saving, Exiting, fileVars
<1>4. Clean'  BY <1>1 DEF PersistenceInv, EcsInv, Clean, Loaded
<1> QED BY <1>2, <1>3, <1>4 DEF EcsInv

LEMMA VisitKeeps ==
  ASSUME PersistenceInv, Visit PROVE EcsInv'
<1> DEFINE h == Head(queue)
<1>1. /\ Flushing /\ write = Idle /\ ~Busy /\ queue # <<>> /\ queue' = Tail(queue)
      /\ UNCHANGED <<mode, mem, dirty, saved>>
  BY IdleOrBusy DEF Visit, Visiting, PersistenceInv
<1>2. queue \in Lists /\ ToSet(queue) \subseteq ToSet(dirty) /\ ToSet(dirty) \subseteq Loaded
      /\ ToSet(queue) \cap ToSet(saved) = {}
  BY DEF PersistenceInv, EcsInv, Markers
<1>3. /\ h \in Chunks /\ queue' \in Lists /\ ToSet(queue) = {h} \cup ToSet(queue')
      /\ h \notin ToSet(queue')
  BY <1>1, <1>2, HeadTail
<1> HIDE DEF h
<1>4. UNCHANGED stored /\ (mem[h].size > MaxRun => UNCHANGED write)
      /\ (~(mem[h].size > MaxRun) =>
            write'.chunk = h /\ write'.payload = mem[h] /\ write'.step = "data")
  BY DEF h, Visit, BeginWrite, fileVars
<1>5. /\ Loaded' = Loaded /\ Flushing' = Flushing
      /\ \A d \in Chunks : Kept(d)' = Kept(d)
  BY <1>1, <1>4 DEF Loaded, Kept, Generated, Flushing
<1>6. Memory'  BY <1>1, <1>5 DEF PersistenceInv, EcsInv, Memory
<1>7. Markers'
  BY <1>1, <1>2, <1>3, <1>5 DEF PersistenceInv, EcsInv, Markers
<1>8. Saving'
  <2>1. CASE mem[h].size > MaxRun  BY <2>1, <1>1, <1>4 DEF Saving, Busy
  <2>2. CASE ~(mem[h].size > MaxRun)
    BY <2>2, <1>1, <1>2, <1>3, <1>4, <1>5 DEF Saving, Busy
  <2> QED BY <2>1, <2>2
<1>9. Clean'  BY <1>1, <1>5 DEF PersistenceInv, EcsInv, Clean, Loaded
<1>10. Exiting'
  <2> SUFFICES ASSUME mode = "exiting", NEW c \in ToSet(dirty), mem[c].size <= MaxRun
               PROVE  c \in ToSet(queue') \cup ToSet(saved) \/ (Busy' /\ write'.chunk = c)
    BY <1>1 DEF Exiting
  <2>1. c \in ToSet(queue) \cup ToSet(saved)
    BY <1>1 DEF PersistenceInv, EcsInv, Exiting
  <2>2. CASE c # h  BY <2>1, <2>2, <1>3
  <2>3. CASE c = h
    <3>1. mem[h] \in Payloads
      BY <1>1, <1>2, <1>3 DEF PersistenceInv, EcsInv, Memory, Loaded
    <3>2. ~(mem[h].size > MaxRun)
      BY <2>3, <3>1, RegionAssumption DEF Payloads
    <3> QED BY <2>3, <3>2, <1>4 DEF Busy
  <2> QED BY <2>2, <2>3
<1> QED BY <1>6, <1>7, <1>8, <1>9, <1>10 DEF EcsInv

LEMMA DataStepKeeps ==
  ASSUME Sound, PersistenceInv, Data PROVE EcsInv'
<1>1. write.step = "data" /\ Busy /\ UNCHANGED <<mode, mem, dirty, queue, saved, stored>>
      /\ write' = [write EXCEPT !.step = "header"]
  BY NoFailures DEF Data, WriteData, Busy, ecsVars
<1>2. write \in [chunk : Chunks, payload : Payloads, at : Nat, step : {"data", "header"}]
  BY <1>1 DEF PersistenceInv, FileInv, Writing, Busy, Idle
<1>3. /\ write'.chunk = write.chunk /\ write'.payload = write.payload /\ Busy'
      /\ Loaded' = Loaded /\ Flushing' = Flushing /\ \A d \in Chunks : Kept(d)' = Kept(d)
  BY <1>1, <1>2 DEF Busy, Loaded, Kept, Generated, Flushing
<1>4. Memory' /\ Markers'  BY <1>1, <1>3 DEF PersistenceInv, EcsInv, Memory, Markers
<1>5. Saving' /\ Exiting'  BY <1>1, <1>3 DEF PersistenceInv, EcsInv, Saving, Exiting
<1>6. Clean'  BY <1>1, <1>3 DEF PersistenceInv, EcsInv, Clean, Loaded
<1> QED BY <1>4, <1>5, <1>6 DEF EcsInv

(* The chunk that was written is what the file has, and is to be cleared. *)
LEMMA HeaderStepKeeps ==
  ASSUME Sound, PersistenceInv, Header PROVE EcsInv'
<1> DEFINE w == write.chunk
<1>1. /\ Busy /\ UNCHANGED <<mode, mem, dirty, queue>> /\ write' = Idle
      /\ saved' = Append(saved, w) /\ stored' = [stored EXCEPT ![w] = write.payload]
  BY NoFailures DEF Header, WriteHeader, Busy
<1>2. /\ Flushing /\ w \in ToSet(dirty) /\ w \notin ToSet(queue) \cup ToSet(saved)
      /\ write.payload = mem[w]
  BY <1>1 DEF PersistenceInv, EcsInv, Saving
<1>3. w \in Loaded /\ mem[w] # Nothing /\ w \in Chunks
  BY <1>2 DEF PersistenceInv, EcsInv, Markers, Loaded
<1> HIDE DEF w
<1>4. saved' \in Lists /\ ToSet(saved') = ToSet(saved) \cup {w}
  BY <1>1, <1>2, <1>3, Appended DEF PersistenceInv, EcsInv, Markers
<1>5. /\ stored'[w] = mem[w] /\ \A d \in Chunks \ {w} : stored'[d] = stored[d]
  BY <1>1, <1>2, <1>3 DEF PersistenceInv, FileInv, Contents
<1>6. \A d \in Chunks : Kept(d)' = IF d = w THEN mem[w] ELSE Kept(d)
  BY <1>3, <1>5 DEF Kept, Generated
<1>7. ~Busy' /\ Loaded' = Loaded /\ Flushing' = Flushing
  BY <1>1 DEF Busy, Idle, Loaded, Flushing
<1>8. Memory'  BY <1>1, <1>7 DEF PersistenceInv, EcsInv, Memory
<1>9. Markers'
  BY <1>1, <1>2, <1>4, <1>7 DEF PersistenceInv, EcsInv, Markers
<1>10. Saving'  BY <1>7 DEF Saving
<1>11. Clean'
  BY <1>1, <1>4, <1>6, <1>7 DEF PersistenceInv, EcsInv, Clean, Loaded
<1>12. Exiting'
  BY <1>1, <1>4, <1>7 DEF PersistenceInv, EcsInv, Exiting, w
<1> QED BY <1>8, <1>9, <1>10, <1>11, <1>12 DEF EcsInv

LEMMA BreakKeeps ==
  ASSUME PersistenceInv, Break PROVE EcsInv'
<1>1. /\ mode = "saving" /\ queue' = <<>> /\ ~Busy
      /\ UNCHANGED <<fileVars, mode, mem, dirty, saved>>
  BY IdleOrBusy DEF Break, LimitReached, PersistenceInv
<1>2. /\ ~Busy' /\ Loaded' = Loaded /\ Flushing' = Flushing
      /\ \A d \in Chunks : Kept(d)' = Kept(d)
  BY <1>1 DEF Busy, fileVars, Loaded, Kept, Generated, Flushing
<1>3. Memory'  BY <1>1, <1>2 DEF PersistenceInv, EcsInv, Memory
<1>4. Markers'  BY <1>1, <1>2, EmptySet DEF PersistenceInv, EcsInv, Markers, Flushing
<1>5. Saving' /\ Exiting'  BY <1>1, <1>2 DEF Saving, Exiting
<1>6. Clean'  BY <1>1, <1>2 DEF PersistenceInv, EcsInv, Clean, Loaded
<1> QED BY <1>3, <1>4, <1>5, <1>6 DEF EcsInv

LEMMA ClearKeeps ==
  ASSUME PersistenceInv, Clear PROVE EcsInv'
<1> DEFINE h == Head(saved)
<1>1. /\ Flushing /\ ~Busy /\ queue = <<>> /\ saved # <<>>
      /\ dirty' = SwapRemove(dirty, h) /\ saved' = Tail(saved)
      /\ UNCHANGED <<fileVars, mode, mem, queue>>
  BY IdleOrBusy DEF Clear, PersistenceInv
<1>2. dirty \in Lists /\ saved \in Lists /\ ToSet(saved) \subseteq ToSet(dirty)
      /\ ToSet(dirty) \subseteq Loaded
  BY DEF PersistenceInv, EcsInv, Markers
<1>3. /\ saved' \in Lists /\ ToSet(saved) = {h} \cup ToSet(saved') /\ h \notin ToSet(saved')
  BY <1>1, <1>2, HeadTail
<1> HIDE DEF h
<1>4. dirty' \in Lists /\ ToSet(dirty') = ToSet(dirty) \ {h}
  BY <1>1, <1>2, <1>3, SwapRemoved
<1>5. /\ ~Busy' /\ Loaded' = Loaded /\ Flushing' = Flushing
      /\ \A d \in Chunks : Kept(d)' = Kept(d)
  BY <1>1 DEF Busy, fileVars, Loaded, Kept, Generated, Flushing
<1>6. Memory'  BY <1>1, <1>5 DEF PersistenceInv, EcsInv, Memory
<1>7. Markers'
  BY <1>1, <1>2, <1>3, <1>4, <1>5, EmptySet DEF PersistenceInv, EcsInv, Markers
<1>8. Saving'  BY <1>5 DEF Saving
<1>9. Clean'
  BY <1>1, <1>3, <1>4, <1>5 DEF PersistenceInv, EcsInv, Clean, Loaded
<1>10. Exiting'
  BY <1>1, <1>3, <1>4, EmptySet DEF PersistenceInv, EcsInv, Exiting
<1> QED BY <1>6, <1>7, <1>8, <1>9, <1>10 DEF EcsInv

LEMMA EndFlushKeeps ==
  ASSUME PersistenceInv, EndFlush PROVE EcsInv'
<1>1. /\ ~Busy /\ queue = <<>> /\ saved = <<>> /\ mode' \in {"up", "down"}
      /\ UNCHANGED <<fileVars, mem, dirty, queue, saved>>
  BY IdleOrBusy DEF EndFlush, PersistenceInv
<1>2. ~Busy' /\ Loaded' = Loaded /\ \A d \in Chunks : Kept(d)' = Kept(d)
  BY <1>1 DEF Busy, fileVars, Loaded, Kept, Generated
<1>3. Memory'  BY <1>1, <1>2 DEF PersistenceInv, EcsInv, Memory
<1>4. Markers'  BY <1>1, <1>2 DEF PersistenceInv, EcsInv, Markers
<1>5. Saving' /\ Exiting'  BY <1>1, <1>2 DEF Saving, Exiting
<1>6. Clean'  BY <1>1, <1>2 DEF PersistenceInv, EcsInv, Clean, Loaded
<1> QED BY <1>3, <1>4, <1>5, <1>6 DEF EcsInv

(* Nothing is loaded in a process that was killed or has just started. *)
NoChunks ==
  /\ mem = [c \in Chunks |-> Nothing] /\ dirty = <<>> /\ queue = <<>> /\ saved = <<>>
  /\ write = Idle /\ mode \in {"up", "down"}

LEMMA NothingLoaded == NoChunks => EcsInv
<1> SUFFICES ASSUME NoChunks PROVE EcsInv  OBVIOUS
<1>1. Loaded = {} /\ ~Busy  BY DEF NoChunks, Loaded, Busy, Idle
<1>2. Memory /\ Clean /\ Saving /\ Exiting
  BY <1>1 DEF NoChunks, Memory, Clean, Saving, Exiting
<1>3. Markers  BY EmptySet DEF NoChunks, Markers
<1> QED BY <1>2, <1>3 DEF EcsInv

LEMMA StopKeeps ==
  ASSUME Sound, PersistenceInv, Kill \/ Start PROVE EcsInv'
<1>1. /\ mem' = [c \in Chunks |-> Nothing] /\ dirty' = <<>>
      /\ write' = Idle /\ mode' \in {"up", "down"}
  BY DEF Kill, FileKilled, Start, Opened
<1>2. queue' = <<>> /\ saved' = <<>>
  BY DEF Kill, Start, PersistenceInv, EcsInv, Markers, Flushing
<1>3. NoChunks'  BY <1>1, <1>2 DEF NoChunks
<1>4. (NoChunks => EcsInv)'  BY NothingLoaded, PTL
<1> QED BY <1>3, <1>4

-----------------------------------------------------------------------------
(* Init establishes the invariant and every step keeps it. *)

LEMMA PersistenceStarts == Init => PersistenceInv
  BY FileStarts, NothingLoaded DEF Init, FileInit, NoChunks, PersistenceInv

LEMMA PersistenceKeeps ==
  ASSUME Sound PROVE PersistenceInv /\ [Next]_vars => PersistenceInv'
<1> SUFFICES ASSUME PersistenceInv, [Next]_vars PROVE PersistenceInv'  OBVIOUS
<1>1. FileInv'  BY FileSteps, FileKeeps DEF PersistenceInv
<1>2. EcsInv'
  <2>1. ASSUME NEW c \in Chunks, Load(c) PROVE EcsInv'  BY <2>1, LoadKeeps
  <2>2. ASSUME NEW c \in Chunks, NEW n \in Sizes, Edit(c, n) PROVE EcsInv'
    BY <2>2, EditKeeps
  <2>3. CASE SaveTick
    <3>1. CASE mode' = mode
      BY <2>3, <3>1, WaitKeeps DEF SaveTick
    <3>2. CASE mode' # mode
      BY <2>3, <3>2, FlushKeeps DEF SaveTick
    <3> QED BY <3>1, <3>2
  <2>4. CASE Exit  BY <2>4, FlushKeeps DEF Exit
  <2>5. CASE Visit  BY <2>5, VisitKeeps
  <2>6. CASE Data  BY <2>6, DataStepKeeps
  <2>7. CASE Header  BY <2>7, HeaderStepKeeps
  <2>8. CASE Break  BY <2>8, BreakKeeps
  <2>10. CASE Clear  BY <2>10, ClearKeeps
  <2>11. CASE EndFlush  BY <2>11, EndFlushKeeps
  <2>12. CASE Kill \/ Start  BY <2>12, StopKeeps
  <2>13. CASE UNCHANGED vars  BY <2>13, WaitKeeps DEF vars, ecsVars
  <2> QED
    BY <2>1, <2>2, <2>3, <2>4, <2>5, <2>6, <2>7, <2>8, <2>10, <2>11, <2>12, <2>13
       DEF Next
<1> QED BY <1>1, <1>2 DEF PersistenceInv

(* What a load would find for a chunk that is not being written *)
LEMMA LoadsKept ==
  ASSUME FileInv, ~Busy, NEW c \in Chunks PROVE LoadOrGenerate(c) = Kept(c)
  BY ReadsStored DEF LoadOrGenerate, Kept

-----------------------------------------------------------------------------
(* The region file of a running server goes through the steps of RegionFile *)
(* only: whatever is proved of FileSpec holds of the server's file.         *)
THEOREM ServerUsesFile == ASSUME Sound PROVE Spec => FileSpec
<1>1. Init => FileInit  BY DEF Init
<1>2. PersistenceInv /\ [Next]_vars => [FileNext]_fileVars  BY FileSteps
<1> QED
  BY <1>1, <1>2, PersistenceStarts, PersistenceKeeps, PTL DEF Spec, FileSpec

(* flush_dirty: a chunk without its marker, or about to lose it, would be   *)
(* loaded again as it is.                                                   *)
THEOREM EditsKept == ASSUME Sound PROVE Spec => []CleanIsStored
<1>1. PersistenceInv => CleanIsStored
  <2> SUFFICES ASSUME PersistenceInv, write = Idle, NEW c \in Loaded,
                      ~Dirty(c) \/ c \in ToSet(saved)
               PROVE  mem[c] = LoadOrGenerate(c)
    BY DEF CleanIsStored
  <2>1. c \in Chunks /\ LoadOrGenerate(c) = Kept(c)
    BY LoadsKept DEF Loaded, Busy, Idle, PersistenceInv
  <2> QED BY <2>1 DEF Dirty, PersistenceInv, EcsInv, Clean
<1> QED BY <1>1, PersistenceStarts, PersistenceKeeps, PTL DEF Spec

Counted == stops \in Nat

LEMMA StopsCounted == Spec => []Counted
<1>1. Init => Counted  BY DEF Init, Counted
<1>2. Counted /\ [Next]_vars => Counted'
  BY DEF Counted, Next, Load, Edit, SaveTick, Exit, Visit, Data, Header, Break,
         Clear, EndFlush, Kill, Start, vars
<1> QED BY <1>1, <1>2, PTL DEF Spec

(* Only the end of a flush and a kill bring the process down. *)
LEMMA Downs ==
  ASSUME Counted, Next, mode # "down", mode' = "down", stops' = stops
  PROVE  EndFlush
<1>1. ~Kill  BY DEF Kill, Counted
<1> QED
  BY <1>1 DEF Next, Load, Edit, SaveTick, Exit, Visit, Data, Header, Break,
              Clear, Start, ecsVars

(* flush_on_exit: when the process stops by itself, the next one finds all  *)
(* that was in memory, chunks too large for the file aside.                 *)
THEOREM ExitKeeps == ASSUME Sound PROVE Spec => ExitKeepsAll
<1> DEFINE Stopping == mode = "exiting" /\ mode' = "down" /\ stops' = stops
           Kind == \A c \in Loaded : mem[c].size <= MaxRun => mem[c] = LoadOrGenerate(c)'
<1>1. PersistenceInv /\ Counted /\ [Next]_vars => [Stopping => Kind]_vars
  <2> SUFFICES ASSUME PersistenceInv, Counted, Next, Stopping,
                      NEW c \in Loaded, mem[c].size <= MaxRun
               PROVE  mem[c] = LoadOrGenerate(c)'
    OBVIOUS
  <2>1. EndFlush  BY Downs
  <2>2. write = Idle /\ ~Busy /\ queue = <<>> /\ saved = <<>> /\ UNCHANGED fileVars
    BY <2>1, IdleOrBusy DEF EndFlush, PersistenceInv
  <2>3. c \notin ToSet(dirty)
    BY <2>2, EmptySet DEF PersistenceInv, EcsInv, Exiting
  <2>4. mem[c] = Kept(c) /\ c \in Chunks
    BY <2>3 DEF PersistenceInv, EcsInv, Clean, Loaded
  <2>5. LoadOrGenerate(c) = Kept(c)
    BY <2>2, <2>4, LoadsKept DEF PersistenceInv
  <2>6. LoadOrGenerate(c)' = LoadOrGenerate(c)
    BY <2>2 DEF LoadOrGenerate, ReadChunk, PayloadAt, Generated, fileVars, diskVars, memoryVars
  <2> QED BY <2>4, <2>5, <2>6
<1> QED
  BY <1>1, PersistenceStarts, PersistenceKeeps, StopsCounted, PTL DEF Spec, ExitKeepsAll
=============================================================================
