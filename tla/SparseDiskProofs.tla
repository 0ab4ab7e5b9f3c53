--------------------------- MODULE SparseDiskProofs ---------------------------
(***************************************************************************)
(* What a dynamic VHD holds, for any number of threads, blocks, faults and *)
(* crashes: a new trailing footer is durable before the old one is written *)
(* over (NewFooterIsDurable), every cell reads as a value it may have      *)
(* (ReadBack), and the write path implements the virtual disk              *)
(* (IsVirtualDisk).                                                        *)
(***************************************************************************)
EXTENDS SparseImageProofs

(* While a writer is past the lock, the others are not; its step is its own. *)
LEMMA OthersWait ==
  ASSUME TypeOK, LockInv, NEW w \in Writers, NEW step, pc[w] \in Holding,
         Goto(w, step)
  PROVE  /\ lock = w /\ mode = "open" /\ pc'[w] = step
         /\ \A u \in Writers : u # w =>
              pc'[u] = pc[u] /\ pc[u] \in {"idle", "lock"}
<1>1. lock = w /\ mode = "open"
  BY DEF LockInv, Holding, TypeOK, ReaderType
<1>2. pc' = [pc EXCEPT ![w] = step] /\ pc \in [Writers -> Steps]
  BY DEF Goto, TypeOK, WriterType
<1>3. \A u \in Writers : u # w => pc[u] \in {"idle", "lock"}
  BY <1>1, <1>2 DEF LockInv, Holding
<1> QED BY <1>1, <1>2, <1>3

-----------------------------------------------------------------------------
(* The new trailing footer *)

LEMMA FootedNothing ==
  ASSUME TypeOK, NEW w \in Writers,
         pc'[w] \notin {"footerFlush", "zero", "zeroFlush"} \cup Publishing
  PROVE  Footed(w)'
BY DEF Footed

(* Where the trailing footer of the block under construction lies. *)
LEMMA NewFooterPlace ==
  ASSUME TypeOK, LayoutInv, FooterInv, NEW w \in Writers, mode = "open",
         pc[w] \in Building \cup Publishing
  PROVE  /\ host[w] \in Nat /\ DataStart <= host[w]
         /\ size \in Nat /\ size - 1 \in Sectors
         /\ pc[w] \in Building =>
              host[w] = next_alloc_off /\ size = FooterAt(host[w]) + 1
         /\ pc[w] \in Publishing => size = FooterAt(host[w]) + 1
<1>1. /\ host[w] \in Nat /\ DataStart <= host[w] /\ FooterAt(host[w]) < size
      /\ pc[w] \in Building => host[w] = next_alloc_off
  BY BuildFacts
<1>2. size \in Nat /\ size - 1 \in Sectors
  BY SparseAssumption DEF TypeOK, FileType, Sectors
<1>3. size <= FooterAt(next_alloc_off) + 1
  BY DEF FooterInv
<1>4. FooterAt(host[w]) \in Nat
  BY <1>1, SizesAreNat DEF FooterAt
<1>5. pc[w] \in Publishing => size = FooterAt(host[w]) + 1
  BY DEF FooterInv, Footed
<1> QED BY <1>1, <1>2, <1>3, <1>4, <1>5

(* A step of the holder that leaves the length and the tail alone. *)
LEMMA HolderFooted ==
  ASSUME TypeOK, LayoutInv, FooterInv, NEW w \in Writers, NEW step,
         pc[w] \in Holding, Goto(w, step), Footed(w)',
         size' = size, next_alloc_off' = next_alloc_off
  PROVE  FooterInv'
<1>1. mode = "open" /\ \A u \in Writers : u # w => pc'[u] \in {"idle", "lock"}
  BY OthersWait DEF LayoutInv
<1>2. \A u \in Writers : Footed(u)'
  BY <1>1, FootedNothing DEF Publishing
<1> QED BY <1>1, <1>2 DEF FooterInv, FooterAt

LEMMA FooterStepFooted ==
  ASSUME TypeOK, LayoutInv, FooterInv, NEW w \in Writers,
         WriteFooter(w) \/ FlushFooter(w) \/ ZeroBlock(w) \/ WriteTable(w)
  PROVE  FooterInv'
<1>1. /\ mode = "open" /\ pc[w] \in Building \cup Publishing /\ pc[w] \in Holding
      /\ UNCHANGED <<mode, next_alloc_off, host>>
  BY DEF WriteFooter, FlushFooter, ZeroBlock, WriteTable, At, Building, Publishing,
         Holding, Steps, reader, writer
<1>2. /\ host[w] \in Nat /\ DataStart <= host[w]
      /\ size \in Nat /\ size - 1 \in Sectors /\ size = FooterAt(host[w]) + 1
  BY <1>1, NewFooterPlace
<1>3. FooterAt(host[w])' = FooterAt(host[w]) /\ FooterAt(host[w]) = size - 1
  BY <1>1, <1>2, SizesAreNat DEF FooterAt
<1>4. CASE WriteFooter(w)
  <2>1. /\ Goto(w, "footerFlush") /\ pc'[w] = "footerFlush" /\ size' = size
        /\ sector' = [sector EXCEPT ![FooterAt(host[w])] = FooterSector]
    BY <1>4 DEF WriteFooter, Continue, Goto, Put, TypeOK, WriterType
  <2>2. TailFooter' = "whole"
    BY <1>2, <1>3, <2>1 DEF TailFooter, FooterSector, TypeOK, FileType
  <2>3. Footed(w)'
    BY <1>2, <1>3, <2>1, <2>2 DEF Footed, Publishing
  <2> QED BY <1>1, <2>1, <2>3, HolderFooted
<1>5. CASE FlushFooter(w)
  <2>1. /\ Goto(w, "zero") /\ pc'[w] = "zero" /\ pc[w] = "footerFlush" /\ Sync
    BY <1>5 DEF FlushFooter, Continue, Goto, At, TypeOK, WriterType
  <2>2. /\ size' = size /\ sizeMedia' = {size}
        /\ sectorMedia'[size - 1] = {sector[size - 1]}
    BY <1>2, <2>1 DEF Sync, file
  <2>3. TailFooter = "whole"
    BY <2>1 DEF FooterInv, Footed
  <2>4. Footed(w)'
    BY <1>2, <1>3, <2>1, <2>2, <2>3 DEF Footed, TailFooter
  <2> QED BY <1>1, <2>1, <2>2, <2>4, HolderFooted
<1>6. CASE ZeroBlock(w)
  <2>1. /\ Goto(w, "zeroFlush") /\ pc'[w] = "zeroFlush" /\ pc[w] = "zero"
        /\ ZeroOver(host[w], BlockTotal)
    BY <1>6 DEF ZeroBlock, Continue, Goto, At, TypeOK, WriterType
  <2>2. Put(Zeroed(host[w], BlockTotal))
    BY <1>2, <2>1, SizesAreNat DEF ZeroOver
  <2>3. Zeroed(host[w], BlockTotal)[size - 1] = sector[size - 1]
    BY <1>2, SizesAreNat DEF Zeroed, FooterAt
  <2>4. /\ size' = size /\ sizeMedia' = sizeMedia
        /\ sectorMedia'[size - 1] = sectorMedia[size - 1] \cup {sector[size - 1]}
    BY <1>2, <2>2, <2>3 DEF Put
  <2>5. sector[size - 1] \in sectorMedia[size - 1]
    BY <1>2 DEF LayoutInv, MediaInv
  <2>6. sizeMedia = {size} /\ \A x \in sectorMedia[size - 1] : x.footer = "whole"
    BY <2>1 DEF FooterInv, Footed
  <2>7. Footed(w)'
    BY <1>2, <1>3, <2>1, <2>4, <2>5, <2>6 DEF Footed
  <2> QED BY <1>1, <2>1, <2>4, <2>7, HolderFooted
<1>7. CASE WriteTable(w)
  <2>1. /\ Goto(w, "tableFlush") /\ pc'[w] = "tableFlush" /\ pc[w] = "table"
        /\ size' = size /\ sizeMedia' = sizeMedia /\ sectorMedia' = sectorMedia
    BY <1>7 DEF WriteTable, Continue, Goto, At, PutEntry, TypeOK, WriterType
  <2>2. sizeMedia = {size} /\ \A x \in sectorMedia[size - 1] : x.footer = "whole"
    BY <2>1 DEF FooterInv, Footed, Publishing
  <2>3. Footed(w)'
    BY <1>2, <1>3, <2>1, <2>2 DEF Footed
  <2> QED BY <1>1, <2>1, <2>3, HolderFooted
<1> QED BY <1>4, <1>5, <1>6, <1>7

(* The tail moves to the new footer. *)
LEMMA FlushZeroFooted ==
  ASSUME TypeOK, LayoutInv, FooterInv, NEW w \in Writers, FlushZero(w)
  PROVE  FooterInv'
<1>1. /\ mode = "open" /\ pc[w] = "zeroFlush" /\ Goto(w, "table") /\ Sync
      /\ next_alloc_off' = FooterAt(host[w]) /\ host' = host /\ mode' = mode
  BY DEF FlushZero, At, Continue, writer, FooterAt
<1>2. pc[w] \in Building /\ pc[w] \in Holding
  BY <1>1 DEF Building, Holding, Steps
<1>3. /\ host[w] \in Nat /\ size \in Nat /\ size - 1 \in Sectors
      /\ size = FooterAt(host[w]) + 1
  BY <1>1, <1>2, NewFooterPlace
<1>4. /\ size' = size /\ sizeMedia' = {size}
      /\ sectorMedia'[size - 1] = {sector[size - 1]}
  BY <1>1, <1>3 DEF Sync, file
<1>5. sector[size - 1].footer = "whole"
  BY <1>1, <1>3 DEF FooterInv, Footed, LayoutInv, MediaInv
<1>6. /\ pc'[w] = "table"
      /\ \A u \in Writers : u # w => pc'[u] \in {"idle", "lock"}
  BY <1>1, <1>2, OthersWait DEF LayoutInv
<1>7. Footed(w)'
  BY <1>1, <1>3, <1>4, <1>5, <1>6 DEF Footed, FooterAt
<1>8. \A u \in Writers : Footed(u)'
  BY <1>6, <1>7, FootedNothing DEF Publishing
<1>9. size' <= FooterAt(next_alloc_off)' + 1
  BY <1>1, <1>3, <1>4, SizesAreNat DEF FooterAt
<1> QED BY <1>8, <1>9 DEF FooterInv

LEMMA AllocateFooted ==
  ASSUME TypeOK, LayoutInv, FooterInv, NEW w \in Writers, Allocate(w)
  PROVE  FooterInv'
<1>1. /\ mode = "open" /\ Goto(w, "footer") /\ pc[w] \in Holding
      /\ size' = GrownSize /\ UNCHANGED <<mode, next_alloc_off>>
  BY DEF Allocate, At, Continue, Grow, reader, Holding, Steps
<1>2. size \in Nat /\ next_alloc_off \in Nat /\ size <= FooterAt(next_alloc_off) + 1
  BY <1>1, SparseAssumption DEF FooterInv, TypeOK, FileType, ReaderType
<1>3. size' <= FooterAt(next_alloc_off)' + 1
  BY <1>1, <1>2, SizesAreNat DEF GrownSize, Larger, FooterAt
<1>4. /\ pc'[w] = "footer"
      /\ \A u \in Writers : u # w => pc'[u] \in {"idle", "lock"}
  BY <1>1, OthersWait DEF LayoutInv
<1>5. \A u \in Writers : Footed(u)'
  BY <1>4, FootedNothing DEF Publishing
<1> QED BY <1>3, <1>5 DEF FooterInv

(* The steps that say nothing of the trailing footer: those that fail, those
   before the footer is written and those past the BAT.                    *)
LEMMA OtherFooted ==
  ASSUME TypeOK, LayoutInv, FooterInv, NEW w \in Writers,
         \/ RefuseEntry(w) \/ GrowFails(w) \/ FooterFails(w) \/ ZeroFails(w)
         \/ TableFails(w) \/ FlushTable(w) \/ Define(w) \/ DefineFails(w)
         \/ WriteData(w) \/ DataFails(w) \/ ReadBitmap(w) \/ WriteBitmap(w)
         \/ BitmapFails(w) \/ FlushChunk(w) \/ CallFails(w)
  PROVE  FooterInv'
<1>1. PICK step \in {"idle", "lock", "retryFooter", "define", "data", "readBitmap",
                     "bitmap", "flush"} : Goto(w, step)
  BY DEF RefuseEntry, GrowFails, FooterFails, ZeroFails, TableFails, FlushTable,
         Define, DefineFails, WriteData, DataFails, ReadBitmap, WriteBitmap,
         BitmapFails, FlushChunk, CallFails, EndChunk, Fail, Continue
<1>2. pc[w] \in Holding
  BY DEF RefuseEntry, GrowFails, FooterFails, ZeroFails, TableFails, FlushTable,
         Define, DefineFails, WriteData, DataFails, ReadBitmap, WriteBitmap,
         BitmapFails, FlushChunk, CallFails, At, Holding, Steps
<1>3. next_alloc_off' = next_alloc_off
  BY DEF RefuseEntry, GrowFails, FooterFails, ZeroFails, TableFails, FlushTable,
         Define, DefineFails, WriteData, DataFails, ReadBitmap, WriteBitmap,
         BitmapFails, FlushChunk, CallFails, reader
<1>4. size' = size
  BY DEF RefuseEntry, GrowFails, FooterFails, ZeroFails, TableFails, FlushTable,
         Define, DefineFails, WriteData, DataFails, ReadBitmap, WriteBitmap,
         BitmapFails, FlushChunk, CallFails, file, Put, PutEntry, Sync, ZeroOver
<1>5. pc'[w] = step
  BY <1>1 DEF Goto, TypeOK, WriterType
<1>6. Footed(w)'
  BY <1>5, FootedNothing DEF Publishing
<1> QED BY <1>1, <1>2, <1>3, <1>4, <1>6, HolderFooted

LEMMA BeginFooted ==
  ASSUME TypeOK, LayoutInv, FooterInv, NEW w \in Writers, Call(w) \/ TakeLock(w)
  PROVE  FooterInv'
<1>1. UNCHANGED <<file, media, reader>>
  BY DEF Call, TakeLock, LookUp
<1>2. CASE Call(w)
  <2>1. ASSUME NEW u \in Writers, u # w PROVE Footed(u)'
    <3>1. pc'[u] = pc[u] /\ host'[u] = host[u]
      BY <1>2, <2>1 DEF Call, Continue, Goto, TypeOK, WriterType
    <3> QED BY <1>1, <3>1 DEF FooterInv, Footed, FooterAt, TailFooter, file, media
  <2>2. pc'[w] = "lock"
    BY <1>2 DEF Call, Continue, Goto, TypeOK, WriterType
  <2>3. \A u \in Writers : Footed(u)'
    BY <2>1, <2>2, FootedNothing DEF Publishing
  <2> QED BY <1>1, <2>3 DEF FooterInv, FooterAt, file, reader
<1>3. CASE TakeLock(w)
  <2>1. \A u \in Writers : pc[u] \notin Holding
    BY <1>3, SparseAssumption DEF TakeLock, LayoutInv, LockInv
  <2>2. \A u \in Writers : pc'[u] \in {"idle", "lock", "allocate", "define"}
    BY <1>3, <2>1 DEF TakeLock, LookUp, Goto, TypeOK, WriterType, Holding
  <2>3. \A u \in Writers : Footed(u)'
    BY <2>2, FootedNothing DEF Publishing
  <2> QED BY <1>1, <2>3 DEF FooterInv, FooterAt, file, reader
<1> QED BY <1>2, <1>3

(* A file that opens is no longer than its tail and a footer. *)
LEMMA OpenedFooted ==
  ASSUME NEW t \in [Blocks -> Nat], NEW n \in 1 .. Capacity, NEW f \in Footers,
         OpenAccepts(t, n, f)
  PROVE  n <= FooterAt(OpenTail(t, n, f)) + 1
<1>1. OpenTail(t, n, f) \in Nat /\ n - 1 <= OpenTail(t, n, f)
  BY OpenTailBounds
<1> QED BY <1>1, SizesAreNat, SparseAssumption DEF FooterAt

LEMMA InitFooted == Init => FooterInv
<1> SUFFICES ASSUME Init PROVE FooterInv
  OBVIOUS
<1>1. TypeOK
  BY InitType
<1>2. /\ table \in [Blocks -> Nat] /\ size \in 1 .. Capacity /\ TailFooter \in Footers
  BY <1>1, SparseAssumption DEF TypeOK, FileType, TailFooter, Sectors, SectorContents
<1>3. size <= FooterAt(next_alloc_off) + 1
  BY <1>2, OpenedFooted DEF Init
<1>4. \A w \in Writers : Footed(w)
  BY DEF Init, Footed, Publishing
<1> QED BY <1>3, <1>4 DEF FooterInv

LEMMA StepFooted ==
  TypeOK /\ LayoutInv /\ FooterInv /\ [Next]_vars => FooterInv'
<1> SUFFICES ASSUME TypeOK, LayoutInv, FooterInv, [Next]_vars PROVE FooterInv'
  OBVIOUS
<1>1. ASSUME NEW w \in Writers, Call(w) \/ Proceed(w) PROVE FooterInv'
  BY <1>1, BeginFooted, AllocateFooted, FooterStepFooted, FlushZeroFooted, OtherFooted
  DEF Proceed
<1>2. CASE FlushWrites
  <2>1. /\ Sync /\ UNCHANGED <<mode, next_alloc_off, pc, host>>
    BY <1>2 DEF FlushWrites, reader, writer
  <2>2. size - 1 \in Sectors
    BY SparseAssumption DEF TypeOK, FileType, Sectors
  <2>3. /\ size' = size /\ sector' = sector /\ sizeMedia' = {size}
        /\ sectorMedia'[size - 1] = {sector[size - 1]}
        /\ sector[size - 1] \in sectorMedia[size - 1]
    BY <2>1, <2>2 DEF Sync, file, LayoutInv, MediaInv
  <2>4. \A w \in Writers : Footed(w)'
    BY <2>1, <2>3 DEF FooterInv, Footed, FooterAt, TailFooter
  <2> QED BY <2>1, <2>3, <2>4 DEF FooterInv, FooterAt
<1>3. CASE Stop
  BY <1>3, FootedNothing DEF Stop, FooterInv, Publishing
<1>4. CASE Open
  <2>1. /\ table \in [Blocks -> Nat] /\ size \in 1 .. Capacity
        /\ TailFooter \in Footers
    BY SparseAssumption DEF TypeOK, FileType, TailFooter, Sectors, SectorContents
  <2>2. size <= FooterAt(next_alloc_off') + 1 /\ size' = size
    BY <1>4, <2>1, OpenedFooted DEF Open, file
  <2>3. \A w \in Writers : pc'[w] = "idle"
    BY <1>4 DEF Open, LayoutInv, LockInv
  <2>4. \A w \in Writers : Footed(w)'
    BY <2>3, FootedNothing DEF Publishing
  <2> QED BY <2>2, <2>4 DEF FooterInv, FooterAt
<1>5. CASE UNCHANGED vars
  BY <1>5 DEF vars, file, media, reader, writer, FooterInv, Footed, FooterAt, TailFooter
<1> QED BY <1>1, <1>2, <1>3, <1>4, <1>5 DEF Next, Kill, PowerLoss

(* allocate_block_locked: from the zeroing of the old trailing footer until the
   BAT is flushed, whatever failed or was cut off before, the new trailing
   footer is the last sector of the only file a power loss can leave.      *)
THEOREM FooterFirst == SoundImages => (Spec => []NewFooterIsDurable)
<1> SUFFICES ASSUME SoundImages PROVE Spec => []NewFooterIsDurable
  OBVIOUS
<1>1. Init => FooterInv
  BY InitFooted
<1>2. TypeOK /\ LayoutInv /\ FooterInv /\ [Next]_vars => FooterInv'
  BY StepFooted
<1>3. FooterInv => NewFooterIsDurable
  BY DEF FooterInv, Footed, NewFooterIsDurable, Publishing
<1> QED BY <1>1, <1>2, <1>3, TypeCorrect, LayoutCorrect, PTL DEF Spec

-----------------------------------------------------------------------------
(* Where a cell lies, and what a chunk covers *)

(* Division and remainder, for one divisor. *)
LEMMA Divided ==
  ASSUME NEW n \in Nat, NEW d \in Nat \ {0}
  PROVE  /\ n \div d \in Nat /\ n % d \in 0 .. d - 1
         /\ n = d * (n \div d) + (n % d)
BY SMTT(30)

LEMMA RemainderIs ==
  ASSUME NEW d \in Nat \ {0}, NEW q \in Nat, NEW r \in 0 .. d - 1
  PROVE  (d * q + r) % d = r
BY SMTT(30)

LEMMA QuotientGrows ==
  ASSUME NEW d \in Nat \ {0}, NEW m \in Nat, NEW n \in Nat, m <= n
  PROVE  m \div d <= n \div d
BY SMTT(30)

(* A cell is its block, its sector in the block and its part of the sector. *)
LEMMA CellIsItsPlace ==
  ASSUME NEW c \in Cells
  PROVE  /\ c \in Nat
         /\ BlockOf(c) \in Nat /\ c % BlockCells \in Nat
         /\ c = BlockCells * BlockOf(c) + (c % BlockCells)
         /\ OffsetOf(c) \in Nat /\ PartOf(c) \in Nat
         /\ c % BlockCells = CellsPerSector * OffsetOf(c) + PartOf(c)
<1>1. c \in Nat /\ BlockCells \in Nat \ {0} /\ CellsPerSector \in Nat \ {0}
      /\ SectorsPerBlock \in Nat
  BY SizesAreNat, LayoutAssumption DEF Cells
<1> DEFINE q == c \div BlockCells
           r == c % BlockCells
           o == r \div CellsPerSector
           p == r % CellsPerSector
<1>2. q \in Nat /\ r \in 0 .. BlockCells - 1 /\ c = BlockCells * q + r
  BY <1>1, Divided
<1>3. r \in Nat
  BY <1>1, <1>2
<1>4. o \in Nat /\ p \in 0 .. CellsPerSector - 1 /\ r = CellsPerSector * o + p
  BY <1>1, <1>3, Divided
<1>5. c % CellsPerSector = p
  <2> DEFINE k == SectorsPerBlock * q + o
  <2> HIDE DEF q, r, o, p
  <2>1. k \in Nat
    BY <1>1, <1>2, <1>4
  <2>2. BlockCells * q = CellsPerSector * (SectorsPerBlock * q)
    BY <1>1, <1>2 DEF BlockCells
  <2>3. c = CellsPerSector * (SectorsPerBlock * q) + (CellsPerSector * o + p)
    BY <1>2, <1>4, <2>2
  <2> DEFINE a == SectorsPerBlock * q
  <2>4. a \in Nat
    BY <1>1, <1>2
  <2>5. c = CellsPerSector * a + (CellsPerSector * o + p)
    BY <2>3
  <2>6. k = a + o
    OBVIOUS
  <2> HIDE DEF a, k
  <2>7. CellsPerSector * (a + o) = CellsPerSector * a + CellsPerSector * o
    BY <1>1, <1>4, <2>4
  <2>8. /\ CellsPerSector * a \in Nat /\ CellsPerSector * o \in Nat
        /\ CellsPerSector * k \in Nat /\ p \in Nat
    BY <1>1, <1>4, <2>1, <2>4
  <2>9. c = CellsPerSector * k + p
    BY <2>5, <2>6, <2>7, <2>8
  <2> QED BY <1>1, <1>4, <2>1, <2>9, RemainderIs
<1>6. BlockOf(c) = q /\ OffsetOf(c) = o /\ PartOf(c) = p
  BY <1>5 DEF BlockOf, OffsetOf, PartOf
<1>7. p \in Nat
  BY <1>1, <1>4
<1> QED BY <1>1, <1>2, <1>3, <1>4, <1>6, <1>7, Zenon

LEMMA SamePlaceSameCell ==
  ASSUME NEW c \in Cells, NEW d \in Cells, BlockOf(c) = BlockOf(d),
         OffsetOf(c) = OffsetOf(d), PartOf(c) = PartOf(d)
  PROVE  c = d
<1>1. c % BlockCells = d % BlockCells
  BY CellIsItsPlace, Zenon
<1> QED BY <1>1, CellIsItsPlace, Zenon

(* Further on in the same block is no sooner a sector. *)
LEMMA OffsetGrows ==
  ASSUME NEW c \in Cells, NEW d \in Cells, BlockOf(c) = BlockOf(d), c <= d
  PROVE  OffsetOf(c) <= OffsetOf(d)
<1> DEFINE r == c % BlockCells
           z == d % BlockCells
           k == BlockCells * BlockOf(c)
<1>1. /\ c = k + r /\ d = k + z /\ r \in Nat /\ z \in Nat
  BY CellIsItsPlace, Zenon
<1>2. k \in Nat
  BY CellIsItsPlace, SizesAreNat
<1>3. CellsPerSector \in Nat \ {0}
  BY LayoutAssumption
<1> HIDE DEF r, z, k
<1>4. r <= z
  BY <1>1, <1>2
<1>5. r \div CellsPerSector <= z \div CellsPerSector
  BY <1>1, <1>3, <1>4, QuotientGrows
<1> QED BY <1>5 DEF r, z, OffsetOf

(* The cells of a writer's chunk: in one block, with their sectors' bits. *)
LEMMA ChunkPlace ==
  ASSUME TypeOK, NEW w \in Writers
  PROVE  /\ \A c \in Chunk(w) : /\ c \in Cells /\ BlockOf(c) = Block(w)
                                /\ OffsetOf(c) \in ChunkOffsets(w)
         /\ \A c \in Cells \ Chunk(w) :
              BlockOf(c) = Block(w) /\ OffsetOf(c) \in ChunkOffsets(w)
                => OffsetOf(c) \in {OffsetOf(cursor[w]), OffsetOf(ChunkStop(w) - 1)}
         /\ Chunk(w) # {}
<1>1. /\ cursor[w] \in Cells /\ cursor[w] \in Nat
      /\ op[w].to \in 1 .. VirtualCells /\ cursor[w] < op[w].to
      /\ ChunkStop(w) \in 1 .. VirtualCells /\ ChunkStop(w) \in Nat
      /\ cursor[w] < ChunkStop(w)
  BY ChunkType, SizesAreNat DEF TypeOK, WriterType, Cells
<1> DEFINE first == cursor[w]
           last == ChunkStop(w) - 1
<1>2. ASSUME NEW c \in Chunk(w) PROVE c \in Cells /\ BlockOf(c) = Block(w)
  BY <1>1, ChunkInBlock DEF Chunk, ChunkStop, Block
<1>3. /\ first \in Chunk(w) /\ last \in Chunk(w) /\ last \in Nat
  BY <1>1 DEF Chunk
<1>4. /\ first \in Cells /\ last \in Cells
      /\ BlockOf(first) = Block(w) /\ BlockOf(last) = Block(w)
  BY <1>2, <1>3
<1>5. \A c \in Cells : OffsetOf(c) \in Nat
  BY CellIsItsPlace
<1>6. ASSUME NEW c \in Chunk(w) PROVE OffsetOf(c) \in ChunkOffsets(w)
  <2>1. first <= c /\ c <= last /\ c \in Cells /\ BlockOf(c) = Block(w)
    BY <1>1, <1>2, <1>6 DEF Chunk
  <2>2. OffsetOf(first) <= OffsetOf(c) /\ OffsetOf(c) <= OffsetOf(last)
    BY <1>4, <2>1, OffsetGrows
  <2> QED BY <1>4, <1>5, <2>1, <2>2 DEF ChunkOffsets
<1>7. ASSUME NEW c \in Cells \ Chunk(w), BlockOf(c) = Block(w),
             OffsetOf(c) \in ChunkOffsets(w)
      PROVE  OffsetOf(c) \in {OffsetOf(first), OffsetOf(last)}
  <2>1. /\ OffsetOf(first) <= OffsetOf(c) /\ OffsetOf(c) <= OffsetOf(last)
        /\ OffsetOf(c) \in Nat /\ OffsetOf(first) \in Nat /\ OffsetOf(last) \in Nat
    BY <1>4, <1>5, <1>7 DEF ChunkOffsets
  <2>2. c <= first \/ last <= c
    BY <1>1, <1>3 DEF Chunk, Cells
  <2>3. c <= first => OffsetOf(c) <= OffsetOf(first)
    BY <1>4, <1>7, OffsetGrows
  <2>4. last <= c => OffsetOf(last) <= OffsetOf(c)
    BY <1>4, <1>7, OffsetGrows
  <2> QED BY <2>1, <2>2, <2>3, <2>4
<1> QED BY <1>2, <1>3, <1>6, <1>7

-----------------------------------------------------------------------------
(* What a reader sees *)

(* Visible, of the sectors x instead of the file's. *)
View(x, t, c) ==
  IF t[BlockOf(c)] = BAT_UNALLOCATED \/ OffsetOf(c) \notin x[t[BlockOf(c)]].bits
  THEN Zero
  ELSE x[DataSectorOf(t[BlockOf(c)], c)].cells[PartOf(c)]

LEMMA Seen ==
  \A c \in Cells : \A t : Visible(t, c) = View(sector, t, c)
BY DEF Visible, View

(* A cell whose block no write reached is as it was. *)
LEMMA SameView ==
  ASSUME NEW x, NEW y, NEW t, NEW c \in Cells,
         t[BlockOf(c)] # BAT_UNALLOCATED =>
           /\ t[BlockOf(c)] \in Nat
           /\ \A s \in Extent(t[BlockOf(c)]) : y[s] = x[s]
  PROVE  View(y, t, c) = View(x, t, c)
<1>1. CASE t[BlockOf(c)] = BAT_UNALLOCATED
  BY <1>1 DEF View
<1>2. CASE t[BlockOf(c)] # BAT_UNALLOCATED
  <2> DEFINE e == t[BlockOf(c)]
  <2>1. /\ e \in Extent(e) /\ DataSectorOf(e, c) \in Extent(e)
    BY <1>2, CellInExtent
  <2>2. y[e] = x[e] /\ y[DataSectorOf(e, c)] = x[DataSectorOf(e, c)]
    BY <1>2, <2>1
  <2> QED BY <2>2 DEF View
<1> QED BY <1>1, <1>2

(* The block a writer past the allocation is at. *)
LEMMA LandedPlace ==
  ASSUME TypeOK, LayoutInv, PayloadInv, CachedIsWritten,
         NEW w \in Writers, pc[w] \in Landed
  PROVE  /\ pc[w] \in Holding /\ lock = w /\ mode = "open"
         /\ Block(w) \in Blocks /\ host[w] \in Entries(Block(w))
         /\ host[w] \in Nat /\ host[w] # BAT_UNALLOCATED
         /\ bat[Block(w)] = host[w] /\ table[Block(w)] = host[w]
         /\ Extent(host[w]) \subseteq Sectors
         /\ op[w].value \in Values
         /\ \A c \in Cells : /\ DataSectorOf(host[w], c) \in Extent(host[w])
                             /\ DataSectorOf(host[w], c) \in Sectors
                             /\ DataSectorOf(host[w], c) # host[w]
         /\ host[w] \in Extent(host[w]) /\ host[w] \in Sectors
<1>1. pc[w] \in Holding /\ lock = w /\ mode = "open"
  BY DEF Landed, Holding, Steps, LayoutInv, LockInv, TypeOK, ReaderType
<1>2. Block(w) \in Blocks /\ op[w].value \in Values
  BY ChunkType DEF TypeOK
<1>3. bat[Block(w)] = host[w] /\ host[w] # BAT_UNALLOCATED
  BY DEF PayloadInv, AtBlock
<1>4. table[Block(w)] = host[w] /\ host[w] \in Entries(Block(w))
  BY <1>2, <1>3, CachedEntry DEF CachedIsWritten
<1>5. host[w] \in Nat /\ Extent(host[w]) \subseteq Sectors
  BY <1>2, <1>4, EntryExtent
<1>6. \A c \in Cells : /\ DataSectorOf(host[w], c) \in Extent(host[w])
                       /\ DataSectorOf(host[w], c) # host[w]
  BY <1>5, CellInExtent
<1>7. host[w] \in Extent(host[w])
  <2>1. 0 \in Cells
    BY Defaults
  <2> QED BY <1>5, <2>1, CellInExtent
<1> QED BY <1>1, <1>2, <1>3, <1>4, <1>5, <1>6, <1>7

(* Filling cells of a block leaves its bitmap alone. *)
LEMMA FilledBitmap ==
  ASSUME NEW h \in Sectors, NEW v, NEW D \in SUBSET Cells
  PROVE  Filling(h, D, v)[h] = sector[h]
<1>1. \A c \in D : DataSectorOf(h, c) # h
  BY CellInExtent, Defaults
<1> QED BY <1>1 DEF Filling

(* It sets these cells, and no other of the block. *)
LEMMA FilledCell ==
  ASSUME NEW h \in Sectors, NEW v, NEW D \in SUBSET Cells, NEW c \in Cells,
         DataSectorOf(h, c) \in Sectors,
         \A d \in D : BlockOf(d) = BlockOf(c)
  PROVE  /\ c \in D =>
              Filling(h, D, v)[DataSectorOf(h, c)].cells[PartOf(c)] = v
         /\ c \notin D =>
              Filling(h, D, v)[DataSectorOf(h, c)].cells[PartOf(c)] = CellAt(h, c)
<1> DEFINE s == DataSectorOf(h, c)
           p == PartOf(c)
           cells == [k \in Parts |->
                       IF \E d \in D : DataSectorOf(h, d) = s /\ PartOf(d) = k
                       THEN v ELSE sector[s].cells[k]]
<1>1. s \in Sectors /\ p \in Parts /\ h \in Nat
  BY PlaceOfCell, Defaults
<1>2. ASSUME NEW d \in D, DataSectorOf(h, d) = s, PartOf(d) = p PROVE d = c
  <2>1. OffsetOf(d) \in Nat /\ OffsetOf(c) \in Nat /\ BitmapSectors \in Nat
    BY CellIsItsPlace, SizesAreNat
  <2>2. OffsetOf(d) = OffsetOf(c)
    BY <1>1, <1>2, <2>1 DEF DataSectorOf
  <2> QED BY <1>2, <2>2, SamePlaceSameCell
<1>3. (\E d \in D : DataSectorOf(h, d) = s /\ PartOf(d) = p) <=> c \in D
  BY <1>2
<1>4. Filling(h, D, v)[s] = IF \E d \in D : DataSectorOf(h, d) = s
                            THEN DataSector(cells) ELSE sector[s]
  BY <1>1 DEF Filling
<1>5. cells[p] = IF c \in D THEN v ELSE sector[s].cells[p]
  BY <1>1, <1>3
<1>6. DataSector(cells).cells = cells
  BY DEF DataSector
<1>7. c \in D => \E d \in D : DataSectorOf(h, d) = s
  OBVIOUS
<1> HIDE DEF cells
<1>8. Filling(h, D, v)[s].cells[p] = IF c \in D THEN v ELSE sector[s].cells[p]
  BY <1>4, <1>5, <1>6, <1>7
<1> QED BY <1>8 DEF CellAt

(* What define_partial_sectors and the payload fill lies in the block. *)
LEMMA FillsItsBlock ==
  ASSUME TypeOK, NEW w \in Writers
  PROVE  /\ \A D \in SUBSET Uncovered(w) :
              D \in SUBSET Cells /\ \A d \in D : BlockOf(d) = Block(w)
         /\ \A D \in SUBSET Chunk(w) :
              D \in SUBSET Cells /\ \A d \in D : BlockOf(d) = Block(w)
BY ChunkPlace DEF Uncovered

(* Each cell of the disk is as it was, or the chunk's write made it so: to the
   open reader, and to one that reads the table from the file.             *)
LEMMA PayloadLands ==
  ASSUME TypeOK, LayoutInv, PayloadInv, CachedIsWritten,
         NEW w \in Writers, Written(w),
         \/ Define(w) \/ DefineFails(w) \/ WriteData(w) \/ DataFails(w)
         \/ WriteBitmap(w) \/ BitmapFails(w),
         NEW t, t = bat \/ t = table, NEW c \in Cells
  PROVE  \/ View(sector', t, c) = View(sector, t, c)
         \/ c \in Unsettled(w) /\ View(sector', t, c) = op[w].value
<1>1. Proceed(w)
  BY PayloadWrites DEF Proceed
<1> DEFINE b == Block(w)
           h == host[w]
           e == t[BlockOf(c)]
<1>2. pc[w] \in Landed
  BY PayloadWrites
<1>3. /\ h \in Nat /\ Extent(h) \subseteq Sectors /\ h # BAT_UNALLOCATED
      /\ bat[b] = h /\ table[b] = h /\ b \in Blocks
      /\ DataSectorOf(h, c) \in Sectors /\ h \in Sectors
      /\ DataSectorOf(h, c) # h
  BY <1>2, LandedPlace
<1>4. CASE BlockOf(c) # b
  <2>1. BlockOf(c) \in Blocks
    BY BlockOfCell
  <2>2. CASE e = BAT_UNALLOCATED
    BY <2>2 DEF View
  <2>3. CASE e # BAT_UNALLOCATED
    <3>1. e \in Entries(BlockOf(c)) /\ e \in Nat
      BY <2>1, <2>3, EntriesType DEF Entries
    <3>2. \A s \in Extent(e) : sector'[s] = sector[s]
      BY <1>1, <1>4, <2>1, <3>1, WriterTouches
    <3> QED BY <2>3, <3>1, <3>2, SameView
  <2> QED BY <2>2, <2>3
<1>5. CASE BlockOf(c) = b
  <2>1. e = h
    BY <1>3, <1>5
  <2>2. /\ View(sector, t, c) = IF OffsetOf(c) \in sector[h].bits
                                THEN CellAt(h, c) ELSE Zero
        /\ View(sector', t, c) = IF OffsetOf(c) \in sector'[h].bits
                                 THEN sector'[DataSectorOf(h, c)].cells[PartOf(c)]
                                 ELSE Zero
    BY <1>3, <2>1 DEF View, CellAt
  <2> HIDE DEF h, e, b
  <2>3. ASSUME NEW D \in SUBSET Uncovered(w), sector' = Filling(host[w], D, Zero)
        PROVE  View(sector', t, c) = View(sector, t, c)
    <3>1. D \in SUBSET Cells /\ \A d \in D : BlockOf(d) = b
      BY FillsItsBlock DEF b
    <3>2. h \in Sectors /\ DataSectorOf(h, c) \in Sectors
      BY <1>3
    <3>3. Filling(h, D, Zero)[h] = sector[h]
      BY <3>1, <3>2, FilledBitmap
    <3>4. /\ sector'[h] = sector[h]
          /\ c \in D => sector'[DataSectorOf(h, c)].cells[PartOf(c)] = Zero
          /\ c \notin D => sector'[DataSectorOf(h, c)].cells[PartOf(c)] = CellAt(h, c)
      BY <1>5, <2>3, <3>1, <3>2, <3>3, FilledCell DEF h
    <3>5. c \in D => OffsetOf(c) \notin sector[h].bits
      BY DEF Uncovered, h
    <3> QED BY <2>2, <3>4, <3>5
  <2>4. ASSUME NEW D \in SUBSET Chunk(w), pc[w] = "data",
               sector' = Filling(host[w], D, op[w].value)
        PROVE  \/ View(sector', t, c) = View(sector, t, c)
               \/ c \in Unsettled(w) /\ View(sector', t, c) = op[w].value
    <3>1. D \in SUBSET Cells /\ \A d \in D : BlockOf(d) = b
      BY FillsItsBlock DEF b
    <3>2. h \in Sectors /\ DataSectorOf(h, c) \in Sectors
      BY <1>3
    <3>3. Filling(h, D, op[w].value)[h] = sector[h]
      BY <3>1, <3>2, FilledBitmap
    <3>4. /\ sector'[h] = sector[h]
          /\ c \in D => sector'[DataSectorOf(h, c)].cells[PartOf(c)] = op[w].value
          /\ c \notin D => sector'[DataSectorOf(h, c)].cells[PartOf(c)] = CellAt(h, c)
      BY <1>5, <2>4, <3>1, <3>2, <3>3, FilledCell DEF h
    <3>5. c \in D => c \in Unsettled(w)
      BY <2>4 DEF Unsettled
    <3> QED BY <2>2, <3>4, <3>5
  <2>5. ASSUME NEW S \in SUBSET ChunkOffsets(w), pc[w] = "bitmap",
               sector' = Bitmapped(host[w], bits[w] \cup S)
        PROVE  \/ View(sector', t, c) = View(sector, t, c)
               \/ c \in Unsettled(w) /\ View(sector', t, c) = op[w].value
    <3>1. bits[w] = sector[h].bits
      BY <2>5 DEF PayloadInv, AtBlock, h
    <3>2. /\ sector'[h].bits = sector[h].bits \cup S
          /\ sector'[DataSectorOf(h, c)].cells[PartOf(c)] = CellAt(h, c)
      BY <1>3, <2>5, <3>1
      DEF Bitmapped, BitmapSector, TypeOK, FileType, CellAt, h
    <3>3. CASE OffsetOf(c) \in sector[h].bits
      BY <2>2, <3>2, <3>3
    <3>4. CASE OffsetOf(c) \notin sector[h].bits \cup S
      BY <2>2, <3>2, <3>4
    <3>5. CASE OffsetOf(c) \notin sector[h].bits /\ OffsetOf(c) \in S
      <4>1. View(sector', t, c) = CellAt(h, c) /\ View(sector, t, c) = Zero
        BY <2>2, <3>2, <3>5
      <4>2. CASE c \in Chunk(w)
        BY <2>5, <4>1, <4>2 DEF Written, Unsettled, h
      <4>3. CASE c \notin Chunk(w)
        <5>1. c \in Uncovered(w)
          BY <1>5, <3>5, <4>3, ChunkPlace DEF Uncovered, b, h
        <5> QED BY <2>5, <4>1, <5>1 DEF Written, h
      <4> QED BY <4>2, <4>3
    <3> QED BY <3>3, <3>4, <3>5
  <2>6. CASE Define(w)
    BY <2>3, <2>6 DEF Define, Put
  <2>7. CASE DefineFails(w)
    BY <2>3, <2>7 DEF DefineFails, Put
  <2>8. CASE WriteData(w)
    BY <2>4, <2>8 DEF WriteData, Put, At
  <2>9. CASE DataFails(w)
    <3>1. PICK n \in cursor[w] .. ChunkStop(w) :
            sector' = Filling(host[w], cursor[w] .. n - 1, op[w].value)
      BY <2>9 DEF DataFails, Put
    <3>2. cursor[w] .. n - 1 \subseteq Chunk(w)
      BY <3>1, ChunkType, SizesAreNat DEF TypeOK, Cells, Chunk
    <3>3. pc[w] = "data"
      BY <2>9 DEF DataFails, At
    <3> QED BY <2>4, <3>1, <3>2, <3>3
  <2>10. CASE WriteBitmap(w)
    BY <2>5, <2>10 DEF WriteBitmap, Put, At
  <2>11. CASE BitmapFails(w)
    <3>1. pc[w] = "bitmap"
      BY <2>11 DEF BitmapFails, At
    <3>2. PICK S \in SUBSET ChunkOffsets(w) : Put(Bitmapped(host[w], bits[w] \cup S))
      BY <2>11 DEF BitmapFails
    <3>3. sector' = Bitmapped(host[w], bits[w] \cup S)
      BY <3>2 DEF Put
    <3> QED BY <2>5, <3>1, <3>3
  <2> QED BY <2>6, <2>7, <2>8, <2>9, <2>10, <2>11
<1> QED BY <1>4, <1>5

-----------------------------------------------------------------------------
(* What a cell may read as, and be held to be *)

(* The steps at which a read may meet the chunk's new bytes. *)
Flying == {"readBitmap", "bitmap", "flush"}

(* Only the holder has a chunk in flight. *)
LEMMA HolderPermits ==
  ASSUME TypeOK, LockInv, NEW w \in Writers, pc[w] \in Holding, NEW c \in Cells
  PROVE  /\ Permitted(c) \subseteq
              content[c] \cup {v \in {op[w].value} : pc[w] \in Flying /\ c \in Chunk(w)}
         /\ Held(c) = content[c] \cup {v \in {op[w].value} : c \in Unsettled(w)}
         /\ Permitted(c) \subseteq Held(c)
<1>1. \A u \in Writers : c \in Unsettled(u) => u = w
  BY DEF Unsettled, LockInv, Holding, Steps
<1>2. pc[w] \in Flying /\ c \in Chunk(w) <=> pc[w] \in Flying /\ c \in Unsettled(w)
  BY DEF Unsettled, Flying
<1>3. Held(c) = content[c] \cup {v \in {op[w].value} : c \in Unsettled(w)}
  BY <1>1 DEF Held
<1>4. Permitted(c) \subseteq
        content[c] \cup {v \in {op[w].value} : pc[w] \in Flying /\ c \in Chunk(w)}
  BY <1>1, <1>2 DEF Permitted, InFlight, Flying
<1>5. Permitted(c) \subseteq Held(c)
  BY DEF Permitted, InFlight, Held
<1> QED BY <1>3, <1>4, <1>5

(* A call that fails may have written any byte of its chunk. *)
LEMMA FailPermits ==
  ASSUME TypeOK, LockInv, NEW w \in Writers, pc[w] \in Holding, Fail(w),
         NEW c \in Cells
  PROVE  /\ Permitted(c) \subseteq Permitted(c)'
         /\ Held(c) \subseteq Held(c)'
         /\ Permitted(c)' \subseteq content'[c] /\ Held(c)' \subseteq content'[c]
         /\ c \in Unsettled(w) =>
              op[w].value \in Permitted(c)' /\ op[w].value \in Held(c)'
<1>1. \A u \in Writers : pc'[u] \in {"idle", "lock"}
  BY OthersWait DEF Fail, Goto, TypeOK, WriterType
<1>2. content'[c] = IF c \in Unsettled(w) THEN content[c] \cup {op[w].value}
                    ELSE content[c]
  BY DEF Fail
<1>3. \A u \in Writers : Unsettled(u)' = {}
  BY <1>1 DEF Unsettled
<1>4. /\ content'[c] \subseteq Permitted(c)' /\ content'[c] \subseteq Held(c)'
      /\ Permitted(c)' \subseteq content'[c] /\ Held(c)' \subseteq content'[c]
  BY <1>3 DEF Permitted, Held, InFlight
<1>5. Permitted(c) \subseteq content'[c] /\ Held(c) \subseteq content'[c]
  BY <1>2, HolderPermits
<1> QED BY <1>2, <1>4, <1>5

(* A call that goes on at the same chunk keeps what its bytes may be. *)
LEMMA ContinuePermits ==
  ASSUME TypeOK, LockInv, NEW w \in Writers, pc[w] \in Holding, NEW step,
         Continue(w, step), UNCHANGED <<op, cursor>>,
         pc[w] \in Flying => step \in Flying,
         pc[w] \in {"data"} \cup Flying => step \in {"data"} \cup Flying,
         NEW c \in Cells
  PROVE  /\ Permitted(c) \subseteq Permitted(c)'
         /\ Held(c) \subseteq Held(c)'
         /\ step \in Flying /\ c \in Chunk(w) => op[w].value \in Permitted(c)'
         /\ step \in {"data"} \cup Flying /\ c \in Chunk(w) =>
              op[w].value \in Held(c)'
<1>1. pc'[w] = step /\ content' = content
  BY DEF Continue, Goto, TypeOK, WriterType
<1>2. Chunk(w)' = Chunk(w) /\ op'[w].value = op[w].value
  BY DEF Chunk, ChunkStop
<1>3. step \in Flying /\ c \in Chunk(w) =>
        c \in Unsettled(w)' /\ op[w].value \in Permitted(c)'
  BY <1>1, <1>2 DEF Permitted, InFlight, Unsettled, Flying
<1>4. step \in {"data"} \cup Flying /\ c \in Chunk(w) => op[w].value \in Held(c)'
  BY <1>1, <1>2 DEF Held, Unsettled, Flying
<1>5. content[c] \subseteq Permitted(c)' /\ content[c] \subseteq Held(c)'
  BY <1>1 DEF Permitted, Held
<1>6. c \in Unsettled(w) => pc[w] \in {"data"} \cup Flying /\ c \in Chunk(w)
  BY DEF Unsettled, Flying
<1>7. Permitted(c) \subseteq Permitted(c)'
  BY <1>3, <1>5, HolderPermits
<1>8. Held(c) \subseteq Held(c)'
  BY <1>4, <1>5, <1>6, HolderPermits
<1> QED BY <1>3, <1>4, <1>7, <1>8

(* A call that begins, or takes the lock, has no bytes of its own yet. *)
LEMMA BeginPermits ==
  ASSUME TypeOK, LockInv, NEW w \in Writers, Call(w) \/ TakeLock(w), NEW c \in Cells
  PROVE  Permitted(c)' = Permitted(c) /\ Held(c)' = Held(c)
<1>1. /\ content' = content
      /\ pc[w] \in {"idle", "lock"} /\ pc'[w] \in {"lock", "allocate", "define"}
      /\ \A u \in Writers : u # w =>
           /\ pc'[u] = pc[u] /\ op'[u] = op[u] /\ cursor'[u] = cursor[u]
  BY DEF Call, TakeLock, LookUp, At, Continue, Goto, TypeOK, WriterType
<1>2. Unsettled(w) = {} /\ Unsettled(w)' = {}
  BY <1>1 DEF Unsettled
<1>3. \A u \in Writers : u # w => Unsettled(u)' = Unsettled(u)
  BY <1>1 DEF Unsettled, Chunk, ChunkStop
<1>4. \A u \in Writers : c \in Unsettled(u)' <=> c \in Unsettled(u)
  BY <1>2, <1>3
<1>5. \A u \in Writers : c \in Unsettled(u) => op'[u] = op[u] /\ pc'[u] = pc[u]
  BY <1>1, <1>2
<1>6. Held(c)' = Held(c)
  BY <1>1, <1>4, <1>5 DEF Held
<1>7. InFlight(c)' = InFlight(c)
  BY <1>4, <1>5 DEF InFlight
<1> QED BY <1>1, <1>6, <1>7 DEF Permitted

-----------------------------------------------------------------------------
(* Every cell reads as a value it may have, as long as the power holds *)

LEMMA ReadsNow ==
  ReadBack <=> \A c \in Cells :
    /\ View(sector, table, c) \in Permitted(c)
    /\ mode = "open" => View(sector, bat, c) \in Permitted(c)
BY Seen DEF ReadBack

LEMMA ReadsNext ==
  ReadBack' <=> \A c \in Cells :
    /\ View(sector', table', c) \in Permitted(c)'
    /\ mode' = "open" => View(sector', bat', c) \in Permitted(c)'
<1>1. \A c \in Cells : /\ Visible(table, c)' = View(sector', table', c)
                       /\ Visible(bat, c)' = View(sector', bat', c)
  BY DEF Visible, View
<1> QED BY <1>1 DEF ReadBack

(* A step that is no write to the writer's own block shows no cell otherwise. *)
LEMMA ViewKept ==
  ASSUME TypeOK, LayoutInv, PayloadInv, NEW w \in Writers, Call(w) \/ Proceed(w),
         pc[w] \notin Landed \/ sector' = sector,
         NEW t, t = bat \/ t = table, NEW c \in Cells
  PROVE  View(sector', t, c) = View(sector, t, c)
<1> DEFINE e == t[BlockOf(c)]
<1>1. BlockOf(c) \in Blocks
  BY BlockOfCell
<1>2. e # BAT_UNALLOCATED => e \in Entries(BlockOf(c)) /\ e \in Nat
  BY <1>1, EntriesType DEF Entries
<1>3. e # BAT_UNALLOCATED => \A s \in Extent(e) : sector'[s] = sector[s]
  BY <1>1, <1>2, WriterTouches
<1> HIDE DEF e
<1>4. e # BAT_UNALLOCATED =>
        e \in Nat /\ \A s \in Extent(e) : sector'[s] = sector[s]
  BY <1>2, <1>3
<1> QED BY <1>4, SameView DEF e

(* Zeroing goes to the tail, never over the metadata. *)
LEMMA ZeroPuts ==
  ASSUME TypeOK, LayoutInv, NEW w \in Writers, pc[w] = "zero", mode = "open",
         NEW n \in 0 .. BlockTotal, ZeroOver(host[w], n)
  PROVE  Put(Zeroed(host[w], n))
<1>1. host[w] \in Nat /\ DataStart <= host[w]
  BY BuildFacts DEF Building
<1> QED BY <1>1, SizesAreNat DEF ZeroOver

(* The steps that show nothing new: those of the allocation before the BAT,
   and those that only return, read or flush.                              *)
LEMMA QuietStep ==
  ASSUME TypeOK, LayoutInv, PayloadInv, NEW w \in Writers,
         \/ Call(w) \/ TakeLock(w) \/ Allocate(w) \/ RefuseEntry(w) \/ GrowFails(w)
         \/ WriteFooter(w) \/ FooterFails(w) \/ FlushFooter(w)
         \/ ZeroBlock(w) \/ ZeroFails(w) \/ FlushZero(w)
         \/ ReadBitmap(w) \/ CallFails(w)
  PROVE  /\ Call(w) \/ Proceed(w)
         /\ pc[w] \notin Landed \/ sector' = sector
         /\ UNCHANGED <<bat, table, mode>>
         /\ \A c \in Cells : /\ Permitted(c) \subseteq Permitted(c)'
                             /\ Held(c) \subseteq Held(c)'
<1>1. Call(w) \/ Proceed(w)
  BY DEF Proceed
<1>2. pc[w] \notin Landed \/ sector' = sector
  BY OtherSteps DEF WriteFooter, FooterFails, ZeroBlock, ZeroFails, At, Landed
<1>3. ASSUME ZeroBlock(w) \/ ZeroFails(w) PROVE UNCHANGED <<bat, table, mode>>
  <2>1. PICK n \in 0 .. BlockTotal : ZeroOver(host[w], n)
    BY <1>3, SizesAreNat DEF ZeroBlock, ZeroFails
  <2>2. pc[w] = "zero" /\ mode = "open" /\ UNCHANGED reader
    BY <1>3 DEF ZeroBlock, ZeroFails, At
  <2>3. Put(Zeroed(host[w], n))
    BY <2>1, <2>2, ZeroPuts
  <2> QED BY <2>2, <2>3 DEF Put, reader
<1>4. UNCHANGED <<bat, table, mode>>
  BY <1>3 DEF Call, TakeLock, LookUp, Allocate, RefuseEntry, GrowFails, WriteFooter,
     FooterFails, FlushFooter, FlushZero, ReadBitmap, CallFails, Put, Sync, Grow,
     file, reader
<1>5. ASSUME NEW c \in Cells
      PROVE  Permitted(c) \subseteq Permitted(c)' /\ Held(c) \subseteq Held(c)'
  <2>1. LockInv
    BY DEF LayoutInv
  <2>2. CASE Call(w) \/ TakeLock(w)
    BY <2>1, <2>2, BeginPermits
  <2>3. CASE pc[w] \in Holding /\ Fail(w)
    BY <2>1, <2>3, FailPermits
  <2>4. CASE FooterFails(w) /\ ~ Fail(w)
    <3>1. /\ pc[w] = "footer" /\ Goto(w, "retryFooter")
          /\ UNCHANGED <<lock, content, op, cursor>>
      BY <2>4 DEF FooterFails, writer
    <3>2. \A u \in Writers : Unsettled(u)' = Unsettled(u)
      BY <3>1 DEF Unsettled, Goto, Chunk, ChunkStop, TypeOK, WriterType
    <3>3. pc[w] \in Holding
      BY <3>1 DEF Holding, Steps
    <3>4. Held(c)' = Held(c)
      BY <3>1, <3>2 DEF Held
    <3>5. Permitted(c) \subseteq content[c] /\ content[c] \subseteq Permitted(c)'
      BY <2>1, <3>1, <3>3, HolderPermits DEF Permitted, Flying
    <3> QED BY <3>4, <3>5
  <2>5. CASE \/ Allocate(w) \/ WriteFooter(w) \/ FlushFooter(w) \/ ZeroBlock(w)
             \/ FlushZero(w) \/ ReadBitmap(w)
    <3>1. PICK step \in {"footer", "footerFlush", "zero", "zeroFlush", "table",
                         "bitmap"} :
            /\ Continue(w, step) /\ UNCHANGED <<op, cursor>>
            /\ pc[w] \in Holding
            /\ step = "bitmap" \/ pc[w] \notin {"data"} \cup Flying
      BY <2>5 DEF Allocate, WriteFooter, FlushFooter, ZeroBlock, FlushZero, ReadBitmap,
         At, writer, Holding, Steps, Flying
    <3> QED BY <2>1, <3>1, ContinuePermits DEF Flying
  <2> QED BY <2>2, <2>3, <2>4, <2>5
      DEF RefuseEntry, GrowFails, ZeroFails, CallFails, FooterFails, At, Holding, Steps
<1> QED BY <1>1, <1>2, <1>4, <1>5

LEMMA QuietReads ==
  ASSUME TypeOK, LayoutInv, PayloadInv, ReadBack, NEW w \in Writers,
         Call(w) \/ Proceed(w), pc[w] \notin Landed \/ sector' = sector,
         UNCHANGED <<bat, table, mode>>,
         \A c \in Cells : Permitted(c) \subseteq Permitted(c)'
  PROVE  ReadBack'
<1>1. ASSUME NEW c \in Cells
      PROVE  /\ View(sector', table', c) \in Permitted(c)'
             /\ mode' = "open" => View(sector', bat', c) \in Permitted(c)'
  <2>1. /\ View(sector', bat, c) = View(sector, bat, c)
        /\ View(sector', table, c) = View(sector, table, c)
    BY ViewKept
  <2> QED BY <2>1, ReadsNow
<1> QED BY <1>1, ReadsNext

LEMMA WrittenNothing ==
  ASSUME TypeOK, NEW w \in Writers,
         pc'[w] \notin {"zeroFlush", "data"} \cup Publishing \cup Flying
  PROVE  Written(w)'
BY DEF Written, Flying, Publishing

(* The other writers have written nothing. *)
LEMMA HolderWritten ==
  ASSUME TypeOK, LockInv, NEW w \in Writers, NEW step, pc[w] \in Holding,
         Goto(w, step), Written(w)'
  PROVE  \A u \in Writers : Written(u)'
<1>1. \A u \in Writers : u # w => pc'[u] \in {"idle", "lock"}
  BY OthersWait
<1> QED BY <1>1, WrittenNothing DEF Publishing, Flying

(* The sectors under a new block are in the file. *)
LEMMA NewExtent ==
  ASSUME TypeOK, LayoutInv, NEW w \in Writers, mode = "open",
         pc[w] \in Building \cup Publishing
  PROVE  /\ Extent(host[w]) \subseteq Sectors
         /\ \A c \in Cells : /\ DataSectorOf(host[w], c) \in Extent(host[w])
                             /\ host[w] \in Extent(host[w])
<1>1. host[w] \in Nat /\ FooterAt(host[w]) < size /\ size \in 1 .. Capacity
  BY BuildFacts DEF TypeOK, FileType
<1>2. Extent(host[w]) \subseteq Sectors
  BY <1>1, SizesAreNat, SparseAssumption DEF Extent, FooterAt, Sectors
<1> QED BY <1>1, <1>2, CellInExtent

(* The allocation's steps leave the new block zero, and the entry in place. *)
LEMMA NewBlockWritten ==
  ASSUME TypeOK, LayoutInv, ValueInv, NEW w \in Writers,
         ZeroBlock(w) \/ FlushZero(w) \/ WriteTable(w)
  PROVE  Written(w)'
<1>1. /\ mode = "open" /\ pc[w] \in Building \cup Publishing
      /\ host' = host /\ cursor' = cursor
  BY DEF ZeroBlock, FlushZero, WriteTable, At, Building, Publishing, writer
<1>2. Extent(host[w]) \subseteq Sectors
  BY <1>1, NewExtent
<1>3. Written(w)
  BY DEF ValueInv
<1>4. CASE ZeroBlock(w)
  <2>1. /\ pc[w] = "zero" /\ pc'[w] = "zeroFlush" /\ ZeroOver(host[w], BlockTotal)
    BY <1>4 DEF ZeroBlock, At, Continue, Goto, TypeOK, WriterType
  <2>2. sector' = Zeroed(host[w], BlockTotal)
    BY <1>1, <2>1, ZeroPuts, SizesAreNat DEF Put
  <2>3. \A s \in Extent(host[w]) \cap Sectors : sector'[s] = ZeroSector
    BY <2>2 DEF Zeroed, Extent
  <2> QED BY <1>1, <2>1, <2>3 DEF Written, Publishing
<1>5. CASE FlushZero(w)
  <2>1. pc[w] = "zeroFlush" /\ pc'[w] = "table" /\ Sync
    BY <1>5 DEF FlushZero, At, Continue, Goto, TypeOK, WriterType
  <2>2. \A s \in Extent(host[w]) \cap Sectors : sectorMedia'[s] = {ZeroSector}
    BY <1>3, <2>1 DEF Sync, Written
  <2> QED BY <1>1, <2>1, <2>2 DEF Written
<1>6. CASE WriteTable(w)
  <2>1. /\ pc[w] = "table" /\ pc'[w] = "tableFlush" /\ sectorMedia' = sectorMedia
        /\ table' = [table EXCEPT ![Block(w)] = host[w]]
    BY <1>6 DEF WriteTable, At, Continue, Goto, TypeOK, WriterType, PutEntry
  <2>2. Block(w)' = Block(w) /\ Block(w) \in Blocks
    BY <1>1, ChunkType DEF Block, TypeOK
  <2>3. table'[Block(w)] = host[w]
    BY <2>1, <2>2 DEF TypeOK, FileType
  <2>4. \A s \in Extent(host[w]) \cap Sectors : sectorMedia'[s] = {ZeroSector}
    BY <1>3, <2>1 DEF Written, Publishing
  <2> QED BY <1>1, <2>1, <2>2, <2>3, <2>4 DEF Written
<1> QED BY <1>4, <1>5, <1>6

(* Of the write's own block, only what the step is to change does. *)
LEMMA PayloadWritten ==
  ASSUME TypeOK, LayoutInv, PayloadInv, ValueInv, NEW w \in Writers,
         Define(w) \/ WriteData(w) \/ ReadBitmap(w) \/ WriteBitmap(w)
  PROVE  Written(w)'
<1> DEFINE h == host[w]
<1>1. /\ pc[w] \in Landed
      /\ UNCHANGED <<host, op, cursor>>
  BY DEF Define, WriteData, ReadBitmap, WriteBitmap, At, Landed, writer
<1>2. /\ h \in Sectors /\ Block(w) \in Blocks
      /\ \A c \in Cells : DataSectorOf(h, c) \in Sectors /\ DataSectorOf(h, c) # h
  BY <1>1, LandedPlace DEF ValueInv
<1>3. /\ Chunk(w)' = Chunk(w) /\ Block(w)' = Block(w)
      /\ ChunkStop(w)' = ChunkStop(w)
  BY <1>1 DEF Chunk, ChunkStop, Block
<1>4. /\ Uncovered(w) \in SUBSET Cells /\ Chunk(w) \in SUBSET Cells
      /\ \A c \in Uncovered(w) \cup Chunk(w) : BlockOf(c) = Block(w)
      /\ Uncovered(w) \cap Chunk(w) = {}
  BY FillsItsBlock DEF Uncovered
<1>5. Written(w)
  BY DEF ValueInv
<1>6. sector'[h].bits = sector[h].bits => Uncovered(w)' = Uncovered(w)
  BY <1>1, <1>3 DEF Uncovered
<1>7. \A c \in Cells : CellAt(h, c)' = sector'[DataSectorOf(h, c)].cells[PartOf(c)]
  BY <1>1 DEF CellAt
<1> HIDE DEF h
<1>8. CASE Define(w)
  <2>1. /\ pc'[w] = "data"
        /\ sector' = Filling(h, Uncovered(w), Zero)
    BY <1>8 DEF Define, Continue, Goto, TypeOK, WriterType, Put, h
  <2>2. sector'[h] = sector[h]
    BY <1>2, <1>4, <2>1, FilledBitmap
  <2>3. ASSUME NEW c \in Uncovered(w) PROVE CellAt(h, c)' = Zero
    <3>1. /\ c \in Cells /\ DataSectorOf(h, c) \in Sectors
          /\ \A d \in Uncovered(w) : BlockOf(d) = BlockOf(c)
      BY <1>2, <1>4
    <3>2. Filling(h, Uncovered(w), Zero)[DataSectorOf(h, c)].cells[PartOf(c)] = Zero
      BY <1>2, <1>4, <3>1, FilledCell
    <3> QED BY <1>7, <2>1, <3>1, <3>2
  <2> QED BY <1>1, <1>6, <2>1, <2>2, <2>3 DEF Written, Publishing, h
<1>9. CASE WriteData(w)
  <2>1. /\ pc[w] = "data" /\ pc'[w] = "readBitmap"
        /\ sector' = Filling(h, Chunk(w), op[w].value)
    BY <1>9 DEF WriteData, At, Continue, Goto, TypeOK, WriterType, Put, h
  <2>2. sector'[h] = sector[h]
    BY <1>2, <1>4, <2>1, FilledBitmap
  <2>3. ASSUME NEW c \in Uncovered(w) \cup Chunk(w)
        PROVE  /\ c \in Chunk(w) => CellAt(h, c)' = op[w].value
               /\ c \notin Chunk(w) => CellAt(h, c)' = CellAt(h, c)
    <3>1. /\ c \in Cells /\ DataSectorOf(h, c) \in Sectors
          /\ \A d \in Chunk(w) : BlockOf(d) = BlockOf(c)
      BY <1>2, <1>4
    <3>2. /\ c \in Chunk(w) => sector'[DataSectorOf(h, c)].cells[PartOf(c)] = op[w].value
          /\ c \notin Chunk(w) =>
               sector'[DataSectorOf(h, c)].cells[PartOf(c)] = CellAt(h, c)
      BY <1>2, <1>4, <2>1, <3>1, FilledCell
    <3> QED BY <1>7, <3>1, <3>2
  <2>4. \A c \in Uncovered(w) : CellAt(h, c) = Zero
    BY <1>5, <2>1 DEF Written, h
  <2>5. \A c \in Uncovered(w) : CellAt(h, c)' = Zero
    BY <1>4, <2>3, <2>4
  <2> QED BY <1>1, <1>3, <1>6, <2>1, <2>2, <2>3, <2>5 DEF Written, Publishing, h
<1>10. CASE ReadBitmap(w)
  <2>1. /\ pc[w] = "readBitmap" /\ pc'[w] = "bitmap" /\ sector' = sector
    BY <1>10 DEF ReadBitmap, At, Continue, Goto, TypeOK, WriterType, file
  <2>2. \A c \in Uncovered(w) : CellAt(h, c) = Zero
    BY <1>5, <2>1 DEF Written, h
  <2>3. \A c \in Chunk(w) : CellAt(h, c) = op[w].value
    BY <1>5, <2>1 DEF Written, h
  <2>4. \A c : CellAt(h, c)' = CellAt(h, c)
    BY <1>1, <2>1 DEF CellAt, h
  <2> QED BY <1>1, <1>3, <1>6, <2>1, <2>2, <2>3, <2>4 DEF Written, Publishing, h
<1>11. CASE WriteBitmap(w)
  <2>1. /\ pc[w] = "bitmap" /\ pc'[w] = "flush"
        /\ sector' = Bitmapped(h, bits[w] \cup ChunkOffsets(w))
    BY <1>11 DEF WriteBitmap, At, Continue, Goto, TypeOK, WriterType, Put, h
  <2>2. /\ sector'[h].bits = bits[w] \cup ChunkOffsets(w)
        /\ \A c \in Cells : sector'[DataSectorOf(h, c)] = sector[DataSectorOf(h, c)]
    BY <1>2, <2>1 DEF Bitmapped, BitmapSector, TypeOK, FileType
  <2>3. \A c \in Chunk(w) : CellAt(h, c) = op[w].value
    BY <1>5, <2>1 DEF Written, h
  <2>4. \A c \in Chunk(w) : CellAt(h, c)' = op[w].value
    BY <1>4, <1>7, <2>2, <2>3 DEF CellAt
  <2>5. \A c \in Chunk(w) : OffsetOf(c) \in sector'[h].bits
    BY <2>2, ChunkPlace
  <2> QED BY <1>1, <1>3, <2>1, <2>4, <2>5 DEF Written, Publishing, h
<1> QED BY <1>8, <1>9, <1>10, <1>11

(* The entry written for a new block shows zeros, as its absence did. *)
LEMMA NewEntryReads ==
  ASSUME TypeOK, LayoutInv, ValueInv, NEW w \in Writers, mode = "open",
         pc[w] \in Publishing, NEW c \in Cells, BlockOf(c) = Block(w),
         NEW t, t[Block(w)] = host[w]
  PROVE  /\ View(sector, t, c) = Zero
         /\ Zero \in Permitted(c)
<1>1. bat[Block(w)] = BAT_UNALLOCATED
  BY BuildFacts
<1>2. View(sector, bat, c) = Zero
  BY <1>1 DEF View
<1>3. Zero \in Permitted(c)
  BY <1>2, ReadsNow DEF ValueInv
<1>4. host[w] \in Extent(host[w]) /\ Extent(host[w]) \subseteq Sectors
  BY NewExtent
<1>5. sector[host[w]] \in sectorMedia[host[w]] /\ sectorMedia[host[w]] = {ZeroSector}
  BY <1>4 DEF LayoutInv, MediaInv, ValueInv, Written
<1>6. View(sector, t, c) = Zero
  BY <1>5 DEF View, ZeroSector
<1> QED BY <1>3, <1>6

LEMMA EntryStepValues ==
  ASSUME TypeOK, LayoutInv, PayloadInv, ValueInv, NEW w \in Writers,
         WriteTable(w) \/ TableFails(w)
  PROVE  /\ sector' = sector
         /\ CachedIsWritten'
         /\ \A c \in Cells : /\ Permitted(c) \subseteq Permitted(c)'
                             /\ Held(c) \subseteq Held(c)'
         /\ ReadBack'
<1>1. /\ mode = "open" /\ pc[w] = "table" /\ sector' = sector
      /\ UNCHANGED <<bat, mode>>
      /\ \E entry \in {table[Block(w)], host[w]} :
           table' = [table EXCEPT ![Block(w)] = entry]
  BY DEF WriteTable, TableFails, At, PutEntry, reader
<1>2. pc[w] \in Publishing /\ pc[w] \in Holding /\ LockInv
  BY <1>1 DEF Publishing, Holding, Steps, LayoutInv
<1>3. Block(w) \in Blocks /\ bat[Block(w)] = BAT_UNALLOCATED
  BY <1>1, <1>2, BuildFacts
<1>4. CachedIsWritten'
  BY <1>1, <1>3 DEF ValueInv, CachedIsWritten, TypeOK, FileType
<1>5. ASSUME NEW c \in Cells
      PROVE  Permitted(c) \subseteq Permitted(c)' /\ Held(c) \subseteq Held(c)'
  <2>1. WriteTable(w) => Continue(w, "tableFlush") /\ UNCHANGED <<op, cursor>>
    BY DEF WriteTable, writer
  <2>2. TableFails(w) => Fail(w)
    BY DEF TableFails
  <2>3. pc[w] \notin {"data"} \cup Flying
    BY <1>1 DEF Flying
  <2> QED BY <1>2, <2>1, <2>2, <2>3, FailPermits, ContinuePermits
<1>6. ASSUME NEW c \in Cells
      PROVE  /\ View(sector', table', c) \in Permitted(c)'
             /\ mode' = "open" => View(sector', bat', c) \in Permitted(c)'
  <2>1. /\ View(sector, table, c) \in Permitted(c)
        /\ View(sector, bat, c) \in Permitted(c)
    BY <1>1, ReadsNow DEF ValueInv
  <2>2. BlockOf(c) \in Blocks
    BY BlockOfCell
  <2>3. CASE table'[BlockOf(c)] = table[BlockOf(c)]
    <3>1. View(sector, table', c) = View(sector, table, c)
      BY <2>3 DEF View
    <3> QED BY <1>1, <1>5, <2>1, <3>1
  <2>4. CASE table'[BlockOf(c)] # table[BlockOf(c)]
    <3>1. BlockOf(c) = Block(w) /\ table'[Block(w)] = host[w]
      BY <1>1, <1>3, <2>2, <2>4 DEF TypeOK, FileType
    <3>2. View(sector, table', c) = Zero /\ Zero \in Permitted(c)
      BY <1>1, <1>2, <3>1, NewEntryReads
    <3> QED BY <1>1, <1>5, <2>1, <3>2
  <2> QED BY <2>3, <2>4
<1> QED BY <1>1, <1>4, <1>5, <1>6, ReadsNext

(* The cache takes the entry the table has. *)
LEMMA FlushTableValues ==
  ASSUME TypeOK, LayoutInv, PayloadInv, ValueInv, NEW w \in Writers, FlushTable(w)
  PROVE  /\ UNCHANGED <<sector, table>>
         /\ CachedIsWritten'
         /\ \A c \in Cells : /\ Permitted(c) \subseteq Permitted(c)'
                             /\ Held(c) \subseteq Held(c)'
                             /\ View(sector', bat', c) = View(sector, bat, c)
         /\ ReadBack'
<1>1. /\ mode = "open" /\ pc[w] = "tableFlush" /\ UNCHANGED <<sector, table, mode>>
      /\ bat' = [bat EXCEPT ![Block(w)] = host[w]]
      /\ Continue(w, "define") /\ UNCHANGED <<op, cursor>>
  BY DEF FlushTable, At, Sync, file, writer
<1>2. pc[w] \in Publishing /\ pc[w] \in Holding /\ LockInv
  BY <1>1 DEF Publishing, Holding, Steps, LayoutInv
<1>3. table[Block(w)] = host[w]
  BY <1>1 DEF ValueInv, Written
<1>4. Block(w) \in Blocks /\ bat[Block(w)] = BAT_UNALLOCATED
  BY <1>1, <1>2, BuildFacts
<1>5. CachedIsWritten'
  BY <1>1, <1>3, <1>4 DEF ValueInv, CachedIsWritten, TypeOK, ReaderType
<1>6. \A c \in Cells : Permitted(c) \subseteq Permitted(c)' /\ Held(c) \subseteq Held(c)'
  BY <1>1, <1>2, ContinuePermits DEF Flying
<1>7. ASSUME NEW c \in Cells
      PROVE  View(sector', bat', c) = View(sector, bat, c)
  <2>1. BlockOf(c) \in Blocks
    BY BlockOfCell
  <2>2. CASE BlockOf(c) = Block(w)
    <3>1. bat'[Block(w)] = host[w]
      BY <1>1, <1>4 DEF TypeOK, ReaderType
    <3>2. View(sector, bat', c) = Zero
      BY <1>1, <1>2, <2>2, <3>1, NewEntryReads
    <3>3. View(sector, bat, c) = Zero
      BY <1>4, <2>2 DEF View
    <3> QED BY <1>1, <3>2, <3>3
  <2>3. CASE BlockOf(c) # Block(w)
    BY <1>1, <2>1, <2>3 DEF View, TypeOK, ReaderType
  <2> QED BY <2>2, <2>3
<1>8. ReadBack'
  BY <1>1, <1>6, <1>7, ReadsNow, ReadsNext DEF ValueInv
<1> QED BY <1>1, <1>5, <1>6, <1>7, <1>8

(* The chunk's bytes arrive: each is what the cell was or what is written. *)
LEMMA PayloadValues ==
  ASSUME TypeOK, LayoutInv, PayloadInv, ValueInv, NEW w \in Writers,
         \/ Define(w) \/ DefineFails(w) \/ WriteData(w) \/ DataFails(w)
         \/ WriteBitmap(w) \/ BitmapFails(w)
  PROVE  /\ UNCHANGED <<bat, table, mode>>
         /\ \A c \in Cells :
              /\ Permitted(c) \subseteq Permitted(c)' /\ Held(c) \subseteq Held(c)'
              /\ c \in Unsettled(w) => op[w].value \in Held(c)'
         /\ ReadBack'
<1>1. UNCHANGED <<bat, table, mode>>
  BY DEF Define, DefineFails, WriteData, DataFails, WriteBitmap, BitmapFails, Put,
     reader
<1>2. CachedIsWritten /\ Written(w) /\ ReadBack /\ LockInv
  BY DEF ValueInv, LayoutInv
<1>3. pc[w] \in Landed /\ pc[w] \in Holding /\ mode = "open"
  BY <1>2, PayloadWrites, LandedPlace
<1>4. ASSUME NEW c \in Cells
      PROVE  /\ Permitted(c) \subseteq Permitted(c)' /\ Held(c) \subseteq Held(c)'
             /\ c \in Unsettled(w) =>
                  op[w].value \in Permitted(c)' /\ op[w].value \in Held(c)'
  <2>1. CASE Fail(w)
    BY <1>2, <1>3, <2>1, FailPermits
  <2>2. CASE Define(w) \/ WriteData(w) \/ WriteBitmap(w)
    <3>1. PICK step \in {"data"} \cup Flying :
            /\ Continue(w, step) /\ UNCHANGED <<op, cursor>>
            /\ step \in Flying \/ (pc[w] \notin Flying /\ Unsettled(w) = {})
      BY <2>2 DEF Define, WriteData, WriteBitmap, At, writer, Flying, Unsettled
    <3>2. c \in Unsettled(w) => c \in Chunk(w)
      BY DEF Unsettled
    <3> QED BY <1>2, <1>3, <3>1, <3>2, ContinuePermits
  <2> QED BY <2>1, <2>2 DEF DefineFails, DataFails, BitmapFails
<1>5. ASSUME NEW c \in Cells
      PROVE  /\ View(sector', table', c) \in Permitted(c)'
             /\ mode' = "open" => View(sector', bat', c) \in Permitted(c)'
  <2>1. /\ View(sector, table, c) \in Permitted(c)
        /\ View(sector, bat, c) \in Permitted(c)
    BY <1>2, <1>3, ReadsNow
  <2>2. /\ \/ View(sector', table, c) = View(sector, table, c)
           \/ c \in Unsettled(w) /\ View(sector', table, c) = op[w].value
        /\ \/ View(sector', bat, c) = View(sector, bat, c)
           \/ c \in Unsettled(w) /\ View(sector', bat, c) = op[w].value
    BY <1>2, PayloadLands
  <2> QED BY <1>1, <1>4, <2>1, <2>2
<1> QED BY <1>1, <1>4, <1>5, ReadsNext

(* An acknowledged chunk reads as what was written. *)
LEMMA ChunkSettles ==
  ASSUME TypeOK, LayoutInv, PayloadInv, ValueInv, NEW w \in Writers, FlushChunk(w),
         NEW c \in Cells
  PROVE  /\ UNCHANGED <<sector, bat, table, mode>>
         /\ table[BlockOf(c)] = bat[BlockOf(c)] \/ c \notin Chunk(w)
         /\ content'[c] = IF c \in Chunk(w) THEN {op[w].value} ELSE content[c]
         /\ Permitted(c)' = content'[c] /\ Held(c)' = content'[c]
         /\ c \notin Chunk(w) => Permitted(c) \subseteq content[c] /\ Held(c) = content[c]
         /\ c \in Chunk(w) => /\ BlockOf(c) = Block(w)
                              /\ OffsetOf(c) \in sector[host[w]].bits
                              /\ CellAt(host[w], c) = op[w].value
                              /\ View(sector, bat, c) = op[w].value
                              /\ View(sector, table, c) = op[w].value
<1>1. /\ pc[w] = "flush" /\ pc[w] \in Landed /\ pc[w] \in Holding /\ LockInv
      /\ mode = "open"
      /\ UNCHANGED <<sector, bat, table, mode>>
  BY DEF FlushChunk, At, Sync, file, reader, Landed, Holding, Steps, LayoutInv
<1>2. content'[c] = IF c \in Chunk(w) THEN {op[w].value} ELSE content[c]
  BY DEF FlushChunk, EndChunk
<1>3. PICK step \in {"idle", "lock"} : Goto(w, step)
  BY DEF FlushChunk, EndChunk
<1>4. \A u \in Writers : pc'[u] \in {"idle", "lock"}
  BY <1>1, <1>3, OthersWait DEF Goto, TypeOK, WriterType
<1>5. \A u \in Writers : Unsettled(u)' = {}
  BY <1>4 DEF Unsettled
<1>6. Permitted(c)' = content'[c] /\ Held(c)' = content'[c]
  BY <1>5 DEF Permitted, Held, InFlight
<1>7. c \notin Chunk(w) => Permitted(c) \subseteq content[c] /\ Held(c) = content[c]
  BY <1>1, HolderPermits DEF Unsettled
<1>8. /\ bat[Block(w)] = host[w] /\ table[Block(w)] = host[w]
      /\ host[w] # BAT_UNALLOCATED
  BY <1>1, LandedPlace DEF ValueInv
<1>9. c \in Chunk(w) => /\ BlockOf(c) = Block(w)
                        /\ OffsetOf(c) \in sector[host[w]].bits
                        /\ CellAt(host[w], c) = op[w].value
  BY <1>1, ChunkPlace DEF ValueInv, Written
<1>10. c \in Chunk(w) => /\ View(sector, bat, c) = op[w].value
                         /\ View(sector, table, c) = op[w].value
  BY <1>8, <1>9 DEF View, CellAt
<1> QED BY <1>1, <1>2, <1>6, <1>7, <1>8, <1>9, <1>10

(* A step of a writer keeps every value, acknowledged or in doubt. *)
LEMMA WriterValues ==
  ASSUME TypeOK, LayoutInv, PayloadInv, ValueInv, NEW w \in Writers,
         Call(w) \/ Proceed(w)
  PROVE  ValueInv'
<1>1. CachedIsWritten /\ ReadBack /\ LockInv
  BY DEF ValueInv, LayoutInv
<1>2. CASE \/ Call(w) \/ TakeLock(w) \/ Allocate(w) \/ RefuseEntry(w) \/ GrowFails(w)
           \/ WriteFooter(w) \/ FooterFails(w) \/ FlushFooter(w)
           \/ ZeroBlock(w) \/ ZeroFails(w) \/ FlushZero(w)
           \/ ReadBitmap(w) \/ CallFails(w)
  <2>1. /\ UNCHANGED <<bat, table, mode>>
        /\ pc[w] \notin Landed \/ sector' = sector
        /\ \A c \in Cells : Permitted(c) \subseteq Permitted(c)'
    BY <1>2, QuietStep
  <2>2. ReadBack'
    BY <1>1, <2>1, QuietReads
  <2>3. CachedIsWritten'
    BY <1>1, <2>1 DEF CachedIsWritten
  <2>4. CASE Call(w)
    <3>1. /\ \A u \in Writers : u # w =>
               /\ pc'[u] = pc[u] /\ op'[u] = op[u] /\ cursor'[u] = cursor[u]
          /\ pc'[w] = "lock"
          /\ UNCHANGED <<sector, table, sectorMedia, host>>
      BY <2>4 DEF Call, Continue, Goto, TypeOK, WriterType, file, media
    <3>2. ASSUME NEW u \in Writers, u # w PROVE Written(u)'
      <4>1. /\ Chunk(u)' = Chunk(u) /\ Block(u)' = Block(u) /\ pc'[u] = pc[u]
            /\ ChunkStop(u)' = ChunkStop(u) /\ cursor'[u] = cursor[u]
            /\ op'[u] = op[u]
        BY <3>1, <3>2 DEF Chunk, Block, ChunkStop
      <4>2. Uncovered(u)' = Uncovered(u)
        BY <3>1, <4>1 DEF Uncovered
      <4>3. \A c : CellAt(host[u], c)' = CellAt(host[u], c)
        BY <3>1 DEF CellAt
      <4>4. Written(u)
        BY DEF ValueInv
      <4> QED BY <3>1, <4>1, <4>2, <4>3, <4>4 DEF Written
    <3>3. \A u \in Writers : Written(u)'
      BY <3>1, <3>2, WrittenNothing DEF Publishing, Flying
    <3> QED BY <2>2, <2>3, <3>3 DEF ValueInv
  <2>5. CASE TakeLock(w)
    <3>1. \A u \in Writers : pc'[u] \in {"idle", "lock", "allocate", "define"}
      BY <1>1, <2>5, SparseAssumption DEF TakeLock, LookUp, Goto, LockInv, TypeOK,
         WriterType, Holding
    <3>2. \A u \in Writers : Written(u)'
      BY <3>1, WrittenNothing DEF Publishing, Flying
    <3> QED BY <2>2, <2>3, <3>2 DEF ValueInv
  <2>6. CASE ~ Call(w) /\ ~ TakeLock(w)
    <3>1. PICK step \in Steps : Goto(w, step)
      BY <1>2, <2>6 DEF Allocate, RefuseEntry, GrowFails, WriteFooter, FooterFails,
         FlushFooter, ZeroBlock, ZeroFails, FlushZero, ReadBitmap, CallFails,
         Fail, Continue, Steps
    <3>2. pc[w] \in Holding /\ pc'[w] = step
      BY <1>2, <2>6, <3>1 DEF Allocate, RefuseEntry, GrowFails, WriteFooter,
         FooterFails, FlushFooter, ZeroBlock, ZeroFails, FlushZero, ReadBitmap,
         CallFails, At, Holding, Steps, Goto, TypeOK, WriterType
    <3>3. CASE ZeroBlock(w) \/ FlushZero(w) \/ ReadBitmap(w)
      BY <3>3, NewBlockWritten, PayloadWritten, <1>1, <2>2, <2>3, <3>1, <3>2,
         HolderWritten DEF ValueInv
    <3>4. CASE ~ (ZeroBlock(w) \/ FlushZero(w) \/ ReadBitmap(w))
      <4>1. pc'[w] \in {"idle", "footer", "retryFooter", "footerFlush", "zero"}
        BY <1>2, <2>6, <3>4 DEF Allocate, RefuseEntry, GrowFails, WriteFooter,
           FooterFails, FlushFooter, ZeroFails, CallFails, Fail, Continue, Goto,
           TypeOK, WriterType
      <4>2. Written(w)'
        BY <4>1, WrittenNothing DEF Publishing, Flying
      <4> QED BY <1>1, <2>2, <2>3, <3>1, <3>2, <4>2, HolderWritten DEF ValueInv
    <3> QED BY <3>3, <3>4
  <2> QED BY <2>4, <2>5, <2>6
<1>3. CASE WriteTable(w) \/ TableFails(w) \/ FlushTable(w)
  <2>1. ReadBack' /\ CachedIsWritten'
    BY <1>3, EntryStepValues, FlushTableValues
  <2>2. PICK step \in {"tableFlush", "idle", "define"} : Goto(w, step)
    BY <1>3 DEF WriteTable, TableFails, FlushTable, Fail, Continue
  <2>3. pc[w] \in Holding /\ pc'[w] = step /\ (step = "tableFlush" => WriteTable(w))
    BY <1>3, <2>2 DEF WriteTable, TableFails, FlushTable, Fail, Continue, At, Holding,
       Steps, Goto, TypeOK, WriterType
  <2>4. Written(w)'
    BY <2>3, NewBlockWritten, WrittenNothing DEF Publishing, Flying
  <2> QED BY <1>1, <2>1, <2>2, <2>3, <2>4, HolderWritten DEF ValueInv
<1>4. CASE \/ Define(w) \/ DefineFails(w) \/ WriteData(w) \/ DataFails(w)
           \/ WriteBitmap(w) \/ BitmapFails(w)
  <2>1. UNCHANGED <<bat, table, mode>> /\ ReadBack'
    BY <1>4, PayloadValues
  <2>2. CachedIsWritten'
    BY <1>1, <2>1 DEF CachedIsWritten
  <2>3. PICK step \in {"data", "readBitmap", "flush", "idle"} : Goto(w, step)
    BY <1>4 DEF Define, DefineFails, WriteData, DataFails, WriteBitmap, BitmapFails,
       Fail, Continue
  <2>4. /\ pc[w] \in Holding /\ pc'[w] = step
        /\ step # "idle" => Define(w) \/ WriteData(w) \/ WriteBitmap(w)
    BY <1>4, <2>3 DEF Define, DefineFails, WriteData, DataFails, WriteBitmap,
       BitmapFails, Fail, Continue, At, Holding, Steps, Goto, TypeOK, WriterType
  <2>5. Written(w)'
    BY <2>4, PayloadWritten, WrittenNothing DEF Publishing, Flying
  <2> QED BY <1>1, <2>1, <2>2, <2>3, <2>4, <2>5, HolderWritten DEF ValueInv
<1>5. CASE FlushChunk(w)
  <2>1. UNCHANGED <<sector, bat, table, mode>>
    BY <1>5 DEF FlushChunk, Sync, file, reader
  <2>2. ASSUME NEW c \in Cells
        PROVE  /\ View(sector', table', c) \in Permitted(c)'
               /\ mode' = "open" => View(sector', bat', c) \in Permitted(c)'
    BY <1>1, <1>5, <2>1, ChunkSettles, ReadsNow
  <2>3. PICK step \in {"idle", "lock"} : Goto(w, step)
    BY <1>5 DEF FlushChunk, EndChunk
  <2>4. pc[w] \in Holding /\ pc'[w] = step
    BY <1>5, <2>3 DEF FlushChunk, At, Holding, Steps, Goto, TypeOK, WriterType
  <2>5. Written(w)'
    BY <2>4, WrittenNothing DEF Publishing, Flying
  <2>6. CachedIsWritten'
    BY <1>1, <2>1 DEF CachedIsWritten
  <2>7. ReadBack'
    BY <2>2, ReadsNext
  <2> QED BY <1>1, <2>3, <2>4, <2>5, <2>6, <2>7, HolderWritten DEF ValueInv
<1> QED BY <1>2, <1>3, <1>4, <1>5 DEF Proceed

(* A process that ends keeps the cells in doubt, whatever becomes of the file. *)
LEMMA StopKeeps ==
  ASSUME Stop
  PROVE  /\ \A c \in Cells : /\ content'[c] = Held(c)
                             /\ Permitted(c)' = Held(c) /\ Held(c)' = Held(c)
                             /\ Permitted(c) \subseteq Held(c)
         /\ CachedIsWritten' /\ \A w \in Writers : Unsettled(w)' = {} /\ Written(w)'
         /\ mode' = "down" /\ \A b \in Blocks : bat'[b] = BAT_UNALLOCATED
<1>1. /\ mode' = "down" /\ \A b \in Blocks : bat'[b] = BAT_UNALLOCATED
      /\ \A w \in Writers : pc'[w] = "idle"
      /\ \A c \in Cells : content'[c] = Held(c)
  BY DEF Stop, Held
<1>2. \A w \in Writers : Unsettled(w)' = {}
  BY <1>1 DEF Unsettled
<1>3. \A c \in Cells : Permitted(c)' = Held(c) /\ Held(c)' = Held(c)
  BY <1>1, <1>2 DEF Permitted, InFlight, Held
<1>4. \A c \in Cells : Permitted(c) \subseteq Held(c)
  BY DEF Permitted, InFlight, Held
<1>5. \A w \in Writers : Written(w)'
  BY <1>1 DEF Written, Publishing
<1>6. CachedIsWritten'
  BY <1>1 DEF CachedIsWritten
<1> QED BY <1>1, <1>2, <1>3, <1>4, <1>5, <1>6

LEMMA SteadyValues ==
  TypeOK /\ LayoutInv /\ PayloadInv /\ ValueInv /\ [Next /\ ~ PowerLoss]_vars
    => ValueInv'
<1> SUFFICES ASSUME TypeOK, LayoutInv, PayloadInv, ValueInv,
                    [Next /\ ~ PowerLoss]_vars
             PROVE  ValueInv'
  OBVIOUS
<1>1. ASSUME NEW w \in Writers, Call(w) \/ Proceed(w) PROVE ValueInv'
  BY <1>1, WriterValues
<1>2. ASSUME UNCHANGED <<sector, table, bat, mode, pc, writer, content>>,
             \A w \in Writers : pc[w] \in Publishing =>
               \A s \in Extent(host[w]) \cap Sectors :
                 sectorMedia'[s] \in {sectorMedia[s], {sector[s]}}
      PROVE  ValueInv'
  <2>1. UNCHANGED <<op, cursor, host>>
    BY <1>2 DEF writer
  <2>2. \A w \in Writers : pc[w] \in Publishing =>
          \A s \in Extent(host[w]) \cap Sectors : sectorMedia'[s] = {ZeroSector}
    BY <1>2 DEF ValueInv, Written, LayoutInv, MediaInv
  <2>3. ASSUME NEW w \in Writers PROVE Written(w)'
    <3>1. /\ Chunk(w)' = Chunk(w) /\ Block(w)' = Block(w)
          /\ Uncovered(w)' = Uncovered(w)
      BY <1>2, <2>1 DEF Chunk, Block, ChunkStop, Uncovered
    <3>2. \A c : CellAt(host[w], c)' = CellAt(host[w], c)
      BY <1>2, <2>1 DEF CellAt
    <3>3. Written(w)
      BY DEF ValueInv
    <3> QED BY <1>2, <2>1, <2>2, <3>1, <3>2, <3>3 DEF Written
  <2>4. \A c \in Cells : Permitted(c)' = Permitted(c)
    BY <1>2, <2>1 DEF Permitted, InFlight, Unsettled, Chunk, ChunkStop
  <2>5. ReadBack' /\ CachedIsWritten'
    BY <1>2, <2>4, ReadsNow, ReadsNext DEF ValueInv, CachedIsWritten
  <2> QED BY <2>3, <2>5 DEF ValueInv
<1>3. CASE FlushWrites
  BY <1>2, <1>3 DEF FlushWrites, Sync, file, reader
<1>4. CASE Kill
  <2>1. Stop /\ UNCHANGED <<sector, table>> /\ mode = "open"
    BY <1>4 DEF Kill, file
  <2>2. \A c \in Cells : View(sector', table', c) \in Permitted(c)'
    BY <2>1, StopKeeps, ReadsNow DEF ValueInv
  <2>3. ReadBack'
    BY <2>1, <2>2, StopKeeps, ReadsNext
  <2> QED BY <2>1, <2>3, StopKeeps DEF ValueInv
<1>5. CASE Open
  <2>1. /\ UNCHANGED <<sector, table, content, pc, writer>> /\ bat' = table
        /\ \A w \in Writers : pc[w] = "idle"
    BY <1>5 DEF Open, file, LayoutInv, LockInv
  <2>2. \A w \in Writers : Written(w)'
    BY <2>1 DEF Written, Publishing
  <2>3. \A c \in Cells : Permitted(c)' = Permitted(c)
    BY <2>1 DEF Permitted, InFlight, Unsettled
  <2>4. ReadBack'
    BY <2>1, <2>3, ReadsNow, ReadsNext DEF ValueInv
  <2>5. CachedIsWritten'
    BY <2>1 DEF CachedIsWritten
  <2> QED BY <2>2, <2>4, <2>5 DEF ValueInv
<1>6. CASE UNCHANGED vars
  BY <1>2, <1>6 DEF vars, file, media, reader
<1> QED BY <1>1, <1>3, <1>4, <1>5, <1>6 DEF Next

LEMMA InitValues == Init => ValueInv
<1> SUFFICES ASSUME Init PROVE ValueInv
  OBVIOUS
<1>1. /\ bat = table /\ \A w \in Writers : pc[w] = "idle"
      /\ \A c \in Cells : content[c] = {Visible(table, c)}
  BY DEF Init
<1>2. CachedIsWritten
  BY <1>1 DEF CachedIsWritten
<1>3. \A w \in Writers : Written(w)
  BY <1>1 DEF Written, Publishing
<1>4. ReadBack
  BY <1>1 DEF ReadBack, Permitted
<1> QED BY <1>2, <1>3, <1>4 DEF ValueInv

(* On every image whose blocks hold no footer, and as long as the power holds,
   a cell reads as the last acknowledged write left it, or as a write that
   failed, was killed or is under way may have left it: no other thread, no
   failed device call, no kill and no reopening changes that.              *)
THEOREM ReadsSurviveFaults ==
  SoundImages => (Spec /\ [][~ PowerLoss]_vars => []ReadBack)
<1> SUFFICES ASSUME SoundImages
             PROVE  Spec /\ [][~ PowerLoss]_vars => []ReadBack
  OBVIOUS
<1>1. Init => ValueInv
  BY InitValues
<1>2. TypeOK /\ LayoutInv /\ PayloadInv /\ ValueInv /\ [Next]_vars
        /\ [~ PowerLoss]_vars => ValueInv'
  BY SteadyValues
<1>3. ValueInv => ReadBack
  BY DEF ValueInv
<1> QED BY <1>1, <1>2, <1>3, TypeCorrect, LayoutCorrect, PayloadCorrect, PTL DEF Spec

-----------------------------------------------------------------------------
(* The entries that may come back *)

LEMMA EntriesShrink ==
  ASSUME TypeOK, LayoutInv, PayloadInv, ValueInv, NEW w \in Writers,
         Call(w) \/ Proceed(w), ~ (WriteTable(w) \/ TableFails(w)), NEW b \in Blocks
  PROVE  Entries(b)' \subseteq Entries(b) /\ tableMedia'[b] \subseteq tableMedia[b]
<1>1. table[b] \in tableMedia[b]
  BY DEF LayoutInv, MediaInv
<1>2. CASE FlushTable(w)
  <2>1. Sync /\ pc[w] = "tableFlush" /\ bat' = [bat EXCEPT ![Block(w)] = host[w]]
    BY <1>2 DEF FlushTable, At
  <2>2. table[Block(w)] = host[w]
    BY <2>1 DEF ValueInv, Written
  <2>3. bat'[b] \in {bat[b], table[b]}
    BY <2>1, <2>2 DEF TypeOK, ReaderType
  <2> QED BY <1>1, <2>1, <2>3 DEF Sync, file, Entries
<1>3. ASSUME ~ FlushTable(w)
      PROVE  /\ UNCHANGED <<bat, table>>
             /\ tableMedia' = tableMedia \/ tableMedia'[b] = {table[b]}
  <2>1. CASE ZeroBlock(w) \/ ZeroFails(w)
    <3>1. PICK n \in 0 .. BlockTotal : ZeroOver(host[w], n)
      BY <2>1, SizesAreNat DEF ZeroBlock, ZeroFails
    <3>2. pc[w] = "zero" /\ mode = "open" /\ UNCHANGED reader
      BY <2>1 DEF ZeroBlock, ZeroFails, At
    <3> QED BY <3>1, <3>2, ZeroPuts DEF Put, reader
  <2>2. CASE \/ Define(w) \/ DefineFails(w) \/ WriteData(w) \/ DataFails(w)
             \/ WriteBitmap(w) \/ BitmapFails(w) \/ WriteFooter(w) \/ FooterFails(w)
    BY <2>2 DEF Define, DefineFails, WriteData, DataFails, WriteBitmap, BitmapFails,
       WriteFooter, FooterFails, Put, reader
  <2>3. CASE FlushFooter(w) \/ FlushZero(w) \/ FlushChunk(w)
    BY <2>3 DEF FlushFooter, FlushZero, FlushChunk, Sync, file, reader
  <2>4. CASE \/ Call(w) \/ TakeLock(w) \/ Allocate(w) \/ RefuseEntry(w)
             \/ GrowFails(w) \/ ReadBitmap(w) \/ CallFails(w)
    BY <2>4 DEF Call, TakeLock, LookUp, Allocate, Grow, RefuseEntry, GrowFails,
       ReadBitmap, CallFails, file, media, reader
  <2> QED BY <1>3, <2>1, <2>2, <2>3, <2>4 DEF Proceed
<1>4. CASE ~ FlushTable(w)
  BY <1>1, <1>3, <1>4 DEF Entries
<1> QED BY <1>2, <1>4

(* The BAT write adds one entry, of its own block: the tail it was given. *)
LEMMA EntryAdded ==
  ASSUME TypeOK, LayoutInv, NEW w \in Writers, WriteTable(w) \/ TableFails(w),
         NEW b \in Blocks
  PROVE  /\ Entries(b)' \subseteq Entries(b) \cup {e \in {host[w]} : b = Block(w)}
         /\ BAT_UNALLOCATED \in tableMedia'[b] =>
              BAT_UNALLOCATED \in tableMedia[b] \/ b = Block(w)
<1>1. PICK entry \in {table[Block(w)], host[w]} : PutEntry(Block(w), entry)
  BY DEF WriteTable, TableFails
<1>2. bat' = bat
  BY DEF WriteTable, TableFails, reader
<1>3. table[b] \in tableMedia[b] /\ Block(w) \in Blocks
  BY ChunkType DEF LayoutInv, MediaInv, TypeOK
<1>4. /\ table'[b] = IF b = Block(w) THEN entry ELSE table[b]
      /\ tableMedia'[b] = IF b = Block(w) THEN tableMedia[b] \cup {entry}
                          ELSE tableMedia[b]
  BY <1>1, <1>3 DEF PutEntry, TypeOK, FileType
<1>5. CASE b # Block(w)
  BY <1>2, <1>4, <1>5 DEF Entries
<1>6. CASE b = Block(w)
  <2>1. table'[b] = entry /\ tableMedia'[b] = tableMedia[b] \cup {entry}
    BY <1>4, <1>6
  <2>2. entry \in tableMedia[b] \cup {host[w]}
    BY <1>3, <1>6
  <2> QED BY <1>2, <1>6, <2>1, <2>2 DEF Entries
<1> QED BY <1>5, <1>6

(* Entries that go leave the others apart. *)
LEMMA ApartKept ==
  ASSUME EntriesApart,
         \A b \in Blocks : Entries(b)' \subseteq Entries(b),
         WriterType,
         \A w \in Writers : pc'[w] \in Publishing =>
           pc[w] \in Publishing /\ host'[w] = host[w] /\ cursor'[w] = cursor[w]
  PROVE  EntriesApart'
<1>1. ASSUME NEW w \in Writers, pc'[w] \in Publishing, NEW e \in Entries(Block(w))',
             e # host'[w]
      PROVE  e + BlockTotal <= host'[w]
  <2>1. pc[w] \in Publishing /\ host'[w] = host[w] /\ Block(w)' = Block(w)
    BY <1>1 DEF Block
  <2>2. Block(w) \in Blocks
    BY ChunkType
  <2>3. Entries(Block(w))' = {x \in Entries(Block(w)) : x \in Entries(Block(w))'}
    <3>1. \A b \in Blocks : b = Block(w)' => Entries(Block(w))' \subseteq Entries(b)
      BY DEF Entries
    <3> QED BY <2>1, <2>2, <3>1
  <2> QED BY <1>1, <2>1, <2>3 DEF EntriesApart
<1>2. \A w \in Writers : pc'[w] \in Publishing =>
        \A e \in Entries(Block(w))' : e # host'[w] => e + BlockTotal <= host'[w]
  BY <1>1
<1>3. \A b \in Blocks : \A e, f \in Entries(b)' : e # f => DisjointBlocks(e, f)
  BY DEF EntriesApart
<1> QED BY <1>2, <1>3 DEF EntriesApart

LEMMA WriterApart ==
  ASSUME TypeOK, LayoutInv, PayloadInv, ValueInv, EntriesApart, NEW w \in Writers,
         Call(w) \/ Proceed(w)
  PROVE  EntriesApart'
<1>1. LockInv /\ WriterType
  BY DEF LayoutInv, TypeOK
<1>2. CASE Call(w)
  <2>1. \A u \in Writers : pc'[u] \in Publishing =>
           pc[u] \in Publishing /\ host'[u] = host[u] /\ cursor'[u] = cursor[u]
    BY <1>1, <1>2 DEF Call, Continue, Goto, WriterType, Publishing
  <2>2. ~ (WriteTable(w) \/ TableFails(w))
    BY <1>2 DEF Call, WriteTable, TableFails, At
  <2> QED BY <1>1, <2>1, <2>2, EntriesShrink, ApartKept
<1>3. CASE TakeLock(w)
  <2>1. \A u \in Writers : pc'[u] \notin Publishing
    BY <1>1, <1>3, SparseAssumption DEF TakeLock, LookUp, Goto, LockInv,
       WriterType, Holding, Publishing, Steps
  <2>2. ~ (WriteTable(w) \/ TableFails(w))
    BY <1>3 DEF TakeLock, WriteTable, TableFails, At
  <2> QED BY <1>1, <2>1, <2>2, EntriesShrink, ApartKept
<1>4. CASE WriteTable(w) \/ TableFails(w)
  <2>1. pc[w] = "table" /\ mode = "open" /\ pc[w] \in Publishing /\ pc[w] \in Holding
    BY <1>4 DEF WriteTable, TableFails, At, Publishing, Holding, Steps
  <2>2. PICK step \in {"tableFlush", "idle"} : Goto(w, step)
    BY <1>4 DEF WriteTable, TableFails, Continue, Fail
  <2>3. \A u \in Writers : u # w => pc'[u] \notin Publishing
    BY <1>1, <2>1, <2>2, OthersWait DEF Publishing
  <2>4. pc'[w] \in Publishing => host'[w] = host[w] /\ Block(w)' = Block(w)
    BY <1>4, <1>1 DEF WriteTable, TableFails, Fail, Goto, Publishing, WriterType,
       writer, Block
  <2>5. /\ host[w] \in Nat /\ Block(w) \in Blocks
        /\ \A e \in Entries(Block(w)) : e # host[w] => e + BlockTotal <= host[w]
    BY <2>1, BuildFacts DEF EntriesApart
  <2>6. ASSUME NEW b \in Blocks, NEW e \in Entries(b)', NEW f \in Entries(b)', e # f
        PROVE  DisjointBlocks(e, f)
    <3>1. /\ e \in Entries(b) \cup {x \in {host[w]} : b = Block(w)}
          /\ f \in Entries(b) \cup {x \in {host[w]} : b = Block(w)}
      BY <1>4, <2>6, EntryAdded
    <3> QED BY <2>5, <2>6, <3>1 DEF EntriesApart, DisjointBlocks
  <2>7. ASSUME NEW b \in Blocks, b = Block(w), NEW e \in Entries(b)', e # host[w]
        PROVE  e + BlockTotal <= host[w]
    BY <1>4, <2>5, <2>7, EntryAdded
  <2>8. pc'[w] \in Publishing =>
          \A e \in Entries(Block(w))' : e # host'[w] => e + BlockTotal <= host'[w]
    <3>1. \A b \in Blocks : b = Block(w)' => Entries(Block(w))' = Entries(b)'
      BY DEF Entries
    <3> QED BY <2>4, <2>5, <2>7, <3>1
  <2> QED BY <2>3, <2>6, <2>8 DEF EntriesApart
<1>5. CASE FlushZero(w)
  <2>1. /\ pc[w] = "zeroFlush" /\ mode = "open" /\ Goto(w, "table")
        /\ host' = host /\ cursor' = cursor
    BY <1>5 DEF FlushZero, At, Continue, writer
  <2>2. pc[w] \in Building /\ pc[w] \in Holding
    BY <2>1 DEF Building, Holding, Steps
  <2>3. host[w] = next_alloc_off /\ Block(w) \in Blocks
    BY <2>1, <2>2, BuildFacts
  <2>4. \A e \in Entries(Block(w)) : e + BlockTotal <= host[w]
    BY <2>1, <2>3 DEF LayoutInv, TailIsFree
  <2>5. ~ (WriteTable(w) \/ TableFails(w))
    BY <2>1 DEF WriteTable, TableFails, At
  <2>6. \A b \in Blocks : Entries(b)' \subseteq Entries(b)
    BY <2>5, EntriesShrink
  <2>7. \A u \in Writers : u # w => pc'[u] \notin Publishing
    BY <1>1, <2>1, <2>2, OthersWait DEF Publishing
  <2>8. Block(w)' = Block(w) /\ host'[w] = host[w]
    BY <2>1 DEF Block
  <2>9. \A e \in Entries(Block(w))' : e + BlockTotal <= host'[w]
    <3>1. \A b \in Blocks : b = Block(w)' => Entries(Block(w))' = Entries(b)'
      BY DEF Entries
    <3> QED BY <2>3, <2>4, <2>6, <2>8, <3>1
  <2> QED BY <2>6, <2>7, <2>9 DEF EntriesApart
<1>6. ASSUME ~ (Call(w) \/ TakeLock(w) \/ WriteTable(w) \/ TableFails(w) \/ FlushZero(w))
      PROVE  EntriesApart'
  <2>1. PICK step \in Steps \ Publishing : Goto(w, step)
    BY <1>6 DEF Proceed, Allocate, RefuseEntry, GrowFails, WriteFooter, FooterFails,
       FlushFooter, ZeroBlock, ZeroFails, FlushTable, Define, DefineFails, WriteData,
       DataFails, ReadBitmap, WriteBitmap, BitmapFails, FlushChunk, EndChunk, CallFails,
       Fail, Continue, Steps, Publishing
  <2>2. pc[w] \in Holding
    BY <1>6 DEF Proceed, Allocate, RefuseEntry, GrowFails, WriteFooter, FooterFails,
       FlushFooter, ZeroBlock, ZeroFails, FlushTable, Define, DefineFails, WriteData,
       DataFails, ReadBitmap, WriteBitmap, BitmapFails, FlushChunk, CallFails, At,
       Steps, Holding
  <2>3. \A u \in Writers : pc'[u] \notin Publishing
    BY <1>1, <2>1, <2>2, OthersWait DEF Publishing
  <2> QED BY <1>1, <1>6, <2>3, EntriesShrink, ApartKept
<1> QED BY <1>2, <1>3, <1>4, <1>5, <1>6

(* What a power loss or another process makes of the table. *)
LEMMA EntriesOutside ==
  ASSUME TypeOK, LayoutInv, FlushWrites \/ Kill \/ PowerLoss \/ Open,
         NEW b \in Blocks
  PROVE  Entries(b)' \subseteq Entries(b) /\ tableMedia'[b] \subseteq tableMedia[b]
<1>1. table[b] \in tableMedia[b]
  BY DEF LayoutInv, MediaInv
<1>2. CASE FlushWrites
  BY <1>1, <1>2 DEF FlushWrites, Sync, file, reader, Entries
<1>3. CASE Kill
  BY <1>1, <1>3, StopKeeps DEF Kill, file, media, Entries
<1>4. CASE PowerLoss
  <2>1. table'[b] \in tableMedia[b] /\ tableMedia'[b] = {table'[b]}
    BY <1>4 DEF PowerLoss
  <2>2. bat'[b] = BAT_UNALLOCATED
    BY <1>4, StopKeeps DEF PowerLoss
  <2> QED BY <2>1, <2>2 DEF Entries
<1>5. CASE Open
  BY <1>1, <1>5 DEF Open, file, media, Entries
<1> QED BY <1>2, <1>3, <1>4, <1>5

LEMMA StepApart ==
  TypeOK /\ LayoutInv /\ PayloadInv /\ ValueInv /\ EntriesApart /\ [Next]_vars
    => EntriesApart'
<1> SUFFICES ASSUME TypeOK, LayoutInv, PayloadInv, ValueInv, EntriesApart, [Next]_vars
             PROVE  EntriesApart'
  OBVIOUS
<1>1. ASSUME NEW w \in Writers, Call(w) \/ Proceed(w) PROVE EntriesApart'
  BY <1>1, WriterApart
<1>2. CASE FlushWrites \/ Kill \/ PowerLoss \/ Open
  <2>1. \A w \in Writers : pc'[w] \in Publishing =>
           pc[w] \in Publishing /\ host'[w] = host[w] /\ cursor'[w] = cursor[w]
    BY <1>2 DEF FlushWrites, Kill, PowerLoss, Stop, Open, writer, Publishing
  <2> QED BY <1>2, <2>1, EntriesOutside, ApartKept DEF TypeOK
<1>3. CASE UNCHANGED vars
  BY <1>3, ApartKept DEF vars, file, media, reader, writer, TypeOK, Entries
<1> QED BY <1>1, <1>2, <1>3 DEF Next

LEMMA InitApart == Init => EntriesApart
<1> SUFFICES ASSUME Init PROVE EntriesApart
  OBVIOUS
<1>1. \A b \in Blocks : Entries(b) \subseteq {table[b]}
  BY DEF Init, Entries
<1>2. \A w \in Writers : pc[w] \notin Publishing
  BY DEF Init, Publishing
<1> QED BY <1>1, <1>2 DEF EntriesApart

-----------------------------------------------------------------------------
(* What a power loss may make of a cell *)

HeldCell(c) ==
  /\ \A e \in Entries(BlockOf(c)) : MayComeBack(c, e)
  /\ BAT_UNALLOCATED \in tableMedia[BlockOf(c)] => Zero \in Held(c)

(* Where the bytes of an entry that may come back lie. *)
LEMMA EntryPlace ==
  ASSUME TypeOK, LayoutInv, NEW c \in Cells, NEW e \in Entries(BlockOf(c))
  PROVE  /\ BlockOf(c) \in Blocks /\ e \in Nat /\ e \in Extent(e)
         /\ DataSectorOf(e, c) \in Extent(e) /\ Extent(e) \subseteq Sectors
         /\ \A s \in Extent(e) : sector[s] \in sectorMedia[s]
<1>1. BlockOf(c) \in Blocks
  BY BlockOfCell
<1>2. e \in Nat /\ Extent(e) \subseteq Sectors
  BY <1>1, EntryExtent
<1> QED BY <1>1, <1>2, CellInExtent DEF LayoutInv, MediaInv

(* Media that lose values, and entries that go, put no cell in doubt. *)
LEMMA HeldKept ==
  ASSUME NEW c \in Cells, HeldCell(c), Held(c) \subseteq Held(c)',
         Entries(BlockOf(c))' \subseteq Entries(BlockOf(c)),
         tableMedia'[BlockOf(c)] \subseteq tableMedia[BlockOf(c)],
         \A e \in Entries(BlockOf(c)) :
           /\ sectorMedia'[e] \subseteq sectorMedia[e]
           /\ sectorMedia'[DataSectorOf(e, c)] \subseteq sectorMedia[DataSectorOf(e, c)]
  PROVE  HeldCell(c)'
<1>1. ASSUME NEW e \in Entries(BlockOf(c))' PROVE MayComeBack(c, e)'
  <2>1. e \in Entries(BlockOf(c)) /\ MayComeBack(c, e)
    BY DEF HeldCell
  <2> QED BY <2>1 DEF MayComeBack
<1> QED BY <1>1 DEF HeldCell

(* The allocation writes no sector of an entry that may come back; a flush
   leaves of each sector what it reads as.                                 *)
LEMMA MediaShrinks ==
  ASSUME TypeOK, LayoutInv, PayloadInv, NEW w \in Writers,
         \/ Call(w) \/ TakeLock(w) \/ Allocate(w) \/ RefuseEntry(w) \/ GrowFails(w)
         \/ WriteFooter(w) \/ FooterFails(w) \/ FlushFooter(w)
         \/ ZeroBlock(w) \/ ZeroFails(w) \/ FlushZero(w) \/ FlushTable(w)
         \/ ReadBitmap(w) \/ FlushChunk(w) \/ CallFails(w),
         NEW b \in Blocks, NEW e \in Entries(b), NEW s \in Extent(e)
  PROVE  sectorMedia'[s] \subseteq sectorMedia[s]
<1>1. s \in Sectors /\ sector[s] \in sectorMedia[s]
  BY EntryExtent DEF LayoutInv, MediaInv
<1>2. CASE FlushFooter(w) \/ FlushZero(w) \/ FlushTable(w) \/ FlushChunk(w)
  BY <1>1, <1>2 DEF FlushFooter, FlushZero, FlushTable, FlushChunk, Sync
<1>3. CASE WriteFooter(w) \/ FooterFails(w) \/ ZeroBlock(w) \/ ZeroFails(w)
  <2>1. Proceed(w) /\ pc[w] \notin Landed
    BY <1>3 DEF Proceed, WriteFooter, FooterFails, ZeroBlock, ZeroFails, At, Landed
  <2>2. sector'[s] = sector[s]
    BY <2>1, WriterTouches
  <2>3. ZeroBlock(w) \/ ZeroFails(w) =>
          \E n \in 0 .. BlockTotal : Put(Zeroed(host[w], n))
    <3> SUFFICES ASSUME ZeroBlock(w) \/ ZeroFails(w)
                 PROVE  \E n \in 0 .. BlockTotal : Put(Zeroed(host[w], n))
      OBVIOUS
    <3>1. PICK n \in 0 .. BlockTotal : ZeroOver(host[w], n)
      BY SizesAreNat DEF ZeroBlock, ZeroFails
    <3>2. pc[w] = "zero" /\ mode = "open"
      BY DEF ZeroBlock, ZeroFails, At
    <3> QED BY <3>1, <3>2, ZeroPuts
  <2>4. \E new : Put(new)
    BY <1>3, <2>3 DEF WriteFooter, FooterFails
  <2>5. sectorMedia'[s] = sectorMedia[s] \cup {sector'[s]}
    BY <1>1, <2>4 DEF Put
  <2> QED BY <1>1, <2>2, <2>5
<1>4. CASE \/ Call(w) \/ TakeLock(w) \/ Allocate(w) \/ RefuseEntry(w)
           \/ GrowFails(w) \/ ReadBitmap(w) \/ CallFails(w)
  BY <1>4 DEF Call, TakeLock, LookUp, Allocate, Grow, RefuseEntry, GrowFails,
     ReadBitmap, CallFails, media
<1> QED BY <1>2, <1>3, <1>4

(* What the payload adds to the media of a cell's own sectors: a fill where
   zero may come back already, the value, more bits.                       *)
LEMMA PayloadHeld ==
  ASSUME TypeOK, LayoutInv, PayloadInv, ValueInv, EntriesApart, NEW w \in Writers,
         \/ Define(w) \/ DefineFails(w) \/ WriteData(w) \/ DataFails(w)
         \/ WriteBitmap(w) \/ BitmapFails(w),
         NEW c \in Cells, HeldCell(c), NEW e \in Entries(BlockOf(c))
  PROVE  /\ sector'[DataSectorOf(e, c)].cells[PartOf(c)] \in Held(c)'
         /\ OffsetOf(c) \notin sector'[e].bits => Zero \in Held(c)'
<1> DEFINE b == Block(w)
           h == host[w]
           d == DataSectorOf(e, c)
           p == PartOf(c)
<1>1. /\ BlockOf(c) \in Blocks /\ e \in Nat /\ e \in Extent(e) /\ d \in Extent(e)
      /\ Extent(e) \subseteq Sectors
      /\ sector[e] \in sectorMedia[e] /\ sector[d] \in sectorMedia[d]
  BY EntryPlace
<1>2. /\ sector[d].cells[p] \in Held(c)
      /\ OffsetOf(c) \notin sector[e].bits => Zero \in Held(c)
  BY <1>1 DEF HeldCell, MayComeBack
<1>3. /\ Held(c) \subseteq Held(c)'
      /\ c \in Unsettled(w) => op[w].value \in Held(c)'
  BY PayloadValues
<1>4. /\ pc[w] \in Landed /\ Proceed(w) /\ CachedIsWritten
  BY PayloadWrites DEF Proceed, ValueInv
<1>5. /\ h \in Nat /\ h \in Sectors /\ h \in Extent(h) /\ b \in Blocks
      /\ h \in Entries(b)
      /\ \A k \in Cells : /\ DataSectorOf(h, k) \in Extent(h)
                          /\ DataSectorOf(h, k) # h
  BY <1>4, LandedPlace
<1>6. CASE e # h \/ BlockOf(c) # b
  <2>1. ASSUME NEW s \in Extent(e) PROVE sector'[s] = sector[s]
    <3> SUFFICES ASSUME sector'[s] # sector[s] PROVE FALSE
      OBVIOUS
    <3>1. BlockOf(c) = b /\ s \in Touches(w)
      BY <1>1, <1>4, WriterTouches
    <3>2. s \in Extent(h)
      BY <1>5, <3>1, ChunkPlace DEF Touches
    <3>3. DisjointBlocks(e, h)
      BY <1>5, <1>6, <3>1 DEF EntriesApart
    <3> QED BY <1>1, <1>5, <3>2, <3>3, SizesAreNat DEF DisjointBlocks, Extent
  <2> QED BY <1>1, <1>2, <1>3, <2>1
<1>7. CASE e = h /\ BlockOf(c) = b
  <2>1. d \in Sectors /\ d # h /\ d = DataSectorOf(h, c)
    BY <1>1, <1>5, <1>7
  <2> HIDE DEF h, b
  <2>2. ASSUME NEW D \in SUBSET Cells, NEW v, \A k \in D : BlockOf(k) = b,
               sector' = Filling(h, D, v)
        PROVE  /\ sector'[e] = sector[e]
               /\ c \in D => sector'[d].cells[p] = v
               /\ c \notin D => sector'[d].cells[p] = sector[d].cells[p]
    <3>1. Filling(h, D, v)[h] = sector[h]
      BY <1>5, <2>2, FilledBitmap
    <3>2. \A k \in D : BlockOf(k) = BlockOf(c)
      BY <1>7, <2>2
    <3>3. /\ c \in D => sector'[d].cells[p] = v
          /\ c \notin D => sector'[d].cells[p] = CellAt(h, c)
      BY <1>5, <2>1, <2>2, <3>2, FilledCell
    <3> QED BY <1>7, <2>1, <2>2, <3>1, <3>3 DEF CellAt
  <2>3. ASSUME NEW D \in SUBSET Uncovered(w), sector' = Filling(h, D, Zero)
        PROVE  /\ sector'[d].cells[p] \in Held(c)'
               /\ OffsetOf(c) \notin sector'[e].bits => Zero \in Held(c)'
    <3>1. D \in SUBSET Cells /\ \A k \in D : BlockOf(k) = b
      BY FillsItsBlock DEF b
    <3>2. c \in D => Zero \in Held(c)
      BY <1>2, <1>7 DEF Uncovered, h
    <3> QED BY <1>2, <1>3, <2>2, <2>3, <3>1, <3>2
  <2>4. ASSUME NEW D \in SUBSET Chunk(w), pc[w] = "data",
               sector' = Filling(h, D, op[w].value)
        PROVE  /\ sector'[d].cells[p] \in Held(c)'
               /\ OffsetOf(c) \notin sector'[e].bits => Zero \in Held(c)'
    <3>1. D \in SUBSET Cells /\ \A k \in D : BlockOf(k) = b
      BY FillsItsBlock DEF b
    <3>2. c \in D => op[w].value \in Held(c)'
      BY <1>3, <2>4 DEF Unsettled
    <3> QED BY <1>2, <1>3, <2>2, <2>4, <3>1, <3>2
  <2>5. ASSUME NEW S \in SUBSET ChunkOffsets(w), pc[w] = "bitmap",
               sector' = Bitmapped(h, bits[w] \cup S)
        PROVE  /\ sector'[d].cells[p] \in Held(c)'
               /\ OffsetOf(c) \notin sector'[e].bits => Zero \in Held(c)'
    <3>1. bits[w] = sector[h].bits
      BY <2>5 DEF PayloadInv, AtBlock, h
    <3>2. sector'[e].bits = sector[e].bits \cup S /\ sector'[d] = sector[d]
      BY <1>5, <1>7, <2>1, <2>5, <3>1 DEF Bitmapped, BitmapSector, TypeOK, FileType
    <3> QED BY <1>2, <1>3, <3>2
  <2>6. CASE Define(w)
    BY <2>3, <2>6 DEF Define, Put, h
  <2>7. CASE DefineFails(w)
    BY <2>3, <2>7 DEF DefineFails, Put, h
  <2>8. CASE WriteData(w)
    BY <2>4, <2>8 DEF WriteData, Put, At, h
  <2>9. CASE DataFails(w)
    <3>1. PICK n \in cursor[w] .. ChunkStop(w) :
            sector' = Filling(h, cursor[w] .. n - 1, op[w].value)
      BY <2>9 DEF DataFails, Put, h
    <3>2. cursor[w] .. n - 1 \subseteq Chunk(w)
      BY <3>1, ChunkType, SizesAreNat DEF TypeOK, Cells, Chunk
    <3>3. pc[w] = "data"
      BY <2>9 DEF DataFails, At
    <3> QED BY <2>4, <3>1, <3>2, <3>3
  <2>10. CASE WriteBitmap(w)
    BY <2>5, <2>10 DEF WriteBitmap, Put, At, h
  <2>11. CASE BitmapFails(w)
    <3>1. pc[w] = "bitmap"
      BY <2>11 DEF BitmapFails, At
    <3>2. PICK S \in SUBSET ChunkOffsets(w) : Put(Bitmapped(h, bits[w] \cup S))
      BY <2>11 DEF BitmapFails, h
    <3>3. sector' = Bitmapped(h, bits[w] \cup S)
      BY <3>2 DEF Put
    <3> QED BY <2>5, <3>1, <3>3
  <2> QED BY <2>6, <2>7, <2>8, <2>9, <2>10, <2>11
<1> QED BY <1>6, <1>7

(* The steps after which nothing more may come back of a cell than before. *)
LEMMA QuietHeld ==
  ASSUME TypeOK, LayoutInv, PayloadInv, ValueInv, NEW w \in Writers,
         \/ Call(w) \/ TakeLock(w) \/ Allocate(w) \/ RefuseEntry(w) \/ GrowFails(w)
         \/ WriteFooter(w) \/ FooterFails(w) \/ FlushFooter(w)
         \/ ZeroBlock(w) \/ ZeroFails(w) \/ FlushZero(w) \/ FlushTable(w)
         \/ ReadBitmap(w) \/ CallFails(w),
         NEW c \in Cells, HeldCell(c)
  PROVE  HeldCell(c)'
<1>1. Call(w) \/ Proceed(w)
  BY DEF Proceed
<1>2. ~ (WriteTable(w) \/ TableFails(w))
  BY DEF Call, TakeLock, Allocate, RefuseEntry, GrowFails, WriteFooter, FooterFails,
     FlushFooter, ZeroBlock, ZeroFails, FlushZero, FlushTable, ReadBitmap, CallFails,
     WriteTable, TableFails, At
<1>3. Held(c) \subseteq Held(c)'
  BY QuietStep, FlushTableValues
<1>4. BlockOf(c) \in Blocks
  BY BlockOfCell
<1>5. /\ Entries(BlockOf(c))' \subseteq Entries(BlockOf(c))
      /\ tableMedia'[BlockOf(c)] \subseteq tableMedia[BlockOf(c)]
  BY <1>1, <1>2, <1>4, EntriesShrink
<1>6. \A e \in Entries(BlockOf(c)) :
        /\ sectorMedia'[e] \subseteq sectorMedia[e]
        /\ sectorMedia'[DataSectorOf(e, c)] \subseteq sectorMedia[DataSectorOf(e, c)]
  BY <1>4, EntryPlace, MediaShrinks
<1> QED BY <1>3, <1>5, <1>6, HeldKept

(* The entry of the new block: it brings back zeros, as its absence did. *)
LEMMA EntryHeld ==
  ASSUME TypeOK, LayoutInv, PayloadInv, ValueInv, NEW w \in Writers,
         WriteTable(w) \/ TableFails(w), NEW c \in Cells, HeldCell(c)
  PROVE  HeldCell(c)'
<1>1. /\ mode = "open" /\ pc[w] = "table" /\ pc[w] \in Publishing
      /\ pc[w] \in Holding /\ LockInv /\ sectorMedia' = sectorMedia
  BY DEF WriteTable, TableFails, At, PutEntry, Publishing, Holding, Steps, LayoutInv
<1>2. BlockOf(c) \in Blocks
  BY BlockOfCell
<1>3. Held(c) \subseteq Held(c)' /\ Permitted(c) \subseteq Held(c)
  BY <1>1, EntryStepValues, HolderPermits
<1>4. ASSUME BlockOf(c) = Block(w)
      PROVE  Zero \in Held(c)' /\ \A e : e = host[w] => MayComeBack(c, e)'
  <2>1. Zero \in Permitted(c)
    <3>1. [table EXCEPT ![Block(w)] = host[w]][Block(w)] = host[w]
      BY <1>2, <1>4 DEF TypeOK, FileType
    <3> QED BY <1>1, <1>4, <3>1, NewEntryReads
  <2>2. /\ host[w] \in Extent(host[w]) /\ DataSectorOf(host[w], c) \in Extent(host[w])
        /\ Extent(host[w]) \subseteq Sectors
    BY <1>1, NewExtent
  <2>3. \A s \in Extent(host[w]) : sectorMedia'[s] = {ZeroSector}
    BY <1>1, <2>2 DEF ValueInv, Written
  <2>4. ZeroSector.cells[PartOf(c)] = Zero
    BY PlaceOfCell DEF ZeroSector, Filled
  <2> QED BY <1>3, <2>1, <2>2, <2>3, <2>4 DEF MayComeBack
<1>5. ASSUME NEW e \in Entries(BlockOf(c))' PROVE MayComeBack(c, e)'
  <2>1. e \in Entries(BlockOf(c)) \/ (e = host[w] /\ BlockOf(c) = Block(w))
    BY <1>2, EntryAdded
  <2>2. CASE e \in Entries(BlockOf(c))
    <3>1. MayComeBack(c, e)
      BY <2>2 DEF HeldCell
    <3> QED BY <1>1, <1>3, <3>1 DEF MayComeBack
  <2> QED BY <1>4, <2>1, <2>2
<1>6. BAT_UNALLOCATED \in tableMedia'[BlockOf(c)] => Zero \in Held(c)'
  <2>1. BAT_UNALLOCATED \in tableMedia'[BlockOf(c)] =>
          BAT_UNALLOCATED \in tableMedia[BlockOf(c)] \/ BlockOf(c) = Block(w)
    BY <1>2, EntryAdded
  <2> QED BY <1>3, <1>4, <2>1 DEF HeldCell
<1> QED BY <1>5, <1>6 DEF HeldCell

LEMMA PayloadHeldCell ==
  ASSUME TypeOK, LayoutInv, PayloadInv, ValueInv, EntriesApart, NEW w \in Writers,
         \/ Define(w) \/ DefineFails(w) \/ WriteData(w) \/ DataFails(w)
         \/ WriteBitmap(w) \/ BitmapFails(w),
         NEW c \in Cells, HeldCell(c)
  PROVE  HeldCell(c)'
<1>1. BlockOf(c) \in Blocks
  BY BlockOfCell
<1>2. Call(w) \/ Proceed(w)
  BY DEF Proceed
<1>3. ~ (WriteTable(w) \/ TableFails(w))
  BY DEF Define, DefineFails, WriteData, DataFails, WriteBitmap, BitmapFails,
     WriteTable, TableFails, At
<1>4. /\ Entries(BlockOf(c))' \subseteq Entries(BlockOf(c))
      /\ tableMedia'[BlockOf(c)] \subseteq tableMedia[BlockOf(c)]
  BY <1>1, <1>2, <1>3, EntriesShrink
<1>5. Held(c) \subseteq Held(c)'
  BY PayloadValues
<1>6. \A s \in Sectors : sectorMedia'[s] = sectorMedia[s] \cup {sector'[s]}
  BY DEF Define, DefineFails, WriteData, DataFails, WriteBitmap, BitmapFails, Put
<1>7. ASSUME NEW e \in Entries(BlockOf(c))' PROVE MayComeBack(c, e)'
  <2>1. e \in Entries(BlockOf(c)) /\ MayComeBack(c, e)
    BY <1>4 DEF HeldCell
  <2>2. e \in Sectors /\ DataSectorOf(e, c) \in Sectors
    BY <2>1, EntryPlace
  <2>3. /\ sector'[DataSectorOf(e, c)].cells[PartOf(c)] \in Held(c)'
        /\ OffsetOf(c) \notin sector'[e].bits => Zero \in Held(c)'
    BY <2>1, PayloadHeld
  <2>4. /\ sectorMedia'[e] = sectorMedia[e] \cup {sector'[e]}
        /\ sectorMedia'[DataSectorOf(e, c)] =
             sectorMedia[DataSectorOf(e, c)] \cup {sector'[DataSectorOf(e, c)]}
    BY <1>6, <2>2
  <2> QED BY <1>5, <2>1, <2>3, <2>4 DEF MayComeBack
<1> QED BY <1>4, <1>5, <1>7 DEF HeldCell

(* After the flush that ends a chunk nothing older comes back. *)
LEMMA ChunkHeld ==
  ASSUME TypeOK, LayoutInv, PayloadInv, ValueInv, NEW w \in Writers, FlushChunk(w),
         NEW c \in Cells, HeldCell(c)
  PROVE  HeldCell(c)'
<1>1. BlockOf(c) \in Blocks
  BY BlockOfCell
<1>2. Proceed(w) /\ ~ (WriteTable(w) \/ TableFails(w)) /\ pc[w] \in Landed
  BY DEF Proceed, FlushChunk, WriteTable, TableFails, At, Landed
<1>3. /\ Entries(BlockOf(c))' \subseteq Entries(BlockOf(c))
      /\ tableMedia'[BlockOf(c)] \subseteq tableMedia[BlockOf(c)]
  BY <1>1, <1>2, EntriesShrink
<1>4. CASE c \notin Chunk(w)
  <2>1. Held(c) \subseteq Held(c)'
    BY <1>4, ChunkSettles
  <2>2. \A e \in Entries(BlockOf(c)) :
        /\ sectorMedia'[e] \subseteq sectorMedia[e]
        /\ sectorMedia'[DataSectorOf(e, c)] \subseteq sectorMedia[DataSectorOf(e, c)]
    BY <1>1, EntryPlace, MediaShrinks
  <2> QED BY <1>3, <2>1, <2>2, HeldKept
<1>5. CASE c \in Chunk(w)
  <2>1. /\ BlockOf(c) = Block(w) /\ OffsetOf(c) \in sector[host[w]].bits
        /\ CellAt(host[w], c) = op[w].value /\ op[w].value \in Held(c)'
    BY <1>5, ChunkSettles
  <2>2. /\ bat[Block(w)] = host[w] /\ table[Block(w)] = host[w]
        /\ host[w] # BAT_UNALLOCATED /\ host[w] \in Sectors
        /\ DataSectorOf(host[w], c) \in Sectors
    BY <1>2, LandedPlace DEF ValueInv
  <2>3. /\ bat' = bat /\ table' = table
        /\ tableMedia'[BlockOf(c)] = {table[BlockOf(c)]}
        /\ \A s \in Sectors : sectorMedia'[s] = {sector[s]}
    BY <1>1 DEF FlushChunk, Sync, file, reader
  <2>4. \A e \in Entries(BlockOf(c))' : e = host[w]
    BY <2>1, <2>2, <2>3 DEF Entries
  <2>5. \A e : e = host[w] => MayComeBack(c, e)'
    BY <2>1, <2>2, <2>3 DEF MayComeBack, CellAt
  <2> QED BY <2>1, <2>2, <2>3, <2>4, <2>5 DEF HeldCell
<1> QED BY <1>4, <1>5

LEMMA WriterHeld ==
  ASSUME TypeOK, LayoutInv, PayloadInv, ValueInv, EntriesApart, NEW w \in Writers,
         Call(w) \/ Proceed(w), NEW c \in Cells, HeldCell(c)
  PROVE  HeldCell(c)'
BY QuietHeld, EntryHeld, PayloadHeldCell, ChunkHeld DEF Proceed

(* Whatever a power loss takes from the media, a block that is named is there
   in full, and each of its sectors is one that may come back.             *)
LEMMA LostPower ==
  ASSUME TypeOK, LayoutInv, PowerLoss, NEW c \in Cells,
         NEW e \in Entries(BlockOf(c)), NEW s \in Extent(e)
  PROVE  sector'[s] \in sectorMedia[s] /\ sectorMedia'[s] = {sector'[s]}
<1>1. size' \in sizeMedia
  BY DEF PowerLoss
<1>2. BlockOf(c) \in Blocks
  BY BlockOfCell
<1>3. e \in Nat /\ Extent(e) \subseteq Sectors /\ size' \in Nat
  BY <1>1, <1>2, EntryExtent DEF TypeOK, FileType
<1>4. e + BlockTotal <= size'
  <2>1. \/ e + BlockTotal < size'
        \/ e + BlockTotal = size'
    BY <1>1, <1>2 DEF LayoutInv, EntryInv
  <2> QED BY <1>3, <2>1, SizesAreNat
<1>5. s \in Sectors /\ s \in Nat /\ ~ (size' <= s)
  BY <1>3, <1>4, SizesAreNat DEF Extent
<1>6. sector[s] \in sectorMedia[s]
  BY <1>5 DEF LayoutInv, MediaInv
<1>7. sectorMedia'[s] = {sector'[s]}
  BY <1>5 DEF PowerLoss
<1>8. PICK n \in sizeMedia, pick \in [Dirty -> UNION {sectorMedia[x] : x \in Dirty}] :
        /\ \A x \in Dirty : pick[x] \in sectorMedia[x]
        /\ size' = n
        /\ sector' = [x \in Sectors |-> IF n <= x THEN ZeroSector
                                        ELSE IF x \in Dirty THEN pick[x] ELSE sector[x]]
  BY DEF PowerLoss
<1>9. sector'[s] = IF s \in Dirty THEN pick[s] ELSE sector[s]
  BY <1>5, <1>8
<1> QED BY <1>6, <1>7, <1>8, <1>9

LEMMA PowerLossHeld ==
  ASSUME TypeOK, LayoutInv, PowerLoss, NEW c \in Cells, HeldCell(c)
  PROVE  HeldCell(c)' /\ View(sector', table', c) \in Held(c)
<1>1. Stop /\ BlockOf(c) \in Blocks
  BY BlockOfCell DEF PowerLoss
<1>2. Held(c)' = Held(c)
  BY <1>1, StopKeeps
<1>3. /\ Entries(BlockOf(c))' \subseteq Entries(BlockOf(c))
      /\ tableMedia'[BlockOf(c)] \subseteq tableMedia[BlockOf(c)]
  BY <1>1, EntriesOutside
<1>4. \A e \in Entries(BlockOf(c)) :
        /\ sector'[e] \in sectorMedia[e] /\ sectorMedia'[e] = {sector'[e]}
        /\ sector'[DataSectorOf(e, c)] \in sectorMedia[DataSectorOf(e, c)]
        /\ sectorMedia'[DataSectorOf(e, c)] = {sector'[DataSectorOf(e, c)]}
  BY EntryPlace, LostPower
<1>5. HeldCell(c)'
  BY <1>2, <1>3, <1>4, HeldKept
<1>6. table'[BlockOf(c)] \in tableMedia[BlockOf(c)]
  BY <1>1 DEF PowerLoss
<1> DEFINE e == table'[BlockOf(c)]
<1>7. CASE e = BAT_UNALLOCATED
  BY <1>5, <1>6, <1>7 DEF HeldCell, View
<1>8. CASE e # BAT_UNALLOCATED
  <2>1. e \in Entries(BlockOf(c))
    BY <1>6, <1>8 DEF Entries
  <2>2. /\ sector'[DataSectorOf(e, c)].cells[PartOf(c)] \in Held(c)
        /\ OffsetOf(c) \notin sector'[e].bits => Zero \in Held(c)
    BY <1>4, <2>1 DEF HeldCell, MayComeBack
  <2> QED BY <1>5, <1>8, <2>2 DEF View
<1> QED BY <1>7, <1>8

LEMMA StepHeld ==
  TypeOK /\ LayoutInv /\ PayloadInv /\ ValueInv /\ EntriesApart /\ HeldInv /\ [Next]_vars
    => HeldInv'
<1> SUFFICES ASSUME TypeOK, LayoutInv, PayloadInv, ValueInv, EntriesApart, HeldInv,
                    [Next]_vars, NEW c \in Cells
             PROVE  HeldCell(c)'
  BY DEF HeldInv, HeldCell
<1>1. HeldCell(c)
  BY DEF HeldInv, HeldCell
<1>2. ASSUME NEW w \in Writers, Call(w) \/ Proceed(w) PROVE HeldCell(c)'
  BY <1>1, <1>2, WriterHeld
<1>3. CASE PowerLoss
  BY <1>1, <1>3, PowerLossHeld
<1>4. CASE FlushWrites \/ Kill \/ Open
  <2>1. BlockOf(c) \in Blocks
    BY BlockOfCell
  <2>2. /\ Entries(BlockOf(c))' \subseteq Entries(BlockOf(c))
        /\ tableMedia'[BlockOf(c)] \subseteq tableMedia[BlockOf(c)]
    BY <1>4, <2>1, EntriesOutside
  <2>3. Held(c) \subseteq Held(c)'
    <3>1. CASE Kill
      BY <3>1, StopKeeps DEF Kill
    <3>2. CASE FlushWrites \/ Open
      BY <3>2 DEF FlushWrites, Open, writer, Held, Unsettled, Chunk, ChunkStop
    <3> QED BY <1>4, <3>1, <3>2
  <2>4. \A s \in Sectors : sectorMedia'[s] = sectorMedia[s] \/ sectorMedia'[s] = {sector[s]}
    BY <1>4 DEF FlushWrites, Kill, Open, Sync, media
  <2>5. \A e \in Entries(BlockOf(c)) :
        /\ sectorMedia'[e] \subseteq sectorMedia[e]
        /\ sectorMedia'[DataSectorOf(e, c)] \subseteq sectorMedia[DataSectorOf(e, c)]
    BY <2>4, EntryPlace
  <2> QED BY <1>1, <2>2, <2>3, <2>5, HeldKept
<1>5. CASE UNCHANGED vars
  <2>1. UNCHANGED <<table, bat, tableMedia, sectorMedia, pc, op, cursor, content>>
    BY <1>5 DEF vars, file, media, reader, writer
  <2>2. /\ Entries(BlockOf(c))' = Entries(BlockOf(c)) /\ Held(c)' = Held(c)
    BY <2>1 DEF Entries, Held, Unsettled, Chunk, ChunkStop
  <2> QED BY <1>1, <2>1, <2>2, HeldKept
<1> QED BY <1>2, <1>3, <1>4, <1>5 DEF Next

(* A clean image brings back what it shows. *)
LEMMA InitHeld == CleanImages /\ Init => HeldInv
<1> SUFFICES ASSUME CleanImages, Init, NEW c \in Cells PROVE HeldCell(c)
  BY DEF HeldInv, HeldCell
<1>1. PICK img \in InitialImages : sector = img.sector /\ table = img.table
  BY DEF Init
<1>2. /\ tableMedia[BlockOf(c)] = {table[BlockOf(c)]} /\ bat = table
      /\ BlockOf(c) \in Blocks
  BY BlockOfCell DEF Init
<1>3. Visible(table, c) \in Held(c)
  BY DEF Init, Held
<1>4. TypeOK /\ \A s \in Sectors : sectorMedia[s] = {sector[s]}
  BY InitType DEF Init
<1> DEFINE e == table[BlockOf(c)]
<1>5. e = BAT_UNALLOCATED => Zero \in Held(c)
  BY <1>3 DEF Visible
<1>6. ASSUME e # BAT_UNALLOCATED PROVE MayComeBack(c, e)
  <2>1. e \in Sectors /\ DataSectorOf(e, c) \in Sectors
    <3>1. OpenAccepts(table, size, TailFooter)
      BY DEF Init
    <3>2. /\ e \in Nat /\ size \in Nat /\ size <= Capacity /\ Capacity \in Nat
          /\ BlockOf(c) \in Allocated(table)
      BY <1>2, <1>4, <1>6, SparseAssumption DEF Allocated, TypeOK, FileType
    <3>3. e + BlockTotal <= size
      BY <3>1, <3>2, SizesAreNat DEF OpenAccepts, DataEnd
    <3>4. Extent(e) \subseteq Sectors
      BY <3>2, <3>3, SizesAreNat DEF Extent, Sectors
    <3> QED BY <3>2, <3>4, CellInExtent
  <2>2. sectorMedia[e] = {sector[e]}
        /\ sectorMedia[DataSectorOf(e, c)] = {sector[DataSectorOf(e, c)]}
    BY <1>4, <2>1
  <2>3. OffsetOf(c) \notin sector[e].bits =>
          /\ sector[DataSectorOf(e, c)].cells[PartOf(c)] = Zero
          /\ Visible(table, c) = Zero
    BY <1>1, <1>6 DEF CleanImages, Visible
  <2>4. OffsetOf(c) \in sector[e].bits =>
          sector[DataSectorOf(e, c)].cells[PartOf(c)] = Visible(table, c)
    BY <1>6 DEF Visible
  <2> QED BY <1>3, <2>2, <2>3, <2>4 DEF MayComeBack
<1>7. Entries(BlockOf(c)) \subseteq {k \in {e} : e # BAT_UNALLOCATED}
  BY <1>2 DEF Entries
<1> QED BY <1>2, <1>5, <1>6, <1>7 DEF HeldCell

(* All the write path keeps of a clean image, through power losses too. *)
DiskInv == ValueInv /\ EntriesApart /\ HeldInv

LEMMA StepDisk ==
  TypeOK /\ LayoutInv /\ PayloadInv /\ DiskInv /\ [Next]_vars => DiskInv'
<1> SUFFICES ASSUME TypeOK, LayoutInv, PayloadInv, DiskInv, [Next]_vars PROVE DiskInv'
  OBVIOUS
<1>1. EntriesApart' /\ HeldInv'
  BY StepApart, StepHeld DEF DiskInv
<1>2. CASE PowerLoss
  <2>1. Stop
    BY <1>2 DEF PowerLoss
  <2>2. \A c \in Cells : View(sector', table', c) \in Permitted(c)'
    BY <1>2, <2>1, PowerLossHeld, StopKeeps DEF DiskInv, HeldInv, HeldCell
  <2>3. ReadBack'
    BY <2>1, <2>2, StopKeeps, ReadsNext
  <2> QED BY <1>1, <2>1, <2>3, StopKeeps DEF DiskInv, ValueInv
<1>3. CASE [Next /\ ~ PowerLoss]_vars
  BY <1>1, <1>3, SteadyValues DEF DiskInv
<1> QED BY <1>2, <1>3

LEMMA DiskCorrect == SoundImages /\ CleanImages => (Spec => []DiskInv)
<1> SUFFICES ASSUME SoundImages, CleanImages PROVE Spec => []DiskInv
  OBVIOUS
<1>1. Init => DiskInv
  BY InitValues, InitApart, InitHeld DEF DiskInv
<1>2. TypeOK /\ LayoutInv /\ PayloadInv /\ DiskInv /\ [Next]_vars => DiskInv'
  BY StepDisk
<1> QED BY <1>1, <1>2, TypeCorrect, LayoutCorrect, PayloadCorrect, PTL DEF Spec

(* On a clean image a cell reads as the last acknowledged write left it, or as
   a write that failed, was cut off or is under way may have left it, whatever
   mixture of sectors, entries and lengths the power losses leave: the order
   of the writes and flushes of write_sparse and allocate_block_locked loses no
   acknowledged byte and shows none that nobody wrote.                     *)
THEOREM ReadsSurvive == SoundImages /\ CleanImages => (Spec => []ReadBack)
<1> SUFFICES ASSUME SoundImages, CleanImages PROVE Spec => []ReadBack
  OBVIOUS
<1>1. DiskInv => ReadBack
  BY DEF DiskInv, ValueInv
<1> QED BY <1>1, DiskCorrect, PTL

-----------------------------------------------------------------------------
(* The write path implements the virtual disk *)

(* What the refinement maps the disk and the write in progress to. *)
Shown == [c \in Cells |-> Visible(ViewedTable, c)]
Writing ==
  IF Landing = {} THEN None
  ELSE LET w == CHOOSE u \in Landing : TRUE
       IN [cells |-> Chunk(w), value |-> op[w].value]

(* The write in progress is the chunk of the one writer whose bytes may be on
   the device.                                                             *)
OneLanding ==
  /\ Landing = {} => Writing = None
  /\ \A w \in Landing :
       /\ Landing = {w} /\ Unsettled(w) = Chunk(w)
       /\ Writing = [cells |-> Chunk(w), value |-> op[w].value]
       /\ Writing # None
       /\ Chunk(w) \in SUBSET Cells /\ op[w].value \in Values

LEMMA LandingIs == TypeOK /\ LockInv => OneLanding
<1> SUFFICES ASSUME TypeOK, LockInv PROVE OneLanding
  OBVIOUS
<1>1. Landing = {} => Writing = None
  BY DEF Writing
<1>2. ASSUME NEW w \in Landing
      PROVE  /\ Landing = {w} /\ Unsettled(w) = Chunk(w)
             /\ Writing = [cells |-> Chunk(w), value |-> op[w].value]
             /\ Writing # None
             /\ Chunk(w) \in SUBSET Cells /\ op[w].value \in Values
  <2>1. /\ w \in Writers /\ pc[w] \in {"data"} \cup Flying
        /\ Unsettled(w) = Chunk(w)
    BY DEF Landing, Unsettled, Flying
  <2>2. \A u \in Landing : pc[u] \in Holding /\ lock = u
    BY DEF Landing, Unsettled, Holding, Steps, LockInv
  <2>3. Landing = {w}
    BY <2>2
  <2>4. (CHOOSE u \in Landing : TRUE) = w
    BY <2>3
  <2>5. Writing = [cells |-> Chunk(w), value |-> op[w].value]
    BY <2>3, <2>4 DEF Writing
  <2>6. Chunk(w) \in SUBSET Cells /\ op[w].value \in Values
    BY <2>1, ChunkCells, ChunkType DEF TypeOK
  <2>7. Writing # None
    BY <2>5, <2>6, IdleAssumption
  <2> QED BY <2>1, <2>3, <2>5, <2>6, <2>7
<1> QED BY <1>1, <1>2 DEF OneLanding

LEMMA LandingNext == TypeOK' /\ LockInv' => OneLanding'
BY LandingIs, PTL

LEMMA ShownIs ==
  /\ \A c \in Cells : Shown[c] = View(sector, ViewedTable, c)
  /\ \A c \in Cells : Shown'[c] = View(sector', ViewedTable', c)
  /\ (\A c \in Cells : Shown'[c] = Shown[c]) => Shown' = Shown
<1>1. \A c \in Cells : Shown[c] = View(sector, ViewedTable, c)
  BY Seen DEF Shown
<1>2. \A c \in Cells : Visible(ViewedTable, c)' = View(sector', ViewedTable', c)
  BY DEF Visible, View
<1>3. \A c \in Cells : Shown'[c] = View(sector', ViewedTable', c)
  BY <1>2 DEF Shown
<1>4. Shown' = [c \in Cells |-> Shown'[c]] /\ Shown = [c \in Cells |-> Shown[c]]
  BY DEF Shown
<1> QED BY <1>1, <1>3, <1>4

(* Disk!Next, of the names above. *)
Lands ==
  \A c \in Cells : \/ Shown'[c] = Shown[c]
                   \/ c \in Writing.cells /\ Shown'[c] = Writing.value
Unsure ==
  [c \in Cells |-> IF Writing # None /\ c \in Writing.cells
                   THEN content[c] \cup {Writing.value} ELSE content[c]]

LEMMA DiskSteps ==
  /\ (/\ Writing = None
      /\ \E D \in SUBSET Cells, v \in Values : Writing' = [cells |-> D, value |-> v]
      /\ Shown' = Shown /\ content' = content) => Disk!Next
  /\ (Writing # None /\ Lands /\ content' = content /\ Writing' = Writing) => Disk!Next
  /\ (/\ Writing # None
      /\ \A c \in Writing.cells : Shown[c] = Writing.value
      /\ content' = [c \in Cells |-> IF c \in Writing.cells THEN {Writing.value}
                                     ELSE content[c]]
      /\ Writing' = None /\ Shown' = Shown) => Disk!Next
  /\ (Writing # None /\ Lands /\ content' = Unsure /\ Writing' = None) => Disk!Next
  /\ (/\ content' = Unsure /\ \A c \in Cells : Shown'[c] \in content'[c]
      /\ Writing' = None) => Disk!Next
  /\ Shown' = Shown /\ content' = content /\ Writing' = Writing
       => UNCHANGED Disk!vars
BY DEF Disk!Next, Disk!Begin, Disk!Progress, Disk!Acknowledge, Disk!Abandon,
   Disk!Crash, Disk!Lands, Disk!Unsure, Disk!vars, Writing, Shown, Lands, Unsure

(* A cut-off process leaves unsure what the virtual disk does. *)
LEMMA UnsureIs ==
  ASSUME TypeOK, LockInv
  PROVE  Unsure = [c \in Cells |-> Held(c)]
<1>1. OneLanding
  BY LandingIs
<1>2. ASSUME NEW c \in Cells
      PROVE  Held(c) = IF Writing # None /\ c \in Writing.cells
                       THEN content[c] \cup {Writing.value} ELSE content[c]
  <2>1. CASE Landing = {}
    BY <1>1, <2>1 DEF OneLanding, Held, Landing
  <2>2. CASE Landing # {}
    <3>1. PICK w \in Landing :
            /\ Landing = {w} /\ Unsettled(w) = Chunk(w)
            /\ Writing = [cells |-> Chunk(w), value |-> op[w].value]
            /\ Writing # None
      BY <1>1, <2>2 DEF OneLanding
    <3>2. Writing.cells = Chunk(w) /\ Writing.value = op[w].value
      BY <3>1
    <3>3. \A u \in Writers : c \in Unsettled(u) => u = w
      BY <3>1 DEF Landing
    <3>4. Held(c) = content[c] \cup {v \in {op[w].value} : c \in Unsettled(w)}
      BY <3>1, <3>3 DEF Held, Landing
    <3>5. CASE c \in Chunk(w)
      BY <3>1, <3>2, <3>4, <3>5
    <3>6. CASE c \notin Chunk(w)
      BY <3>1, <3>2, <3>4, <3>6
    <3> QED BY <3>5, <3>6
  <2> QED BY <2>1, <2>2
<1> QED BY <1>2 DEF Unsure

(* An end of a call is one of its write in progress. *)
LEMMA FailUnsure ==
  ASSUME TypeOK, LockInv, NEW w \in Writers, pc[w] \in Holding, Fail(w)
  PROVE  /\ content' = Unsure /\ Landing' = {}
         /\ Landing = {} => content' = content
<1>1. \A u \in Writers : pc'[u] \in {"idle", "lock"}
  BY OthersWait DEF Fail, Goto, TypeOK, WriterType
<1>2. Landing' = {}
  BY <1>1 DEF Landing, Unsettled
<1>3. \A c \in Cells : Held(c) = IF c \in Unsettled(w) THEN content[c] \cup {op[w].value}
                                 ELSE content[c]
  <2> SUFFICES ASSUME NEW c \in Cells
               PROVE Held(c) = IF c \in Unsettled(w) THEN content[c] \cup {op[w].value}
                               ELSE content[c]
    OBVIOUS
  <2>1. Held(c) = content[c] \cup {v \in {op[w].value} : c \in Unsettled(w)}
    BY HolderPermits
  <2> QED BY <2>1
<1>4. content' = [c \in Cells |-> IF c \in Unsettled(w) THEN content[c] \cup {op[w].value}
                                  ELSE content[c]]
  BY DEF Fail
<1>5. content' = Unsure
  BY <1>3, <1>4, UnsureIs
<1>6. Landing = {} => content' = content
  <2> SUFFICES ASSUME Landing = {} PROVE content' = content
    OBVIOUS
  <2>1. Unsettled(w) = {}
    BY DEF Landing
  <2>2. content' = [c \in Cells |-> content[c]]
    BY <1>4, <2>1
  <2> QED BY <2>2 DEF TypeOK, HistoryType
<1> QED BY <1>2, <1>5, <1>6

(* What the guest sees, and whose bytes are landing, at a holder's step. *)
LEMMA HolderLanding ==
  ASSUME TypeOK, LockInv, NEW w \in Writers, NEW step, pc[w] \in Holding,
         Goto(w, step)
  PROVE  /\ Landing = {u \in {w} : pc[w] \in {"data"} \cup Flying}
         /\ UNCHANGED <<op, cursor>> \/ step \notin {"data"} \cup Flying =>
              Landing' = {u \in {w} : step \in {"data"} \cup Flying}
<1>1. \A u \in Writers : u # w => Unsettled(u) = {} /\ Unsettled(u)' = {}
  BY OthersWait DEF Unsettled
<1>2. Chunk(w) # {} /\ pc'[w] = step
  BY ChunkPlace, OthersWait
<1>3. UNCHANGED <<op, cursor>> => Chunk(w)' = Chunk(w)
  BY DEF Chunk, ChunkStop
<1> QED BY <1>1, <1>2, <1>3 DEF Landing, Unsettled, Flying

(* A step that leaves every view, every content and the chunk is a stutter. *)
LEMMA WriterStutters ==
  ASSUME TypeOK, LayoutInv, PayloadInv, ValueInv, TypeOK', LayoutInv',
         NEW w \in Writers,
         \/ Call(w) \/ TakeLock(w) \/ Allocate(w) \/ RefuseEntry(w) \/ GrowFails(w)
         \/ WriteFooter(w) \/ FooterFails(w) \/ FlushFooter(w)
         \/ ZeroBlock(w) \/ ZeroFails(w) \/ FlushZero(w)
         \/ WriteTable(w) \/ TableFails(w) \/ FlushTable(w) \/ ReadBitmap(w)
  PROVE  UNCHANGED Disk!vars
<1>1. LockInv /\ OneLanding /\ OneLanding'
  BY LandingIs, LandingNext DEF LayoutInv
<1>2. mode = "open" /\ mode' = mode
  BY QuietStep, FlushTableValues
  DEF Call, TakeLock, Allocate, RefuseEntry, GrowFails, WriteFooter, FooterFails,
      FlushFooter, ZeroBlock, ZeroFails, FlushZero, WriteTable, TableFails, FlushTable,
      ReadBitmap, At, reader
<1>3. ASSUME NEW c \in Cells PROVE View(sector', bat', c) = View(sector, bat, c)
  <2>1. CASE FlushTable(w)
    BY <2>1, FlushTableValues
  <2>2. CASE WriteTable(w) \/ TableFails(w)
    BY <2>2 DEF WriteTable, TableFails, PutEntry, reader
  <2>3. CASE ~ (FlushTable(w) \/ WriteTable(w) \/ TableFails(w))
    <3>1. /\ Call(w) \/ Proceed(w)
          /\ bat' = bat
          /\ pc[w] \notin Landed \/ sector' = sector
      BY <2>3, QuietStep
    <3> QED BY <3>1, ViewKept
  <2> QED BY <2>1, <2>2, <2>3
<1>4. Shown' = Shown
  BY <1>2, <1>3, ShownIs DEF ViewedTable
<1>5. content' = content /\ Writing' = Writing
  <2>1. CASE Call(w) \/ TakeLock(w)
    <3>1. content' = content
      BY <2>1 DEF Call, Continue, TakeLock, LookUp
    <3>2. /\ \A u \in Writers : u # w => /\ pc'[u] = pc[u] /\ op'[u] = op[u]
                                         /\ cursor'[u] = cursor[u]
          /\ pc[w] \in {"idle", "lock"} /\ pc'[w] \in {"lock", "allocate", "define"}
      BY <2>1 DEF Call, TakeLock, LookUp, At, Continue, Goto, TypeOK, WriterType
    <3>3. \A u \in Writers : Unsettled(u)' = Unsettled(u)
      BY <3>2 DEF Unsettled, Chunk, ChunkStop
    <3>4. Landing' = Landing
      BY <3>3 DEF Landing
    <3>5. CASE Landing = {}
      BY <1>1, <3>1, <3>4, <3>5 DEF OneLanding
    <3>6. CASE Landing # {}
      <4>1. PICK u \in Landing : TRUE
        BY <3>6
      <4>2. u \in Writers /\ u # w
        BY <3>2 DEF Landing, Unsettled
      <4>3. Chunk(u)' = Chunk(u) /\ op'[u] = op[u]
        BY <3>2, <4>2 DEF Chunk, ChunkStop
      <4>4. u \in Landing'
        BY <3>4
      <4>5. Writing = [cells |-> Chunk(u), value |-> op[u].value]
        BY <1>1 DEF OneLanding
      <4>6. Writing' = [cells |-> Chunk(u)', value |-> op'[u].value]
        BY <1>1, <4>4 DEF OneLanding
      <4> QED BY <3>1, <4>3, <4>5, <4>6
    <3> QED BY <3>5, <3>6
  <2>2. CASE ReadBitmap(w)
    <3>1. /\ Continue(w, "bitmap") /\ pc[w] = "readBitmap"
          /\ UNCHANGED <<op, cursor>>
      BY <2>2 DEF ReadBitmap, At
    <3>2. pc[w] \in Holding /\ Goto(w, "bitmap") /\ content' = content
      BY <3>1 DEF Holding, Steps, Continue
    <3>3. Landing = {w} /\ Landing' = {w}
      BY <1>1, <3>1, <3>2, HolderLanding DEF Flying
    <3>4. Chunk(w)' = Chunk(w)
      BY <3>1 DEF Chunk, ChunkStop
    <3>5. Writing = [cells |-> Chunk(w), value |-> op[w].value]
      BY <1>1, <3>3 DEF OneLanding
    <3>6. Writing' = [cells |-> Chunk(w)', value |-> op'[w].value]
      BY <1>1, <3>3 DEF OneLanding
    <3> QED BY <3>1, <3>2, <3>4, <3>5, <3>6
  <2>3. CASE ~ (Call(w) \/ TakeLock(w) \/ ReadBitmap(w))
    <3>1. PICK step \in Steps \ ({"data"} \cup Flying) : Goto(w, step)
      BY <2>3 DEF Allocate, RefuseEntry, GrowFails, WriteFooter, FooterFails,
         FlushFooter, ZeroBlock, ZeroFails, FlushZero, WriteTable, TableFails,
         FlushTable, Fail, Continue, Steps, Flying
    <3>2. pc[w] \in Holding \ ({"data"} \cup Flying)
      BY <2>3 DEF Allocate, RefuseEntry, GrowFails, WriteFooter, FooterFails,
         FlushFooter, ZeroBlock, ZeroFails, FlushZero, WriteTable, TableFails,
         FlushTable, At, Holding, Steps, Flying
    <3>3. Landing = {} /\ Landing' = {}
      BY <1>1, <3>1, <3>2, HolderLanding
    <3>4. Fail(w) \/ content' = content
      BY <2>3 DEF Allocate, RefuseEntry, GrowFails, WriteFooter, FooterFails,
         FlushFooter, ZeroBlock, ZeroFails, FlushZero, WriteTable, TableFails,
         FlushTable, Continue
    <3>5. content' = content
      BY <1>1, <3>2, <3>3, <3>4, FailUnsure
    <3> QED BY <1>1, <3>3, <3>5 DEF OneLanding
  <2> QED BY <2>1, <2>2, <2>3
<1> QED BY <1>4, <1>5, DiskSteps

(* The payload is the virtual disk's write: it begins with the fills, which
   show nothing, makes progress with each call that lands, and is abandoned
   by the one that fails.                                                  *)
LEMMA PayloadImplements ==
  ASSUME TypeOK, LayoutInv, PayloadInv, ValueInv, TypeOK', LayoutInv',
         NEW w \in Writers,
         \/ Define(w) \/ DefineFails(w) \/ WriteData(w) \/ DataFails(w)
         \/ WriteBitmap(w) \/ BitmapFails(w)
  PROVE  Disk!Next \/ UNCHANGED Disk!vars
<1>1. LockInv /\ OneLanding /\ OneLanding' /\ CachedIsWritten /\ Written(w)
  BY LandingIs, LandingNext DEF LayoutInv, ValueInv
<1>2. /\ mode = "open" /\ pc[w] \in Holding /\ UNCHANGED <<bat, mode>>
  BY <1>1, PayloadWrites, LandedPlace, PayloadValues
<1>3. \A c \in Cells : \/ Shown'[c] = Shown[c]
                       \/ c \in Unsettled(w) /\ Shown'[c] = op[w].value
  <2> SUFFICES ASSUME NEW c \in Cells
               PROVE  \/ Shown'[c] = Shown[c]
                      \/ c \in Unsettled(w) /\ Shown'[c] = op[w].value
    OBVIOUS
  <2>1. \/ View(sector', bat, c) = View(sector, bat, c)
        \/ c \in Unsettled(w) /\ View(sector', bat, c) = op[w].value
    BY <1>1, PayloadLands
  <2> QED BY <1>2, <2>1, ShownIs DEF ViewedTable
<1>4. CASE Define(w) \/ DefineFails(w)
  <2>1. pc[w] = "define"
    BY <1>4 DEF Define, DefineFails, At
  <2>2. Unsettled(w) = {}
    BY <2>1 DEF Unsettled
  <2>3. PICK step \in {"data", "idle"} : Goto(w, step)
    BY <1>4 DEF Define, DefineFails, Continue, Fail
  <2>4. Landing = {}
    BY <1>1, <1>2, <2>1, <2>3, HolderLanding DEF Flying
  <2>5. Shown' = Shown /\ Writing = None
    BY <1>1, <1>3, <2>2, <2>4, ShownIs DEF OneLanding
  <2>6. CASE Define(w)
    <3>1. Goto(w, "data") /\ content' = content /\ UNCHANGED <<op, cursor>>
      BY <2>6 DEF Define, Continue, writer
    <3>2. Landing' = {w}
      BY <1>1, <1>2, <3>1, HolderLanding
    <3>3. \E D \in SUBSET Cells, v \in Values : Writing' = [cells |-> D, value |-> v]
      <4>1. /\ Writing' = [cells |-> Chunk(w)', value |-> op'[w].value]
            /\ Chunk(w)' \in SUBSET Cells /\ op'[w].value \in Values
        BY <1>1, <3>2 DEF OneLanding
      <4> QED BY <4>1
    <3> QED BY <2>5, <3>1, <3>3, DiskSteps
  <2>7. CASE DefineFails(w)
    <3>1. Fail(w)
      BY <2>7 DEF DefineFails
    <3>2. content' = content /\ Landing' = {}
      BY <1>1, <1>2, <2>4, <3>1, FailUnsure
    <3>3. Writing' = Writing
      BY <1>1, <2>5, <3>2 DEF OneLanding
    <3> QED BY <2>5, <3>2, <3>3, DiskSteps
  <2> QED BY <1>4, <2>6, <2>7
<1>5. CASE WriteData(w) \/ DataFails(w) \/ WriteBitmap(w) \/ BitmapFails(w)
  <2>1. pc[w] \in {"data"} \cup Flying
    BY <1>5 DEF WriteData, DataFails, WriteBitmap, BitmapFails, At, Flying
  <2>2. PICK step \in {"readBitmap", "flush", "idle"} : Goto(w, step)
    BY <1>5 DEF WriteData, DataFails, WriteBitmap, BitmapFails, Continue, Fail
  <2>3. Landing = {w}
    BY <1>1, <1>2, <2>1, <2>2, HolderLanding
  <2>4. /\ Unsettled(w) = Chunk(w) /\ Writing # None
        /\ Writing = [cells |-> Chunk(w), value |-> op[w].value]
    BY <1>1, <2>3 DEF OneLanding
  <2>5. Writing.cells = Chunk(w) /\ Writing.value = op[w].value
    BY <2>4
  <2>6. Lands
    BY <1>3, <2>4, <2>5 DEF Lands
  <2>7. CASE WriteData(w) \/ WriteBitmap(w)
    <3>1. PICK at \in Flying :
            Goto(w, at) /\ content' = content /\ UNCHANGED <<op, cursor>>
      BY <2>7 DEF WriteData, WriteBitmap, Continue, writer, Flying
    <3>2. Landing' = {w} /\ Chunk(w)' = Chunk(w) /\ op'[w] = op[w]
      BY <1>1, <1>2, <3>1, HolderLanding DEF Chunk, ChunkStop
    <3>3. Writing' = [cells |-> Chunk(w)', value |-> op'[w].value]
      BY <1>1, <3>2 DEF OneLanding
    <3>4. Writing' = Writing
      BY <2>4, <3>2, <3>3
    <3> QED BY <2>4, <2>6, <3>1, <3>4, DiskSteps
  <2>8. CASE DataFails(w) \/ BitmapFails(w)
    <3>1. Fail(w)
      BY <2>8 DEF DataFails, BitmapFails
    <3>2. content' = Unsure /\ Writing' = None
      BY <1>1, <1>2, <3>1, FailUnsure DEF OneLanding
    <3> QED BY <2>4, <2>6, <3>2, DiskSteps
  <2> QED BY <1>5, <2>7, <2>8
<1> QED BY <1>4, <1>5

(* A call that only returns an error: the write it was part of is abandoned. *)
LEMMA CallFailsImplements ==
  ASSUME TypeOK, LayoutInv, PayloadInv, ValueInv, TypeOK', LayoutInv',
         NEW w \in Writers, CallFails(w)
  PROVE  Disk!Next \/ UNCHANGED Disk!vars
<1>1. LockInv /\ OneLanding /\ OneLanding'
  BY LandingIs, LandingNext DEF LayoutInv
<1>2. Fail(w) /\ pc[w] \in Holding /\ UNCHANGED <<sector, bat, table, mode>>
  BY DEF CallFails, At, Holding, Steps, file, reader
<1>3. Shown' = Shown
  BY <1>2, ShownIs DEF ViewedTable
<1>4. content' = Unsure /\ Writing' = None /\ (Landing = {} => content' = content)
  BY <1>1, <1>2, FailUnsure DEF OneLanding
<1>5. CASE Landing = {}
  BY <1>1, <1>3, <1>4, <1>5, DiskSteps DEF OneLanding
<1>6. CASE Landing # {}
  <2>1. Writing # None /\ Lands
    BY <1>1, <1>3, <1>6 DEF OneLanding, Lands
  <2> QED BY <1>4, <2>1, DiskSteps
<1> QED BY <1>5, <1>6

(* The flush that ends a chunk acknowledges it. *)
LEMMA ChunkImplements ==
  ASSUME TypeOK, LayoutInv, PayloadInv, ValueInv, TypeOK', LayoutInv',
         NEW w \in Writers, FlushChunk(w)
  PROVE  Disk!Next
<1>1. LockInv /\ OneLanding /\ OneLanding'
  BY LandingIs, LandingNext DEF LayoutInv
<1>2. /\ pc[w] = "flush" /\ pc[w] \in Holding /\ mode = "open"
      /\ UNCHANGED <<sector, bat, mode>>
  BY DEF FlushChunk, At, Holding, Steps, Sync, file, reader
<1>3. PICK step \in {"idle", "lock"} : Goto(w, step)
  BY DEF FlushChunk, EndChunk
<1>4. Landing = {w} /\ Landing' = {}
  BY <1>1, <1>2, <1>3, HolderLanding DEF Flying
<1>5. /\ Writing # None /\ Writing' = None
      /\ Writing = [cells |-> Chunk(w), value |-> op[w].value]
      /\ Chunk(w) \in SUBSET Cells
  BY <1>1, <1>4 DEF OneLanding
<1>6. Writing.cells = Chunk(w) /\ Writing.value = op[w].value
  BY <1>5
<1>7. Shown' = Shown /\ \A c \in Cells : Shown[c] = View(sector, bat, c)
  BY <1>2, ShownIs DEF ViewedTable
<1>8. \A c \in Writing.cells : Shown[c] = Writing.value
  BY <1>5, <1>6, <1>7, ChunkSettles
<1>9. content' = [c \in Cells |-> IF c \in Writing.cells THEN {Writing.value}
                                  ELSE content[c]]
  BY <1>6 DEF FlushChunk, EndChunk
<1> QED BY <1>5, <1>7, <1>8, <1>9, DiskSteps

(* A kill and a power loss are the virtual disk's crash. *)
LEMMA StopImplements ==
  ASSUME TypeOK, LayoutInv, PayloadInv, DiskInv, LayoutInv', TypeOK',
         Kill \/ PowerLoss
  PROVE  Disk!Next
<1>1. LockInv /\ OneLanding' /\ Stop
  BY LandingNext DEF LayoutInv, Kill, PowerLoss
<1>2. Landing' = {} /\ mode' = "down"
  BY <1>1, StopKeeps DEF Landing
<1>3. content' = [c \in Cells |-> Held(c)] /\ Writing' = None
  BY <1>1, <1>2 DEF Stop, Held, OneLanding
<1>4. ASSUME NEW c \in Cells PROVE View(sector', table', c) \in Held(c)
  <2>1. CASE Kill
    <3>1. UNCHANGED <<sector, table>> /\ View(sector, table, c) \in Permitted(c)
      BY <2>1, ReadsNow DEF Kill, file, DiskInv, ValueInv
    <3> QED BY <1>1, <3>1, StopKeeps
  <2>2. CASE PowerLoss
    BY <2>2, PowerLossHeld DEF DiskInv, HeldInv, HeldCell
  <2> QED BY <2>1, <2>2
<1>5. \A c \in Cells : Shown'[c] \in content'[c]
  BY <1>2, <1>3, <1>4, ShownIs DEF ViewedTable
<1> QED BY <1>1, <1>3, <1>5, UnsureIs, DiskSteps

LEMMA StepImplements ==
  TypeOK /\ LayoutInv /\ PayloadInv /\ DiskInv /\ TypeOK' /\ LayoutInv' /\ [Next]_vars
    => [Disk!Next]_Disk!vars
<1> SUFFICES ASSUME TypeOK, LayoutInv, PayloadInv, DiskInv, TypeOK', LayoutInv',
                    [Next]_vars
             PROVE  Disk!Next \/ UNCHANGED Disk!vars
  OBVIOUS
<1>1. ValueInv /\ OneLanding /\ OneLanding'
  BY LandingIs, LandingNext DEF DiskInv, LayoutInv
<1>2. ASSUME NEW w \in Writers, Call(w) \/ Proceed(w)
      PROVE  Disk!Next \/ UNCHANGED Disk!vars
  <2>1. CASE \/ Call(w) \/ TakeLock(w) \/ Allocate(w) \/ RefuseEntry(w)
             \/ GrowFails(w) \/ WriteFooter(w) \/ FooterFails(w) \/ FlushFooter(w)
             \/ ZeroBlock(w) \/ ZeroFails(w) \/ FlushZero(w)
             \/ WriteTable(w) \/ TableFails(w) \/ FlushTable(w) \/ ReadBitmap(w)
    BY <1>1, <2>1, WriterStutters
  <2>2. CASE \/ Define(w) \/ DefineFails(w) \/ WriteData(w) \/ DataFails(w)
             \/ WriteBitmap(w) \/ BitmapFails(w)
    BY <1>1, <2>2, PayloadImplements
  <2>3. CASE CallFails(w)
    BY <1>1, <2>3, CallFailsImplements
  <2>4. CASE FlushChunk(w)
    BY <1>1, <2>4, ChunkImplements
  <2> QED BY <1>2, <2>1, <2>2, <2>3, <2>4 DEF Proceed
<1>3. CASE Kill \/ PowerLoss
  BY <1>3, StopImplements
<1>4. CASE FlushWrites \/ Open \/ UNCHANGED vars
  <2>1. UNCHANGED <<sector, table, pc, writer, content>>
    BY <1>4 DEF FlushWrites, Open, Sync, file, vars
  <2>2. ViewedTable' = ViewedTable
    BY <1>4 DEF FlushWrites, Open, ViewedTable, vars, file, reader
  <2>3. Shown' = Shown
    BY <2>1, <2>2, ShownIs
  <2>4. \A u \in Writers : Unsettled(u)' = Unsettled(u)
    BY <2>1 DEF Unsettled, Chunk, ChunkStop, writer
  <2>5. Landing' = Landing
    BY <2>4 DEF Landing
  <2>6. Writing' = Writing
    <3>1. CASE Landing = {}
      BY <1>1, <2>5, <3>1 DEF OneLanding
    <3>2. CASE Landing # {}
      <4>1. PICK u \in Landing : u \in Landing'
        BY <2>5, <3>2
      <4>2. Chunk(u)' = Chunk(u) /\ op'[u] = op[u]
        BY <2>1 DEF Chunk, ChunkStop, writer
      <4>3. Writing = [cells |-> Chunk(u), value |-> op[u].value]
        BY <1>1 DEF OneLanding
      <4>4. Writing' = [cells |-> Chunk(u)', value |-> op'[u].value]
        BY <1>1, <4>1 DEF OneLanding
      <4> QED BY <4>2, <4>3, <4>4
    <3> QED BY <3>1, <3>2
  <2> QED BY <2>1, <2>3, <2>6, DiskSteps
<1> QED BY <1>2, <1>3, <1>4 DEF Next

LEMMA InitImplements == Init => Disk!Init
<1> SUFFICES ASSUME Init PROVE Disk!Init
  OBVIOUS
<1>1. TypeOK
  BY InitType
<1>2. ViewedTable = table /\ Landing = {}
  BY DEF Init, ViewedTable, Landing, Unsettled
<1>3. \A c \in Cells : Visible(table, c) \in Values
  BY <1>1, VisibleValues DEF Init, TypeOK, FileType
<1> QED BY <1>2, <1>3 DEF Init, Disk!Init

(* On a clean image the write path is a virtual disk: whatever the threads, the
   allocation, the failed calls and the crashes do, each step of it is one of
   the disk's, or changes nothing a guest could tell.                      *)
THEOREM ImplementsDisk == SoundImages /\ CleanImages => (Spec => IsVirtualDisk)
<1> SUFFICES ASSUME SoundImages, CleanImages PROVE Spec => IsVirtualDisk
  OBVIOUS
<1>1. Init => Disk!Init
  BY InitImplements
<1>2. TypeOK /\ LayoutInv /\ PayloadInv /\ DiskInv /\ TypeOK' /\ LayoutInv'
        /\ [Next]_vars => [Disk!Next]_Disk!vars
  BY StepImplements
<1> QED BY <1>1, <1>2, TypeCorrect, LayoutCorrect, PayloadCorrect, DiskCorrect, PTL
        DEF Spec, IsVirtualDisk, Disk!Spec

=============================================================================
