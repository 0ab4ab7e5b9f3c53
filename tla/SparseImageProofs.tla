-------------------------- MODULE SparseImageProofs --------------------------
(***************************************************************************)
(* Proofs about SparseImage for any number of threads, blocks, sectors,    *)
(* calls, faults and crashes: its types, and that the layout of the file   *)
(* survives everything the model can do to it: TailIsFree, BlocksDisjoint  *)
(* and AlwaysOpens follow.  PayloadInv then says which of the ranges the   *)
(* layout gives out a writer past the allocation is at; a published block  *)
(* is left to the holder of the lock (OnlyOwnChunk).                       *)
(***************************************************************************)
EXTENDS SparseImage, WellFoundedInduction, TLAPS

-----------------------------------------------------------------------------
(* Arithmetic of the layout *)

(* A bounded nonempty set of natural numbers has a greatest element. *)
LEMMA MaxExists ==
  ASSUME NEW S \in SUBSET Nat, NEW n \in Nat, \A x \in S : x <= n, S # {}
  PROVE  \E x \in S : \A y \in S : y <= x
<1> DEFINE T == {n - x : x \in S}
<1>1. T \in SUBSET Nat /\ T # {}
  <2>1. \A x \in S : n - x \in Nat
    OBVIOUS
  <2>2. PICK x \in S : TRUE
    OBVIOUS
  <2>3. n - x \in T
    BY <2>2
  <2> QED BY <2>1, <2>3
<1>2. PICK t \in T : \A y \in T : ~ (<<y, t>> \in OpToRel(<, Nat))
  BY <1>1, WFMin, NatLessThanWellFounded
<1>3. PICK x \in S : t = n - x
  OBVIOUS
<1>4. ASSUME NEW y \in S PROVE y <= x
  <2>1. n - y \in T /\ n - y \in Nat /\ n - x \in Nat
    OBVIOUS
  <2>2. ~ (<<n - y, n - x>> \in OpToRel(<, Nat))
    BY <2>1, <1>2, <1>3
  <2>3. ~ (n - y < n - x)
    BY <2>1, <2>2 DEF OpToRel
  <2> QED BY <2>3
<1> QED BY <1>4

(* The sizes the layout is computed from are natural numbers. *)
LEMMA SizesAreNat ==
  /\ BitmapSectors \in Nat /\ BlockTotal \in Nat \ {0}
  /\ DataStart \in Nat \ {0} /\ TableEnd \in Nat /\ TableEnd <= DataStart
  /\ BlockCells \in Nat \ {0} /\ VirtualCells \in Nat \ {0}
<1> USE LayoutAssumption
<1>1. \A m \in Nat, n \in Nat \ {0} : CeilDiv(m, n) \in Nat
  BY SMTT(30) DEF CeilDiv
<1>2. BitmapSectors \in Nat
  BY <1>1 DEF BitmapSectors
<1>3. BlockTotal \in Nat \ {0}
  BY <1>2 DEF BlockTotal
<1>4. TableEnd \in Nat
  BY <1>1 DEF TableEnd
<1>5. DataStart \in Nat \ {0} /\ TableEnd <= DataStart
  BY <1>4 DEF DataStart, Larger
<1>6. BlockCells \in Nat \ {0}
  BY SMTT(30) DEF BlockCells
<1>7. VirtualCells \in Nat \ {0}
  BY <1>6, SMTT(30) DEF VirtualCells
<1> QED BY <1>2, <1>3, <1>4, <1>5, <1>6, <1>7

(* A cell lies in a block of the table. *)
LEMMA BlockOfCell == \A c \in Cells : BlockOf(c) \in Blocks
<1> SUFFICES ASSUME NEW c \in Cells PROVE BlockOf(c) \in Blocks
  OBVIOUS
<1>1. /\ c \in Nat /\ c < BlockCount * BlockCells
      /\ BlockCells \in Nat \ {0} /\ BlockCount \in Nat
  BY SizesAreNat, LayoutAssumption, SMTT(30) DEF Cells, VirtualCells
<1>2. \A k \in Nat, n \in Nat \ {0} : c < k * n => c \div n \in 0 .. k - 1
  BY <1>1, SMTT(30)
<1> HIDE DEF BlockCells
<1> QED BY <1>1, <1>2 DEF BlockOf, Blocks

(* The end of a chunk: past its start, inside the call. *)
LEMMA ChunkEndBounds ==
  ASSUME NEW c \in Cells, NEW to \in 1 .. VirtualCells, c < to
  PROVE  /\ ChunkEnd(c, to) \in 1 .. VirtualCells
         /\ c < ChunkEnd(c, to) /\ ChunkEnd(c, to) <= to
<1>1. /\ c \in Nat /\ BlockCells \in Nat \ {0} /\ VirtualCells \in Nat
  BY SizesAreNat DEF Cells
<1>2. \A n \in Nat \ {0} : /\ c < (c \div n + 1) * n
                           /\ (c \div n + 1) * n \in Nat
  BY <1>1, SMTT(30)
<1>3. c < (BlockOf(c) + 1) * BlockCells /\ (BlockOf(c) + 1) * BlockCells \in Nat
  BY <1>1, <1>2 DEF BlockOf
<1> DEFINE e == (BlockOf(c) + 1) * BlockCells
<1>4. c < e /\ e \in Nat
  BY <1>3
<1> HIDE DEF e
<1>5. ChunkEnd(c, to) = Smaller(e, to)
  BY DEF e, ChunkEnd
<1> QED BY <1>1, <1>4, <1>5 DEF Smaller

(* The last block of a table is where the others end no later. *)
LEMMA LastBlockIsLast ==
  ASSUME NEW t \in [Blocks -> Nat], NEW n \in Nat,
         \A b \in Allocated(t) : t[b] <= n
  PROVE  /\ LastBlockEnd(t) \in Nat
         /\ \A b \in Allocated(t) : t[b] + BlockTotal <= LastBlockEnd(t)
<1>1. CASE Allocated(t) = {}
  BY <1>1 DEF LastBlockEnd
<1>2. CASE Allocated(t) # {}
  <2> DEFINE S == {t[b] : b \in Allocated(t)}
  <2>1. S \in SUBSET Nat /\ S # {} /\ \A x \in S : x <= n
    BY <1>2 DEF Allocated
  <2> HIDE DEF S
  <2>2. PICK x \in S : \A y \in S : y <= x
    BY <2>1, MaxExists
  <2>3. PICK b \in Allocated(t) : t[b] = x
    BY <2>2 DEF S
  <2>4. \A d \in Allocated(t) : t[d] <= t[b]
    BY <2>2, <2>3 DEF S
  <2> DEFINE last == CHOOSE k \in Allocated(t) :
                       \A d \in Allocated(t) : t[d] <= t[k]
  <2>5. last \in Allocated(t) /\ \A d \in Allocated(t) : t[d] <= t[last]
    BY <2>3, <2>4
  <2>6. LastBlockEnd(t) = t[last] + BlockTotal
    BY <1>2 DEF LastBlockEnd, LastEntry
  <2> HIDE DEF last
  <2>7. t[last] \in Nat /\ \A d \in Allocated(t) : t[d] \in Nat
    BY <2>5 DEF Allocated
  <2> QED BY <2>5, <2>6, <2>7, SizesAreNat
<1> QED BY <1>1, <1>2

(* The tail open_inner computes for a table it accepts. *)
LEMMA OpenTailBounds ==
  ASSUME NEW t \in [Blocks -> Nat], NEW n \in 1 .. Capacity, NEW f \in Footers,
         OpenAccepts(t, n, f)
  PROVE  /\ OpenTail(t, n, f) \in Nat
         /\ n - 1 <= OpenTail(t, n, f)
         /\ f # "whole" => \A b \in Allocated(t) :
                             t[b] + BlockTotal <= OpenTail(t, n, f)
<1>1. n \in Nat /\ 1 <= n
  BY SparseAssumption
<1>2. \A b \in Allocated(t) : t[b] \in Nat /\ t[b] <= n
  <2> TAKE b \in Allocated(t)
  <2>1. t[b] + BlockTotal <= DataEnd(n, f)
    BY DEF OpenAccepts
  <2>2. t[b] \in Nat
    BY DEF Allocated
  <2> QED BY <1>1, <2>1, <2>2, SizesAreNat DEF DataEnd
<1>3. /\ LastBlockEnd(t) \in Nat
      /\ \A b \in Allocated(t) : t[b] + BlockTotal <= LastBlockEnd(t)
  BY <1>1, <1>2, LastBlockIsLast
<1> QED BY <1>1, <1>2, <1>3, SizesAreNat DEF OpenTail, Larger

-----------------------------------------------------------------------------
(* Types *)

(* The values a writer's locals go back to, and what an address is. *)
LEMMA Defaults ==
  /\ NoCall \in [to : 1 .. VirtualCells, value : Values]
  /\ 0 \in Cells /\ 0 < NoCall.to
  /\ 0 \in Sectors /\ Sectors \subseteq Nat
BY SizesAreNat, SparseAssumption DEF NoCall, Values, Cells, Sectors

LEMMA SectorKinds ==
  /\ ZeroSector \in SectorContents /\ FooterSector \in SectorContents
  /\ \A S \in SUBSET Offsets : BitmapSector(S) \in SectorContents
  /\ \A d \in [Parts -> Values] : DataSector(d) \in SectorContents
  /\ \A x \in SectorContents : FooterLandings(x) \subseteq SectorContents
BY DEF SectorContents, ZeroSector, FooterSector, BitmapSector, DataSector,
       FooterLandings, Footers, Filled, Values

LEMMA FileContents ==
  ASSUME FileType
  PROVE  /\ \A h, n : Zeroed(h, n) \in [Sectors -> SectorContents]
         /\ \A h, D : \A v \in Values :
              Filling(h, D, v) \in [Sectors -> SectorContents]
         /\ \A h : \A S \in SUBSET Offsets :
              Bitmapped(h, S) \in [Sectors -> SectorContents]
         /\ \A h : \A x \in SectorContents :
              [sector EXCEPT ![h] = x] \in [Sectors -> SectorContents]
<1>1. \A h, n : Zeroed(h, n) \in [Sectors -> SectorContents]
  BY SectorKinds DEF FileType, Zeroed
<1>2. ASSUME NEW h, NEW D, NEW v \in Values
      PROVE  Filling(h, D, v) \in [Sectors -> SectorContents]
  <2>1. ASSUME NEW s \in Sectors
        PROVE  DataSector([p \in Parts |->
                 IF \E c \in D : DataSectorOf(h, c) = s /\ PartOf(c) = p
                 THEN v ELSE sector[s].cells[p]]) \in SectorContents
    <3>1. sector[s].cells \in [Parts -> Values]
      BY DEF FileType, SectorContents
    <3> QED BY <3>1, SectorKinds
  <2> QED BY <2>1 DEF FileType, Filling
<1>3. \A h : \A S \in SUBSET Offsets :
        Bitmapped(h, S) \in [Sectors -> SectorContents]
  BY SectorKinds DEF FileType, Bitmapped
<1>4. \A h : \A x \in SectorContents :
        [sector EXCEPT ![h] = x] \in [Sectors -> SectorContents]
  BY DEF FileType
<1> QED BY <1>1, <1>2, <1>3, <1>4

LEMMA PutType ==
  ASSUME FileType, NEW new \in [Sectors -> SectorContents], Put(new)
  PROVE  FileType'
BY DEF FileType, Put

LEMMA PutEntryType ==
  ASSUME FileType, NEW b, NEW e \in Nat, PutEntry(b, e)
  PROVE  FileType'
BY DEF FileType, PutEntry

LEMMA GrowType ==
  ASSUME FileType, NEW n \in 1 .. Capacity, Grow(n)
  PROVE  FileType'
BY DEF FileType, Grow

LEMMA SyncType == ASSUME FileType, Sync PROVE FileType'
BY DEF FileType, Sync, file

LEMMA ForgetType ==
  ASSUME WriterType, NEW w \in Writers, Forget(w)
  PROVE  /\ op' \in [Writers -> [to : 1 .. VirtualCells, value : Values]]
         /\ cursor' \in [Writers -> Cells]
         /\ \A u \in Writers : cursor'[u] < op'[u].to
         /\ host' \in [Writers -> Sectors]
         /\ bits' \in [Writers -> SUBSET Offsets]
<1>2. /\ op' \in [Writers -> [to : 1 .. VirtualCells, value : Values]]
      /\ cursor' \in [Writers -> Cells]
      /\ host' \in [Writers -> Sectors]
      /\ bits' \in [Writers -> SUBSET Offsets]
  BY Defaults DEF WriterType, Forget
<1>3. ASSUME NEW u \in Writers PROVE cursor'[u] < op'[u].to
  BY Defaults DEF WriterType, Forget, NoCall
<1> QED BY <1>2, <1>3

LEMMA FailType ==
  ASSUME WriterType, HistoryType, NEW w \in Writers, Fail(w)
  PROVE  /\ WriterType'
         /\ content' \in [Cells -> SUBSET Values]
<1>1. /\ op' \in [Writers -> [to : 1 .. VirtualCells, value : Values]]
      /\ cursor' \in [Writers -> Cells]
      /\ \A u \in Writers : cursor'[u] < op'[u].to
      /\ host' \in [Writers -> Sectors]
      /\ bits' \in [Writers -> SUBSET Offsets]
  BY ForgetType DEF Fail
<1>2. lock' \in Writers \cup {None} /\ pc' \in [Writers -> Steps]
  BY DEF WriterType, Fail, Goto, Steps
<1>3. content' \in [Cells -> SUBSET Values]
  BY DEF WriterType, HistoryType, Fail
<1> QED BY <1>1, <1>2, <1>3 DEF WriterType

LEMMA FaultType ==
  ASSUME HistoryType, Fault PROVE faults' \in Nat
BY DEF HistoryType, Fault

LEMMA ContinueType ==
  ASSUME WriterType, NEW w \in Writers, NEW step \in Steps, Goto(w, step)
  PROVE  pc' \in [Writers -> Steps]
BY DEF WriterType, Goto

LEMMA ContinueKeeps ==
  ASSUME WriterType, NEW w \in Writers, NEW step \in Steps, Continue(w, step),
         UNCHANGED writer
  PROVE  WriterType'
BY ContinueType DEF WriterType, Continue, writer

(* Where a guest cell lies inside its block. *)
LEMMA PlaceOfCell ==
  \A c \in Cells : OffsetOf(c) \in Offsets /\ PartOf(c) \in Parts
<1> SUFFICES ASSUME NEW c \in Cells
             PROVE  OffsetOf(c) \in Offsets /\ PartOf(c) \in Parts
  OBVIOUS
<1>1. /\ c \in Nat /\ BlockCells \in Nat \ {0} /\ CellsPerSector \in Nat \ {0}
      /\ SectorsPerBlock \in Nat \ {0}
      /\ BlockCells = SectorsPerBlock * CellsPerSector
  BY SizesAreNat, LayoutAssumption DEF Cells, BlockCells
<1>2. \A n \in Nat \ {0} : c % n \in 0 .. n - 1
  BY <1>1, SMTT(30)
<1>3. c % BlockCells \in Nat /\ c % BlockCells < SectorsPerBlock * CellsPerSector
  BY <1>1, <1>2
<1>4. \A x \in Nat, k \in Nat, n \in Nat \ {0} : x < k * n => x \div n \in 0 .. k - 1
  BY SMTT(30)
<1>5. OffsetOf(c) \in Offsets
  BY <1>1, <1>3, <1>4 DEF OffsetOf, Offsets
<1> QED BY <1>1, <1>2, <1>5 DEF PartOf, Parts

(* An accepted table names sectors of the device. *)
LEMMA AcceptedEntries ==
  ASSUME NEW t \in [Blocks -> Nat], NEW n \in 1 .. Capacity, NEW f,
         OpenAccepts(t, n, f)
  PROVE  t \in [Blocks -> Sectors \cup {BAT_UNALLOCATED}]
<1> SUFFICES ASSUME NEW b \in Allocated(t) PROVE t[b] \in Sectors
  BY DEF Allocated
<1>1. t[b] + BlockTotal <= n /\ t[b] \in Nat
  BY SizesAreNat, SparseAssumption DEF OpenAccepts, DataEnd, Allocated
<1> QED BY <1>1, SizesAreNat, SparseAssumption DEF Sectors

(* An accepted table reads as values: every entry leads to a sector of the
   file.                                                                   *)
LEMMA VisibleValues ==
  ASSUME sector \in [Sectors -> SectorContents], NEW t \in [Blocks -> Nat],
         NEW n \in 1 .. Capacity, NEW f, OpenAccepts(t, n, f), NEW c \in Cells
  PROVE  Visible(t, c) \in Values
<1>1. CASE t[BlockOf(c)] = BAT_UNALLOCATED
  BY <1>1 DEF Visible, Values
<1>2. CASE t[BlockOf(c)] # BAT_UNALLOCATED
  <2>1. BlockOf(c) \in Allocated(t) /\ t[BlockOf(c)] \in Nat
    BY <1>2, BlockOfCell DEF Allocated
  <2>2. t[BlockOf(c)] + BlockTotal <= n /\ n <= Capacity /\ n \in Nat
    BY <2>1, SizesAreNat, SparseAssumption DEF OpenAccepts, DataEnd
  <2>3. DataSectorOf(t[BlockOf(c)], c) \in Sectors
    BY <2>1, <2>2, PlaceOfCell, SizesAreNat, LayoutAssumption, SparseAssumption
    DEF DataSectorOf, Sectors, BlockTotal, Offsets
  <2>4. sector[DataSectorOf(t[BlockOf(c)], c)].cells \in [Parts -> Values]
    BY <2>3 DEF SectorContents
  <2> QED BY <2>4, PlaceOfCell DEF Visible, Values
<1> QED BY <1>1, <1>2

LEMMA InitType == Init => TypeOK
<1> SUFFICES ASSUME Init PROVE TypeOK
  OBVIOUS
<1>1. /\ sector \in [Sectors -> SectorContents]
      /\ table \in [Blocks -> Nat]
      /\ size \in 1 .. Capacity
  <2>1. PICK img \in InitialImages :
          sector = img.sector /\ table = img.table /\ size = img.size
    BY DEF Init
  <2>2. img \in Images
    BY SparseAssumption
  <2> QED BY <2>1, <2>2 DEF Images
<1>2. FileType
  BY <1>1 DEF Init, FileType
<1>3. TailFooter \in Footers
  BY <1>1, SparseAssumption DEF TailFooter, Sectors, SectorContents
<1>4. ReaderType
  BY <1>1, <1>3, OpenTailBounds, AcceptedEntries DEF Init, ReaderType
<1>6. WriterType
  BY Defaults DEF Init, WriterType, Steps
<1>7. content \in [Cells -> SUBSET Values]
  BY <1>1, VisibleValues DEF Init
<1>8. HistoryType
  BY <1>7 DEF Init, HistoryType
<1> QED BY <1>2, <1>4, <1>6, <1>8 DEF TypeOK

(* The place and the locals of a writer at a chunk. *)
LEMMA ChunkType ==
  ASSUME WriterType, NEW w \in Writers
  PROVE  /\ cursor[w] \in Cells /\ Block(w) \in Blocks
         /\ op[w] \in [to : 1 .. VirtualCells, value : Values]
         /\ ChunkStop(w) \in 1 .. VirtualCells
         /\ cursor[w] < ChunkStop(w) /\ ChunkStop(w) <= op[w].to
         /\ ChunkOffsets(w) \subseteq Offsets
<1>1. /\ cursor[w] \in Cells /\ op[w] \in [to : 1 .. VirtualCells, value : Values]
      /\ cursor[w] < op[w].to
  BY DEF WriterType
<1>2. /\ ChunkStop(w) \in 1 .. VirtualCells
      /\ cursor[w] < ChunkStop(w) /\ ChunkStop(w) <= op[w].to
  BY <1>1, ChunkEndBounds DEF ChunkStop
<1>3. ChunkStop(w) - 1 \in Cells
  BY <1>1, <1>2, SizesAreNat DEF Cells
<1>4. ChunkOffsets(w) \subseteq Offsets
  BY <1>1, <1>3, PlaceOfCell, LayoutAssumption DEF ChunkOffsets, Offsets
<1> QED BY <1>1, <1>2, <1>4, BlockOfCell DEF Block

(* What a call that fails, and one that goes on, leave of the types. *)
LEMMA FailStep ==
  ASSUME TypeOK, NEW w \in Writers, Fail(w), UNCHANGED reader, Quiet,
         faults' = faults \/ Fault, FileType'
  PROVE  TypeOK'
BY FailType, FaultType
DEF TypeOK, ReaderType, HistoryType, Quiet, reader

LEMMA ContinueStep ==
  ASSUME TypeOK, NEW w \in Writers, NEW step \in Steps, Continue(w, step),
         UNCHANGED writer, Quiet, FileType', ReaderType'
  PROVE  TypeOK'
BY ContinueKeeps DEF TypeOK, HistoryType, Continue, Quiet

LEMMA SameFile ==
  ASSUME FileType, UNCHANGED <<file, media>> PROVE FileType'
BY DEF FileType, file, media

LEMMA SameReader ==
  ASSUME ReaderType, UNCHANGED reader PROVE ReaderType'
BY DEF ReaderType, reader

LEMMA CallTypes ==
  ASSUME TypeOK, NEW w \in Writers, Call(w) PROVE TypeOK'
<1>1. PICK r \in Requests, v \in Payloads :
        /\ op' = [op EXCEPT ![w] = [to |-> r[2], value |-> v]]
        /\ cursor' = [cursor EXCEPT ![w] = r[1]]
  BY DEF Call
<1>2. r[1] \in Cells /\ r[2] \in 1 .. VirtualCells /\ r[1] < r[2]
  BY SparseAssumption
<1>3. FileType' /\ ReaderType'
  BY SameFile, SameReader DEF TypeOK, Call
<1>4. /\ op' \in [Writers -> [to : 1 .. VirtualCells, value : Values]]
      /\ cursor' \in [Writers -> Cells]
  BY <1>1, <1>2 DEF TypeOK, WriterType, Values
<1>5. \A u \in Writers : cursor'[u] < op'[u].to
  BY <1>1, <1>2 DEF TypeOK, WriterType
<1>6. pc' \in [Writers -> Steps]
  BY ContinueType DEF TypeOK, Call, Continue, Steps
<1>7. WriterType'
  BY <1>4, <1>5, <1>6 DEF TypeOK, WriterType, Call, Continue
<1> QED BY <1>3, <1>7 DEF TypeOK, HistoryType, Call, Continue

LEMMA TakeLockTypes ==
  ASSUME TypeOK, NEW w \in Writers, TakeLock(w) PROVE TypeOK'
<1>1. FileType' /\ ReaderType'
  BY SameFile, SameReader DEF TypeOK, TakeLock, LookUp
<1>2. pc' \in [Writers -> Steps]
  BY ContinueType DEF TypeOK, TakeLock, LookUp, Steps
<1>3. host' \in [Writers -> Sectors]
  BY ChunkType DEF TypeOK, WriterType, ReaderType, TakeLock, LookUp
<1>4. WriterType'
  BY <1>2, <1>3 DEF TypeOK, WriterType, TakeLock, LookUp
<1> QED BY <1>1, <1>4 DEF TypeOK, HistoryType, TakeLock, LookUp, Quiet

LEMMA AllocateTypes ==
  ASSUME TypeOK, NEW w \in Writers, Allocate(w) PROVE TypeOK'
<1>1. GrownSize \in 1 .. Capacity /\ next_alloc_off \in Sectors
  BY SizesAreNat, SparseAssumption
  DEF TypeOK, FileType, ReaderType, Allocate, GrownSize, Larger, FooterAt,
      Sectors
<1>2. FileType' /\ ReaderType'
  BY <1>1, GrowType, SameReader DEF TypeOK, Allocate
<1>3. pc' \in [Writers -> Steps]
  BY ContinueType DEF TypeOK, Allocate, Continue, Steps
<1>4. WriterType'
  BY <1>1, <1>3 DEF TypeOK, WriterType, Allocate, Continue
<1> QED BY <1>2, <1>4 DEF TypeOK, HistoryType, Allocate, Continue, Quiet

LEMMA ZeroOverType ==
  ASSUME FileType, NEW h, NEW n, ZeroOver(h, n) PROVE FileType'
<1>1. Zeroed(h, n) \in [Sectors -> SectorContents]
  BY FileContents
<1>2. CASE h < DataStart /\ n > 0
  BY <1>1, <1>2 DEF FileType, ZeroOver
<1>3. CASE ~ (h < DataStart /\ n > 0)
  BY <1>1, <1>3, PutType DEF ZeroOver
<1> QED BY <1>2, <1>3

(* The file after a footer, a payload or a bitmap reached it, or part did. *)
LEMMA PayloadTypes ==
  ASSUME TypeOK, NEW w \in Writers
  PROVE  /\ [sector EXCEPT ![FooterAt(host[w])] = FooterSector]
              \in [Sectors -> SectorContents]
         /\ \A D : Filling(host[w], D, Zero) \in [Sectors -> SectorContents]
         /\ \A D : Filling(host[w], D, op[w].value) \in [Sectors -> SectorContents]
         /\ \A S \in SUBSET ChunkOffsets(w) :
              Bitmapped(host[w], bits[w] \cup S) \in [Sectors -> SectorContents]
<1>1. FileType /\ op[w].value \in Values /\ Zero \in Values
  BY ChunkType DEF TypeOK, Values
<1>2. \A S \in SUBSET ChunkOffsets(w) : bits[w] \cup S \in SUBSET Offsets
  BY ChunkType DEF TypeOK, WriterType
<1> QED BY <1>1, <1>2, FileContents, SectorKinds

LEMMA FooterTypes ==
  ASSUME TypeOK, NEW w \in Writers,
         WriteFooter(w) \/ FooterFails(w) \/ FlushFooter(w)
  PROVE  TypeOK'
<1> USE DEF TypeOK
<1>1. CASE WriteFooter(w)
  <2>1. FileType' /\ ReaderType'
    BY <1>1, PutType, PayloadTypes, SameReader DEF WriteFooter
  <2> QED BY <1>1, <2>1, ContinueStep DEF WriteFooter, Steps
<1>2. CASE FooterFails(w)
  <2>1. FileType' /\ ReaderType'
    <3>1. PICK x \in FooterLandings(sector[FooterAt(host[w])]) :
            Put([sector EXCEPT ![FooterAt(host[w])] = x])
      BY <1>2 DEF FooterFails
    <3>2. CASE FooterAt(host[w]) \in Sectors
      <4>1. x \in SectorContents
        BY <3>2, SectorKinds DEF FileType
      <4> QED BY <3>1, <4>1, <1>2, FileContents, PutType, SameReader
              DEF FooterFails
    <3>3. CASE FooterAt(host[w]) \notin Sectors
      <4>1. [sector EXCEPT ![FooterAt(host[w])] = x] = sector
        BY <3>3 DEF FileType
      <4> QED BY <3>1, <4>1, <1>2, PutType, SameReader DEF FooterFails, FileType
    <3> QED BY <3>2, <3>3
  <2>2. CASE pc[w] = "footer"
    <3>1. WriterType'
      BY <1>2, <2>2, ContinueType DEF FooterFails, WriterType, writer, Steps
    <3> QED BY <1>2, <2>1, <2>2, <3>1, FaultType
            DEF FooterFails, HistoryType, Quiet
  <2>3. CASE pc[w] # "footer"
    BY <1>2, <2>1, <2>3, FailStep DEF FooterFails
  <2> QED BY <2>2, <2>3
<1>3. CASE FlushFooter(w)
  <2>1. FileType' /\ ReaderType'
    BY <1>3, SyncType, SameReader DEF FlushFooter
  <2> QED BY <1>3, <2>1, ContinueStep DEF FlushFooter, Steps
<1> QED BY <1>1, <1>2, <1>3

LEMMA ZeroTypes ==
  ASSUME TypeOK, NEW w \in Writers,
         ZeroBlock(w) \/ ZeroFails(w) \/ FlushZero(w)
  PROVE  TypeOK'
<1> USE DEF TypeOK
<1>1. CASE ZeroBlock(w)
  <2>1. FileType' /\ ReaderType'
    BY <1>1, ZeroOverType, SameReader DEF ZeroBlock
  <2> QED BY <1>1, <2>1, ContinueStep DEF ZeroBlock, Steps
<1>2. CASE ZeroFails(w)
  <2>1. FileType'
    BY <1>2, ZeroOverType DEF ZeroFails
  <2> QED BY <1>2, <2>1, FailStep DEF ZeroFails
<1>3. CASE FlushZero(w)
  <2>1. FileType'
    BY <1>3, SyncType DEF FlushZero
  <2>2. host[w] + BlockTotal \in Nat
    <3>1. host[w] \in Nat
      BY Defaults DEF WriterType
    <3> QED BY <3>1, SizesAreNat
  <2>3. ReaderType'
    BY <1>3, <2>2 DEF FlushZero, ReaderType
  <2> QED BY <1>3, <2>1, <2>3, ContinueStep DEF FlushZero, Steps
<1> QED BY <1>1, <1>2, <1>3

LEMMA TableTypes ==
  ASSUME TypeOK, NEW w \in Writers,
         WriteTable(w) \/ TableFails(w) \/ FlushTable(w)
  PROVE  TypeOK'
<1> USE DEF TypeOK
<1>1. CASE WriteTable(w)
  <2>1. FileType' /\ ReaderType'
    BY <1>1, PutEntryType, SameReader, Defaults DEF WriteTable, WriterType
  <2> QED BY <1>1, <2>1, ContinueStep DEF WriteTable, Steps
<1>2. CASE TableFails(w)
  <2>1. FileType'
    BY <1>2, PutEntryType, ChunkType, Defaults DEF TableFails, WriterType, FileType
  <2> QED BY <1>2, <2>1, FailStep DEF TableFails
<1>3. CASE FlushTable(w)
  <2>1. FileType'
    BY <1>3, SyncType DEF FlushTable
  <2>2. ReaderType'
    BY <1>3 DEF FlushTable, ReaderType, WriterType
  <2> QED BY <1>3, <2>1, <2>2, ContinueStep DEF FlushTable, Steps
<1> QED BY <1>1, <1>2, <1>3

LEMMA PublishTypes ==
  ASSUME TypeOK, NEW w \in Writers,
         \/ Define(w) \/ DefineFails(w) \/ WriteData(w) \/ DataFails(w)
         \/ ReadBitmap(w) \/ WriteBitmap(w) \/ BitmapFails(w)
  PROVE  TypeOK'
<1> USE DEF TypeOK
<1>1. CASE Define(w)
  <2>1. FileType' /\ ReaderType'
    BY <1>1, PutType, PayloadTypes, SameReader DEF Define
  <2> QED BY <1>1, <2>1, ContinueStep DEF Define, Steps
<1>2. CASE DefineFails(w)
  <2>1. FileType'
    BY <1>2, PutType, PayloadTypes DEF DefineFails
  <2> QED BY <1>2, <2>1, FailStep DEF DefineFails
<1>3. CASE WriteData(w)
  <2>1. FileType' /\ ReaderType'
    BY <1>3, PutType, PayloadTypes, SameReader DEF WriteData
  <2> QED BY <1>3, <2>1, ContinueStep DEF WriteData, Steps
<1>4. CASE DataFails(w)
  <2>1. FileType'
    BY <1>4, PutType, PayloadTypes DEF DataFails
  <2> QED BY <1>4, <2>1, FailStep DEF DataFails
<1>5. CASE ReadBitmap(w)
  <2>1. FileType' /\ ReaderType'
    BY <1>5, SameFile, SameReader DEF ReadBitmap
  <2>2. bits' \in [Writers -> SUBSET Offsets]
    BY <1>5 DEF ReadBitmap, WriterType, FileType, SectorContents
  <2>3. pc' \in [Writers -> Steps]
    BY <1>5, ContinueType DEF ReadBitmap, Continue, Steps
  <2>4. WriterType'
    BY <1>5, <2>2, <2>3 DEF ReadBitmap, Continue, WriterType
  <2> QED BY <1>5, <2>1, <2>4 DEF ReadBitmap, Continue, HistoryType, Quiet
<1>6. CASE WriteBitmap(w)
  <2>1. FileType' /\ ReaderType'
    BY <1>6, PutType, PayloadTypes, SameReader DEF WriteBitmap
  <2> QED BY <1>6, <2>1, ContinueStep DEF WriteBitmap, Steps
<1>7. CASE BitmapFails(w)
  <2>1. FileType'
    BY <1>7, PutType, PayloadTypes DEF BitmapFails
  <2> QED BY <1>7, <2>1, FailStep DEF BitmapFails
<1> QED BY <1>1, <1>2, <1>3, <1>4, <1>5, <1>6, <1>7

LEMMA FlushChunkTypes ==
  ASSUME TypeOK, NEW w \in Writers, FlushChunk(w) PROVE TypeOK'
<1> USE DEF TypeOK
<1>1. FileType' /\ ReaderType'
  BY SyncType, SameReader DEF FlushChunk
<1>2. content' \in [Cells -> SUBSET Values]
  BY ChunkType DEF FlushChunk, EndChunk, HistoryType
<1>3. lock' \in Writers \cup {None} /\ pc' \in [Writers -> Steps]
  BY ContinueType DEF FlushChunk, EndChunk, Goto, WriterType, Steps
<1>4. CASE ChunkStop(w) = op[w].to
  <2>1. Forget(w)
    BY <1>4 DEF FlushChunk, EndChunk
  <2>2. WriterType'
    BY <1>3, <2>1, ForgetType DEF WriterType
  <2> QED BY <1>1, <1>2, <2>2 DEF FlushChunk, HistoryType, Quiet
<1>5. CASE ChunkStop(w) # op[w].to
  <2>1. /\ cursor' = [cursor EXCEPT ![w] = ChunkStop(w)]
        /\ host' = [host EXCEPT ![w] = 0] /\ bits' = [bits EXCEPT ![w] = {}]
        /\ op' = op
    BY <1>5 DEF FlushChunk, EndChunk
  <2>2. ChunkStop(w) \in Cells /\ ChunkStop(w) < op[w].to
    BY <1>5, ChunkType, SizesAreNat DEF Cells
  <2>3. \A u \in Writers : cursor'[u] < op'[u].to
    BY <2>1, <2>2 DEF WriterType
  <2>4. WriterType'
    BY <1>3, <2>1, <2>2, <2>3, Defaults DEF WriterType
  <2> QED BY <1>1, <1>2, <2>4 DEF FlushChunk, HistoryType, Quiet
<1> QED BY <1>4, <1>5

(* Everything that ends the process. *)
LEMMA StopTypes ==
  ASSUME TypeOK, Stop, FileType' PROVE TypeOK'
<1>2. WriterType'
  BY Defaults DEF Stop, WriterType, Steps
<1>3. ReaderType'
  BY LayoutAssumption DEF Stop, ReaderType
<1>4. content' \in [Cells -> SUBSET Values]
  BY DEF Stop, TypeOK, WriterType, HistoryType
<1>5. HistoryType'
  BY <1>4 DEF Stop, TypeOK, HistoryType
<1> QED BY <1>2, <1>3, <1>5 DEF TypeOK

LEMMA PowerLossTypes ==
  ASSUME TypeOK, PowerLoss PROVE TypeOK'
<1> USE DEF TypeOK, FileType
<1>1. PICK n \in sizeMedia,
        pick \in [Dirty -> UNION {sectorMedia[s] : s \in Dirty}],
        entries \in [Blocks -> UNION {tableMedia[b] : b \in Blocks}] :
        /\ \A s \in Dirty : pick[s] \in sectorMedia[s]
        /\ \A b \in Blocks : entries[b] \in tableMedia[b]
        /\ size' = n
        /\ sector' = [s \in Sectors |-> IF n <= s THEN ZeroSector
                                        ELSE IF s \in Dirty THEN pick[s]
                                        ELSE sector[s]]
        /\ table' = entries
  BY DEF PowerLoss
<1>2. sector' \in [Sectors -> SectorContents]
  BY <1>1, SectorKinds DEF Dirty
<1>3. table' \in [Blocks -> Nat] /\ size' \in 1 .. Capacity
  BY <1>1
<1>4. FileType'
  BY <1>2, <1>3 DEF PowerLoss
<1> QED BY <1>4, StopTypes DEF PowerLoss

LEMMA OpenTypes ==
  ASSUME TypeOK, Open PROVE TypeOK'
<1>1. TailFooter \in Footers
  BY SparseAssumption DEF TypeOK, FileType, TailFooter, Sectors, SectorContents
<1>2. ReaderType'
  BY <1>1, OpenTailBounds, AcceptedEntries
  DEF TypeOK, FileType, ReaderType, Open
<1>3. FileType' /\ WriterType' /\ HistoryType'
  BY SameFile DEF TypeOK, Open, WriterType, HistoryType, writer
<1> QED BY <1>2, <1>3 DEF TypeOK

LEMMA StepTypes == TypeOK /\ [Next]_vars => TypeOK'
<1> SUFFICES ASSUME TypeOK, [Next]_vars PROVE TypeOK'
  OBVIOUS
<1>1. CASE UNCHANGED vars
  BY <1>1 DEF vars, TypeOK, FileType, ReaderType, WriterType, HistoryType,
              file, media, reader, writer
<1>2. CASE FlushWrites
  BY <1>2, SyncType, SameReader
  DEF FlushWrites, TypeOK, WriterType, HistoryType, writer
<1>3. CASE Kill
  BY <1>3, SameFile, StopTypes DEF Kill, TypeOK
<1>4. ASSUME NEW w \in Writers, RefuseEntry(w) \/ GrowFails(w) \/ CallFails(w)
      PROVE  TypeOK'
  BY <1>4, SameFile, FailStep DEF RefuseEntry, GrowFails, CallFails, TypeOK
<1>5. ASSUME NEW w \in Writers, Proceed(w) PROVE TypeOK'
  BY <1>4, <1>5, TakeLockTypes, AllocateTypes, FooterTypes, ZeroTypes,
     TableTypes, PublishTypes, FlushChunkTypes DEF Proceed
<1> QED BY <1>1, <1>2, <1>3, <1>5, CallTypes, PowerLossTypes, OpenTypes DEF Next

(* Every value a variable takes has its type: in particular no call's cursor
   leaves the request, no block's address is negative, and the file never
   outgrows the device, for any images, requests and bounds.               *)
THEOREM TypeCorrect == Spec => []TypeOK
<1>1. Init => TypeOK
  BY InitType
<1>2. TypeOK /\ [Next]_vars => TypeOK'
  BY StepTypes
<1> QED BY <1>1, <1>2, PTL DEF Spec

-----------------------------------------------------------------------------
(* The layout of the file: LayoutInv is inductive, on the images of
   SoundImages.  FileInv is the part of it about the file and the tail, which
   each device call is shown to keep in a lemma of its own; LockInv leaves one
   writer to look at for the rest, BuildInv.                               *)

FileInv == MediaInv /\ EntryInv /\ TailIsFree /\ BlocksDisjoint

-----------------------------------------------------------------------------
(* Device calls *)

LEMMA EntriesType ==
  ASSUME TypeOK, NEW b \in Blocks PROVE Entries(b) \subseteq Nat
BY Defaults DEF Entries, TypeOK, FileType, ReaderType

(* A write below the tail keeps the layout when it leaves nothing that looks
   like a footer.                                                          *)
LEMMA PutKeeps ==
  ASSUME TypeOK, FileInv, NEW new \in [Sectors -> SectorContents], Put(new),
         UNCHANGED reader,
         \A s \in Sectors : \/ new[s] = sector[s]
                            \/ new[s].footer = "none"
                            \/ mode = "open" /\ next_alloc_off <= s
  PROVE  FileInv'
<1>1. MediaInv'
  BY DEF FileInv, MediaInv, Put, TypeOK, FileType
<1>2. \A b \in Blocks : Entries(b)' = Entries(b)
  BY DEF Entries, Put, reader
<1>3. ASSUME NEW b \in Blocks, NEW e \in Entries(b) PROVE NoFooterIn(e)'
  <2> SUFFICES ASSUME NEW s \in Extent(e) \cap Sectors, NEW x \in sectorMedia'[s]
               PROVE  x.footer = "none"
    BY DEF NoFooterIn
  <2>1. x \in sectorMedia[s] \/ x = new[s]
    BY DEF Put
  <2>2. \A y \in sectorMedia[s] : y.footer = "none"
    BY <1>3 DEF FileInv, EntryInv, NoFooterIn
  <2>3. sector[s] \in sectorMedia[s]
    BY DEF FileInv, MediaInv
  <2>4. ~ (mode = "open" /\ next_alloc_off <= s)
    <3>1. e \in Nat /\ s \in Nat /\ s < e + BlockTotal
      BY <1>3, EntriesType, SizesAreNat DEF Extent
    <3>2. mode = "open" => e + BlockTotal <= next_alloc_off
      BY <1>3 DEF FileInv, TailIsFree
    <3> QED BY <3>1, <3>2, SizesAreNat DEF TypeOK, ReaderType
  <2> QED BY <2>1, <2>2, <2>3, <2>4
<1>4. EntryInv'
  BY <1>2, <1>3 DEF FileInv, EntryInv, Settled, Put, reader
<1>5. TailIsFree'
  BY <1>2 DEF FileInv, TailIsFree, Put, reader
<1>6. BlocksDisjoint'
  BY <1>2 DEF FileInv, BlocksDisjoint
<1> QED BY <1>1, <1>4, <1>5, <1>6 DEF FileInv

(* A flush leaves fewer entries, sizes and contents to come back. *)
LEMMA SyncShrinks ==
  ASSUME TypeOK, MediaInv, Sync
  PROVE  /\ MediaInv'
         /\ size' = size /\ sizeMedia' = {size} /\ size \in sizeMedia
         /\ \A b \in Blocks : /\ table'[b] = table[b] /\ tableMedia'[b] = {table[b]}
                              /\ table[b] \in tableMedia[b]
         /\ \A h \in Nat : NoFooterIn(h) => NoFooterIn(h)'
         /\ UNCHANGED bat => \A b \in Blocks : Entries(b)' \subseteq Entries(b)
<1>1. /\ size' = size /\ sizeMedia' = {size} /\ size \in sizeMedia
      /\ \A b \in Blocks : /\ table'[b] = table[b] /\ tableMedia'[b] = {table[b]}
                           /\ table[b] \in tableMedia[b]
  BY DEF Sync, MediaInv, file
<1>2. \A s \in Sectors : sectorMedia'[s] = {sector[s]} /\ sector'[s] = sector[s]
                         /\ sector[s] \in sectorMedia[s]
  BY DEF Sync, MediaInv, file
<1>3. MediaInv'
  BY <1>1, <1>2 DEF MediaInv
<1>4. \A h \in Nat : NoFooterIn(h) => NoFooterIn(h)'
  BY <1>2 DEF NoFooterIn
<1>5. UNCHANGED bat => \A b \in Blocks : Entries(b)' \subseteq Entries(b)
  BY <1>1 DEF Entries
<1> QED BY <1>1, <1>3, <1>4, <1>5

(* A flush, and the tail moving up with it, keep the layout. *)
LEMMA SyncKeeps ==
  ASSUME TypeOK, FileInv, Sync, UNCHANGED <<mode, bat>>,
         next_alloc_off' \in Nat, next_alloc_off <= next_alloc_off'
  PROVE  FileInv'
<1>1. MediaInv' /\ \A b \in Blocks : Entries(b)' \subseteq Entries(b)
  BY SyncShrinks DEF FileInv
<1>2. ASSUME NEW b \in Blocks, NEW e \in Entries(b)'
      PROVE  /\ DataStart <= e
             /\ \A n \in sizeMedia' :
                  \/ e + BlockTotal < n
                  \/ e + BlockTotal = n /\ Settled(b, e)'
             /\ NoFooterIn(e)'
  <2>1. e \in Entries(b) /\ e \in Nat
    BY <1>1, EntriesType
  <2>2. /\ DataStart <= e /\ NoFooterIn(e)
        /\ e + BlockTotal < size \/ (e + BlockTotal = size /\ Settled(b, e))
    BY <2>1, SyncShrinks DEF FileInv, EntryInv
  <2>3. Settled(b, e) => Settled(b, e)'
    BY SyncShrinks DEF FileInv, Settled
  <2> QED BY <2>1, <2>2, <2>3, SyncShrinks DEF FileInv
<1>3. EntryInv'
  BY <1>2 DEF EntryInv
<1>4. TailIsFree'
  <2> SUFFICES ASSUME mode' = "open"
               PROVE  /\ DataStart <= next_alloc_off'
                      /\ \A b \in Blocks : \A e \in Entries(b)' :
                           e + BlockTotal <= next_alloc_off'
    BY DEF TailIsFree
  <2>1. DataStart <= next_alloc_off
    BY DEF FileInv, TailIsFree
  <2>2. ASSUME NEW b \in Blocks, NEW e \in Entries(b)'
        PROVE  e + BlockTotal <= next_alloc_off'
    <3>1. e \in Entries(b) /\ e \in Nat
      BY <1>1, EntriesType
    <3>2. e + BlockTotal <= next_alloc_off
      BY <3>1 DEF FileInv, TailIsFree
    <3> QED BY <3>1, <3>2, SizesAreNat DEF TypeOK, ReaderType
  <2> QED BY <2>1, <2>2, SizesAreNat DEF TypeOK, ReaderType
<1>5. BlocksDisjoint'
  BY <1>1 DEF FileInv, BlocksDisjoint
<1> QED BY <1>1, <1>3, <1>4, <1>5 DEF FileInv

(* A longer file keeps the layout: a block that ended the old one ends inside
   the new one.                                                            *)
LEMMA GrowKeeps ==
  ASSUME TypeOK, FileInv, NEW n \in 1 .. Capacity, size <= n, Grow(n),
         UNCHANGED reader
  PROVE  FileInv'
<1>1. /\ size \in Nat /\ size \in sizeMedia /\ DataStart < size /\ n \in Nat
      /\ sizeMedia' = sizeMedia \cup {n} /\ size' = n
  BY SparseAssumption DEF FileInv, MediaInv, TypeOK, FileType, Grow
<1>2. MediaInv'
  BY <1>1, SizesAreNat DEF FileInv, MediaInv, Grow
<1>3. \A b \in Blocks : Entries(b)' = Entries(b)
  BY DEF Entries, Grow, reader
<1>4. ASSUME NEW b \in Blocks, NEW e \in Entries(b)
      PROVE  e + BlockTotal < n \/ (e + BlockTotal = n /\ Settled(b, e))
  <2>1. e \in Nat
    BY EntriesType
  <2>2. e + BlockTotal < size \/ (e + BlockTotal = size /\ Settled(b, e))
    BY <1>1 DEF FileInv, EntryInv
  <2> QED BY <1>1, <2>1, <2>2, SizesAreNat
<1>5. EntryInv'
  BY <1>1, <1>3, <1>4 DEF FileInv, EntryInv, Settled, NoFooterIn, Grow, reader
<1>6. TailIsFree' /\ BlocksDisjoint'
  BY <1>3 DEF FileInv, TailIsFree, BlocksDisjoint, reader
<1> QED BY <1>2, <1>5, <1>6 DEF FileInv

(* An entry for a block at the tail: what a write of it must know. *)
Publishable(w) ==
  /\ mode = "open"
  /\ bat[Block(w)] = BAT_UNALLOCATED
  /\ DataStart <= host[w]
  /\ \A n \in sizeMedia : FooterAt(host[w]) < n
  /\ next_alloc_off = FooterAt(host[w])
  /\ NoFooterIn(host[w])
  /\ \A b \in Blocks \ {Block(w)} : \A e \in Entries(b) :
       e + BlockTotal <= host[w]

LEMMA PutEntryKeeps ==
  ASSUME TypeOK, FileInv, NEW w \in Writers, Publishable(w),
         NEW entry \in {table[Block(w)], host[w]}, PutEntry(Block(w), entry),
         UNCHANGED reader
  PROVE  /\ FileInv'
         /\ \A b \in Blocks \ {Block(w)} : Entries(b)' = Entries(b)
<1> DEFINE B == Block(w)
<1>1. B \in Blocks /\ host[w] \in Nat
  BY ChunkType, Defaults DEF TypeOK, WriterType
<1> HIDE DEF B
<1>2. /\ table' = [table EXCEPT ![B] = entry]
      /\ tableMedia' = [tableMedia EXCEPT ![B] = @ \cup {entry}]
      /\ UNCHANGED <<sector, size, sectorMedia, sizeMedia>>
  BY DEF PutEntry, B
<1>3. table[B] \in tableMedia[B]
  BY <1>1 DEF FileInv, MediaInv
<1>4. MediaInv'
  BY <1>1, <1>2, <1>3 DEF FileInv, MediaInv, TypeOK, FileType
<1>5. \A b \in Blocks \ {B} : Entries(b)' = Entries(b)
  BY <1>2 DEF Entries, reader, TypeOK, FileType
<1>6. ASSUME NEW b \in Blocks, NEW e \in Entries(b)'
      PROVE  e \in Entries(b) \/ (b = B /\ e = host[w])
  <2>1. e # BAT_UNALLOCATED /\ e \in {bat'[b], table'[b]} \cup tableMedia'[b]
    BY DEF Entries
  <2>2. bat'[b] = bat[b]
    BY DEF reader
  <2>3. entry \in {table[B], host[w]}
    BY DEF B
  <2>4. CASE b # B
    BY <1>5, <2>4
  <2>5. CASE b = B
    <3>1. table'[B] = entry /\ tableMedia'[B] = tableMedia[B] \cup {entry}
      BY <1>1, <1>2 DEF TypeOK, FileType
    <3>2. e \in {bat[B], table[B], host[w]} \cup tableMedia[B]
      BY <2>1, <2>2, <2>3, <2>5, <3>1
    <3> QED BY <1>3, <2>1, <2>5, <3>2 DEF Entries
  <2> QED BY <2>4, <2>5
<1>7. \A e \in Entries(B) : e # BAT_UNALLOCATED /\ ~ Settled(B, e)
  BY DEF Settled, Entries, Publishable, B
<1>8. ASSUME NEW b \in Blocks, NEW e \in Entries(b)'
      PROVE  /\ DataStart <= e
             /\ \A n \in sizeMedia' :
                  \/ e + BlockTotal < n
                  \/ e + BlockTotal = n /\ Settled(b, e)'
             /\ NoFooterIn(e)'
             /\ mode' = "open" => e + BlockTotal <= next_alloc_off'
  <2>1. NoFooterIn(e) => NoFooterIn(e)'
    BY <1>2 DEF NoFooterIn
  <2>2. CASE b # B
    <3>1. e \in Entries(b)
      BY <1>6, <2>2
    <3>2. Settled(b, e) => Settled(b, e)'
      BY <1>2, <2>2 DEF Settled, reader, TypeOK, FileType
    <3> QED BY <1>2, <2>1, <3>1, <3>2 DEF FileInv, EntryInv, TailIsFree, reader
  <2>3. CASE b = B /\ e \in Entries(b)
    BY <1>1, <1>2, <1>7, <2>1, <2>3 DEF FileInv, EntryInv, TailIsFree, reader
  <2>4. CASE b = B /\ e = host[w]
    BY <1>1, <1>2, <2>1, <2>4, SizesAreNat DEF Publishable, FooterAt, reader
  <2> QED BY <1>6, <2>2, <2>3, <2>4
<1>9. EntryInv' /\ TailIsFree'
  BY <1>8 DEF EntryInv, TailIsFree, FileInv, reader
<1>10. BlocksDisjoint'
  <2> SUFFICES ASSUME NEW b1 \in Blocks, NEW b2 \in Blocks, b1 # b2,
                      NEW e \in Entries(b1)', NEW f \in Entries(b2)'
               PROVE  DisjointBlocks(e, f)
    BY DEF BlocksDisjoint
  <2>1. CASE e \in Entries(b1) /\ f \in Entries(b2)
    BY <2>1 DEF FileInv, BlocksDisjoint
  <2>2. CASE b1 = B /\ e = host[w]
    <3>1. f \in Entries(b2) /\ b2 # B
      BY <1>6, <2>2
    <3> QED BY <2>2, <3>1 DEF Publishable, DisjointBlocks, B
  <2>3. CASE b2 = B /\ f = host[w]
    <3>1. e \in Entries(b1) /\ b1 # B
      BY <1>6, <2>3
    <3> QED BY <2>3, <3>1 DEF Publishable, DisjointBlocks, B
  <2> QED BY <1>6, <2>1, <2>2, <2>3
<1> QED BY <1>4, <1>5, <1>9, <1>10 DEF FileInv, B

(* The cached BAT taking up the entry, after the flush. *)
LEMMA PublishKeeps ==
  ASSUME TypeOK, FileInv, NEW w \in Writers, Publishable(w), Sync,
         bat' = [bat EXCEPT ![Block(w)] = host[w]],
         UNCHANGED <<mode, next_alloc_off>>
  PROVE  FileInv'
<1> DEFINE B == Block(w)
<1>1. B \in Blocks /\ host[w] \in Nat
  BY ChunkType, Defaults DEF TypeOK, WriterType
<1> HIDE DEF B
<1>2. bat' = [bat EXCEPT ![B] = host[w]]
  BY DEF B
<1>3. ASSUME NEW b \in Blocks, NEW e \in Entries(b)'
      PROVE  e \in Entries(b) \/ (b = B /\ e = host[w])
  <2>1. e # BAT_UNALLOCATED /\ e \in {bat'[b], table'[b]} \cup tableMedia'[b]
    BY DEF Entries
  <2>2. e \in {bat'[b], table[b]}
    BY <2>1, SyncShrinks DEF FileInv
  <2>3. bat'[b] = IF b = B THEN host[w] ELSE bat[b]
    BY <1>2 DEF TypeOK, ReaderType
  <2> QED BY <2>1, <2>2, <2>3 DEF Entries
<1>4. \A e \in Entries(B) : e # BAT_UNALLOCATED /\ ~ Settled(B, e)
  BY DEF Settled, Entries, Publishable, B
<1>5. ASSUME NEW b \in Blocks, NEW e \in Entries(b)'
      PROVE  /\ DataStart <= e
             /\ \A n \in sizeMedia' :
                  \/ e + BlockTotal < n
                  \/ e + BlockTotal = n /\ Settled(b, e)'
             /\ NoFooterIn(e)'
             /\ mode' = "open" => e + BlockTotal <= next_alloc_off'
  <2>1. e \in Nat /\ (NoFooterIn(e) => NoFooterIn(e)')
    <3>1. e \in Nat
      BY <1>1, <1>3, EntriesType
    <3> QED BY <3>1, SyncShrinks DEF FileInv
  <2>2. sizeMedia' = {size} /\ size \in sizeMedia
    BY SyncShrinks DEF FileInv
  <2>3. CASE b # B
    <3>1. e \in Entries(b)
      BY <1>3, <2>3
    <3>2. Settled(b, e) => Settled(b, e)'
      BY <1>2, <2>3, SyncShrinks DEF Settled, FileInv, TypeOK, ReaderType
    <3> QED BY <2>1, <2>2, <3>1, <3>2 DEF FileInv, EntryInv, TailIsFree
  <2>4. CASE b = B /\ e \in Entries(b)
    BY <1>4, <2>1, <2>2, <2>4 DEF FileInv, EntryInv, TailIsFree
  <2>5. CASE b = B /\ e = host[w]
    BY <2>1, <2>2, <2>5 DEF Publishable, FooterAt
  <2> QED BY <1>3, <2>3, <2>4, <2>5
<1>6. EntryInv' /\ TailIsFree'
  BY <1>5 DEF EntryInv, TailIsFree, FileInv
<1>7. BlocksDisjoint'
  <2> SUFFICES ASSUME NEW b1 \in Blocks, NEW b2 \in Blocks, b1 # b2,
                      NEW e \in Entries(b1)', NEW f \in Entries(b2)'
               PROVE  DisjointBlocks(e, f)
    BY DEF BlocksDisjoint
  <2>1. CASE e \in Entries(b1) /\ f \in Entries(b2)
    BY <2>1 DEF FileInv, BlocksDisjoint
  <2>2. CASE b1 = B /\ e = host[w]
    <3>1. f \in Entries(b2) /\ b2 # B
      BY <1>3, <2>2
    <3> QED BY <2>2, <3>1 DEF Publishable, DisjointBlocks, B
  <2>3. CASE b2 = B /\ f = host[w]
    <3>1. e \in Entries(b1) /\ b1 # B
      BY <1>3, <2>3
    <3> QED BY <2>3, <3>1 DEF Publishable, DisjointBlocks, B
  <2> QED BY <1>3, <2>1, <2>2, <2>3
<1> QED BY <1>6, <1>7, SyncShrinks DEF FileInv

-----------------------------------------------------------------------------
(* The lock *)

(* The holder moves on: nobody else is past the lock, so of the blocks under
   construction only its own is left to look at.                           *)
LEMMA HolderSteps ==
  ASSUME TypeOK, LockInv, NEW w \in Writers, NEW step, pc[w] \in Holding,
         Goto(w, step), UNCHANGED mode,
         lock' = lock \/ step \notin Holding
  PROVE  /\ LockInv'
         /\ mode = "open"
         /\ Built(w)' => BuildInv'
<1>1. lock = w /\ mode = "open"
  BY DEF LockInv, Holding, TypeOK, ReaderType
<1>2. pc' = [pc EXCEPT ![w] = step]
  BY DEF Goto
<1>3. ASSUME NEW u \in Writers, u # w PROVE pc'[u] \notin Holding
  BY <1>1, <1>2, <1>3 DEF LockInv, TypeOK, WriterType
<1>4. pc'[w] = step
  BY <1>2 DEF TypeOK, WriterType
<1>5. LockInv'
  BY <1>1, <1>3, <1>4 DEF LockInv
<1>6. ASSUME NEW u \in Writers, u # w PROVE Built(u)'
  BY <1>3, <1>6 DEF Built, Holding, Building, Publishing, Steps
<1> QED BY <1>1, <1>5, <1>6 DEF BuildInv

(* A step that is no part of an allocation asks nothing of the block. *)
LEMMA BuiltNothing ==
  ASSUME TypeOK, NEW w \in Writers, NEW step, Goto(w, step),
         step \notin {"allocate"} \cup Building \cup Publishing
  PROVE  Built(w)'
<1>1. pc'[w] = step
  BY DEF Goto, TypeOK, WriterType
<1> QED BY <1>1 DEF Built, Building, Publishing

(* The holder goes on to another step of the same chunk. *)
LEMMA ContinueLayout ==
  ASSUME TypeOK, LayoutInv, NEW w \in Writers, NEW step, pc[w] \in Holding,
         Continue(w, step), UNCHANGED mode, FileInv', Built(w)'
  PROVE  LayoutInv'
<1>1. LockInv' /\ BuildInv'
  BY HolderSteps DEF LayoutInv, Continue
<1> QED BY <1>1 DEF LayoutInv, FileInv

(* A call that fails gives up the block it was building. *)
LEMMA FailKeeps ==
  ASSUME TypeOK, LayoutInv, NEW w \in Writers, pc[w] \in Holding, Fail(w),
         UNCHANGED reader, FileInv'
  PROVE  LayoutInv'
<1>1. Goto(w, "idle") /\ "idle" \notin Holding
  BY DEF Fail, Holding
<1>2. Built(w)'
  BY <1>1, BuiltNothing DEF Building, Publishing
<1>3. LockInv' /\ BuildInv'
  BY <1>1, <1>2, HolderSteps DEF LayoutInv, reader
<1> QED BY <1>3 DEF LayoutInv, FileInv

(* The device calls past the allocation: whatever they write, it is below the
   tail and no footer.                                                     *)
LEMMA QuietContents ==
  ASSUME TypeOK
  PROVE  /\ \A h, n : \A s \in Sectors :
              Zeroed(h, n)[s] = sector[s] \/ Zeroed(h, n)[s].footer = "none"
         /\ \A h, D, v : \A s \in Sectors :
              \/ Filling(h, D, v)[s] = sector[s]
              \/ Filling(h, D, v)[s].footer = "none"
         /\ \A h, S : \A s \in Sectors :
              Bitmapped(h, S)[s] = sector[s] \/ Bitmapped(h, S)[s].footer = "none"
BY DEF Zeroed, Filling, Bitmapped, ZeroSector, DataSector, BitmapSector,
       TypeOK, FileType

LEMMA PayloadLayout ==
  ASSUME TypeOK, LayoutInv, NEW w \in Writers,
         \/ Define(w) \/ DefineFails(w) \/ WriteData(w) \/ DataFails(w)
         \/ ReadBitmap(w) \/ WriteBitmap(w) \/ BitmapFails(w)
  PROVE  LayoutInv'
<1>1. FileInv
  BY DEF LayoutInv, FileInv
<1>2. ASSUME NEW new \in [Sectors -> SectorContents], Put(new), UNCHANGED reader,
             \A s \in Sectors : new[s] = sector[s] \/ new[s].footer = "none"
      PROVE  FileInv'
  BY <1>1, <1>2, PutKeeps
<1>3. ASSUME NEW D, NEW v \in {Zero, op[w].value},
              Put(Filling(host[w], D, v)), UNCHANGED reader
       PROVE  FileInv'
  <2>1. Filling(host[w], D, v) \in [Sectors -> SectorContents]
    BY PayloadTypes
  <2>2. \A s \in Sectors : \/ Filling(host[w], D, v)[s] = sector[s]
                          \/ Filling(host[w], D, v)[s].footer = "none"
    BY QuietContents
  <2> QED BY <1>2, <1>3, <2>1, <2>2
<1>11. ASSUME NEW S \in SUBSET ChunkOffsets(w),
              Put(Bitmapped(host[w], bits[w] \cup S)), UNCHANGED reader
       PROVE  FileInv'
  <2> DEFINE new == Bitmapped(host[w], bits[w] \cup S)
  <2>1. new \in [Sectors -> SectorContents]
    BY PayloadTypes
  <2>2. \A s \in Sectors : new[s] = sector[s] \/ new[s].footer = "none"
    BY QuietContents
  <2> HIDE DEF new
  <2>3. Put(new)
    BY <1>11 DEF new
  <2> QED BY <1>2, <1>11, <2>1, <2>2, <2>3
<1>4. CASE Define(w)
  <2>1. FileInv'
    BY <1>3, <1>4 DEF Define
  <2>2. Built(w)'
    BY <1>4, BuiltNothing DEF Define, Continue, Building, Publishing
  <2> QED BY <1>4, <2>1, <2>2, ContinueLayout DEF Define, At, Holding, Steps, reader
<1>5. CASE DefineFails(w)
  <2>1. FileInv'
    BY <1>3, <1>5 DEF DefineFails
  <2> QED BY <1>5, <2>1, FailKeeps DEF DefineFails, At, Holding, Steps
<1>6. CASE WriteData(w)
  <2>1. FileInv'
    BY <1>3, <1>6 DEF WriteData
  <2>2. Built(w)'
    BY <1>6, BuiltNothing DEF WriteData, Continue, Building, Publishing
  <2> QED BY <1>6, <2>1, <2>2, ContinueLayout DEF WriteData, At, Holding, Steps, reader
<1>7. CASE DataFails(w)
  <2>1. FileInv'
    BY <1>3, <1>7 DEF DataFails
  <2> QED BY <1>7, <2>1, FailKeeps DEF DataFails, At, Holding, Steps
<1>8. CASE ReadBitmap(w)
  <2>1. FileInv'
    BY <1>1, <1>8 DEF ReadBitmap, FileInv, MediaInv, EntryInv, TailIsFree,
       BlocksDisjoint, Entries, Settled, NoFooterIn, file, media, reader
  <2>2. Built(w)'
    BY <1>8, BuiltNothing DEF ReadBitmap, Continue, Building, Publishing
  <2> QED BY <1>8, <2>1, <2>2, ContinueLayout DEF ReadBitmap, At, Holding, Steps, reader
<1>9. CASE WriteBitmap(w)
  <2>1. FileInv'
    <3>1. /\ Put(Bitmapped(host[w], bits[w] \cup ChunkOffsets(w)))
          /\ UNCHANGED reader
      BY <1>9 DEF WriteBitmap
    <3>2. ChunkOffsets(w) \in SUBSET ChunkOffsets(w)
      OBVIOUS
    <3> QED BY <1>11, <3>1, <3>2
  <2>2. Built(w)'
    BY <1>9, BuiltNothing DEF WriteBitmap, Continue, Building, Publishing
  <2> QED BY <1>9, <2>1, <2>2, ContinueLayout DEF WriteBitmap, At, Holding, Steps, reader
<1>10. CASE BitmapFails(w)
  <2>1. FileInv'
    <3>1. PICK S \in SUBSET ChunkOffsets(w) :
            Put(Bitmapped(host[w], bits[w] \cup S)) /\ UNCHANGED reader
      BY <1>10 DEF BitmapFails
    <3> QED BY <1>11, <3>1
  <2> QED BY <1>10, <2>1, FailKeeps DEF BitmapFails, At, Holding, Steps
<1> QED BY <1>4, <1>5, <1>6, <1>7, <1>8, <1>9, <1>10

(* Nothing of the file, the tail or the cached BAT changes. *)
LEMMA SameLayout ==
  ASSUME FileInv, UNCHANGED <<file, media, reader>>
  PROVE  FileInv' /\ \A b \in Blocks : Entries(b)' = Entries(b)
BY DEF FileInv, MediaInv, EntryInv, TailIsFree, BlocksDisjoint, Entries,
       Settled, NoFooterIn, file, media, reader

LEMMA StartLayout ==
  ASSUME TypeOK, LayoutInv, NEW w \in Writers,
         \/ Call(w) \/ TakeLock(w) \/ RefuseEntry(w) \/ GrowFails(w) \/ CallFails(w)
  PROVE  LayoutInv'
<1>1. FileInv
  BY DEF LayoutInv, FileInv
<1>2. CASE Call(w)
  <2>1. FileInv'
    BY <1>1, <1>2, SameLayout DEF Call
  <2>2. pc[w] = "idle" /\ pc' = [pc EXCEPT ![w] = "lock"] /\ lock' = lock
        /\ mode = "open" /\ mode' = mode
    BY <1>2 DEF Call, At, Continue, Goto, reader
  <2>3. LockInv'
    BY <2>2 DEF LayoutInv, LockInv, Holding, TypeOK, WriterType
  <2>4. ASSUME NEW u \in Writers PROVE Built(u)'
    <3>1. CASE u = w
      BY <2>2, <3>1 DEF Built, Building, Publishing, TypeOK, WriterType
    <3>2. CASE u # w
      <4>1. Block(u)' = Block(u) /\ pc'[u] = pc[u]
        BY <1>2, <2>2, <3>2 DEF Call, Block, TypeOK, WriterType
      <4>2. Built(u)
        BY DEF LayoutInv, BuildInv
      <4>3. /\ bat' = bat /\ next_alloc_off' = next_alloc_off /\ host' = host
            /\ size' = size /\ sizeMedia' = sizeMedia /\ sector' = sector
            /\ sectorMedia' = sectorMedia
        BY <1>2 DEF Call, file, media, reader
      <4>4. \A b \in Blocks : Entries(b)' = Entries(b)
        BY <1>1, <1>2, SameLayout DEF Call
      <4> QED BY <4>1, <4>2, <4>3, <4>4 DEF Built, NoFooterIn
    <3> QED BY <3>1, <3>2
  <2> QED BY <2>1, <2>3, <2>4 DEF LayoutInv, FileInv, BuildInv
<1>3. CASE TakeLock(w)
  <2>1. FileInv'
    BY <1>1, <1>3, SameLayout DEF TakeLock, LookUp
  <2>2. /\ lock = None /\ lock' = w /\ mode = "open" /\ mode' = mode
        /\ cursor' = cursor /\ bat' = bat
        /\ \/ pc' = [pc EXCEPT ![w] = "allocate"] /\ bat[Block(w)] = BAT_UNALLOCATED
           \/ pc' = [pc EXCEPT ![w] = "define"]
    BY <1>3 DEF TakeLock, LookUp, At, Goto, reader
  <2>3. \A u \in Writers : pc[u] \notin Holding
    BY <2>2, SparseAssumption DEF LayoutInv, LockInv
  <2>4. LockInv'
    BY <2>2, <2>3 DEF LockInv, TypeOK, WriterType
  <2>5. ASSUME NEW u \in Writers PROVE Built(u)'
    <3>1. CASE u = w
      BY <2>2, <3>1 DEF Built, Building, Publishing, Block, TypeOK, WriterType
    <3>2. CASE u # w
      BY <2>2, <2>3, <3>2
      DEF Built, Building, Publishing, Holding, Steps, TypeOK, WriterType
    <3> QED BY <3>1, <3>2
  <2> QED BY <2>1, <2>4, <2>5 DEF LayoutInv, FileInv, BuildInv
<1>4. CASE RefuseEntry(w) \/ GrowFails(w) \/ CallFails(w)
  <2>1. FileInv'
    BY <1>1, <1>4, SameLayout DEF RefuseEntry, GrowFails, CallFails
  <2>2. pc[w] \in Holding
    BY <1>4 DEF RefuseEntry, GrowFails, CallFails, At, Holding, Steps
  <2> QED BY <1>4, <2>1, <2>2, FailKeeps DEF RefuseEntry, GrowFails, CallFails
<1> QED BY <1>2, <1>3, <1>4

LEMMA AllocateLayout ==
  ASSUME TypeOK, LayoutInv, NEW w \in Writers, Allocate(w)
  PROVE  LayoutInv'
<1>1. FileInv /\ mode = "open" /\ pc[w] \in Holding /\ Goto(w, "footer")
  BY DEF LayoutInv, FileInv, Allocate, At, Holding, Steps, Continue
<1>2. /\ GrownSize \in 1 .. Capacity /\ size <= GrownSize
      /\ FooterAt(next_alloc_off) < GrownSize
  BY SizesAreNat, SparseAssumption
  DEF TypeOK, FileType, ReaderType, Allocate, GrownSize, Larger, FooterAt
<1>3. FileInv'
  BY <1>1, <1>2, GrowKeeps DEF Allocate
<1>4. /\ pc'[w] = "footer" /\ host'[w] = next_alloc_off /\ size' = GrownSize
      /\ cursor' = cursor /\ bat' = bat /\ next_alloc_off' = next_alloc_off
  BY <1>1 DEF Allocate, Goto, Grow, TypeOK, WriterType, reader
<1>5. DataStart <= next_alloc_off /\ bat[Block(w)] = BAT_UNALLOCATED
  BY <1>1 DEF FileInv, TailIsFree, LayoutInv, BuildInv, Built, Allocate, At
<1>6. Built(w)'
  BY <1>2, <1>4, <1>5 DEF Built, Building, Publishing, Block, FooterAt
<1> QED BY <1>1, <1>3, <1>6, ContinueLayout DEF Allocate, reader

(* What a writer knows of the block it builds, taken apart. *)
LEMMA BuildFacts ==
  ASSUME TypeOK, LayoutInv, NEW w \in Writers, mode = "open",
         pc[w] \in Building \cup Publishing
  PROVE  /\ pc[w] \in Holding
         /\ host[w] \in Nat /\ Block(w) \in Blocks
         /\ bat[Block(w)] = BAT_UNALLOCATED
         /\ DataStart <= host[w] /\ FooterAt(host[w]) < size
         /\ pc[w] \in Building => host[w] = next_alloc_off
         /\ pc[w] \in Publishing => Publishable(w)
<1>1. Built(w)
  BY DEF LayoutInv, BuildInv
<1>2. host[w] \in Nat /\ Block(w) \in Blocks
  BY ChunkType, Defaults DEF TypeOK, WriterType
<1>3. pc[w] \in Holding
  BY DEF Building, Publishing, Holding, Steps
<1>4. pc[w] \in Publishing => Publishable(w)
  BY <1>1 DEF Built, Publishable
<1> QED BY <1>1, <1>2, <1>3, <1>4 DEF Built

LEMMA FooterLayout ==
  ASSUME TypeOK, LayoutInv, NEW w \in Writers,
         WriteFooter(w) \/ FooterFails(w) \/ FlushFooter(w)
  PROVE  LayoutInv'
<1>1. FileInv
  BY DEF LayoutInv, FileInv
<1>2. /\ mode = "open" /\ pc[w] \in Building /\ pc[w] \in Holding
      /\ pc[w] \notin Publishing /\ pc[w] \notin {"zero", "zeroFlush"}
  BY DEF WriteFooter, FooterFails, FlushFooter, At, Building, Publishing, Holding, Steps
<1>3. /\ host[w] \in Nat /\ Block(w) \in Blocks
      /\ bat[Block(w)] = BAT_UNALLOCATED
      /\ DataStart <= host[w] /\ FooterAt(host[w]) < size
      /\ host[w] = next_alloc_off
  BY <1>2, BuildFacts
<1>4. \A s \in Sectors : s = FooterAt(host[w]) => next_alloc_off <= s
  BY <1>3, SizesAreNat DEF FooterAt
<1>5. FooterAt(host[w]) \in Sectors
  BY <1>3, SizesAreNat, SparseAssumption
  DEF FooterAt, Sectors, TypeOK, FileType
<1>6. ASSUME NEW x \in SectorContents,
             Put([sector EXCEPT ![FooterAt(host[w])] = x]), UNCHANGED reader
      PROVE  FileInv' /\ size' = size
  <2> DEFINE new == [sector EXCEPT ![FooterAt(host[w])] = x]
  <2>1. new \in [Sectors -> SectorContents]
    BY FileContents DEF TypeOK
  <2>2. \A s \in Sectors : new[s] = sector[s] \/ next_alloc_off <= s
    BY <1>4 DEF TypeOK, FileType
  <2>3. Put(new)
    BY <1>6
  <2> HIDE DEF new
  <2>4. FileInv'
    BY <1>1, <1>2, <1>6, <2>1, <2>2, <2>3, PutKeeps
  <2> QED BY <2>3, <2>4 DEF Put
<1>7. ASSUME NEW step \in {"retryFooter", "footerFlush"}, Goto(w, step),
             UNCHANGED <<reader, writer>>, size' = size
      PROVE  Built(w)'
  <2>1. pc'[w] = step
    BY <1>7 DEF Goto, TypeOK, WriterType
  <2> QED BY <1>3, <1>7, <2>1
          DEF Built, Building, Publishing, Block, FooterAt, reader, writer
<1>8. CASE WriteFooter(w)
  <2>1. FileInv' /\ size' = size
    BY <1>6, <1>8, SectorKinds DEF WriteFooter
  <2>2. Built(w)'
    BY <1>7, <1>8, <2>1 DEF WriteFooter, Continue
  <2> QED BY <1>2, <1>8, <2>1, <2>2, ContinueLayout DEF WriteFooter, reader
<1>9. CASE FooterFails(w)
  <2>1. PICK x \in FooterLandings(sector[FooterAt(host[w])]) :
          Put([sector EXCEPT ![FooterAt(host[w])] = x])
    BY <1>9 DEF FooterFails
  <2>2. x \in SectorContents
    BY <1>5, SectorKinds DEF TypeOK, FileType
  <2>3. FileInv' /\ size' = size
    BY <1>6, <1>9, <2>1, <2>2 DEF FooterFails
  <2>4. CASE pc[w] = "footer"
    <3>1. Goto(w, "retryFooter") /\ UNCHANGED <<lock, writer>> /\ UNCHANGED mode
      BY <1>9, <2>4 DEF FooterFails, reader
    <3>2. Built(w)'
      BY <1>7, <1>9, <2>3, <3>1 DEF FooterFails
    <3>3. LockInv' /\ BuildInv'
      BY <1>2, <3>1, <3>2, HolderSteps DEF LayoutInv
    <3> QED BY <2>3, <3>3 DEF LayoutInv, FileInv
  <2>5. CASE pc[w] # "footer"
    BY <1>2, <1>9, <2>3, <2>5, FailKeeps DEF FooterFails
  <2> QED BY <2>4, <2>5
<1>10. CASE FlushFooter(w)
  <2>1. FileInv' /\ size' = size /\ sizeMedia' = {size}
    BY <1>1, <1>10, SyncKeeps, SyncShrinks
    DEF FlushFooter, FileInv, reader, TypeOK, ReaderType
  <2>2. pc'[w] = "zero"
    BY <1>10 DEF FlushFooter, Continue, Goto, TypeOK, WriterType
  <2>3. Built(w)'
    BY <1>3, <1>10, <2>1, <2>2
    DEF FlushFooter, Built, Building, Publishing, Block, FooterAt, reader, writer
  <2> QED BY <1>2, <1>10, <2>1, <2>3, ContinueLayout DEF FlushFooter, reader
<1> QED BY <1>8, <1>9, <1>10

LEMMA ZeroLayout ==
  ASSUME TypeOK, LayoutInv, NEW w \in Writers,
         ZeroBlock(w) \/ ZeroFails(w) \/ FlushZero(w)
  PROVE  LayoutInv'
<1>1. FileInv
  BY DEF LayoutInv, FileInv
<1>2. /\ mode = "open" /\ pc[w] \in Building /\ pc[w] \in Holding
      /\ pc[w] \in {"zero", "zeroFlush"}
  BY DEF ZeroBlock, ZeroFails, FlushZero, At, Building, Holding, Steps
<1>3. /\ host[w] \in Nat /\ Block(w) \in Blocks
      /\ bat[Block(w)] = BAT_UNALLOCATED
      /\ DataStart <= host[w] /\ FooterAt(host[w]) < size
      /\ host[w] = next_alloc_off
  BY <1>2, BuildFacts
<1>4. \A n \in sizeMedia : FooterAt(host[w]) < n
  BY <1>2 DEF LayoutInv, BuildInv, Built
<1>5. ASSUME NEW n \in Nat, ZeroOver(host[w], n), UNCHANGED reader
      PROVE  /\ FileInv' /\ size' = size /\ sizeMedia' = sizeMedia
             /\ sector' = Zeroed(host[w], n)
  <2>1. Put(Zeroed(host[w], n))
    BY <1>3, <1>5, SizesAreNat DEF ZeroOver
  <2>2. Zeroed(host[w], n) \in [Sectors -> SectorContents]
    BY FileContents DEF TypeOK
  <2>3. \A s \in Sectors : \/ Zeroed(host[w], n)[s] = sector[s]
                           \/ Zeroed(host[w], n)[s].footer = "none"
    BY QuietContents
  <2>4. FileInv'
    BY <1>1, <1>5, <2>1, <2>2, <2>3, PutKeeps
  <2> QED BY <2>1, <2>4 DEF Put
<1>6. CASE ZeroBlock(w)
  <2>1. /\ FileInv' /\ size' = size /\ sizeMedia' = sizeMedia
        /\ sector' = Zeroed(host[w], BlockTotal)
    BY <1>5, <1>6, SizesAreNat DEF ZeroBlock
  <2>2. pc'[w] = "zeroFlush" /\ UNCHANGED <<reader, writer>>
    BY <1>6 DEF ZeroBlock, Continue, Goto, TypeOK, WriterType
  <2>3. \A s \in Extent(host[w]) \cap Sectors : sector'[s].footer = "none"
    BY <2>1 DEF Extent, Zeroed, ZeroSector
  <2>4. Built(w)'
    BY <1>3, <1>4, <2>1, <2>2, <2>3
    DEF Built, Building, Publishing, Block, FooterAt, reader, writer
  <2> QED BY <1>2, <1>6, <2>1, <2>4, ContinueLayout DEF ZeroBlock, reader
<1>7. CASE ZeroFails(w)
  <2>1. PICK n \in 0 .. BlockTotal : ZeroOver(host[w], n)
    BY <1>7 DEF ZeroFails
  <2>2. n \in Nat
    BY SizesAreNat
  <2>3. FileInv'
    BY <1>5, <1>7, <2>1, <2>2 DEF ZeroFails
  <2> QED BY <1>2, <1>7, <2>3, FailKeeps DEF ZeroFails
<1>8. CASE FlushZero(w)
  <2>1. /\ Sync /\ UNCHANGED <<mode, bat, writer>>
        /\ next_alloc_off' = host[w] + BlockTotal
        /\ pc'[w] = "table" /\ pc[w] = "zeroFlush"
    BY <1>8 DEF FlushZero, Continue, Goto, At, TypeOK, WriterType
  <2>2. /\ FileInv' /\ size' = size /\ sizeMedia' = {size}
        /\ \A b \in Blocks : Entries(b)' \subseteq Entries(b)
    BY <1>1, <1>3, <2>1, SizesAreNat, SyncKeeps, SyncShrinks DEF FileInv
  <2>3. \A s \in Extent(host[w]) \cap Sectors : sector[s].footer = "none"
    BY <2>1 DEF LayoutInv, BuildInv, Built
  <2>4. NoFooterIn(host[w])'
    BY <2>1, <2>3 DEF NoFooterIn, Sync, writer
  <2>5. \A b \in Blocks : \A e \in Entries(b)' : e + BlockTotal <= host[w]
    BY <1>1, <1>2, <1>3, <2>2 DEF FileInv, TailIsFree
  <2>6. host'[w] = host[w] /\ Block(w)' = Block(w) /\ bat' = bat
    BY <2>1 DEF writer, Block
  <2>7. next_alloc_off' = FooterAt(host[w])
    BY <2>1 DEF FooterAt
  <2>8. Built(w)'
    BY <1>3, <2>1, <2>2, <2>4, <2>5, <2>6, <2>7
    DEF Built, Building, Publishing, FooterAt
  <2> QED BY <1>2, <1>8, <2>2, <2>8, ContinueLayout DEF FlushZero
<1> QED BY <1>6, <1>7, <1>8

LEMMA TableLayout ==
  ASSUME TypeOK, LayoutInv, NEW w \in Writers,
         WriteTable(w) \/ TableFails(w) \/ FlushTable(w)
  PROVE  LayoutInv'
<1>1. FileInv
  BY DEF LayoutInv, FileInv
<1>2. /\ mode = "open" /\ pc[w] \in Publishing /\ pc[w] \in Holding
  BY DEF WriteTable, TableFails, FlushTable, At, Publishing, Holding, Steps
<1>3. /\ host[w] \in Nat /\ Block(w) \in Blocks /\ Publishable(w)
      /\ FooterAt(host[w]) < size
  BY <1>2, BuildFacts
<1>4. CASE WriteTable(w)
  <2>1. /\ FileInv'
        /\ \A b \in Blocks \ {Block(w)} : Entries(b)' = Entries(b)
    BY <1>1, <1>3, <1>4, PutEntryKeeps DEF WriteTable
  <2>2. /\ pc'[w] = "tableFlush" /\ UNCHANGED <<reader, writer>>
        /\ size' = size /\ sizeMedia' = sizeMedia /\ sectorMedia' = sectorMedia
    BY <1>4 DEF WriteTable, Continue, Goto, PutEntry, TypeOK, WriterType
  <2>3. Built(w)'
    BY <1>3, <2>1, <2>2
    DEF Built, Building, Publishing, Publishable, Block, NoFooterIn, reader, writer
  <2> QED BY <1>2, <1>4, <2>1, <2>3, ContinueLayout DEF WriteTable, reader
<1>5. CASE TableFails(w)
  <2>1. FileInv'
    BY <1>1, <1>3, <1>5, PutEntryKeeps DEF TableFails
  <2> QED BY <1>2, <1>5, <2>1, FailKeeps DEF TableFails
<1>6. CASE FlushTable(w)
  <2>1. FileInv'
    BY <1>1, <1>3, <1>6, PublishKeeps DEF FlushTable
  <2>2. Built(w)'
    BY <1>6, BuiltNothing DEF FlushTable, Continue, Building, Publishing
  <2> QED BY <1>2, <1>6, <2>1, <2>2, ContinueLayout DEF FlushTable
<1> QED BY <1>4, <1>5, <1>6

LEMMA FlushChunkLayout ==
  ASSUME TypeOK, LayoutInv, NEW w \in Writers, FlushChunk(w)
  PROVE  LayoutInv'
<1>1. FileInv'
  BY SyncKeeps DEF LayoutInv, FileInv, FlushChunk, reader, TypeOK, ReaderType
<1>2. PICK step \in {"idle", "lock"} : Goto(w, step)
  BY DEF FlushChunk, EndChunk
<1>3. pc[w] \in Holding /\ step \notin Holding /\ UNCHANGED mode
  BY DEF FlushChunk, At, Holding, Steps, reader
<1>4. Built(w)'
  BY <1>2, BuiltNothing DEF Building, Publishing
<1>5. LockInv' /\ BuildInv'
  BY <1>2, <1>3, <1>4, HolderSteps DEF LayoutInv
<1> QED BY <1>1, <1>5 DEF LayoutInv, FileInv

(* A flush by anybody, between any two steps of a writer. *)
LEMMA FlushWritesLayout ==
  ASSUME TypeOK, LayoutInv, FlushWrites PROVE LayoutInv'
<1>1. /\ FileInv' /\ size' = size /\ sizeMedia' = {size} /\ size \in sizeMedia
      /\ \A b \in Blocks : Entries(b)' \subseteq Entries(b)
      /\ \A h \in Nat : NoFooterIn(h) => NoFooterIn(h)'
  BY SyncKeeps, SyncShrinks
  DEF LayoutInv, FileInv, FlushWrites, reader, TypeOK, ReaderType
<1>2. UNCHANGED <<reader, lock, pc, writer>> /\ sector' = sector
  BY DEF FlushWrites, Sync, file
<1>3. LockInv'
  BY <1>2 DEF LayoutInv, LockInv, reader
<1>4. ASSUME NEW w \in Writers PROVE Built(w)'
  <2>1. Built(w) /\ host[w] \in Nat
    BY Defaults DEF LayoutInv, BuildInv, TypeOK, WriterType
  <2>2. Block(w)' = Block(w)
    BY <1>2 DEF Block, writer
  <2> QED BY <1>1, <1>2, <2>1, <2>2 DEF Built, reader, writer
<1> QED BY <1>1, <1>3, <1>4 DEF LayoutInv, FileInv, BuildInv

-----------------------------------------------------------------------------
(* The end of a process, and the next one *)

LEMMA StopLayout ==
  ASSUME Stop, FileInv' PROVE LayoutInv'
<1>1. \A w \in Writers : pc'[w] = "idle"
  BY DEF Stop
<1>2. LockInv'
  BY <1>1 DEF LockInv, Holding
<1>3. BuildInv'
  BY <1>1 DEF BuildInv, Built, Building, Publishing
<1> QED BY <1>2, <1>3 DEF LayoutInv, FileInv

LEMMA KillLayout ==
  ASSUME TypeOK, LayoutInv, Kill PROVE LayoutInv'
<1>1. /\ mode' = "down" /\ bat' = [b \in Blocks |-> BAT_UNALLOCATED]
      /\ UNCHANGED <<sector, table, size, sectorMedia, tableMedia, sizeMedia>>
  BY DEF Kill, Stop, file, media
<1>2. \A b \in Blocks : Entries(b)' \subseteq Entries(b)
  BY <1>1 DEF Entries
<1>3. MediaInv' /\ TailIsFree'
  BY <1>1 DEF LayoutInv, MediaInv, TailIsFree
<1>4. EntryInv'
  <2> SUFFICES ASSUME NEW b \in Blocks, NEW e \in Entries(b)'
               PROVE  /\ DataStart <= e
                      /\ \A n \in sizeMedia' :
                           \/ e + BlockTotal < n
                           \/ e + BlockTotal = n /\ Settled(b, e)'
                      /\ NoFooterIn(e)'
    BY DEF EntryInv
  <2>1. e \in Entries(b) /\ (Settled(b, e) => Settled(b, e)')
    BY <1>1, <1>2 DEF Settled
  <2>2. NoFooterIn(e) => NoFooterIn(e)'
    BY <1>1 DEF NoFooterIn
  <2> QED BY <1>1, <2>1, <2>2 DEF LayoutInv, EntryInv
<1>5. BlocksDisjoint'
  BY <1>2 DEF LayoutInv, BlocksDisjoint
<1> QED BY <1>3, <1>4, <1>5, StopLayout DEF Kill, FileInv

LEMMA PowerLossLayout ==
  ASSUME TypeOK, LayoutInv, PowerLoss PROVE LayoutInv'
<1>1. PICK n \in sizeMedia,
        pick \in [Dirty -> UNION {sectorMedia[s] : s \in Dirty}],
        entries \in [Blocks -> UNION {tableMedia[b] : b \in Blocks}] :
        /\ \A s \in Dirty : pick[s] \in sectorMedia[s]
        /\ \A b \in Blocks : entries[b] \in tableMedia[b]
        /\ size' = n
        /\ sector' = [s \in Sectors |-> IF n <= s THEN ZeroSector
                                        ELSE IF s \in Dirty THEN pick[s]
                                        ELSE sector[s]]
        /\ table' = entries
  BY DEF PowerLoss
<1>2. /\ mode' = "down" /\ bat' = [b \in Blocks |-> BAT_UNALLOCATED]
      /\ sectorMedia' = [s \in Sectors |-> {sector'[s]}]
      /\ tableMedia' = [b \in Blocks |-> {table'[b]}]
      /\ sizeMedia' = {size'}
  BY DEF PowerLoss, Stop
<1>3. \A s \in Sectors : sector'[s] = ZeroSector \/ sector'[s] \in sectorMedia[s]
  BY <1>1 DEF LayoutInv, MediaInv
<1>4. ASSUME NEW b \in Blocks PROVE Entries(b)' \subseteq Entries(b)
  <2>1. Entries(b)' \subseteq {BAT_UNALLOCATED, table'[b]} \ {BAT_UNALLOCATED}
    BY <1>2 DEF Entries
  <2>2. table'[b] \in tableMedia[b]
    BY <1>1
  <2> QED BY <2>1, <2>2 DEF Entries
<1>5. MediaInv'
  BY <1>1, <1>2 DEF LayoutInv, MediaInv
<1>6. EntryInv'
  <2> SUFFICES ASSUME NEW b \in Blocks, NEW e \in Entries(b)'
               PROVE  /\ DataStart <= e
                      /\ \A k \in sizeMedia' :
                           \/ e + BlockTotal < k
                           \/ e + BlockTotal = k /\ Settled(b, e)'
                      /\ NoFooterIn(e)'
    BY DEF EntryInv
  <2>1. e \in Entries(b)
    BY <1>4
  <2>2. /\ DataStart <= e /\ NoFooterIn(e)
        /\ e + BlockTotal < n \/ (e + BlockTotal = n /\ Settled(b, e))
    BY <2>1 DEF LayoutInv, EntryInv
  <2>3. Settled(b, e) => Settled(b, e)'
    BY <1>1, <1>2 DEF Settled
  <2>4. NoFooterIn(e)'
    BY <1>2, <1>3, <2>2 DEF NoFooterIn, ZeroSector
  <2> QED BY <1>1, <1>2, <2>2, <2>3, <2>4
<1>7. TailIsFree'
  BY <1>2 DEF TailIsFree
<1>8. BlocksDisjoint'
  BY <1>4 DEF LayoutInv, BlocksDisjoint
<1> QED BY <1>5, <1>6, <1>7, <1>8, StopLayout DEF PowerLoss, FileInv

(* A block that ends the file leaves no footer to be found there. *)
LEMMA LastSector ==
  ASSUME TypeOK, FileInv, NEW b \in Blocks, NEW e \in Entries(b)
  PROVE  /\ e \in Nat
         /\ \/ e + BlockTotal < size
            \/ e + BlockTotal = size /\ table[b] = e /\ TailFooter = "none"
<1>1. size \in sizeMedia /\ size \in Nat /\ size - 1 \in Sectors
  BY SparseAssumption DEF FileInv, MediaInv, TypeOK, FileType, Sectors
<1>2. e \in Nat
  BY EntriesType
<1>3. e + BlockTotal < size \/ (e + BlockTotal = size /\ Settled(b, e))
  BY <1>1 DEF FileInv, EntryInv
<1>4. e + BlockTotal = size => size - 1 \in Extent(e) \cap Sectors
  BY <1>1, <1>2, SizesAreNat DEF Extent
<1>5. e + BlockTotal = size => TailFooter = "none"
  <2> HAVE e + BlockTotal = size
  <2>1. size - 1 \in Extent(e) \cap Sectors
    BY <1>4
  <2>2. sector[size - 1] \in sectorMedia[size - 1]
    BY <1>1 DEF FileInv, MediaInv
  <2> QED BY <2>1, <2>2 DEF FileInv, EntryInv, NoFooterIn, TailFooter
<1> QED BY <1>2, <1>3, <1>5 DEF Settled

LEMMA OpenLayout ==
  ASSUME TypeOK, LayoutInv, Open PROVE LayoutInv'
<1>1. /\ mode = "down" /\ mode' = "open" /\ bat' = table
      /\ next_alloc_off' = OpenTail(table, size, TailFooter)
      /\ OpenAccepts(table, size, TailFooter)
      /\ UNCHANGED <<sector, table, size, sectorMedia, tableMedia, sizeMedia, pc, lock>>
  BY DEF Open, file, media
<1>2. \A b \in Blocks : Entries(b)' \subseteq Entries(b)
  BY <1>1 DEF Entries
<1>3. TailFooter \in Footers /\ size \in Nat /\ 1 <= size
  BY SparseAssumption DEF TypeOK, FileType, TailFooter, Sectors, SectorContents
<1>4. /\ next_alloc_off' \in Nat /\ size - 1 <= next_alloc_off'
      /\ TailFooter # "whole" => \A b \in Allocated(table) :
                                   table[b] + BlockTotal <= next_alloc_off'
  BY <1>1, <1>3, OpenTailBounds DEF TypeOK, FileType
<1>5. MediaInv'
  BY <1>1 DEF LayoutInv, MediaInv
<1>6. EntryInv'
  <2> SUFFICES ASSUME NEW b \in Blocks, NEW e \in Entries(b)'
               PROVE  /\ DataStart <= e
                      /\ \A n \in sizeMedia' :
                           \/ e + BlockTotal < n
                           \/ e + BlockTotal = n /\ Settled(b, e)'
                      /\ NoFooterIn(e)'
    BY DEF EntryInv
  <2>1. e \in Entries(b)
    BY <1>2
  <2>2. Settled(b, e) => Settled(b, e)'
    BY <1>1 DEF Settled
  <2>3. NoFooterIn(e) => NoFooterIn(e)'
    BY <1>1 DEF NoFooterIn
  <2> QED BY <1>1, <2>1, <2>2, <2>3 DEF LayoutInv, EntryInv
<1>7. TailIsFree'
  <2>1. DataStart <= next_alloc_off'
    <3>1. DataStart < size
      BY DEF LayoutInv, MediaInv
    <3> QED BY <1>3, <1>4, <3>1, SizesAreNat
  <2>2. ASSUME NEW b \in Blocks, NEW e \in Entries(b)'
        PROVE  e + BlockTotal <= next_alloc_off'
    <3>1. e \in Entries(b) /\ e # BAT_UNALLOCATED
      BY <1>2 DEF Entries
    <3>2. /\ e \in Nat
          /\ \/ e + BlockTotal < size
             \/ e + BlockTotal = size /\ table[b] = e /\ TailFooter = "none"
      BY <3>1, LastSector DEF LayoutInv, FileInv
    <3>3. CASE e + BlockTotal < size
      BY <1>3, <1>4, <3>2, <3>3, SizesAreNat
    <3>4. CASE table[b] = e /\ TailFooter = "none"
      BY <1>4, <3>1, <3>4 DEF Allocated
    <3> QED BY <3>2, <3>3, <3>4
  <2> QED BY <2>1, <2>2 DEF TailIsFree
<1>8. BlocksDisjoint'
  BY <1>2 DEF LayoutInv, BlocksDisjoint
<1>9. \A w \in Writers : pc'[w] = "idle"
  BY <1>1 DEF LayoutInv, LockInv
<1>10. LockInv' /\ BuildInv'
  BY <1>1, <1>9 DEF LockInv, BuildInv, Built, Holding, Building, Publishing
<1> QED BY <1>5, <1>6, <1>7, <1>8, <1>10 DEF LayoutInv

-----------------------------------------------------------------------------
(* The theorems *)

LEMMA InitLayout == SoundImages /\ Init => LayoutInv
<1> SUFFICES ASSUME SoundImages, Init PROVE LayoutInv
  OBVIOUS
<1>1. TypeOK
  BY InitType
<1>2. PICK img \in InitialImages :
        sector = img.sector /\ table = img.table /\ size = img.size
  BY DEF Init
<1>3. OpenAccepts(table, size, TailFooter)
  BY DEF Init
<1>4. /\ DataStart < size
      /\ \A b \in Allocated(table) :
           \A s \in Extent(table[b]) \cap Sectors : sector[s].footer = "none"
  BY <1>2, <1>3 DEF SoundImages, TailFooter
<1>5. /\ size \in Nat /\ 1 <= size /\ TailFooter \in Footers
      /\ table \in [Blocks -> Nat]
  BY <1>1, SparseAssumption
  DEF TypeOK, FileType, TailFooter, Sectors, SectorContents
<1>6. /\ sectorMedia = [s \in Sectors |-> {sector[s]}]
      /\ tableMedia = [b \in Blocks |-> {table[b]}]
      /\ sizeMedia = {size} /\ bat = table
      /\ next_alloc_off = OpenTail(table, size, TailFooter)
      /\ \A w \in Writers : pc[w] = "idle"
  BY DEF Init
<1>7. \A b \in Blocks : Entries(b) = {table[b]} \ {BAT_UNALLOCATED}
  BY <1>6 DEF Entries
<1>8. MediaInv
  BY <1>4, <1>6 DEF MediaInv
<1>9. ASSUME NEW b \in Blocks, NEW e \in Entries(b)
      PROVE  /\ e = table[b] /\ b \in Allocated(table) /\ e \in Nat
             /\ DataStart <= e
             /\ \/ e + BlockTotal <= size - 1
                \/ e + BlockTotal = size /\ TailFooter = "none"
  <2>1. e = table[b] /\ b \in Allocated(table) /\ e \in Nat
    BY <1>5, <1>7 DEF Allocated
  <2>2. DataStart <= e /\ e + BlockTotal <= DataEnd(size, TailFooter)
    BY <1>3, <2>1 DEF OpenAccepts
  <2> QED BY <1>5, <2>1, <2>2, SizesAreNat DEF DataEnd
<1>10. EntryInv
  <2> SUFFICES ASSUME NEW b \in Blocks, NEW e \in Entries(b)
               PROVE  /\ DataStart <= e
                      /\ \A n \in sizeMedia :
                           \/ e + BlockTotal < n
                           \/ e + BlockTotal = n /\ Settled(b, e)
                      /\ NoFooterIn(e)
    BY DEF EntryInv
  <2>1. Settled(b, e)
    BY <1>6, <1>9 DEF Settled
  <2>2. NoFooterIn(e)
    BY <1>4, <1>6, <1>9 DEF NoFooterIn
  <2>3. e + BlockTotal < size \/ e + BlockTotal = size
    BY <1>5, <1>9, SizesAreNat
  <2> QED BY <1>6, <1>9, <2>1, <2>2, <2>3
<1>11. TailIsFree
  <2>1. /\ next_alloc_off \in Nat /\ size - 1 <= next_alloc_off
        /\ TailFooter # "whole" => \A b \in Allocated(table) :
                                     table[b] + BlockTotal <= next_alloc_off
    BY <1>1, <1>3, <1>5, <1>6, OpenTailBounds DEF TypeOK, FileType
  <2>2. DataStart <= next_alloc_off
    BY <1>4, <1>5, <2>1, SizesAreNat
  <2>3. ASSUME NEW b \in Blocks, NEW e \in Entries(b)
        PROVE  e + BlockTotal <= next_alloc_off
    <3>1. CASE e + BlockTotal <= size - 1
      BY <1>5, <1>9, <2>1, <3>1, SizesAreNat
    <3>2. CASE TailFooter = "none"
      BY <1>9, <2>1, <3>2
    <3> QED BY <1>9, <3>1, <3>2
  <2> QED BY <2>2, <2>3 DEF TailIsFree
<1>12. BlocksDisjoint
  BY <1>3, <1>9 DEF BlocksDisjoint, OpenAccepts
<1>13. LockInv /\ BuildInv
  BY <1>6 DEF LockInv, BuildInv, Built, Holding, Building, Publishing
<1> QED BY <1>8, <1>10, <1>11, <1>12, <1>13 DEF LayoutInv

LEMMA StutterLayout ==
  ASSUME LayoutInv, UNCHANGED <<file, media, reader, lock, pc, writer>>
  PROVE  LayoutInv'
<1> USE DEF file, media, reader, writer
<1>1. \A b \in Blocks : Entries(b)' = Entries(b)
  BY DEF Entries
<1>2. \A h : NoFooterIn(h)' <=> NoFooterIn(h)
  BY DEF NoFooterIn
<1>3. LockInv' /\ MediaInv'
  BY DEF LayoutInv, LockInv, MediaInv
<1>4. EntryInv' /\ TailIsFree' /\ BlocksDisjoint'
  BY <1>1, <1>2 DEF LayoutInv, EntryInv, Settled, TailIsFree, BlocksDisjoint
<1>5. ASSUME NEW w \in Writers PROVE Built(w)'
  <2>1. Built(w) /\ Block(w)' = Block(w)
    BY DEF LayoutInv, BuildInv, Block
  <2> QED BY <1>1, <1>2, <2>1 DEF Built
<1> QED BY <1>3, <1>4, <1>5 DEF LayoutInv, BuildInv

LEMMA StepLayout == TypeOK /\ LayoutInv /\ [Next]_vars => LayoutInv'
<1> SUFFICES ASSUME TypeOK, LayoutInv, [Next]_vars PROVE LayoutInv'
  OBVIOUS
<1>1. ASSUME NEW w \in Writers, Call(w) \/ Proceed(w) PROVE LayoutInv'
  BY <1>1, StartLayout, AllocateLayout, FooterLayout, ZeroLayout, TableLayout,
     PayloadLayout, FlushChunkLayout DEF Proceed
<1> QED BY <1>1, StutterLayout, FlushWritesLayout, KillLayout, PowerLossLayout,
           OpenLayout DEF Next, vars

LEMMA OpensFromLayout == TypeOK /\ LayoutInv => AlwaysOpens
<1> SUFFICES ASSUME TypeOK, LayoutInv, mode = "down"
             PROVE  OpenAccepts(table, size, TailFooter)
  BY DEF AlwaysOpens
<1>1. size \in Nat /\ DataStart < size
  BY SparseAssumption DEF LayoutInv, MediaInv, TypeOK, FileType
<1>2. \A b \in Allocated(table) : b \in Blocks /\ table[b] \in Entries(b)
  BY DEF Allocated, Entries
<1>3. TableEnd <= size
  BY <1>1, SizesAreNat
<1>4. ASSUME NEW b \in Allocated(table)
      PROVE  /\ DataStart <= table[b]
             /\ table[b] + BlockTotal <= DataEnd(size, TailFooter)
  <2>1. b \in Blocks /\ table[b] \in Entries(b)
    BY <1>2
  <2>2. /\ table[b] \in Nat
        /\ \/ table[b] + BlockTotal < size
           \/ table[b] + BlockTotal = size /\ TailFooter = "none"
    BY <2>1, LastSector DEF LayoutInv, FileInv
  <2>3. DataStart <= table[b]
    BY <2>1 DEF LayoutInv, EntryInv
  <2> QED BY <1>1, <2>2, <2>3, SizesAreNat DEF DataEnd
<1>5. \A b1, b2 \in Allocated(table) :
        b1 # b2 => DisjointBlocks(table[b1], table[b2])
  BY <1>2 DEF LayoutInv, BlocksDisjoint
<1> QED BY <1>3, <1>4, <1>5 DEF OpenAccepts

(* The layout survives every interleaving of writers, flushes, failures,
   kills, power losses and reopenings, for any number of them: on images
   whose blocks hold no footer and leave the metadata at least one sector,
   LayoutInv is an invariant, and with it the tail of allocate_block_locked
   lies past every block an entry may come to name.                        *)
THEOREM LayoutCorrect == SoundImages => (Spec => []LayoutInv)
<1> SUFFICES ASSUME SoundImages PROVE Spec => []LayoutInv
  OBVIOUS
<1>1. Init => LayoutInv
  BY InitLayout
<1>2. TypeOK /\ LayoutInv /\ [Next]_vars => LayoutInv'
  BY StepLayout
<1> QED BY <1>1, <1>2, TypeCorrect, PTL DEF Spec

(* allocate_block_locked never hands out a range that an entry names, or may
   be found to name after a failed or a lost write of the BAT.             *)
THEOREM TailNeverReused == SoundImages => (Spec => []TailIsFree)
<1>1. LayoutInv => TailIsFree
  BY DEF LayoutInv
<1> QED BY <1>1, LayoutCorrect, PTL

(* No two guest blocks ever share a sector, whatever mixture of old and new
   BAT entries a crash leaves.                                             *)
THEOREM NeverShared == SoundImages => (Spec => []BlocksDisjoint)
<1>1. LayoutInv => BlocksDisjoint
  BY DEF LayoutInv
<1> QED BY <1>1, LayoutCorrect, PTL

(* Whenever the process is gone, killed at any step or with the machine's
   power, open_inner accepts the image it left behind.                     *)
THEOREM NextOpenAccepts == SoundImages => (Spec => []AlwaysOpens)
<1>1. TypeOK /\ LayoutInv => AlwaysOpens
  BY OpensFromLayout
<1> QED BY <1>1, TypeCorrect, LayoutCorrect, PTL

-----------------------------------------------------------------------------
(* Where a writer works *)

(* A cached entry of an absent block is the only value no entry has. *)
LEMMA CachedEntry ==
  ASSUME NEW b \in Blocks, bat[b] # BAT_UNALLOCATED PROVE bat[b] \in Entries(b)
BY DEF Entries

(* Every entry names a block inside the file, past its metadata. *)
LEMMA EntryExtent ==
  ASSUME TypeOK, LayoutInv, NEW b \in Blocks, NEW e \in Entries(b)
  PROVE  /\ e \in Nat /\ DataStart <= e /\ e + BlockTotal <= size
         /\ Extent(e) \subseteq Sectors
<1>1. e \in Nat
  BY EntriesType
<1>2. DataStart <= e
  BY DEF LayoutInv, EntryInv
<1>3. size \in sizeMedia /\ size \in Nat /\ size <= Capacity
  BY SparseAssumption DEF LayoutInv, MediaInv, TypeOK, FileType
<1>4. e + BlockTotal <= size
  BY <1>1, <1>3, SizesAreNat DEF LayoutInv, EntryInv
<1>5. Extent(e) \subseteq Sectors
  BY <1>1, <1>3, <1>4, SizesAreNat, SparseAssumption DEF Extent, Sectors
<1> QED BY <1>1, <1>2, <1>4, <1>5

(* The bitmap of a block takes at least a sector. *)
LEMMA BitmapTakesRoom == BitmapSectors \in Nat \ {0}
<1>1. \A m \in Nat \ {0}, n \in {8, 512} : CeilDiv(m, n) \in Nat \ {0}
  BY SMTT(30) DEF CeilDiv
<1> QED BY <1>1, LayoutAssumption DEF BitmapSectors

(* The sector of a cell lies in its block, past the bitmap. *)
LEMMA CellInExtent ==
  ASSUME NEW h \in Nat, NEW c \in Cells
  PROVE  /\ DataSectorOf(h, c) \in Extent(h)
         /\ h < DataSectorOf(h, c)
         /\ h \in Extent(h)
<1>1. OffsetOf(c) \in 0 .. SectorsPerBlock - 1 /\ SectorsPerBlock \in Nat
  BY PlaceOfCell, LayoutAssumption DEF Offsets
<1> QED BY <1>1, BitmapTakesRoom DEF DataSectorOf, Extent, BlockTotal

(* The end sectors of a chunk, which define_partial_sectors fills, are sectors
   of the chunk.                                                           *)
LEMMA FillsOwnSectors ==
  ASSUME TypeOK, NEW w \in Writers, NEW c \in Uncovered(w)
  PROVE  \E d \in Chunk(w) : DataSectorOf(host[w], c) = DataSectorOf(host[w], d)
<1>1. /\ cursor[w] \in Nat /\ ChunkStop(w) \in Nat /\ cursor[w] < ChunkStop(w)
  BY ChunkType, SizesAreNat DEF TypeOK, Cells
<1>2. cursor[w] \in Chunk(w) /\ ChunkStop(w) - 1 \in Chunk(w)
  BY <1>1 DEF Chunk
<1>3. \/ OffsetOf(c) = OffsetOf(cursor[w])
      \/ OffsetOf(c) = OffsetOf(ChunkStop(w) - 1)
  BY DEF Uncovered
<1> QED BY <1>2, <1>3 DEF DataSectorOf

LEMMA ChunkCells ==
  ASSUME TypeOK, NEW w \in Writers PROVE Chunk(w) \subseteq Cells
<1>1. /\ cursor[w] \in Nat /\ ChunkStop(w) \in 1 .. VirtualCells
      /\ VirtualCells \in Nat
  BY ChunkType, SizesAreNat DEF TypeOK, Cells
<1> QED BY <1>1 DEF Chunk, Cells

(* The cells of a chunk lie in one block, and share the chunk's end. *)
LEMMA ChunkInBlock ==
  ASSUME NEW c \in Cells, NEW to \in 1 .. VirtualCells, c < to,
         NEW d \in c .. ChunkEnd(c, to) - 1
  PROVE  d \in Cells /\ BlockOf(d) = BlockOf(c) /\ ChunkEnd(d, to) = ChunkEnd(c, to)
<1>1. /\ c \in Nat /\ BlockCells \in Nat \ {0} /\ VirtualCells \in Nat
      /\ ChunkEnd(c, to) \in 1 .. VirtualCells
      /\ to \in Nat
  BY SizesAreNat, ChunkEndBounds DEF Cells
<1>2. d \in Nat /\ c <= d /\ d < ChunkEnd(c, to) /\ d \in Cells
  BY <1>1 DEF Cells
<1>3. BlockOf(c) \in Nat /\ (BlockOf(c) + 1) * BlockCells \in Nat
  <2>1. \A n \in Nat \ {0} : c \div n \in Nat /\ (c \div n + 1) * n \in Nat
    BY <1>1, SMTT(30)
  <2> QED BY <1>1, <2>1 DEF BlockOf
<1>4. d < (BlockOf(c) + 1) * BlockCells
  BY <1>1, <1>2, <1>3 DEF ChunkEnd, Smaller
<1>5. \A m \in Nat, k \in Nat, n \in Nat \ {0} :
        m <= k /\ k < (m \div n + 1) * n => k \div n = m \div n
  BY SMTT(60)
<1>6. BlockOf(d) = BlockOf(c)
  BY <1>1, <1>2, <1>4, <1>5 DEF BlockOf
<1> QED BY <1>2, <1>6 DEF ChunkEnd

(* What a cell of a block in the table is, and where. *)
LEMMA CellsOfBlock ==
  TypeOK /\ LayoutInv =>
    \A c \in Cells :
      /\ Visible(bat, c) \in Values
      /\ bat[BlockOf(c)] # BAT_UNALLOCATED =>
           /\ DataSectorOf(bat[BlockOf(c)], c) \in Sectors
           /\ DataSectorOf(bat[BlockOf(c)], c) < size
           /\ sector[DataSectorOf(bat[BlockOf(c)], c)].cells[PartOf(c)] \in Values
<1> SUFFICES ASSUME TypeOK, LayoutInv, NEW c \in Cells
             PROVE  /\ Visible(bat, c) \in Values
                    /\ bat[BlockOf(c)] # BAT_UNALLOCATED =>
                         /\ DataSectorOf(bat[BlockOf(c)], c) \in Sectors
                         /\ DataSectorOf(bat[BlockOf(c)], c) < size
                         /\ sector[DataSectorOf(bat[BlockOf(c)], c)].cells[PartOf(c)]
                              \in Values
  OBVIOUS
<1>1. CASE bat[BlockOf(c)] = BAT_UNALLOCATED
  BY <1>1 DEF Visible, Values
<1>2. CASE bat[BlockOf(c)] # BAT_UNALLOCATED
  <2> DEFINE e == bat[BlockOf(c)]
  <2>1. BlockOf(c) \in Blocks /\ e \in Entries(BlockOf(c))
    BY <1>2, BlockOfCell, CachedEntry
  <2>2. e \in Nat /\ e + BlockTotal <= size /\ Extent(e) \subseteq Sectors
    BY <2>1, EntryExtent
  <2>3. DataSectorOf(e, c) \in Extent(e)
    BY <2>2, CellInExtent
  <2>4. DataSectorOf(e, c) \in Sectors /\ DataSectorOf(e, c) < size
    BY <2>2, <2>3, SizesAreNat DEF Extent, Sectors, TypeOK, FileType
  <2>5. sector[DataSectorOf(e, c)] \in SectorContents
    BY <2>4 DEF TypeOK, FileType
  <2>6. sector[DataSectorOf(e, c)].cells[PartOf(c)] \in Values
    BY <2>5, PlaceOfCell DEF SectorContents
  <2> HIDE DEF e
  <2>7. Visible(bat, c) \in Values
    BY <2>6 DEF e, Visible, Values
  <2> QED BY <2>4, <2>6, <2>7 DEF e
<1> QED BY <1>1, <1>2

-----------------------------------------------------------------------------
(* What a step writes *)

(* Past the allocation, a writer changes sectors of its own chunk, and at the
   bitmap's place writes no less than what is there.                       *)
LEMMA PayloadWrites ==
  ASSUME TypeOK, NEW w \in Writers,
         \/ Define(w) \/ DefineFails(w) \/ WriteData(w) \/ DataFails(w)
         \/ WriteBitmap(w) \/ BitmapFails(w)
  PROVE  /\ pc[w] \in Landed
         /\ \A s \in Sectors : sector'[s] # sector[s] => s \in Touches(w)
         /\ AtBlock(w) /\ host[w] \in Sectors =>
              sector[host[w]].bits \subseteq sector'[host[w]].bits
<1>1. pc[w] \in Landed
  BY DEF Define, DefineFails, WriteData, DataFails, WriteBitmap, BitmapFails, At,
         Landed
<1>2. ASSUME NEW D \in SUBSET Cells, NEW v, sector' = Filling(host[w], D, v),
             \A c \in D : \E d \in Chunk(w) :
               DataSectorOf(host[w], c) = DataSectorOf(host[w], d)
      PROVE  /\ \A s \in Sectors : sector'[s] # sector[s] => s \in Touches(w)
             /\ host[w] \in Sectors =>
                  sector[host[w]].bits \subseteq sector'[host[w]].bits
  <2>1. \A s \in Sectors : sector'[s] # sector[s] =>
           \E c \in D : DataSectorOf(host[w], c) = s
    BY <1>2 DEF Filling
  <2>2. host[w] \in Sectors => \A c \in D : DataSectorOf(host[w], c) # host[w]
    BY CellInExtent, Defaults DEF Sectors
  <2>3. \A s \in Sectors : sector'[s] # sector[s] => s \in Touches(w)
    BY <1>2, <2>1 DEF Touches
  <2> QED BY <2>1, <2>2, <2>3
<1>3. ASSUME NEW D \in SUBSET Uncovered(w), NEW v,
             sector' = Filling(host[w], D, v)
      PROVE  /\ \A s \in Sectors : sector'[s] # sector[s] => s \in Touches(w)
             /\ host[w] \in Sectors =>
                  sector[host[w]].bits \subseteq sector'[host[w]].bits
  <2>1. D \in SUBSET Cells
    BY DEF Uncovered
  <2>2. \A c \in D : \E d \in Chunk(w) :
          DataSectorOf(host[w], c) = DataSectorOf(host[w], d)
    BY FillsOwnSectors
  <2> QED BY <1>2, <1>3, <2>1, <2>2
<1>4. ASSUME NEW D \in SUBSET Chunk(w), NEW v,
             sector' = Filling(host[w], D, v)
      PROVE  /\ \A s \in Sectors : sector'[s] # sector[s] => s \in Touches(w)
             /\ host[w] \in Sectors =>
                  sector[host[w]].bits \subseteq sector'[host[w]].bits
  <2>1. D \in SUBSET Cells
    BY ChunkCells
  <2> QED BY <1>2, <1>4, <2>1
<1>5. ASSUME NEW S, sector' = Bitmapped(host[w], S),
             pc[w] = "bitmap", bits[w] \subseteq S
      PROVE  /\ \A s \in Sectors : sector'[s] # sector[s] => s \in Touches(w)
             /\ AtBlock(w) /\ host[w] \in Sectors =>
                  sector[host[w]].bits \subseteq sector'[host[w]].bits
  <2>1. \A s \in Sectors : s # host[w] => sector'[s] = sector[s]
    BY <1>5 DEF Bitmapped, TypeOK, FileType
  <2>2. host[w] \in Sectors => sector'[host[w]].bits = S
    BY <1>5 DEF Bitmapped, BitmapSector, TypeOK, FileType
  <2>3. AtBlock(w) => bits[w] = sector[host[w]].bits
    BY <1>5 DEF AtBlock
  <2> QED BY <1>5, <2>1, <2>2, <2>3 DEF Touches
<1>6. CASE Define(w)
  BY <1>1, <1>3, <1>6 DEF Define, Put
<1>7. CASE DefineFails(w)
  BY <1>1, <1>3, <1>7 DEF DefineFails, Put
<1>8. CASE WriteData(w)
  BY <1>1, <1>4, <1>8 DEF WriteData, Put
<1>9. CASE DataFails(w)
  <2>1. PICK n \in cursor[w] .. ChunkStop(w) :
          sector' = Filling(host[w], cursor[w] .. n - 1, op[w].value)
    BY <1>9 DEF DataFails, Put
  <2>2. cursor[w] .. n - 1 \subseteq Chunk(w)
    BY <2>1, ChunkType, SizesAreNat DEF TypeOK, Cells, Chunk
  <2> QED BY <1>1, <1>4, <2>1, <2>2
<1>10. CASE WriteBitmap(w)
  BY <1>1, <1>5, <1>10 DEF WriteBitmap, Put, At
<1>11. CASE BitmapFails(w)
  <2>1. pc[w] = "bitmap"
    BY <1>11 DEF BitmapFails, At
  <2>2. PICK S : sector' = Bitmapped(host[w], bits[w] \cup S)
    BY <1>11 DEF BitmapFails, Put
  <2>3. bits[w] \subseteq bits[w] \cup S
    OBVIOUS
  <2> QED BY <1>1, <1>5, <2>1, <2>2, <2>3, Zenon
<1> QED BY <1>6, <1>7, <1>8, <1>9, <1>10, <1>11

(* An allocation writes at the tail and past it. *)
LEMMA AllocationWrites ==
  ASSUME TypeOK, LayoutInv, NEW w \in Writers,
         WriteFooter(w) \/ FooterFails(w) \/ ZeroBlock(w) \/ ZeroFails(w)
  PROVE  \A s \in Sectors : sector'[s] # sector[s] => next_alloc_off <= s
<1>1. mode = "open" /\ pc[w] \in Building
  BY DEF WriteFooter, FooterFails, ZeroBlock, ZeroFails, At, Building
<1>2. host[w] \in Nat /\ DataStart <= host[w] /\ host[w] = next_alloc_off
  BY <1>1, BuildFacts
<1>3. CASE WriteFooter(w) \/ FooterFails(w)
  <2>1. PICK x : sector' = [sector EXCEPT ![FooterAt(host[w])] = x]
    BY <1>3 DEF WriteFooter, FooterFails, Put
  <2>2. \A s \in Sectors : sector'[s] # sector[s] => s = FooterAt(host[w])
    BY <2>1 DEF TypeOK, FileType
  <2> QED BY <1>2, <2>2, SizesAreNat DEF FooterAt
<1>4. CASE ZeroBlock(w) \/ ZeroFails(w)
  <2>1. PICK n \in 0 .. BlockTotal : ZeroOver(host[w], n)
    BY <1>4, SizesAreNat DEF ZeroBlock, ZeroFails
  <2>2. sector' = Zeroed(host[w], n)
    BY <2>1 DEF ZeroOver, Put
  <2>3. \A s \in Sectors : sector'[s] # sector[s] => host[w] <= s
    BY <1>2, <2>1, <2>2, SizesAreNat DEF Zeroed, Sectors
  <2> QED BY <1>2, <2>3
<1> QED BY <1>3, <1>4

(* The other steps of a call leave every sector as it is. *)
LEMMA OtherSteps ==
  ASSUME NEW w \in Writers,
         \/ Call(w) \/ TakeLock(w)
         \/ Allocate(w) \/ RefuseEntry(w) \/ GrowFails(w)
         \/ FlushFooter(w) \/ FlushZero(w)
         \/ WriteTable(w) \/ TableFails(w) \/ FlushTable(w)
         \/ ReadBitmap(w) \/ FlushChunk(w) \/ CallFails(w)
  PROVE  sector' = sector
BY DEF Call, TakeLock, LookUp, Allocate, RefuseEntry, GrowFails, FlushFooter,
       FlushZero, WriteTable, TableFails, FlushTable, ReadBitmap, FlushChunk,
       CallFails, Grow, Sync, PutEntry, file

(* Of a block that an entry names, a writer's step changes only sectors its
   own chunk touches, and never clears a bit of the block's bitmap.        *)
LEMMA WriterTouches ==
  ASSUME TypeOK, LayoutInv, PayloadInv,
         NEW w \in Writers, Call(w) \/ Proceed(w),
         NEW b \in Blocks, NEW e \in Entries(b), NEW s \in Extent(e),
         sector'[s] # sector[s]
  PROVE  /\ lock = w /\ Block(w) = b /\ s \in Touches(w) /\ pc[w] \in Landed
         /\ s = host[w] => sector[s].bits \subseteq sector'[s].bits
<1>1. /\ s \in Sectors /\ e \in Nat /\ s \in Nat
      /\ e <= s /\ s < e + BlockTotal
  BY EntryExtent, SizesAreNat DEF Extent
<1>2. mode = "open"
  BY DEF Call, Proceed, TakeLock, Allocate, RefuseEntry, GrowFails, WriteFooter,
         FooterFails, FlushFooter, ZeroBlock, ZeroFails, FlushZero, WriteTable,
         TableFails, FlushTable, Define, DefineFails, WriteData, DataFails,
         ReadBitmap, WriteBitmap, BitmapFails, FlushChunk, CallFails, At
<1>3. s < next_alloc_off
  BY <1>1, <1>2, SizesAreNat
  DEF LayoutInv, TailIsFree, TypeOK, ReaderType
<1>4. ~ (WriteFooter(w) \/ FooterFails(w) \/ ZeroBlock(w) \/ ZeroFails(w))
  BY <1>1, <1>3, AllocationWrites DEF TypeOK, ReaderType
<1>5. \/ Define(w) \/ DefineFails(w) \/ WriteData(w) \/ DataFails(w)
      \/ WriteBitmap(w) \/ BitmapFails(w)
  BY <1>4, OtherSteps DEF Proceed
<1>6. pc[w] \in Landed /\ s \in Touches(w) /\ AtBlock(w)
  BY <1>1, <1>5, PayloadWrites DEF PayloadInv
<1>7. lock = w
  BY <1>6 DEF LayoutInv, LockInv, Holding, Steps, Landed
<1>8. /\ Block(w) \in Blocks /\ host[w] \in Nat /\ host[w] \in Entries(Block(w))
      /\ host[w] \in Sectors
  BY <1>6, ChunkType, CachedEntry, Defaults DEF AtBlock, TypeOK, WriterType
<1>9. s \in Extent(host[w])
  <2>1. \A c \in Chunk(w) : c \in Cells
    BY ChunkCells
  <2>2. \A c \in Cells : /\ DataSectorOf(host[w], c) \in Extent(host[w])
                         /\ host[w] \in Extent(host[w])
    BY <1>8, CellInExtent
  <2>3. PICK d \in Chunk(w) : TRUE
    BY ChunkType, SizesAreNat DEF Chunk, TypeOK, Cells
  <2> QED BY <1>6, <2>1, <2>2, <2>3 DEF Touches
<1>10. Block(w) = b
  <2> SUFFICES ASSUME Block(w) # b PROVE FALSE
    OBVIOUS
  <2>1. DisjointBlocks(host[w], e)
    BY <1>8 DEF LayoutInv, BlocksDisjoint
  <2> QED BY <1>1, <1>8, <1>9, <2>1, SizesAreNat DEF DisjointBlocks, Extent
<1> QED BY <1>5, <1>6, <1>7, <1>8, <1>10, PayloadWrites

-----------------------------------------------------------------------------
(* PayloadInv is inductive beside the layout *)

(* The holder moves on: the others are before the lock, and ask nothing. *)
LEMMA HolderAtBlock ==
  ASSUME TypeOK, LockInv, PayloadInv, NEW w \in Writers, NEW step,
         pc[w] \in Holding, Goto(w, step), AtBlock(w)'
  PROVE  PayloadInv'
<1>1. lock = w /\ pc' = [pc EXCEPT ![w] = step]
  BY DEF LockInv, Goto
<1>2. ASSUME NEW u \in Writers, u # w PROVE AtBlock(u)'
  <2>1. pc'[u] \notin Holding
    BY <1>1, <1>2 DEF LockInv, TypeOK, WriterType
  <2> QED BY <2>1 DEF AtBlock, Holding, Building, Publishing, Landed, Steps
<1> QED BY <1>2 DEF PayloadInv

(* A call that ends, or a chunk that does, leaves nothing to ask. *)
LEMMA ReturnAtBlock ==
  ASSUME TypeOK, LockInv, PayloadInv, NEW w \in Writers,
         NEW step \in {"idle", "lock"}, pc[w] \in Holding, Goto(w, step)
  PROVE  PayloadInv'
<1>1. AtBlock(w)'
  BY DEF Goto, AtBlock, Building, Publishing, Landed, TypeOK, WriterType
<1> QED BY <1>1, HolderAtBlock

(* A step of the payload that goes on to another one. *)
LEMMA OnwardAtBlock ==
  ASSUME TypeOK, LockInv, PayloadInv, NEW w \in Writers, NEW step,
         pc[w] \in Holding, Goto(w, step), step # "bitmap",
         UNCHANGED <<bat, op, cursor, host>>,
         \/ pc[w] \in Landed /\ step \in Landed
         \/ /\ pc[w] \in Building \cup Publishing
            /\ step \in Building \cup Publishing
  PROVE  PayloadInv'
<1>1. AtBlock(w) /\ pc'[w] = step /\ Block(w)' = Block(w)
  BY DEF PayloadInv, Goto, TypeOK, WriterType, Block
<1>2. step \notin Landed \/ pc[w] \in Landed
  BY DEF Building, Publishing, Landed
<1>3. AtBlock(w)'
  BY <1>1, <1>2 DEF AtBlock
<1> QED BY <1>3, HolderAtBlock

LEMMA WriterPayload ==
  ASSUME TypeOK, LayoutInv, PayloadInv, NEW w \in Writers,
         Call(w) \/ Proceed(w)
  PROVE  PayloadInv'
<1>1. LockInv /\ AtBlock(w)
  BY DEF LayoutInv, PayloadInv
<1> USE DEF At, Continue
<1>2. CASE Call(w)
  <2>1. ASSUME NEW u \in Writers, u # w PROVE AtBlock(u)'
    <3>1. /\ pc'[u] = pc[u] /\ Block(u)' = Block(u)
          /\ UNCHANGED <<host, bits, bat, sector>>
      BY <1>2, <2>1
      DEF Call, Goto, Block, TypeOK, WriterType, file, reader
    <3> QED BY <2>1, <3>1 DEF PayloadInv, AtBlock
  <2>2. AtBlock(w)'
    BY <1>2 DEF Call, Goto, AtBlock, Building, Publishing, Landed, TypeOK, WriterType
  <2> QED BY <2>1, <2>2 DEF PayloadInv
<1>3. CASE TakeLock(w)
  <2>1. \A u \in Writers : pc[u] \notin Holding
    BY <1>1, <1>3, SparseAssumption DEF TakeLock, LockInv
  <2>2. ASSUME NEW u \in Writers, u # w PROVE AtBlock(u)'
    <3>1. pc'[u] = pc[u]
      BY <1>3, <2>2 DEF TakeLock, LookUp, Goto, TypeOK, WriterType
    <3> QED BY <2>1, <3>1 DEF AtBlock, Holding, Steps, Building, Publishing, Landed
  <2>3. AtBlock(w)'
    BY <1>3
    DEF TakeLock, LookUp, Goto, AtBlock, Block, Building, Publishing, Landed,
        TypeOK, WriterType, reader
  <2> QED BY <2>2, <2>3 DEF PayloadInv
<1>4. CASE Allocate(w)
  <2>1. /\ Goto(w, "footer") /\ pc[w] \in Holding
        /\ host'[w] = next_alloc_off /\ next_alloc_off # BAT_UNALLOCATED
    BY <1>4, LayoutAssumption
    DEF Allocate, Holding, Steps, EntryCanName, TypeOK, WriterType, ReaderType
  <2>2. AtBlock(w)'
    BY <2>1 DEF Goto, AtBlock, Building, Publishing, Landed, TypeOK, WriterType
  <2> QED BY <1>1, <2>1, <2>2, HolderAtBlock
<1>5. CASE \/ RefuseEntry(w) \/ GrowFails(w) \/ ZeroFails(w) \/ TableFails(w)
           \/ DefineFails(w) \/ DataFails(w) \/ BitmapFails(w) \/ CallFails(w)
  <2>1. pc[w] \in Holding /\ Goto(w, "idle")
    BY <1>5
    DEF RefuseEntry, GrowFails, ZeroFails, TableFails, DefineFails, DataFails,
        BitmapFails, CallFails, Fail, Holding, Steps
  <2> QED BY <1>1, <2>1, ReturnAtBlock
<1>6. CASE FlushChunk(w)
  <2>1. pc[w] \in Holding /\ (Goto(w, "idle") \/ Goto(w, "lock"))
    BY <1>6 DEF FlushChunk, EndChunk, Holding, Steps
  <2> QED BY <1>1, <2>1, ReturnAtBlock
<1>7. CASE FooterFails(w)
  <2>1. CASE pc[w] = "footer"
    <3>1. Goto(w, "retryFooter") /\ UNCHANGED <<bat, op, cursor, host>>
      BY <1>7, <2>1 DEF FooterFails, writer, reader
    <3>2. /\ pc[w] \in Holding /\ pc[w] \in Building
          /\ "retryFooter" \in Building
      BY <2>1 DEF Holding, Building, Steps
    <3> QED BY <1>1, <3>1, <3>2, OnwardAtBlock
  <2>2. CASE pc[w] # "footer"
    <3>1. pc[w] \in Holding /\ Goto(w, "idle")
      BY <1>7, <2>2 DEF FooterFails, Fail, Holding, Steps
    <3> QED BY <1>1, <3>1, ReturnAtBlock
  <2> QED BY <2>1, <2>2
<1>8. CASE \/ WriteFooter(w) \/ FlushFooter(w) \/ ZeroBlock(w) \/ FlushZero(w)
           \/ WriteTable(w)
  <2>1. PICK step \in Building \cup Publishing :
          /\ Goto(w, step) /\ UNCHANGED <<bat, op, cursor, host>>
          /\ pc[w] \in Building \cup Publishing
    BY <1>8
    DEF WriteFooter, FlushFooter, ZeroBlock, FlushZero, WriteTable, Building,
        Publishing, writer, reader
  <2>2. pc[w] \in Holding /\ step # "bitmap"
    BY <2>1 DEF Building, Publishing, Holding, Steps
  <2> QED BY <1>1, <2>1, <2>2, OnwardAtBlock
<1>9. CASE FlushTable(w)
  <2>1. /\ Goto(w, "define") /\ pc[w] = "tableFlush"
        /\ bat' = [bat EXCEPT ![Block(w)] = host[w]]
        /\ UNCHANGED <<op, cursor, host>>
    BY <1>9 DEF FlushTable, writer
  <2>2. Block(w) \in Blocks /\ Block(w)' = Block(w) /\ pc'[w] = "define"
    BY <2>1, ChunkType DEF Block, Goto, TypeOK, WriterType
  <2>3. host[w] # BAT_UNALLOCATED
    BY <1>1, <2>1 DEF AtBlock, Publishing
  <2>4. AtBlock(w)'
    BY <2>1, <2>2, <2>3 DEF AtBlock, TypeOK, ReaderType
  <2>5. pc[w] \in Holding
    BY <2>1 DEF Holding, Steps
  <2> QED BY <1>1, <2>1, <2>4, <2>5, HolderAtBlock
<1>10. CASE ReadBitmap(w)
  <2>1. /\ Goto(w, "bitmap") /\ pc[w] = "readBitmap"
        /\ bits'[w] = sector[host[w]].bits
        /\ UNCHANGED <<bat, sector, op, cursor, host>>
    BY <1>10 DEF ReadBitmap, file, reader, TypeOK, WriterType
  <2>2. Block(w)' = Block(w) /\ pc'[w] = "bitmap"
    BY <2>1 DEF Block, Goto, TypeOK, WriterType
  <2>3. host[w] # BAT_UNALLOCATED /\ host[w] = bat[Block(w)]
    BY <1>1, <2>1 DEF AtBlock, Landed
  <2>4. AtBlock(w)'
    BY <2>1, <2>2, <2>3 DEF AtBlock
  <2>5. pc[w] \in Holding
    BY <2>1 DEF Holding, Steps
  <2> QED BY <1>1, <2>1, <2>4, <2>5, HolderAtBlock
<1>11. CASE Define(w) \/ WriteData(w) \/ WriteBitmap(w)
  <2>1. PICK step \in Landed :
          /\ Goto(w, step) /\ UNCHANGED <<bat, op, cursor, host>>
          /\ pc[w] \in Landed /\ step # "bitmap"
    BY <1>11 DEF Define, WriteData, WriteBitmap, Landed, writer, reader
  <2>2. pc[w] \in Holding
    BY <2>1 DEF Landed, Holding, Steps
  <2> QED BY <1>1, <2>1, <2>2, OnwardAtBlock
<1> QED BY <1>2, <1>3, <1>4, <1>5, <1>6, <1>7, <1>8, <1>9, <1>10, <1>11 DEF Proceed

(* A process that ends asks nothing, and one that opens the file finds no
   writer at work.                                                         *)
LEMMA StepPayload ==
  TypeOK /\ LayoutInv /\ PayloadInv /\ [Next]_vars => PayloadInv'
<1> SUFFICES ASSUME TypeOK, LayoutInv, PayloadInv, [Next]_vars PROVE PayloadInv'
  OBVIOUS
<1>1. CASE UNCHANGED <<sector, bat, pc, writer>>
  BY <1>1 DEF PayloadInv, AtBlock, Block, writer
<1>2. CASE UNCHANGED vars
  BY <1>1, <1>2 DEF vars, file, reader
<1>3. CASE FlushWrites
  BY <1>1, <1>3 DEF FlushWrites, Sync, file, reader
<1>4. CASE Stop
  BY <1>4 DEF Stop, PayloadInv, AtBlock, Building, Publishing, Landed
<1>5. CASE Open
  <2>1. \A w \in Writers : pc'[w] = "idle"
    BY <1>5 DEF Open, LayoutInv, LockInv
  <2> QED BY <2>1 DEF PayloadInv, AtBlock, Building, Publishing, Landed
<1> QED BY <1>2, <1>3, <1>4, <1>5, WriterPayload DEF Next, Kill, PowerLoss

LEMMA InitPayload == Init => PayloadInv
BY DEF Init, PayloadInv, AtBlock, Building, Publishing, Landed

(* A writer past the allocation is at the block its cached entry names, and
   the bits it is about to write back are still the block's.               *)
THEOREM PayloadCorrect == SoundImages => (Spec => []PayloadInv)
<1> SUFFICES ASSUME SoundImages PROVE Spec => []PayloadInv
  OBVIOUS
<1>1. Init => PayloadInv
  BY InitPayload
<1>2. TypeOK /\ LayoutInv /\ PayloadInv /\ [Next]_vars => PayloadInv'
  BY StepPayload
<1> QED BY <1>1, <1>2, TypeCorrect, LayoutCorrect, PTL DEF Spec

-----------------------------------------------------------------------------
(* A block in the table belongs to the holder of the lock *)

LEMMA StepOwnsChunk ==
  ASSUME TypeOK, LayoutInv, PayloadInv, Next, mode' = "open",
         NEW b \in Allocated(table), NEW s \in Extent(table[b]),
         sector'[s] # sector[s]
  PROVE  /\ lock \in Writers
         /\ Block(lock) = b
         /\ s \in Touches(lock)
<1>1. b \in Blocks /\ table[b] \in Entries(b)
  BY DEF Allocated, Entries
<1>2. ~ (FlushWrites \/ Kill \/ PowerLoss \/ Open)
  BY DEF FlushWrites, Kill, PowerLoss, Stop, Open, Sync, file
<1>3. PICK w \in Writers : Call(w) \/ Proceed(w)
  BY <1>2 DEF Next
<1>4. lock = w /\ Block(w) = b /\ s \in Touches(w)
  BY <1>1, <1>3, WriterTouches
<1> QED BY <1>4

(* Of the blocks in the table, a running reader changes only the one of the
   writer that holds the lock, and of that one only its bitmap and the
   sectors of the writer's chunk: no allocation, no failed or repeated step
   of another writer, and no flush ever reaches into it.                   *)
THEOREM ChunksAreOwn == SoundImages => (Spec => OnlyOwnChunk)
<1> SUFFICES ASSUME SoundImages PROVE Spec => OnlyOwnChunk
  OBVIOUS
<1>1. TypeOK /\ LayoutInv /\ PayloadInv /\ [Next]_vars =>
        [mode' = "open" =>
           \A b \in Allocated(table) : \A s \in Extent(table[b]) :
             sector'[s] # sector[s] =>
               /\ lock \in Writers
               /\ Block(lock) = b
               /\ s \in Touches(lock)]_vars
  BY StepOwnsChunk
<1> QED BY <1>1, TypeCorrect, LayoutCorrect, PayloadCorrect, PTL
        DEF Spec, OnlyOwnChunk

-----------------------------------------------------------------------------
(* What an allocation leaves of the tail *)

(* A writer's own step, and no other, takes it out of an allocation; the one
   that moves the tail does not end the allocation.                        *)
LEMMA AllocationEnds ==
  ASSUME TypeOK, NEW u \in Writers, Call(u) \/ Proceed(u),
         NEW w \in Writers, pc[w] \in Building \cup Publishing, pc'[w] # pc[w]
  PROVE  \/ next_alloc_off' = next_alloc_off
         \/ pc[w] = "zeroFlush" /\ pc'[w] = "table"
<1>1. u = w
  <2>1. pc' = [pc EXCEPT ![u] = pc'[u]]
    BY DEF Call, Proceed, TakeLock, LookUp, Allocate, RefuseEntry, GrowFails, WriteFooter,
           FooterFails, FlushFooter, ZeroBlock, ZeroFails, FlushZero, WriteTable, TableFails,
           FlushTable, Define, DefineFails, WriteData, DataFails, ReadBitmap, WriteBitmap,
           BitmapFails, FlushChunk, EndChunk, CallFails, Fail, Goto, Continue, TypeOK, WriterType
  <2> QED BY <2>1 DEF TypeOK, WriterType
<1>2. CASE FlushZero(w)
  BY <1>2 DEF FlushZero, At, Continue, Goto, TypeOK, WriterType
<1>3. CASE ~ FlushZero(w)
  BY <1>1, <1>3
  DEF Call, Proceed, TakeLock, LookUp, Allocate, RefuseEntry, GrowFails, WriteFooter,
      FooterFails, FlushFooter, ZeroBlock, ZeroFails, WriteTable, TableFails,
      FlushTable, Define, DefineFails, WriteData, DataFails, ReadBitmap, WriteBitmap,
      BitmapFails, FlushChunk, CallFails, reader
<1> QED BY <1>2, <1>3

LEMMA StepSettlesTail ==
  ASSUME TypeOK, LayoutInv, Next, mode' = "open", NEW w \in Writers
  PROVE  /\ pc[w] \in Building /\ pc'[w] = "idle" => next_alloc_off' = host[w]
         /\ pc[w] \in Publishing /\ pc'[w] \notin Publishing =>
              next_alloc_off' = FooterAt(host[w])
<1>1. /\ pc[w] \in Building => host[w] = next_alloc_off /\ pc[w] # "idle"
      /\ pc[w] \in Publishing => next_alloc_off = FooterAt(host[w])
  BY DEF LayoutInv, BuildInv, Built, Building
<1>2. CASE pc'[w] = pc[w]
  BY <1>1, <1>2
<1>3. CASE pc'[w] # pc[w] /\ pc[w] \in Building \cup Publishing
  <2>1. ~ (FlushWrites \/ Kill \/ PowerLoss \/ Open)
    BY <1>3 DEF FlushWrites, Kill, PowerLoss, Stop, Open, writer
  <2>2. PICK u \in Writers : Call(u) \/ Proceed(u)
    BY <2>1 DEF Next
  <2>3. \/ next_alloc_off' = next_alloc_off
        \/ pc[w] = "zeroFlush" /\ pc'[w] = "table"
    BY <1>3, <2>2, AllocationEnds
  <2> QED BY <1>1, <2>3 DEF Building, Publishing
<1> QED BY <1>2, <1>3

(* An allocation that fails before the tail moved leaves the tail where it
   began, so the range is handed out again; one that got as far as the table,
   and returns or fails, leaves it one block further, so it never is.      *)
THEOREM TailIsSettled == SoundImages => (Spec => TailSettles)
<1> SUFFICES ASSUME SoundImages PROVE Spec => TailSettles
  OBVIOUS
<1>1. TypeOK /\ LayoutInv /\ [Next]_vars =>
        [mode' = "open" =>
           \A w \in Writers :
             /\ pc[w] \in Building /\ pc'[w] = "idle" => next_alloc_off' = host[w]
             /\ pc[w] \in Publishing /\ pc'[w] \notin Publishing =>
                  next_alloc_off' = FooterAt(host[w])]_vars
  BY StepSettlesTail
<1> QED BY <1>1, TypeCorrect, LayoutCorrect, PTL DEF Spec, TailSettles

=============================================================================
