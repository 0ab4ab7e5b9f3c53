--------------------------- MODULE SparseReadProofs ---------------------------
(***************************************************************************)
(* Proofs about SparseRead for any number of readers beside any number of  *)
(* writers: what a read returns, how much of it, and that no reader leaves *)
(* the file.                                                               *)
(*                                                                         *)
(* A reader copies an entry, then a bitmap, then data, and holds no lock   *)
(* over any of it.  The copies stay good because a writer never moves a    *)
(* block that is in the table, never clears a bit of its bitmap, and never *)
(* writes into it but as the block's own writer (SparseImageProofs).     *)
(***************************************************************************)
EXTENDS SparseRead, SparseImageProofs, FiniteSetTheorems

-----------------------------------------------------------------------------
(* Cells, blocks and chunks *)

(* A reader's place in the disk while it is at a chunk. *)
LEMMA ReaderPlace ==
  ASSUME ReadTypeOK, NEW r \in Readers, rcursor[r] < rto[r]
  PROVE  /\ rcursor[r] \in Cells /\ rto[r] \in 1 .. VirtualCells
         /\ ReadChunkEnd(r) \in 1 .. VirtualCells
         /\ rcursor[r] < ReadChunkEnd(r) /\ ReadChunkEnd(r) <= rto[r]
         /\ \A c \in rcursor[r] .. ReadChunkEnd(r) - 1 :
              c \in Cells /\ BlockOf(c) = BlockOf(rcursor[r])
<1>1. /\ rto[r] \in 1 .. VirtualCells /\ rcursor[r] \in 0 .. VirtualCells
      /\ VirtualCells \in Nat
  BY SizesAreNat DEF ReadTypeOK
<1>2. rcursor[r] \in Cells
  BY <1>1 DEF Cells
<1>3. /\ ReadChunkEnd(r) \in 1 .. VirtualCells
      /\ rcursor[r] < ReadChunkEnd(r) /\ ReadChunkEnd(r) <= rto[r]
  BY <1>1, <1>2, ChunkEndBounds DEF ReadChunkEnd
<1>4. \A c \in rcursor[r] .. ReadChunkEnd(r) - 1 :
        c \in Cells /\ BlockOf(c) = BlockOf(rcursor[r])
  BY <1>1, <1>2, ChunkInBlock DEF ReadChunkEnd
<1> QED BY <1>1, <1>2, <1>3, <1>4

(* A run ends where the bit changes: it is an interval of cells. *)
LEMMA RunOfReader ==
  ASSUME ReadTypeOK, NEW r \in Readers, rcursor[r] < rto[r]
  PROVE  \E n \in rcursor[r] + 1 .. ReadChunkEnd(r) :
           Run(r) = rcursor[r] .. n - 1 /\ rcursor[r] + Cardinality(Run(r)) = n
<1>1. /\ rcursor[r] \in Nat /\ ReadChunkEnd(r) \in Nat
      /\ rcursor[r] < ReadChunkEnd(r)
  BY ReaderPlace, SizesAreNat DEF Cells
<1>2. Run(r) \in SUBSET (rcursor[r] .. ReadChunkEnd(r) - 1)
  BY DEF Run
<1>3. rcursor[r] \in Run(r)
  BY <1>1 DEF Run
<1>4. ASSUME NEW c \in Run(r), NEW d \in rcursor[r] .. c PROVE d \in Run(r)
  <2>1. /\ c \in rcursor[r] .. ReadChunkEnd(r) - 1
        /\ \A x \in rcursor[r] .. c : Present(r, x) = Present(r, rcursor[r])
    BY DEF Run
  <2>2. /\ d \in rcursor[r] .. ReadChunkEnd(r) - 1
        /\ \A x \in rcursor[r] .. d : x \in rcursor[r] .. c
    BY <1>1, <2>1
  <2> QED BY <2>1, <2>2 DEF Run
<1> DEFINE S == Run(r)
           a == rcursor[r]
           z == ReadChunkEnd(r)
<1>5. /\ a \in Nat /\ z \in Nat
      /\ S \in SUBSET (a .. z - 1) /\ a \in S
      /\ \A c \in S : \A d \in a .. c : d \in S
  BY <1>1, <1>2, <1>3, <1>4
<1> HIDE DEF S, a, z
<1>6. \E n \in a + 1 .. z : S = a .. n - 1 /\ a + Cardinality(S) = n
  <2>1. S \in SUBSET Nat /\ S # {} /\ \A c \in S : c <= z
    BY <1>5
  <2>2. PICK m \in S : \A c \in S : c <= m
    BY <1>5, <2>1, MaxExists
  <2>3. m \in a .. z - 1 /\ m \in Int
    BY <1>5, <2>2
  <2>4. S = a .. m
    <3>1. \A c \in S : c \in a .. m
      BY <1>5, <2>2
    <3>2. \A d \in a .. m : d \in S
      BY <1>5, <2>2
    <3> QED BY <3>1, <3>2
  <2>5. Cardinality(S) = m - a + 1
    BY <1>5, <2>3, <2>4, FS_Interval
  <2>6. /\ m + 1 \in a + 1 .. z /\ S = a .. (m + 1) - 1
        /\ a + Cardinality(S) = m + 1
    BY <1>5, <2>3, <2>4, <2>5
  <2> QED BY <2>6
<1> QED BY <1>6 DEF S, a, z

LEMMA CellsOfBlockNext ==
  (TypeOK /\ LayoutInv)' => \A c \in Cells : Visible(bat, c)' \in Values
<1>1. TypeOK /\ LayoutInv => \A c \in Cells : Visible(bat, c) \in Values
  BY CellsOfBlock
<1>2. (TypeOK /\ LayoutInv => \A c \in Cells : Visible(bat, c) \in Values)'
  BY <1>1, PTL
<1> QED BY <1>2

-----------------------------------------------------------------------------
(* What a writer's step leaves a reader *)

(* A block in the table stays where it is, and keeps the bits it has. *)
LEMMA BlockStays ==
  ASSUME TypeOK, LayoutInv, PayloadInv, Next, mode = "open", mode' = "open",
         NEW b \in Blocks, bat[b] # BAT_UNALLOCATED
  PROVE  bat'[b] = bat[b] /\ sector[bat[b]].bits \subseteq sector'[bat[b]].bits
<1>1. CASE FlushWrites
  BY <1>1 DEF FlushWrites, Sync, file, reader
<1>2. CASE \E w \in Writers : Call(w) \/ Proceed(w)
  <2>1. PICK w \in Writers : Call(w) \/ Proceed(w)
    BY <1>2
  <2>2. /\ bat[b] \in Entries(b) /\ bat[b] \in Nat
        /\ bat[b] \in Extent(bat[b])
    BY CachedEntry, EntryExtent, SizesAreNat DEF Extent
  <2>3. ASSUME sector'[bat[b]] # sector[bat[b]]
        PROVE  sector[bat[b]].bits \subseteq sector'[bat[b]].bits
    <3>1. /\ Block(w) = b /\ pc[w] \in Landed
          /\ bat[b] = host[w] => sector[bat[b]].bits \subseteq sector'[bat[b]].bits
      BY <2>1, <2>2, <2>3, WriterTouches
    <3>2. bat[b] = host[w]
      BY <3>1 DEF PayloadInv, AtBlock
    <3> QED BY <3>1, <3>2
  <2>4. bat'[b] = bat[b]
    <3>1. CASE FlushTable(w)
      <4>1. bat[Block(w)] = BAT_UNALLOCATED
        BY <3>1 DEF LayoutInv, BuildInv, Built, FlushTable, At, Publishing
      <4> QED BY <3>1, <4>1 DEF FlushTable, TypeOK, ReaderType
    <3>2. CASE ~ FlushTable(w)
      BY <2>1, <3>2
      DEF Call, Proceed, TakeLock, LookUp, Allocate, RefuseEntry, GrowFails,
          WriteFooter, FooterFails, FlushFooter, ZeroBlock, ZeroFails, FlushZero,
          WriteTable, TableFails, Define, DefineFails, WriteData, DataFails,
          ReadBitmap, WriteBitmap, BitmapFails, FlushChunk, CallFails, reader
    <3> QED BY <3>1, <3>2
  <2> QED BY <2>3, <2>4
<1> QED BY <1>1, <1>2 DEF Next, Kill, PowerLoss, Open, Stop

(* The cells of a read keep their history, and gain what they are now. *)
LEMMA NoticeTypes ==
  ASSUME ReadTypeOK, Notice, (TypeOK /\ LayoutInv)'
  PROVE  /\ ReadTypeOK'
         /\ \A r \in Readers, c \in Cells :
              /\ seen[r][c] = {} => seen'[r][c] = {}
              /\ seen[r][c] # {} => seen'[r][c] = seen[r][c] \cup {Visible(bat, c)'}
<1>1. \A c \in Cells : Visible(bat, c)' \in Values
  BY CellsOfBlockNext
<1>2. UNCHANGED <<rpc, rto, rcursor, rhost, rbits, buf, reads>>
  BY DEF Notice, place
<1>3. seen' \in [Readers -> [Cells -> SUBSET Values]]
  BY <1>1 DEF Notice, ReadTypeOK
<1>4. \A r \in Readers, c \in Cells :
        /\ seen[r][c] = {} => seen'[r][c] = {}
        /\ seen[r][c] # {} => seen'[r][c] = seen[r][c] \cup {Visible(bat, c)'}
  BY DEF Notice
<1> QED BY <1>2, <1>3, <1>4 DEF ReadTypeOK

LEMMA NoticeTold ==
  ASSUME ReadTypeOK, Notice, (TypeOK /\ LayoutInv)', mode' = "open",
         NEW r \in Readers, Told(r)
  PROVE  Told(r)'
<1>1. UNCHANGED <<rpc, rto, rcursor, buf>>
  BY DEF Notice, place
<1>2. \A c \in Cells :
        /\ seen[r][c] = {} => seen'[r][c] = {}
        /\ seen[r][c] # {} => seen'[r][c] = seen[r][c] \cup {Visible(bat, c)'}
  BY NoticeTypes
<1>3. Ahead(r)' = Ahead(r)
  BY <1>1 DEF Ahead
<1>4. ASSUME NEW c \in Cells
      PROVE  /\ seen'[r][c] # {} <=> buf'[r][c] # Unread \/ c \in Ahead(r)'
             /\ seen'[r][c] # {} => Visible(bat, c)' \in seen'[r][c]
             /\ buf'[r][c] # Unread => buf'[r][c] \in seen'[r][c]
  <2>1. /\ seen[r][c] # {} <=> buf[r][c] # Unread \/ c \in Ahead(r)
        /\ buf[r][c] # Unread => buf[r][c] \in seen[r][c]
    BY DEF Told
  <2>2. buf'[r][c] = buf[r][c]
    BY <1>1
  <2> QED BY <1>2, <1>3, <2>1, <2>2
<1>5. /\ rpc'[r] = "idle" => \A c \in Cells : seen'[r][c] = {}
      /\ rpc'[r] \in Reading => rcursor'[r] < rto'[r]
  BY <1>1, <1>2 DEF Told
<1> QED BY <1>4, <1>5 DEF Told

LEMMA NoticeAtHost ==
  ASSUME TypeOK, LayoutInv, PayloadInv, ReadTypeOK, Next, Notice,
         (TypeOK /\ LayoutInv)', mode' = "open",
         NEW r \in Readers, Told(r), AtHost(r)
  PROVE  AtHost(r)'
<1>1. /\ UNCHANGED <<rpc, rto, rcursor, rhost, rbits>>
      /\ ReadChunkEnd(r)' = ReadChunkEnd(r)
  BY DEF Notice, place, ReadChunkEnd
<1>2. CASE rpc[r] \in {"bits", "run"}
  <2>1. mode = "open"
    BY <1>2 DEF Told, TypeOK, ReaderType
  <2>2. rcursor[r] \in Cells
    BY <1>2, ReaderPlace DEF Told, Reading
  <2> DEFINE b == BlockOf(rcursor[r])
  <2>3. b \in Blocks /\ rhost[r] = bat[b] /\ bat[b] # BAT_UNALLOCATED
    BY <1>2, <2>2, BlockOfCell DEF AtHost
  <2>4. bat'[b] = bat[b] /\ sector[bat[b]].bits \subseteq sector'[bat[b]].bits
    BY <2>1, <2>3, BlockStays
  <2>5. /\ rhost'[r] # BAT_UNALLOCATED
        /\ rhost'[r] = bat'[BlockOf(rcursor'[r])]
    BY <1>1, <2>3, <2>4
  <2>6. ASSUME rpc'[r] = "run"
        PROVE  /\ rbits'[r] \subseteq sector'[rhost'[r]].bits
               /\ \A c \in rcursor'[r] .. ReadChunkEnd(r)' - 1 :
                    ~ Present(r, c)' => Zero \in seen'[r][c]
    <3>1. rpc[r] = "run"
      BY <1>1, <2>6
    <3>2. rbits[r] \subseteq sector[rhost[r]].bits
      BY <3>1 DEF AtHost
    <3>3. rbits'[r] \subseteq sector'[rhost'[r]].bits
      BY <1>1, <2>3, <2>4, <3>2
    <3>4. ASSUME NEW c \in rcursor[r] .. ReadChunkEnd(r) - 1, ~ Present(r, c)'
          PROVE  Zero \in seen'[r][c]
      <4>1. ~ Present(r, c)
        BY <1>1, <3>4 DEF Present
      <4>2. Zero \in seen[r][c]
        BY <3>1, <4>1 DEF AtHost
      <4>3. c \in Cells
        BY <3>1, ReaderPlace DEF Told, Reading
      <4> QED BY <4>2, <4>3, NoticeTypes
    <3> QED BY <1>1, <3>3, <3>4
  <2> QED BY <2>5, <2>6 DEF AtHost
<1>3. CASE rpc[r] \notin {"bits", "run"}
  BY <1>1, <1>3 DEF AtHost
<1> QED BY <1>2, <1>3

LEMMA ResetReaders ==
  ASSUME ReadTypeOK, Reset PROVE ReaderInv'
<1>1. 1 \in 1 .. VirtualCells /\ 0 \in 0 .. VirtualCells /\ 0 \in Sectors
  BY SizesAreNat, SparseAssumption DEF Sectors
<1>2. ReadTypeOK'
  BY <1>1 DEF Reset, ReadTypeOK, ReadSteps, EmptyBuffer, NoCells
<1>3. ASSUME NEW r \in Readers PROVE Told(r)' /\ AtHost(r)'
  <2>1. rpc'[r] = "idle" /\ seen'[r] = NoCells /\ buf'[r] = EmptyBuffer
    BY DEF Reset
  <2>2. Ahead(r)' = {}
    BY <2>1 DEF Ahead, Reading
  <2>3. \A c \in Cells : seen'[r][c] = {} /\ buf'[r][c] = Unread
    BY <2>1 DEF NoCells, EmptyBuffer
  <2> QED BY <2>1, <2>2, <2>3 DEF Told, AtHost, Reading
<1> QED BY <1>2, <1>3 DEF ReaderInv

LEMMA WriterStepReaders ==
  ASSUME TypeOK, LayoutInv, PayloadInv, ReaderInv, WriterStep,
         (TypeOK /\ LayoutInv)'
  PROVE  ReaderInv'
<1>1. CASE mode' = "open"
  <2>1. Next /\ Notice /\ ReadTypeOK
    BY <1>1 DEF WriterStep, ReaderInv
  <2>2. ReadTypeOK'
    BY <2>1, NoticeTypes
  <2>3. ASSUME NEW r \in Readers PROVE Told(r)' /\ AtHost(r)'
    <3>1. Told(r) /\ AtHost(r)
      BY DEF ReaderInv
    <3>2. Told(r)'
      BY <1>1, <2>1, <3>1, NoticeTold
    <3>3. AtHost(r)'
      BY <1>1, <2>1, <3>1, NoticeAtHost
    <3> QED BY <3>2, <3>3
  <2> QED BY <2>2, <2>3 DEF ReaderInv
<1>2. CASE mode' # "open"
  BY <1>2, ResetReaders DEF WriterStep, ReaderInv
<1> QED BY <1>1, <1>2

-----------------------------------------------------------------------------
(* What a reader's own step leaves of the readers *)

Seen == <<mode, bat, sector>>

(* A reader a step leaves alone. *)
LEMMA OtherReader ==
  ASSUME NEW r \in Readers, Told(r) /\ AtHost(r), UNCHANGED Seen,
         rpc'[r] = rpc[r], rto'[r] = rto[r], rcursor'[r] = rcursor[r],
         rhost'[r] = rhost[r], rbits'[r] = rbits[r], buf'[r] = buf[r],
         seen'[r] = seen[r]
  PROVE  (Told(r) /\ AtHost(r))'
<1>1. Ahead(r)' = Ahead(r) /\ ReadChunkEnd(r)' = ReadChunkEnd(r)
  BY DEF Ahead, ReadChunkEnd
<1>2. \A c : Visible(bat, c)' = Visible(bat, c) /\ Present(r, c)' = Present(r, c)
  BY DEF Visible, Present, Seen
<1> QED BY <1>1, <1>2 DEF Told, AtHost, Seen

(* The step of one reader, when its own part of the invariant holds after. *)
LEMMA OneReader ==
  ASSUME ReaderInv, UNCHANGED Seen, NEW r \in Readers, ReadTypeOK',
         Told(r)', AtHost(r)',
         \A q \in Readers \ {r} :
           /\ rpc'[q] = rpc[q] /\ rto'[q] = rto[q] /\ rcursor'[q] = rcursor[q]
           /\ rhost'[q] = rhost[q] /\ rbits'[q] = rbits[q] /\ buf'[q] = buf[q]
           /\ seen'[q] = seen[q]
  PROVE  ReaderInv'
<1>1. ASSUME NEW q \in Readers, q # r PROVE Told(q)' /\ AtHost(q)'
  <2>1. Told(q) /\ AtHost(q)
    BY DEF ReaderInv
  <2> QED BY <1>1, <2>1, OtherReader
<1> QED BY <1>1 DEF ReaderInv

LEMMA LeaveKeeps ==
  ASSUME ReaderInv, UNCHANGED Seen, NEW r \in Readers, Leave(r)
  PROVE  ReaderInv'
<1>1. 1 \in 1 .. VirtualCells /\ 0 \in 0 .. VirtualCells /\ 0 \in Sectors
  BY SizesAreNat, SparseAssumption DEF Sectors
<1>2. ReadTypeOK'
  BY <1>1 DEF Leave, ReaderInv, ReadTypeOK, ReadSteps, EmptyBuffer, NoCells
<1>3. rpc'[r] = "idle" /\ seen'[r] = NoCells /\ buf'[r] = EmptyBuffer
  BY DEF Leave, ReaderInv, ReadTypeOK
<1>4. Ahead(r)' = {} /\ \A c \in Cells : seen'[r][c] = {} /\ buf'[r][c] = Unread
  BY <1>3 DEF Ahead, Reading, NoCells, EmptyBuffer
<1>5. Told(r)' /\ AtHost(r)'
  BY <1>3, <1>4 DEF Told, AtHost, Reading
<1>6. \A q \in Readers \ {r} :
        /\ rpc'[q] = rpc[q] /\ rto'[q] = rto[q] /\ rcursor'[q] = rcursor[q]
        /\ rhost'[q] = rhost[q] /\ rbits'[q] = rbits[q] /\ buf'[q] = buf[q]
        /\ seen'[q] = seen[q]
  BY DEF Leave, ReaderInv, ReadTypeOK
<1> QED BY <1>2, <1>5, <1>6, OneReader

LEMMA ReadCallKeeps ==
  ASSUME TypeOK, LayoutInv, ReaderInv, NEW r \in Readers, ReadCall(r)
  PROVE  ReaderInv'
<1>1. PICK q \in ReadRequests :
        /\ rcursor' = [rcursor EXCEPT ![r] = q[1]]
        /\ rto' = [rto EXCEPT ![r] = q[2]]
        /\ seen' = [seen EXCEPT ![r] =
             [c \in Cells |-> IF c \in q[1] .. q[2] - 1 THEN {Visible(bat, c)}
                              ELSE {}]]
  BY DEF ReadCall
<1>2. /\ q[1] \in Cells /\ q[2] \in 1 .. VirtualCells /\ q[1] < q[2]
      /\ q[1] \in 0 .. VirtualCells
  BY ReadAssumption, SizesAreNat DEF Cells
<1>3. /\ rpc' = [rpc EXCEPT ![r] = "look"] /\ rpc[r] = "idle" /\ mode = "open"
      /\ UNCHANGED <<rhost, rbits, buf>> /\ UNCHANGED Seen
      /\ reads' = reads + 1
  BY DEF ReadCall, RAt, vars, file, reader, Seen
<1>4. \A c \in Cells : Visible(bat, c) \in Values
  BY CellsOfBlock
<1>5. ReadTypeOK'
  BY <1>1, <1>2, <1>3, <1>4 DEF ReaderInv, ReadTypeOK, ReadSteps
<1>6. /\ rpc'[r] = "look" /\ rcursor'[r] = q[1] /\ rto'[r] = q[2]
      /\ buf'[r] = buf[r] /\ mode' = mode
      /\ \A c \in Cells :
           seen'[r][c] = IF c \in q[1] .. q[2] - 1 THEN {Visible(bat, c)} ELSE {}
  BY <1>1, <1>3 DEF ReaderInv, ReadTypeOK, Seen
<1>7. Ahead(r)' = q[1] .. q[2] - 1
  BY <1>6 DEF Ahead, Reading
<1>8. \A c \in Cells : buf[r][c] = Unread
  <2>1. Told(r) /\ Ahead(r) = {}
    BY <1>3 DEF ReaderInv, Ahead, Reading
  <2> QED BY <1>3, <2>1 DEF Told
<1>9. \A c \in Cells : Visible(bat, c)' = Visible(bat, c)
  BY <1>3 DEF Visible, Seen
<1>10. Told(r)'
  BY <1>2, <1>3, <1>6, <1>7, <1>8, <1>9 DEF Told
<1>11. AtHost(r)'
  BY <1>6 DEF AtHost
<1>12. \A u \in Readers \ {r} :
         /\ rpc'[u] = rpc[u] /\ rto'[u] = rto[u] /\ rcursor'[u] = rcursor[u]
         /\ rhost'[u] = rhost[u] /\ rbits'[u] = rbits[u] /\ buf'[u] = buf[u]
         /\ seen'[u] = seen[u]
  BY <1>1, <1>3 DEF ReaderInv, ReadTypeOK
<1> QED BY <1>3, <1>5, <1>10, <1>11, <1>12, OneReader

(* The bytes of an interval of cells go into the buffer.  They are bytes the
   cells have been seen to hold, and the reader goes on to the rest of its
   chunk only when it is at the chunk's data.                              *)
LEMMA FillKeeps ==
  ASSUME ReaderInv, UNCHANGED Seen, NEW r \in Readers,
         rpc[r] \in {"look", "run"},
         NEW n \in rcursor[r] + 1 .. ReadChunkEnd(r),
         rpc[r] = "look" => n = ReadChunkEnd(r),
         NEW bytes, DOMAIN bytes = rcursor[r] .. n - 1,
         rcursor[r] + Cardinality(DOMAIN bytes) = n,
         \A c \in rcursor[r] .. n - 1 : bytes[c] \in Values /\ bytes[c] \in seen[r][c],
         Fill(r, bytes), UNCHANGED <<rto, rhost, rbits, seen, reads>>
  PROVE  ReaderInv'
<1>1. /\ ReadTypeOK /\ Told(r) /\ AtHost(r) /\ rcursor[r] < rto[r]
  BY DEF ReaderInv, Told, Reading
<1>2. /\ rcursor[r] \in Cells /\ rto[r] \in 1 .. VirtualCells
      /\ ReadChunkEnd(r) \in 1 .. VirtualCells
      /\ ReadChunkEnd(r) <= rto[r]
      /\ \A c \in rcursor[r] .. ReadChunkEnd(r) - 1 :
           c \in Cells /\ BlockOf(c) = BlockOf(rcursor[r])
  BY <1>1, ReaderPlace
<1>3. /\ rcursor[r] \in Nat /\ n \in Nat /\ rcursor[r] < n /\ n <= rto[r]
      /\ n \in 0 .. VirtualCells /\ rto[r] \in Nat /\ n <= ReadChunkEnd(r)
  BY <1>2, SizesAreNat DEF Cells
<1> DEFINE step == IF n = rto[r] THEN "done"
                   ELSE IF n = ReadChunkEnd(r) THEN "look" ELSE "run"
<1>4. /\ buf' = [buf EXCEPT ![r] =
           [c \in Cells |-> IF c \in rcursor[r] .. n - 1 THEN bytes[c] ELSE buf[r][c]]]
      /\ rcursor' = [rcursor EXCEPT ![r] = n]
      /\ rpc' = [rpc EXCEPT ![r] = step]
  BY DEF Fill
<1>5. step \in {"done", "look", "run"}
  OBVIOUS
<1>6. ReadTypeOK'
  <2>1. \A c \in rcursor[r] .. n - 1 : bytes[c] \in Values
    OBVIOUS
  <2>2. buf' \in [Readers -> [Cells -> Values \cup {Unread}]]
    BY <1>1, <1>4, <2>1 DEF ReadTypeOK
  <2>3. rcursor' \in [Readers -> 0 .. VirtualCells]
    BY <1>1, <1>3, <1>4 DEF ReadTypeOK
  <2>4. rpc' \in [Readers -> ReadSteps]
    BY <1>1, <1>4, <1>5 DEF ReadTypeOK, ReadSteps
  <2> QED BY <1>1, <2>2, <2>3, <2>4 DEF ReadTypeOK
<1>7. /\ rpc'[r] = step /\ rcursor'[r] = n /\ rto'[r] = rto[r]
      /\ seen'[r] = seen[r] /\ rhost'[r] = rhost[r] /\ rbits'[r] = rbits[r]
      /\ \A c \in Cells :
           buf'[r][c] = IF c \in rcursor[r] .. n - 1 THEN bytes[c] ELSE buf[r][c]
  BY <1>1, <1>4 DEF ReadTypeOK
<1>8. Ahead(r)' = n .. rto[r] - 1 /\ Ahead(r) = rcursor[r] .. rto[r] - 1
  BY <1>3, <1>7 DEF Ahead, Reading
<1>9. \A c \in Cells : Visible(bat, c)' = Visible(bat, c)
  BY DEF Visible, Seen
<1>10. Told(r)'
  <2>1. ASSUME NEW c \in Cells
        PROVE  /\ seen'[r][c] # {} <=> buf'[r][c] # Unread \/ c \in Ahead(r)'
               /\ seen'[r][c] # {} => Visible(bat, c)' \in seen'[r][c]
               /\ buf'[r][c] # Unread => buf'[r][c] \in seen'[r][c]
    <3>1. /\ seen[r][c] # {} <=> buf[r][c] # Unread \/ c \in Ahead(r)
          /\ seen[r][c] # {} => Visible(bat, c) \in seen[r][c]
          /\ buf[r][c] # Unread => buf[r][c] \in seen[r][c]
      BY <1>1 DEF Told
    <3>2. CASE c \in rcursor[r] .. n - 1
      <4>1. /\ buf'[r][c] = bytes[c] /\ bytes[c] # Unread /\ bytes[c] \in seen[r][c]
        BY <1>7, <3>2, ReadAssumption
      <4> QED BY <1>7, <1>9, <3>1, <4>1
    <3>3. CASE c \notin rcursor[r] .. n - 1
      <4>1. buf'[r][c] = buf[r][c]
        BY <1>7, <3>3
      <4>2. c \in Ahead(r)' <=> c \in Ahead(r)
        BY <1>3, <1>8, <3>3 DEF Cells
      <4> QED BY <1>7, <1>9, <3>1, <4>1, <4>2
    <3> QED BY <3>2, <3>3
  <2>2. mode' = "down" => rpc'[r] = "idle"
    BY <1>1 DEF Told, Seen
  <2>3. rpc'[r] \in Reading => rcursor'[r] < rto'[r]
    BY <1>3, <1>7 DEF Reading
  <2> QED BY <1>5, <1>7, <2>1, <2>2, <2>3 DEF Told
<1>11. AtHost(r)'
  <2>1. CASE step # "run"
    BY <1>5, <1>7, <2>1 DEF AtHost
  <2>2. CASE step = "run"
    <3>1. n < ReadChunkEnd(r) /\ rpc[r] = "run" /\ n \in rcursor[r] .. ReadChunkEnd(r) - 1
      BY <1>2, <1>3, <2>2
    <3>2. BlockOf(n) = BlockOf(rcursor[r]) /\ ChunkEnd(n, rto[r]) = ReadChunkEnd(r)
      BY <1>1, <1>2, <3>1, ChunkInBlock DEF ReadChunkEnd
    <3>3. ReadChunkEnd(r)' = ReadChunkEnd(r)
      BY <1>7, <3>2 DEF ReadChunkEnd
    <3>4. \A c : Present(r, c)' = Present(r, c)
      BY <1>7 DEF Present
    <3>5. \A c \in n .. ReadChunkEnd(r) - 1 : c \in rcursor[r] .. ReadChunkEnd(r) - 1
      BY <1>2, <1>3
    <3> QED BY <1>1, <1>7, <3>1, <3>2, <3>3, <3>4, <3>5 DEF AtHost, Seen
  <2> QED BY <2>1, <2>2
<1>12. \A q \in Readers \ {r} :
         /\ rpc'[q] = rpc[q] /\ rto'[q] = rto[q] /\ rcursor'[q] = rcursor[q]
         /\ rhost'[q] = rhost[q] /\ rbits'[q] = rbits[q] /\ buf'[q] = buf[q]
         /\ seen'[q] = seen[q]
  BY <1>1, <1>4 DEF ReadTypeOK
<1> QED BY <1>6, <1>10, <1>11, <1>12, OneReader

-----------------------------------------------------------------------------
(* The steps of a read *)

LEMMA LookEntryKeeps ==
  ASSUME TypeOK, LayoutInv, ReaderInv, NEW r \in Readers, LookEntry(r)
  PROVE  ReaderInv'
<1>1. /\ ReadTypeOK /\ Told(r) /\ rpc[r] = "look" /\ rcursor[r] < rto[r]
      /\ mode = "open"
  BY DEF LookEntry, RAt, ReaderInv, Told, Reading
<1>2. /\ rcursor[r] \in Cells /\ rto[r] \in 1 .. VirtualCells
      /\ ReadChunkEnd(r) \in 1 .. VirtualCells
      /\ rcursor[r] < ReadChunkEnd(r) /\ ReadChunkEnd(r) <= rto[r]
      /\ \A c \in rcursor[r] .. ReadChunkEnd(r) - 1 :
           c \in Cells /\ BlockOf(c) = BlockOf(rcursor[r])
  BY <1>1, ReaderPlace
<1>3. UNCHANGED Seen /\ UNCHANGED <<rto, rbits, seen, reads>>
  BY DEF LookEntry, vars, file, reader, Seen
<1>4. CASE bat[BlockOf(rcursor[r])] = BAT_UNALLOCATED
  <2> DEFINE n == ReadChunkEnd(r)
             zeros == [c \in rcursor[r] .. n - 1 |-> Zero]
  <2>1. Fill(r, zeros) /\ UNCHANGED rhost
    BY <1>4 DEF LookEntry
  <2>2. DOMAIN zeros = rcursor[r] .. n - 1
    OBVIOUS
  <2>3. Cardinality(DOMAIN zeros) = n - rcursor[r]
    <3>1. /\ rcursor[r] \in Int /\ n \in Int /\ n - 1 \in Int /\ rcursor[r] < n
      BY <1>2, SizesAreNat DEF Cells
    <3> HIDE DEF n
    <3>2. Cardinality(rcursor[r] .. n - 1) = n - rcursor[r]
      BY <3>1, FS_Interval
    <3> QED BY <2>2, <3>2
  <2>4. n \in rcursor[r] + 1 .. ReadChunkEnd(r) /\ rcursor[r] + (n - rcursor[r]) = n
    BY <1>2, SizesAreNat DEF Cells
  <2>5. ASSUME NEW c \in rcursor[r] .. n - 1
        PROVE  zeros[c] \in Values /\ zeros[c] \in seen[r][c]
    <3>1. c \in Cells /\ Visible(bat, c) = Zero
      BY <1>2, <1>4 DEF Visible
    <3>2. c \in Ahead(r)
      BY <1>1, <1>2, SizesAreNat DEF Ahead, Reading, Cells
    <3>3. Zero \in seen[r][c]
      BY <1>1, <3>1, <3>2 DEF Told
    <3> QED BY <3>3 DEF Values
  <2> HIDE DEF zeros
  <2> QED BY <1>1, <1>3, <2>1, <2>2, <2>3, <2>4, <2>5, FillKeeps
<1>5. CASE bat[BlockOf(rcursor[r])] # BAT_UNALLOCATED
  <2>1. /\ rhost' = [rhost EXCEPT ![r] = bat[BlockOf(rcursor[r])]]
        /\ rpc' = [rpc EXCEPT ![r] = "bits"]
        /\ UNCHANGED <<rcursor, buf>>
    BY <1>5 DEF LookEntry
  <2>2. bat[BlockOf(rcursor[r])] \in Sectors
    BY <1>2, <1>5, BlockOfCell DEF TypeOK, ReaderType
  <2>3. ReadTypeOK'
    BY <1>1, <1>3, <2>1, <2>2 DEF ReadTypeOK, ReadSteps
  <2>4. /\ rpc'[r] = "bits" /\ rhost'[r] = bat[BlockOf(rcursor[r])]
        /\ rcursor'[r] = rcursor[r] /\ rto'[r] = rto[r] /\ buf'[r] = buf[r]
        /\ seen'[r] = seen[r]
    BY <1>1, <1>3, <2>1 DEF ReadTypeOK
  <2>5. Ahead(r)' = Ahead(r) /\ \A c : Visible(bat, c)' = Visible(bat, c)
    BY <1>1, <1>3, <2>4 DEF Ahead, Reading, Visible, Seen
  <2>6. Told(r)'
    BY <1>1, <1>3, <2>4, <2>5 DEF Told, Seen
  <2>7. AtHost(r)'
    BY <1>3, <1>5, <2>4 DEF AtHost, Seen
  <2>8. \A q \in Readers \ {r} :
          /\ rpc'[q] = rpc[q] /\ rto'[q] = rto[q] /\ rcursor'[q] = rcursor[q]
          /\ rhost'[q] = rhost[q] /\ rbits'[q] = rbits[q] /\ buf'[q] = buf[q]
          /\ seen'[q] = seen[q]
    BY <1>1, <1>3, <2>1 DEF ReadTypeOK
  <2> QED BY <1>3, <2>3, <2>6, <2>7, <2>8, OneReader
<1> QED BY <1>4, <1>5

LEMMA ReadBitsKeeps ==
  ASSUME TypeOK, LayoutInv, ReaderInv, NEW r \in Readers, ReadBits(r)
  PROVE  ReaderInv'
<1>1. /\ ReadTypeOK /\ Told(r) /\ rpc[r] = "bits" /\ rcursor[r] < rto[r]
      /\ mode = "open"
      /\ rhost[r] # BAT_UNALLOCATED /\ rhost[r] = bat[BlockOf(rcursor[r])]
  BY DEF ReadBits, RAt, ReaderInv, Told, AtHost, Reading
<1>2. /\ rcursor[r] \in Cells /\ ReadChunkEnd(r) <= rto[r]
      /\ \A c \in rcursor[r] .. ReadChunkEnd(r) - 1 :
           c \in Cells /\ BlockOf(c) = BlockOf(rcursor[r])
      /\ ReadChunkEnd(r) \in Nat /\ rto[r] \in Nat /\ rcursor[r] \in Nat
  BY <1>1, ReaderPlace, SizesAreNat DEF Cells
<1>3. /\ UNCHANGED Seen /\ UNCHANGED <<rto, rcursor, rhost, buf, seen, reads>>
      /\ rbits' = [rbits EXCEPT ![r] = sector[rhost[r]].bits]
      /\ rpc' = [rpc EXCEPT ![r] = "run"]
  BY DEF ReadBits, vars, file, reader, Seen
<1>4. sector[rhost[r]].bits \in SUBSET Offsets
  BY <1>1 DEF ReadTypeOK, TypeOK, FileType, SectorContents
<1>5. ReadTypeOK'
  BY <1>1, <1>3, <1>4 DEF ReadTypeOK, ReadSteps
<1>6. rpc'[r] = "run" /\ rbits'[r] = sector[rhost[r]].bits
  BY <1>1, <1>3 DEF ReadTypeOK
<1>7. Ahead(r)' = Ahead(r) /\ \A c : Visible(bat, c)' = Visible(bat, c)
  BY <1>1, <1>3, <1>6 DEF Ahead, Reading, Visible, Seen
<1>8. Told(r)'
  BY <1>1, <1>3, <1>6, <1>7 DEF Told, Seen
<1>9. ASSUME NEW c \in rcursor[r] .. ReadChunkEnd(r) - 1, ~ Present(r, c)'
      PROVE  Zero \in seen[r][c]
  <2>1. OffsetOf(c) \notin sector[rhost[r]].bits
    BY <1>6, <1>9 DEF Present
  <2>2. c \in Cells /\ BlockOf(c) = BlockOf(rcursor[r])
    BY <1>2
  <2>3. Visible(bat, c) = Zero
    BY <1>1, <2>1, <2>2 DEF Visible
  <2>4. c \in Ahead(r)
    BY <1>1, <1>2 DEF Ahead, Reading
  <2> QED BY <1>1, <2>2, <2>3, <2>4 DEF Told
<1>10. ReadChunkEnd(r)' = ReadChunkEnd(r)
  BY <1>3 DEF ReadChunkEnd
<1>11. AtHost(r)'
  BY <1>1, <1>3, <1>6, <1>9, <1>10 DEF AtHost, Seen
<1>12. \A q \in Readers \ {r} :
         /\ rpc'[q] = rpc[q] /\ rto'[q] = rto[q] /\ rcursor'[q] = rcursor[q]
         /\ rhost'[q] = rhost[q] /\ rbits'[q] = rbits[q] /\ buf'[q] = buf[q]
         /\ seen'[q] = seen[q]
  BY <1>1, <1>3 DEF ReadTypeOK
<1> QED BY <1>3, <1>5, <1>8, <1>11, <1>12, OneReader

(* A run of clear bits has been seen as zeros, and a run of set bits is what
   the disk holds at this very moment.                                     *)
LEMMA RunKeeps ==
  ASSUME TypeOK, LayoutInv, ReaderInv, NEW r \in Readers,
         ReadHole(r) \/ ReadData(r)
  PROVE  ReaderInv'
<1>1. /\ ReadTypeOK /\ Told(r) /\ AtHost(r) /\ rpc[r] = "run"
      /\ rcursor[r] < rto[r]
      /\ rhost[r] # BAT_UNALLOCATED /\ rhost[r] = bat[BlockOf(rcursor[r])]
  BY DEF ReadHole, ReadData, RAt, ReaderInv, Told, AtHost, Reading
<1>2. PICK n \in rcursor[r] + 1 .. ReadChunkEnd(r) :
        Run(r) = rcursor[r] .. n - 1 /\ rcursor[r] + Cardinality(Run(r)) = n
  BY <1>1, RunOfReader
<1>3. /\ rcursor[r] \in Nat /\ ReadChunkEnd(r) \in Nat /\ rto[r] \in Nat
      /\ ReadChunkEnd(r) <= rto[r]
      /\ \A c \in rcursor[r] .. ReadChunkEnd(r) - 1 :
           c \in Cells /\ BlockOf(c) = BlockOf(rcursor[r])
  BY <1>1, ReaderPlace, SizesAreNat DEF Cells
<1>4. \A c \in rcursor[r] .. n - 1 :
        /\ c \in rcursor[r] .. ReadChunkEnd(r) - 1
        /\ c \in Cells /\ BlockOf(c) = BlockOf(rcursor[r])
        /\ c \in Ahead(r)
        /\ Present(r, c) = Present(r, rcursor[r])
  <2>1. \A c \in rcursor[r] .. n - 1 : c \in rcursor[r] .. ReadChunkEnd(r) - 1
    BY <1>3
  <2>2. \A c \in Run(r) : Present(r, c) = Present(r, rcursor[r])
    BY <1>3 DEF Run
  <2>3. \A c \in rcursor[r] .. ReadChunkEnd(r) - 1 : c \in Ahead(r)
    BY <1>1, <1>3 DEF Ahead, Reading
  <2> QED BY <1>2, <1>3, <2>1, <2>2, <2>3
<1>5. UNCHANGED Seen /\ UNCHANGED <<rto, rhost, rbits, seen, reads>>
  BY DEF ReadHole, ReadData, vars, file, reader, Seen
<1>6. CASE ReadHole(r)
  <2> DEFINE bytes == [c \in Run(r) |-> Zero]
  <2>1. Fill(r, bytes) /\ ~ Present(r, rcursor[r])
    BY <1>6 DEF ReadHole
  <2>2. DOMAIN bytes = Run(r)
    OBVIOUS
  <2>3. ASSUME NEW c \in rcursor[r] .. n - 1
        PROVE  bytes[c] \in Values /\ bytes[c] \in seen[r][c]
    <3>1. ~ Present(r, c)
      BY <1>4, <2>1
    <3>2. Zero \in seen[r][c]
      BY <1>1, <1>4, <3>1 DEF AtHost
    <3> QED BY <1>2, <3>2 DEF Values
  <2> HIDE DEF bytes
  <2> QED BY <1>1, <1>2, <1>5, <2>1, <2>2, <2>3, FillKeeps
<1>7. CASE ReadData(r)
  <2> DEFINE bytes == [c \in Run(r) |->
                         sector[DataSectorOf(rhost[r], c)].cells[PartOf(c)]]
  <2>1. Fill(r, bytes) /\ Present(r, rcursor[r])
    BY <1>7 DEF ReadData
  <2>2. DOMAIN bytes = Run(r)
    OBVIOUS
  <2>3. ASSUME NEW c \in rcursor[r] .. n - 1
        PROVE  bytes[c] \in Values /\ bytes[c] \in seen[r][c]
    <3>1. /\ c \in Cells /\ BlockOf(c) = BlockOf(rcursor[r]) /\ c \in Ahead(r)
          /\ Present(r, c)
      BY <1>4, <2>1
    <3>2. OffsetOf(c) \in sector[rhost[r]].bits
      BY <1>1, <3>1 DEF Present, AtHost
    <3>3. Visible(bat, c) = sector[DataSectorOf(rhost[r], c)].cells[PartOf(c)]
      BY <1>1, <3>1, <3>2 DEF Visible
    <3>4. Visible(bat, c) \in Values /\ Visible(bat, c) \in seen[r][c]
      BY <1>1, <3>1, CellsOfBlock DEF Told
    <3> QED BY <1>2, <3>3, <3>4
  <2> HIDE DEF bytes
  <2> QED BY <1>1, <1>2, <1>5, <2>1, <2>2, <2>3, FillKeeps
<1> QED BY <1>6, <1>7

-----------------------------------------------------------------------------
(* The whole of it *)

(* The image, its layout and its writers do not notice a reader. *)
LEMMA ReaderStepsKeepDisk ==
  ASSUME TypeOK, LayoutInv, PayloadInv, NEW r \in Readers,
         ReadCall(r) \/ ReadProceed(r)
  PROVE  (TypeOK /\ LayoutInv /\ PayloadInv)'
<1>1. /\ UNCHANGED <<file, media, reader, lock, pc, writer, content, calls, crashes>>
      /\ faults' = faults \/ faults' = faults + 1
  BY DEF ReadCall, ReadProceed, LookEntry, ReadBits, ReadHole, ReadData, ReadFails,
         ReadReturns, Fault, vars
<1>2. TypeOK'
  BY <1>1 DEF TypeOK, FileType, ReaderType, WriterType, HistoryType, file, media,
              reader, writer
<1>3. LayoutInv'
  BY <1>1, StutterLayout
<1>4. PayloadInv'
  BY <1>1 DEF PayloadInv, AtBlock, Block, file, reader, writer
<1> QED BY <1>2, <1>3, <1>4

LEMMA StepReaders ==
  TypeOK /\ LayoutInv /\ PayloadInv /\ ReaderInv /\ [ReadNext]_allvars
    => (TypeOK /\ LayoutInv /\ PayloadInv /\ ReaderInv)'
<1> SUFFICES ASSUME TypeOK, LayoutInv, PayloadInv, ReaderInv, [ReadNext]_allvars
             PROVE  (TypeOK /\ LayoutInv /\ PayloadInv /\ ReaderInv)'
  OBVIOUS
<1>1. CASE UNCHANGED allvars
  <2>1. UNCHANGED vars /\ UNCHANGED Seen
    BY <1>1 DEF allvars, vars, file, reader, Seen
  <2>2. (TypeOK /\ LayoutInv /\ PayloadInv)'
    BY <2>1, StepTypes, StepLayout, StepPayload
  <2>3. UNCHANGED <<rpc, rto, rcursor, rhost, rbits, buf, seen, reads>>
    BY <1>1 DEF allvars, rvars, place
  <2>4. ReadTypeOK'
    BY <2>3 DEF ReaderInv, ReadTypeOK
  <2>5. ASSUME NEW r \in Readers PROVE Told(r)' /\ AtHost(r)'
    <3>1. Told(r) /\ AtHost(r)
      BY DEF ReaderInv
    <3> QED BY <2>1, <2>3, <3>1, OtherReader
  <2> QED BY <2>2, <2>4, <2>5 DEF ReaderInv
<1>2. CASE WriterStep
  <2>1. (TypeOK /\ LayoutInv /\ PayloadInv)'
    BY <1>2, StepTypes, StepLayout, StepPayload DEF WriterStep
  <2> QED BY <1>2, <2>1, WriterStepReaders
<1>3. ASSUME NEW r \in Readers, ReadReturns(r) \/ ReadFails(r) PROVE ReaderInv'
  <2>1. Leave(r) /\ UNCHANGED Seen
    BY <1>3 DEF ReadReturns, ReadFails, vars, file, reader, Seen
  <2> QED BY <2>1, LeaveKeeps
<1>4. ASSUME NEW r \in Readers, ReadCall(r) \/ ReadProceed(r)
      PROVE  (TypeOK /\ LayoutInv /\ PayloadInv /\ ReaderInv)'
  <2>1. ReaderInv'
    BY <1>3, <1>4, ReadCallKeeps, LookEntryKeeps, ReadBitsKeeps, RunKeeps
    DEF ReadProceed
  <2> QED BY <1>4, <2>1, ReaderStepsKeepDisk
<1> QED BY <1>1, <1>2, <1>4 DEF ReadNext

LEMMA InitReaders == ReadInit => ReaderInv
<1> SUFFICES ASSUME ReadInit PROVE ReaderInv
  OBVIOUS
<1>1. 1 \in 1 .. VirtualCells /\ 0 \in 0 .. VirtualCells /\ 0 \in Sectors
  BY SizesAreNat, SparseAssumption DEF Sectors
<1>2. ReadTypeOK
  BY <1>1 DEF ReadInit, ReadTypeOK, ReadSteps, EmptyBuffer, NoCells
<1>3. ASSUME NEW r \in Readers PROVE Told(r) /\ AtHost(r)
  <2>1. rpc[r] = "idle" /\ seen[r] = NoCells /\ buf[r] = EmptyBuffer
    BY DEF ReadInit
  <2>2. Ahead(r) = {} /\ \A c \in Cells : seen[r][c] = {} /\ buf[r][c] = Unread
    BY <2>1 DEF Ahead, Reading, NoCells, EmptyBuffer
  <2> QED BY <2>1, <2>2 DEF Told, AtHost, Reading
<1> QED BY <1>2, <1>3 DEF ReaderInv

(* The invariant of the readers and the writers together. *)
THEOREM ReadersCorrect ==
  SoundImages => (ReadSpec => [](TypeOK /\ LayoutInv /\ PayloadInv /\ ReaderInv))
<1> SUFFICES ASSUME SoundImages
             PROVE  ReadSpec => [](TypeOK /\ LayoutInv /\ PayloadInv /\ ReaderInv)
  OBVIOUS
<1>1. ReadInit => TypeOK /\ LayoutInv /\ PayloadInv /\ ReaderInv
  BY InitType, InitLayout, InitPayload, InitReaders DEF ReadInit
<1>2. TypeOK /\ LayoutInv /\ PayloadInv /\ ReaderInv /\ [ReadNext]_allvars
        => (TypeOK /\ LayoutInv /\ PayloadInv /\ ReaderInv)'
  BY StepReaders
<1> QED BY <1>1, <1>2, PTL DEF ReadSpec

(* Every byte a read returns is one the disk held during the read, however
   many writers allocate, publish and overwrite meanwhile.                 *)
THEOREM ReadsNeverStale == SoundImages => (ReadSpec => []ReadsAreCurrent)
<1>1. ReaderInv => ReadsAreCurrent
  BY DEF ReaderInv, Told, ReadsAreCurrent
<1> QED BY <1>1, ReadersCorrect, PTL

(* A read that ends well has filled its range, and nothing else. *)
THEOREM ReadsWhole == SoundImages => (ReadSpec => []FillsTheRange)
<1>1. ReaderInv => FillsTheRange
  <2> SUFFICES ASSUME ReaderInv, NEW r \in Readers, rpc[r] = "done"
               PROVE  {c \in Cells : buf[r][c] # Unread}
                        = {c \in Cells : seen[r][c] # {}}
    BY DEF FillsTheRange
  <2>1. Told(r) /\ Ahead(r) = {}
    BY DEF ReaderInv, Ahead, Reading
  <2>2. \A c \in Cells : seen[r][c] # {} <=> buf[r][c] # Unread
    BY <2>1 DEF Told
  <2> QED BY <2>2
<1> QED BY <1>1, ReadersCorrect, PTL

(* No reader is led past the end of the file. *)
THEOREM ReadsStayInside == SoundImages => (ReadSpec => []ReadsInsideFile)
<1>1. TypeOK /\ LayoutInv /\ ReaderInv => ReadsInsideFile
  <2> SUFFICES ASSUME TypeOK, LayoutInv, ReaderInv, NEW r \in Readers,
                      rpc[r] \in {"bits", "run"}
               PROVE  /\ rhost[r] < size
                      /\ \A c \in rcursor[r] .. ReadChunkEnd(r) - 1 :
                           DataSectorOf(rhost[r], c) < size
    BY DEF ReadsInsideFile
  <2>1. /\ ReadTypeOK /\ rcursor[r] < rto[r]
        /\ rhost[r] # BAT_UNALLOCATED /\ rhost[r] = bat[BlockOf(rcursor[r])]
    BY DEF ReaderInv, Told, AtHost, Reading
  <2>2. /\ rcursor[r] \in Cells
        /\ \A c \in rcursor[r] .. ReadChunkEnd(r) - 1 :
             c \in Cells /\ BlockOf(c) = BlockOf(rcursor[r])
    BY <2>1, ReaderPlace
  <2>3. rhost[r] \in Nat /\ rhost[r] + BlockTotal <= size
    BY <2>1, <2>2, BlockOfCell, CachedEntry, EntryExtent
  <2>4. rhost[r] < size
    BY <2>3, SizesAreNat DEF TypeOK, FileType
  <2> QED BY <2>1, <2>2, <2>4, CellsOfBlock
<1> QED BY <1>1, ReadersCorrect, PTL

=============================================================================
