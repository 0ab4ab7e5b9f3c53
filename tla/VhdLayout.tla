------------------------------ MODULE VhdLayout ------------------------------
(***************************************************************************)
(* The arithmetic of a sparse VHD file: where the block allocation table   *)
(* (BAT) and the blocks may lie, what a BAT entry can name, and the        *)
(* conditions under which open_inner believes a table and where it puts    *)
(* the tail.  Every host address and length is counted in 512-byte sectors *)
(* (open_inner refuses a sparse image whose length is not a multiple of    *)
(* 512, so a sector count loses nothing); guest addresses are counted in   *)
(* cells, CellsPerSector of them to a sector, so that a write may begin or *)
(* end inside one.                                                         *)
(***************************************************************************)
EXTENDS Integers

CONSTANTS
  BlockCount,        \* max_table_entries
  SectorsPerBlock,   \* block_size / 512
  CellsPerSector,    \* the guest's granularity below a sector
  DataOffset,        \* sector of the dynamic header (two sectors long)
  TableOffset,       \* sector where the BAT begins
  BAT_UNALLOCATED    \* the entry that means "absent", 0xFFFFFFFF in the file

ASSUME LayoutAssumption ==
  /\ BlockCount \in Nat \ {0}
  /\ SectorsPerBlock \in Nat \ {0}
  /\ CellsPerSector \in Nat \ {0}
  /\ DataOffset \in Nat
  /\ TableOffset \in Nat
  /\ BAT_UNALLOCATED \in Nat

Larger(m, n) == IF m < n THEN n ELSE m
Smaller(m, n) == IF m < n THEN m ELSE n
CeilDiv(m, n) == (m + n - 1) \div n

Blocks == 0 .. BlockCount - 1
Offsets == 0 .. SectorsPerBlock - 1       \* sectors within a block
Parts == 0 .. CellsPerSector - 1          \* cells within a sector

(* DynamicHeader::bitmap_size_bytes, in sectors: one bit per sector, rounded
   up to bytes and then to sectors.                                        *)
BitmapSectors == CeilDiv(CeilDiv(SectorsPerBlock, 8), 512)

(* block_total: a block's bitmap and its data. *)
BlockTotal == BitmapSectors + SectorsPerBlock

(* data_start: the first sector past the footer mirror, the dynamic header
   and the BAT, whichever ends last.                                       *)
TableEnd == TableOffset + CeilDiv(4 * BlockCount, 512)
DataStart == Larger(1, Larger(DataOffset + 2, TableEnd))

-----------------------------------------------------------------------------
(* Guest cells: block, sector within the block, cell within the sector. *)
BlockCells == SectorsPerBlock * CellsPerSector
VirtualCells == BlockCount * BlockCells
Cells == 0 .. VirtualCells - 1

BlockOf(c) == c \div BlockCells
OffsetOf(c) == (c % BlockCells) \div CellsPerSector
PartOf(c) == c % CellsPerSector

(* Mutant: a chunk runs to the end of its block whatever was asked. *)
ChunkEndOfBlock(from, to) == (BlockOf(from) + 1) * BlockCells

(* The end of the piece of [from, to) that lies in from's block. *)
ChunkEnd(from, to) == Smaller((BlockOf(from) + 1) * BlockCells, to)

-----------------------------------------------------------------------------
(* bat_entry_for: an entry can name a sector only below the value that means
   "absent" (a larger one does not fit a u32, that one reads as a hole).   *)
EntryCanName(host) == host < BAT_UNALLOCATED

Allocated(table) == {b \in Blocks : table[b] # BAT_UNALLOCATED}

(* The extent of the block an entry names. *)
Extent(entry) == entry .. entry + BlockTotal - 1

DisjointBlocks(e, f) == \/ e + BlockTotal <= f
                        \/ f + BlockTotal <= e

(* open_inner's verdict on a table.  `footer` is what the last sector looks
   like: "whole" (it parses), "torn" (it does not, but still begins with the
   cookie) or "none".  The footer at offset 0 stands in for a tail that does
   not parse.                                                              *)
DataEnd(size, footer) == IF footer = "none" THEN size ELSE size - 1

OpenAccepts(table, size, footer) ==
  /\ TableEnd <= size
  /\ \A b \in Allocated(table) :
        /\ DataStart <= table[b]
        /\ table[b] + BlockTotal <= DataEnd(size, footer)
  /\ \A b1, b2 \in Allocated(table) :
        b1 # b2 => DisjointBlocks(table[b1], table[b2])

LastEntry(table) ==
  table[CHOOSE b \in Allocated(table) :
          \A d \in Allocated(table) : table[d] <= table[b]]

(* The end of the last block the table names; 0 when it names none. *)
LastBlockEnd(table) ==
  IF Allocated(table) = {} THEN 0 ELSE LastEntry(table) + BlockTotal

(* next_alloc as open_inner computes it: the trailing footer's sector, or
   past the last block when the footer came from the mirror.               *)
OpenTail(table, size, footer) ==
  IF footer = "whole" THEN size - 1
  ELSE Larger(size - 1, LastBlockEnd(table))

=============================================================================
