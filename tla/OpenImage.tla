------------------------------ MODULE OpenImage ------------------------------
(***************************************************************************)
(* What open_inner makes of one image: Footer::parse at the tail, and at   *)
(* offset 0 when that fails, DynamicHeader::parse, the bounds of the BAT,  *)
(* the walk of its entries, and the parent locators of a differencing      *)
(* image.  Offsets are in half sectors, so that a structure can begin in   *)
(* the middle of a sector and a file can end there.                        *)
(*                                                                         *)
(* An image is a record: its length, its last and first sector read as     *)
(* footers, the one place that holds a dynamic header, the BAT that header *)
(* points to, and the locators in it.                                      *)
(***************************************************************************)
EXTENDS Integers, Sequences, Functions

CONSTANTS
  NoOffset,           \* u64::MAX, a fixed image's data_offset
  BITS,               \* bitmap bits to a half sector
  BAT_UNALLOCATED     \* the entry that means a block is absent

ASSUME OpenAssumption ==
  NoOffset \in Nat /\ BITS \in Nat \ {0} /\ BAT_UNALLOCATED \in Nat

SECTOR_SIZE == 2
FOOTER_SIZE == 2
DYN_HEADER_SIZE == 4
ENTRY_SIZE == 1

FIXED == 2
DYNAMIC == 3
DIFFERENCING == 4

CeilDiv(m, d) == (m + d - 1) \div d
Maximum(m, k) == IF m < k THEN k ELSE m

-----------------------------------------------------------------------------
(* Footer::parse and DynamicHeader::parse; "ok", or the error. *)
FooterParse(f) ==
  IF ~ f.cookie THEN "NotVhd"
  ELSE IF ~ f.checksum THEN "BadChecksum"
  ELSE IF f.disk_type \notin {FIXED, DYNAMIC, DIFFERENCING} THEN "UnsupportedDiskType"
  ELSE "ok"

(* Every power of two a u32 of bytes may be, in half sectors. *)
IsPowerOfTwo(k) == \E n \in 0 .. 23 : k = 2 ^ n

HeaderParses(h) ==
  /\ h.cookie /\ h.checksum
  /\ IsPowerOfTwo(h.block_size)
  /\ h.block_size >= SECTOR_SIZE

bitmap_size_bytes(h) ==
  CeilDiv(CeilDiv(h.block_size \div SECTOR_SIZE, BITS), SECTOR_SIZE) * SECTOR_SIZE

-----------------------------------------------------------------------------
(* Which footer counts. *)
TailParses(img) == FooterParse(img.tail) = "ok"

MirrorStandsIn(img) ==
  /\ ~ TailParses(img)
  /\ img.size >= 2 * FOOTER_SIZE
  /\ FooterParse(img.mirror) = "ok"
  /\ img.mirror.disk_type \in {DYNAMIC, DIFFERENCING}

FooterOf(img) == IF TailParses(img) THEN img.tail ELSE img.mirror
Sparse(f) == f.disk_type \in {DYNAMIC, DIFFERENCING}

-----------------------------------------------------------------------------
(* The sparse branch *)
HeaderRead(img, f) ==
  /\ f.data_offset # NoOffset
  /\ img.size % SECTOR_SIZE = 0
  /\ f.data_offset + DYN_HEADER_SIZE <= img.size
  /\ f.data_offset = img.header.at /\ HeaderParses(img.header)

table_end(h) == h.table_offset + h.max_table_entries * ENTRY_SIZE

TableFits(img, f) ==
  /\ CeilDiv(f.current_size, img.header.block_size) <= img.header.max_table_entries
  /\ table_end(img.header) <= img.size

data_start(img, f) ==
  CeilDiv(Maximum(FOOTER_SIZE, Maximum(f.data_offset + DYN_HEADER_SIZE,
                                       table_end(img.header))), SECTOR_SIZE)
    * SECTOR_SIZE

(* The data area ends at the trailing footer, whole or damaged in place. *)
data_end(img) ==
  IF ~ TailParses(img) /\ ~ img.tail.cookie
  THEN img.size ELSE img.size - FOOTER_SIZE

block_total(h) == bitmap_size_bytes(h) + h.block_size
block_off(e) == e * SECTOR_SIZE

(* The BAT's entries that are not absent, by their indices. *)
BlocksOf(img) ==
  {i \in 1 .. img.header.max_table_entries : img.bat[i] # BAT_UNALLOCATED}

(* sort_unstable: by entry, and equal entries in some order. *)
SortsBefore(img, i, j) ==
  img.bat[i] < img.bat[j] \/ (img.bat[i] = img.bat[j] /\ i < j)

EntriesInside(img, f) ==
  \A i \in BlocksOf(img) :
    /\ data_start(img, f) <= block_off(img.bat[i])
    /\ block_off(img.bat[i]) + block_total(img.header) <= data_end(img)

(* windows(2): each two that nothing sorts between. *)
NeighboursApart(img) ==
  \A i, j \in BlocksOf(img) :
    /\ SortsBefore(img, i, j)
    /\ ~ \E k \in BlocksOf(img) : SortsBefore(img, i, k) /\ SortsBefore(img, k, j)
    => block_off(img.bat[i]) + block_total(img.header) <= block_off(img.bat[j])

Overlap(from1, to1, from2, to2) == from1 < to2 /\ from2 < to1

(* partition_point: of the blocks that begin before `end`, the last. *)
LastBefore(img, end, i) ==
  /\ block_off(img.bat[i]) < end
  /\ \A j \in BlocksOf(img) : block_off(img.bat[j]) < end => ~ SortsBefore(img, i, j)

Live(l) == l.code /\ l.length > 0

(* Mutant: the last block that begins before the payload does. *)
ClearOfBlocksBefore(img, l) ==
  \A i \in BlocksOf(img) : LastBefore(img, l.at, i) =>
    block_off(img.bat[i]) + block_total(img.header) <= l.at

(* The last block that begins before the payload's end reaches furthest. *)
ClearOfBlocks(img, l) ==
  \A i \in BlocksOf(img) : LastBefore(img, l.at + l.length, i) =>
    block_off(img.bat[i]) + block_total(img.header) <= l.at

LocatorsClear(img, f) ==
  \A l \in Range(img.locators) : Live(l) =>
    /\ l.at + l.length <= data_end(img)
    /\ ~ Overlap(l.at, l.at + l.length, 0, FOOTER_SIZE)
    /\ ~ Overlap(l.at, l.at + l.length, f.data_offset, f.data_offset + DYN_HEADER_SIZE)
    /\ ~ Overlap(l.at, l.at + l.length, img.header.table_offset, table_end(img.header))
    /\ ClearOfBlocks(img, l)

SparseAccepted(img, f) ==
  /\ HeaderRead(img, f)
  /\ TableFits(img, f)
  /\ EntriesInside(img, f)
  /\ NeighboursApart(img)
  /\ f.disk_type = DIFFERENCING => LocatorsClear(img, f)

(* The verdict, but for a differencing image's parent. *)
Verdict(img) ==
  IF img.size < FOOTER_SIZE THEN "Corrupt"
  ELSE IF ~ TailParses(img) /\ ~ MirrorStandsIn(img) THEN FooterParse(img.tail)
  ELSE IF Sparse(FooterOf(img)) /\ ~ SparseAccepted(img, FooterOf(img)) THEN "Corrupt"
  ELSE "ok"

-----------------------------------------------------------------------------
(* What the verdict is to say, half sector by half sector: every structure is
   in the file, and no block or locator shares a byte with anything else.  *)
Units(from, len) == from .. from + len - 1

MirrorUnits == Units(0, FOOTER_SIZE)
HeaderUnits(f) == Units(f.data_offset, DYN_HEADER_SIZE)
TableUnits(h) == Units(h.table_offset, h.max_table_entries * ENTRY_SIZE)
FooterUnits(img) ==
  IF img.tail.cookie THEN Units(img.size - FOOTER_SIZE, FOOTER_SIZE) ELSE {}
BlockUnits(img, i) == Units(block_off(img.bat[i]), block_total(img.header))
LocatorUnits(l) == Units(l.at, l.length)

MetadataUnits(img, f) == MirrorUnits \cup HeaderUnits(f) \cup TableUnits(img.header)

Sound(img, f) ==
  /\ HeaderRead(img, f)
  /\ TableUnits(img.header) \subseteq Units(0, img.size)
  /\ f.current_size <= img.header.max_table_entries * img.header.block_size
  /\ \A i \in BlocksOf(img) :
       /\ BlockUnits(img, i) \subseteq Units(0, img.size) \ FooterUnits(img)
       /\ \A u \in BlockUnits(img, i), m \in MetadataUnits(img, f) : m < u
       /\ \A j \in BlocksOf(img) \ {i} : BlockUnits(img, i) \cap BlockUnits(img, j) = {}
  /\ f.disk_type = DIFFERENCING =>
       \A l \in Range(img.locators) : l.code =>
         /\ LocatorUnits(l) \subseteq Units(0, img.size) \ FooterUnits(img)
         /\ LocatorUnits(l) \cap MetadataUnits(img, f) = {}
         /\ \A i \in BlocksOf(img) : LocatorUnits(l) \cap BlockUnits(img, i) = {}
=============================================================================
