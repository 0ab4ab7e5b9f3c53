------------------------------ MODULE CApiProofs ------------------------------
(***************************************************************************)
(* Proofs about OpenImage and CApi.  First, for every image, that the walk *)
(* of open_inner over a sorted table says what Sound says unit by unit;    *)
(* then, for any files, devices and calls, who holds what, what a write    *)
(* reaches, and what a call reports.                                       *)
(***************************************************************************)
EXTENDS CApi, WellFoundedInduction, FiniteSetTheorems, TLAPS

-----------------------------------------------------------------------------
(* Numbers *)

(* A nonempty set of natural numbers has a least element. *)
LEMMA LeastExists ==
  ASSUME NEW S \in SUBSET Nat, S # {}
  PROVE  \E x \in S : \A y \in S : x <= y
<1>1. PICK x \in S : \A y \in S : ~ (<<y, x>> \in OpToRel(<, Nat))
  BY WFMin, NatLessThanWellFounded
<1>2. ASSUME NEW y \in S PROVE x <= y
  <2>1. x \in Nat /\ y \in Nat
    OBVIOUS
  <2>2. ~ (y < x)
    BY <2>1, <1>1 DEF OpToRel
  <2> QED BY <2>1, <2>2
<1> QED BY <1>2

(* A bounded one has a greatest. *)
LEMMA GreatestExists ==
  ASSUME NEW S \in SUBSET Nat, NEW n \in Nat, \A x \in S : x <= n, S # {}
  PROVE  \E x \in S : \A y \in S : y <= x
<1> DEFINE T == {n - x : x \in S}
<1>1. \A x \in S : n - x \in Nat
  OBVIOUS
<1>2. T \in SUBSET Nat /\ T # {}
  BY <1>1
<1>3. PICK t \in T : \A y \in T : t <= y
  <2> HIDE DEF T
  <2> QED BY <1>2, LeastExists
<1>4. PICK x \in S : t = n - x
  OBVIOUS
<1>5. ASSUME NEW y \in S PROVE y <= x
  <2>1. n - y \in T
    OBVIOUS
  <2>2. n - x <= n - y
    BY <2>1, <1>3, <1>4
  <2> QED BY <2>2
<1> QED BY <1>5

-----------------------------------------------------------------------------
(* Intervals of half sectors *)

(* Two ranges that hold something share nothing when one ends where the other
   has not begun.                                                          *)
LEMMA RangesApart ==
  ASSUME NEW a \in Nat, NEW m \in Nat \ {0}, NEW b \in Nat, NEW n \in Nat \ {0}
  PROVE  (Units(a, m) \cap Units(b, n) = {}) <=> (a + m <= b \/ b + n <= a)
<1>1. CASE a + m <= b \/ b + n <= a
  BY <1>1 DEF Units
<1>2. CASE a < b + n /\ b < a + m
  <2>1. CASE a <= b
    <3>1. b \in Units(a, m) /\ b \in Units(b, n)
      BY <2>1, <1>2 DEF Units
    <3> QED BY <3>1, <1>2
  <2>2. CASE b < a
    <3>1. a \in Units(a, m) /\ a \in Units(b, n)
      BY <2>2, <1>2 DEF Units
    <3> QED BY <3>1, <1>2
  <2> QED BY <2>1, <2>2
<1> QED BY <1>1, <1>2

(* A range that holds something lies before an end when its own end does. *)
LEMMA RangeInside ==
  ASSUME NEW a \in Nat, NEW m \in Nat \ {0}, NEW e \in Nat
  PROVE  (Units(a, m) \subseteq 0 .. e - 1) <=> (a + m <= e)
<1>1. a + m - 1 \in Units(a, m)
  BY DEF Units
<1>2. (a + m - 1 \in 0 .. e - 1) => a + m <= e
  OBVIOUS
<1>3. a + m <= e => Units(a, m) \subseteq 0 .. e - 1
  BY DEF Units
<1> QED BY <1>1, <1>2, <1>3

(* And behind another when it begins where that has ended. *)
LEMMA RangeBehind ==
  ASSUME NEW a \in Nat, NEW m \in Nat \ {0}, NEW b \in Nat, NEW n \in Nat \ {0}
  PROVE  (\A u \in Units(a, m), v \in Units(b, n) : v < u) <=> (b + n <= a)
<1>1. a \in Units(a, m) /\ b + n - 1 \in Units(b, n)
  BY DEF Units
<1>2. b + n - 1 < a => b + n <= a
  OBVIOUS
<1>3. b + n <= a => \A u \in Units(a, m), v \in Units(b, n) : v < u
  BY DEF Units
<1> QED BY <1>1, <1>2, <1>3

(* Rounded up to a whole sector, an end stays behind every even offset behind it. *)
LEMMA RoundedToSector ==
  ASSUME NEW m \in Nat, NEW e \in Nat
  PROVE  (CeilDiv(m, SECTOR_SIZE) * SECTOR_SIZE <= block_off(e)) <=> (m <= block_off(e))
BY SMTT(30) DEF CeilDiv, SECTOR_SIZE, block_off

(* Rounding up *)
LEMMA DivBounds ==
  ASSUME NEW x \in Nat, NEW d \in Nat \ {0}
  PROVE  /\ x \div d \in Nat
         /\ (x \div d) * d <= x /\ x < (x \div d) * d + d
BY SMTT(30)

LEMMA Scaled ==
  ASSUME NEW a \in Nat, NEW b \in Nat, NEW d \in Nat, a <= b
  PROVE  a * d <= b * d
BY SMTT(30)

LEMMA CeilDivNat ==
  ASSUME NEW m \in Nat, NEW d \in Nat \ {0}
  PROVE  CeilDiv(m, d) \in Nat
BY SMTT(30) DEF CeilDiv

(* As many pieces as are needed are enough exactly when they hold the whole. *)
LEMMA CeilDivFits ==
  ASSUME NEW m \in Nat, NEW d \in Nat \ {0}, NEW k \in Nat
  PROVE  CeilDiv(m, d) <= k <=> m <= k * d
<1> DEFINE x == m + d - 1
           q == x \div d
<1>1. x \in Nat
  OBVIOUS
<1>2. q \in Nat /\ q * d <= x /\ x < q * d + d
  <2> HIDE DEF x
  <2> QED BY <1>1, DivBounds
<1>3. q * d \in Nat /\ k * d \in Nat
  BY <1>2, SMTT(30)
<1>4. CASE q <= k
  <2>1. q * d <= k * d
    BY <1>2, <1>4, Scaled
  <2>2. m <= k * d
    <3> HIDE DEF q
    <3> QED BY <1>2, <1>3, <2>1
  <2> QED BY <1>4, <2>2 DEF CeilDiv
<1>5. CASE ~ (q <= k)
  <2>1. k + 1 <= q
    BY <1>2, <1>5
  <2>2. (k + 1) * d <= q * d
    BY <1>2, <2>1, Scaled
  <2>3. (k + 1) * d = k * d + d
    BY SMTT(30)
  <2>4. ~ (m <= k * d)
    <3> HIDE DEF q
    <3> QED BY <1>2, <1>3, <2>2, <2>3
  <2> QED BY <1>5, <2>4 DEF CeilDiv
<1> QED BY <1>4, <1>5

-----------------------------------------------------------------------------
(* The blocks of a table *)

(* What the proofs below know of an image with a header that is read. *)
Laid(img, f) ==
  /\ IsImage(img) /\ f \in SectorContents
  /\ HeaderRead(img, f)

(* A block is not nothing; the table has an entry for each block;
   the file is a whole number of sectors.                                  *)
LEMMA LaidOut ==
  ASSUME NEW img, NEW f, Laid(img, f)
  PROVE  /\ block_total(img.header) \in Nat \ {0}
         /\ img.header.block_size \in Nat \ {0}
         /\ img.header.max_table_entries \in Nat \ {0}
         /\ img.header.table_offset \in Nat
         /\ f.data_offset \in Nat
         /\ img.size \in Nat /\ img.size >= 4
         /\ \A i \in BlocksOf(img) : i \in Nat /\ img.bat[i] \in Nat
                                     /\ i <= img.header.max_table_entries
<1>1. /\ img.header \in HeaderContents /\ img.bat \in Seq(Nat) /\ img.size \in Nat
      /\ f.data_offset \in Nat
  BY DEF Laid, IsImage, Tables, SectorContents
<1>2. HeaderParses(img.header) /\ f.data_offset + 4 <= img.size
  BY DEF Laid, HeaderRead, DYN_HEADER_SIZE
<1>3. img.header.max_table_entries \in 1 .. Len(img.bat)
  BY <1>2 DEF Laid, IsImage, TableGiven
<1>4. img.header.block_size \in Nat \ {0}
  BY <1>1, <1>2 DEF HeaderParses, HeaderContents, SECTOR_SIZE
<1>5. block_total(img.header) \in Nat \ {0}
  <2> DEFINE b == img.header.block_size
             sectors == b \div SECTOR_SIZE
             part == CeilDiv(sectors, BITS)
             whole == CeilDiv(part, SECTOR_SIZE)
  <2>1. sectors \in Nat
    BY <1>4, DivBounds DEF SECTOR_SIZE
  <2>2. part \in Nat
    <3> HIDE DEF sectors
    <3> QED BY <2>1, OpenAssumption, CeilDivNat
  <2>3. whole \in Nat
    <3> HIDE DEF part
    <3> QED BY <2>2, CeilDivNat DEF SECTOR_SIZE
  <2>4. block_total(img.header) = whole * 2 + b
    BY DEF block_total, bitmap_size_bytes, SECTOR_SIZE
  <2> HIDE DEF b, whole
  <2> QED BY <2>3, <2>4, <1>4 DEF b
<1>6. \A i \in BlocksOf(img) : i \in Nat /\ img.bat[i] \in Nat
                               /\ i <= img.header.max_table_entries
  BY <1>1, <1>3 DEF BlocksOf
<1>7. img.header.table_offset \in Nat
  BY <1>1 DEF HeaderContents
<1>8. img.header.max_table_entries \in Nat \ {0}
  BY <1>1, <1>3
<1>9. img.size >= 4
  BY <1>1, <1>2
<1> QED BY ONLY <1>1, <1>4, <1>5, <1>6, <1>7, <1>8, <1>9

(* Where the data area ends, and what is left of the file without its footer. *)
LEMMA DataArea ==
  ASSUME NEW img, NEW f, Laid(img, f)
  PROVE  /\ data_end(img) \in Nat
         /\ Units(0, img.size) \ FooterUnits(img) = 0 .. data_end(img) - 1
<1>1. img.size \in Nat /\ img.size >= 4
  BY LaidOut
<1>2. TailParses(img) => img.tail.cookie
  BY DEF TailParses, FooterParse
<1>3. CASE img.tail.cookie
  <2>1. data_end(img) = img.size - 2
    BY <1>3 DEF data_end, FOOTER_SIZE
  <2>2. FooterUnits(img) = img.size - 2 .. img.size - 1
    BY <1>1, <1>3 DEF FooterUnits, Units, FOOTER_SIZE
  <2> QED BY <1>1, <2>1, <2>2 DEF Units
<1>4. CASE ~ img.tail.cookie
  <2>1. data_end(img) = img.size
    BY <1>2, <1>4 DEF data_end
  <2>2. FooterUnits(img) = {}
    BY <1>4 DEF FooterUnits
  <2> QED BY <1>1, <2>1, <2>2 DEF Units
<1> QED BY <1>3, <1>4

(* Every nonempty set of blocks has one that none of it sorts behind. *)
LEMMA LastOfBlocks ==
  ASSUME NEW img, NEW f, Laid(img, f),
         NEW S \in SUBSET BlocksOf(img), S # {},
         NEW n \in Nat, \A i \in S : img.bat[i] <= n
  PROVE  \E i \in S : \A j \in S : ~ SortsBefore(img, i, j)
<1> DEFINE Values == {img.bat[i] : i \in S}
<1>1. \A i \in S : i \in Nat /\ img.bat[i] \in Nat /\ i <= img.header.max_table_entries
  BY LaidOut
<1>2. img.header.max_table_entries \in Nat
  BY LaidOut
<1>3. Values \in SUBSET Nat /\ Values # {} /\ \A x \in Values : x <= n
  BY <1>1
<1>4. PICK v \in Values : \A x \in Values : x <= v
  <2> HIDE DEF Values
  <2> QED BY <1>3, GreatestExists
<1> DEFINE Ties == {i \in S : img.bat[i] = v}
<1>5. Ties \in SUBSET Nat /\ Ties # {} /\ \A i \in Ties : i <= img.header.max_table_entries
  BY <1>1
<1>6. PICK i \in Ties : \A j \in Ties : j <= i
  <2> HIDE DEF Ties
  <2> QED BY <1>2, <1>5, GreatestExists
<1>7. ASSUME NEW j \in S PROVE ~ SortsBefore(img, i, j)
  <2>1. img.bat[j] <= v /\ img.bat[i] = v /\ v \in Nat /\ img.bat[j] \in Nat
    BY <1>1, <1>4
  <2>2. img.bat[j] = v => j <= i
    BY <1>6
  <2>3. i \in Nat /\ j \in Nat
    BY <1>1
  <2> QED BY <2>1, <2>2, <2>3 DEF SortsBefore
<1> QED BY <1>7

(* Blocks begin where their entries say, one behind another as they sort. *)
LEMMA BlockOrder ==
  ASSUME NEW img, NEW f, Laid(img, f), NEW i \in BlocksOf(img), NEW j \in BlocksOf(img)
  PROVE  /\ block_off(img.bat[i]) \in Nat /\ block_off(img.bat[j]) \in Nat
         /\ SortsBefore(img, i, j) => block_off(img.bat[i]) <= block_off(img.bat[j])
         /\ i # j => SortsBefore(img, i, j) \/ SortsBefore(img, j, i)
<1>1. i \in Nat /\ j \in Nat /\ img.bat[i] \in Nat /\ img.bat[j] \in Nat
  BY LaidOut
<1> QED BY <1>1 DEF block_off, SortsBefore, SECTOR_SIZE

(* If each block ends before the one that sorts next begins, it ends before any
   that sorts behind it begins: the one before that reaches no less far.    *)
LEMMA NeighboursSuffice ==
  ASSUME NEW img, NEW f, Laid(img, f), NeighboursApart(img),
         NEW i \in BlocksOf(img), NEW j \in BlocksOf(img), SortsBefore(img, i, j)
  PROVE  block_off(img.bat[i]) + block_total(img.header) <= block_off(img.bat[j])
<1> DEFINE S == {k \in BlocksOf(img) : SortsBefore(img, k, j)}
<1>1. S \in SUBSET BlocksOf(img) /\ S # {}
  OBVIOUS
<1>2. \A k \in BlocksOf(img) : img.bat[k] \in Nat
  BY LaidOut
<1>3. \A k \in S : img.bat[k] <= img.bat[j]
  BY <1>2 DEF SortsBefore
<1>4. PICK k \in S : \A l \in S : ~ SortsBefore(img, k, l)
  <2> HIDE DEF S
  <2> QED BY <1>1, <1>2, <1>3, LastOfBlocks
<1>5. ~ \E l \in BlocksOf(img) : SortsBefore(img, k, l) /\ SortsBefore(img, l, j)
  BY <1>4
<1>6. block_off(img.bat[k]) + block_total(img.header) <= block_off(img.bat[j])
  BY <1>5 DEF NeighboursApart
<1>7. block_off(img.bat[i]) <= block_off(img.bat[k])
  <2>1. CASE i = k
    BY <2>1, BlockOrder
  <2>2. CASE i # k
    <3>1. SortsBefore(img, i, k)
      BY <2>2, <1>4, BlockOrder
    <3> QED BY <3>1, BlockOrder
  <2> QED BY <2>1, <2>2
<1>8. /\ block_off(img.bat[i]) \in Nat /\ block_off(img.bat[k]) \in Nat
      /\ block_off(img.bat[j]) \in Nat /\ block_total(img.header) \in Nat
  BY BlockOrder, LaidOut
<1> QED BY <1>6, <1>7, <1>8

(* So neighbours in the sort are apart exactly when all blocks are. *)
LEMMA NeighboursSay ==
  ASSUME NEW img, NEW f, Laid(img, f)
  PROVE  NeighboursApart(img) <=>
           \A i \in BlocksOf(img) : \A j \in BlocksOf(img) \ {i} :
             BlockUnits(img, i) \cap BlockUnits(img, j) = {}
<1>0. block_total(img.header) \in Nat \ {0}
  BY LaidOut
<1>1. ASSUME NEW i \in BlocksOf(img), NEW j \in BlocksOf(img) \ {i}
      PROVE  (BlockUnits(img, i) \cap BlockUnits(img, j) = {}) <=>
                \/ block_off(img.bat[i]) + block_total(img.header) <= block_off(img.bat[j])
                \/ block_off(img.bat[j]) + block_total(img.header) <= block_off(img.bat[i])
  <2>1. block_off(img.bat[i]) \in Nat /\ block_off(img.bat[j]) \in Nat
    BY BlockOrder
  <2> QED BY <1>0, <2>1, RangesApart DEF BlockUnits
<1>2. ASSUME NeighboursApart(img), NEW i \in BlocksOf(img), NEW j \in BlocksOf(img) \ {i}
      PROVE  BlockUnits(img, i) \cap BlockUnits(img, j) = {}
  <2>1. SortsBefore(img, i, j) \/ SortsBefore(img, j, i)
    BY BlockOrder
  <2> QED BY <2>1, <1>1, <1>2, NeighboursSuffice
<1>3. ASSUME \A i \in BlocksOf(img) : \A j \in BlocksOf(img) \ {i} :
               BlockUnits(img, i) \cap BlockUnits(img, j) = {},
             NEW i \in BlocksOf(img), NEW j \in BlocksOf(img), SortsBefore(img, i, j)
      PROVE  block_off(img.bat[i]) + block_total(img.header) <= block_off(img.bat[j])
  <2>1. i \in Nat /\ j \in Nat /\ img.bat[i] \in Nat /\ img.bat[j] \in Nat
    BY LaidOut
  <2>2. i # j
    BY <2>1, <1>3 DEF SortsBefore
  <2>3. \/ block_off(img.bat[i]) + block_total(img.header) <= block_off(img.bat[j])
        \/ block_off(img.bat[j]) + block_total(img.header) <= block_off(img.bat[i])
    BY <2>2, <1>1, <1>3
  <2>4. /\ block_off(img.bat[i]) <= block_off(img.bat[j])
        /\ block_off(img.bat[i]) \in Nat /\ block_off(img.bat[j]) \in Nat
    BY <1>3, BlockOrder
  <2> QED BY <2>3, <2>4, <1>0
<1> QED BY <1>2, <1>3 DEF NeighboursApart

(* A range that holds something touches no block exactly when the last block that
   begins before its end has ended where it begins.                        *)
LEMMA LastBlockSays ==
  ASSUME NEW img, NEW f, Laid(img, f), NEW l \in LocatorContents, l.length > 0
  PROVE  ClearOfBlocks(img, l) <=>
           \A i \in BlocksOf(img) : LocatorUnits(l) \cap BlockUnits(img, i) = {}
<1>0. /\ block_total(img.header) \in Nat \ {0}
      /\ l.at \in Nat /\ l.length \in Nat \ {0}
  BY LaidOut DEF LocatorContents
<1>1. ASSUME NEW i \in BlocksOf(img)
      PROVE  (LocatorUnits(l) \cap BlockUnits(img, i) = {}) <=>
                \/ l.at + l.length <= block_off(img.bat[i])
                \/ block_off(img.bat[i]) + block_total(img.header) <= l.at
  <2>1. block_off(img.bat[i]) \in Nat
    BY BlockOrder
  <2> QED BY <1>0, <2>1, RangesApart DEF BlockUnits, LocatorUnits
<1>2. ASSUME ClearOfBlocks(img, l), NEW i \in BlocksOf(img),
             ~ (l.at + l.length <= block_off(img.bat[i]))
      PROVE  block_off(img.bat[i]) + block_total(img.header) <= l.at
  <2> DEFINE S == {k \in BlocksOf(img) : block_off(img.bat[k]) < l.at + l.length}
  <2>1. S \in SUBSET BlocksOf(img)
    OBVIOUS
  <2>2. block_off(img.bat[i]) \in Nat
    BY BlockOrder
  <2>3. i \in S
    BY <2>2, <1>0, <1>2
  <2>4. \A k \in S : img.bat[k] <= l.at + l.length
    <3>1. \A k \in BlocksOf(img) : img.bat[k] \in Nat
      BY LaidOut
    <3> QED BY <3>1, <1>0 DEF block_off, SECTOR_SIZE
  <2>5. PICK k \in S : \A j \in S : ~ SortsBefore(img, k, j)
    <3>1. l.at + l.length \in Nat /\ S # {}
      BY <2>3, <1>0
    <3> HIDE DEF S
    <3> QED BY <3>1, <2>1, <2>4, LastOfBlocks
  <2>6. LastBefore(img, l.at + l.length, k)
    BY <2>5 DEF LastBefore
  <2>7. block_off(img.bat[k]) + block_total(img.header) <= l.at
    BY <2>6, <1>2 DEF ClearOfBlocks
  <2>8. block_off(img.bat[i]) <= block_off(img.bat[k])
    <3>1. CASE i = k
      BY <3>1, <2>2
    <3>2. CASE i # k
      <4>1. SortsBefore(img, i, k)
        BY <3>2, <2>3, <2>5, BlockOrder
      <4> QED BY <4>1, BlockOrder
    <3> QED BY <3>1, <3>2
  <2>1a. block_off(img.bat[k]) \in Nat
    BY BlockOrder
  <2> QED BY <2>2, <2>7, <2>8, <2>1a, <1>0
<1>3. ASSUME \A i \in BlocksOf(img) : LocatorUnits(l) \cap BlockUnits(img, i) = {},
             NEW i \in BlocksOf(img), LastBefore(img, l.at + l.length, i)
      PROVE  block_off(img.bat[i]) + block_total(img.header) <= l.at
  <2>1. block_off(img.bat[i]) \in Nat
    BY BlockOrder
  <2>2. block_off(img.bat[i]) < l.at + l.length
    BY <1>3 DEF LastBefore
  <2> QED BY <2>1, <2>2, <1>0, <1>1, <1>3
<1> QED BY <1>1, <1>2, <1>3 DEF ClearOfBlocks

(* The bounds of one entry are the bounds of its block. *)
LEMMA EntriesSay ==
  ASSUME NEW img, NEW f, Laid(img, f)
  PROVE  EntriesInside(img, f) <=>
           \A i \in BlocksOf(img) :
             /\ BlockUnits(img, i) \subseteq Units(0, img.size) \ FooterUnits(img)
             /\ \A u \in BlockUnits(img, i), m \in MetadataUnits(img, f) : m < u
<1> DEFINE h == img.header
           M == Maximum(FOOTER_SIZE, Maximum(f.data_offset + DYN_HEADER_SIZE, table_end(h)))
<1>0. /\ block_total(h) \in Nat \ {0} /\ f.data_offset \in Nat
      /\ h.table_offset \in Nat /\ h.max_table_entries \in Nat \ {0}
      /\ data_end(img) \in Nat
  BY LaidOut, DataArea
<1>1. table_end(h) \in Nat /\ table_end(h) = h.table_offset + h.max_table_entries
  BY <1>0 DEF table_end, ENTRY_SIZE
<1>2. /\ M \in Nat
      /\ \A n \in Nat : M <= n <=> 2 <= n /\ f.data_offset + 4 <= n /\ table_end(h) <= n
  BY <1>0, <1>1 DEF Maximum, FOOTER_SIZE, DYN_HEADER_SIZE
<1>3. data_start(img, f) = CeilDiv(M, SECTOR_SIZE) * SECTOR_SIZE
  BY DEF data_start
<1>4. ASSUME NEW i \in BlocksOf(img)
      PROVE  /\ data_start(img, f) <= block_off(img.bat[i]) <=>
                  \A u \in BlockUnits(img, i), m \in MetadataUnits(img, f) : m < u
             /\ block_off(img.bat[i]) + block_total(h) <= data_end(img) <=>
                  BlockUnits(img, i) \subseteq Units(0, img.size) \ FooterUnits(img)
  <2> DEFINE at == block_off(img.bat[i])
  <2>1. img.bat[i] \in Nat /\ at \in Nat
    BY LaidOut, BlockOrder
  <2>2. data_start(img, f) <= at <=> M <= at
    <3> HIDE DEF M
    <3> QED BY <2>1, <1>2, <1>3, RoundedToSector
  <2>3. M <= at <=> 2 <= at /\ f.data_offset + 4 <= at /\ table_end(h) <= at
    <3> HIDE DEF M, h
    <3> QED BY <1>2, <2>1
  <2>4. /\ (\A u \in Units(at, block_total(h)), m \in MirrorUnits : m < u) <=> 2 <= at
        /\ (\A u \in Units(at, block_total(h)), m \in HeaderUnits(f) : m < u)
             <=> f.data_offset + 4 <= at
        /\ (\A u \in Units(at, block_total(h)), m \in TableUnits(h) : m < u)
             <=> table_end(h) <= at
    <3>1. MirrorUnits = Units(0, 2) /\ HeaderUnits(f) = Units(f.data_offset, 4)
          /\ TableUnits(h) = Units(h.table_offset, h.max_table_entries)
      <4>1. h.max_table_entries * ENTRY_SIZE = h.max_table_entries
        BY <1>0 DEF ENTRY_SIZE
      <4> QED BY <4>1 DEF MirrorUnits, HeaderUnits, TableUnits, FOOTER_SIZE, DYN_HEADER_SIZE
    <3> HIDE DEF at, h
    <3>2. \A b \in Nat, n \in Nat \ {0} :
            (\A u \in Units(at, block_total(h)), m \in Units(b, n) : m < u) <=> b + n <= at
      BY <1>0, <2>1, RangeBehind
    <3>3. (\A u \in Units(at, block_total(h)), m \in Units(0, 2) : m < u) <=> 2 <= at
      <4>1. 0 \in Nat /\ 2 \in Nat \ {0} /\ 0 + 2 = 2
        OBVIOUS
      <4> QED BY <4>1, <3>2
    <3>4. (\A u \in Units(at, block_total(h)), m \in Units(f.data_offset, 4) : m < u)
             <=> f.data_offset + 4 <= at
      BY <1>0, <3>2
    <3>5. (\A u \in Units(at, block_total(h)), m \in Units(h.table_offset, h.max_table_entries) :
             m < u) <=> h.table_offset + h.max_table_entries <= at
      BY <1>0, <3>2
    <3> QED BY <3>1, <3>3, <3>4, <3>5, <1>1
  <2>5. BlockUnits(img, i) = Units(at, block_total(h))
    BY DEF BlockUnits
  <2>6. data_start(img, f) <= at <=>
          \A u \in BlockUnits(img, i), m \in MetadataUnits(img, f) : m < u
    <3> HIDE DEF M, at
    <3> QED BY <2>2, <2>3, <2>4, <2>5 DEF MetadataUnits
  <2>7. at + block_total(h) <= data_end(img) <=>
          BlockUnits(img, i) \subseteq Units(0, img.size) \ FooterUnits(img)
    <3>1. Units(0, img.size) \ FooterUnits(img) = 0 .. data_end(img) - 1
      BY DataArea
    <3> HIDE DEF at, h
    <3>2. Units(at, block_total(h)) \subseteq 0 .. data_end(img) - 1
            <=> at + block_total(h) <= data_end(img)
      BY <1>0, <2>1, RangeInside
    <3> QED BY <2>5, <3>1, <3>2
  <2> QED BY <2>6, <2>7
<1> QED BY <1>4 DEF EntriesInside

(* The table is in the file, with an entry for every block of the disk. *)
LEMMA TableSays ==
  ASSUME NEW img, NEW f, Laid(img, f)
  PROVE  TableFits(img, f) <=>
           /\ TableUnits(img.header) \subseteq Units(0, img.size)
           /\ f.current_size <= img.header.max_table_entries * img.header.block_size
<1> DEFINE h == img.header
<1>1. /\ h.block_size \in Nat \ {0} /\ h.max_table_entries \in Nat \ {0}
      /\ h.table_offset \in Nat /\ img.size \in Nat
  BY LaidOut
<1>2. f.current_size \in Nat
  BY DEF Laid, SectorContents
<1>3. CeilDiv(f.current_size, h.block_size) <= h.max_table_entries <=>
        f.current_size <= h.max_table_entries * h.block_size
  BY <1>1, <1>2, CeilDivFits
<1>4. h.max_table_entries * ENTRY_SIZE = h.max_table_entries
  BY <1>1 DEF ENTRY_SIZE
<1>5. Units(0, img.size) = 0 .. img.size - 1
  BY <1>1 DEF Units
<1>6. Units(h.table_offset, h.max_table_entries) \subseteq 0 .. img.size - 1 <=>
        h.table_offset + h.max_table_entries <= img.size
  BY <1>1, RangeInside
<1> QED BY <1>3, <1>4, <1>5, <1>6 DEF TableFits, TableUnits, table_end

(* A locator that is live is in the file and touches nothing; one that is not
   has nothing to touch anything with.                                     *)
LEMMA LocatorsSay ==
  ASSUME NEW img, NEW f, Laid(img, f)
  PROVE  LocatorsClear(img, f) <=>
           \A l \in Range(img.locators) : l.code =>
             /\ LocatorUnits(l) \subseteq Units(0, img.size) \ FooterUnits(img)
             /\ LocatorUnits(l) \cap MetadataUnits(img, f) = {}
             /\ \A i \in BlocksOf(img) : LocatorUnits(l) \cap BlockUnits(img, i) = {}
<1> DEFINE h == img.header
           Clear(l) ==
             /\ l.at + l.length <= data_end(img)
             /\ ~ Overlap(l.at, l.at + l.length, 0, FOOTER_SIZE)
             /\ ~ Overlap(l.at, l.at + l.length, f.data_offset, f.data_offset + DYN_HEADER_SIZE)
             /\ ~ Overlap(l.at, l.at + l.length, h.table_offset, table_end(h))
             /\ ClearOfBlocks(img, l)
           Free(l) ==
             /\ LocatorUnits(l) \subseteq Units(0, img.size) \ FooterUnits(img)
             /\ LocatorUnits(l) \cap MetadataUnits(img, f) = {}
             /\ \A i \in BlocksOf(img) : LocatorUnits(l) \cap BlockUnits(img, i) = {}
<1>1. \A l \in Range(img.locators) : l \in LocatorContents
  BY DEF Laid, IsImage, Tables, Range
<1>2. /\ f.data_offset \in Nat /\ h.table_offset \in Nat
      /\ h.max_table_entries \in Nat \ {0} /\ data_end(img) \in Nat
      /\ img.size \in Nat
  BY LaidOut, DataArea
<1>3. h.max_table_entries * ENTRY_SIZE = h.max_table_entries
  BY <1>2 DEF ENTRY_SIZE
<1>4. ASSUME NEW l \in LocatorContents, l.length > 0
      PROVE  Clear(l) <=> Free(l)
  <2>1. l.at \in Nat /\ l.length \in Nat \ {0}
    BY <1>4 DEF LocatorContents
  <2>1a. \A b \in Nat, n \in Nat \ {0} :
          (Units(l.at, l.length) \cap Units(b, n) = {}) <=> (l.at + l.length <= b \/ b + n <= l.at)
    BY <2>1, RangesApart
  <2>2. l.at + l.length <= data_end(img) <=>
          LocatorUnits(l) \subseteq Units(0, img.size) \ FooterUnits(img)
    <3>1. Units(0, img.size) \ FooterUnits(img) = 0 .. data_end(img) - 1
      BY DataArea
    <3>2. Units(l.at, l.length) \subseteq 0 .. data_end(img) - 1
            <=> l.at + l.length <= data_end(img)
      BY <1>2, <2>1, RangeInside
    <3> QED BY <3>1, <3>2 DEF LocatorUnits
  <2>3. ~ Overlap(l.at, l.at + l.length, 0, FOOTER_SIZE) <=>
          LocatorUnits(l) \cap MirrorUnits = {}
    <3>1. (Units(l.at, l.length) \cap Units(0, 2) = {}) <=>
             (l.at + l.length <= 0 \/ 2 <= l.at)
      <4>1. 0 \in Nat /\ 2 \in Nat \ {0} /\ 0 + 2 = 2
        OBVIOUS
      <4> QED BY <4>1, <2>1a
    <3> QED BY <3>1, <2>1 DEF Overlap, LocatorUnits, MirrorUnits, FOOTER_SIZE
  <2>4. ~ Overlap(l.at, l.at + l.length, f.data_offset, f.data_offset + DYN_HEADER_SIZE) <=>
          LocatorUnits(l) \cap HeaderUnits(f) = {}
    <3>1. (Units(l.at, l.length) \cap Units(f.data_offset, 4) = {}) <=>
             (l.at + l.length <= f.data_offset \/ f.data_offset + 4 <= l.at)
      BY <2>1a, <1>2
    <3> QED BY <3>1, <2>1, <1>2 DEF Overlap, LocatorUnits, HeaderUnits, DYN_HEADER_SIZE
  <2>5. ~ Overlap(l.at, l.at + l.length, h.table_offset, table_end(h)) <=>
          LocatorUnits(l) \cap TableUnits(h) = {}
    <3>1. (Units(l.at, l.length) \cap Units(h.table_offset, h.max_table_entries) = {}) <=>
             (l.at + l.length <= h.table_offset
              \/ h.table_offset + h.max_table_entries <= l.at)
      BY <2>1a, <1>2
    <3> HIDE DEF h
    <3> QED BY <3>1, <2>1, <1>2, <1>3 DEF Overlap, LocatorUnits, TableUnits, table_end
  <2>6. ClearOfBlocks(img, l) <=>
          \A i \in BlocksOf(img) : LocatorUnits(l) \cap BlockUnits(img, i) = {}
    BY <1>4, LastBlockSays
  <2>7. LocatorUnits(l) \cap MetadataUnits(img, f) = {} <=>
          /\ LocatorUnits(l) \cap MirrorUnits = {}
          /\ LocatorUnits(l) \cap HeaderUnits(f) = {}
          /\ LocatorUnits(l) \cap TableUnits(h) = {}
    BY DEF MetadataUnits
  <2> QED BY <2>2, <2>3, <2>4, <2>5, <2>6, <2>7
<1>5. ASSUME NEW l \in LocatorContents, ~ (l.length > 0)
      PROVE  Free(l)
  <2>1. l.at \in Nat /\ l.length = 0
    BY <1>5 DEF LocatorContents
  <2>2. LocatorUnits(l) = {}
    BY <2>1 DEF LocatorUnits, Units
  <2> QED BY <2>2
<1>6. LocatorsClear(img, f) <=> \A l \in Range(img.locators) : Live(l) => Clear(l)
  BY DEF LocatorsClear
<1>7. ASSUME NEW l \in LocatorContents
      PROVE  (Live(l) => Clear(l)) <=> (l.code => Free(l))
  <2> HIDE DEF Clear, Free
  <2>1. l.code \in BOOLEAN /\ (l.length > 0) \in BOOLEAN
    BY DEF LocatorContents
  <2> QED BY <2>1, <1>4, <1>5 DEF Live
<1>8. (\A l \in Range(img.locators) : Live(l) => Clear(l)) <=>
        \A l \in Range(img.locators) : l.code => Free(l)
  <2> HIDE DEF Clear, Free
  <2> QED BY <1>1, <1>7
<1> QED BY <1>6, <1>8

(* open_inner takes a sparse image exactly when it is sound. *)
LEMMA AcceptedIsSound ==
  ASSUME NEW img, NEW f, IsImage(img), f \in SectorContents
  PROVE  SparseAccepted(img, f) <=> Sound(img, f)
<1>1. CASE ~ HeaderRead(img, f)
  BY <1>1 DEF SparseAccepted, Sound
<1>2. CASE HeaderRead(img, f)
  <2>1. Laid(img, f)
    BY <1>2 DEF Laid
  <2>2. EntriesInside(img, f) /\ NeighboursApart(img) <=>
          \A i \in BlocksOf(img) :
            /\ BlockUnits(img, i) \subseteq Units(0, img.size) \ FooterUnits(img)
            /\ \A u \in BlockUnits(img, i), m \in MetadataUnits(img, f) : m < u
            /\ \A j \in BlocksOf(img) \ {i} : BlockUnits(img, i) \cap BlockUnits(img, j) = {}
    BY <2>1, EntriesSay, NeighboursSay
  <2>3. TableFits(img, f) <=>
          /\ TableUnits(img.header) \subseteq Units(0, img.size)
          /\ f.current_size <= img.header.max_table_entries * img.header.block_size
    BY <2>1, TableSays
  <2> QED BY <1>2, <2>1, <2>2, <2>3, LocatorsSay DEF SparseAccepted, Sound
<1> QED BY <1>1, <1>2

-----------------------------------------------------------------------------
(* Who holds what *)

(* While there is room a device is left, and the next one is the first of them. *)
LEMMA NextDevice ==
  ASSUME TypeOK, Room
  PROVE  /\ NewDevice \in Devices
         /\ dev[NewDevice].kind = "none"
         /\ \A e \in Devices : dev[e].kind = "none" => NewDevice <= e
<1> DEFINE Left == {d \in Devices : dev[d].kind = "none"}
           Used == {d \in Devices : dev[d].kind # "none"}
<1>1. file.devices \in Nat /\ file.devices <= MaxDevices /\ MaxDevices \in Nat
  BY ApiAssumption DEF TypeOK, OpenFiles
<1>2. Left # {}
  <2> SUFFICES ASSUME Left = {} PROVE FALSE
    OBVIOUS
  <2>1. Used = 1 .. MaxDevices
    BY DEF Devices
  <2>2. Cardinality(1 .. MaxDevices) = MaxDevices
    <3>1. Cardinality(1 .. MaxDevices) = IF 1 > MaxDevices THEN 0 ELSE MaxDevices - 1 + 1
      BY <1>1, FS_Interval
    <3> QED BY <3>1, <1>1, ApiAssumption
  <2>3. Cardinality(Used) < file.devices
    BY DEF Room
  <2>4. MaxDevices < file.devices
    <3> HIDE DEF Used
    <3> QED BY <2>1, <2>2, <2>3
  <2> QED BY <2>4, <1>1
<1>3. Left \in SUBSET Nat
  BY DEF Devices
<1>4. \E d \in Left : \A e \in Left : d <= e
  <2> HIDE DEF Left
  <2> QED BY <1>2, <1>3, LeastExists
<1>5. \E d \in Devices : /\ dev[d].kind = "none"
                         /\ \A e \in Devices : dev[e].kind = "none" => d <= e
  BY <1>4
<1> QED BY <1>5 DEF NewDevice

(* What is left when Arcs are dropped keeps its own readers alive. *)
LEMMA SettleKeeps ==
  ASSUME NEW R
  PROVE  Settle(R) \subseteq R /\ KeepsReaders(Settle(R))
<1>1. Settle(R) \subseteq R
  BY DEF Settle
<1>2. ASSUME NEW r \in Settle(R), r.by = "reader"
      PROVE  \E q \in Settle(R) : q.dev = r.id
  <2>1. PICK K \in SUBSET R : KeepsReaders(K) /\ r \in K
    BY DEF Settle
  <2>2. PICK q \in K : q.dev = r.id
    BY <2>1, <1>2 DEF KeepsReaders
  <2> QED BY <2>1, <2>2 DEF Settle
<1> QED BY <1>1, <1>2 DEF KeepsReaders

LEMMA InitOwners == Init => OwnersInv
<1> SUFFICES ASSUME Init PROVE OwnersInv
  OBVIOUS
<1> USE ApiAssumption
<1>1. PICK f \in Files :
        /\ file = [access |-> f.access, slack |-> f.slack, header |-> f.header,
                   bat |-> f.bat, locators |-> f.locators, devices |-> f.devices]
        /\ media = f.sectors
  BY DEF Init
<1>2. /\ f.sectors \in Seq(SectorContents) /\ f.access \in {"rw", "ro"} /\ f.slack \in 0 .. 1
      /\ f.devices \in 0 .. MaxDevices /\ f.header \in HeaderContents
      /\ f.bat \in Seq(Nat) /\ f.locators \in Seq(LocatorContents)
  BY DEF IsFile, Tables
<1>3. TypeOK
  BY <1>1, <1>2 DEF Init, TypeOK, NoDevice, NoCall, OpenFiles, CallsUnderWay
<1>4. DeviceInv
  BY DEF Init, DeviceInv, NoDevice
<1>5. HolderInv
  BY DEF Init, HolderInv
<1> QED BY <1>3, <1>4, <1>5 DEF OwnersInv

(* A step that makes a device: a reader lies on one that is there. *)
Makes(new) ==
  /\ Room
  /\ new.kind \in {"file", "raw", "reader"}
  /\ new.below \in 0 .. MaxDevices
  /\ new.kind = "reader" => new.below \in Devices /\ dev[new.below].kind # "none"
  /\ dev' = [dev EXCEPT ![NewDevice] = new]

(* The devices are then those before and the new one, still in order. *)
LEMMA Making ==
  ASSUME OwnersInv, NEW new, Makes(new)
  PROVE  /\ DOMAIN dev' = Devices
         /\ \A d \in Devices : /\ dev'[d].kind \in {"none", "file", "raw", "reader"}
                               /\ dev'[d].below \in 0 .. MaxDevices
                               /\ dev'[d].kind = "reader" => dev'[d].below \in 1 .. d - 1
                               /\ dev'[d].kind = "none" =>
                                    /\ dev[d].kind = "none"
                                    /\ \A e \in Devices : e > d => dev'[e].kind = "none"
                               /\ d # NewDevice => dev'[d] = dev[d]
         /\ dev'[NewDevice] = new
<1> DEFINE N == NewDevice
<1> USE DEF Makes
<1>1. /\ N \in Devices /\ dev[N].kind = "none"
      /\ \A e \in Devices : dev[e].kind = "none" => N <= e
  BY NextDevice DEF OwnersInv
<1>2. /\ DOMAIN dev = Devices
      /\ \A d \in Devices : /\ dev[d].kind \in {"none", "file", "raw", "reader"}
                            /\ dev[d].below \in 0 .. MaxDevices
  BY DEF OwnersInv, TypeOK
<1> HIDE DEF N
<1>3. DOMAIN dev' = Devices /\ dev'[N] = new /\ \A d \in Devices : d # N => dev'[d] = dev[d]
  BY <1>1, <1>2 DEF N
<1>4. MaxDevices \in Nat
  BY ApiAssumption
<1>5. ASSUME NEW d \in Devices, dev[d].kind # "none" PROVE d < N
  <2>1. dev[N].kind = "none" => \A e \in Devices : e > N => dev[e].kind = "none"
    BY <1>1 DEF OwnersInv, DeviceInv
  <2> QED BY <2>1, <1>1, <1>5, <1>4 DEF Devices
<1>6. ASSUME NEW d \in Devices, dev'[d].kind = "reader" PROVE dev'[d].below \in 1 .. d - 1
  <2>1. CASE d = N
    BY <2>1, <1>3, <1>5, <1>6, <1>4 DEF Devices
  <2>2. CASE d # N
    BY <2>2, <1>3, <1>6 DEF OwnersInv, DeviceInv
  <2> QED BY <2>1, <2>2
<1>7. ASSUME NEW d \in Devices, dev'[d].kind = "none"
      PROVE  dev[d].kind = "none" /\ \A e \in Devices : e > d => dev'[e].kind = "none"
  <2>1. d # N
    BY <1>3, <1>7
  <2>2. dev[d].kind = "none"
    BY <2>1, <1>3, <1>7
  <2>3. N <= d
    BY <2>2, <1>1
  <2>4. \A e \in Devices : e > d => dev[e].kind = "none" /\ e # N
    BY <2>2, <2>3, <1>1, <1>4 DEF OwnersInv, DeviceInv, Devices
  <2> QED BY <2>2, <2>4, <1>3
<1> QED BY <1>2, <1>3, <1>6, <1>7 DEF N

(* A call that puts a device of its own at the bottom, or takes one from the
   caller.                                                                 *)
BeginsWith(new, r) ==
  /\ Room /\ refs = {}
  /\ new.kind \in {"file", "raw"} /\ new.below = 0
  /\ dev' = [dev EXCEPT ![NewDevice] = new]
  /\ refs' = {r} /\ freed' = freed
  /\ \/ r = InBox(NewDevice) /\ pc' = "idle"
     \/ r = InCall(NewDevice) /\ pc' = "open" /\ call'.dev = NewDevice

LEMMA BottomOwners ==
  ASSUME OwnersInv, NEW new, NEW r, BeginsWith(new, r)
  PROVE  DeviceInv' /\ HolderInv'
<1> USE DEF BeginsWith
<1> DEFINE N == NewDevice
<1>1. N \in Devices /\ dev[N].kind = "none"
  BY NextDevice DEF OwnersInv
<1>2. /\ dev'[N] = new
      /\ \A d \in Devices : /\ dev'[d].kind = "reader" => dev'[d].below \in 1 .. d - 1
                            /\ dev'[d].kind = "none" =>
                                 /\ dev[d].kind = "none"
                                 /\ \A e \in Devices : e > d => dev'[e].kind = "none"
  <2>1. Makes(new)
    BY ApiAssumption DEF Makes
  <2> QED BY <2>1, Making
<1> HIDE DEF N
<1>3. r.dev = N /\ r.by # "reader"
      /\ (r.by = "box" => r = InBox(N)) /\ (r.by = "call" => r = InCall(N))
  BY DEF InBox, InCall, Ref, N
<1>4. \A d \in Devices : freed[d] <= 1 /\ (dev[d].kind = "none" => freed[d] = 0)
  BY DEF OwnersInv, DeviceInv
<1>5. \A d \in Devices : InBox(d) = r => d = N
  BY <1>3 DEF InBox, Ref
<1>6. DeviceInv'
  BY <1>1, <1>2, <1>4, <1>5 DEF DeviceInv, InBox
<1>7. new.kind # "none"
  OBVIOUS
<1>8. r.by = "call" => pc' = "open" /\ r = InCall(call'.dev)
  BY DEF InBox, InCall, Ref
<1>9. pc' = "open" => InCall(call'.dev) \in refs'
  BY DEF InBox, InCall, Ref
<1>10. HolderInv'
  BY <1>2, <1>3, <1>7, <1>8, <1>9 DEF HolderInv, InBox, InCall, Alive, N
<1> QED BY <1>6, <1>10

(* Arcs that are dropped leave the others to whom they were. *)
LetsGo(r) ==
  /\ r.by # "reader"
  /\ refs' = Settle(refs \ {r}) /\ dev' = dev /\ call' = call /\ pc' # "open"
  /\ pc = "idle" \/ r = InCall(call.dev)
  /\ freed' \in [Devices -> Nat]
  /\ \A d \in Devices :
       \/ freed'[d] = freed[d]
       \/ r = InBox(d) /\ InBox(d) \in refs /\ freed'[d] = freed[d] + 1

LEMMA DroppedOwners ==
  ASSUME OwnersInv, NEW r, LetsGo(r)
  PROVE  DeviceInv' /\ HolderInv'
<1> USE DEF LetsGo
<1>1. refs' \subseteq refs \ {r} /\ KeepsReaders(refs')
  BY SettleKeeps
<1>2. DeviceInv'
  <2> SUFFICES ASSUME NEW d \in Devices
               PROVE  /\ dev[d].kind = "reader" => dev[d].below \in 1 .. d - 1
                      /\ dev[d].kind = "none" =>
                           freed'[d] = 0 /\ \A e \in Devices : e > d => dev[e].kind = "none"
                      /\ freed'[d] <= 1 /\ (InBox(d) \in refs' => freed'[d] = 0)
    BY DEF DeviceInv, InBox
  <2>1. /\ dev[d].kind = "reader" => dev[d].below \in 1 .. d - 1
        /\ dev[d].kind = "none" =>
             freed[d] = 0 /\ \A e \in Devices : e > d => dev[e].kind = "none"
        /\ freed[d] <= 1 /\ (InBox(d) \in refs => freed[d] = 0)
    BY DEF OwnersInv, DeviceInv
  <2>2. InBox(d) \in refs => dev[d].kind # "none"
    <3>1. InBox(d).dev = d
      BY DEF InBox, Ref
    <3> QED BY <3>1 DEF OwnersInv, HolderInv
  <2>3. CASE freed'[d] = freed[d]
    BY <2>1, <2>3, <1>1
  <2>4. CASE r = InBox(d) /\ InBox(d) \in refs /\ freed'[d] = freed[d] + 1
    <3>1. freed'[d] = 1
      BY <2>1, <2>4
    <3>2. InBox(d) \notin refs'
      BY <2>4, <1>1
    <3> QED BY <2>1, <2>2, <2>4, <3>1, <3>2
  <2> QED BY <2>3, <2>4
<1>3. HolderInv'
  <2>1. ASSUME NEW q \in refs'
        PROVE  /\ dev[q.dev].kind # "none"
               /\ q.by = "box" => q = InBox(q.dev)
               /\ q.by # "call"
               /\ q.by = "reader" => /\ q.id \in Devices /\ \E p \in refs' : p.dev = q.id
                                     /\ dev[q.id].kind = "reader" /\ dev[q.id].below = q.dev
    <3>1. q \in refs /\ q # r
      BY <1>1
    <3>2. q.by = "reader" => \E p \in refs' : p.dev = q.id
      BY <1>1 DEF KeepsReaders
    <3> QED BY <3>1, <3>2 DEF OwnersInv, HolderInv
  <2>2. \A p, q \in refs' : (p.dev = q.dev => p = q)
                            /\ (p.by # "reader" /\ q.by # "reader" => p = q)
    BY <1>1 DEF OwnersInv, HolderInv
  <2> QED BY <2>1, <2>2 DEF HolderInv, Alive, InBox, InCall
<1> QED BY <1>2, <1>3

(* A call that takes a handle for its own. *)
LEMMA TakenOwners ==
  ASSUME OwnersInv, NEW h \in Devices, NEW w, OnDevice(h, w)
  PROVE  DeviceInv' /\ HolderInv'
<1>1. /\ InBox(h) \in refs /\ refs' = (refs \ {InBox(h)}) \cup {InCall(h)}
      /\ freed' = [freed EXCEPT ![h] = freed[h] + 1] /\ dev' = dev
      /\ pc = "idle" /\ pc' = "open" /\ call'.dev = h
  BY DEF OnDevice, Opening, Owned
<1>2. /\ \A d, e \in Devices : InBox(d) = InBox(e) => d = e
      /\ \A d, e \in Devices : InBox(d) # InCall(e)
      /\ InBox(h).dev = h /\ InBox(h).by = "box" /\ InCall(h).dev = h /\ InCall(h).by = "call"
  BY DEF InBox, InCall, Ref
<1>3. \A d \in Devices : freed'[d] = IF d = h THEN freed[h] + 1 ELSE freed[d]
  BY <1>1 DEF OwnersInv, TypeOK
<1>4. dev[h].kind # "none" /\ freed[h] = 0
  BY <1>1, <1>2 DEF OwnersInv, DeviceInv, HolderInv
<1>5. DeviceInv'
  <2>1. \A d \in Devices : InBox(d) \in refs' => InBox(d) \in refs /\ d # h
    BY <1>1, <1>2
  <2>2. ASSUME NEW d \in Devices
        PROVE  freed'[d] <= 1 /\ (InBox(d) \in refs' => freed'[d] = 0)
               /\ (dev[d].kind = "none" => freed'[d] = 0)
    BY <2>1, <1>3, <1>4 DEF OwnersInv, DeviceInv
  <2> QED BY <2>2, <1>1 DEF OwnersInv, DeviceInv, InBox
<1>6. ASSUME NEW q \in refs'
      PROVE  /\ dev[q.dev].kind # "none"
             /\ q.by = "box" => q = InBox(q.dev)
             /\ q.by = "call" => q = InCall(h)
             /\ q.by = "reader" => /\ q.id \in Devices /\ \E p \in refs' : p.dev = q.id
                                   /\ dev[q.id].kind = "reader" /\ dev[q.id].below = q.dev
  <2>1. CASE q = InCall(h)
    BY <2>1, <1>2, <1>4
  <2>2. CASE q \in refs /\ q # InBox(h)
    <3>1. q.by # "call"
      BY <2>2, <1>1 DEF OwnersInv, HolderInv
    <3>2. ASSUME q.by = "reader" PROVE \E p \in refs' : p.dev = q.id
      <4>1. PICK p \in refs : p.dev = q.id
        BY <2>2, <3>2 DEF OwnersInv, HolderInv, Alive
      <4>2. p \in refs' \/ p = InBox(h)
        BY <1>1
      <4>3. InCall(h) \in refs' /\ InCall(h).dev = InBox(h).dev
        BY <1>1, <1>2
      <4> QED BY <4>1, <4>2, <4>3
    <3> QED BY <2>2, <3>1, <3>2 DEF OwnersInv, HolderInv
  <2> QED BY <2>1, <2>2, <1>1
<1>7. ASSUME NEW p \in refs', NEW q \in refs'
      PROVE  /\ p.dev = q.dev => p = q
             /\ p.by # "reader" /\ q.by # "reader" => p = q
  <2>1. \A r \in refs : (r.dev = h => r = InBox(h)) /\ (r.by # "reader" => r = InBox(h))
    BY <1>1, <1>2 DEF OwnersInv, HolderInv
  <2>2. \A r \in refs' : r = InCall(h) \/ (r \in refs /\ r.dev # h /\ r.by = "reader")
    BY <2>1, <1>1
  <2>3. CASE p = InCall(h) \/ q = InCall(h)
    BY <2>2, <2>3, <1>2
  <2>4. CASE p \in refs /\ q \in refs
    BY <2>4 DEF OwnersInv, HolderInv
  <2> QED BY <2>2, <2>3, <2>4
<1>8. HolderInv'
  BY <1>1, <1>6, <1>7 DEF HolderInv, Alive, InBox, InCall
<1> QED BY <1>5, <1>8

(* A call that returns a reader over the device it holds, and a handle for it. *)
LEMMA OpenedOwners ==
  ASSUME OwnersInv, Opened
  PROVE  DeviceInv' /\ HolderInv'
<1> DEFINE N == NewDevice
           d == call.dev
           f == FooterOf(ImageOn(call.dev))
           new == [kind |-> "reader", below |-> call.dev,
                   sectors |-> f.current_size \div SECTOR_SIZE,
                   writable |-> call.writable, footer |-> f]
<1>1. /\ Room /\ pc = "open" /\ pc' = "returned" /\ call' = call /\ freed' = freed
      /\ dev' = [dev EXCEPT ![N] = new]
      /\ refs' = (refs \ {InCall(d)}) \cup {InReader(N, d), InBox(N)}
  BY DEF Opened, Looking
<1>2. InCall(d) \in refs /\ d \in Devices /\ dev[d].kind # "none"
  <2>1. InCall(d) \in refs /\ InCall(d).dev = d
    BY <1>1 DEF OwnersInv, HolderInv, InCall, Ref
  <2> QED BY <2>1 DEF OwnersInv, HolderInv, TypeOK, Refs
<1>3. N \in Devices /\ dev[N].kind = "none" /\ N # d
  BY <1>1, <1>2, NextDevice DEF OwnersInv
<1>4. /\ dev'[N] = new
      /\ \A e \in Devices : /\ dev'[e].kind = "reader" => dev'[e].below \in 1 .. e - 1
                            /\ dev'[e].kind = "none" =>
                                 /\ dev[e].kind = "none"
                                 /\ \A g \in Devices : g > e => dev'[g].kind = "none"
                            /\ e # N => dev'[e] = dev[e]
  <2>1. /\ new.kind = "reader" /\ new.below = d /\ d \in 0 .. MaxDevices
    BY <1>2 DEF Devices
  <2> HIDE DEF new
  <2>2. Makes(new)
    BY <2>1, <1>1, <1>2 DEF Makes
  <2> QED BY <2>2, Making
<1>5. /\ dev'[N].kind = "reader" /\ dev'[N].below = d
      /\ dev'[d] = dev[d]
  BY <1>2, <1>3, <1>4
<1> HIDE DEF N, d, new
<1>6. /\ InReader(N, d).by = "reader" /\ InReader(N, d).id = N /\ InReader(N, d).dev = d
      /\ InBox(N).by = "box" /\ InBox(N).dev = N
      /\ InCall(d).by = "call" /\ InCall(d).dev = d
      /\ \A e \in Devices : InBox(e) = InBox(N) => e = N
      /\ \A e \in Devices : InBox(e) # InReader(N, d) /\ InBox(e) # InCall(d)
  BY DEF InReader, InBox, InCall, Ref
<1>7. \A r \in refs : r.dev # N /\ r.dev \in Devices
  BY <1>3 DEF OwnersInv, HolderInv, TypeOK, Refs
<1>8. DeviceInv'
  <2>1. \A e \in Devices : InBox(e) \in refs' => InBox(e) \in refs \/ e = N
    BY <1>1, <1>6
  <2>2. freed[N] = 0
    BY <1>3 DEF OwnersInv, DeviceInv
  <2>3. \A e \in Devices : freed[e] <= 1 /\ (InBox(e) \in refs => freed[e] = 0)
                           /\ (dev[e].kind = "none" => freed[e] = 0)
    BY DEF OwnersInv, DeviceInv
  <2> QED BY <2>1, <2>2, <2>3, <1>1, <1>4 DEF DeviceInv, InBox
<1>9. \A r \in refs : (r.dev = d => r = InCall(d)) /\ (r.by # "reader" => r = InCall(d))
  BY <1>2, <1>6 DEF OwnersInv, HolderInv
<1>10. \A r \in refs' : \/ r \in refs /\ r.dev # d /\ r.dev # N /\ r.by = "reader"
                        \/ r = InReader(N, d)
                        \/ r = InBox(N)
  BY <1>1, <1>7, <1>9
<1>11. \A p, q \in refs' : /\ p.dev = q.dev => p = q
                           /\ p.by # "reader" /\ q.by # "reader" => p = q
  <2> SUFFICES ASSUME NEW p \in refs', NEW q \in refs'
               PROVE  /\ p.dev = q.dev => p = q
                      /\ p.by # "reader" /\ q.by # "reader" => p = q
    OBVIOUS
  <2>1. CASE p \in refs /\ q \in refs
    BY <2>1 DEF OwnersInv, HolderInv
  <2>2. CASE p \notin refs \/ q \notin refs
    BY <2>2, <1>3, <1>6, <1>10
  <2> QED BY <2>1, <2>2
<1>12. ASSUME NEW q \in refs'
       PROVE  /\ dev'[q.dev].kind # "none"
              /\ q.by = "box" => q = InBox(q.dev)
              /\ q.by # "call"
              /\ q.by = "reader" => /\ q.id \in Devices /\ \E p \in refs' : p.dev = q.id
                                    /\ dev'[q.id].kind = "reader" /\ dev'[q.id].below = q.dev
  <2>1. CASE q = InBox(N)
    BY <2>1, <1>5, <1>6
  <2>2. CASE q = InReader(N, d)
    <3>1. InBox(N) \in refs'
      BY <1>1
    <3> QED BY <2>2, <3>1, <1>2, <1>3, <1>5, <1>6
  <2>3. CASE q \in refs /\ q.dev # d /\ q.dev # N /\ q.by = "reader"
    <3>1. /\ q.id \in Devices /\ dev[q.id].kind = "reader" /\ dev[q.id].below = q.dev
          /\ dev[q.dev].kind # "none"
      BY <2>3 DEF OwnersInv, HolderInv
    <3>2. q.id # N
      BY <3>1, <1>3
    <3>3. PICK p \in refs : p.dev = q.id
      BY <2>3 DEF OwnersInv, HolderInv, Alive
    <3>4. CASE p = InCall(d)
      <4>1. InReader(N, d) \in refs' /\ InReader(N, d).dev = q.id
        BY <3>3, <3>4, <1>1, <1>6
      <4> QED BY <4>1, <2>3, <3>1, <3>2, <1>4, <1>7
    <3>5. CASE p # InCall(d)
      <4>1. p \in refs'
        BY <3>5, <1>1
      <4> QED BY <4>1, <2>3, <3>1, <3>2, <3>3, <1>4, <1>7
    <3> QED BY <3>4, <3>5
  <2> QED BY <2>1, <2>2, <2>3, <1>10
<1>13. HolderInv'
  BY <1>1, <1>11, <1>12 DEF HolderInv, Alive, InBox, InCall
<1> QED BY <1>8, <1>13

(* Sectors in a row are a file. *)
LEMMA SectorsMake ==
  ASSUME NEW n \in Nat, NEW S, NEW m \in [1 .. n -> S]
  PROVE  m \in Seq(S) /\ Len(m) = n
BY DEF Seq, Len

(* And one more behind them. *)
LEMMA SectorBehind ==
  ASSUME NEW S, NEW m \in Seq(S), NEW z \in S
  PROVE  /\ m \o <<z>> \in Seq(S) /\ Len(m \o <<z>>) = Len(m) + 1
         /\ (m \o <<z>>)[Len(m) + 1] = z
         /\ \A s \in 1 .. Len(m) : (m \o <<z>>)[s] = m[s]
OBVIOUS

(* Types: a call keeps the file a file, and names only devices there are. *)
LEMMA TypesKept ==
  ASSUME OwnersInv, [Next]_vars
  PROVE  TypeOK'
<1> USE ApiAssumption
<1> USE DEF OwnersInv, TypeOK
<1>0. \A d \in Devices : /\ d \in 0 .. MaxDevices
                         /\ InCall(d) \in Refs /\ InBox(d) \in Refs
                         /\ \A e \in Devices : InReader(e, d) \in Refs
                         /\ \A w \in BOOLEAN, p \in BOOLEAN :
                              [dev |-> d, writable |-> w, path |-> p] \in CallsUnderWay
  BY DEF Devices, InCall, InBox, InReader, Ref, Refs, CallsUnderWay
<1>1. ASSUME NEW w \in BOOLEAN, OpenPath(w) PROVE TypeOK'
  <2>1. Makes(Bottom("file", w, Len(media))) /\ NewDevice \in Devices
    BY <1>1, NextDevice DEF OpenPath, Makes, Bottom, NoDevice
  <2>2. DOMAIN dev' = Devices
        /\ \A d \in Devices : dev'[d].kind \in {"none", "file", "raw", "reader"}
                              /\ dev'[d].below \in 0 .. MaxDevices
    BY <2>1, Making
  <2> QED BY <1>1, <1>0, <2>1, <2>2 DEF OpenPath, Opening
<1>2. ASSUME NEW size \in Sizes, CreateFixed(size) PROVE TypeOK'
  <2>1. Makes(Bottom("file", TRUE, exact[size] + 1)) /\ NewDevice \in Devices
    BY <1>2, NextDevice DEF CreateFixed, Makes, Bottom, NoDevice
  <2>2. DOMAIN dev' = Devices
        /\ \A d \in Devices : dev'[d].kind \in {"none", "file", "raw", "reader"}
                              /\ dev'[d].below \in 0 .. MaxDevices
    BY <2>1, Making
  <2>3. Data(0) \in SectorContents /\ FixedFooter(exact[size]) \in SectorContents
    BY OpenAssumption
      DEF Data, FixedFooter, Sector, SectorContents, FIXED, SECTOR_SIZE
  <2>4. media' \in Seq(SectorContents)
    <3>1. [s \in 1 .. exact[size] |-> Data(0)] \in Seq(SectorContents)
      BY <2>3, SectorsMake
    <3>2. <<FixedFooter(exact[size])>> \in Seq(SectorContents)
      BY <2>3
    <3> QED BY <3>1, <3>2, <1>2 DEF CreateFixed
  <2>5. file' \in OpenFiles
    <3>1. NoHeader \in HeaderContents /\ <<>> \in Seq(Nat) /\ <<>> \in Seq(LocatorContents)
      BY DEF NoHeader, HeaderContents
    <3>2. file' = [file EXCEPT !.slack = 0, !.header = NoHeader, !.bat = <<>>,
                               !.locators = <<>>]
      BY <1>2 DEF CreateFixed
    <3>3. 0 \in 0 .. 1
      OBVIOUS
    <3> HIDE DEF HeaderContents, NoHeader
    <3> QED BY <3>1, <3>2, <3>3 DEF OpenFiles
  <2> QED BY <1>2, <1>0, <2>1, <2>2, <2>4, <2>5 DEF CreateFixed, Opening
<1>3. ASSUME FromCallbacks PROVE TypeOK'
  <2>1. Makes(Bottom("raw", file.access = "rw", Len(media))) /\ NewDevice \in Devices
    BY <1>3, NextDevice DEF FromCallbacks, Makes, Bottom, NoDevice
  <2>2. DOMAIN dev' = Devices
        /\ \A d \in Devices : dev'[d].kind \in {"none", "file", "raw", "reader"}
                              /\ dev'[d].below \in 0 .. MaxDevices
    BY <2>1, Making
  <2> QED BY <1>3, <1>0, <2>1, <2>2 DEF FromCallbacks
<1>4. ASSUME NEW h \in Devices, NEW w \in BOOLEAN, OnDevice(h, w) PROVE TypeOK'
  <2>1. freed' \in [Devices -> Nat] /\ refs' \in SUBSET Refs /\ call' \in CallsUnderWay
    <3>1. freed' = [freed EXCEPT ![h] = freed[h] + 1]
          /\ refs' = (refs \ {InBox(h)}) \cup {InCall(h)}
          /\ call' = [dev |-> h, writable |-> w, path |-> FALSE]
      BY <1>4 DEF OnDevice, Opening
    <3>2. freed' \in [Devices -> Nat]
      BY <3>1
    <3>3. refs' \in SUBSET Refs /\ call' \in CallsUnderWay
      BY <3>1, <1>0
    <3> QED BY <3>2, <3>3
  <2>2. touched' = {} /\ pc' = "open" /\ UNCHANGED <<file, media, dev>>
    BY <1>4 DEF OnDevice, Opening
  <2> QED BY <2>1, <2>2
<1>5. ASSUME Null, seen' = seen \/ TRUE PROVE TypeOK'
  BY <1>5, SettleKeeps DEF Null
<1>6. ASSUME Opened PROVE TypeOK'
  <2> DEFINE new == [kind |-> "reader", below |-> call.dev,
                     sectors |-> FooterOf(ImageOn(call.dev)).current_size \div SECTOR_SIZE,
                     writable |-> call.writable, footer |-> FooterOf(ImageOn(call.dev))]
  <2>0. pc = "open" /\ InCall(call.dev).dev = call.dev
    BY <1>6 DEF Opened, Looking, InCall, Ref
  <2>1. call.dev \in Devices /\ dev[call.dev].kind # "none"
    BY <2>0 DEF HolderInv, Refs
  <2>2. new.kind = "reader" /\ new.below = call.dev
    OBVIOUS
  <2>3. /\ Room /\ dev' = [dev EXCEPT ![NewDevice] = new]
        /\ refs' = (refs \ {InCall(call.dev)})
                     \cup {InReader(NewDevice, call.dev), InBox(NewDevice)}
        /\ pc' = "returned" /\ UNCHANGED <<file, media, freed, call, touched>>
    BY <1>6 DEF Opened
  <2> HIDE DEF new
  <2>4. Makes(new) /\ NewDevice \in Devices
    BY <2>1, <2>2, <2>3, <1>0, NextDevice DEF Makes
  <2>5. DOMAIN dev' = Devices
        /\ \A d \in Devices : dev'[d].kind \in {"none", "file", "raw", "reader"}
                              /\ dev'[d].below \in 0 .. MaxDevices
    BY <2>4, Making
  <2> QED BY <1>0, <2>1, <2>3, <2>4, <2>5
<1>7. ASSUME Return PROVE TypeOK'
  BY <1>7 DEF Return, state, NoCall, CallsUnderWay
<1>8. ASSUME NEW h \in Devices, Close(h) PROVE TypeOK'
  BY <1>8, SettleKeeps DEF Close
<1>9. ASSUME NEW h \in Devices, NEW from \in 0 .. Len(media), NEW n \in 1 .. Len(media),
             Read(h, from, n)
      PROVE  TypeOK'
  BY <1>9 DEF Read, state
<1>10. ASSUME NEW h \in Devices, NEW from \in 0 .. Len(media), NEW n \in 1 .. Len(media),
              NEW v \in Written, Write(h, from, n, v)
       PROVE  TypeOK'
  <2>1. Data(v) \in SectorContents
    BY DEF Data, Sector, SectorContents
  <2>2. media' \in Seq(SectorContents)
    <3>1. /\ media' = [s \in 1 .. Len(media) |-> IF s \in from + 1 .. from + n
                                                THEN Data(v) ELSE media[s]]
          /\ Len(media) \in Nat
          /\ \A s \in 1 .. Len(media) : media[s] \in SectorContents
      BY <1>10 DEF Write
    <3>2. media' \in [1 .. Len(media) -> SectorContents]
      BY <2>1, <3>1
    <3> QED BY <3>1, <3>2, SectorsMake
  <2>3. touched' \in SUBSET Nat
    BY <1>10 DEF Write
  <2> QED BY <1>10, <2>2, <2>3 DEF Write, state
<1>11. CASE UNCHANGED vars
  BY <1>11 DEF vars, state
<1> QED BY <1>1, <1>2, <1>3, <1>4, <1>5, <1>6, <1>7, <1>8, <1>9, <1>10, <1>11
        DEF Next, RefuseReadOnly, OpenFails, Refuse

(* Every step keeps the types, the order of the devices, and their holders. *)
LEMMA OwnersStep == OwnersInv /\ [Next]_vars => OwnersInv'
<1> SUFFICES ASSUME OwnersInv, [Next]_vars PROVE OwnersInv'
  OBVIOUS
<1> USE ApiAssumption
<1>0. TypeOK'
  BY TypesKept
<1>1. ASSUME NEW w \in BOOLEAN, OpenPath(w) PROVE DeviceInv' /\ HolderInv'
  <2> DEFINE new == Bottom("file", w, Len(media))
             r == InCall(NewDevice)
  <2>1. new.kind = "file" /\ new.below = 0
    BY DEF Bottom, NoDevice
  <2>2. /\ Room /\ refs = {} /\ dev' = [dev EXCEPT ![NewDevice] = new]
        /\ refs' = {r} /\ freed' = freed /\ pc' = "open" /\ call'.dev = NewDevice
    BY <1>1 DEF OpenPath, Opening
  <2> HIDE DEF new
  <2>3. BeginsWith(new, r)
    BY <2>1, <2>2 DEF BeginsWith
  <2> QED BY <2>3, BottomOwners
<1>2. ASSUME NEW size \in Sizes, CreateFixed(size) PROVE DeviceInv' /\ HolderInv'
  <2> DEFINE new == Bottom("file", TRUE, exact[size] + 1)
             r == InCall(NewDevice)
  <2>1. new.kind = "file" /\ new.below = 0
    BY DEF Bottom, NoDevice
  <2>2. /\ Room /\ refs = {} /\ dev' = [dev EXCEPT ![NewDevice] = new]
        /\ refs' = {r} /\ freed' = freed /\ pc' = "open" /\ call'.dev = NewDevice
    BY <1>2 DEF CreateFixed, Opening
  <2> HIDE DEF new
  <2>3. BeginsWith(new, r)
    BY <2>1, <2>2 DEF BeginsWith
  <2> QED BY <2>3, BottomOwners
<1>3. ASSUME FromCallbacks PROVE DeviceInv' /\ HolderInv'
  <2> DEFINE new == Bottom("raw", file.access = "rw", Len(media))
             r == InBox(NewDevice)
  <2>1. new.kind = "raw" /\ new.below = 0
    BY DEF Bottom, NoDevice
  <2>2. /\ Room /\ refs = {} /\ dev' = [dev EXCEPT ![NewDevice] = new]
        /\ refs' = {r} /\ freed' = freed /\ pc' = "idle"
    BY <1>3 DEF FromCallbacks
  <2> HIDE DEF new
  <2>3. BeginsWith(new, r)
    BY <2>1, <2>2 DEF BeginsWith
  <2> QED BY <2>3, BottomOwners
<1>4. ASSUME NEW h \in Devices, NEW w \in BOOLEAN, OnDevice(h, w) PROVE DeviceInv' /\ HolderInv'
  BY <1>4, TakenOwners
<1>5. ASSUME Null, pc = "open" PROVE DeviceInv' /\ HolderInv'
  <2>1. /\ InCall(call.dev).by = "call" /\ refs' = Settle(refs \ {InCall(call.dev)})
        /\ dev' = dev /\ call' = call /\ pc' = "returned" /\ freed' = freed
    BY <1>5 DEF Null, InCall, Ref
  <2>2. freed' \in [Devices -> Nat]
    BY <2>1 DEF OwnersInv, TypeOK
  <2>3. LetsGo(InCall(call.dev))
    BY <2>1, <2>2 DEF LetsGo
  <2> QED BY <2>3, DroppedOwners
<1>6. ASSUME Opened PROVE DeviceInv' /\ HolderInv'
  BY <1>6, OpenedOwners
<1>7. ASSUME UNCHANGED <<dev, refs, freed>>,
             \/ call' = call /\ pc' = pc
             \/ pc = "returned" /\ pc' = "idle"
      PROVE  DeviceInv' /\ HolderInv'
  <2>1. DeviceInv'
    BY <1>7 DEF OwnersInv, DeviceInv, InBox
  <2>2. pc = "returned" => \A r \in refs : r.by # "call"
    BY DEF OwnersInv, HolderInv
  <2>3. HolderInv'
    <3>1. CASE pc = "returned"
      BY <3>1, <2>2, <1>7 DEF OwnersInv, HolderInv, InBox, Alive
    <3>2. CASE pc # "returned"
      BY <3>2, <1>7 DEF OwnersInv, HolderInv, InBox, InCall, Alive
    <3> QED BY <3>1, <3>2
  <2> QED BY <2>1, <2>3
<1>8. ASSUME NEW h \in Devices, Close(h) PROVE DeviceInv' /\ HolderInv'
  <2>1. /\ InBox(h).by = "box" /\ refs' = Settle(refs \ {InBox(h)}) /\ InBox(h) \in refs
        /\ dev' = dev /\ call' = call /\ pc = "idle" /\ pc' = "idle"
        /\ freed' = [freed EXCEPT ![h] = freed[h] + 1]
    BY <1>8 DEF Close, InBox, Ref, Owned
  <2>2. /\ freed' \in [Devices -> Nat]
        /\ \A d \in Devices : freed'[d] = IF d = h THEN freed[h] + 1 ELSE freed[d]
    BY <2>1 DEF OwnersInv, TypeOK
  <2>3. LetsGo(InBox(h))
    BY <2>1, <2>2 DEF LetsGo
  <2> QED BY <2>3, DroppedOwners
<1>9. ASSUME NEW h \in Devices, NEW from, NEW n, Read(h, from, n) PROVE DeviceInv' /\ HolderInv'
  BY <1>9, <1>7 DEF Read, state
<1>10. ASSUME NEW h \in Devices, NEW from, NEW n, NEW v, Write(h, from, n, v)
       PROVE  DeviceInv' /\ HolderInv'
  BY <1>10, <1>7 DEF Write, state
<1>11. ASSUME Return PROVE DeviceInv' /\ HolderInv'
  BY <1>11, <1>7 DEF Return, state
<1>12. ASSUME UNCHANGED vars PROVE DeviceInv' /\ HolderInv'
  BY <1>12, <1>7 DEF vars, state
<1>13. DeviceInv' /\ HolderInv'
  BY <1>1, <1>2, <1>3, <1>4, <1>5, <1>6, <1>8, <1>9, <1>10, <1>11, <1>12
     DEF Next, RefuseReadOnly, OpenFails, Refuse, Looking
<1> QED BY <1>0, <1>13 DEF OwnersInv

(* The holders are as the invariant says, always. *)
THEOREM HoldersKnown == Spec => []OwnersInv
<1>1. Init => OwnersInv
  BY InitOwners
<1>2. OwnersInv /\ [Next]_vars => OwnersInv'
  BY OwnersStep
<1> QED BY <1>1, <1>2, PTL DEF Spec

(* Every handle the C ABI gives out is freed once, by its close or by the call it
   is given up to; every device alive has one holder; a reader that holds
   another device is alive itself; and no call keeps anything when it returns. *)
THEOREM OneOwner == Spec => []Ownership
<1>1. OwnersInv => Ownership
  <2> SUFFICES ASSUME OwnersInv PROVE Ownership
    OBVIOUS
  <2>1. \A d \in Devices : freed[d] <= 1 /\ (d \in Owned => freed[d] = 0)
    BY DEF OwnersInv, DeviceInv, Owned
  <2>2. ASSUME NEW d \in Devices, Alive(d)
        PROVE  Cardinality({r \in refs : r.dev = d}) = 1
    <3>1. PICK r \in refs : r.dev = d
      BY <2>2 DEF Alive
    <3>2. {q \in refs : q.dev = d} = {r}
      BY <3>1 DEF OwnersInv, HolderInv
    <3> QED BY <3>2, FS_Singleton
  <2>3. \A r \in refs : /\ r.by = "reader" => Alive(r.id) /\ dev[r.id].below = r.dev
                        /\ r.by = "call" => pc = "open"
    BY DEF OwnersInv, HolderInv
  <2> QED BY <2>1, <2>2, <2>3 DEF Ownership
<1> QED BY <1>1, HoldersKnown, PTL

-----------------------------------------------------------------------------
(* What a call on a handle reaches *)

(* While the caller holds a handle, all that is alive lies under it: a device
   that did not, the highest of them, would have a reader on it that does.  *)
LEMMA AliveIsUnder ==
  ASSUME OwnersInv, pc = "idle", NEW h \in Devices, h \in Owned
  PROVE  \A d \in Devices : Alive(d) => d \in Under(h)
<1> SUFFICES ASSUME NEW K \in SUBSET Devices, h \in K, GoesDown(K),
                    NEW c \in Devices, Alive(c), c \notin K
             PROVE  FALSE
  BY DEF Under
<1> DEFINE S == {d \in Devices : Alive(d) /\ d \notin K}
<1>1. S \in SUBSET Nat /\ S # {} /\ MaxDevices \in Nat /\ \A x \in S : x <= MaxDevices
  BY ApiAssumption DEF Devices
<1>2. PICK d \in S : \A x \in S : x <= d
  <2> HIDE DEF S
  <2> QED BY <1>1, GreatestExists
<1>3. PICK r \in refs : r.dev = d
  BY DEF Alive
<1>4. r.by \in {"call", "box", "reader"}
  BY DEF OwnersInv, TypeOK, Refs
<1>5. r.by # "call"
  BY DEF OwnersInv, HolderInv
<1>6. ASSUME r.by = "box" PROVE FALSE
  <2>1. InBox(h) \in refs /\ InBox(h).by = "box" /\ InBox(h).dev = h
    BY DEF Owned, InBox, Ref
  <2>2. r = InBox(h)
    BY <2>1, <1>6 DEF OwnersInv, HolderInv
  <2> QED BY <2>1, <2>2, <1>3
<1>7. ASSUME r.by = "reader" PROVE FALSE
  <2>1. r.id \in Devices /\ Alive(r.id) /\ dev[r.id].kind = "reader" /\ dev[r.id].below = d
    BY <1>3, <1>7 DEF OwnersInv, HolderInv
  <2>2. d \in 1 .. r.id - 1
    BY <2>1 DEF OwnersInv, DeviceInv
  <2>3. r.id \in K
    BY <2>1, <2>2, <1>2 DEF Devices
  <2>4. d # 0 /\ d \notin K
    BY DEF Devices
  <2>5. dev[r.id].below \in K \cup {0}
    BY <2>3 DEF GoesDown
  <2> QED BY <2>1, <2>4, <2>5
<1> QED BY <1>4, <1>5, <1>6, <1>7

(* Nothing alive is written unless its own device was opened to be: neither the
   image whose handle is written to, nor any it lies on.                   *)
THEOREM ReadOnlyStays == Spec => ReadOnlyUntouched
<1>1. OwnersInv /\ [Next]_vars => [media' # media /\ refs # {} =>
        \A d \in Devices : Alive(d) => dev[d].writable]_vars
  <2> SUFFICES ASSUME OwnersInv, [Next]_vars, media' # media, refs # {},
                      NEW d \in Devices, Alive(d)
               PROVE  dev[d].writable
    OBVIOUS
  <2>1. PICK h \in Devices, from \in 0 .. Len(media), n \in 1 .. Len(media), v \in Written :
          Write(h, from, n, v)
    BY DEF Next, vars, OpenPath, CreateFixed, FromCallbacks, OnDevice, RefuseReadOnly, OpenFails,
           Refuse, Null, Opened, Return, Close, Read
  <2>2. d \in Under(h)
    BY <2>1, AliveIsUnder DEF Write
  <2> QED BY <2>1, <2>2 DEF Write, MayWrite, Writable
<1> QED BY <1>1, HoldersKnown, PTL DEF Spec, ReadOnlyUntouched

-----------------------------------------------------------------------------
(* Layers and footers *)

(* Data is no footer. *)
LEMMA DataIsNoFooter ==
  ASSUME NEW v PROVE FooterParse(Data(v)) = "NotVhd"
BY DEF FooterParse, Data, Sector

(* What open_inner takes has a footer that parses; a fixed one is at its end. *)
LEMMA TakenFooter ==
  ASSUME NEW img, Verdict(img) = "ok"
  PROVE  /\ TailParses(img) \/ MirrorStandsIn(img)
         /\ FooterParse(FooterOf(img)) = "ok"
         /\ FooterOf(img).disk_type \in {FIXED, DYNAMIC, DIFFERENCING}
         /\ FooterOf(img).disk_type = FIXED => FooterOf(img) = img.tail
<1>1. TailParses(img) \/ MirrorStandsIn(img)
  BY DEF Verdict, TailParses
<1>2. FooterParse(FooterOf(img)) = "ok"
  BY <1>1 DEF FooterOf, TailParses, MirrorStandsIn
<1>3. FooterOf(img).disk_type \in {FIXED, DYNAMIC, DIFFERENCING}
  BY <1>2 DEF FooterParse
<1>4. FooterOf(img).disk_type = FIXED => FooterOf(img) = img.tail
  BY <1>1 DEF FooterOf, MirrorStandsIn, FIXED, DYNAMIC, DIFFERENCING
<1> QED BY <1>1, <1>2, <1>3, <1>4

(* A tail that can be read, and what comes before it, lies in the file. *)
LEMMA ReadableInFile ==
  ASSUME OwnersInv, LayerInv, NEW d \in Devices, Alive(d), TailReadable(d), ~ OnSparse(d)
  PROVE  dev[d].sectors \in Nat /\ dev[d].sectors <= Len(media)
<1>1. PICK b \in Under(d) : dev[b].sectors = Len(media)
  BY DEF LayerInv
<1> QED BY <1>1 DEF TailReadable, LayerInv

(* What open_inner reads there is a sector. *)
LEMMA SectorsOfLayers ==
  ASSUME OwnersInv, LayerInv, NEW d \in Devices, Alive(d), TailReadable(d),
         NEW s \in Nat, s <= dev[d].sectors
  PROVE  SectorOf(d, s) \in SectorContents
<1>1. Data(0) \in SectorContents
  BY DEF Data, Sector, SectorContents
<1>2. CASE OnSparse(d) \/ s = 0
  BY <1>1, <1>2 DEF SectorOf
<1>3. CASE ~ OnSparse(d) /\ s # 0
  <2>1. media \in Seq(SectorContents) /\ Len(media) \in Nat
    BY DEF OwnersInv, TypeOK
  <2>2. s \in 1 .. Len(media)
    BY <1>3, <2>1, ReadableInFile
  <2> QED BY <2>1, <2>2, <1>3 DEF SectorOf
<1> QED BY <1>2, <1>3

LEMMA InitLayers == Init => LayerInv
<1> SUFFICES ASSUME Init PROVE LayerInv
  OBVIOUS
<1>1. \A d \in Devices : ~ Alive(d) /\ dev[d] = NoDevice
  BY DEF Init, Alive
<1>2. NoDevice.sectors \in Nat /\ NoDevice.footer \in SectorContents /\ NoDevice.below = 0
  BY DEF NoDevice, Data, Sector, SectorContents
<1> QED BY <1>1, <1>2 DEF LayerInv, Init

(* A device of its own at the bottom is as long as the file. *)
LEMMA BottomLayers ==
  ASSUME OwnersInv, OwnersInv', LayerInv, NEW new, NEW r, BeginsWith(new, r),
         new.sectors = Len(media'), new.footer = Data(0), new.below = 0,
         touched' = {}
  PROVE  LayerInv'
<1>1. media' \in Seq(SectorContents) /\ Len(media') \in Nat
  BY DEF OwnersInv, TypeOK
<1>2. /\ Makes(new) /\ NewDevice \in Devices
  <2>1. TypeOK /\ Room /\ 0 \in 0 .. MaxDevices
    BY ApiAssumption DEF OwnersInv, BeginsWith
  <2> QED BY <2>1, NextDevice DEF BeginsWith, Makes
<1>3. /\ dev'[NewDevice] = new
      /\ \A d \in Devices : d # NewDevice => dev'[d] = dev[d]
  BY <1>2, Making
<1>4. r.dev = NewDevice /\ refs' = {r} /\ new.kind # "reader"
  BY DEF BeginsWith, InBox, InCall, Ref
<1> DEFINE N == NewDevice
<1> HIDE DEF N
<1>5. \A d \in Devices : (\E q \in refs' : q.dev = d) => d = N
  BY <1>4 DEF N
<1>6. Data(0) \in SectorContents
  BY DEF Data, Sector, SectorContents
<1>7. \A d \in Devices : dev'[d].sectors \in Nat /\ dev'[d].footer \in SectorContents
  BY <1>1, <1>3, <1>6 DEF LayerInv, N
<1>8. dev'[N].kind \notin {"none", "reader"} /\ dev'[N].sectors = Len(media')
  BY <1>3, <1>4 DEF N, BeginsWith
<1>9. \A d \in Devices : (\E q \in refs' : q.dev = d) => dev'[d].kind # "reader"
  BY <1>5, <1>8
<1>10. \A d \in Devices : dev'[d].kind # "reader" => dev'[d].below = 0
  BY <1>3 DEF LayerInv, N
<1>11. \A d \in Devices : d \in Under(d)'
  BY DEF Under
<1>12. \A d \in Devices : (\E q \in refs' : q.dev = d) =>
         \E b \in Under(d)' : dev'[b].kind # "none" /\ dev'[b].sectors = Len(media')
  BY <1>5, <1>8, <1>11
<1> QED BY <1>7, <1>9, <1>10, <1>12 DEF LayerInv, Alive

(* Nothing about the layers changes while devices only come to lie in other
   hands, or go.                                                           *)
LEMMA SameLayers ==
  ASSUME OwnersInv, LayerInv, UNCHANGED <<media, dev>>,
         \A r \in refs' : \E q \in refs : q.dev = r.dev,
         \/ touched' = {}
         \/ touched' = touched /\ (pc' # "idle" => pc # "idle")
  PROVE  LayerInv'
<1>1. \A d \in Devices : (\E r \in refs' : r.dev = d) => Alive(d)
  BY DEF Alive
<1>2. pc' # "idle" => touched' = {}
  BY DEF LayerInv
<1>3. \A t : t \in touched' => t \in touched
  OBVIOUS
<1>4. \A d \in Devices : Under(d)' = Under(d)
  BY DEF Under, GoesDown
<1>5. \A d \in Devices : /\ dev'[d].sectors \in Nat /\ dev'[d].footer \in SectorContents
                         /\ dev'[d].kind # "reader" => dev'[d].below = 0
  BY DEF LayerInv
<1>6. \A d \in Devices : (\E r \in refs' : r.dev = d) =>
        \E b \in Under(d)' : dev'[b].kind # "none" /\ dev'[b].sectors = Len(media')
  BY <1>1, <1>4 DEF LayerInv
<1>7. ASSUME NEW d \in Devices, \E r \in refs' : r.dev = d, dev'[d].kind = "reader",
             dev'[d].footer.disk_type = FIXED
      PROVE  LET at == dev'[dev'[d].below].sectors
             IN /\ at \in 1 .. Len(media')
                /\ dev'[d].sectors < at => at \notin touched' /\ media'[at] = dev'[d].footer
  BY <1>1, <1>3, <1>7 DEF LayerInv
<1> QED BY <1>2, <1>5, <1>6, <1>7 DEF LayerInv, Alive

(* A new device leaves what lies under the others, and has under it what it is on. *)
LEMMA OpenedLayers ==
  ASSUME OwnersInv, LayerInv, Opened
  PROVE  LayerInv'
<1> DEFINE N == NewDevice
           d == call.dev
           img == ImageOn(call.dev)
           f == FooterOf(img)
           new == [kind |-> "reader", below |-> d, sectors |-> f.current_size \div SECTOR_SIZE,
                   writable |-> call.writable, footer |-> f]
<1>1. /\ Room /\ pc = "open" /\ pc' = "returned" /\ touched' = touched /\ media' = media
      /\ dev' = [dev EXCEPT ![N] = new]
      /\ refs' = (refs \ {InCall(d)}) \cup {InReader(N, d), InBox(N)}
      /\ Verdict(img) = "ok"
  BY DEF Opened, Looking
<1>2. InCall(d) \in refs /\ InCall(d).dev = d /\ Alive(d) /\ d \in Devices /\ dev[d].kind # "none"
  <2>1. InCall(d) \in refs /\ InCall(d).dev = d
    BY <1>1 DEF OwnersInv, HolderInv, InCall, Ref
  <2> QED BY <2>1 DEF OwnersInv, HolderInv, TypeOK, Refs, Alive
<1>3. N \in Devices /\ dev[N].kind = "none" /\ N # d
  BY <1>1, <1>2, NextDevice DEF OwnersInv
<1>4. dev'[N] = new /\ \A e \in Devices : e # N => dev'[e] = dev[e]
  BY <1>1, <1>3 DEF OwnersInv, TypeOK
<1>0. TailReadable(d)
  BY DEF Opened
<1>5. img.tail \in SectorContents /\ img.mirror \in SectorContents
  <2>1. dev[d].sectors \in Nat /\ dev[d].sectors <= dev[d].sectors
    BY <1>2 DEF LayerInv
  <2>2. SectorOf(d, dev[d].sectors) \in SectorContents
    BY <1>0, <1>2, <2>1, SectorsOfLayers
  <2>3. SectorOf(d, IF dev[d].sectors = 0 THEN 0 ELSE 1) \in SectorContents
    <3> DEFINE s == IF dev[d].sectors = 0 THEN 0 ELSE 1
    <3>1. s \in Nat /\ s <= dev[d].sectors
      BY <2>1
    <3> HIDE DEF s
    <3>2. SectorOf(d, s) \in SectorContents
      BY <1>0, <1>2, <3>1, SectorsOfLayers
    <3> QED BY <3>2 DEF s
  <2> QED BY <2>2, <2>3 DEF ImageOn
<1>6. f \in SectorContents /\ f.current_size \in Nat
  BY <1>5 DEF FooterOf, SectorContents
<1>7. f.current_size \div SECTOR_SIZE \in Nat
  BY <1>6 DEF SECTOR_SIZE
<1>8. f.disk_type \in {FIXED, DYNAMIC, DIFFERENCING}
      /\ (f.disk_type = FIXED => f = img.tail)
      /\ FooterParse(f) = "ok"
  BY <1>1, TakenFooter
<1>9. ASSUME f.disk_type = FIXED
      PROVE  dev[d].sectors \in 1 .. Len(media) /\ media[dev[d].sectors] = f
  <2>1. f = SectorOf(d, dev[d].sectors) /\ FooterParse(f) = "ok"
    BY <1>8, <1>9 DEF ImageOn
  <2>2. ~ OnSparse(d) /\ dev[d].sectors # 0
    <3>1. f # Data(0)
      BY <2>1, DataIsNoFooter
    <3> QED BY <2>1, <3>1 DEF SectorOf
  <2>3. f = media[dev[d].sectors]
    BY <2>1, <2>2 DEF SectorOf
  <2>4. dev[d].sectors \in Nat /\ dev[d].sectors <= Len(media) /\ Len(media) \in Nat
    BY <1>0, <1>2, <2>2, ReadableInFile DEF OwnersInv, TypeOK
  <2> HIDE DEF f
  <2> QED BY <2>2, <2>3, <2>4
<1>10. new.sectors = f.current_size \div SECTOR_SIZE /\ new.footer = f /\ new.below = d
       /\ new.kind = "reader"
  OBVIOUS
<1> HIDE DEF N, new, f, d, img
<1>11. \A e \in Devices : (\E r \in refs' : r.dev = e) => Alive(e) \/ e = N
  <2>1. InReader(N, d).dev = d /\ InBox(N).dev = N
    BY DEF InReader, InBox, Ref
  <2> QED BY <2>1, <1>1, <1>2 DEF Alive
<1>12. touched' = {}
  BY <1>1 DEF LayerInv
<1>13. \A e \in Devices : /\ dev'[e].sectors \in Nat /\ dev'[e].footer \in SectorContents
                          /\ dev'[e].kind # "reader" => dev'[e].below = 0
  BY <1>4, <1>6, <1>7, <1>10 DEF LayerInv
<1>14. \A e \in Devices : (\E r \in refs' : r.dev = e) =>
         \E b \in Under(e)' : dev'[b].kind # "none" /\ dev'[b].sectors = Len(media')
  <2>1. \A K \in SUBSET Devices : GoesDown(K)' => GoesDown(K)
    <3> SUFFICES ASSUME NEW K \in SUBSET Devices, GoesDown(K)', NEW e \in K
                 PROVE  dev[e].below \in K \cup {0}
      BY DEF GoesDown
    <3>1. CASE e = N
      BY <3>1, <1>3 DEF LayerInv
    <3>2. CASE e # N
      BY <3>2, <1>4 DEF GoesDown
    <3> QED BY <3>1, <3>2
  <2>2. \A e \in Devices : Under(e) \subseteq Under(e)'
    BY <2>1 DEF Under
  <2>3. \A e \in Devices : dev'[e].below = d => Under(d) \subseteq Under(e)'
    <3> SUFFICES ASSUME NEW e \in Devices, dev'[e].below = d,
                        NEW K \in SUBSET Devices, e \in K, GoesDown(K)'
                 PROVE  d \in K /\ GoesDown(K)
      BY DEF Under
    <3>1. dev'[e].below \in K \cup {0} /\ d # 0
      BY <1>2 DEF GoesDown, Devices
    <3> QED BY <2>1, <3>1
  <2>4. ASSUME NEW e \in Devices, Alive(e)
        PROVE  \E b \in Under(e) : dev'[b].kind # "none" /\ dev'[b].sectors = Len(media')
    <3>1. \E b \in Under(e) : dev[b].kind # "none" /\ dev[b].sectors = Len(media)
      BY <2>4 DEF LayerInv
    <3>2. Under(e) \subseteq Devices
      BY DEF Under
    <3>3. \A b \in Devices : dev[b].kind # "none" => dev'[b] = dev[b]
      BY <1>3, <1>4
    <3> QED BY <3>1, <3>2, <3>3, <1>1
  <2>5. N \in Devices /\ dev'[N].below = d
    BY <1>3, <1>4, <1>10
  <2> QED BY <1>2, <1>11, <2>2, <2>3, <2>4, <2>5
<1>15. ASSUME NEW e \in Devices, \E r \in refs' : r.dev = e, dev'[e].kind = "reader",
              dev'[e].footer.disk_type = FIXED
       PROVE  LET at == dev'[dev'[e].below].sectors
              IN /\ at \in 1 .. Len(media')
                 /\ dev'[e].sectors < at => at \notin touched' /\ media'[at] = dev'[e].footer
  <2>1. CASE e = N
    <3>1. dev'[e].below = d /\ dev'[d] = dev[d] /\ dev'[e].footer = f
      BY <2>1, <1>2, <1>3, <1>4, <1>10
    <3> QED BY <2>1, <3>1, <1>1, <1>4, <1>9, <1>10, <1>12, <1>15
  <2>2. CASE e # N
    <3>1. Alive(e) /\ dev'[e] = dev[e]
      BY <2>2, <1>4, <1>11, <1>15
    <3>2. dev[e].below \in Devices /\ dev[e].below # N
      <4>1. dev[e].below \in 1 .. e - 1 /\ e < N
        <5>1. dev[e].kind # "none"
          BY <3>1 DEF OwnersInv, HolderInv, Alive
        <5>2. e < N
          BY <5>1, <1>3, <2>2, ApiAssumption DEF OwnersInv, DeviceInv, Devices
        <5> QED BY <3>1, <5>2, <1>15 DEF OwnersInv, DeviceInv
      <4> QED BY <4>1, <1>3, ApiAssumption DEF Devices
    <3>3. dev'[dev[e].below] = dev[dev[e].below]
      BY <3>2, <1>4
    <3> QED BY <3>1, <3>3, <1>1, <1>12, <1>15 DEF LayerInv
  <2> QED BY <2>1, <2>2
<1> QED BY <1>1, <1>12, <1>13, <1>14, <1>15 DEF LayerInv, Alive

(* What is read or written lies inside every layer, so before every footer. *)
LEMMA ReachedLayers ==
  ASSUME OwnersInv, LayerInv, NEW h \in Devices, h \in Owned,
         NEW from \in Nat, NEW n \in Nat \ {0}, Reaches(h, from, n),
         pc = "idle", pc' = "idle", dev' = dev, refs' = refs,
         touched' = from + 1 .. from + n,
         Len(media') = Len(media),
         \A s \in 1 .. Len(media) :
           media'[s] = media[s] \/ s \in touched'
  PROVE  LayerInv'
<1>0. Len(media) \in Nat
  BY DEF OwnersInv, TypeOK
<1>1. \A d \in Devices : Alive(d) => from + n <= dev[d].sectors
  BY AliveIsUnder DEF Reaches, InBounds
<1>2. \A d \in Devices : (Alive(d)' <=> Alive(d)) /\ Under(d)' = Under(d)
  BY DEF Alive, Under, GoesDown
<1>3. \A d \in Devices : /\ dev[d].sectors \in Nat /\ dev[d].footer \in SectorContents
                         /\ dev[d].kind # "reader" => dev[d].below = 0
                         /\ Alive(d) => \E b \in Under(d) :
                              dev[b].kind # "none" /\ dev[b].sectors = Len(media)
  BY DEF LayerInv
<1>4. ASSUME NEW d \in Devices, Alive(d), dev[d].kind = "reader",
             dev[d].footer.disk_type = FIXED
      PROVE  LET at == dev[dev[d].below].sectors
             IN /\ at \in 1 .. Len(media')
                /\ dev[d].sectors < at => at \notin touched' /\ media'[at] = dev[d].footer
  <2> DEFINE at == dev[dev[d].below].sectors
  <2>1. /\ at \in 1 .. Len(media)
        /\ dev[d].sectors < at => media[at] = dev[d].footer
    BY <1>4 DEF LayerInv
  <2>2. CASE dev[d].sectors < at
    <3>1. from + n < at
      BY <2>1, <2>2, <1>0, <1>1, <1>3, <1>4
    <3>2. at \notin touched'
      <4> HIDE DEF at
      <4> QED BY <3>1
    <3>3. media'[at] = media[at]
      BY <2>1, <3>2
    <3> QED BY <2>1, <2>2, <3>2, <3>3
  <2> QED BY <2>1, <2>2
<1> QED BY <1>2, <1>3, <1>4 DEF LayerInv

LEMMA LayersStep == OwnersInv /\ OwnersInv' /\ LayerInv /\ [Next]_vars => LayerInv'
<1> SUFFICES ASSUME OwnersInv, OwnersInv', LayerInv, [Next]_vars PROVE LayerInv'
  OBVIOUS
<1>1. ASSUME NEW w \in BOOLEAN, OpenPath(w) PROVE LayerInv'
  <2> DEFINE new == Bottom("file", w, Len(media))
  <2>1. new.kind = "file" /\ new.below = 0 /\ new.sectors = Len(media) /\ new.footer = Data(0)
    BY DEF Bottom, NoDevice
  <2>2. /\ Room /\ refs = {} /\ dev' = [dev EXCEPT ![NewDevice] = new]
        /\ refs' = {InCall(NewDevice)} /\ freed' = freed /\ pc' = "open"
        /\ call'.dev = NewDevice /\ touched' = {} /\ media' = media
    BY <1>1 DEF OpenPath, Opening
  <2> HIDE DEF new
  <2>3. BeginsWith(new, InCall(NewDevice))
    BY <2>1, <2>2 DEF BeginsWith
  <2> QED BY <2>1, <2>2, <2>3, BottomLayers
<1>2. ASSUME NEW size \in Sizes, CreateFixed(size) PROVE LayerInv'
  <2> DEFINE new == Bottom("file", TRUE, exact[size] + 1)
             n == exact[size]
             blank == [s \in 1 .. n |-> Data(0)]
  <2>0. n \in Nat
    BY ApiAssumption
  <2>1. new.kind = "file" /\ new.below = 0 /\ new.sectors = n + 1 /\ new.footer = Data(0)
    BY DEF Bottom, NoDevice
  <2>2. /\ Room /\ refs = {} /\ dev' = [dev EXCEPT ![NewDevice] = new]
        /\ refs' = {InCall(NewDevice)} /\ freed' = freed /\ pc' = "open"
        /\ call'.dev = NewDevice /\ touched' = {}
        /\ media' = blank \o <<FixedFooter(n)>>
    BY <1>2 DEF CreateFixed, Opening
  <2>3. Len(media') = n + 1
    <3>1. Data(0) \in SectorContents /\ FixedFooter(n) \in SectorContents
      BY <2>0, OpenAssumption
         DEF Data, FixedFooter, Sector, SectorContents, FIXED, SECTOR_SIZE
    <3>2. blank \in Seq(SectorContents) /\ Len(blank) = n
      BY <2>0, <3>1, SectorsMake
    <3> HIDE DEF blank, n
    <3> QED BY <2>2, <3>1, <3>2, SectorBehind
  <2> HIDE DEF new, n
  <2>4. BeginsWith(new, InCall(NewDevice))
    BY <2>1, <2>2 DEF BeginsWith
  <2> QED BY <2>1, <2>2, <2>3, <2>4, BottomLayers
<1>3. ASSUME FromCallbacks PROVE LayerInv'
  <2> DEFINE new == Bottom("raw", file.access = "rw", Len(media))
  <2>1. new.kind = "raw" /\ new.below = 0 /\ new.sectors = Len(media) /\ new.footer = Data(0)
    BY DEF Bottom, NoDevice
  <2>2. /\ Room /\ refs = {} /\ dev' = [dev EXCEPT ![NewDevice] = new]
        /\ refs' = {InBox(NewDevice)} /\ freed' = freed /\ pc' = "idle"
        /\ touched' = {} /\ media' = media
    BY <1>3 DEF FromCallbacks
  <2> HIDE DEF new
  <2>3. BeginsWith(new, InBox(NewDevice))
    BY <2>1, <2>2 DEF BeginsWith
  <2> QED BY <2>1, <2>2, <2>3, BottomLayers
<1>4. ASSUME NEW h \in Devices, NEW w \in BOOLEAN, OnDevice(h, w) PROVE LayerInv'
  <2>1. /\ InBox(h) \in refs /\ refs' = (refs \ {InBox(h)}) \cup {InCall(h)}
        /\ touched' = {} /\ UNCHANGED <<media, dev>>
    BY <1>4 DEF OnDevice, Opening, Owned
  <2>2. InBox(h).dev = InCall(h).dev
    BY DEF InBox, InCall, Ref
  <2>3. \A r \in refs' : \E q \in refs : q.dev = r.dev
    BY <2>1, <2>2
  <2>4. touched' = {} /\ UNCHANGED <<media, dev>>
    BY <2>1
  <2> QED BY <2>3, <2>4, SameLayers
<1>5. ASSUME Null, pc = "open" PROVE LayerInv'
  <2>1. \A r \in refs' : \E q \in refs : q.dev = r.dev
    BY <1>5, SettleKeeps DEF Null
  <2> QED BY <1>5, <2>1, SameLayers DEF Null
<1>6. ASSUME Opened PROVE LayerInv'
  BY <1>6, OpenedLayers
<1>7. ASSUME Return PROVE LayerInv'
  BY <1>7, SameLayers DEF Return, state
<1>8. ASSUME NEW h \in Devices, Close(h) PROVE LayerInv'
  <2>1. \A r \in refs' : \E q \in refs : q.dev = r.dev
    BY <1>8, SettleKeeps DEF Close
  <2> QED BY <1>8, <2>1, SameLayers DEF Close
<1>9. ASSUME NEW h \in Devices, NEW from \in 0 .. Len(media), NEW n \in 1 .. Len(media),
             Read(h, from, n)
      PROVE  LayerInv'
  <2>1. from \in Nat /\ n \in Nat \ {0}
    BY DEF OwnersInv, TypeOK
  <2> QED BY <1>9, <2>1, ReachedLayers DEF Read, state
<1>10. ASSUME NEW h \in Devices, NEW from \in 0 .. Len(media), NEW n \in 1 .. Len(media),
              NEW v \in Written, Write(h, from, n, v)
       PROVE  LayerInv'
  <2>1. from \in Nat /\ n \in Nat \ {0} /\ Len(media) \in Nat /\ DOMAIN media = 1 .. Len(media)
    BY DEF OwnersInv, TypeOK
  <2>2. touched' = from + 1 .. from + n
        /\ media' = [s \in 1 .. Len(media) |-> IF s \in touched' THEN Data(v) ELSE media[s]]
    BY <1>10, <2>1 DEF Write
  <2>3. Len(media') = Len(media)
    <3> DEFINE S == {media'[s] : s \in 1 .. Len(media)}
    <3>1. media' \in [1 .. Len(media) -> S]
      BY <2>2
    <3> HIDE DEF S
    <3> QED BY <3>1, <2>1, SectorsMake
  <2>4. \A s \in 1 .. Len(media) : media'[s] = media[s] \/ s \in touched'
    BY <2>2
  <2>5. h \in Owned /\ Reaches(h, from, n) /\ pc = "idle" /\ pc' = "idle" /\ dev' = dev
        /\ refs' = refs
    BY <1>10 DEF Write, state
  <2> QED BY <2>1, <2>2, <2>3, <2>4, <2>5, ReachedLayers
<1>11. ASSUME UNCHANGED vars PROVE LayerInv'
  BY <1>11, SameLayers DEF vars, state
<1> QED BY <1>1, <1>2, <1>3, <1>4, <1>5, <1>6, <1>7, <1>8, <1>9, <1>10, <1>11
        DEF Next, RefuseReadOnly, OpenFails, Refuse, Looking

(* Of any file, however it was opened and whatever its layers say: no read or
   write through any stack comes to the footer of a fixed image whose size ends
   where that footer begins or before, and it stays what it was.           *)
THEOREM FootersStay == Spec => []FooterOffLimits
<1>1. Init => LayerInv
  BY InitLayers
<1>2. OwnersInv /\ OwnersInv' /\ LayerInv /\ [Next]_vars => LayerInv'
  BY LayersStep
<1>3. LayerInv => FooterOffLimits
  BY DEF LayerInv, FooterOffLimits
<1> QED BY <1>1, <1>2, <1>3, HoldersKnown, PTL DEF Spec

-----------------------------------------------------------------------------
(* What a call reports *)

(* What is seen is the verdict on the image, until the call returns. *)
LEMMA SeenStep == OwnersInv /\ SeenInv /\ [Next]_vars => SeenInv'
<1> SUFFICES ASSUME OwnersInv, SeenInv, [Next]_vars PROVE SeenInv'
  OBVIOUS
<1>1. NoImage.verdict = "none"
  BY DEF NoImage
<1>2. ASSUME Refuse PROVE SeenInv'
  <2>1. pc' = "returned"
    BY <1>2 DEF Refuse, Null
  <2>2. CASE NeedsParent(ImageOn(call.dev))
    <3>1. Look("parent") /\ Verdict(ImageOn(call.dev)) = "ok"
      BY <1>2, <2>2 DEF Refuse, NeedsParent
    <3> QED BY <2>1, <3>1 DEF Look, SeenInv
  <2>3. CASE ~ NeedsParent(ImageOn(call.dev))
    <3>1. Look(Verdict(ImageOn(call.dev)))
      BY <1>2, <2>3 DEF Refuse
    <3> QED BY <2>1, <3>1 DEF Look, SeenInv
  <2> QED BY <2>2, <2>3
<1>3. ASSUME Opened PROVE SeenInv'
  BY <1>3 DEF Opened, Look, SeenInv
<1>4. ASSUME Return PROVE SeenInv'
  BY <1>1, <1>4 DEF Return, SeenInv
<1>5. ASSUME UNCHANGED <<pc, seen>> PROVE SeenInv'
  BY <1>5 DEF SeenInv
<1>6. ASSUME \E w \in BOOLEAN : OpenPath(w) PROVE SeenInv'
  BY <1>6 DEF OpenPath, Opening, SeenInv
<1>7. ASSUME \E size \in Sizes : CreateFixed(size) PROVE SeenInv'
  BY <1>7 DEF CreateFixed, Opening, SeenInv
<1>8. ASSUME \E h \in Devices, w \in BOOLEAN : OnDevice(h, w) PROVE SeenInv'
  BY <1>8 DEF OnDevice, Opening, SeenInv
<1>9. ASSUME RefuseReadOnly \/ OpenFails PROVE SeenInv'
  BY <1>9 DEF RefuseReadOnly, OpenFails, Null, Looking, SeenInv
<1> QED BY <1>2, <1>3, <1>4, <1>5, <1>6, <1>7, <1>8, <1>9
        DEF Next, vars, FromCallbacks, Close, Read, Write

(* The image looked at is one, with its table. *)
LEMMA ImagesStep ==
  OwnersInv /\ LayerInv /\ ImageInv /\ [Next]_vars => ImageInv'
<1> SUFFICES ASSUME OwnersInv, LayerInv, ImageInv, [Next]_vars PROVE ImageInv'
  OBVIOUS
<1>1. TableGiven(file)'
  <2>1. CASE file' = file
    BY <2>1 DEF ImageInv, TableGiven
  <2>2. CASE \E size \in Sizes : CreateFixed(size)
    <3>1. file'.header = NoHeader
      <4>1. file' = [file EXCEPT !.slack = 0, !.header = NoHeader, !.bat = <<>>,
                                 !.locators = <<>>]
        BY <2>2 DEF CreateFixed
      <4>2. file \in OpenFiles
        BY DEF OwnersInv, TypeOK
      <4> QED BY <4>1, <4>2 DEF OpenFiles
    <3>2. ~ HeaderParses(NoHeader)
      BY DEF HeaderParses, NoHeader
    <3> QED BY <3>1, <3>2 DEF TableGiven
  <2> QED BY <2>1, <2>2
          DEF Next, vars, OpenPath, FromCallbacks, OnDevice, RefuseReadOnly, OpenFails, Refuse,
              Null, Opened, Return, Close, Read, Write
<1>2. ASSUME pc = "open", TailReadable(call.dev) PROVE IsImage(ImageOn(call.dev))
  <2> DEFINE d == call.dev
             img == ImageOn(d)
  <2>1. InCall(d) \in refs /\ InCall(d).dev = d
    BY <1>2 DEF OwnersInv, HolderInv, InCall, Ref
  <2>2. d \in Devices /\ Alive(d) /\ dev[d].sectors \in Nat
    BY <2>1 DEF OwnersInv, TypeOK, Refs, Alive, LayerInv
  <2>3. file \in OpenFiles
    BY DEF OwnersInv, TypeOK
  <2>4. img.size \in Nat
    BY <2>2, <2>3 DEF ImageOn, OpenFiles, SECTOR_SIZE
  <2>5. img.tail \in SectorContents
    <3>1. dev[d].sectors <= dev[d].sectors
      BY <2>2
    <3>2. SectorOf(d, dev[d].sectors) \in SectorContents
      BY <1>2, <2>2, <3>1, SectorsOfLayers
    <3> QED BY <3>2 DEF ImageOn
  <2>6. img.mirror \in SectorContents
    <3> DEFINE s == IF dev[d].sectors = 0 THEN 0 ELSE 1
    <3>1. s \in Nat /\ s <= dev[d].sectors
      BY <2>2
    <3> HIDE DEF s
    <3>2. SectorOf(d, s) \in SectorContents
      BY <1>2, <2>2, <3>1, SectorsOfLayers
    <3> QED BY <3>2 DEF ImageOn, s
  <2>7. img.header = file.header /\ img.bat = file.bat /\ img.locators = file.locators
    BY DEF ImageOn
  <2>8. [header |-> img.header, bat |-> img.bat, locators |-> img.locators] \in Tables
    BY <2>3, <2>7 DEF OpenFiles, Tables
  <2>9. TableGiven(img)
    BY <2>7 DEF ImageInv, TableGiven
  <2> QED BY <2>4, <2>5, <2>6, <2>8, <2>9 DEF IsImage
<1>3. seen' = seen \/ seen' = NoImage
      \/ (pc = "open" /\ TailReadable(call.dev) /\ seen'.img = ImageOn(call.dev))
  <2>1. ASSUME Refuse
        PROVE  pc = "open" /\ TailReadable(call.dev) /\ seen'.img = ImageOn(call.dev)
    BY <2>1 DEF Refuse, Looking, Look
  <2>2. ASSUME Opened
        PROVE  pc = "open" /\ TailReadable(call.dev) /\ seen'.img = ImageOn(call.dev)
    BY <2>2 DEF Opened, Looking, Look
  <2> QED BY <2>1, <2>2
          DEF Next, vars, OpenPath, CreateFixed, FromCallbacks, OnDevice, Opening, RefuseReadOnly,
              OpenFails, Return, Close, Read, Write
<1>4. seen'.verdict # "none" => IsImage(seen'.img)
  <2>1. CASE seen' = seen
    BY <2>1 DEF ImageInv
  <2>2. CASE seen' = NoImage
    BY <2>2 DEF NoImage
  <2>3. CASE pc = "open" /\ TailReadable(call.dev) /\ seen'.img = ImageOn(call.dev)
    BY <2>3, <1>2
  <2> QED BY <2>1, <2>2, <2>3, <1>3
<1> QED BY <1>1, <1>4 DEF ImageInv, IsImage, TableGiven

(* On files whose tables are there, open_inner takes a sparse image exactly when
   every structure is inside it and no block or locator shares a byte with
   anything else; and it takes nothing without a footer.                   *)
THEOREM VerdictIsSound == TablesGiven => (Spec => []AcceptsExactlySound)
<1> SUFFICES ASSUME TablesGiven PROVE Spec => []AcceptsExactlySound
  OBVIOUS
<1>1. Init => LayerInv /\ SeenInv /\ ImageInv
  <2>1. Init => SeenInv
    BY DEF Init, SeenInv, NoImage
  <2>2. Init => ImageInv
    BY DEF Init, ImageInv, NoImage, TablesGiven, TableGiven
  <2> QED BY <2>1, <2>2, InitLayers
<1>2. OwnersInv /\ OwnersInv' /\ LayerInv /\ SeenInv /\ ImageInv /\ [Next]_vars
        => LayerInv' /\ SeenInv' /\ ImageInv'
  BY LayersStep, SeenStep, ImagesStep
<1>3. SeenInv /\ ImageInv => AcceptsExactlySound
  <2> SUFFICES ASSUME SeenInv, ImageInv, pc = "returned", seen.verdict # "none"
               PROVE  LET img == seen.img
                      IN /\ seen.verdict \in {"ok", "parent"}
                              => TailParses(img) \/ MirrorStandsIn(img)
                         /\ (TailParses(img) \/ MirrorStandsIn(img)) /\ Sparse(FooterOf(img)) =>
                              (seen.verdict \in {"ok", "parent"} <=> Sound(img, FooterOf(img)))
    BY DEF AcceptsExactlySound
  <2> DEFINE img == seen.img
             f == FooterOf(img)
  <2>1. IsImage(img) /\ img.size \in Nat /\ f \in SectorContents
    BY DEF ImageInv, IsImage, FooterOf
  <2>2. seen.verdict \in {"ok", "parent"} <=> Verdict(img) = "ok"
    <3>1. Verdict(img) # "parent"
      BY DEF Verdict, FooterParse
    <3> QED BY <3>1 DEF SeenInv
  <2>3. Verdict(img) = "ok" => TailParses(img) \/ MirrorStandsIn(img)
    BY TakenFooter
  <2>4. ASSUME TailParses(img) \/ MirrorStandsIn(img), Sparse(f)
        PROVE  Verdict(img) = "ok" <=> Sound(img, f)
    <3>1. CASE img.size < FOOTER_SIZE
      <4>1. ~ Sound(img, f)
        BY <2>1, <3>1 DEF Sound, HeaderRead, FOOTER_SIZE, DYN_HEADER_SIZE, SectorContents
      <4> QED BY <3>1, <4>1 DEF Verdict
    <3>2. CASE ~ (img.size < FOOTER_SIZE)
      BY <3>2, <2>1, <2>4, AcceptedIsSound DEF Verdict
    <3> QED BY <3>1, <3>2
  <2> HIDE DEF f
  <2> QED BY <2>2, <2>3, <2>4 DEF f
<1> QED BY <1>1, <1>2, <1>3, HoldersKnown, PTL DEF Spec

=============================================================================
