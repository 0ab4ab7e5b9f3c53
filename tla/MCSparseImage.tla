---------------------------- MODULE MCSparseImage ----------------------------
(***************************************************************************)
(* Small instances of SparseImage: two blocks of two sectors, a one-sector *)
(* bitmap each, behind a footer mirror, a two-sector header and a          *)
(* one-sector BAT, so that data_start is sector 4.                         *)
(***************************************************************************)
EXTENDS SparseImage, TLC

CONSTANT old      \* guest data already in an image

Unallocated == [b \in Blocks |-> BAT_UNALLOCATED]

(* An image of `size` sectors whose block b, when at[b] is a sector, lies there
   with the sectors of `published` marked present; every other data sector
   holds bytes nobody wrote as guest data.  `last` is the footer's sector as
   found, or "cut" when the file was cut off before it.                    *)
Image(at, published, size0, last) ==
  [sector |-> [s \in Sectors |->
     IF s = size0 - 1 /\ last # "cut" THEN [FooterSector EXCEPT !.footer = last]
     ELSE IF s \in {at[b] : b \in Allocated(at)} THEN BitmapSector(published)
     ELSE IF \E b \in Allocated(at) : \E o \in Offsets :
               s = at[b] + BitmapSectors + o /\ o \in published
          THEN DataSector(Filled(old))
     ELSE IF \E b \in Allocated(at) : s \in Extent(at[b])
          THEN DataSector(Filled(Stale))
     ELSE ZeroSector],
   table |-> at,
   size |-> size0]

(* As create_dynamic leaves it. *)
FreshImage == Image(Unallocated, {}, DataStart + 1, "whole")

(* Block 0 present, written by somebody else, whole or damaged at the end. *)
OneBlock == [Unallocated EXCEPT ![0] = DataStart]
OneBlockEnd == DataStart + BlockTotal
ForeignImage(published, last) ==
  Image(OneBlock, published, OneBlockEnd + (IF last = "cut" THEN 0 ELSE 1), last)

(* A gap before the block and another after it. *)
LooseImage ==
  Image([Unallocated EXCEPT ![1] = DataStart + 1], Offsets, OneBlockEnd + 3, "whole")

(* Every block absent, and the trailing footer cut off. *)
CutSparseImage == Image(Unallocated, {}, DataStart, "cut")

FreshAndForeign == {FreshImage, ForeignImage({1}, "whole")}
ForeignOnly == {ForeignImage(P, "whole") : P \in SUBSET Offsets}
(* Whole, loose and damaged images, with every sector of their blocks published:
   a power loss has no stale bytes to bring up.                            *)
FreshAndDamaged ==
  {FreshImage, LooseImage}
    \cup {ForeignImage(Offsets, last) : last \in {"torn", "none", "cut"}}
CutSparseOnly == {CutSparseImage}

(* From a cell up to another.  With a cell to a sector: either sector of block 0,
   and across the boundary.  With two: half a sector, the halves of two, and
   across the boundary.                                                     *)
SectorRequests == {<<0, 1>>, <<1, 3>>, <<1, 2>>}
PartRequests == {<<0, 1>>, <<1, 3>>, <<3, 5>>}

Interchangeable == Permutations(Writers)

(* The hypotheses of the theorems hold of the images the passing runs start
   from: all are sound, and those that a power loss meets are clean.        *)
ASSUME ImagesMeetHypotheses ==
  /\ InitialImages # CutSparseOnly => SoundImages
  /\ InitialImages = FreshAndDamaged => CleanImages
=============================================================================
