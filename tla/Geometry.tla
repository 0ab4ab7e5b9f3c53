------------------------------- MODULE Geometry -------------------------------
(***************************************************************************)
(* The CHS geometry of a footer (chs_for_size) and the size an image is    *)
(* created with (size_with_exact_geometry), followed to the footer that    *)
(* create_fixed and create_dynamic build from it.  Sizes are in 512-byte   *)
(* sectors: both functions divide by SECTOR_SIZE first, and the creators   *)
(* refuse a request that is not a multiple of it.                          *)
(***************************************************************************)
EXTENDS Integers

CONSTANT Requests     \* the sizes a creator may be asked for, in sectors

ASSUME GeometryAssumption == Requests \subseteq Nat \ {0}

(* format.rs, mod chs *)
MAX_CYLINDERS == 65535
MAX_HEADS == 16
MAX_SECTORS_PER_TRACK == 255
MAX_ADDRESSABLE_SECTORS == 267382800    \* 65535 * 16 * 255
LADDER_CEILING_SECTORS == 66059280      \* 65535 * 16 * 63
SPT_FIRST == 17
SPT_SECOND == 31
SPT_THIRD == 63
MIN_HEADS == 4
CYLINDERS_PER_HEAD_LIMIT == 1024

Max2(m, n) == IF m < n THEN n ELSE m
Min2(m, n) == IF m < n THEN m ELSE n

Rung(tracks, heads, spt) == [tracks |-> tracks, heads |-> heads, spt |-> spt]

(* The first rung: as many heads as keep 1024 cylinders, four at least. *)
FirstRung(ts) ==
  LET cth == ts \div SPT_FIRST
  IN Rung(cth, Max2(MIN_HEADS, (cth + CYLINDERS_PER_HEAD_LIMIT - 1)
                                 \div CYLINDERS_PER_HEAD_LIMIT), SPT_FIRST)

Overflows(r) == r.tracks >= r.heads * CYLINDERS_PER_HEAD_LIMIT

FirstRungFits(ts) ==
  ~ Overflows(FirstRung(ts)) /\ FirstRung(ts).heads <= MAX_HEADS

SecondRung(ts) == Rung(ts \div SPT_SECOND, MAX_HEADS, SPT_SECOND)
ThirdRung(ts) == Rung(ts \div SPT_THIRD, MAX_HEADS, SPT_THIRD)
LastRung(ts) ==
  Rung(ts \div MAX_SECTORS_PER_TRACK, MAX_HEADS, MAX_SECTORS_PER_TRACK)

(* Mutant: the third rung takes its tracks from the second. *)
LadderStale(ts) ==
  IF FirstRungFits(ts) THEN FirstRung(ts)
  ELSE Rung(ts \div SPT_SECOND, MAX_HEADS, SPT_THIRD)

(* Cylinders times heads, heads, and sectors per track, before the cylinders
   are divided out.                                                        *)
Ladder(ts) ==
  IF ts >= LADDER_CEILING_SECTORS THEN LastRung(ts)
  ELSE IF FirstRungFits(ts) THEN FirstRung(ts)
  ELSE IF Overflows(SecondRung(ts)) THEN ThirdRung(ts)
  ELSE SecondRung(ts)

(* Mutant: sizes above the ceiling are not cut down to it. *)
UncappedRung(size) == Ladder(size)

(* A size above the ceiling counts as the ceiling. *)
CappedRung(size) == Ladder(Min2(size, MAX_ADDRESSABLE_SECTORS))

chs_for_size(size) ==
  LET r == CappedRung(size)
  IN [cylinders |-> Min2(r.tracks \div r.heads, MAX_CYLINDERS),
      heads |-> r.heads, spt |-> r.spt]

Product(g) == g.cylinders * g.heads * g.spt
described(size) == Product(chs_for_size(size))

-----------------------------------------------------------------------------
VARIABLES
  wanted,     \* what the creator was asked for
  sectors,    \* the loop's counter
  footer      \* what build_footer wrote; NoFooter before

vars == <<wanted, sectors, footer>>

NoFooter == [current_size |-> 0,
             geometry |-> [cylinders |-> 0, heads |-> 0, spt |-> 0]]

build_footer(size) == [current_size |-> size, geometry |-> chs_for_size(size)]

Init ==
  /\ wanted \in Requests
  /\ sectors = wanted
  /\ footer = NoFooter

Addressable == sectors <= MAX_ADDRESSABLE_SECTORS
Searching == footer = NoFooter /\ Addressable

(* The loop of size_with_exact_geometry finds a size, which the creator puts
   in the footer beside the geometry of that size.                         *)
Found ==
  /\ Searching
  /\ described(sectors) >= wanted
  /\ footer' = build_footer(described(sectors))
  /\ UNCHANGED <<wanted, sectors>>

(* Mutant: the search goes up a track at a time. *)
TryTrack ==
  /\ Searching
  /\ described(sectors) < wanted
  /\ sectors' = sectors + SPT_FIRST
  /\ UNCHANGED <<wanted, footer>>

(* Mutant: the search goes up to the next whole track. *)
TryAligned ==
  /\ Searching
  /\ described(sectors) < wanted
  /\ sectors' = ((sectors + SPT_FIRST - 1) \div SPT_FIRST) * SPT_FIRST
  /\ UNCHANGED <<wanted, footer>>

TryNext ==
  /\ Searching
  /\ described(sectors) < wanted
  /\ sectors' = sectors + 1
  /\ UNCHANGED <<wanted, footer>>

(* No size can be described: the request is kept as it is. *)
Keep ==
  /\ footer = NoFooter
  /\ ~ Addressable
  /\ footer' = build_footer(wanted)
  /\ UNCHANGED <<wanted, sectors>>

Next == Found \/ TryNext \/ Keep

Spec == Init /\ [][Next]_vars
FairSpec == Spec /\ WF_vars(Next)

-----------------------------------------------------------------------------
(* Correctness *)

Made == footer # NoFooter

(* The created disk holds what was asked for, and no smaller size that holds
   it has a geometry that describes it exactly: rounding up never skips a
   size that would have done.                                              *)
NearestExact ==
  Made =>
    /\ wanted <= footer.current_size
    /\ \A e \in wanted .. footer.current_size - 1 : described(e) # e

(* The casts to u16 and u8 in chs_for_size cut nothing off, and no footer is
   written with a cylinder, head or sector count of zero.                  *)
CastsLoseNothing ==
  Made => LET r == CappedRung(footer.current_size)
          IN /\ r.tracks \div r.heads \in 1 .. MAX_CYLINDERS
             /\ r.heads \in MIN_HEADS .. MAX_HEADS
             /\ r.spt \in {SPT_FIRST, SPT_SECOND, SPT_THIRD, MAX_SECTORS_PER_TRACK}

(* A reader that sizes the disk from the geometry alone sees no more than the
   disk, and less than a cylinder short of it, up to the CHS ceiling.      *)
WithinACylinder ==
  Made =>
    /\ Product(footer.geometry) <= footer.current_size
    /\ footer.current_size <= MAX_ADDRESSABLE_SECTORS =>
         footer.current_size - Product(footer.geometry)
           < footer.geometry.heads * footer.geometry.spt

(* The search ends. *)
AlwaysMade == <>Made

(* size_with_exact_geometry: "Rounding the request up makes the two fields
   agree by construction", current_size and the CHS geometry.              *)
FieldsAgree ==
  Made /\ wanted <= MAX_ADDRESSABLE_SECTORS
    => Product(footer.geometry) = footer.current_size

(* The search's invariant: nothing passed over so far covers the request. *)
SearchInv ==
  /\ \A s \in wanted .. sectors - 1 :
       s <= MAX_ADDRESSABLE_SECTORS => described(s) < wanted
  /\ Made =>
       \/ /\ Addressable
          /\ wanted <= described(sectors)
          /\ footer = build_footer(described(sectors))
       \/ ~ Addressable /\ footer = build_footer(wanted)
=============================================================================
