---------------------------- MODULE GeometryProofs ----------------------------
(***************************************************************************)
(* What chs_for_size and size_with_exact_geometry give for every size: the *)
(* geometry describes at most the disk and misses less than a cylinder of  *)
(* it, and the size an image is created with is the nearest the search     *)
(* could have found.                                                       *)
(***************************************************************************)
EXTENDS Geometry, TLAPS

HeadCounts == MIN_HEADS .. MAX_HEADS
SptCounts == {SPT_FIRST, SPT_SECOND, SPT_THIRD, MAX_SECTORS_PER_TRACK}
CylinderCounts == 0 .. MAX_CYLINDERS
SmallestCylinder == 68      \* MIN_HEADS * SPT_FIRST

(* The first rung: its heads, and when it is enough. *)
LEMMA FirstRungFacts ==
  ASSUME NEW ts \in Nat
  PROVE  /\ FirstRung(ts).tracks = ts \div 17 /\ FirstRung(ts).spt = 17
         /\ FirstRungFits(ts) =>
              /\ FirstRung(ts).heads \in 4 .. 16
              /\ ts \div 17 < FirstRung(ts).heads * 1024
              /\ 4 <= ts \div 17 => FirstRung(ts).heads <= ts \div 17
         /\ ts < 1024 => FirstRungFits(ts)
<1> DEFINE t == ts \div 17
           h == Max2(4, (t + 1023) \div 1024)
<1>1. FirstRung(ts) = Rung(t, h, 17)
  BY DEF FirstRung, SPT_FIRST, MIN_HEADS, CYLINDERS_PER_HEAD_LIMIT
<1>2. t \in Nat /\ (ts < 1024 => t < 61)
  BY SMT
<1> HIDE DEF t
<1>3. h \in Nat /\ 4 <= h /\ (4 <= t => h <= t) /\ (t < 61 => h = 4)
  BY <1>2, SMT DEF Max2
<1> HIDE DEF h
<1>4. FirstRungFits(ts) <=> t < h * 1024 /\ h <= 16
  BY <1>1, <1>2, <1>3, SMT
  DEF FirstRungFits, Overflows, Rung, MAX_HEADS, CYLINDERS_PER_HEAD_LIMIT
<1>5. /\ FirstRung(ts).tracks = t /\ FirstRung(ts).heads = h
      /\ FirstRung(ts).spt = 17
  BY <1>1 DEF Rung
<1>6. FirstRungFits(ts) => h \in 4 .. 16 /\ t < h * 1024 /\ (4 <= t => h <= t)
  BY <1>3, <1>4, SMT
<1>7. ts < 1024 => FirstRungFits(ts)
  BY <1>2, <1>3, <1>4, SMT
<1> QED BY <1>5, <1>6, <1>7 DEF t

(* The four ends of the ladder. *)
LEMMA LadderEnds ==
  ASSUME NEW ts \in Nat
  PROVE  LET r == Ladder(ts) IN
         \/ /\ r.tracks = ts \div 255 /\ r.heads = 16 /\ r.spt = 255
            /\ 66059280 <= ts
         \/ /\ r.tracks = ts \div 63 /\ r.heads = 16 /\ r.spt = 63
            /\ ts < 66059280 /\ 16 * 1024 <= ts \div 31
         \/ /\ r.tracks = ts \div 31 /\ r.heads = 16 /\ r.spt = 31
            /\ 1024 <= ts /\ ts \div 31 < 16 * 1024
         \/ /\ r.tracks = ts \div 17 /\ r.heads \in 4 .. 16 /\ r.spt = 17
            /\ r.tracks < r.heads * 1024
            /\ 4 <= r.tracks => r.heads <= r.tracks
<1>1. /\ LastRung(ts) = Rung(ts \div 255, 16, 255)
      /\ SecondRung(ts) = Rung(ts \div 31, 16, 31)
      /\ ThirdRung(ts) = Rung(ts \div 63, 16, 63)
  BY DEF LastRung, SecondRung, ThirdRung, SPT_SECOND, SPT_THIRD, MAX_HEADS,
         MAX_SECTORS_PER_TRACK
<1>2. \A a, b, c : /\ Rung(a, b, c).tracks = a /\ Rung(a, b, c).heads = b
                   /\ Rung(a, b, c).spt = c
  BY DEF Rung
<1>3. Overflows(SecondRung(ts)) <=> 16 * 1024 <= ts \div 31
  BY <1>1, <1>2, SMT DEF Overflows, CYLINDERS_PER_HEAD_LIMIT
<1>4. CASE ts >= LADDER_CEILING_SECTORS
  <2>1. Ladder(ts) = LastRung(ts) /\ 66059280 <= ts
    BY <1>4, SMT DEF Ladder, LADDER_CEILING_SECTORS
  <2> QED BY <1>1, <1>2, <2>1, SMT
<1>5. CASE ~ (ts >= LADDER_CEILING_SECTORS) /\ FirstRungFits(ts)
  <2>1. Ladder(ts) = FirstRung(ts)
    BY <1>5 DEF Ladder
  <2> QED BY <1>5, <2>1, FirstRungFacts, SMT
<1>6. CASE ~ (ts >= LADDER_CEILING_SECTORS) /\ ~ FirstRungFits(ts)
  <2>1. ts < 66059280 /\ 1024 <= ts
    <3>1. ts < 66059280
      BY <1>6, SMT DEF LADDER_CEILING_SECTORS
    <3>2. ~ (ts < 1024)
      BY <1>6, FirstRungFacts, SMT
    <3> QED BY <3>1, <3>2, SMT
  <2>2. CASE Overflows(SecondRung(ts))
    <3>1. Ladder(ts) = ThirdRung(ts)
      BY <1>6, <2>2 DEF Ladder
    <3> QED BY <1>1, <1>2, <1>3, <2>1, <2>2, <3>1, SMT
  <2>3. CASE ~ Overflows(SecondRung(ts))
    <3>1. Ladder(ts) = SecondRung(ts)
      BY <1>6, <2>3 DEF Ladder
    <3> QED BY <1>1, <1>2, <1>3, <2>1, <2>3, <3>1, SMT
  <2> QED BY <2>2, <2>3, SMT
<1> QED BY <1>4, <1>5, <1>6, SMT

(* Dividing out the tracks and then the heads loses less than a cylinder. *)
LEMMA WholeCylinders ==
  ASSUME NEW n \in Nat, NEW h \in 4 .. 16, NEW s \in {17, 31, 63, 255}
  PROVE  /\ ((n \div s) \div h) * h * s <= n
         /\ n - ((n \div s) \div h) * h * s < h * s
<1> DEFINE t == n \div s
           c == t \div h
<1>1. t \in Nat /\ t * s <= n /\ n < t * s + s
  OBVIOUS
<1> HIDE DEF t
<1>2. c \in Nat /\ c * h <= t /\ t < c * h + h
  BY <1>1
<1> HIDE DEF c
<1>3. c * h \in Nat
  BY <1>2
<1> DEFINE p == c * h
<1> HIDE DEF p
<1>4. p \in Nat /\ p <= t /\ t < p + h
  BY <1>2, <1>3 DEF p
<1>5. p * s <= n /\ n - p * s < h * s
  BY <1>1, <1>4
<1> QED BY <1>5 DEF p, c, t

LEMMA CylindersLeave ==
  ASSUME NEW n \in Nat, NEW h \in HeadCounts, NEW s \in SptCounts
  PROVE  /\ h \in Nat /\ s \in Nat
         /\ ((n \div s) \div h) * h * s <= n
         /\ n - ((n \div s) \div h) * h * s < h * s
<1>1. h \in 4 .. 16 /\ s \in {17, 31, 63, 255}
  BY SMT DEF HeadCounts, SptCounts, MIN_HEADS, MAX_HEADS, SPT_FIRST,
             SPT_SECOND, SPT_THIRD, MAX_SECTORS_PER_TRACK
<1>2. h \in Nat /\ s \in Nat
  BY <1>1, SMT
<1> QED BY <1>1, <1>2, WholeCylinders, SMT

(* The arithmetic of each rung. *)
LEMMA LastRungFits ==
  \A ts \in Nat : 66059280 <= ts /\ ts <= 267382800
    => /\ (ts \div 255) \div 16 \in Nat
       /\ 1 <= (ts \div 255) \div 16 /\ (ts \div 255) \div 16 <= 65535
BY SMTT(30)

LEMMA ThirdRungFits ==
  \A ts \in Nat : ts < 66059280 /\ 16 * 1024 <= ts \div 31
    => /\ (ts \div 63) \div 16 \in Nat
       /\ 1 <= (ts \div 63) \div 16 /\ (ts \div 63) \div 16 <= 65535
BY SMTT(30)

LEMMA SecondRungFits ==
  \A ts \in Nat : 1024 <= ts /\ ts \div 31 < 16 * 1024
    => /\ (ts \div 31) \div 16 \in Nat
       /\ 1 <= (ts \div 31) \div 16 /\ (ts \div 31) \div 16 <= 65535
BY SMTT(30)

LEMMA HeadsFit ==
  \A t \in Nat, h \in 4 .. 16 : t < h * 1024
    => /\ t \div h \in Nat /\ t \div h <= 65535
       /\ h <= t => 1 <= t \div h
BY SMTT(30)

(* A count of cylinders is what its field can hold. *)
LEMMA CylinderRange ==
  /\ \A c \in Nat : c <= MAX_CYLINDERS => c \in CylinderCounts
  /\ \A c \in CylinderCounts : c \in Nat /\ Min2(c, MAX_CYLINDERS) = c
<1>1. \A n \in Nat : /\ \A c \in Nat : c <= n => c \in 0 .. n
                     /\ \A c \in 0 .. n : c \in Nat /\ Min2(c, n) = c
  BY DEF Min2
<1>2. MAX_CYLINDERS \in Nat
  BY SMT DEF MAX_CYLINDERS
<1> QED BY <1>1, <1>2, Zenon DEF CylinderCounts

(* Up to the ceiling the cylinders fit their field; past the first cylinder
   of the smallest geometry there is at least one.                         *)
LEMMA CylindersFit ==
  ASSUME NEW ts \in Nat, ts <= MAX_ADDRESSABLE_SECTORS
  PROVE  /\ Ladder(ts).heads \in HeadCounts /\ Ladder(ts).spt \in SptCounts
         /\ Ladder(ts).tracks = ts \div Ladder(ts).spt
         /\ Ladder(ts).tracks \div Ladder(ts).heads \in CylinderCounts
         /\ SmallestCylinder <= ts =>
              1 <= Ladder(ts).tracks \div Ladder(ts).heads
<1> DEFINE tracks == Ladder(ts).tracks
           heads == Ladder(ts).heads
           spt == Ladder(ts).spt
<1>0. ts <= 267382800
  BY SMT DEF MAX_ADDRESSABLE_SECTORS
<1>1. \/ tracks = ts \div 255 /\ heads = 16 /\ spt = 255 /\ 66059280 <= ts
      \/ /\ tracks = ts \div 63 /\ heads = 16 /\ spt = 63
         /\ ts < 66059280 /\ 16 * 1024 <= ts \div 31
      \/ /\ tracks = ts \div 31 /\ heads = 16 /\ spt = 31
         /\ 1024 <= ts /\ ts \div 31 < 16 * 1024
      \/ /\ tracks = ts \div 17 /\ heads \in 4 .. 16 /\ spt = 17
         /\ tracks < heads * 1024 /\ (4 <= tracks => heads <= tracks)
  BY LadderEnds, SMT
<1> HIDE DEF tracks, heads, spt
<1>2. heads \in HeadCounts /\ spt \in SptCounts /\ tracks = ts \div spt
  BY <1>1, SMT DEF HeadCounts, SptCounts, MIN_HEADS, MAX_HEADS, SPT_FIRST,
                   SPT_SECOND, SPT_THIRD, MAX_SECTORS_PER_TRACK
<1> DEFINE q == tracks \div heads
<1>3. q \in Nat /\ q <= 65535 /\ (68 <= ts => 1 <= q)
  <2>1. CASE /\ tracks = ts \div 17 /\ heads \in 4 .. 16
             /\ tracks < heads * 1024 /\ (4 <= tracks => heads <= tracks)
    <3>1. tracks \in Nat /\ (68 <= ts => 4 <= tracks)
      BY <2>1, SMT
    <3>2. heads \in 4 .. 16 /\ tracks < heads * 1024
      BY <2>1, SMT
    <3>3. q \in Nat /\ q <= 65535 /\ (heads <= tracks => 1 <= q)
      BY <3>1, <3>2, HeadsFit, SMT DEF q
    <3> HIDE DEF q
    <3> QED BY <2>1, <3>1, <3>3
  <2>2. CASE tracks = ts \div 255 /\ heads = 16 /\ 66059280 <= ts
    <3>1. q = (ts \div 255) \div 16
      <4>1. tracks = ts \div 255 /\ heads = 16
        BY <2>2, SMT
      <4> QED BY <4>1
    <3> HIDE DEF q
    <3> QED BY <1>0, <2>2, <3>1, LastRungFits, SMT
  <2>3. CASE /\ tracks = ts \div 63 /\ heads = 16
             /\ ts < 66059280 /\ 16 * 1024 <= ts \div 31
    <3>1. q = (ts \div 63) \div 16
      <4>1. tracks = ts \div 63 /\ heads = 16
        BY <2>3, SMT
      <4> QED BY <4>1
    <3> HIDE DEF q
    <3> QED BY <2>3, <3>1, ThirdRungFits, SMT
  <2>4. CASE /\ tracks = ts \div 31 /\ heads = 16
             /\ 1024 <= ts /\ ts \div 31 < 16 * 1024
    <3>1. q = (ts \div 31) \div 16
      BY <2>4
    <3> HIDE DEF q
    <3> QED BY <2>4, <3>1, SecondRungFits, SMT
  <2> HIDE DEF q
  <2> QED BY <1>1, <2>1, <2>2, <2>3, <2>4, SMT
<1>4. q \in CylinderCounts /\ (SmallestCylinder <= ts => 1 <= q)
  <2> HIDE DEF q
  <2>1. q \in CylinderCounts
    BY <1>3, CylinderRange, SMT DEF MAX_CYLINDERS
  <2>2. SmallestCylinder <= ts => 1 <= q
    BY <1>3, SMT DEF SmallestCylinder
  <2> QED BY <2>1, <2>2
<1> QED BY <1>2, <1>4, Zenon DEF q, tracks, heads, spt

(* The geometry of any size, and what it describes. *)
LEMMA DescribedBelow ==
  ASSUME NEW size \in Nat
  PROVE  /\ chs_for_size(size).cylinders \in CylinderCounts
         /\ chs_for_size(size).heads \in HeadCounts
         /\ chs_for_size(size).spt \in SptCounts
         /\ described(size) \in Nat /\ described(size) <= size
         /\ size <= MAX_ADDRESSABLE_SECTORS =>
              size - described(size)
                < chs_for_size(size).heads * chs_for_size(size).spt
<1> DEFINE ts == Min2(size, MAX_ADDRESSABLE_SECTORS)
           heads == Ladder(ts).heads
           spt == Ladder(ts).spt
           c == (ts \div spt) \div heads
<1>1. ts \in Nat /\ ts <= size /\ ts <= MAX_ADDRESSABLE_SECTORS
      /\ (size <= MAX_ADDRESSABLE_SECTORS => ts = size)
  BY SMT DEF Min2, MAX_ADDRESSABLE_SECTORS
<1>2. CappedRung(size) = Ladder(ts)
  BY Zenon DEF CappedRung
<1> HIDE DEF ts
<1>3. /\ heads \in HeadCounts /\ spt \in SptCounts
      /\ Ladder(ts).tracks = ts \div spt /\ c \in CylinderCounts
  BY <1>1, CylindersFit, Zenon
<1>4. chs_for_size(size) = [cylinders |-> Min2(c, MAX_CYLINDERS),
                            heads |-> heads, spt |-> spt]
  BY <1>3, <1>2, Zenon DEF chs_for_size
<1> HIDE DEF heads, spt
<1>5. c \in Nat /\ Min2(c, MAX_CYLINDERS) = c
  <2>1. c \in CylinderCounts
    BY <1>3, Zenon
  <2> HIDE DEF c
  <2> QED BY <2>1, CylinderRange, Zenon
<1>6. /\ heads \in Nat /\ spt \in Nat
      /\ c * heads * spt <= ts /\ ts - c * heads * spt < heads * spt
  BY <1>1, <1>3, CylindersLeave, Zenon
<1> HIDE DEF c
<1>7. /\ chs_for_size(size).cylinders = c /\ chs_for_size(size).heads = heads
      /\ chs_for_size(size).spt = spt
  BY <1>4, <1>5
<1>8. described(size) = c * heads * spt
  BY <1>7, Zenon DEF described, Product
<1>9. c * heads * spt \in Nat /\ heads * spt \in Nat
  <2>1. \A a, b \in Nat : a * b \in Nat
    BY SMT
  <2> QED BY <1>5, <1>6, <2>1, Zenon
<1> DEFINE p == c * heads * spt
           w == heads * spt
<1>10. /\ described(size) = p /\ p \in Nat /\ w \in Nat /\ p <= ts
      /\ ts - p < w
  BY <1>6, <1>8, <1>9, Zenon
<1>11. w = chs_for_size(size).heads * chs_for_size(size).spt
  BY <1>7, Zenon
<1> HIDE DEF p, w
<1>12. p <= size /\ (size <= MAX_ADDRESSABLE_SECTORS => size - p < w)
  BY <1>1, <1>10, SMT DEF MAX_ADDRESSABLE_SECTORS
<1> QED BY <1>3, <1>7, <1>10, <1>11, <1>12, Zenon

-----------------------------------------------------------------------------
(* Types the search needs, and what it has passed over. *)
Counting ==
  wanted \in Nat /\ sectors \in Nat /\ wanted <= sectors /\ 1 <= wanted

IInv == Counting /\ SearchInv

LEMMA InitIInv == Init => IInv
<1> SUFFICES ASSUME Init PROVE IInv
  OBVIOUS
<1>1. wanted \in Nat /\ sectors = wanted /\ 1 <= wanted
  BY GeometryAssumption DEF Init
<1>2. ~ Made
  BY DEF Init, Made
<1>3. wanted .. sectors - 1 = {}
  BY <1>1
<1> QED BY <1>1, <1>2, <1>3 DEF IInv, Counting, SearchInv

LEMMA NextIInv == IInv /\ [Next]_vars => IInv'
<1> SUFFICES ASSUME IInv, [Next]_vars PROVE IInv'
  OBVIOUS
<1> USE DEF IInv
<1>0. wanted \in Nat /\ sectors \in Nat /\ wanted <= sectors
  BY DEF Counting
<1>1. CASE Found
  <2>1. UNCHANGED <<wanted, sectors>> /\ Addressable
        /\ wanted <= described(sectors)
        /\ footer' = build_footer(described(sectors))
    BY <1>0, <1>1, DescribedBelow DEF Found, Searching
  <2> QED BY <2>1 DEF Counting, SearchInv, Addressable
<1>2. CASE TryNext
  <2>1. /\ wanted' = wanted /\ sectors' = sectors + 1 /\ footer' = footer
        /\ footer = NoFooter
        /\ described(sectors) < wanted
    BY <1>2 DEF TryNext, Searching
  <2>2. Counting'
    BY <1>0, <2>1 DEF Counting
  <2>3. ASSUME NEW s \in wanted .. sectors, s <= MAX_ADDRESSABLE_SECTORS
        PROVE  described(s) < wanted
    <3>1. CASE s = sectors
      BY <2>1, <3>1
    <3>2. CASE s # sectors
      <4>1. s \in wanted .. sectors - 1
        BY <1>0, <3>2
      <4> QED BY <2>3, <4>1 DEF SearchInv
    <3> QED BY <3>1, <3>2
  <2>4. wanted' .. sectors' - 1 = wanted .. sectors
    BY <1>0, <2>1
  <2>5. ~ Made'
    BY <2>1 DEF Made
  <2> QED BY <2>1, <2>2, <2>3, <2>4, <2>5 DEF SearchInv
<1>3. CASE Keep
  <2>1. /\ UNCHANGED <<wanted, sectors>> /\ ~ Addressable
        /\ footer' = build_footer(wanted)
    BY <1>3 DEF Keep
  <2> QED BY <2>1 DEF Counting, SearchInv, Addressable
<1>4. CASE UNCHANGED vars
  BY <1>4 DEF vars, Counting, SearchInv, Made, Addressable
<1> QED BY <1>1, <1>2, <1>3, <1>4 DEF Next

LEMMA SearchSound == Spec => []IInv
BY InitIInv, NextIInv, PTL DEF Spec

-----------------------------------------------------------------------------
(* The size in the footer. *)
LEMMA FooterSize ==
  ASSUME IInv, Made
  PROVE  /\ footer.current_size \in Nat
         /\ wanted <= footer.current_size /\ footer.current_size <= sectors
         /\ footer.geometry = chs_for_size(footer.current_size)
         /\ footer.current_size > MAX_ADDRESSABLE_SECTORS
              => footer.current_size = wanted
<1> USE DEF IInv
<1>0. wanted \in Nat /\ sectors \in Nat /\ wanted <= sectors
  BY DEF Counting
<1>1. \A n : /\ build_footer(n).current_size = n
             /\ build_footer(n).geometry = chs_for_size(n)
  BY DEF build_footer
<1>2. CASE /\ Addressable /\ wanted <= described(sectors)
           /\ footer = build_footer(described(sectors))
  <2>1. described(sectors) \in Nat /\ described(sectors) <= sectors
    BY <1>0, DescribedBelow
  <2>2. sectors <= MAX_ADDRESSABLE_SECTORS
    BY <1>2 DEF Addressable
  <2>3. ~ (described(sectors) > MAX_ADDRESSABLE_SECTORS)
    BY <1>0, <2>1, <2>2, SMT DEF MAX_ADDRESSABLE_SECTORS
  <2>4. footer.current_size = described(sectors)
        /\ footer.geometry = chs_for_size(described(sectors))
    BY <1>1, <1>2
  <2> QED BY <1>2, <2>1, <2>3, <2>4
<1>3. CASE ~ Addressable /\ footer = build_footer(wanted)
  BY <1>0, <1>1, <1>3
<1> QED BY <1>2, <1>3 DEF SearchInv

(* size_with_exact_geometry: the size an image is created with holds the
   request, for every request, and no size between the two is described
   exactly by its own geometry.                                            *)
THEOREM NearestSize == Spec => []NearestExact
<1>1. ASSUME IInv PROVE NearestExact
  <2>1. Made => wanted <= footer.current_size
    BY <1>1, FooterSize
  <2>2. ASSUME Made, NEW e \in wanted .. footer.current_size - 1
        PROVE  described(e) # e
    <3>1. wanted \in Nat /\ sectors \in Nat
      BY <1>1 DEF IInv, Counting
    <3>2. /\ footer.current_size \in Nat /\ footer.current_size <= sectors
          /\ wanted <= footer.current_size
          /\ footer.current_size > MAX_ADDRESSABLE_SECTORS
               => footer.current_size = wanted
      BY <1>1, <2>2, FooterSize
    <3> DEFINE size == footer.current_size
    <3> HIDE DEF size
    <3>3. /\ size \in Nat /\ size <= sectors
          /\ size > MAX_ADDRESSABLE_SECTORS => size = wanted
          /\ e \in wanted .. size - 1
      BY <2>2, <3>2 DEF size
    <3>4. e \in Nat /\ wanted <= e /\ e <= sectors - 1
      BY <3>1, <3>3
    <3>5. e <= MAX_ADDRESSABLE_SECTORS
      BY <3>1, <3>3, SMT DEF MAX_ADDRESSABLE_SECTORS
    <3>6. described(e) < wanted /\ described(e) \in Nat
      BY <1>1, <3>1, <3>4, <3>5, DescribedBelow DEF IInv, SearchInv
    <3> QED BY <3>1, <3>4, <3>6
  <2> QED BY <2>1, <2>2 DEF NearestExact
<1> QED BY <1>1, SearchSound, PTL

(* chs_for_size beside build_footer: the geometry in a new footer never
   describes more than the disk, and misses less than a cylinder of it.    *)
THEOREM GeometryFits == Spec => []WithinACylinder
<1>1. ASSUME IInv PROVE WithinACylinder
  <2>1. SUFFICES ASSUME Made
        PROVE  /\ Product(footer.geometry) <= footer.current_size
               /\ footer.current_size <= MAX_ADDRESSABLE_SECTORS =>
                    footer.current_size - Product(footer.geometry)
                      < footer.geometry.heads * footer.geometry.spt
    BY DEF WithinACylinder
  <2>2. /\ footer.current_size \in Nat
        /\ footer.geometry = chs_for_size(footer.current_size)
    BY <1>1, <2>1, FooterSize
  <2> QED BY <2>2, DescribedBelow, Zenon DEF described
<1> QED BY <1>1, SearchSound, PTL

(* A disk that its own geometry describes at all holds the smallest cylinder. *)
LEMMA AtLeastACylinder ==
  ASSUME NEW c \in Nat, NEW h \in HeadCounts, NEW s \in SptCounts,
         1 <= c * h * s
  PROVE  SmallestCylinder <= c * h * s
<1>1. h \in 4 .. 16 /\ s \in {17, 31, 63, 255}
  BY SMT DEF HeadCounts, SptCounts, MIN_HEADS, MAX_HEADS, SPT_FIRST,
             SPT_SECOND, SPT_THIRD, MAX_SECTORS_PER_TRACK
<1>2. \A n \in Nat : 1 <= n * s => 1 <= n
  BY <1>1, SMT
<1>3. \A n \in Nat : 1 <= n => n * h \in Nat /\ 4 <= n * h
  BY <1>1, SMT
<1>4. \A n \in Nat : 4 <= n => 68 <= n * s
  BY <1>1, SMT
<1>5. c # 0
  <2>1. 0 * h * s = 0
    BY <1>1, SMT
  <2> QED BY <2>1, SMT
<1>6. c * h \in Nat /\ 4 <= c * h
  BY <1>3, <1>5, SMT
<1> QED BY <1>4, <1>6, SMT DEF SmallestCylinder

(* From the smallest cylinder up, the counts of the ladder fit their fields. *)
LEMMA RungFits ==
  ASSUME NEW size \in Nat, SmallestCylinder <= size
  PROVE  LET r == CappedRung(size)
         IN /\ r.tracks \div r.heads \in 1 .. MAX_CYLINDERS
            /\ r.heads \in HeadCounts /\ r.spt \in SptCounts
<1> DEFINE ts == Min2(size, MAX_ADDRESSABLE_SECTORS)
<1>1. ts \in Nat /\ ts <= MAX_ADDRESSABLE_SECTORS /\ SmallestCylinder <= ts
  BY SMT DEF Min2, MAX_ADDRESSABLE_SECTORS, SmallestCylinder
<1>2. CappedRung(size) = Ladder(ts)
  BY Zenon DEF CappedRung
<1> HIDE DEF ts
<1> DEFINE c == Ladder(ts).tracks \div Ladder(ts).heads
<1>3. /\ Ladder(ts).heads \in HeadCounts /\ Ladder(ts).spt \in SptCounts
      /\ c \in CylinderCounts /\ 1 <= c
  BY <1>1, CylindersFit, Zenon
<1>4. c \in 1 .. MAX_CYLINDERS
  <2> DEFINE m == MAX_CYLINDERS
  <2>1. c \in 0 .. m /\ 1 <= c
    BY <1>3, Zenon DEF CylinderCounts
  <2>2. m \in Nat
    BY SMT DEF MAX_CYLINDERS
  <2> HIDE DEF c, m
  <2>3. c \in 1 .. m
    BY <2>1, <2>2, SMT
  <2> QED BY <2>3 DEF m
<1> QED BY <1>2, <1>3, <1>4, Zenon

(* The size a footer is made with is not too small for the ladder. *)
LEMMA FooterHoldsACylinder ==
  ASSUME IInv, Made
  PROVE  SmallestCylinder <= footer.current_size
<1>0. wanted \in Nat /\ sectors \in Nat /\ 1 <= wanted /\ wanted <= sectors
  BY DEF IInv, Counting
<1>1. \A n : build_footer(n).current_size = n
  BY DEF build_footer
<1>2. CASE /\ wanted <= described(sectors)
           /\ footer = build_footer(described(sectors))
  <2> DEFINE g == chs_for_size(sectors)
  <2>1. /\ g.cylinders \in CylinderCounts /\ g.heads \in HeadCounts
        /\ g.spt \in SptCounts /\ described(sectors) \in Nat
    BY <1>0, DescribedBelow, Zenon
  <2>2. g.cylinders \in Nat
    BY <2>1, CylinderRange, Zenon
  <2>3. described(sectors) = g.cylinders * g.heads * g.spt
    BY Zenon DEF described, Product
  <2>4. 1 <= described(sectors)
    BY <1>0, <1>2, <2>1
  <2> HIDE DEF g
  <2>5. SmallestCylinder <= g.cylinders * g.heads * g.spt
    BY <2>1, <2>2, <2>3, <2>4, AtLeastACylinder, Zenon
  <2> QED BY <1>1, <1>2, <2>3, <2>5, Zenon
<1>3. CASE ~ Addressable /\ footer = build_footer(wanted)
  <2> DEFINE top == MAX_ADDRESSABLE_SECTORS
             g == chs_for_size(top)
  <2>1. ~ (sectors <= top)
    BY <1>3 DEF Addressable
  <2>2. SUFFICES ASSUME ~ (SmallestCylinder <= wanted) PROVE FALSE
    BY <1>1, <1>3
  <2>3. top \in Nat /\ top \in wanted .. sectors - 1 /\ top <= top
    BY <1>0, <2>1, <2>2, SMT DEF MAX_ADDRESSABLE_SECTORS, SmallestCylinder
  <2>4. described(top) < wanted
    BY <2>3 DEF IInv, SearchInv
  <2>5. /\ g.heads \in HeadCounts /\ g.spt \in SptCounts
        /\ described(top) \in Nat /\ top - described(top) < g.heads * g.spt
    BY <2>3, DescribedBelow, Zenon
  <2> HIDE DEF g
  <2>6. g.heads * g.spt \in Nat /\ g.heads * g.spt <= 4080
    BY <2>5, SMT DEF HeadCounts, SptCounts, MIN_HEADS, MAX_HEADS, SPT_FIRST,
                     SPT_SECOND, SPT_THIRD, MAX_SECTORS_PER_TRACK
  <2> DEFINE d == described(top)
             w == g.heads * g.spt
  <2>7. d < wanted /\ d \in Nat /\ top - d < w
    BY <2>4, <2>5, Zenon
  <2>8. w \in Nat /\ w <= 4080
    BY <2>6, SMT
  <2> HIDE DEF d, w
  <2> QED BY <1>0, <2>2, <2>7, <2>8, SMT DEF MAX_ADDRESSABLE_SECTORS, SmallestCylinder
<1> QED BY <1>2, <1>3 DEF IInv, SearchInv

(* chs_for_size: whatever size an image is created with, the cylinders fit 16
   bits and the heads and sectors 8, and none of the three is zero.        *)
THEOREM CastsKeepCounts == Spec => []CastsLoseNothing
<1>1. ASSUME IInv, Made
      PROVE  LET r == CappedRung(footer.current_size)
             IN /\ r.tracks \div r.heads \in 1 .. MAX_CYLINDERS
                /\ r.heads \in HeadCounts /\ r.spt \in SptCounts
  BY <1>1, FooterSize, FooterHoldsACylinder, RungFits, Zenon
<1>2. IInv => CastsLoseNothing
  BY <1>1, Zenon DEF CastsLoseNothing, HeadCounts, SptCounts
<1> QED BY <1>2, SearchSound, PTL
=============================================================================
