--------------------------- MODULE CreateImageProofs ---------------------------
(***************************************************************************)
(* What a create leaves at its path, for every image that may be asked for *)
(* and every file that may be there: the file is a part of the image from  *)
(* the truncation to the sync, and a part that opens is an empty disk.     *)
(***************************************************************************)
EXTENDS CreateImage, SequenceTheorems, TLAPS

(* The layout of an image has a length, and a dynamic one its four sectors of
   metadata before the closing footer.                                     *)
LEMMA Lengths ==
  ASSUME NEW a \in Asks
  PROVE  /\ a.kind \in {"fixed", "dynamic"}
         /\ Size(a) \in Nat /\ TableSectors(a) \in Nat /\ FooterAt(a) \in Nat
         /\ a.kind = "fixed" => FooterAt(a) = Size(a)
         /\ a.kind = "dynamic" => FooterAt(a) = 3 + TableSectors(a)
<1>1. \A m \in Nat, n \in Nat \ {0} : CeilDiv(m, n) \in Nat
  BY SMTT(30) DEF CeilDiv
<1>2. /\ a.kind \in {"fixed", "dynamic"} /\ a.block \in Nat \ {0}
      /\ exact[a.size] \in Nat /\ ENTRIES_PER_SECTOR \in Nat \ {0}
  BY CreateAssumption
<1>3. Size(a) \in Nat
  BY <1>2 DEF Size
<1>4. Entries(a) \in Nat
  BY <1>1, <1>2, <1>3 DEF Entries
<1>5. TableSectors(a) \in Nat
  BY <1>1, <1>2, <1>4 DEF TableSectors
<1> QED BY <1>2, <1>3, <1>5, SMT DEF FooterAt, TableOffset

(* What each sector says it is. *)
LEMMA SectorKinds ==
  /\ Zeros.is = "zeros" /\ Torn.is = "torn" /\ Unallocated.is = "table"
  /\ \A k, n : /\ Footer(k, n).is = "footer" /\ Footer(k, n).kind = k
               /\ Footer(k, n).size = n
  /\ \A h, e, b : /\ Header(h, e, b).is = "header" /\ Header(h, e, b).block = b
                  /\ Header(h, e, b).entries = e
BY DEF Zeros, Torn, Unallocated, Footer, Header

(* The image, sector by sector. *)
LEMMA ImageSectors ==
  ASSUME NEW a \in Asks
  PROVE  /\ Image(a) = [s \in 1 .. FooterAt(a) + 1 |-> Image(a)[s]]
         /\ Image(a)[FooterAt(a) + 1] = FooterFor(a)
         /\ a.kind = "fixed" => \A s \in 1 .. FooterAt(a) : Image(a)[s] = Zeros
         /\ a.kind = "dynamic" =>
              /\ Image(a)[1] = FooterFor(a)
              /\ Image(a)[2] = HeaderFor(a)[1] /\ Image(a)[3] = HeaderFor(a)[2]
              /\ \A s \in 4 .. FooterAt(a) : Image(a)[s] = Unallocated
         /\ a.kind = "dynamic" =>
              \A s \in 1 .. FooterAt(a) + 1 : Image(a)[s] # Zeros
         /\ Image(a)[FooterAt(a) + 1] # Zeros
<1> DEFINE n == FooterAt(a) + 1
           cell(s) == IF s = n THEN FooterFor(a)
                      ELSE IF a.kind = "fixed" THEN Zeros
                      ELSE IF s = 1 THEN FooterFor(a)
                      ELSE IF s \in 2 .. 3 THEN HeaderFor(a)[s - 1]
                      ELSE Unallocated
<1>1. Image(a) = [s \in 1 .. n |-> cell(s)]
  BY DEF Image
<1>2. /\ n \in Nat /\ 1 <= n /\ n - 1 = FooterAt(a)
      /\ a.kind = "dynamic" => 4 <= n
  BY Lengths, SMT
<1>3. \A s \in 1 .. n : Image(a)[s] = cell(s)
  BY <1>1
<1>4. Image(a) = [s \in 1 .. n |-> Image(a)[s]]
  BY <1>1
<1>5. n \in 1 .. n /\ \A s \in 1 .. FooterAt(a) : s \in 1 .. n /\ s # n
  BY <1>2, SMT
<1>6. Image(a)[n] = FooterFor(a)
  BY <1>3, <1>5
<1>7. ASSUME a.kind = "fixed", NEW s \in 1 .. FooterAt(a)
      PROVE  Image(a)[s] = Zeros
  BY <1>3, <1>5, <1>7
<1>8. ASSUME a.kind = "dynamic"
      PROVE  /\ Image(a)[1] = FooterFor(a)
             /\ Image(a)[2] = HeaderFor(a)[1] /\ Image(a)[3] = HeaderFor(a)[2]
             /\ \A s \in 4 .. FooterAt(a) : Image(a)[s] = Unallocated
  <2>1. /\ 1 \in 1 .. n /\ 2 \in 1 .. n /\ 3 \in 1 .. n
        /\ 1 # n /\ 2 # n /\ 3 # n
        /\ 2 \in 2 .. 3 /\ 3 \in 2 .. 3 /\ 2 - 1 = 1 /\ 3 - 1 = 2
        /\ \A s \in 4 .. FooterAt(a) : s # 1 /\ s \notin 2 .. 3
    BY <1>2, <1>8, SMT
  <2>2. a.kind # "fixed"
    BY <1>8
  <2>3. Image(a)[1] = FooterFor(a)
    BY <1>3, <2>1, <2>2
  <2>4. Image(a)[2] = HeaderFor(a)[1] /\ Image(a)[3] = HeaderFor(a)[2]
    BY <1>3, <2>1, <2>2, SMT
  <2>5. \A s \in 4 .. FooterAt(a) : Image(a)[s] = Unallocated
    <3> SUFFICES ASSUME NEW s \in 4 .. FooterAt(a) PROVE Image(a)[s] = Unallocated
      OBVIOUS
    <3>1. s \in 1 .. FooterAt(a)
      BY SMT
    <3> QED BY <1>3, <1>5, <2>1, <2>2, <3>1
  <2> QED BY <2>3, <2>4, <2>5
<1>9. FooterFor(a) # Zeros /\ Unallocated # Zeros
  BY SectorKinds DEF FooterFor
<1>10. HeaderFor(a)[1] # Zeros /\ HeaderFor(a)[2] # Zeros
  <2>1. /\ HeaderFor(a)[1] = Header(1, Entries(a), a.block)
        /\ HeaderFor(a)[2] = Header(2, Entries(a), a.block)
    BY DEF HeaderFor
  <2> QED BY <2>1, SectorKinds
<1>11. ASSUME a.kind = "dynamic", NEW s \in 1 .. n
       PROVE  Image(a)[s] # Zeros
  <2>1. s = n \/ s = 1 \/ s = 2 \/ s = 3 \/ s \in 4 .. FooterAt(a)
    BY <1>2, SMT
  <2> QED BY <1>6, <1>8, <1>9, <1>10, <1>11, <2>1
<1> QED BY <1>4, <1>6, <1>7, <1>8, <1>9, <1>11

(* A sequence built by its sectors has as many as it is built with. *)
LEMMA LengthOf ==
  ASSUME NEW n \in Nat, NEW f, DOMAIN f = 1 .. n, f = [s \in DOMAIN f |-> f[s]]
  PROVE  Len(f) = n
<1>1. f \in Seq({f[s] : s \in 1 .. n})
  <2>1. f \in [1 .. n -> {f[s] : s \in 1 .. n}]
    OBVIOUS
  <2> QED BY <2>1, SeqDef
<1> QED BY <1>1, LenProperties

-----------------------------------------------------------------------------
(* A part of the image that is asked for *)

(* What is written of the image over zeros is a part of it. *)
LEMMA WithOnlyIsPart ==
  ASSUME NEW a \in Asks, NEW S
  PROVE  /\ PartOf(WithOnly(a, S), a)
         /\ Len(WithOnly(a, S)) = FooterAt(a) + 1
<1> DEFINE f == WithOnly(a, S)
<1>1. /\ f = [s \in 1 .. FooterAt(a) + 1 |-> IF s \in S THEN Image(a)[s] ELSE Zeros]
  BY DEF WithOnly
<1>2. DOMAIN f = 1 .. FooterAt(a) + 1
  BY <1>1
<1>3. f = [s \in DOMAIN f |-> f[s]]
  BY <1>1
<1>4. \A s \in DOMAIN f : f[s] \in {Zeros, Image(a)[s]}
  BY <1>1
<1>5. FooterAt(a) + 1 \in Nat
  BY Lengths, SMT
<1>6. Len(f) = FooterAt(a) + 1
  <2> HIDE DEF f
  <2> QED BY <1>2, <1>3, <1>5, LengthOf
<1>7. PartOf(f, a)
  <2> HIDE DEF f
  <2> QED BY <1>2, <1>3, <1>4 DEF PartOf
<1> QED BY <1>6, <1>7

(* With every sector that is not zero, it is the image. *)
LEMMA WithOnlyIsImage ==
  ASSUME NEW a \in Asks, NEW S,
         \A s \in 1 .. FooterAt(a) + 1 : s \in S \/ Image(a)[s] = Zeros
  PROVE  WithOnly(a, S) = Image(a)
<1>1. WithOnly(a, S) = [s \in 1 .. FooterAt(a) + 1 |-> Image(a)[s]]
  BY DEF WithOnly
<1> QED BY <1>1, ImageSectors

(* A part that is not empty is as long as the image. *)
LEMMA PartLength ==
  ASSUME NEW a \in Asks, NEW f, PartOf(f, a), f # <<>>
  PROVE  /\ Len(f) = FooterAt(a) + 1 /\ DOMAIN f = 1 .. FooterAt(a) + 1
         /\ f = [s \in DOMAIN f |-> f[s]]
         /\ \A s \in DOMAIN f : \/ f[s] \in {Zeros, Image(a)[s]}
                                \/ f[s] = Torn /\ Image(a)[s] # Zeros
<1>1. /\ DOMAIN f = 1 .. FooterAt(a) + 1
      /\ f = [s \in DOMAIN f |-> f[s]]
      /\ \A s \in DOMAIN f : \/ f[s] \in {Zeros, Image(a)[s]}
                             \/ f[s] = Torn /\ Image(a)[s] # Zeros
  BY DEF PartOf
<1>2. FooterAt(a) + 1 \in Nat
  BY Lengths, SMT
<1>3. Len(f) = FooterAt(a) + 1
  BY <1>1, <1>2, LengthOf
<1> QED BY <1>1, <1>3

(* A part that a power loss tears further is still a part. *)
LEMMA RemnantsAreParts ==
  ASSUME NEW a \in Asks, NEW f, PartOf(f, a), f # Missing,
         NEW g \in Remnants(f)
  PROVE  PartOf(g, a)
<1>1. CASE g = <<>>
  BY <1>1 DEF PartOf
<1>2. ASSUME NEW kept \in SUBSET (1 .. Len(f)),
             g = [s \in 1 .. Len(f) |-> IF s \in kept THEN f[s] ELSE Zeros]
      PROVE  PartOf(g, a)
  <2>1. CASE f = <<>>
    <3>1. Len(f) = 0
      BY <2>1, EmptySeq
    <3>2. 1 .. Len(f) = {}
      BY <3>1, SMT
    <3>3. g = [s \in {} |-> Zeros]
      BY <1>2, <3>2
    <3>4. g = <<>>
      BY <3>3, SMT
    <3> QED BY <3>4 DEF PartOf
  <2>2. CASE f # <<>>
    <3>1. /\ Len(f) = FooterAt(a) + 1
          /\ DOMAIN f = 1 .. FooterAt(a) + 1
          /\ \A s \in DOMAIN f : \/ f[s] \in {Zeros, Image(a)[s]}
                                 \/ f[s] = Torn /\ Image(a)[s] # Zeros
      BY <2>2, PartLength
    <3>2. DOMAIN g = 1 .. FooterAt(a) + 1 /\ g = [s \in DOMAIN g |-> g[s]]
      BY <1>2, <3>1
    <3>3. \A s \in DOMAIN g : g[s] = f[s] \/ g[s] = Zeros
      BY <1>2
    <3>4. \A s \in DOMAIN g : \/ g[s] \in {Zeros, Image(a)[s]}
                              \/ g[s] = Torn /\ Image(a)[s] # Zeros
      BY <3>1, <3>2, <3>3
    <3> QED BY <3>2, <3>4 DEF PartOf
  <2> QED BY <2>1, <2>2
<1> QED BY <1>1, <1>2 DEF Remnants

(* A part that open_inner takes is an empty disk of the kind and size: its
   footer is the image's at either end, and a fixed part has none in front.
   Every table sector it accepts is written, so nothing else is read of it. *)
LEMMA PartOpensEmpty ==
  ASSUME NEW a \in Asks, NEW f, PartOf(f, a), Opens(f)
  PROVE  IsEmptyDisk(f, a)
<1> DEFINE n == FooterAt(a) + 1
<1>1. f # <<>>
  BY EmptySeq, SMT DEF Opens
<1>2. /\ Len(f) = n /\ DOMAIN f = 1 .. n
      /\ \A s \in 1 .. n : \/ f[s] \in {Zeros, Image(a)[s]}
                           \/ f[s] = Torn /\ Image(a)[s] # Zeros
  BY <1>1, PartLength
<1>3. \A s \in 1 .. n : f[s].is \notin {"zeros", "torn"} => f[s] = Image(a)[s]
  BY <1>2, SectorKinds
<1>4. n \in Nat /\ n >= 1 /\ n \in 1 .. n
  BY Lengths, SMT
<1>5. FooterFor(a).kind = a.kind /\ FooterFor(a).size = Size(a)
  BY SectorKinds DEF FooterFor
<1>6. FooterRead(f) = FooterFor(a)
  <2>1. CASE TailIsFooter(f)
    <3>1. f[n].is = "footer"
      BY <1>2, <2>1 DEF TailIsFooter
    <3>2. f[n] = FooterFor(a)
      BY <1>3, <1>4, <3>1, ImageSectors
    <3> QED BY <1>2, <2>1, <3>2 DEF FooterRead
  <2>2. CASE ~ TailIsFooter(f)
    <3>1. n >= 2 /\ f[1].is = "footer"
      BY <1>2, <2>2 DEF Opens, MirrorIsFooter
    <3>2. 1 \in 1 .. n /\ f[1] = Image(a)[1]
      BY <1>3, <1>4, <3>1, SMT
    <3>3. a.kind = "dynamic"
      <4> SUFFICES ASSUME a.kind = "fixed" PROVE FALSE
        BY Lengths
      <4>1. 1 \in 1 .. FooterAt(a)
        BY <1>4, <3>1, Lengths, SMT
      <4> QED BY <3>1, <3>2, <4>1, ImageSectors, SectorKinds
    <3>4. f[1] = FooterFor(a)
      BY <3>2, <3>3, ImageSectors
    <3> QED BY <2>2, <3>4 DEF FooterRead
  <2> QED BY <2>1, <2>2
<1>7. CASE a.kind = "fixed"
  <2>1. \A s \in 1 .. Size(a) : s \in 1 .. n /\ Image(a)[s] = Zeros
    <3>1. FooterAt(a) = Size(a) /\ Size(a) \in Nat
      BY <1>7, Lengths
    <3>2. \A s \in 1 .. Size(a) : s \in 1 .. n /\ s \in 1 .. FooterAt(a)
      BY <3>1, SMT
    <3> QED BY <1>7, <3>2, ImageSectors
  <2>2. \A s \in 1 .. Size(a) : f[s] = Zeros
    BY <1>2, <2>1
  <2> QED BY <1>6, <1>7, <2>2 DEF IsEmptyDisk
<1>8. CASE a.kind = "dynamic"
  <2>1. /\ f[2].is = "header"
        /\ TableAccepted(f, f[2].entries)
    BY <1>5, <1>6, <1>8 DEF Opens
  <2>2. n >= 4 /\ 2 \in 1 .. n
    BY <1>8, Lengths, SMT
  <2>3. f[2] = Header(1, Entries(a), a.block)
    <3>1. f[2] = Image(a)[2]
      BY <1>3, <2>1, <2>2
    <3>2. HeaderFor(a)[1] = Header(1, Entries(a), a.block)
      BY DEF HeaderFor
    <3> QED BY <1>8, <3>1, <3>2, ImageSectors
  <2>4. f[2].block = a.block /\ f[2].entries = Entries(a)
    BY <2>3, SectorKinds
  <2>5. \A s \in TableOffset + 1 .. TableOffset + TableSectors(a) : f[s].is = "table"
    BY <2>1, <2>4 DEF TableAccepted, TableSectors
  <2>6. \A s \in TableOffset + 1 .. TableOffset + TableSectors(a) :
          s \in 4 .. FooterAt(a) /\ s \in 1 .. n
    BY <1>8, Lengths, SMT DEF TableOffset
  <2>7. \A s \in TableOffset + 1 .. TableOffset + TableSectors(a) :
          f[s] = Unallocated
    BY <1>3, <1>8, <2>5, <2>6, ImageSectors
  <2>8. a.kind # "fixed"
    BY <1>8
  <2> QED BY <1>6, <2>4, <2>7, <2>8 DEF IsEmptyDisk
<1> QED BY <1>7, <1>8, Lengths

-----------------------------------------------------------------------------
(* Writing it *)

(* The sectors are the image's own, and go where they belong. *)
OfImage(a, at, q) ==
  /\ Len(q) \in Nat /\ at + Len(q) <= FooterAt(a) + 1
  /\ \A s \in at + 1 .. at + Len(q) : q[s - at] = Image(a)[s]

(* Written over what is written already, they are written too. *)
LEMMA InPlace ==
  ASSUME NEW a \in Asks, NEW S, NEW at \in Nat, NEW q, OfImage(a, at, q)
  PROVE  Written(WithOnly(a, S), at, q) = WithOnly(a, S \cup (at + 1 .. at + Len(q)))
<1> DEFINE n == FooterAt(a) + 1
           f == WithOnly(a, S)
           R == at + 1 .. at + Len(q)
<1>1. Len(f) = n /\ n \in Nat /\ Len(q) \in Nat
  BY WithOnlyIsPart, Lengths, SMT DEF OfImage
<1>2. f = [s \in 1 .. n |-> IF s \in S THEN Image(a)[s] ELSE Zeros]
  BY DEF WithOnly
<1> HIDE DEF f
<1>3. Larger(Len(f), at + Len(q)) = n
  BY <1>1, SMT DEF Larger, OfImage
<1>4. \A s \in 1 .. n : s <= n
  BY <1>1, SMT
<1>5. Written(f, at, q) = [s \in 1 .. n |-> IF s \in R THEN q[s - at] ELSE f[s]]
  BY <1>1, <1>3, <1>4 DEF Written
<1>6. \A s \in 1 .. n :
        (IF s \in R THEN q[s - at] ELSE f[s])
          = (IF s \in S \cup R THEN Image(a)[s] ELSE Zeros)
  BY <1>2 DEF OfImage
<1>7. Written(f, at, q)
        = [s \in 1 .. n |-> IF s \in S \cup R THEN Image(a)[s] ELSE Zeros]
  BY <1>5, <1>6
<1> QED BY <1>7 DEF f, WithOnly

(* Such a write that fails half-way leaves a part of the image, where none of
   the sectors it writes is zero in the image.                             *)
LEMMA TornIsPart ==
  ASSUME NEW a \in Asks, NEW S, NEW at \in Nat, NEW T, NEW q \in Seq(T),
         at + Len(q) <= FooterAt(a) + 1,
         \A s \in at + 1 .. at + Len(q) :
           q[s - at] = Image(a)[s] /\ Image(a)[s] # Zeros,
         NEW g \in FailedWrites(WithOnly(a, S), at, q)
  PROVE  PartOf(g, a)
<1> DEFINE n == FooterAt(a) + 1
           f == WithOnly(a, S)
<1>0. Len(q) \in Nat /\ n \in Nat
  BY LenProperties, Lengths, SMT
<1>1. ASSUME NEW k \in 0 .. Len(q)
      PROVE  /\ SubSeq(q, 1, k) \in Seq(T) /\ Len(SubSeq(q, 1, k)) = k /\ k \in Nat
             /\ \A i \in 1 .. k : SubSeq(q, 1, k)[i] = q[i]
  BY <1>0, SMT
<1>2. ASSUME NEW k \in 0 .. Len(q), g = Written(f, at, SubSeq(q, 1, k))
      PROVE  PartOf(g, a)
  <2> DEFINE p == SubSeq(q, 1, k)
  <2>1. /\ p \in Seq(T) /\ Len(p) = k /\ k \in Nat
        /\ \A i \in 1 .. k : p[i] = q[i]
    BY <1>1
  <2> HIDE DEF p
  <2>2. at + Len(p) <= n
    BY <1>0, <2>1, SMT
  <2>3. \A s \in at + 1 .. at + Len(p) :
          s - at \in 1 .. k /\ s \in at + 1 .. at + Len(q)
    BY <1>0, <2>1, SMT
  <2>4. \A s \in at + 1 .. at + Len(p) : p[s - at] = Image(a)[s]
    BY <2>1, <2>3
  <2>5. g = WithOnly(a, S \cup (at + 1 .. at + Len(p)))
    <3>1. Written(f, at, p) = WithOnly(a, S \cup (at + 1 .. at + Len(p)))
      <4>1. OfImage(a, at, p)
        BY <2>1, <2>2, <2>4 DEF OfImage
      <4> QED BY <4>1, InPlace
    <3> QED BY <1>2, <3>1 DEF p
  <2> QED BY <2>5, WithOnlyIsPart
<1>3. ASSUME NEW k \in 0 .. Len(q) - 1,
             g = Written(f, at, Append(SubSeq(q, 1, k), Torn))
      PROVE  PartOf(g, a)
  <2> DEFINE r == SubSeq(q, 1, k)
             p == Append(r, Torn)
  <2>1. /\ r \in Seq(T) /\ Len(r) = k /\ k \in Nat /\ k + 1 <= Len(q)
        /\ \A i \in 1 .. k : r[i] = q[i]
    BY <1>0, <1>1, SMT
  <2> HIDE DEF r
  <2>2. /\ Len(p) = k + 1 /\ p[k + 1] = Torn
        /\ \A i \in 1 .. k : p[i] = q[i]
    <3>1. r \in Seq(T \cup {Torn}) /\ Torn \in T \cup {Torn}
      BY <2>1, SMT
    <3> QED BY <2>1, <3>1, AppendProperties
  <2> HIDE DEF p
  <2>3. Len(f) = n
    BY WithOnlyIsPart
  <2>4. /\ DOMAIN f = 1 .. n
        /\ \A s \in 1 .. n : f[s] \in {Zeros, Image(a)[s]}
    BY DEF WithOnly
  <2> HIDE DEF f
  <2>5. Larger(Len(f), at + Len(p)) = n
    <3>1. k \in Nat /\ k + 1 <= Len(q) /\ Len(p) = k + 1
      BY <2>1, <2>2
    <3> QED BY <1>0, <2>3, <3>1, SMTT(30) DEF Larger
  <2>6. g = [s \in 1 .. n |-> IF s \in at + 1 .. at + (k + 1) THEN p[s - at]
                              ELSE IF s <= n THEN f[s] ELSE Zeros]
    BY <1>3, <2>2, <2>3, <2>5 DEF Written, p, r
  <2>7. DOMAIN g = 1 .. n /\ g = [s \in DOMAIN g |-> g[s]]
    BY <2>6
  <2>8. ASSUME NEW s \in 1 .. n
        PROVE  \/ g[s] \in {Zeros, Image(a)[s]}
               \/ g[s] = Torn /\ Image(a)[s] # Zeros
    <3>1. CASE s \in at + 1 .. at + (k + 1)
      <4>1. /\ s \in at + 1 .. at + Len(q)
            /\ s - at = k + 1 \/ s - at \in 1 .. k
        BY <1>0, <2>1, <3>1, SMT
      <4>2. g[s] = p[s - at]
        BY <2>6, <3>1
      <4> QED BY <2>2, <4>1, <4>2
    <3>2. CASE s \notin at + 1 .. at + (k + 1)
      <4>1. s <= n
        BY <1>0, SMT
      <4> QED BY <2>4, <2>6, <3>2, <4>1
    <3> QED BY <3>1, <3>2
  <2> QED BY <2>7, <2>8 DEF PartOf
<1> QED BY <1>2, <1>3 DEF FailedWrites

(* A BAT chunk, sector by sector. *)
LEMMA ChunkIs ==
  ASSUME NEW n \in Nat
  PROVE  /\ Chunk(n) \in Seq({Unallocated}) /\ Len(Chunk(n)) = n
         /\ \A i \in 1 .. n : Chunk(n)[i] = Unallocated
<1>1. DOMAIN Chunk(n) = 1 .. n /\ Chunk(n) = [s \in DOMAIN Chunk(n) |-> Chunk(n)[s]]
  BY DEF Chunk
<1>2. Chunk(n) \in [1 .. n -> {Unallocated}]
  BY DEF Chunk
<1>3. Chunk(n) \in Seq({Unallocated})
  BY <1>2, SeqDef
<1> QED BY <1>1, <1>2, <1>3, LengthOf

-----------------------------------------------------------------------------
(* One lemma for each file call: where it brings the file, and what it leaves
   of it when it fails                                                     *)

LEMMA Lengthened ==
  ASSUME NEW a \in Asks
  PROVE  Resized(<<>>, FooterAt(a) + 1) = WithOnly(a, {})
<1>1. Len(<<>>) = 0 /\ FooterAt(a) + 1 \in Nat
  BY EmptySeq, Lengths, SMT
<1>2. \A s \in 1 .. FooterAt(a) + 1 : ~ (s <= 0)
  BY <1>1, SMT
<1>3. Resized(<<>>, FooterAt(a) + 1) = [s \in 1 .. FooterAt(a) + 1 |-> Zeros]
  BY <1>1, <1>2 DEF Resized
<1> QED BY <1>3 DEF WithOnly

LEMMA MirrorWritten ==
  ASSUME NEW a \in Asks, a.kind = "dynamic"
  PROVE  /\ Written(WithOnly(a, {}), 0, <<FooterFor(a)>>) = WithOnly(a, {1})
         /\ \A g \in FailedWrites(WithOnly(a, {}), 0, <<FooterFor(a)>>) : PartOf(g, a)
<1> DEFINE q == <<FooterFor(a)>>
<1>1. q \in Seq({FooterFor(a)}) /\ Len(q) = 1 /\ q[1] = FooterFor(a)
  BY SMT
<1> HIDE DEF q
<1>2. 0 + Len(q) <= FooterAt(a) + 1 /\ 0 + 1 .. 0 + Len(q) = {1} /\ 1 - 0 = 1
  BY <1>1, Lengths, SMT
<1>3. 1 \in 1 .. FooterAt(a) + 1
  BY Lengths, SMT
<1>4. Image(a)[1] = FooterFor(a) /\ Image(a)[1] # Zeros
  BY <1>3, ImageSectors
<1>5. \A s \in 0 + 1 .. 0 + Len(q) : q[s - 0] = Image(a)[s] /\ Image(a)[s] # Zeros
  BY <1>1, <1>2, <1>4
<1>6. Written(WithOnly(a, {}), 0, q) = WithOnly(a, {} \cup (0 + 1 .. 0 + Len(q)))
  <2>1. OfImage(a, 0, q)
    BY <1>1, <1>2, <1>5, SMT DEF OfImage
  <2> QED BY <2>1, InPlace
<1>7. Written(WithOnly(a, {}), 0, q) = WithOnly(a, {1})
  <2>1. {} \cup (0 + 1 .. 0 + Len(q)) = {1}
    BY <1>2
  <2> QED BY <1>6, <2>1
<1>8. \A g \in FailedWrites(WithOnly(a, {}), 0, q) : PartOf(g, a)
  BY <1>1, <1>2, <1>5, TornIsPart
<1> QED BY <1>7, <1>8 DEF q

LEMMA HeaderWritten ==
  ASSUME NEW a \in Asks, a.kind = "dynamic"
  PROVE  /\ Written(WithOnly(a, {1}), HEADER_OFFSET, HeaderFor(a))
              = WithOnly(a, 1 .. TableOffset)
         /\ \A g \in FailedWrites(WithOnly(a, {1}), HEADER_OFFSET, HeaderFor(a)) :
              PartOf(g, a)
<1> DEFINE q == HeaderFor(a)
<1>1. q \in Seq({q[1], q[2]}) /\ Len(q) = 2
  BY SMT DEF HeaderFor
<1> HIDE DEF q
<1>2. 1 + Len(q) <= FooterAt(a) + 1 /\ 1 + 1 .. 1 + Len(q) = {2, 3}
  BY <1>1, Lengths, SMT
<1>3. 2 \in 1 .. FooterAt(a) + 1 /\ 3 \in 1 .. FooterAt(a) + 1
  BY Lengths, SMT
<1>4. /\ Image(a)[2] = q[1] /\ Image(a)[2] # Zeros
      /\ Image(a)[3] = q[2] /\ Image(a)[3] # Zeros
  BY <1>3, ImageSectors DEF q
<1>5. \A s \in 1 + 1 .. 1 + Len(q) : q[s - 1] = Image(a)[s] /\ Image(a)[s] # Zeros
  <2>1. 2 - 1 = 1 /\ 3 - 1 = 2
    OBVIOUS
  <2> QED BY <1>2, <1>4, <2>1
<1>6. Written(WithOnly(a, {1}), 1, q) = WithOnly(a, {1} \cup (1 + 1 .. 1 + Len(q)))
  <2>1. OfImage(a, 1, q)
    BY <1>1, <1>2, <1>5, SMT DEF OfImage
  <2>2. \A at \in Nat : OfImage(a, at, q) =>
          Written(WithOnly(a, {1}), at, q) = WithOnly(a, {1} \cup (at + 1 .. at + Len(q)))
    <3> DEFINE S == {1}
    <3> HIDE DEF S
    <3>1. \A at \in Nat : OfImage(a, at, q) =>
            Written(WithOnly(a, S), at, q) = WithOnly(a, S \cup (at + 1 .. at + Len(q)))
      BY InPlace
    <3> QED BY <3>1 DEF S
  <2> QED BY <2>1, <2>2
<1>7. Written(WithOnly(a, {1}), 1, q) = WithOnly(a, 1 .. TableOffset)
  <2>1. {1} \cup {2, 3} = 1 .. TableOffset
    BY SMT DEF TableOffset
  <2> QED BY <1>2, <1>6, <2>1
<1>8. \A g \in FailedWrites(WithOnly(a, {1}), 1, q) : PartOf(g, a)
  BY <1>1, <1>2, <1>5, TornIsPart
<1> QED BY <1>7, <1>8 DEF q, HEADER_OFFSET

LEMMA FooterWritten ==
  ASSUME NEW a \in Asks, NEW S
  PROVE  /\ Written(WithOnly(a, S), FooterAt(a), <<FooterFor(a)>>)
              = WithOnly(a, S \cup {FooterAt(a) + 1})
         /\ \A g \in FailedWrites(WithOnly(a, S), FooterAt(a), <<FooterFor(a)>>) :
              PartOf(g, a)
<1> DEFINE q == <<FooterFor(a)>>
           at == FooterAt(a)
<1>1. q \in Seq({FooterFor(a)}) /\ Len(q) = 1 /\ q[1] = FooterFor(a)
  BY SMT
<1> HIDE DEF q
<1>2. at \in Nat
  BY Lengths
<1>3. at + Len(q) <= FooterAt(a) + 1 /\ at + 1 .. at + Len(q) = {at + 1}
      /\ (at + 1) - at = 1
  BY <1>1, <1>2, SMT
<1>4. \A s \in at + 1 .. at + Len(q) : q[s - at] = Image(a)[s] /\ Image(a)[s] # Zeros
  <2>1. Image(a)[at + 1] = FooterFor(a) /\ Image(a)[at + 1] # Zeros
    BY ImageSectors
  <2> HIDE DEF at
  <2> QED BY <1>1, <1>3, <2>1
<1>5. Written(WithOnly(a, S), at, q) = WithOnly(a, S \cup (at + 1 .. at + Len(q)))
  <2>1. OfImage(a, at, q)
    BY <1>1, <1>2, <1>3, <1>4, SMT DEF OfImage
  <2> HIDE DEF at
  <2> QED BY <1>2, <2>1, InPlace
<1>6. \A g \in FailedWrites(WithOnly(a, S), at, q) : PartOf(g, a)
  BY <1>1, <1>2, <1>3, <1>4, TornIsPart
<1> QED BY <1>3, <1>5, <1>6 DEF q

(* The BAT's sectors, n of them from a sector inside the table on. *)
LEMMA ChunkWritten ==
  ASSUME NEW a \in Asks, a.kind = "dynamic", NEW S,
         NEW at \in Nat, NEW n \in Nat, 3 <= at, at + n <= FooterAt(a)
  PROVE  /\ Written(WithOnly(a, S), at, Chunk(n))
              = WithOnly(a, S \cup (at + 1 .. at + n))
         /\ \A g \in FailedWrites(WithOnly(a, S), at, Chunk(n)) : PartOf(g, a)
<1> DEFINE q == Chunk(n)
<1>1. /\ q \in Seq({Unallocated}) /\ Len(q) = n
      /\ \A i \in 1 .. n : q[i] = Unallocated
  BY ChunkIs
<1> HIDE DEF q
<1>2. at + Len(q) <= FooterAt(a) + 1
  BY <1>1, Lengths, SMT
<1>3. \A s \in at + 1 .. at + Len(q) :
        /\ s - at \in 1 .. n /\ s \in 4 .. FooterAt(a)
        /\ s \in 1 .. FooterAt(a) + 1
  BY <1>1, Lengths, SMT
<1>4. \A s \in at + 1 .. at + Len(q) : q[s - at] = Image(a)[s] /\ Image(a)[s] # Zeros
  BY <1>1, <1>3, ImageSectors
<1>5. Written(WithOnly(a, S), at, q) = WithOnly(a, S \cup (at + 1 .. at + Len(q)))
  <2>1. OfImage(a, at, q)
    BY <1>1, <1>2, <1>4, SMT DEF OfImage
  <2> QED BY <2>1, InPlace
<1>6. \A g \in FailedWrites(WithOnly(a, S), at, q) : PartOf(g, a)
  BY <1>1, <1>2, <1>4, TornIsPart
<1> QED BY <1>1, <1>5, <1>6 DEF q

-----------------------------------------------------------------------------
(* The invariant *)

(* What may come back after a power loss is known like the file itself. *)
LEMMA SurvivorsTraced ==
  ASSUME TraceInv, NEW f \in Survivors
  PROVE  \/ f = Missing \/ f \in OldFiles
         \/ \E a \in asked : PartOf(f, a)
<1>1. CASE synced
  BY <1>1 DEF Survivors, TraceInv, PartInv
<1>2. CASE ~ synced
  <2>1. f \in before \/ f = file \/ f \in Remnants(file)
    BY <1>2 DEF Survivors
  <2>2. CASE f \in before \/ f = file
    BY <2>2 DEF TraceInv, PartInv
  <2>3. CASE f \in Remnants(file)
    <3>1. CASE file = Missing
      BY <2>3, <3>1 DEF Remnants
    <3>2. CASE file # Missing
      <4>1. PICK a \in asked : PartOf(file, a)
        BY <1>2, <3>2 DEF TraceInv, PartInv
      <4>2. a \in Asks
        BY DEF TraceInv
      <4>3. PartOf(f, a)
        BY <2>3, <3>2, <4>1, <4>2, RemnantsAreParts
      <4> QED BY <4>3
    <3> QED BY <3>1, <3>2
  <2> QED BY <2>1, <2>2, <2>3
<1> QED BY <1>1, <1>2

LEMMA InitInv == Init => CreateInv
<1> SUFFICES ASSUME Init PROVE CreateInv
  OBVIOUS
<1>1. /\ asked = {} /\ made = {} /\ before = {} /\ synced /\ pc = "idle"
      /\ file \in OldFiles
  BY DEF Init
<1>2. TraceInv
  BY <1>1 DEF TraceInv
<1>3. StageInv
  BY <1>1 DEF StageInv
<1>4. MadeInv
  BY <1>1 DEF MadeInv
<1> QED BY <1>2, <1>3, <1>4 DEF CreateInv

(* A step that touches no file leaves it known. *)
LEMMA TraceKept ==
  ASSUME TraceInv, UNCHANGED <<file, before, synced, asked>>
  PROVE  TraceInv'
BY DEF TraceInv, PartInv

(* A step outside the file calls promises nothing but what is asked for. *)
LEMMA StageOver ==
  ASSUME pc' \in {"idle", "open", "cleanup", "done", "failed", "stuck"},
         pc' # "idle" => ask' \in Asks
  PROVE  StageInv'
<1>1. pc' \notin {"length", "mirror", "header", "footer", "table", "sync", "reopen"}
  OBVIOUS
<1> QED BY <1>1 DEF StageInv

(* What a create made stays as long as the file does. *)
LEMMA MadeKept ==
  ASSUME MadeInv, UNCHANGED <<file, synced, made>>,
         made # {} /\ pc' \in {"open", "cleanup"} => existed'
  PROVE  MadeInv'
BY DEF MadeInv

(* A step of an unfinished create that leaves a part of the image. *)
LEMMA PartKept ==
  ASSUME TraceInv, ask \in asked, made = {}, PartOf(file', ask),
         UNCHANGED <<before, synced, asked, made>>
  PROVE  TraceInv' /\ MadeInv'
<1>1. PartInv'
  BY DEF PartInv
<1>2. TraceInv'
  BY <1>1 DEF TraceInv
<1>3. MadeInv'
  BY DEF MadeInv
<1> QED BY <1>2, <1>3

(* A file call that fails half-way. *)
LEMMA FailedCall ==
  ASSUME CreateInv, ask \in asked, made = {}, PartOf(file', ask),
         pc' = "cleanup", UNCHANGED <<before, synced, ask, asked, made>>
  PROVE  CreateInv'
<1>1. TraceInv' /\ MadeInv'
  BY PartKept DEF CreateInv
<1>2. ask' \in Asks
  BY DEF CreateInv, TraceInv
<1>3. StageInv'
  BY <1>2, StageOver
<1> QED BY <1>1, <1>3 DEF CreateInv

(* One that fails with the file as it was. *)
LEMMA RefusedCall ==
  ASSUME CreateInv, ask \in Asks, pc' = "cleanup",
         made # {} => existed',
         UNCHANGED <<file, before, synced, ask, asked, made>>
  PROVE  CreateInv'
<1>1. TraceInv'
  BY TraceKept DEF CreateInv
<1>2. StageInv'
  BY StageOver
<1>3. MadeInv'
  BY MadeKept DEF CreateInv
<1> QED BY <1>1, <1>2, <1>3 DEF CreateInv

(* What is known while the file is being made. *)
LEMMA Making ==
  ASSUME CreateInv,
         pc \in {"length", "mirror", "header", "footer", "table", "sync", "reopen"}
  PROVE  ask \in Asks /\ ask \in asked /\ made = {} /\ TraceInv
BY DEF CreateInv, StageInv

LEMMA CreateStep ==
  ASSUME CreateInv, NEW a \in Asks, Create(a)
  PROVE  CreateInv'
<1>1. TraceInv'
  BY TraceKept DEF CreateInv, Create, disk
<1>2. StageInv'
  BY StageOver DEF Create
<1>3. made # {} => existed'
  BY DEF Create, CreateInv, MadeInv, Opens
<1>4. MadeInv'
  BY <1>3, MadeKept DEF CreateInv, Create, disk
<1> QED BY <1>1, <1>2, <1>4 DEF CreateInv

LEMMA TruncatingStep ==
  ASSUME CreateInv, OpenTruncated
  PROVE  CreateInv'
<1>1. /\ pc = "open" /\ file' = <<>> /\ before' = Survivors /\ synced' = FALSE
      /\ asked' = asked \cup {ask} /\ made' = {} /\ left' = TableSectors(ask)
      /\ pc' = "length" /\ ask' = ask
  BY DEF OpenTruncated, Truncating, Begin
<1>2. ask \in Asks
  BY <1>1 DEF CreateInv, StageInv
<1>3. PartOf(file', ask)
  BY <1>1 DEF PartOf
<1>4. TraceInv'
  <2>1. PartInv'
    BY <1>1, <1>3 DEF PartInv
  <2>2. asked' \subseteq Asks
    BY <1>1, <1>2 DEF CreateInv, TraceInv
  <2>3. \A f \in before' : f = Missing \/ f \in OldFiles \/ \E b \in asked' : PartOf(f, b)
    BY <1>1, SurvivorsTraced DEF CreateInv
  <2> QED BY <2>1, <2>2, <2>3 DEF TraceInv
<1>5. StageInv'
  BY <1>1, <1>2 DEF StageInv
<1>6. MadeInv'
  BY <1>1 DEF MadeInv
<1> QED BY <1>4, <1>5, <1>6 DEF CreateInv

LEMMA LengthStep ==
  ASSUME CreateInv, SetLength
  PROVE  CreateInv'
<1>1. /\ ask \in Asks /\ ask \in asked /\ made = {} /\ TraceInv
      /\ file = <<>> /\ left = TableSectors(ask)
  BY Making DEF SetLength, CreateInv, StageInv
<1>2. CASE /\ file' = Resized(file, FooterAt(ask) + 1)
           /\ pc' = IF ask.kind = "fixed" THEN "footer" ELSE "mirror"
           /\ UNCHANGED <<before, synced, left>>
           /\ Quiet
  <2>1. file' = WithOnly(ask, {})
    BY <1>1, <1>2, Lengthened
  <2>2. TraceInv' /\ MadeInv'
    <3>1. PartOf(file', ask)
      BY <1>1, <2>1, WithOnlyIsPart
    <3> QED BY <1>1, <1>2, <3>1, PartKept DEF Quiet
  <2>3. StageInv'
    <3>1. ask' = ask /\ asked' = asked /\ made' = made /\ left' = left
      BY <1>2 DEF Quiet
    <3>2. CASE ask.kind = "fixed"
      <4>1. pc' = "footer"
        BY <1>2, <3>2
      <4> QED BY <1>1, <2>1, <3>1, <3>2, <4>1 DEF StageInv
    <3>3. CASE ask.kind = "dynamic"
      <4>1. pc' = "mirror"
        BY <1>2, <3>3
      <4> QED BY <1>1, <2>1, <3>1, <3>3, <4>1 DEF StageInv
    <3> QED BY <1>1, <3>2, <3>3, Lengths
  <2> QED BY <2>2, <2>3 DEF CreateInv
<1>3. CASE Failing({file})
  BY <1>1, <1>3, RefusedCall DEF Failing
<1> QED BY <1>2, <1>3 DEF SetLength

LEMMA MirrorStep ==
  ASSUME CreateInv, WriteMirror
  PROVE  CreateInv'
<1> DEFINE q == <<FooterFor(ask)>>
<1>1. /\ ask \in Asks /\ ask \in asked /\ made = {} /\ TraceInv
      /\ ask.kind = "dynamic" /\ file = WithOnly(ask, {})
      /\ left = TableSectors(ask)
  BY Making DEF WriteMirror, Put, CreateInv, StageInv
<1>2. CASE /\ file' = Written(file, 0, q) /\ pc' = "header"
           /\ UNCHANGED <<before, synced, left>> /\ Quiet
  <2>1. file' = WithOnly(ask, {1})
    BY <1>1, <1>2, MirrorWritten
  <2>2. TraceInv' /\ MadeInv'
    <3>1. PartOf(file', ask)
      BY <1>1, <2>1, WithOnlyIsPart
    <3> QED BY <1>1, <1>2, <3>1, PartKept DEF Quiet
  <2>3. StageInv'
    BY <1>1, <1>2, <2>1 DEF StageInv, Quiet
  <2> QED BY <2>2, <2>3 DEF CreateInv
<1>3. CASE Failing(FailedWrites(file, 0, q))
  <2>1. PartOf(file', ask)
    BY <1>1, <1>3, MirrorWritten DEF Failing
  <2> QED BY <1>1, <1>3, <2>1, FailedCall DEF Failing
<1> QED BY <1>2, <1>3 DEF WriteMirror, Put

LEMMA HeaderStep ==
  ASSUME CreateInv, WriteHeader
  PROVE  CreateInv'
<1>1. /\ ask \in Asks /\ ask \in asked /\ made = {} /\ TraceInv
      /\ ask.kind = "dynamic" /\ file = WithOnly(ask, {1})
      /\ left = TableSectors(ask)
  BY Making DEF WriteHeader, Put, CreateInv, StageInv
<1>2. CASE /\ file' = Written(file, HEADER_OFFSET, HeaderFor(ask)) /\ pc' = "footer"
           /\ UNCHANGED <<before, synced, left>> /\ Quiet
  <2>1. file' = WithOnly(ask, 1 .. TableOffset)
    BY <1>1, <1>2, HeaderWritten
  <2>2. TraceInv' /\ MadeInv'
    <3>1. PartOf(file', ask)
      BY <1>1, <2>1, WithOnlyIsPart
    <3> QED BY <1>1, <1>2, <3>1, PartKept DEF Quiet
  <2>3. StageInv'
    <3>1. ask.kind # "fixed" /\ ask' = ask
      BY <1>1, <1>2 DEF Quiet
    <3> QED BY <1>1, <1>2, <2>1, <3>1 DEF StageInv, Quiet
  <2> QED BY <2>2, <2>3 DEF CreateInv
<1>3. CASE Failing(FailedWrites(file, HEADER_OFFSET, HeaderFor(ask)))
  <2>1. PartOf(file', ask)
    BY <1>1, <1>3, HeaderWritten DEF Failing
  <2> QED BY <1>1, <1>3, <2>1, FailedCall DEF Failing
<1> QED BY <1>2, <1>3 DEF WriteHeader, Put

(* A fixed image is whole with its footer; a dynamic one lacks the BAT. *)
LEMMA FooterStep ==
  ASSUME CreateInv, WriteFooter
  PROVE  CreateInv'
<1> DEFINE q == <<FooterFor(ask)>>
           S == IF ask.kind = "fixed" THEN {} ELSE 1 .. TableOffset
<1>1. /\ ask \in Asks /\ ask \in asked /\ made = {} /\ TraceInv
      /\ file = WithOnly(ask, S) /\ left = TableSectors(ask)
  BY Making DEF WriteFooter, Put, CreateInv, StageInv
<1>2. CASE /\ file' = Written(file, FooterAt(ask), q)
           /\ pc' = IF ask.kind = "fixed" THEN "sync" ELSE "table"
           /\ UNCHANGED <<before, synced, left>> /\ Quiet
  <2>1. file' = WithOnly(ask, S \cup {FooterAt(ask) + 1})
    <3> HIDE DEF S
    <3> QED BY <1>1, <1>2, FooterWritten
  <2>2. TraceInv' /\ MadeInv'
    <3>1. PartOf(file', ask)
      BY <1>1, <2>1, WithOnlyIsPart
    <3> QED BY <1>1, <1>2, <3>1, PartKept DEF Quiet
  <2>3. ask' = ask /\ asked' = asked /\ made' = made /\ left' = left
    BY <1>2 DEF Quiet
  <2>4. CASE ask.kind = "fixed"
    <3>1. pc' = "sync"
      BY <1>2, <2>4
    <3>2. \A s \in 1 .. FooterAt(ask) + 1 :
            s \in {FooterAt(ask) + 1} \/ Image(ask)[s] = Zeros
      <4>1. \A s \in 1 .. FooterAt(ask) + 1 : s = FooterAt(ask) + 1 \/ s \in 1 .. FooterAt(ask)
        BY <1>1, Lengths, SMT
      <4> QED BY <1>1, <2>4, <4>1, ImageSectors
    <3>3. S \cup {FooterAt(ask) + 1} = {FooterAt(ask) + 1}
      BY <2>4
    <3>4. file' = Image(ask)
      BY <1>1, <2>1, <3>2, <3>3, WithOnlyIsImage
    <3>5. StageInv'
      BY <1>1, <2>3, <3>1, <3>4 DEF StageInv
    <3> QED BY <2>2, <3>5 DEF CreateInv
  <2>5. CASE ask.kind = "dynamic"
    <3>1. pc' = "table" /\ S = 1 .. TableOffset
      BY <1>2, <2>5
    <3>2. TableAt' = TableOffset /\ left \in 0 .. TableSectors(ask)
      BY <1>1, <2>3, Lengths, SMT DEF TableAt, TableOffset
    <3>3. file' = WithOnly(ask', (1 .. TableAt') \cup {FooterAt(ask') + 1})
      BY <2>1, <2>3, <3>1, <3>2
    <3>4. StageInv'
      BY <1>1, <2>3, <2>5, <3>1, <3>2, <3>3 DEF StageInv
    <3> QED BY <2>2, <3>4 DEF CreateInv
  <2> QED BY <1>1, <2>4, <2>5, Lengths
<1>3. CASE Failing(FailedWrites(file, FooterAt(ask), q))
  <2>1. PartOf(file', ask)
    <3> HIDE DEF S
    <3> QED BY <1>1, <1>3, FooterWritten DEF Failing
  <2> QED BY <1>1, <1>3, <2>1, FailedCall DEF Failing
<1> QED BY <1>2, <1>3 DEF WriteFooter, Put

(* A chunk of the BAT, where the last one ended. *)
LEMMA TableStep ==
  ASSUME CreateInv, WriteTable
  PROVE  CreateInv'
<1> DEFINE n == Smaller(CHUNK_SECTORS, left)
           S == (1 .. TableAt) \cup {FooterAt(ask) + 1}
<1>1. /\ ask \in Asks /\ ask \in asked /\ made = {} /\ TraceInv
      /\ ask.kind = "dynamic" /\ left \in 0 .. TableSectors(ask)
      /\ file = WithOnly(ask, S) /\ left > 0 /\ pc = "table"
  BY Making DEF WriteTable, WriteChunk, CreateInv, StageInv
<1>2. /\ TableSectors(ask) \in Nat /\ FooterAt(ask) = 3 + TableSectors(ask)
  BY <1>1, Lengths
<1>3. /\ n \in Nat /\ n <= left
  <2>1. CHUNK_SECTORS \in Nat
    BY CreateAssumption
  <2> QED BY <1>1, <1>2, <2>1, SMT DEF Smaller
<1>4. TableAt \in Nat /\ 3 <= TableAt /\ TableAt + n <= FooterAt(ask)
  <2> HIDE DEF n
  <2> QED BY <1>1, <1>2, <1>3, SMT DEF TableAt, TableOffset
<1>5. CASE /\ file' = Written(file, TableAt, Chunk(n))
           /\ left' = left - Smaller(n, left)
           /\ UNCHANGED <<before, synced, pc>> /\ Quiet
  <2>1. file' = WithOnly(ask, S \cup (TableAt + 1 .. TableAt + n))
    <3> HIDE DEF S, n
    <3> QED BY <1>1, <1>3, <1>4, <1>5, ChunkWritten
  <2>2. TraceInv' /\ MadeInv'
    <3>1. PartOf(file', ask)
      BY <1>1, <2>1, WithOnlyIsPart
    <3> QED BY <1>1, <1>5, <3>1, PartKept DEF Quiet
  <2>3. ask' = ask /\ asked' = asked /\ made' = made /\ pc' = "table"
    BY <1>1, <1>5 DEF Quiet
  <2>4. left' = left - n
    <3> HIDE DEF n
    <3> QED BY <1>1, <1>2, <1>3, <1>5, SMT DEF Smaller
  <2>5. left' \in 0 .. TableSectors(ask) /\ TableAt' = TableAt + n
    <3> HIDE DEF n
    <3> QED BY <1>1, <1>2, <1>3, <2>3, <2>4, SMT DEF TableAt, TableOffset
  <2>6. S \cup (TableAt + 1 .. TableAt + n) = (1 .. TableAt') \cup {FooterAt(ask) + 1}
    <3> HIDE DEF n
    <3>1. (1 .. TableAt) \cup (TableAt + 1 .. TableAt + n) = 1 .. TableAt + n
      BY <1>3, <1>4, SMT
    <3> QED BY <2>5, <3>1
  <2>7. file' = WithOnly(ask', (1 .. TableAt') \cup {FooterAt(ask') + 1})
    BY <2>1, <2>3, <2>6
  <2>8. StageInv'
    <3> HIDE DEF n, S
    <3> QED BY <1>1, <2>3, <2>5, <2>7 DEF StageInv
  <2> QED BY <2>2, <2>8 DEF CreateInv
<1>6. CASE Failing(FailedWrites(file, TableAt, Chunk(n)))
  <2>1. PartOf(file', ask)
    <3> HIDE DEF S, n
    <3> QED BY <1>1, <1>3, <1>4, <1>6, ChunkWritten DEF Failing
  <2> QED BY <1>1, <1>6, <2>1, FailedCall DEF Failing
<1> QED BY <1>5, <1>6 DEF WriteTable, WriteChunk

(* With all of the BAT written, the image is whole. *)
LEMMA WrittenStep ==
  ASSUME CreateInv, TableWritten
  PROVE  CreateInv'
<1> DEFINE S == (1 .. TableAt) \cup {FooterAt(ask) + 1}
<1>1. /\ ask \in Asks /\ ask \in asked /\ made = {} /\ TraceInv
      /\ ask.kind = "dynamic" /\ file = WithOnly(ask, S) /\ left = 0
  BY Making DEF TableWritten, CreateInv, StageInv
<1>2. file = Image(ask)
  <2>1. TableAt = FooterAt(ask)
    BY <1>1, Lengths, SMT DEF TableAt, TableOffset
  <2>2. \A s \in 1 .. FooterAt(ask) + 1 : s \in S
    BY <1>1, <2>1, Lengths, SMT
  <2> HIDE DEF S
  <2> QED BY <1>1, <2>2, WithOnlyIsImage
<1>3. /\ UNCHANGED <<file, before, synced, ask, asked, made>> /\ pc' = "sync"
  BY DEF TableWritten, disk, Quiet
<1>4. TraceInv'
  BY <1>1, <1>3, TraceKept
<1>5. MadeInv'
  BY <1>1, <1>3 DEF MadeInv
<1>6. StageInv'
  <2> HIDE DEF S
  <2> QED BY <1>1, <1>2, <1>3 DEF StageInv
<1> QED BY <1>4, <1>5, <1>6 DEF CreateInv

LEMMA SyncStep ==
  ASSUME CreateInv, Sync
  PROVE  CreateInv'
<1>1. /\ ask \in Asks /\ ask \in asked /\ made = {} /\ TraceInv
      /\ file = Image(ask)
  BY Making DEF Sync, CreateInv, StageInv
<1>2. CASE /\ synced' = TRUE /\ before' = {} /\ pc' = "reopen"
           /\ UNCHANGED <<file, left>> /\ Quiet
  <2>1. ask' = ask /\ asked' = asked /\ made' = made
    BY <1>2 DEF Quiet
  <2>2. TraceInv'
    BY <1>1, <1>2, <2>1 DEF TraceInv, PartInv
  <2>3. MadeInv'
    BY <1>1, <2>1 DEF MadeInv
  <2>4. StageInv'
    BY <1>1, <1>2, <2>1 DEF StageInv
  <2> QED BY <2>2, <2>3, <2>4 DEF CreateInv
<1>3. CASE Failing({file})
  BY <1>1, <1>3, RefusedCall DEF Failing
<1> QED BY <1>2, <1>3 DEF Sync

LEMMA ReopenStep ==
  ASSUME CreateInv, Reopen
  PROVE  CreateInv'
<1>1. /\ ask \in Asks /\ ask \in asked /\ made = {} /\ TraceInv
      /\ file = Image(ask) /\ synced
  BY Making DEF Reopen, CreateInv, StageInv
<1>2. CASE /\ pc' = IF Opens(file) THEN "done" ELSE "cleanup"
           /\ made' = IF Opens(file) THEN {ask} ELSE {}
           /\ UNCHANGED <<disk, left, ask, existed, asked, bounds>>
  <2>1. UNCHANGED <<file, before, synced, ask, asked>>
    BY <1>2 DEF disk
  <2>2. TraceInv'
    BY <1>1, <2>1, TraceKept
  <2>3. pc' \in {"done", "cleanup"} /\ ask' \in Asks
    BY <1>1, <1>2
  <2>4. StageInv'
    BY <2>3, StageOver
  <2>5. (made' = {ask} /\ Opens(file) /\ pc' = "done") \/ made' = {}
    BY <1>2
  <2>6. MadeInv'
    BY <1>1, <2>1, <2>5 DEF MadeInv
  <2> QED BY <2>2, <2>4, <2>6 DEF CreateInv
<1>3. CASE Failing({file})
  BY <1>1, <1>3, RefusedCall DEF Failing
<1> QED BY <1>2, <1>3 DEF Reopen

(* The removal: only of a file that was not there before, so not of one a
   create before this one made.                                            *)
LEMMA CleanUpStep ==
  ASSUME CreateInv, CleanUp
  PROVE  CreateInv'
<1>1. /\ pc = "cleanup" /\ pc' = "failed" /\ UNCHANGED <<ask, asked, made, existed>>
  BY DEF CleanUp, Quiet
<1>2. StageInv'
  BY <1>1, StageOver DEF CreateInv, StageInv
<1>3. CASE ~ existed /\ file # Missing
  <2>1. before' = Survivors /\ file' = Missing /\ synced' = FALSE
    BY <1>3 DEF CleanUp, Remove
  <2>2. \A f \in before' : f = Missing \/ f \in OldFiles \/ \E a \in asked' : PartOf(f, a)
    BY <1>1, <2>1, SurvivorsTraced DEF CreateInv
  <2>3. TraceInv'
    BY <1>1, <2>1, <2>2 DEF TraceInv, PartInv, CreateInv
  <2>4. MadeInv'
    BY <1>1, <1>3 DEF MadeInv, CreateInv
  <2> QED BY <1>2, <2>3, <2>4 DEF CreateInv
<1>4. CASE ~ (~ existed /\ file # Missing)
  <2>1. UNCHANGED <<file, before, synced>>
    BY <1>4 DEF CleanUp, disk
  <2>2. TraceInv'
    BY <1>1, <2>1, TraceKept DEF CreateInv
  <2>3. MadeInv'
    BY <1>1, <2>1, MadeKept DEF CreateInv
  <2> QED BY <1>2, <2>2, <2>3 DEF CreateInv
<1> QED BY <1>3, <1>4

(* A step that ends the command and touches no file. *)
LEMMA EndingStep ==
  ASSUME CreateInv, RemoveFails \/ Report \/ Kill
  PROVE  CreateInv'
<1>1. /\ UNCHANGED <<file, before, synced, asked, made>>
      /\ \/ pc' = "idle"
         \/ pc = "cleanup" /\ pc' = "stuck" /\ ask' = ask
  BY DEF RemoveFails, Report, Kill, Idle, disk, bounds
<1>2. TraceInv'
  BY <1>1, TraceKept DEF CreateInv
<1>3. StageInv'
  BY <1>1, StageOver DEF CreateInv, StageInv
<1>4. MadeInv'
  BY <1>1, MadeKept DEF CreateInv
<1> QED BY <1>2, <1>3, <1>4 DEF CreateInv

LEMMA PowerLossStep ==
  ASSUME CreateInv, PowerLoss
  PROVE  CreateInv'
<1>1. /\ file' \in Survivors /\ before' = {} /\ synced' = TRUE
      /\ asked' = asked /\ made' = made /\ pc' = "idle"
  BY DEF PowerLoss, Idle
<1>2. TraceInv'
  <2>1. file' \in OldFiles \/ PartInv'
    <3>1. file' = Missing \/ file' \in OldFiles \/ \E a \in asked : PartOf(file', a)
      BY <1>1, SurvivorsTraced DEF CreateInv
    <3> QED BY <1>1, <3>1 DEF PartInv
  <2> QED BY <1>1, <2>1 DEF TraceInv, CreateInv
<1>3. StageInv'
  BY <1>1, StageOver
<1>4. MadeInv'
  BY <1>1 DEF MadeInv, CreateInv, Survivors
<1> QED BY <1>2, <1>3, <1>4 DEF CreateInv

LEMMA NextInv ==
  ASSUME CreateInv, [Next]_vars
  PROVE  CreateInv'
<1>1. CASE \E a \in Asks : Create(a)
  BY <1>1, CreateStep
<1>2. CASE RefuseTable
  <2>1. /\ pc = "open" /\ pc' = "cleanup"
        /\ UNCHANGED <<file, before, synced, ask, asked, made, existed>>
    BY <1>2 DEF RefuseTable, disk, Quiet
  <2>2. ask \in Asks /\ (made # {} => existed')
    BY <2>1 DEF CreateInv, StageInv, MadeInv
  <2> QED BY <2>1, <2>2, RefusedCall
<1>3. CASE OpenTruncated
  BY <1>3, TruncatingStep
<1>4. CASE OpenRefused
  <2>1. /\ pc = "open" /\ pc' = "cleanup"
        /\ UNCHANGED <<file, before, synced, ask, asked, made, existed>>
    BY <1>4 DEF OpenRefused, Truncating, Failing
  <2>2. ask \in Asks /\ (made # {} => existed')
    BY <2>1 DEF CreateInv, StageInv, MadeInv
  <2> QED BY <2>1, <2>2, RefusedCall
<1>5. CASE RefuseOverflow
  <2>1. /\ pc = "length" /\ pc' = "cleanup"
        /\ UNCHANGED <<file, before, synced, ask, asked, made>>
    BY <1>5 DEF RefuseOverflow, disk, Quiet
  <2>2. ask \in Asks /\ made = {}
    BY <2>1, Making
  <2> QED BY <2>1, <2>2, RefusedCall
<1>6. CASE SetLength
  BY <1>6, LengthStep
<1>7. CASE WriteMirror
  BY <1>7, MirrorStep
<1>8. CASE WriteHeader
  BY <1>8, HeaderStep
<1>9. CASE WriteFooter
  BY <1>9, FooterStep
<1>10. CASE WriteTable
  BY <1>10, TableStep
<1>11. CASE TableWritten
  BY <1>11, WrittenStep
<1>12. CASE Sync
  BY <1>12, SyncStep
<1>13. CASE Reopen
  BY <1>13, ReopenStep
<1>14. CASE CleanUp
  BY <1>14, CleanUpStep
<1>15. CASE RemoveFails \/ Report \/ Kill
  BY <1>15, EndingStep
<1>16. CASE PowerLoss
  BY <1>16, PowerLossStep
<1>17. CASE UNCHANGED vars
  BY <1>17 DEF CreateInv, TraceInv, PartInv, StageInv, MadeInv, TableAt, vars, disk
<1> QED
  BY <1>1, <1>2, <1>3, <1>4, <1>5, <1>6, <1>7, <1>8, <1>9, <1>10, <1>11, <1>12,
     <1>13, <1>14, <1>15, <1>16, <1>17 DEF Next, Proceed

(* At every moment the path holds what it held before, or a part of an image
   that was asked for, as far as the command has come with it.             *)
THEOREM CreateStaysKnown == Spec => []CreateInv
<1>1. CreateInv /\ [Next]_vars => CreateInv'
  BY NextInv
<1> QED BY InitInv, <1>1, PTL DEF Spec

-----------------------------------------------------------------------------
(* What a create promises *)

(* Whatever a failure, a kill or a power loss leaves at the path is the file
   that was there, or nothing open_inner takes, or an empty disk of a kind and
   size that was asked for.                                                *)
THEOREM NothingHalfMadeOpens == Spec => []OpensAsAsked
<1>1. CreateInv => OpensAsAsked
  <2> SUFFICES ASSUME CreateInv, NEW f \in Survivors, Opens(f)
               PROVE  f \in OldFiles \/ \E a \in asked : IsEmptyDisk(f, a)
    BY DEF OpensAsAsked
  <2>1. f # Missing
    BY DEF Opens
  <2>2. CASE \E a \in asked : PartOf(f, a)
    <3>1. PICK a \in asked : PartOf(f, a)
      BY <2>2
    <3>2. a \in Asks
      BY DEF CreateInv, TraceInv
    <3>3. IsEmptyDisk(f, a)
      BY <3>1, <3>2, PartOpensEmpty
    <3> QED BY <3>3
  <2> QED BY <2>1, <2>2, SurvivorsTraced DEF CreateInv
<1> QED BY CreateStaysKnown, <1>1, PTL

(* A create that succeeded has left the whole image, footers and BAT, where no
   power loss can touch it, and open_inner takes it.                       *)
THEOREM WhatIsMadeIsWhole == Spec => []CreatedIsWhole
<1>1. CreateInv => CreatedIsWhole
  BY DEF CreateInv, MadeInv, CreatedIsWhole, Survivors
<1> QED BY CreateStaysKnown, <1>1, PTL

(* A create that failed leaves nothing where there was nothing: the clean-up is
   the only way to fail, and what it removes stays removed till it reports. *)
THEOREM NothingIsLeft == Spec => []NothingLeft
<1>1. Init => NothingLeft
  BY DEF Init, NothingLeft
<1>2. NothingLeft /\ [Next]_vars => NothingLeft'
  <2> SUFFICES ASSUME NothingLeft, [Next]_vars, pc' = "failed"
               PROVE  ~ existed' => file' = Missing
    BY DEF NothingLeft
  <2>1. CASE CleanUp
    BY <2>1 DEF CleanUp, Remove, Quiet, disk
  <2>2. CASE UNCHANGED vars
    BY <2>2 DEF NothingLeft, vars, disk
  <2>3. CASE Next /\ ~ CleanUp
    <3>1. pc' # "failed"
      BY <2>3
      DEF Next, Proceed, Create, RefuseTable, OpenTruncated, OpenRefused, Begin,
          RefuseOverflow, SetLength, WriteMirror, WriteHeader, WriteFooter, Put,
          WriteTable, WriteChunk, TableWritten, Sync, Reopen, RemoveFails, Report,
          Kill, PowerLoss, Idle, Failing
    <3> QED BY <3>1
  <2> QED BY <2>1, <2>2, <2>3
<1> QED BY <1>1, <1>2, PTL DEF Spec

=============================================================================
