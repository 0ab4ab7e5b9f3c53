-------------------------- MODULE ParentChainProofs --------------------------
(***************************************************************************)
(* For any directory, any change to it and any images: opening a chain     *)
(* never holds more files than the depth and one, an opened chain is the   *)
(* one the images declare, and a read gives each sector from the nearest   *)
(* layer that has it.                                                      *)
(***************************************************************************)
EXTENDS ParentChain, TLAPS

LEMMA InitIInv == Init => IInv
<1> SUFFICES ASSUME Init PROVE IInv
  OBVIOUS
<1> USE DEF Init
<1>1. TypeOK
  BY ChainAssumption DEF TypeOK, Steps, NoRead, Reads
<1>2. ChainInv
  BY DEF ChainInv
<1>3. read.status = "none"
  BY DEF NoRead
<1>4. ReadInv /\ ReadsNearest /\ OnlyCallerRefused
  BY <1>3 DEF ReadInv, ReadsNearest, OnlyCallerRefused
<1> QED BY <1>1, <1>2, <1>4 DEF IInv

(* Entering a layer: the depth goes down as the chain grows. *)
LEMMA EnterIInv ==
  ASSUME IInv, NEW x \in Images, NEW d,
         Enter(x, d), owning_path' \in BOOLEAN,
         UNCHANGED <<dir, read, changes>>,
         \/ layers = <<>> /\ d = MAX_PARENT_DEPTH /\ step = "closed"
         \/ step = "device" /\ d = depth_remaining - 1
  PROVE  IInv'
<1> USE DEF IInv
<1>0. MAX_PARENT_DEPTH \in Nat \ {0}
  BY ChainAssumption
<1>1. /\ layers' = Append(layers, x) /\ depth_remaining' = d /\ step' = "parse"
      /\ layers \in Seq(Images)
  BY DEF Enter, TypeOK
<1>2. /\ layers' \in Seq(Images) /\ Len(layers') = Len(layers) + 1
      /\ layers' # <<>>
      /\ \A i \in 1 .. Len(layers) : layers'[i] = layers[i]
      /\ Len(layers) \in Nat
  BY <1>1
<1>3. read = NoRead /\ read.status = "none"
  BY DEF TypeOK, NoRead
<1>4. TypeOK'
  <2>1. d \in 0 .. MAX_PARENT_DEPTH /\ d + Len(layers') = MAX_PARENT_DEPTH + 1
    <3>1. CASE layers = <<>> /\ d = MAX_PARENT_DEPTH
      BY <1>0, <1>2, <3>1
    <3>2. CASE step = "device" /\ d = depth_remaining - 1
      <4>1. layers # <<>> /\ depth_remaining > 0
        BY <3>2 DEF TypeOK, ChainInv
      <4>2. depth_remaining \in 0 .. MAX_PARENT_DEPTH
            /\ depth_remaining + Len(layers) = MAX_PARENT_DEPTH + 1
        BY <4>1 DEF TypeOK
      <4> QED BY <1>0, <1>2, <3>2, <4>1, <4>2
    <3> QED BY <3>1, <3>2
  <2> QED BY <1>1, <1>2, <1>3, <2>1 DEF TypeOK, Steps
<1>5. ChainInv'
  <2>1. \A i \in 1 .. Len(layers) : layers[i].kind = "differencing"
    <3>1. CASE layers = <<>>
      BY <3>1
    <3>2. CASE step = "device"
      <4>1. \A i \in 1 .. Len(layers) - 1 : layers[i].kind = "differencing"
        BY DEF ChainInv
      <4>2. layers[Len(layers)].kind = "differencing"
        BY <3>2 DEF ChainInv, Last
      <4> QED BY <1>2, <4>1, <4>2
    <3> QED BY <3>1, <3>2
  <2>2. \A i \in 1 .. Len(layers') - 1 : layers'[i].kind = "differencing"
    BY <1>2, <2>1
  <2> QED BY <1>1, <2>2 DEF ChainInv
<1>6. (ReadInv /\ ReadsNearest /\ OnlyCallerRefused)'
  BY <1>3 DEF ReadInv, ReadsNearest, OnlyCallerRefused
<1> QED BY <1>4, <1>5, <1>6

(* A step of the opener that leaves the chain as it is. *)
LEMMA OpenerIInv ==
  ASSUME IInv,
         TooDeep \/ Corrupt \/ NoPathToParent \/ NameParent \/ EndOfChain
           \/ ParentMissing \/ ParentExists \/ CheckIdentity
  PROVE  IInv'
<1> USE DEF IInv
<1>1. UNCHANGED <<dir, layers, depth_remaining, owning_path, read, changes>>
  BY DEF TooDeep, Corrupt, NoPathToParent, NameParent, EndOfChain,
         ParentMissing, ParentExists, CheckIdentity, GiveUp
<1>2. step \in {"parse", "exists", "device", "identity"}
  BY DEF TooDeep, Corrupt, NoPathToParent, NameParent, EndOfChain,
         ParentMissing, ParentExists, CheckIdentity
<1>3. step' \in {"failed", "exists", "device", "identity", "opened"}
  BY DEF TooDeep, Corrupt, NoPathToParent, NameParent, EndOfChain,
         ParentMissing, ParentExists, CheckIdentity, GiveUp
<1>4. read = NoRead /\ read.status = "none" /\ layers # <<>>
  BY <1>2 DEF TypeOK, NoRead
<1>5. TypeOK'
  BY <1>1, <1>3, <1>4 DEF TypeOK, Steps
<1>6. ChainInv'
  <2>1. CASE TooDeep \/ Corrupt \/ NoPathToParent \/ ParentMissing
    BY <1>1, <2>1 DEF ChainInv, TooDeep, Corrupt, NoPathToParent,
                      ParentMissing, GiveUp
  <2>2. CASE NameParent
    BY <1>1, <2>2 DEF ChainInv, NameParent, Last
  <2>3. CASE EndOfChain
    BY <1>1, <2>3 DEF ChainInv, EndOfChain, Last
  <2>4. CASE ParentExists
    BY <1>1, <2>4 DEF ChainInv, ParentExists, Last
  <2>5. CASE CheckIdentity
    BY <1>1, <2>5 DEF ChainInv, CheckIdentity, IsParent, Last
  <2> QED BY <2>1, <2>2, <2>3, <2>4, <2>5
<1>7. (ReadInv /\ ReadsNearest /\ OnlyCallerRefused)'
  BY <1>1, <1>4 DEF ReadInv, ReadsNearest, OnlyCallerRefused
<1> QED BY <1>5, <1>6, <1>7

(* A read: the chain stays, the call goes down a layer or returns. *)
LEMMA ReadIInv ==
  ASSUME IInv, ReadAt \/ Reading
  PROVE  IInv'
<1> USE DEF IInv
<1>1. UNCHANGED <<dir, opener, changes>> /\ step = "opened"
  BY DEF ReadAt, Reading, OutOfBounds, Hit, Hole, Defer, Return, Pending
<1>2. UNCHANGED <<dir, step, layers, depth_remaining, owning_path, changes>>
  BY <1>1 DEF opener
<1>3. /\ layers \in Seq(Images) /\ Len(layers) \in Nat /\ 1 <= Len(layers)
      /\ \A i \in 1 .. Len(layers) :
           /\ layers[i] \in Images /\ layers[i].size \in Nat
           /\ layers[i].held \subseteq 0 .. layers[i].size - 1
  BY <1>1, ChainAssumption DEF TypeOK
<1>4. ChainInv'
  BY <1>2 DEF ChainInv, Last
<1>5. ASSUME read' \in Reads, read'.layer \in 1 .. Len(layers),
             read'.from <= read'.sector, read'.sector < read'.to
      PROVE  TypeOK'
  BY <1>1, <1>2, <1>5 DEF TypeOK
<1>6. CASE ReadAt
  <2>1. PICK s \in 0 .. layers[1].size :
          \E from \in 0 .. s, to \in s + 1 .. layers[1].size + 1 :
            read' = [status |-> "pending", layer |-> 1, from |-> from,
                     to |-> to, sector |-> s, found |-> None]
    BY <1>6 DEF ReadAt
  <2>2. PICK from \in 0 .. s, to \in s + 1 .. layers[1].size + 1 :
          read' = [status |-> "pending", layer |-> 1, from |-> from,
                   to |-> to, sector |-> s, found |-> None]
    BY <2>1
  <2>3. /\ read'.status = "pending" /\ read'.layer = 1 /\ read'.from = from
        /\ read'.to = to /\ read'.sector = s
    BY <2>2
  <2>4. layers[1].size \in Nat
    BY <1>3
  <2>5. s \in Nat /\ from \in Nat /\ to \in Nat /\ from <= s /\ s < to
    BY <2>4
  <2>6. read' \in Reads
    BY <2>2, <2>5 DEF Reads
  <2>7. TypeOK'
    BY <1>3, <1>5, <2>3, <2>5, <2>6
  <2>8. (ReadInv /\ ReadsNearest /\ OnlyCallerRefused)'
    BY <2>3 DEF ReadInv, ReadsNearest, OnlyCallerRefused
  <2> QED BY <1>4, <2>7, <2>8
<1>7. CASE Reading
  <2>1. /\ read.status = "pending" /\ read \in Reads
        /\ read.layer \in 1 .. Len(layers)
        /\ read.from <= read.sector /\ read.sector < read.to
        /\ read.layer > 1 => read.to <= layers[read.layer].size
        /\ \A j \in 1 .. read.layer - 1 :
             read.sector \notin layers[j].held /\ read.sector < layers[j].size
    BY <1>7 DEF Reading, OutOfBounds, Hit, Hole, Defer, Pending, TypeOK, ReadInv
  <2>2. /\ read.from \in Nat /\ read.to \in Nat /\ read.sector \in Nat
        /\ read.layer \in Nat
    BY <2>1 DEF Reads
  <2> DEFINE layer == read.layer
             sector == read.sector
  <2>3. ASSUME NEW st \in {"given", "refused"}, NEW f \in Nat \cup {None},
               Return(st, f)
        PROVE  /\ TypeOK' /\ ReadInv'
               /\ read'.status = st /\ read'.found = f /\ read'.layer = layer
               /\ read'.to = read.to /\ read'.sector = sector
    <3>1. read' = [read EXCEPT !.status = st, !.found = f]
      BY <2>3 DEF Return
    <3>2. read' = [status |-> st, layer |-> read.layer, from |-> read.from,
                   to |-> read.to, sector |-> read.sector, found |-> f]
      BY <2>1, <3>1 DEF Reads
    <3>3. /\ read'.status = st /\ read'.layer = read.layer
          /\ read'.from = read.from /\ read'.to = read.to
          /\ read'.sector = read.sector /\ read'.found = f
      BY <3>2
    <3>4. read' \in Reads
      BY <2>2, <3>2 DEF Reads
    <3>5. TypeOK'
      BY <1>5, <2>1, <3>3, <3>4
    <3>6. ReadInv'
      BY <1>2, <2>1, <3>3 DEF ReadInv
    <3> QED BY <3>3, <3>5, <3>6
  <2>4. CASE OutOfBounds
    <3>1. Return("refused", None) /\ layers[layer].size < read.to
      BY <1>3, <2>1, <2>2, <2>4 DEF OutOfBounds, InBounds, Layer
    <3>2. /\ TypeOK' /\ ReadInv'
          /\ read'.status = "refused" /\ read'.layer = layer
          /\ read'.to = read.to
      BY <2>3, <3>1
    <3>3. layer = 1
      BY <1>3, <2>1, <2>2, <3>1
    <3>4. (ReadsNearest /\ OnlyCallerRefused)'
      BY <1>2, <3>1, <3>2, <3>3 DEF ReadsNearest, OnlyCallerRefused
    <3> QED BY <1>4, <3>2, <3>4
  <2>5. CASE Hit
    <3>1. /\ Return("given", layer) /\ read.to <= layers[layer].size
          /\ sector \in layers[layer].held
      BY <2>5 DEF Hit, InBounds, Layer
    <3>2. /\ TypeOK' /\ ReadInv'
          /\ read'.status = "given" /\ read'.found = layer
          /\ read'.sector = sector
      BY <2>2, <2>3, <3>1
    <3>3. NearestHas(sector, layer)
      <4>1. sector < layers[layer].size
        BY <1>3, <2>1, <2>2, <3>1
      <4>2. \A j \in 1 .. layer : sector < layers[j].size
        BY <2>1, <2>2, <4>1
      <4> QED BY <2>1, <3>1, <4>2 DEF NearestHas, Reaches
    <3>4. layer # None
      BY <2>2, ChainAssumption
    <3>5. (ReadsNearest /\ OnlyCallerRefused)'
      BY <1>2, <3>2, <3>3, <3>4
      DEF ReadsNearest, OnlyCallerRefused, NearestHas, Reaches
    <3> QED BY <1>4, <3>2, <3>5
  <2>6. CASE Hole
    <3>1. /\ Return("given", None) /\ sector \notin layers[layer].held
          /\ layer < Len(layers) => sector >= layers[layer + 1].size
      BY <2>6 DEF Hole, PastParent, Layer, ParentSize
    <3>2. /\ TypeOK' /\ ReadInv'
          /\ read'.status = "given" /\ read'.found = None
          /\ read'.sector = sector
      <4>1. None \in Nat \cup {None} /\ "given" \in {"given", "refused"}
        OBVIOUS
      <4>2. Return("given", None)
        BY <3>1
      <4> HIDE DEF layer, sector
      <4> QED BY <2>3, <4>1, <4>2
    <3>3. ASSUME NEW i \in 1 .. Len(layers) PROVE ~ NearestHas(sector, i)
      <4>1. CASE i <= layer
        BY <1>3, <2>1, <2>2, <3>1, <4>1 DEF NearestHas
      <4>2. CASE i > layer
        <5>1. layer + 1 \in 1 .. i /\ layer < Len(layers)
          BY <1>3, <2>2, <4>2
        <5>2. ~ (sector < layers[layer + 1].size)
          <6>1. layers[layer + 1].size \in Nat
            BY <1>3, <5>1
          <6> QED BY <2>2, <3>1, <5>1, <6>1
        <5> QED BY <5>1, <5>2 DEF NearestHas, Reaches
      <4> QED BY <1>3, <2>2, <4>1, <4>2
    <3>4. (ReadsNearest /\ OnlyCallerRefused)'
      BY <1>2, <3>2, <3>3
      DEF ReadsNearest, OnlyCallerRefused, NearestHas, Reaches
    <3> QED BY <1>4, <3>2, <3>4
  <2>7. CASE Defer
    <3>1. /\ layer < Len(layers)
          /\ ~ (sector >= layers[layer + 1].size)
          /\ sector \notin layers[layer].held /\ read.to <= layers[layer].size
      BY <1>3, <2>1, <2>2, <2>7
      DEF Defer, PastParent, ParentSize, Layer, InBounds
    <3> DEFINE psize == layers[layer + 1].size
    <3>2. layer + 1 \in 1 .. Len(layers) /\ psize \in Nat /\ sector < psize
      <4>1. layer + 1 \in 1 .. Len(layers)
        BY <1>3, <2>1, <2>2, <3>1
      <4>2. psize \in Nat
        BY <1>3, <4>1
      <4> QED BY <2>2, <3>1, <4>1, <4>2
    <3>3. PICK from \in read.from .. read.sector,
               to \in read.sector + 1 .. read.to :
            read' = [read EXCEPT !.layer = read.layer + 1, !.from = from,
                                 !.to = CutAtParent(to)]
      BY <2>7 DEF Defer
    <3>4. /\ from \in Nat /\ to \in Nat /\ from <= sector /\ sector < to
          /\ CutAtParent(to) \in Nat /\ CutAtParent(to) <= psize
          /\ sector < CutAtParent(to)
      <4>1. from \in Nat /\ to \in Nat /\ from <= sector /\ sector < to
        <5> HIDE DEF psize
        <5> QED BY <2>2
      <4>2. CutAtParent(to) = IF to > psize THEN psize ELSE to
        BY DEF CutAtParent, ParentSize
      <4> HIDE DEF psize
      <4> QED BY <3>2, <4>1, <4>2
    <3>5. read' = [status |-> "pending", layer |-> layer + 1, from |-> from,
                   to |-> CutAtParent(to), sector |-> sector,
                   found |-> read.found]
      BY <2>1, <3>3 DEF Reads
    <3>6. /\ read'.status = "pending" /\ read'.layer = layer + 1
          /\ read'.from = from /\ read'.to = CutAtParent(to)
          /\ read'.sector = sector
      BY <3>5
    <3>7. read.found \in Nat \cup {None}
      BY <2>1 DEF Reads
    <3>8. read' \in Reads
      BY <2>2, <3>4, <3>5, <3>7 DEF Reads
    <3>9. TypeOK'
      BY <1>5, <3>2, <3>4, <3>6, <3>8
    <3>10. ReadInv'
      <4>1. sector < layers[layer].size
        BY <1>3, <2>1, <2>2, <3>1
      <4>2. \A j \in 1 .. layer :
              sector \notin layers[j].held /\ sector < layers[j].size
        BY <2>1, <2>2, <3>1, <4>1
      <4>3. (layer + 1) - 1 = layer
        BY <2>2
      <4> QED BY <1>2, <3>4, <3>6, <4>2, <4>3 DEF ReadInv
    <3>11. (ReadsNearest /\ OnlyCallerRefused)'
      BY <3>6 DEF ReadsNearest, OnlyCallerRefused
    <3> QED BY <1>4, <3>9, <3>10, <3>11
  <2> QED BY <1>7, <2>4, <2>5, <2>6, <2>7 DEF Reading
<1> QED BY <1>6, <1>7

-----------------------------------------------------------------------------
LEMMA NextIInv == IInv /\ [Next]_vars => IInv'
<1> SUFFICES ASSUME IInv, [Next]_vars PROVE IInv'
  OBVIOUS
<1> USE DEF IInv
<1>1. ASSUME NEW n \in Names, Open(n) PROVE IInv'
  <2>1. dir \in [Names -> Images \cup {Missing}] /\ read.status = "none"
        /\ step = "closed"
    BY <1>1 DEF Open, TypeOK, NoRead
  <2>2. CASE dir[n] = Missing
    <3>1. step' = "failed"
          /\ UNCHANGED <<dir, layers, depth_remaining, owning_path, read, changes>>
      BY <1>1, <2>2 DEF Open
    <3>2. TypeOK'
      BY <2>1, <3>1 DEF TypeOK, Steps
    <3>3. ChainInv'
      BY <3>1 DEF ChainInv
    <3>4. (ReadInv /\ ReadsNearest /\ OnlyCallerRefused)'
      BY <2>1, <3>1 DEF ReadInv, ReadsNearest, OnlyCallerRefused
    <3> QED BY <3>2, <3>3, <3>4
  <2>3. CASE dir[n] # Missing
    <3>1. /\ Enter(dir[n], MAX_PARENT_DEPTH) /\ owning_path' \in BOOLEAN
          /\ UNCHANGED <<dir, read, changes>> /\ dir[n] \in Images
      BY <1>1, <2>1, <2>3 DEF Open
    <3>2. layers = <<>>
      BY <2>1 DEF TypeOK
    <3> QED BY <2>1, <3>1, <3>2, EnterIInv
  <2> QED BY <2>2, <2>3
<1>2. ASSUME NEW n \in Names, Change(n) PROVE IInv'
  <2>1. /\ UNCHANGED <<step, layers, depth_remaining, owning_path, read>>
        /\ changes' \in Nat
    BY <1>2 DEF Change, opener, TypeOK
  <2>2. dir' \in [Names -> Images \cup {Missing}]
    <3>1. PICK d \in Directories : dir' = [dir EXCEPT ![n] = d[n]]
      BY <1>2 DEF Change
    <3>2. d[n] \in Images \cup {Missing}
      BY ChainAssumption
    <3> QED BY <3>1, <3>2 DEF TypeOK
  <2>3. TypeOK'
    BY <2>1, <2>2 DEF TypeOK
  <2> QED BY <2>1, <2>3 DEF ChainInv, ReadInv, ReadsNearest, OnlyCallerRefused,
                            NearestHas, Reaches, Last
<1>3. CASE OpenParent
  <2>1. Last.kind = "differencing" /\ Last.parent \in Names
        /\ step = "device" /\ dir[Last.parent] # Missing
    BY <1>3 DEF OpenParent, ChainInv, IsFileName
  <2>2. dir[Last.parent] \in Images
    BY <2>1 DEF TypeOK
  <2> QED BY <1>3, <2>1, <2>2, EnterIInv DEF OpenParent, TypeOK
<1>4. CASE Opening /\ ~ OpenParent
  BY <1>4, OpenerIInv DEF Opening
<1>5. CASE ReadAt \/ Reading
  BY <1>5, ReadIInv
<1>6. CASE Close
  <2>1. /\ step' = "closed" /\ layers' = <<>> /\ read' = NoRead
        /\ owning_path' = TRUE /\ UNCHANGED <<dir, changes>>
    BY <1>6 DEF Close
  <2>2. TypeOK'
    BY <2>1 DEF TypeOK, Steps, Reads, NoRead
  <2>3. ChainInv' /\ read'.status = "none"
    BY <2>1 DEF ChainInv, NoRead
  <2> QED BY <2>2, <2>3 DEF ReadInv, ReadsNearest, OnlyCallerRefused
<1>7. CASE UNCHANGED vars
  BY <1>7 DEF vars, opener, TypeOK, ChainInv, ReadInv, ReadsNearest,
              OnlyCallerRefused, NearestHas, Reaches, Last
<1> QED BY <1>1, <1>2, <1>3, <1>4, <1>5, <1>6, <1>7 DEF Next

LEMMA ChainSafe == Spec => []IInv
BY InitIInv, NextIInv, PTL DEF Spec

(* open_inner, open_parent: whatever the images name, themselves included, and
   however the directory changes, the depth bounds the files held open.    *)
THEOREM NeverTooManyFiles == Spec => []DepthBounded
<1>1. ASSUME IInv PROVE DepthBounded
  <2>1. MAX_PARENT_DEPTH \in Nat
    BY ChainAssumption
  <2>2. CASE layers = <<>>
    BY <2>1, <2>2 DEF DepthBounded
  <2>3. CASE layers # <<>>
    <3>1. depth_remaining \in 0 .. MAX_PARENT_DEPTH
          /\ depth_remaining + Len(layers) = MAX_PARENT_DEPTH + 1
          /\ Len(layers) \in Nat
      BY <1>1, <2>3 DEF IInv, TypeOK
    <3> QED BY <2>1, <3>1 DEF DepthBounded
  <2> QED BY <2>2, <2>3
<1> QED BY <1>1, ChainSafe, PTL

(* check_parent_identity on the way back: every opened chain is the one its
   images declare.                                                         *)
THEOREM OpensDeclaredChain == Spec => []ChainIsDeclared
<1>1. ASSUME IInv PROVE ChainIsDeclared
  <2>1. SUFFICES ASSUME step = "opened"
        PROVE  /\ Len(layers) \in 1 .. MAX_PARENT_DEPTH
               /\ \A i \in 1 .. Len(layers) - 1 :
                    /\ layers[i].kind = "differencing"
                    /\ layers[i].parent_id = layers[i + 1].id
               /\ Last.kind \in {"fixed", "dynamic"}
    BY DEF ChainIsDeclared
  <2>2. /\ depth_remaining \in 0 .. MAX_PARENT_DEPTH /\ layers # <<>>
        /\ depth_remaining + Len(layers) = MAX_PARENT_DEPTH + 1
        /\ layers \in Seq(Images) /\ depth_remaining > 0
    BY <1>1, <2>1 DEF IInv, TypeOK, ChainInv
  <2>3. MAX_PARENT_DEPTH \in Nat
    BY ChainAssumption
  <2>4. Len(layers) \in 1 .. MAX_PARENT_DEPTH
    BY <2>2, <2>3
  <2> QED BY <1>1, <2>1, <2>4 DEF IInv, ChainInv
<1> QED BY <1>1, ChainSafe, PTL

(* read_sparse and read_block_unallocated: a read gives each sector from the
   nearest layer that has it.                                              *)
THEOREM ReadsFallThrough == Spec => []ReadsNearest
<1>1. IInv => ReadsNearest
  BY DEF IInv
<1> QED BY <1>1, ChainSafe, PTL

(* A read is refused only for what its caller asked: no call the code makes on
   the way down the chain is out of a layer's range.                       *)
THEOREM NoCallRefused == Spec => []OnlyCallerRefused
<1>1. IInv => OnlyCallerRefused
  BY DEF IInv
<1> QED BY <1>1, ChainSafe, PTL
=============================================================================
