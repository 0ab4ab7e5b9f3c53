------------------------------ MODULE ImgProofs ------------------------------
(***************************************************************************)
(* The command `img`, for every disk, range and bound, with one process at *)
(* a time on FILE.  `img read -o FILE`: no failure, kill or power loss     *)
(* leaves FILE half written.  `img write`, beside a process that replaces  *)
(* FILE: it changes nothing outside the range it checked, takes the whole  *)
(* of one input, and reports only what is durable.  The invariants are     *)
(* ReadInv and WriteInv, whose parts are in ImgRead and ImgWrite.          *)
(***************************************************************************)
EXTENDS ImgWrite, SequenceTheorems, TLAPS

(* A row of values is a sequence. *)
LEMMA Row ==
  ASSUME NEW n \in Nat, NEW f, f \in [1 .. n -> Values]
  PROVE  f \in Seq(Values) /\ Len(f) = n /\ DOMAIN f = 1 .. n
<1>1. f \in Seq(Values)
  BY SeqDef
<1>2. Len(f) \in Nat /\ DOMAIN f = 1 .. Len(f)
  BY <1>1, LenProperties
<1>3. 1 .. Len(f) = 1 .. n
  BY <1>2
<1> QED BY <1>1, <1>2, <1>3

(* set_len: what a file is once it has another length. *)
LEMMA ResizedFile ==
  ASSUME NEW f \in Seq(Values), NEW n \in Nat
  PROVE  /\ Resized(f, n) \in Seq(Values)
         /\ Len(Resized(f, n)) = n
         /\ \A k \in 1 .. n : Resized(f, n)[k] = IF k <= Len(f) THEN f[k] ELSE Zero
<1>1. Len(f) \in Nat /\ \A k \in 1 .. Len(f) : f[k] \in Values
  BY LenProperties, ElementOfSeq
<1>2. Resized(f, n) \in [1 .. n -> Values]
  BY <1>1, ReadAssumption DEF Resized
<1>3. \A k \in 1 .. n : Resized(f, n)[k] = IF k <= Len(f) THEN f[k] ELSE Zero
  BY DEF Resized
<1> QED BY <1>2, <1>3, Row

(* write_all: what a file is once a chunk is written, past its end or not. *)
LEMMA WrittenFile ==
  ASSUME NEW f \in Seq(Values), NEW k \in Nat, NEW v \in Values
  PROVE  /\ WrittenAt(f, k, v) \in Seq(Values)
         /\ Len(WrittenAt(f, k, v)) = Larger(Len(f), k + 1)
         /\ WrittenAt(f, k, v)[k + 1] = v
         /\ \A j \in 1 .. Larger(Len(f), k + 1) : j # k + 1 =>
              WrittenAt(f, k, v)[j] = IF j <= Len(f) THEN f[j] ELSE Zero
<1> DEFINE n == Larger(Len(f), k + 1)
<1>1. Len(f) \in Nat
  BY LenProperties
<1>2. n \in Nat /\ k + 1 \in 1 .. n
  BY <1>1 DEF Larger
<1> HIDE DEF n
<1> DEFINE g == Resized(f, n)
<1>3. /\ g \in Seq(Values) /\ Len(g) = n
      /\ \A j \in 1 .. n : g[j] = IF j <= Len(f) THEN f[j] ELSE Zero
  BY <1>2, ResizedFile
<1>4. WrittenAt(f, k, v) = [g EXCEPT ![k + 1] = v]
  BY DEF WrittenAt, n
<1> HIDE DEF g
<1>5. /\ [g EXCEPT ![k + 1] = v] \in Seq(Values)
      /\ Len([g EXCEPT ![k + 1] = v]) = Len(g)
      /\ \A j \in 1 .. Len(g) :
           [g EXCEPT ![k + 1] = v][j] = IF j = k + 1 THEN v ELSE g[j]
  BY <1>2, <1>3, ExceptSeq
<1> QED BY <1>2, <1>3, <1>4, <1>5 DEF n

Legal == {r \in Nat \X Nat : r[1] + r[2] <= Len(Source)}

(* The chunks of a range. *)
LEMMA WantedRange ==
  ASSUME NEW r \in Legal
  PROVE  /\ r[1] \in Nat /\ r[2] \in Nat
         /\ Wanted(r) \in Seq(Values)
         /\ Len(Wanted(r)) = r[2]
         /\ \A k \in 1 .. r[2] : /\ Wanted(r)[k] = Source[r[1] + k]
                                 /\ Source[r[1] + k] \in Values
<1>1. /\ r[1] \in Nat /\ r[2] \in Nat /\ Len(Source) \in Nat
      /\ r[1] + r[2] <= Len(Source) /\ Source \in Seq(Values)
  BY ReadAssumption, LenProperties DEF Legal
<1> DEFINE m == r[1] + 1
           n == r[1] + r[2]
<1>2. m \in 1 .. Len(Source) + 1 /\ n \in m - 1 .. Len(Source)
  BY <1>1
<1>3. /\ SubSeq(Source, m, n) \in Seq(Values)
      /\ Len(SubSeq(Source, m, n)) = IF m <= n THEN n - m + 1 ELSE 0
      /\ \A i \in 1 .. n - m + 1 : SubSeq(Source, m, n)[i] = Source[m + i - 1]
  <2>1. Source \in Seq(Values) /\ \A i \in 1 .. Len(Source) : Source[i] \in Values
    BY <1>1, ElementOfSeq, Zenon
  <2>2. m \in Int /\ n \in Int /\ \A i \in m .. n : i \in 1 .. Len(Source)
    BY <1>1
  <2>3. \A i \in m .. n : Source[i] \in Values
    BY <2>1, <2>2, Zenon
  <2> HIDE DEF m, n
  <2> QED BY <2>2, <2>3, SubSeqProperties
<1>4. (IF m <= n THEN n - m + 1 ELSE 0) = r[2] /\ n - m + 1 = r[2]
  BY <1>1
<1>5. \A k \in 1 .. r[2] : m + k - 1 = r[1] + k /\ r[1] + k \in 1 .. Len(Source)
  BY <1>1
<1>6. Wanted(r) = SubSeq(Source, m, n)
  BY DEF Wanted
<1> HIDE DEF m, n
<1> QED BY <1>1, <1>3, <1>4, <1>5, <1>6, ElementOfSeq

-----------------------------------------------------------------------------
Steps == {"idle", "create", "copy", "sync", "rename", "remove", "failed", "kept"}

(* Absent is no file. *)
LEMMA AbsentIsNone == Absent \notin Inodes /\ 1 \in Inodes
BY ReadAssumption DEF Absent, Inodes

(* A change to the copy in the making touches no file FILE may turn out to be. *)
LEMMA CopyChanges ==
  ASSUME TypeOK, FilesWhole, NEW f \in Seq(Values), names.partial # Absent,
         Contents(names.partial, f), UNCHANGED <<names, namesMedia, versions>>
  PROVE  /\ data' \in [Inodes -> Seq(Values)]
         /\ dirty' \subseteq Inodes
         /\ data'[names.partial] = f
         /\ FilesWhole'
<1>1. names \in namesMedia /\ names.partial \in Inodes
  BY DEF TypeOK
<1>2. /\ data' = [data EXCEPT ![names.partial] = f]
      /\ dirty' = dirty \cup {names.partial}
  BY DEF Contents
<1>3. ASSUME NEW d \in namesMedia
      PROVE  /\ d.file \notin dirty' /\ data'[d.file] \in versions
             /\ d.file \notin {names.partial, d.partial}
  <2>1. d.file \in Inodes
    BY DEF TypeOK
  <2>2. /\ d.file \notin dirty /\ data[d.file] \in versions
        /\ d.file \notin {names.partial, d.partial}
    BY DEF FilesWhole
  <2> QED BY <1>1, <1>2, <2>1, <2>2 DEF TypeOK
<1> QED BY <1>1, <1>2, <1>3 DEF TypeOK, FilesWhole

(* The process leaves: its place is cleared, and it is nowhere in a copy. *)
LEMMA Left ==
  ASSUME NEW t, Tools = {t}, TypeOK, NEW step \in {"idle", "failed", "kept"},
         Leave(t, step)
  PROVE  /\ pc' \in [Tools -> Steps] /\ pc'[t] = step
         /\ fd' \in [Tools -> Inodes \cup {Absent}]
         /\ range' \in [Tools -> Legal]
         /\ at' \in [Tools -> Nat]
         /\ CopyInv'
<1>1. <<0, 0>> \in Legal
  BY ReadAssumption, LenProperties DEF Legal
<1>2. /\ pc' = [pc EXCEPT ![t] = step]
      /\ fd' = [fd EXCEPT ![t] = Absent]
      /\ range' = [range EXCEPT ![t] = <<0, 0>>]
      /\ at' = [at EXCEPT ![t] = 0]
  BY DEF Leave, Goto
<1>3. /\ pc' \in [Tools -> Steps] /\ pc'[t] = step
      /\ fd' \in [Tools -> Inodes \cup {Absent}]
      /\ range' \in [Tools -> Legal]
      /\ at' \in [Tools -> Nat] /\ at'[t] = 0
  BY <1>1, <1>2 DEF TypeOK, Steps, Legal
<1> QED BY <1>3 DEF CopyInv

(* A directory that is named so joins those a power loss may bring back. *)
LEMMA Named ==
  ASSUME TypeOK, FilesWhole, NEW e \in [file : Inodes, partial : Inodes \cup {Absent}],
         Names(e), UNCHANGED versions,
         \A d \in namesMedia : /\ d.file \notin dirty' /\ data'[d.file] \in versions
                               /\ d.file # e.partial,
         e.file \notin dirty' /\ data'[e.file] \in versions /\ e.file # e.partial
  PROVE  /\ names' \in namesMedia'
         /\ namesMedia' \subseteq [file : Inodes, partial : Inodes \cup {Absent}]
         /\ FilesWhole'
<1>1. names' = e /\ namesMedia' = namesMedia \cup {e}
  BY DEF Names
<1> QED BY <1>1 DEF TypeOK, FilesWhole

-----------------------------------------------------------------------------
(* The steps of a process *)

LEMMA StepRead ==
  ASSUME NEW t, Tools = {t}, ReadInv, Read(t)
  PROVE  ReadInv'
<1> USE DEF ReadInv
<1>1. PICK r \in Ranges : /\ r[1] + r[2] <= Len(Source)
                          /\ range' = [range EXCEPT ![t] = r]
                          /\ versions' = versions \cup {Wanted(r)}
  BY DEF Read
<1>2. r \in Legal
  BY <1>1, ReadAssumption DEF Legal
<1>3. /\ pc[t] = "idle" /\ pc' = [pc EXCEPT ![t] = "create"]
      /\ UNCHANGED <<names, data, dirty, namesMedia, fd, at>>
  BY DEF Read, Goto, fs
<1>4. TypeOK'
  BY <1>1, <1>2, <1>3 DEF TypeOK, Legal
<1>5. FilesWhole' /\ NoPartialLeft'
  BY <1>1, <1>3 DEF FilesWhole, NoPartialLeft, TypeOK
<1>6. /\ pc'[t] = "create" /\ range'[t] = r /\ at'[t] = 0
  BY <1>1, <1>3 DEF TypeOK, CopyInv
<1>7. CopyInv'
  BY <1>1, <1>6 DEF CopyInv
<1> QED BY <1>4, <1>5, <1>7

LEMMA StepCreate ==
  ASSUME NEW t, Tools = {t}, ReadInv, Create(t)
  PROVE  ReadInv'
<1> USE DEF ReadInv
<1>1. /\ pc[t] = "create" /\ at[t] = 0 /\ range[t] \in Legal
      /\ Wanted(range[t]) \in versions
  BY DEF Create, CopyInv, TypeOK, Legal
<1>2. <<>> \in Seq(Values) /\ Len(<<>>) = 0
  BY EmptySeq
<1>3. ASSUME NEW i \in Inodes, Opened(t, i)
      PROVE  /\ fd' \in [Tools -> Inodes \cup {Absent}] /\ fd'[t] = i
             /\ pc' \in [Tools -> Steps] /\ pc'[t] = "copy"
             /\ UNCHANGED <<range, at, versions>>
  BY <1>3 DEF Opened, Goto, TypeOK, Steps
<1>4. ASSUME NEW i \in Inodes, names'.partial = i, data'[i] = <<>>, Opened(t, i)
      PROVE  CopyInv' /\ NoPartialLeft'
  <2>1. HoldsUpTo(<<>>, range[t], 0)
    BY <1>1, <1>2, WantedRange DEF HoldsUpTo
  <2>2. /\ pc'[t] = "copy" /\ fd'[t] = i /\ at'[t] = 0 /\ range'[t] = range[t]
        /\ versions' = versions /\ i # Absent
    BY <1>1, <1>3, <1>4, AbsentIsNone
  <2>3. NoPartialLeft'
    BY <2>2 DEF NoPartialLeft
  <2>4. HoldsUpTo(data'[names'.partial], range'[t], at'[t])
    BY <1>4, <2>1, <2>2
  <2>5. CopyInv'
    BY <1>1, <1>4, <2>2, <2>4 DEF CopyInv
  <2> QED BY <2>3, <2>5
<1>5. CASE names.partial # Absent
  <2>1. /\ Contents(names.partial, <<>>) /\ Opened(t, names.partial)
        /\ UNCHANGED <<names, namesMedia, versions>> /\ names.partial \in Inodes
    BY <1>5 DEF Create, TypeOK, Opened
  <2>2. /\ data' \in [Inodes -> Seq(Values)] /\ dirty' \subseteq Inodes
        /\ data'[names.partial] = <<>> /\ FilesWhole'
    BY <1>2, <1>5, <2>1, CopyChanges
  <2>3. TypeOK'
    BY <1>3, <2>1, <2>2 DEF TypeOK, Steps
  <2> QED BY <1>4, <2>1, <2>2, <2>3
<1>6. CASE names.partial = Absent
  <2>1. /\ Inodes \ InUse # {} /\ Contents(NewInode, <<>>) /\ Opened(t, NewInode)
        /\ Names([names EXCEPT !.partial = NewInode])
    BY <1>6 DEF Create
  <2>2. NewInode \in Inodes /\ NewInode \notin InUse
    BY <2>1 DEF NewInode
  <2> DEFINE i == NewInode
             e == [names EXCEPT !.partial = i]
  <2> HIDE DEF i
  <2>3. \A d \in namesMedia : d.file # i
    BY <2>2 DEF InUse, i
  <2>4. /\ names \in namesMedia
        /\ names \in [file : Inodes, partial : Inodes \cup {Absent}]
    BY DEF TypeOK
  <2>5. /\ e \in [file : Inodes, partial : Inodes \cup {Absent}]
        /\ e.partial = i /\ e.file = names.file
    BY <2>2, <2>4 DEF i
  <2>6. /\ data' = [data EXCEPT ![i] = <<>>] /\ dirty' = dirty \cup {i}
        /\ data' \in [Inodes -> Seq(Values)] /\ dirty' \subseteq Inodes
        /\ data'[i] = <<>>
    BY <1>2, <2>1, <2>2 DEF Contents, TypeOK, i
  <2>7. ASSUME NEW d \in namesMedia
        PROVE  d.file \notin dirty' /\ data'[d.file] \in versions /\ d.file # i
    <3>1. d.file \in Inodes /\ d.file \notin dirty /\ data[d.file] \in versions
      BY DEF TypeOK, FilesWhole
    <3> QED BY <2>3, <2>6, <3>1 DEF TypeOK
  <2>8. Names(e) /\ UNCHANGED versions
    BY <2>1 DEF Opened, i
  <2> HIDE DEF e
  <2>9. /\ names' \in namesMedia' /\ FilesWhole'
        /\ namesMedia' \subseteq [file : Inodes, partial : Inodes \cup {Absent}]
    BY <2>4, <2>5, <2>7, <2>8, Named
  <2>10. Opened(t, i) /\ i \in Inodes /\ names'.partial = i
    BY <2>1, <2>2, <2>5, <2>8 DEF i, Names
  <2>11. TypeOK'
    BY <1>3, <2>6, <2>9, <2>10 DEF TypeOK, Steps
  <2> QED BY <1>4, <2>6, <2>9, <2>10, <2>11
<1> QED BY <1>5, <1>6

LEMMA StepCopyChunk ==
  ASSUME NEW t, Tools = {t}, ReadInv, CopyChunk(t)
  PROVE  ReadInv'
<1> USE DEF ReadInv
<1> DEFINE f == data[names.partial]
           n == at[t]
           r == range[t]
           v == Source[r[1] + n + 1]
<1>1. /\ pc[t] = "copy" /\ n < r[2] /\ r \in Legal /\ n \in Nat
      /\ names.partial # Absent /\ names.partial \in Inodes /\ f \in Seq(Values)
      /\ fd[t] = names.partial /\ HoldsUpTo(f, r, n) /\ f = data[names.partial]
  BY DEF CopyChunk, Copying, CopyInv, TypeOK, Legal
<1>2. /\ at' = [at EXCEPT ![t] = n + 1]
      /\ IF v = Zero THEN UNCHANGED <<data, dirty>>
         ELSE Contents(fd[t], WrittenAt(data[fd[t]], n, v))
      /\ UNCHANGED <<names, namesMedia, pc, fd, range, versions, bounds>>
      /\ range[t] = r
  BY DEF CopyChunk
<1>3. r[1] \in Nat /\ r[2] \in Nat /\ v \in Values /\ v = Source[r[1] + (n + 1)]
  <2>1. r[1] \in Nat /\ r[2] \in Nat
        /\ \A k \in 1 .. r[2] : Source[r[1] + k] \in Values
    BY <1>1, WantedRange
  <2>2. n + 1 \in 1 .. r[2] /\ r[1] + n + 1 = r[1] + (n + 1)
    BY <1>1, <2>1
  <2> QED BY <2>1, <2>2
<1> HIDE DEF f, n, r, v
<1>4. /\ Len(f) \in Nat /\ Len(f) <= n
      /\ \A k \in 1 .. n : Source[r[1] + k] = IF k <= Len(f) THEN f[k] ELSE Zero
  BY <1>1, LenProperties DEF HoldsUpTo
<1>5. /\ data' \in [Inodes -> Seq(Values)] /\ dirty' \subseteq Inodes /\ FilesWhole'
      /\ HoldsUpTo(data'[names.partial], r, n + 1)
  <2>1. CASE v = Zero
    <3>1. ASSUME NEW k \in 1 .. n + 1
          PROVE  Source[r[1] + k] = IF k <= Len(f) THEN f[k] ELSE Zero
      <4>1. CASE k = n + 1
        <5>1. ~ (k <= Len(f))
          BY <1>1, <1>4, <4>1
        <5>2. Source[r[1] + k] = Zero
          BY <1>3, <2>1, <4>1, Zenon
        <5> QED BY <5>1, <5>2
      <4>2. CASE k # n + 1
        <5>1. k \in 1 .. n
          BY <1>1, <4>2
        <5> QED BY <1>4, <5>1
      <4> QED BY <4>1, <4>2
    <3>2. HoldsUpTo(f, r, n + 1)
      BY <1>1, <1>3, <1>4, <3>1 DEF HoldsUpTo
    <3> QED BY <1>1, <1>2, <2>1, <3>2 DEF TypeOK, FilesWhole
  <2>2. CASE v # Zero
    <3> DEFINE g == WrittenAt(f, n, v)
    <3>1. /\ g \in Seq(Values) /\ Len(g) = Larger(Len(f), n + 1) /\ g[n + 1] = v
          /\ \A j \in 1 .. Larger(Len(f), n + 1) : j # n + 1 =>
               g[j] = IF j <= Len(f) THEN f[j] ELSE Zero
      <4>1. f \in Seq(Values) /\ n \in Nat /\ v \in Values
        BY <1>1, <1>3, Zenon
      <4> QED BY <4>1, WrittenFile, Zenon
    <3>2. Larger(Len(f), n + 1) = n + 1
      BY <1>1, <1>4 DEF Larger
    <3>3. Contents(names.partial, g)
      BY <1>1, <1>2, <2>2
    <3> HIDE DEF g
    <3>4. ASSUME NEW k \in 1 .. n + 1
          PROVE  Source[r[1] + k] = IF k <= Len(g) THEN g[k] ELSE Zero
      <4>1. CASE k = n + 1
        BY <1>1, <1>3, <3>1, <3>2, <4>1
      <4>2. CASE k # n + 1
        <5>1. k \in 1 .. n /\ k <= n + 1
          BY <1>1, <4>2
        <5>2. g[k] = IF k <= Len(f) THEN f[k] ELSE Zero
          BY <3>1, <3>2, <4>2
        <5> QED BY <1>4, <3>1, <3>2, <5>1, <5>2
      <4> QED BY <4>1, <4>2
    <3>5. HoldsUpTo(g, r, n + 1)
      BY <1>1, <1>3, <1>4, <3>1, <3>2, <3>4 DEF HoldsUpTo
    <3>6. /\ data' \in [Inodes -> Seq(Values)] /\ dirty' \subseteq Inodes
          /\ data'[names.partial] = g /\ FilesWhole'
      BY <1>1, <1>2, <3>1, <3>3, CopyChanges
    <3> QED BY <3>5, <3>6
  <2> QED BY <2>1, <2>2
<1>6. TypeOK'
  BY <1>1, <1>2, <1>5 DEF TypeOK
<1>7. at'[t] = n + 1 /\ pc'[t] = "copy" /\ range'[t] = r
  BY <1>1, <1>2 DEF TypeOK
<1>8. CopyInv'
  <2>1. /\ Wanted(r) \in versions' /\ names'.partial # Absent
        /\ fd'[t] = names'.partial
    BY <1>1, <1>2 DEF CopyInv, r
  <2> QED BY <1>2, <1>5, <1>7, <2>1 DEF CopyInv
<1>9. NoPartialLeft'
  BY <1>7 DEF NoPartialLeft
<1> QED BY <1>5, <1>6, <1>8, <1>9

LEMMA StepSetLength ==
  ASSUME NEW t, Tools = {t}, ReadInv, SetLength(t)
  PROVE  ReadInv'
<1> USE DEF ReadInv
<1> DEFINE f == data[names.partial]
           r == range[t]
           g == Resized(f, r[2])
<1>1. /\ pc[t] = "copy" /\ at[t] = r[2] /\ r \in Legal /\ r[2] \in Nat
      /\ names.partial # Absent /\ f \in Seq(Values)
      /\ fd[t] = names.partial /\ HoldsUpTo(f, r, r[2]) /\ Wanted(r) \in versions
  BY DEF SetLength, Copied, CopyInv, TypeOK, Legal
<1>2. /\ Contents(names.partial, g) /\ pc' = [pc EXCEPT ![t] = "sync"]
      /\ UNCHANGED <<names, namesMedia, fd, range, at, versions, bounds>>
  BY <1>1 DEF SetLength, Goto
<1>3. g \in Seq(Values) /\ g = Wanted(r)
  <2>1. /\ g \in Seq(Values) /\ Len(g) = r[2]
        /\ \A k \in 1 .. r[2] : g[k] = IF k <= Len(f) THEN f[k] ELSE Zero
    BY <1>1, ResizedFile
  <2>2. /\ Wanted(r) \in Seq(Values) /\ Len(Wanted(r)) = r[2]
        /\ \A k \in 1 .. r[2] : Wanted(r)[k] = Source[r[1] + k]
    BY <1>1, WantedRange
  <2>3. \A k \in 1 .. r[2] : Source[r[1] + k] = IF k <= Len(f) THEN f[k] ELSE Zero
    BY <1>1 DEF HoldsUpTo
  <2> HIDE DEF g, f, r
  <2>4. \A k \in 1 .. Len(g) : g[k] = Wanted(r)[k]
    BY <2>1, <2>2, <2>3
  <2> QED BY <2>1, <2>2, <2>4, SeqEqual
<1>4. /\ data' \in [Inodes -> Seq(Values)] /\ dirty' \subseteq Inodes
      /\ data'[names.partial] = g /\ FilesWhole'
  BY <1>1, <1>2, <1>3, CopyChanges
<1>5. TypeOK'
  BY <1>2, <1>4 DEF TypeOK
<1>6. pc'[t] = "sync"
  BY <1>2 DEF TypeOK
<1> HIDE DEF f, g
<1>7. CopyInv' /\ NoPartialLeft'
  BY <1>1, <1>2, <1>3, <1>4, <1>6 DEF CopyInv, NoPartialLeft
<1> QED BY <1>4, <1>5, <1>7

LEMMA StepSyncAll ==
  ASSUME NEW t, Tools = {t}, ReadInv, SyncAll(t)
  PROVE  ReadInv'
<1> USE DEF ReadInv
<1>1. /\ pc[t] = "sync" /\ pc' = [pc EXCEPT ![t] = "rename"]
      /\ dirty' = dirty \ {fd[t]}
      /\ UNCHANGED <<names, namesMedia, data, fd, range, at, versions, bounds>>
  BY DEF SyncAll, Goto
<1>2. TypeOK' /\ pc'[t] = "rename"
  BY <1>1 DEF TypeOK
<1>3. FilesWhole'
  BY <1>1 DEF FilesWhole
<1>4. CopyInv' /\ NoPartialLeft'
  BY <1>1, <1>2 DEF CopyInv, NoPartialLeft
<1> QED BY <1>2, <1>3, <1>4

LEMMA StepRename ==
  ASSUME NEW t, Tools = {t}, ReadInv, Rename(t)
  PROVE  ReadInv'
<1> USE DEF ReadInv
<1> DEFINE p == names.partial
           e == [file |-> p, partial |-> Absent]
<1>1. /\ pc[t] = "rename" /\ p # Absent /\ p \in Inodes /\ p \notin dirty
      /\ data[p] \in versions
  BY DEF Rename, CopyInv, TypeOK
<1>2. /\ Leave(t, "idle") /\ Names(e)
      /\ UNCHANGED <<data, dirty, versions, bounds>>
  BY <1>1 DEF Rename
<1>3. \A d \in namesMedia : /\ d.file \notin dirty' /\ data'[d.file] \in versions
                            /\ d.file # Absent
  BY <1>2, AbsentIsNone DEF FilesWhole, TypeOK
<1>4. /\ e \in [file : Inodes, partial : Inodes \cup {Absent}]
      /\ e.file \notin dirty' /\ data'[e.file] \in versions /\ e.file # e.partial
  BY <1>1, <1>2, AbsentIsNone
<1>5. e.partial = Absent
  OBVIOUS
<1> HIDE DEF e
<1>6. /\ names' \in namesMedia' /\ FilesWhole'
      /\ namesMedia' \subseteq [file : Inodes, partial : Inodes \cup {Absent}]
  BY <1>2, <1>3, <1>4, <1>5, Named
<1>7. /\ pc' \in [Tools -> Steps] /\ pc'[t] = "idle"
      /\ fd' \in [Tools -> Inodes \cup {Absent}]
      /\ range' \in [Tools -> Legal]
      /\ at' \in [Tools -> Nat]
      /\ CopyInv'
  BY <1>2, Left
<1>8. TypeOK' /\ NoPartialLeft'
  BY <1>2, <1>6, <1>7 DEF TypeOK, Steps, Legal, NoPartialLeft
<1> QED BY <1>6, <1>7, <1>8

LEMMA StepRemovePartial ==
  ASSUME NEW t, Tools = {t}, ReadInv, RemovePartial(t)
  PROVE  ReadInv'
<1> USE DEF ReadInv
<1> DEFINE e == [names EXCEPT !.partial = Absent]
<1>1. /\ Leave(t, "failed") /\ Names(e) /\ UNCHANGED <<data, dirty, versions, bounds>>
  BY DEF RemovePartial
<1>2. /\ names \in namesMedia
      /\ names \in [file : Inodes, partial : Inodes \cup {Absent}]
  BY DEF TypeOK
<1>3. /\ e \in [file : Inodes, partial : Inodes \cup {Absent}]
      /\ e.partial = Absent /\ e.file = names.file
  BY <1>2
<1> HIDE DEF e
<1>4. \A d \in namesMedia : /\ d.file \notin dirty' /\ data'[d.file] \in versions
                            /\ d.file # Absent
  BY <1>1, AbsentIsNone DEF FilesWhole, TypeOK
<1>5. /\ names' \in namesMedia' /\ FilesWhole'
      /\ namesMedia' \subseteq [file : Inodes, partial : Inodes \cup {Absent}]
  BY <1>1, <1>2, <1>3, <1>4, Named
<1>6. /\ pc' \in [Tools -> Steps]
      /\ fd' \in [Tools -> Inodes \cup {Absent}]
      /\ range' \in [Tools -> Legal]
      /\ at' \in [Tools -> Nat]
      /\ CopyInv'
  BY <1>1, Left
<1>7. names'.partial = Absent
  BY <1>1, <1>3 DEF Names
<1>8. TypeOK' /\ NoPartialLeft'
  BY <1>1, <1>5, <1>6, <1>7 DEF TypeOK, Steps, Legal, NoPartialLeft
<1> QED BY <1>5, <1>6, <1>8

(* The steps that leave every file and directory as it is. *)
LEMMA StepElsewhere ==
  ASSUME NEW t, Tools = {t}, ReadInv,
         CopyFails(t) \/ CopyStays(t) \/ Exit(t) \/ Kill(t)
  PROVE  ReadInv'
<1> USE DEF ReadInv
<1>1. UNCHANGED <<names, data, dirty, namesMedia, versions>>
  BY DEF CopyFails, CopyStays, Exit, Kill, fs
<1>2. FilesWhole'
  BY <1>1 DEF FilesWhole
<1>3. CASE CopyFails(t)
  <2>1. pc' = [pc EXCEPT ![t] = "remove"] /\ UNCHANGED <<fd, range, at>>
    BY <1>3 DEF CopyFails, Goto
  <2>2. TypeOK' /\ pc'[t] = "remove"
    BY <1>1, <2>1 DEF TypeOK
  <2> QED BY <1>2, <2>2 DEF CopyInv, NoPartialLeft
<1>4. CASE Exit(t)
  <2>1. /\ pc[t] \in {"failed", "kept"} /\ pc' = [pc EXCEPT ![t] = "idle"]
        /\ UNCHANGED <<fd, range, at>>
    BY <1>4 DEF Exit, Goto
  <2>2. TypeOK' /\ pc'[t] = "idle" /\ at'[t] = 0
    BY <1>1, <2>1 DEF TypeOK, CopyInv
  <2> QED BY <1>2, <2>2 DEF CopyInv, NoPartialLeft
<1>5. CASE CopyStays(t) \/ Kill(t)
  <2>1. PICK step \in {"idle", "kept"} : Leave(t, step)
    BY <1>5 DEF CopyStays, Kill
  <2>2. /\ pc' \in [Tools -> Steps] /\ pc'[t] = step
        /\ fd' \in [Tools -> Inodes \cup {Absent}]
        /\ range' \in [Tools -> Legal]
        /\ at' \in [Tools -> Nat]
        /\ CopyInv'
    BY <2>1, Left
  <2>3. TypeOK' /\ NoPartialLeft'
    BY <1>1, <2>1, <2>2 DEF TypeOK, Steps, Legal, NoPartialLeft
  <2> QED BY <1>2, <2>2, <2>3
<1> QED BY <1>3, <1>4, <1>5

LEMMA ToolKeeps ==
  ASSUME NEW t, Tools = {t}, ReadInv, \E s \in Tools : ToolStep(s)
  PROVE  ReadInv'
BY StepRead, StepCreate, StepCopyChunk, StepSetLength, StepSyncAll, StepRename,
   StepRemovePartial, StepElsewhere DEF ToolStep

-----------------------------------------------------------------------------
(* The power *)

(* What is left of a file is a file. *)
LEMMA RemnantIsFile ==
  ASSUME NEW f \in Seq(Values), NEW g \in Remnants(f)
  PROVE  g \in Seq(Values)
<1>1. PICK n \in 0 .. Len(f), kept \in SUBSET (1 .. Len(f)) :
        g = [k \in 1 .. n |-> IF k \in kept THEN f[k] ELSE Zero]
  BY DEF Remnants
<1>2. Len(f) \in Nat /\ \A k \in 1 .. Len(f) : f[k] \in Values
  BY LenProperties, ElementOfSeq
<1>3. n \in Nat /\ g \in [1 .. n -> Values]
  BY <1>1, <1>2, ReadAssumption
<1> QED BY <1>3, Row

LEMMA PowerKeeps ==
  ASSUME ReadInv, PowerLoss
  PROVE  ReadInv'
<1> USE DEF ReadInv
<1>1. PICK lost \in [dirty -> UNION {Remnants(data[i]) : i \in dirty}] :
        /\ \A i \in dirty : lost[i] \in Remnants(data[i])
        /\ data' = [i \in Inodes |-> IF i \in dirty THEN lost[i] ELSE data[i]]
  BY DEF PowerLoss
<1>2. /\ names' \in namesMedia /\ namesMedia' = {names'} /\ dirty' = {}
      /\ pc' = [s \in Tools |-> "idle"] /\ fd' = [s \in Tools |-> Absent]
      /\ range' = [s \in Tools |-> <<0, 0>>] /\ at' = [s \in Tools |-> 0]
      /\ UNCHANGED versions
  BY DEF PowerLoss
<1>3. data' \in [Inodes -> Seq(Values)]
  <2>1. ASSUME NEW i \in dirty PROVE lost[i] \in Seq(Values)
    BY <1>1, RemnantIsFile DEF TypeOK
  <2> QED BY <1>1, <2>1 DEF TypeOK
<1>4. <<0, 0>> \in Legal
  BY ReadAssumption, LenProperties DEF Legal
<1>5. TypeOK'
  BY <1>2, <1>3, <1>4 DEF TypeOK, Legal
<1>6. FilesWhole'
  <2>1. /\ names'.file \in Inodes /\ names'.file \notin dirty
        /\ data[names'.file] \in versions /\ names'.file # names'.partial
    BY <1>2 DEF TypeOK, FilesWhole
  <2>2. data'[names'.file] \in versions'
    BY <1>1, <1>2, <2>1
  <2> QED BY <1>2, <2>1, <2>2 DEF FilesWhole
<1>7. CopyInv' /\ NoPartialLeft'
  BY <1>2 DEF CopyInv, NoPartialLeft
<1> QED BY <1>5, <1>6, <1>7

-----------------------------------------------------------------------------
LEMMA InitReadInv == Init => ReadInv
<1> SUFFICES ASSUME Init PROVE ReadInv
  OBVIOUS
<1>1. PICK f \in FirstFiles : /\ data = [i \in Inodes |-> IF i = 1 THEN f ELSE <<>>]
                              /\ versions = {f}
  BY DEF Init
<1>2. /\ f \in Seq(Values) /\ <<>> \in Seq(Values)
  BY ReadAssumption, EmptySeq
<1>3. <<0, 0>> \in Legal
  BY ReadAssumption, LenProperties DEF Legal
<1>4. TypeOK
  BY <1>1, <1>2, <1>3, AbsentIsNone DEF Init, TypeOK, Legal
<1>5. FilesWhole
  BY <1>1, AbsentIsNone DEF Init, FilesWhole
<1>6. CopyInv /\ NoPartialLeft
  BY DEF Init, CopyInv, NoPartialLeft
<1> QED BY <1>4, <1>5, <1>6 DEF ReadInv

LEMMA StutterKeeps ==
  ASSUME ReadInv, UNCHANGED <<fs, tool, versions>>
  PROVE  ReadInv'
BY DEF ReadInv, fs, tool, TypeOK, FilesWhole, CopyInv, NoPartialLeft

(* What FILE is and what is about to become FILE. *)
LEMMA WholeFiles == ReadInv => FileIsWhole /\ CopyIsWhole /\ NoPartialLeft
<1> SUFFICES ASSUME ReadInv PROVE FileIsWhole /\ CopyIsWhole /\ NoPartialLeft
  OBVIOUS
<1>1. FileIsWhole
  BY AbsentIsNone DEF ReadInv, TypeOK, FilesWhole, FileIsWhole
<1>2. CopyIsWhole
  BY DEF ReadInv, CopyInv, CopyIsWhole
<1> QED BY <1>1, <1>2 DEF ReadInv

(* read -o FILE, one process at a time: FILE is never left half written, a copy
   is whole and synced before it is renamed, and one given up does not stay,
   for every disk, range, failure, kill and power loss.                    *)
THEOREM FileNeverPartial ==
  ASSUME NEW t, Tools = {t}
  PROVE  Spec => [](FileIsWhole /\ CopyIsWhole /\ NoPartialLeft)
<1>1. ReadInv /\ [Next]_vars => ReadInv'
  <2> SUFFICES ASSUME ReadInv, [Next]_vars PROVE ReadInv'
    OBVIOUS
  <2>1. CASE UNCHANGED vars
    BY <2>1, StutterKeeps DEF vars
  <2> QED BY <2>1, ToolKeeps, PowerKeeps DEF Next
<1> QED BY <1>1, InitReadInv, WholeFiles, PTL DEF Spec

-----------------------------------------------------------------------------
(* img write *)

(* The constants, one fact at a time. *)
LEMMA WriteConstants ==
  /\ \A q \in Asks : /\ q.from \in {"file", "feed", "pipe", "image"}
                     /\ q.offset \in Nat /\ q.pos \in Nat
                     /\ q.from = "pipe" => q.pos = 0
  /\ FirstGuest \in Seq(Values) /\ FirstFeed \in Seq(Values)
  /\ PipeData \subseteq Seq(Values) /\ Lengths \subseteq Nat /\ CHUNK \in Nat \ {0}
  /\ size \in Nat
BY WriteAssumption, LenProperties DEF size

-----------------------------------------------------------------------------
(* Overlays and stretches of a sequence *)

(* write_at: the guest keeps its size, changes where the bytes go and nowhere
   else.                                                                   *)
LEMMA OverlaidGuest ==
  ASSUME NEW g \in Seq(Values), NEW q \in Seq(Values), NEW o \in Nat
  PROVE  /\ Overlay(g, o, q) \in Seq(Values)
         /\ Len(Overlay(g, o, q)) = Len(g)
         /\ \A c \in 1 .. Len(g) :
              Overlay(g, o, q)[c] = IF c - o \in 1 .. Len(q) THEN q[c - o] ELSE g[c]
<1>1. /\ Len(g) \in Nat /\ DOMAIN g = 1 .. Len(g)
      /\ \A c \in 1 .. Len(g) : g[c] \in Values
      /\ DOMAIN q = 1 .. Len(q) /\ \A k \in 1 .. Len(q) : q[k] \in Values
  BY LenProperties, ElementOfSeq
<1>2. Overlay(g, o, q)
        = [c \in 1 .. Len(g) |-> IF c - o \in 1 .. Len(q) THEN q[c - o] ELSE g[c]]
  BY <1>1 DEF Overlay
<1>3. Overlay(g, o, q) \in [1 .. Len(g) -> Values]
  BY <1>1, <1>2
<1> QED BY <1>1, <1>2, <1>3, Row

LEMMA OverlayNothing ==
  ASSUME NEW g \in Seq(Values), NEW o \in Nat
  PROVE  Overlay(g, o, <<>>) = g
<1>1. <<>> \in Seq(Values) /\ Len(<<>>) = 0
  BY EmptySeq
<1>2. /\ Overlay(g, o, <<>>) \in Seq(Values)
      /\ Len(Overlay(g, o, <<>>)) = Len(g)
      /\ \A c \in 1 .. Len(g) :
           Overlay(g, o, <<>>)[c]
             = IF c - o \in 1 .. Len(<<>>) THEN <<>>[c - o] ELSE g[c]
  BY <1>1, OverlaidGuest
<1>3. \A c \in 1 .. Len(g) : Overlay(g, o, <<>>)[c] = g[c]
  BY <1>1, <1>2
<1> QED BY <1>2, <1>3, SeqEqual

(* One chunk after another is both of them at once. *)
LEMMA OverlayTwice ==
  ASSUME NEW g \in Seq(Values), NEW l \in Seq(Values), NEW q \in Seq(Values), NEW o \in Nat
  PROVE  Overlay(Overlay(g, o, l), o + Len(l), q) = Overlay(g, o, l \o q)
<1> DEFINE h == Overlay(g, o, l)
           n == Len(l)
           m == Len(q)
           left == Overlay(h, o + n, q)
           right == Overlay(g, o, l \o q)
<1>1. n \in Nat /\ m \in Nat /\ Len(g) \in Nat
  BY LenProperties
<1>2. /\ h \in Seq(Values) /\ Len(h) = Len(g)
      /\ \A c \in 1 .. Len(g) : h[c] = IF c - o \in 1 .. n THEN l[c - o] ELSE g[c]
  BY OverlaidGuest
<1>3. /\ l \o q \in Seq(Values) /\ Len(l \o q) = n + m
      /\ \A i \in 1 .. n + m : (l \o q)[i] = IF i <= n THEN l[i] ELSE q[i - n]
  BY ConcatProperties
<1> HIDE DEF h
<1>4. o + n \in Nat
  BY <1>1
<1>5. /\ left \in Seq(Values) /\ Len(left) = Len(g)
      /\ \A c \in 1 .. Len(g) :
           left[c] = IF c - (o + n) \in 1 .. m THEN q[c - (o + n)] ELSE h[c]
  BY <1>2, <1>4, OverlaidGuest
<1>6. /\ right \in Seq(Values) /\ Len(right) = Len(g)
      /\ \A c \in 1 .. Len(g) :
           right[c] = IF c - o \in 1 .. n + m THEN (l \o q)[c - o] ELSE g[c]
  <2> DEFINE w == l \o q
  <2>1. w \in Seq(Values) /\ Len(w) = n + m
    BY <1>3
  <2> HIDE DEF w, n, m
  <2>2. /\ Overlay(g, o, w) \in Seq(Values) /\ Len(Overlay(g, o, w)) = Len(g)
        /\ \A c \in 1 .. Len(g) :
             Overlay(g, o, w)[c] = IF c - o \in 1 .. Len(w) THEN w[c - o] ELSE g[c]
    BY <2>1, OverlaidGuest
  <2>3. right = Overlay(g, o, w)
    BY DEF w
  <2> QED BY <2>1, <2>2, <2>3 DEF w
<1> HIDE DEF n, m, left, right
<1>7. ASSUME NEW c \in 1 .. Len(g) PROVE left[c] = right[c]
  <2>1. CASE c - o \in 1 .. n
    <3>1. c - (o + n) \notin 1 .. m /\ c - o \in 1 .. n + m /\ c - o <= n
      BY <1>1, <2>1
    <3> QED BY <1>2, <1>3, <1>5, <1>6, <2>1, <3>1
  <2>2. CASE c - (o + n) \in 1 .. m
    <3>1. /\ c - o \in 1 .. n + m /\ ~ (c - o <= n)
          /\ (c - o) - n = c - (o + n)
      BY <1>1, <2>2
    <3> QED BY <1>3, <1>5, <1>6, <2>2, <3>1
  <2>3. CASE c - o \notin 1 .. n /\ c - (o + n) \notin 1 .. m
    <3>1. c - o \notin 1 .. n + m
      BY <1>1, <2>3
    <3> QED BY <1>2, <1>5, <1>6, <2>3, <3>1
  <2> QED BY <2>1, <2>2, <2>3
<1>8. left = right
  BY <1>5, <1>6, <1>7, SeqEqual
<1> QED BY <1>8 DEF left, right, h, n

(* A stretch of a sequence, and the stretch behind it. *)
LEMMA Stretch ==
  ASSUME NEW s \in Seq(Values), NEW p \in Nat, NEW k \in Nat, p + k <= Len(s)
  PROVE  /\ SubSeq(s, p + 1, p + k) \in Seq(Values)
         /\ Len(SubSeq(s, p + 1, p + k)) = k
         /\ \A i \in 1 .. k : SubSeq(s, p + 1, p + k)[i] = s[p + i]
<1> DEFINE m == p + 1
           n == p + k
<1>1. Len(s) \in Nat /\ \A i \in 1 .. Len(s) : s[i] \in Values
  BY LenProperties, ElementOfSeq
<1>2. m \in Int /\ n \in Int /\ \A i \in m .. n : s[i] \in Values
  BY <1>1
<1>3. /\ SubSeq(s, m, n) \in Seq(Values)
      /\ Len(SubSeq(s, m, n)) = IF m <= n THEN n - m + 1 ELSE 0
      /\ \A i \in 1 .. n - m + 1 : SubSeq(s, m, n)[i] = s[m + i - 1]
  BY <1>2, SubSeqProperties
<1>4. (IF m <= n THEN n - m + 1 ELSE 0) = k /\ n - m + 1 = k
  OBVIOUS
<1>5. \A i \in 1 .. k : m + i - 1 = p + i
  OBVIOUS
<1> HIDE DEF m, n
<1>6. SubSeq(s, m, n) \in Seq(Values) /\ Len(SubSeq(s, m, n)) = k
      /\ \A i \in 1 .. k : SubSeq(s, m, n)[i] = s[p + i]
  BY <1>3, <1>4, <1>5
<1> QED BY <1>6 DEF m, n

LEMMA StretchTwice ==
  ASSUME NEW s \in Seq(Values), NEW p \in Nat, NEW j \in Nat, NEW k \in Nat,
         p + j + k <= Len(s)
  PROVE  SubSeq(s, p + 1, p + j) \o SubSeq(s, p + j + 1, p + j + k)
           = SubSeq(s, p + 1, p + (j + k))
<1> DEFINE l == SubSeq(s, p + 1, p + j)
           q == SubSeq(s, p + j + 1, p + j + k)
           w == SubSeq(s, p + 1, p + (j + k))
<1>1. /\ Len(s) \in Nat /\ p + j \in Nat /\ j + k \in Nat
      /\ p + j <= Len(s) /\ p + (j + k) <= Len(s)
  BY LenProperties
<1>2. /\ l \in Seq(Values) /\ Len(l) = j /\ \A i \in 1 .. j : l[i] = s[p + i]
  BY <1>1, Stretch
<1>3. /\ q \in Seq(Values) /\ Len(q) = k /\ \A i \in 1 .. k : q[i] = s[p + j + i]
  BY <1>1, Stretch
<1>4. /\ w \in Seq(Values) /\ Len(w) = j + k
      /\ \A i \in 1 .. j + k : w[i] = s[p + i]
  BY <1>1, Stretch
<1> HIDE DEF l, q, w
<1>5. /\ l \o q \in Seq(Values) /\ Len(l \o q) = j + k
      /\ \A i \in 1 .. j + k : (l \o q)[i] = IF i <= j THEN l[i] ELSE q[i - j]
  BY <1>2, <1>3, ConcatProperties
<1>6. ASSUME NEW i \in 1 .. j + k PROVE (l \o q)[i] = w[i]
  <2>1. CASE i <= j
    <3>1. i \in 1 .. j
      BY <2>1
    <3> QED BY <1>2, <1>4, <1>5, <2>1, <3>1
  <2>2. CASE ~ (i <= j)
    <3>1. i - j \in 1 .. k /\ p + j + (i - j) = p + i
      BY <2>2
    <3> QED BY <1>3, <1>4, <1>5, <2>2, <3>1
  <2> QED BY <2>1, <2>2
<1>7. l \o q = w
  BY <1>4, <1>5, <1>6, SeqEqual
<1> QED BY <1>7 DEF l, q, w

(* A stretch of nothing. *)
LEMMA NoStretch ==
  ASSUME NEW s \in Seq(Values), NEW p \in Nat
  PROVE  /\ SubSeq(s, p + 1, p + 0) = <<>>
         /\ p >= Len(s) => SubSeq(s, p + 1, Len(s)) = <<>>
<1>1. Len(s) \in Nat
  BY LenProperties
<1>2. p + 1 > p + 0 /\ p + 0 \in Int /\ p + 1 \in Int
  OBVIOUS
<1>3. SubSeq(s, p + 1, p + 0) = <<>>
  BY <1>2, SubSeqEmpty
<1>4. ASSUME p >= Len(s) PROVE SubSeq(s, p + 1, Len(s)) = <<>>
  <2>1. p + 1 > Len(s)
    BY <1>1, <1>4
  <2> QED BY <1>1, <1>2, <2>1, SubSeqEmpty
<1> QED BY <1>3, <1>4

(* Outside the range the bytes belong to, an overlay is what is under it. *)
LEMMA OutsideSame ==
  ASSUME NEW b \in Seq(Values), NEW l \in Seq(Values), NEW o \in Nat, NEW n \in Nat,
         Len(l) <= n
  PROVE  \A c \in 1 .. Len(b) : c \notin o + 1 .. o + n => Overlay(b, o, l)[c] = b[c]
<1>1. Len(l) \in Nat /\ Len(b) \in Nat
  BY LenProperties
<1>2. \A c \in 1 .. Len(b) :
        Overlay(b, o, l)[c] = IF c - o \in 1 .. Len(l) THEN l[c - o] ELSE b[c]
  BY OverlaidGuest
<1>3. ASSUME NEW c \in 1 .. Len(b), c \notin o + 1 .. o + n
      PROVE  c - o \notin 1 .. Len(l)
  BY <1>1, <1>3
<1> QED BY <1>2, <1>3

-----------------------------------------------------------------------------
(* The readers beside the write *)

(* A reader renames and makes copies; no file that has been FILE changes. *)
LEMMA ReaderSpares ==
  ASSUME NEW t, Tools = {t}, ReadInv, ToolStep(t)
  PROVE  /\ versions \subseteq versions'
         /\ \A d \in namesMedia : d \in namesMedia' /\ data'[d.file] = data[d.file]
<1> USE DEF ReadInv
<1>1. \A d \in namesMedia : d.file \in Inodes /\ d.file # names.partial
  BY DEF TypeOK, FilesWhole
<1>2. CASE Read(t) \/ CopyFails(t) \/ CopyStays(t) \/ Exit(t) \/ Kill(t) \/ SyncAll(t)
  BY <1>2 DEF Read, CopyFails, CopyStays, Exit, Kill, SyncAll, fs
<1>3. CASE Create(t)
  <2>1. CASE names.partial # Absent
    BY <1>1, <1>3, <2>1 DEF Create, Contents, Opened, TypeOK
  <2>2. CASE names.partial = Absent
    <3>1. /\ Inodes \ InUse # {} /\ Contents(NewInode, <<>>) /\ Opened(t, NewInode)
          /\ Names([names EXCEPT !.partial = NewInode])
      BY <1>3, <2>2 DEF Create
    <3>2. NewInode \notin InUse
      BY <3>1 DEF NewInode
    <3> DEFINE i == NewInode
    <3> HIDE DEF i
    <3>3. \A d \in namesMedia : d.file # i
      BY <3>2 DEF InUse, i
    <3>4. data' = [data EXCEPT ![i] = <<>>] /\ versions' = versions
      BY <3>1 DEF Contents, Opened, i
    <3>5. namesMedia \subseteq namesMedia'
      BY <3>1 DEF Names
    <3> QED BY <1>1, <3>3, <3>4, <3>5 DEF TypeOK
  <2> QED BY <2>1, <2>2
<1>4. CASE CopyChunk(t)
  <2>1. /\ fd[t] = names.partial /\ UNCHANGED <<namesMedia, versions>>
        /\ \/ UNCHANGED data
           \/ \E f : data' = [data EXCEPT ![names.partial] = f]
    BY <1>4 DEF CopyChunk, Copying, CopyInv, Contents
  <2> QED BY <1>1, <2>1 DEF TypeOK
<1>5. CASE SetLength(t)
  <2>1. /\ fd[t] = names.partial /\ UNCHANGED <<namesMedia, versions>>
        /\ \E f : data' = [data EXCEPT ![names.partial] = f]
    BY <1>5 DEF SetLength, Copied, CopyInv, Contents
  <2> QED BY <1>1, <2>1 DEF TypeOK
<1>6. CASE Rename(t) \/ RemovePartial(t)
  BY <1>6 DEF Rename, RemovePartial, Names
<1> QED BY <1>2, <1>3, <1>4, <1>5, <1>6 DEF ToolStep

LEMMA ReaderBeside ==
  ASSUME NEW t, Tools = {t}, ReadInv, WriteInv, ToolStep(t), UNCHANGED writer
  PROVE  WriteInv'
<1> USE DEF WriteInv
<1>1. /\ versions \subseteq versions'
      /\ \A d \in namesMedia : d \in namesMedia' /\ data'[d.file] = data[d.file]
  BY ReaderSpares
<1>2. UNCHANGED <<guest, durable, feed, wpc, ask, input, buffered, length, done,
                  base, landed, writes, changes>>
  BY DEF writer, call
<1>3. WriteTypeOK' /\ Unstarted' /\ GuestKept' /\ OnlyTheRange' /\ DoneIsDurable'
  BY <1>2 DEF WriteTypeOK, Unstarted, GuestKept, OnlyTheRange, DoneIsDurable
<1>4. InputKept'
  BY <1>1, <1>2 DEF InputKept
<1>5. InputTaken'
  <2>1. wpc = "stream" /\ ask.from = "file" => data'[input] = data[input]
    BY <1>1 DEF InputKept
  <2>2. wpc = "stream" /\ ask.from \in {"file", "pipe"} => Stdin' = Stdin
    BY <1>2, <2>1 DEF Stdin
  <2> QED BY <1>2, <2>2 DEF InputTaken, BeginningOf
<1>6. TakesOneInput'
  BY <1>1, <1>2 DEF TakesOneInput
<1> QED BY <1>3, <1>4, <1>5, <1>6

(* The call is over, however it came to be. *)
LEMMA CallOver ==
  ASSUME EndCall,
         guest' \in Seq(Values), Len(guest') = size,
         durable' \in Seq(Values), Len(durable') = size, feed' \in Seq(Values)
  PROVE  WriteInv'
<1>1. <<>> \in Seq(Values) /\ 0 \in Nat
  BY EmptySeq
<1>2. /\ wpc' = "idle" /\ buffered' = <<>> /\ landed' = <<>>
      /\ length' = 0 /\ done' = 0
  BY DEF EndCall
<1> QED BY <1>1, <1>2
        DEF WriteInv, WriteTypeOK, WriteSteps, InputKept, Unstarted, GuestKept,
            InputTaken, OnlyTheRange, TakesOneInput, DoneIsDurable

LEMMA PowerEnds ==
  ASSUME WriteInv, LoseUnflushed
  PROVE  WriteInv'
<1> USE DEF WriteInv
<1>1. PICK kept \in SUBSET {c \in DOMAIN guest : guest[c] # durable[c]} :
        guest' = [c \in DOMAIN guest |-> IF c \in kept THEN guest[c] ELSE durable[c]]
  BY DEF LoseUnflushed
<1>2. /\ DOMAIN guest = 1 .. size /\ size \in Nat
      /\ \A c \in 1 .. size : guest[c] \in Values /\ durable[c] \in Values
  BY LenProperties, ElementOfSeq, WriteConstants DEF WriteTypeOK
<1>3. guest' \in [1 .. size -> Values]
  BY <1>1, <1>2
<1>4. guest' \in Seq(Values) /\ Len(guest') = size
  BY <1>2, <1>3, Row
<1>5. EndCall /\ durable' = guest' /\ feed' = feed
  BY DEF LoseUnflushed
<1> QED BY <1>4, <1>5, CallOver DEF WriteTypeOK

-----------------------------------------------------------------------------
(* The steps of the write *)

LEMMA StdinIsFile ==
  ASSUME ReadInv, WriteInv, wpc \in {"check", "stream"}
  PROVE  Stdin \in Seq(Values)
<1>1. CASE ask.from = "file"
  <2>1. input \in Inodes
    BY <1>1 DEF WriteInv, InputKept, ReadInv, TypeOK
  <2> QED BY <1>1, <2>1 DEF Stdin, ReadInv, TypeOK
<1>2. CASE ask.from # "file"
  BY <1>2 DEF Stdin, WriteInv, WriteTypeOK
<1> QED BY <1>1, <1>2

LEMMA StepWrite ==
  ASSUME ReadInv, WriteInv, NEW q \in Asks, Write(q)
  PROVE  WriteInv'
<1> USE DEF WriteInv
<1>1. /\ wpc = "idle" /\ wpc' = (IF q.offset > size THEN "refused" ELSE "check")
      /\ ask' = q /\ base' = guest
      /\ input' = (IF q.from = "file" THEN names.file ELSE Absent)
      /\ UNCHANGED <<vars, guest, durable, feed, buffered, length, done, landed>>
  BY DEF Write
<1>2. /\ landed' = <<>> /\ length' = 0 /\ done' = 0
      /\ wpc' \in {"refused", "check"} /\ q.offset \in Nat /\ size \in Nat
  BY <1>1, WriteConstants DEF Unstarted
<1>3. WriteTypeOK'
  BY <1>1, <1>2 DEF WriteTypeOK, WriteSteps
<1>4. InputKept'
  <2>1. names \in namesMedia /\ UNCHANGED namesMedia
    BY <1>1 DEF ReadInv, TypeOK, vars, fs
  <2> QED BY <1>1, <2>1 DEF InputKept
<1>5. GuestKept'
  BY <1>1, <1>2 DEF GuestKept
<1> QED BY <1>1, <1>2, <1>3, <1>4, <1>5
        DEF Unstarted, InputTaken, OnlyTheRange, TakesOneInput, DoneIsDurable

(* A command that is refused, or fails outside write_at, leaves the guest. *)
LEMMA Refused ==
  ASSUME WriteInv, wpc = "check", wpc' = "refused",
         UNCHANGED <<guest, durable, feed, ask, base, landed, length, done>>,
         buffered' \in Seq(Values)
  PROVE  WriteInv'
<1> USE DEF WriteInv
<1>1. guest' = base'
  BY DEF GuestKept
<1>2. WriteTypeOK'
  BY DEF WriteTypeOK, WriteSteps
<1> QED BY <1>1, <1>2
        DEF InputKept, Unstarted, GuestKept, InputTaken, OnlyTheRange,
            TakesOneInput, DoneIsDurable

(* The length is accepted, and nothing is written yet. *)
LEMMA Accepted ==
  ASSUME WriteInv, wpc = "check", wpc' = "stream",
         UNCHANGED <<namesMedia, guest, durable, feed, ask, input, base, landed, done>>,
         buffered' \in Seq(Values), length' \in Nat, ask.from # "image",
         Stdin' \in Seq(Values),
         ask.from \in {"file", "pipe"} => length' = Larger(Len(Stdin') - ask.pos, 0)
  PROVE  WriteInv'
<1> USE DEF WriteInv
<1>1. /\ landed = <<>> /\ done = 0 /\ guest = base /\ ask.offset <= size
      /\ ask \in Asks /\ base \in Seq(Values) /\ Len(<<>>) = 0
  BY EmptySeq DEF Unstarted, GuestKept, WriteTypeOK
<1>2. ask.offset \in Nat /\ ask.pos \in Nat
  BY <1>1, WriteConstants
<1>3. WriteTypeOK'
  BY DEF WriteTypeOK, WriteSteps
<1>4. InputKept'
  BY DEF InputKept
<1>5. GuestKept'
  BY <1>1, <1>2, OverlayNothing DEF GuestKept
<1>6. InputTaken'
  <2>1. SubSeq(Stdin', ask.pos + 1, ask.pos + 0) = <<>>
    BY <1>2, NoStretch
  <2> QED BY <1>1, <2>1 DEF InputTaken, BeginningOf
<1> QED BY <1>1, <1>3, <1>4, <1>5, <1>6
        DEF Unstarted, OnlyTheRange, TakesOneInput, DoneIsDurable

LEMMA StepCheckLength ==
  ASSUME ReadInv, WriteInv, CheckLength
  PROVE  WriteInv'
<1> DEFINE len == Larger(Len(Stdin) - ask.pos, 0)
<1>1. /\ wpc = "check" /\ ask.from \in {"file", "feed"} /\ UNCHANGED buffered
      /\ Accept(len)
  BY DEF CheckLength
<1>2. Stdin \in Seq(Values) /\ buffered \in Seq(Values) /\ ask.pos \in Nat
  BY <1>1, StdinIsFile, WriteConstants DEF WriteInv, WriteTypeOK
<1>3. len \in Nat
  BY <1>2, LenProperties DEF Larger
<1>4. CASE Proceed("refused") /\ UNCHANGED length
  BY <1>1, <1>2, <1>4, Refused DEF Proceed
<1>5. CASE Proceed("stream") /\ length' = len
  <2>1. /\ wpc' = "stream"
        /\ UNCHANGED <<namesMedia, data, guest, durable, feed, ask, input, base,
                       landed, done>>
    BY <1>5 DEF Proceed, vars, fs
  <2>2. Stdin' = Stdin
    BY <1>1, <2>1 DEF Stdin
  <2> QED BY <1>1, <1>2, <1>3, <1>5, <2>1, <2>2, Accepted
<1> QED BY <1>1, <1>4, <1>5 DEF Accept

LEMMA StepDrainPipe ==
  ASSUME ReadInv, WriteInv, DrainPipe
  PROVE  WriteInv'
<1>1. PICK q \in PipeData :
        /\ buffered' = SubSeq(q, 1, Smaller(Len(q), room + 1))
        /\ Accept(Len(buffered'))
  BY DEF DrainPipe
<1>2. /\ wpc = "check" /\ ask.from = "pipe" /\ ask \in Asks /\ ask.offset <= size
  BY DEF DrainPipe, WriteInv, GuestKept, WriteTypeOK
<1>3. ask.offset \in Nat /\ ask.pos = 0 /\ size \in Nat /\ q \in Seq(Values)
  BY <1>2, WriteConstants
<1>4. buffered' \in Seq(Values)
  <2> DEFINE n == Smaller(Len(q), room + 1)
  <2>1. n \in Nat /\ n <= Len(q)
    BY <1>2, <1>3, LenProperties DEF Smaller, room
  <2> HIDE DEF n
  <2>2. SubSeq(q, 0 + 1, 0 + n) \in Seq(Values)
    BY <1>3, <2>1, Stretch
  <2>3. 0 + 1 = 1 /\ 0 + n = n
    BY <2>1
  <2> QED BY <1>1, <2>2, <2>3 DEF n
<1>5. Len(buffered') \in Nat
  BY <1>4, LenProperties
<1>6. CASE Proceed("refused") /\ UNCHANGED length
  BY <1>2, <1>4, <1>6, Refused DEF Proceed
<1>7. CASE Proceed("stream") /\ length' = Len(buffered')
  <2>1. /\ wpc' = "stream"
        /\ UNCHANGED <<namesMedia, data, guest, durable, feed, ask, input, base,
                       landed, done>>
    BY <1>7 DEF Proceed, vars, fs
  <2>2. Stdin' = buffered'
    BY <1>2, <2>1 DEF Stdin
  <2>3. length' = Larger(Len(Stdin') - ask.pos, 0)
    BY <1>3, <1>5, <1>7, <2>2 DEF Larger
  <2> QED BY <1>2, <1>4, <1>5, <1>7, <2>1, <2>2, <2>3, Accepted
<1> QED BY <1>1, <1>6, <1>7 DEF Accept

(* A write that is streaming: its numbers, and the chunk in front of it. *)
LEMMA Streaming ==
  ASSUME ReadInv, WriteInv, wpc = "stream"
  PROVE  /\ ask \in Asks /\ ask.offset \in Nat /\ ask.pos \in Nat /\ size \in Nat
         /\ Stdin \in Seq(Values) /\ Len(Stdin) \in Nat
         /\ base \in Seq(Values) /\ Len(base) = size
         /\ landed \in Seq(Values) /\ Len(landed) = done /\ done \in Nat
         /\ length \in Nat /\ done <= length
         /\ guest = Overlay(base, ask.offset, landed)
         /\ \A k \in 0 .. Ahead(Stdin, length) :
              /\ k \in Nat /\ done + k <= length
              /\ NextChunk(Stdin, k) \in Seq(Values)
              /\ Len(NextChunk(Stdin, k)) = k
              /\ k > 0 => ask.pos + done + k <= Len(Stdin)
         /\ Ahead(Stdin, length) = 0 =>
              done = length \/ Len(Stdin) - ask.pos - done <= 0
<1>1. /\ ask \in Asks /\ ask.offset \in Nat /\ ask.pos \in Nat /\ size \in Nat
      /\ CHUNK \in Nat \ {0}
  BY WriteConstants DEF WriteInv, WriteTypeOK
<1>2. Stdin \in Seq(Values) /\ Len(Stdin) \in Nat
  BY StdinIsFile, LenProperties
<1>3. /\ base \in Seq(Values) /\ Len(base) = size
      /\ landed \in Seq(Values) /\ Len(landed) = done /\ done \in Nat
      /\ length \in Nat /\ done <= length
      /\ guest = Overlay(base, ask.offset, landed)
  BY DEF WriteInv, WriteTypeOK, GuestKept
<1> DEFINE s == Stdin
           p == ask.pos + done
<1>4. p \in Nat /\ s \in Seq(Values) /\ Len(s) \in Nat
  BY <1>1, <1>2, <1>3
<1>5. Ahead(s, length) = Smaller(Smaller(CHUNK, length - done),
                                 Larger(Len(s) - ask.pos - done, 0))
  BY DEF Ahead
<1> HIDE DEF s
<1>6. ASSUME NEW k \in 0 .. Ahead(s, length)
      PROVE  /\ k \in Nat /\ done + k <= length
             /\ k > 0 => p + k <= Len(s)
  <2>1. ask.pos \in Nat /\ CHUNK \in Nat
    BY <1>1, WriteAssumption
  <2>2. Ahead(s, length) = Smaller(Smaller(CHUNK, length - done),
                                   Larger(Len(s) - p, 0))
    BY <1>3, <1>4, <1>5, <2>1
  <2> HIDE DEF p
  <2>3. Ahead(s, length) <= length - done
    BY <1>3, <1>4, <2>1, <2>2 DEF Smaller, Larger
  <2>4. Ahead(s, length) <= Larger(Len(s) - p, 0) /\ Ahead(s, length) \in Int
    BY <1>3, <1>4, <2>1, <2>2 DEF Smaller, Larger
  <2> QED BY <1>3, <1>4, <2>3, <2>4 DEF Larger
<1>7. ASSUME NEW k \in 0 .. Ahead(s, length)
      PROVE  NextChunk(s, k) \in Seq(Values) /\ Len(NextChunk(s, k)) = k
  <2>1. k \in Nat /\ NextChunk(s, k) = SubSeq(s, p + 1, p + k)
    BY <1>6 DEF NextChunk
  <2> HIDE DEF p
  <2>2. CASE k > 0
    <3>1. s \in Seq(Values) /\ p \in Nat /\ k \in Nat /\ p + k <= Len(s)
      BY <1>4, <1>6, <2>1, <2>2
    <3>2. SubSeq(s, p + 1, p + k) \in Seq(Values) /\ Len(SubSeq(s, p + 1, p + k)) = k
      BY <3>1, Stretch, Zenon
    <3> QED BY <2>1, <3>2
  <2>3. CASE k = 0
    <3>1. SubSeq(s, p + 1, p + 0) = <<>>
      BY <1>4, NoStretch, Zenon
    <3> QED BY <2>1, <2>3, <3>1, EmptySeq
  <2> QED BY <2>1, <2>2, <2>3
<1>8. Ahead(s, length) = 0 => done = length \/ Len(s) - ask.pos - done <= 0
  BY <1>1, <1>3, <1>4, <1>5 DEF Smaller, Larger
<1> QED BY <1>1, <1>2, <1>3, <1>6, <1>7, <1>8 DEF s

LEMMA StepStream ==
  ASSUME ReadInv, WriteInv, Stream
  PROVE  WriteInv'
<1>1. wpc = "stream"
  BY DEF Stream, StreamFrom
<1>2. PICK k \in 1 .. Ahead(Stdin, length) : Land(NextChunk(Stdin, k), "stream")
  BY DEF Stream, StreamFrom
<1> DEFINE s == Stdin
           q == NextChunk(s, k)
<1>3. /\ ask \in Asks /\ ask.offset \in Nat /\ ask.pos \in Nat
      /\ s \in Seq(Values) /\ Len(s) \in Nat
      /\ base \in Seq(Values) /\ Len(base) = size
      /\ landed \in Seq(Values) /\ Len(landed) = done /\ done \in Nat
      /\ length \in Nat
      /\ guest = Overlay(base, ask.offset, landed)
      /\ k \in Nat /\ k > 0 /\ done + k <= length
      /\ q \in Seq(Values) /\ Len(q) = k
      /\ ask.pos + done + k <= Len(s)
  <2>1. k \in 0 .. Ahead(Stdin, length) /\ k > 0
    OBVIOUS
  <2> QED BY <1>1, <2>1, Streaming
<1>4. q = SubSeq(s, ask.pos + done + 1, ask.pos + done + k)
  BY DEF NextChunk
<1>5. /\ guest' = Overlay(guest, ask.offset + done, q)
      /\ landed' = landed \o q /\ done' = done + k /\ wpc' = "stream"
      /\ UNCHANGED <<namesMedia, data, durable, feed, ask, input, buffered, length, base>>
  BY <1>2, <1>3 DEF Land, vars, fs
<1>6. Stdin' = s
  BY <1>5 DEF Stdin
<1> HIDE DEF s, q
<1>7. landed' \in Seq(Values) /\ Len(landed') = done' /\ done' \in Nat
  <2>1. landed \in Seq(Values) /\ q \in Seq(Values)
    BY <1>3
  <2>2. landed \o q \in Seq(Values) /\ Len(landed \o q) = Len(landed) + Len(q)
    BY <2>1, ConcatProperties, Zenon
  <2>3. done' = Len(landed) + Len(q) /\ done' \in Nat
    BY <1>3, <1>5
  <2> QED BY <1>5, <2>2, <2>3
<1>8. guest' = Overlay(base, ask.offset, landed')
  <2>1. Overlay(Overlay(base, ask.offset, landed), ask.offset + Len(landed), q)
          = Overlay(base, ask.offset, landed \o q)
    <3>1. ask.offset \in Nat /\ base \in Seq(Values) /\ landed \in Seq(Values)
          /\ q \in Seq(Values)
      BY <1>3
    <3> QED BY <3>1, OverlayTwice, ZenonT(60)
  <2> QED BY <1>3, <1>5, <2>1
<1>9. guest' \in Seq(Values) /\ Len(guest') = size
  BY <1>3, <1>7, <1>8, OverlaidGuest
<1>10. WriteTypeOK'
  BY <1>1, <1>5, <1>7, <1>9 DEF WriteInv, WriteTypeOK
<1>11. InputKept' /\ Unstarted' /\ TakesOneInput' /\ DoneIsDurable'
  BY <1>1, <1>5 DEF WriteInv, InputKept, Unstarted, TakesOneInput, DoneIsDurable
<1>12. GuestKept'
  BY <1>1, <1>3, <1>5, <1>7, <1>8 DEF WriteInv, GuestKept
<1>13. InputTaken'
  <2>1. ask.from # "image"
    BY <1>1 DEF WriteInv, InputTaken
  <2>2. ASSUME ask.from \in {"file", "pipe"} PROVE BeginningOf(s)'
    <3>1. /\ length = Larger(Len(s) - ask.pos, 0)
          /\ landed = SubSeq(s, ask.pos + 1, ask.pos + done)
      BY <1>1, <2>2 DEF WriteInv, InputTaken, BeginningOf, s
    <3>2. landed' = SubSeq(s, ask.pos + 1, ask.pos + (done + k))
      <4>1. SubSeq(s, ask.pos + 1, ask.pos + done)
              \o SubSeq(s, ask.pos + done + 1, ask.pos + done + k)
              = SubSeq(s, ask.pos + 1, ask.pos + (done + k))
        <5>1. /\ s \in Seq(Values) /\ ask.pos \in Nat /\ done \in Nat /\ k \in Nat
              /\ ask.pos + done + k <= Len(s)
          BY <1>3
        <5> QED BY <5>1, StretchTwice, Zenon
      <4> QED BY <1>4, <1>5, <3>1, <4>1
    <3> QED BY <1>5, <1>6, <3>1, <3>2 DEF BeginningOf, s
  <2> QED BY <1>5, <1>6, <2>1, <2>2 DEF InputTaken, s
<1>14. OnlyTheRange'
  <2>1. \A c \in 1 .. size : c \notin ask.offset + 1 .. ask.offset + length =>
                              Overlay(base, ask.offset, landed')[c] = base[c]
    <3> DEFINE l == landed'
    <3>1. l \in Seq(Values) /\ Len(l) <= length
      BY <1>3, <1>5, <1>7
    <3> HIDE DEF l
    <3>2. \A c \in 1 .. Len(base) : c \notin ask.offset + 1 .. ask.offset + length =>
                                   Overlay(base, ask.offset, l)[c] = base[c]
      BY <1>3, <3>1, OutsideSame
    <3> QED BY <1>3, <3>2 DEF l
  <2> QED BY <1>5, <1>8, <2>1 DEF OnlyTheRange
<1> QED BY <1>10, <1>11, <1>12, <1>13, <1>14 DEF WriteInv

LEMMA StepWriteFails ==
  ASSUME ReadInv, WriteInv, WriteFails
  PROVE  WriteInv'
<1>1. wpc = "stream" /\ wpc' = "failed"
  BY DEF WriteFails
<1>2. PICK k \in 0 .. Ahead(Stdin, length) :
        guest' = Overlay(guest, ask.offset + done, NextChunk(Stdin, k))
  BY DEF WriteFails
<1> DEFINE q == NextChunk(Stdin, k)
           at1 == ask.offset + done
<1>3. /\ ask.offset \in Nat /\ done \in Nat /\ length \in Nat /\ size \in Nat
      /\ q \in Seq(Values) /\ Len(q) = k /\ k \in Nat /\ done + k <= length
      /\ guest \in Seq(Values) /\ Len(guest) = size
  BY <1>1, Streaming DEF WriteInv, WriteTypeOK
<1>4. UNCHANGED <<durable, feed, ask, input, buffered, length, done, base, landed>>
  BY DEF WriteFails
<1>5. at1 \in Nat /\ guest' = Overlay(guest, at1, q)
  BY <1>2, <1>3
<1> HIDE DEF q, at1
<1>6. guest' \in Seq(Values) /\ Len(guest') = size
  BY <1>3, <1>5, OverlaidGuest
<1>7. WriteTypeOK'
  BY <1>1, <1>4, <1>6 DEF WriteInv, WriteTypeOK, WriteSteps
<1>8. OnlyTheRange'
  <2>1. \A c \in 1 .. size : c \notin at1 + 1 .. at1 + k => guest'[c] = guest[c]
    <3>1. \A c \in 1 .. Len(guest) :
            c \notin at1 + 1 .. at1 + k => Overlay(guest, at1, q)[c] = guest[c]
      BY <1>3, <1>5, OutsideSame
    <3> QED BY <1>3, <1>5, <3>1
  <2>2. ASSUME NEW c \in 1 .. size, c \notin ask.offset + 1 .. ask.offset + length
        PROVE  c \notin at1 + 1 .. at1 + k
    BY <1>3, <2>2 DEF at1
  <2>3. \A c \in 1 .. size :
          c \notin ask.offset + 1 .. ask.offset + length => guest[c] = base[c]
    BY <1>1 DEF WriteInv, OnlyTheRange
  <2> QED BY <1>4, <2>1, <2>2, <2>3 DEF OnlyTheRange
<1> QED BY <1>1, <1>7, <1>8
        DEF WriteInv, InputKept, Unstarted, GuestKept, InputTaken, TakesOneInput,
            DoneIsDurable

LEMMA StepFlush ==
  ASSUME ReadInv, WriteInv, Flush
  PROVE  WriteInv'
<1> DEFINE s == Stdin
           v == data[input]
           p == ask.pos
<1>1. /\ wpc = "stream" /\ Ahead(s, length) = 0 /\ wpc' = "done" /\ durable' = guest
      /\ UNCHANGED <<versions, guest, feed, ask, input, buffered, length, done, base, landed>>
  BY DEF Flush, AtEnd, vars
<1>2. /\ p \in Nat /\ s \in Seq(Values) /\ Len(s) \in Nat
      /\ done \in Nat /\ length \in Nat /\ done <= length /\ Len(landed) = done
      /\ guest = Overlay(base, ask.offset, landed)
      /\ done = length \/ Len(s) - p - done <= 0
  BY <1>1, Streaming
<1>3. WriteTypeOK' /\ InputKept' /\ Unstarted' /\ GuestKept' /\ InputTaken'
  BY <1>1, <1>2
     DEF WriteInv, WriteTypeOK, WriteSteps, InputKept, Unstarted, GuestKept, InputTaken
<1>4. OnlyTheRange' /\ DoneIsDurable'
  BY <1>1, <1>2 DEF WriteInv, OnlyTheRange, DoneIsDurable
<1>5. ASSUME ask.from \in {"file", "pipe"}
      PROVE  landed = SubSeq(s, p + 1, Len(s))
  <2>1. /\ length = Larger(Len(s) - p, 0)
        /\ landed = SubSeq(s, p + 1, p + done)
    BY <1>1, <1>5 DEF WriteInv, InputTaken, BeginningOf
  <2> HIDE DEF s, p
  <2>2. CASE p < Len(s)
    <3>1. p + done = Len(s)
      BY <1>2, <2>1, <2>2 DEF Larger
    <3> QED BY <2>1, <3>1
  <2>3. CASE ~ (p < Len(s))
    <3>1. done = 0 /\ p >= Len(s)
      BY <1>2, <2>1, <2>3 DEF Larger
    <3>2. SubSeq(s, p + 1, p + 0) = <<>> /\ SubSeq(s, p + 1, Len(s)) = <<>>
      BY <1>2, <3>1, NoStretch
    <3> QED BY <2>1, <3>1, <3>2
  <2> QED BY <2>2, <2>3
<1>6. ask.from = "file" => \E w \in versions : landed = SubSeq(w, p + 1, Len(w))
  <2> SUFFICES ASSUME ask.from = "file"
               PROVE  \E w \in versions : landed = SubSeq(w, p + 1, Len(w))
    OBVIOUS
  <2>1. v \in versions
    BY <1>1 DEF WriteInv, InputKept, ReadInv, FilesWhole
  <2>2. s = v
    BY DEF Stdin
  <2> HIDE DEF s, v, p
  <2> QED BY <1>5, <2>1, <2>2
<1>7. ask.from = "pipe" => landed = buffered
  <2> SUFFICES ASSUME ask.from = "pipe" PROVE landed = buffered
    OBVIOUS
  <2>1. s = buffered /\ buffered \in Seq(Values)
    BY DEF Stdin, WriteInv, WriteTypeOK
  <2>2. p = 0
    BY <1>1, WriteConstants DEF WriteInv, WriteTypeOK
  <2>3. SubSeq(s, 1, Len(s)) = s
    BY <1>2, SubSeqFull
  <2> HIDE DEF s, p
  <2>4. p + 1 = 1
    BY <2>2
  <2> QED BY <1>5, <2>1, <2>3, <2>4
<1>8. TakesOneInput'
  BY <1>1, <1>2, <1>6, <1>7 DEF TakesOneInput
<1> QED BY <1>3, <1>4, <1>8 DEF WriteInv

LEMMA StepCallFails ==
  ASSUME WriteInv, CallFails
  PROVE  WriteInv'
<1>1. /\ wpc \in {"check", "stream"} /\ wpc' = "failed"
      /\ UNCHANGED <<guest, durable, feed, ask, input, buffered, length, done, base, landed>>
  BY DEF CallFails
<1>2. WriteTypeOK' /\ OnlyTheRange'
  BY <1>1 DEF WriteInv, WriteTypeOK, WriteSteps, OnlyTheRange
<1> QED BY <1>1, <1>2
        DEF WriteInv, InputKept, Unstarted, GuestKept, InputTaken, TakesOneInput,
            DoneIsDurable

LEMMA StepChangeFeed ==
  ASSUME WriteInv, ChangeFeed
  PROVE  WriteInv'
<1> USE DEF WriteInv
<1>1. /\ ask.from = "feed" /\ wpc \in {"check", "stream"}
      /\ UNCHANGED <<namesMedia, versions, guest, durable, wpc, ask, input, buffered,
                     length, done, base, landed>>
  BY DEF ChangeFeed, vars, fs, call
<1>2. feed' \in Seq(Values)
  <2>1. PICK len \in Lengths : feed' = Resized(feed, len)
    BY DEF ChangeFeed
  <2> QED BY <2>1, WriteConstants, ResizedFile DEF WriteTypeOK
<1>3. WriteTypeOK'
  BY <1>1, <1>2 DEF WriteTypeOK
<1> QED BY <1>1, <1>3
        DEF InputKept, Unstarted, GuestKept, InputTaken, OnlyTheRange, TakesOneInput,
            DoneIsDurable

LEMMA StepReturns ==
  ASSUME WriteInv, WriteReturns \/ KillWriter
  PROVE  WriteInv'
<1>1. EndCall /\ UNCHANGED <<guest, durable, feed>>
  BY DEF WriteReturns, KillWriter
<1> QED BY <1>1, CallOver DEF WriteInv, WriteTypeOK

LEMMA StepRefuseImage ==
  ASSUME WriteInv, RefuseImage
  PROVE  WriteInv'
BY Refused DEF RefuseImage, Proceed, WriteInv, WriteTypeOK

LEMMA WriterKeeps ==
  ASSUME ReadInv, WriteInv, WriteStep
  PROVE  ReadInv' /\ WriteInv'
<1>1. UNCHANGED <<fs, tool, versions>>
  BY DEF WriteStep, Write, RefuseImage, CheckLength, DrainPipe, Accept, Proceed,
         Stream, StreamFrom, Land, WriteFails, Flush, CallFails, WriteReturns,
         KillWriter, ChangeFeed, vars
<1>2. WriteInv'
  BY StepWrite, StepRefuseImage, StepCheckLength, StepDrainPipe, StepStream,
     StepWriteFails, StepFlush, StepCallFails, StepReturns, StepChangeFeed
  DEF WriteStep
<1> QED BY <1>1, <1>2, StutterKeeps

LEMMA InitWriteInv == WriteInit => ReadInv /\ WriteInv
<1> SUFFICES ASSUME WriteInit PROVE ReadInv /\ WriteInv
  OBVIOUS
<1>1. ReadInv
  BY InitReadInv DEF WriteInit
<1>2. <<>> \in Seq(Values) /\ 0 \in Nat
  BY EmptySeq
<1>3. WriteInv
  BY <1>2, WriteConstants
     DEF WriteInit, WriteInv, WriteTypeOK, WriteSteps, InputKept, Unstarted, GuestKept,
         InputTaken, OnlyTheRange, TakesOneInput, DoneIsDurable, size
<1> QED BY <1>1, <1>3

LEMMA WriteStutters ==
  ASSUME WriteInv, UNCHANGED allVars
  PROVE  WriteInv'
BY DEF WriteInv, allVars, vars, fs, writer, call, WriteTypeOK, InputKept, Unstarted,
       GuestKept, InputTaken, BeginningOf, Stdin, OnlyTheRange, TakesOneInput,
       DoneIsDurable

LEMMA PipelineKeeps ==
  ASSUME NEW t, Tools = {t}
  PROVE  ReadInv /\ WriteInv /\ [WriteNext]_allVars => ReadInv' /\ WriteInv'
<1> SUFFICES ASSUME ReadInv, WriteInv, [WriteNext]_allVars
             PROVE  ReadInv' /\ WriteInv'
  OBVIOUS
<1>1. CASE (\E s \in Tools : ToolStep(s)) /\ UNCHANGED writer
  BY <1>1, ToolKeeps, ReaderBeside
<1>2. CASE PowerLoss /\ LoseUnflushed
  BY <1>2, PowerKeeps, PowerEnds
<1>3. CASE WriteStep
  BY <1>3, WriterKeeps
<1>4. CASE UNCHANGED allVars
  <2>1. UNCHANGED <<fs, tool, versions>>
    BY <1>4 DEF allVars, vars
  <2> QED BY <1>4, <2>1, StutterKeeps, WriteStutters
<1> QED BY <1>1, <1>2, <1>3, <1>4 DEF WriteNext

-----------------------------------------------------------------------------
(* img write: nothing but the range that was checked is ever written, however
   stdin changes, whatever fails and wherever the command is stopped.      *)
THEOREM RangeKept ==
  ASSUME NEW t, Tools = {t}
  PROVE  WriteSpec => []OnlyTheRange
<1>1. WriteInv => OnlyTheRange
  BY DEF WriteInv
<1> QED BY <1>1, InitWriteInv, PipelineKeeps, PTL DEF WriteSpec

(* img write: what is reported as written is the whole of one input, though
   `img read -o FILE` replaced FILE on the way.                            *)
THEOREM InputWhole ==
  ASSUME NEW t, Tools = {t}
  PROVE  WriteSpec => []TakesOneInput
<1>1. WriteInv => TakesOneInput
  BY DEF WriteInv
<1> QED BY <1>1, InitWriteInv, PipelineKeeps, PTL DEF WriteSpec

(* img write: what is reported as written is in its place and flushed. *)
THEOREM ReportedIsDurable ==
  ASSUME NEW t, Tools = {t}
  PROVE  WriteSpec => []DoneIsDurable
<1>1. WriteInv => DoneIsDurable
  BY DEF WriteInv
<1> QED BY <1>1, InitWriteInv, PipelineKeeps, PTL DEF WriteSpec

(* img read -o FILE beside img write: FILE is always a whole version, the one
   before or the one asked for, whatever fails and wherever it stops.      *)
THEOREM FileStaysWhole ==
  ASSUME NEW t, Tools = {t}
  PROVE  WriteSpec => []FileIsWhole
BY InitWriteInv, PipelineKeeps, WholeFiles, PTL DEF WriteSpec

(* A copy is renamed over FILE only when it is whole and synced. *)
THEOREM CopyStaysWhole ==
  ASSUME NEW t, Tools = {t}
  PROVE  WriteSpec => []CopyIsWhole
BY InitWriteInv, PipelineKeeps, WholeFiles, PTL DEF WriteSpec

(* A command that returns an error leaves no copy behind. *)
THEOREM NoPartialStays ==
  ASSUME NEW t, Tools = {t}
  PROVE  WriteSpec => []NoPartialLeft
BY InitWriteInv, PipelineKeeps, WholeFiles, PTL DEF WriteSpec

=============================================================================
