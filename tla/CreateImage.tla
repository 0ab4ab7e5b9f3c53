----------------------------- MODULE CreateImage -----------------------------
(***************************************************************************)
(* `img create`, over create_fixed and create_dynamic: one call at a time  *)
(* on one path, each file call a step, with calls that fail part-way, kills*)
(* and power losses, against what open_inner makes of the file left there. *)
(* A file is a sequence of 512-byte sectors, each of them what it says to  *)
(* open_inner; sizes are in sectors.                                       *)
(***************************************************************************)
EXTENDS Integers, Sequences

CONSTANTS
  Asks,                    \* what the command may be asked for
  OldFiles,                \* what the path may hold before
  Missing,                 \* nothing is at the path
  exact,                   \* size_with_exact_geometry
  ENTRIES_PER_SECTOR,
  CHUNK_SECTORS,           \* BAT sectors to a write: 1 MiB of them
  MAX_CREATE_BAT_ENTRIES,
  MAX_FILE,                \* a file's length fits 64 bits below this
  MaxCreates, MaxFaults, MaxCrashes    \* bounds

ASSUME CreateAssumption ==
  /\ Asks \subseteq [kind : {"fixed", "dynamic"}, size : Nat, block : Nat \ {0},
                     force : BOOLEAN]
  /\ \A a \in Asks : a.size \in DOMAIN exact /\ exact[a.size] \in Nat
                     /\ exact[a.size] >= a.size
  /\ {ENTRIES_PER_SECTOR, CHUNK_SECTORS, MAX_CREATE_BAT_ENTRIES, MAX_FILE} \subseteq Nat \ {0}
  /\ {MaxCreates, MaxFaults, MaxCrashes} \subseteq Nat

VARIABLES
  file,        \* what the path holds
  before,      \* what a power loss may bring back in its place
  synced,      \* whether the file is on stable storage
  pc, ask, existed,
  left,        \* sectors of the BAT still to write
  asked,       \* history: what was ever asked for
  made,        \* history: what the last successful create made, if it stands
  creates, faults, crashes    \* counted against the bounds

disk == <<file, before, synced>>
bounds == <<creates, faults, crashes>>
vars == <<disk, pc, ask, existed, left, asked, made, bounds>>

CeilDiv(a, b) == (a + b - 1) \div b

-----------------------------------------------------------------------------
(* Sectors *)
Zeros == [is |-> "zeros"]
Torn == [is |-> "torn"]
Unallocated == [is |-> "table", end |-> 0]
Footer(kind, size) == [is |-> "footer", kind |-> kind, size |-> size]
Header(half, entries, block) ==
  [is |-> "header", half |-> half, entries |-> entries, block |-> block]

HEADER_OFFSET == 1
TableOffset == 3

(* The layout of what is asked for. *)
Size(a) == exact[a.size]
Entries(a) == CeilDiv(Size(a), a.block)
TableSectors(a) == CeilDiv(Entries(a), ENTRIES_PER_SECTOR)
FooterAt(a) == IF a.kind = "fixed" THEN Size(a) ELSE TableOffset + TableSectors(a)
FooterFor(a) == Footer(a.kind, Size(a))
HeaderFor(a) == <<Header(1, Entries(a), a.block), Header(2, Entries(a), a.block)>>

-----------------------------------------------------------------------------
(* What open_inner makes of a file *)
TailIsFooter(f) == f[Len(f)].is = "footer"
MirrorIsFooter(f) == Len(f) >= 2 /\ f[1].is = "footer" /\ f[1].kind = "dynamic"
FooterRead(f) == IF TailIsFooter(f) THEN f[Len(f)] ELSE f[1]

DataEnd(f) == IF TailIsFooter(f) \/ f[Len(f)].is = "torn" THEN Len(f) - 1 ELSE Len(f)

(* A BAT sector of zeros names blocks inside the metadata; one with blocks in
   it names none past `end`.                                               *)
TableAccepted(f, entries) ==
  /\ entries <= (Len(f) - TableOffset) * ENTRIES_PER_SECTOR
  /\ \A s \in TableOffset + 1 .. TableOffset + CeilDiv(entries, ENTRIES_PER_SECTOR) :
        f[s].is = "table" /\ f[s].end <= DataEnd(f)

Opens(f) ==
  /\ f # Missing
  /\ Len(f) > 0
  /\ TailIsFooter(f) \/ MirrorIsFooter(f)
  /\ FooterRead(f).kind = "dynamic" =>
       /\ Len(f) >= TableOffset
       /\ f[2].is = "header" /\ f[2].half = 1 /\ f[3] = [f[2] EXCEPT !.half = 2]
       /\ FooterRead(f).size <= f[2].entries * f[2].block
       /\ TableAccepted(f, f[2].entries)

(* An empty disk of the kind and size, as a reader sees it. *)
IsEmptyDisk(f, a) ==
  /\ FooterRead(f) = FooterFor(a)
  /\ IF a.kind = "fixed"
     THEN \A s \in 1 .. Size(a) : f[s] = Zeros
     ELSE /\ f[2].block = a.block
          /\ \A s \in TableOffset + 1 .. TableOffset + TableSectors(a) :
               f[s] = Unallocated

(* The whole image that is asked for. *)
Image(a) ==
  [s \in 1 .. FooterAt(a) + 1 |->
     IF s = FooterAt(a) + 1 THEN FooterFor(a)
     ELSE IF a.kind = "fixed" THEN Zeros
     ELSE IF s = 1 THEN FooterFor(a)
     ELSE IF s \in 2 .. 3 THEN HeaderFor(a)[s - 1]
     ELSE Unallocated]

-----------------------------------------------------------------------------
(* The file system: until a sync, a power loss leaves the file as it was before
   it was opened, or cut to nothing, or with any of the sectors written
   since.                                                                  *)
Remnants(f) ==
  IF f = Missing THEN {Missing}
  ELSE {<<>>} \cup {[s \in 1 .. Len(f) |-> IF s \in kept THEN f[s] ELSE Zeros] :
                       kept \in SUBSET (1 .. Len(f))}
Survivors == IF synced THEN {file} ELSE before \cup Remnants(file) \cup {file}

(* std: a file shortened, or filled up with zeros. *)
Resized(f, n) == [s \in 1 .. n |-> IF s <= Len(f) THEN f[s] ELSE Zeros]

(* Sectors written at an offset, past the end of the file if need be. *)
Larger(a, b) == IF a > b THEN a ELSE b
Written(f, at, q) ==
  [s \in 1 .. Larger(Len(f), at + Len(q)) |->
     IF s \in at + 1 .. at + Len(q) THEN q[s - at]
     ELSE IF s <= Len(f) THEN f[s] ELSE Zeros]

(* A failed write leaves whole sectors from the front, and a torn one. *)
FailedWrites(f, at, q) ==
  {Written(f, at, SubSeq(q, 1, k)) : k \in 0 .. Len(q)}
    \cup {Written(f, at, Append(SubSeq(q, 1, k), Torn)) : k \in 0 .. Len(q) - 1}

Quiet == UNCHANGED <<ask, existed, asked, made, bounds>>

NoAsk == [kind |-> "fixed", size |-> 0, block |-> 1, force |-> FALSE]
Idle ==
  /\ pc' = "idle"
  /\ ask' = NoAsk
  /\ existed' = FALSE
  /\ left' = 0

(* Any call of the library that returns an error brings the command to its
   clean-up.                                                               *)
Failing(leaves) ==
  /\ faults < MaxFaults
  /\ faults' = faults + 1
  /\ file' \in leaves
  /\ pc' = "cleanup"
  /\ UNCHANGED <<before, synced, ask, existed, left, asked, made, creates, crashes>>

Put(step, at, q, next) ==
  /\ pc = step
  /\ \/ /\ file' = Written(file, at, q)
        /\ pc' = next
        /\ UNCHANGED <<before, synced, left>>
        /\ Quiet
     \/ Failing(FailedWrites(file, at, q))

-----------------------------------------------------------------------------
(* The command and the two functions under it *)

(* The command's own checks: the existence of the file is looked at once. *)
Create(a) ==
  /\ pc = "idle"
  /\ creates < MaxCreates
  /\ creates' = creates + 1
  /\ a.size > 0
  /\ file # Missing => a.force
  /\ ask' = a
  /\ existed' = (file # Missing)
  /\ pc' = "open"
  /\ UNCHANGED <<disk, left, asked, made, faults, crashes>>

(* A table too large is refused before a file exists. *)
RefuseTable ==
  /\ pc = "open"
  /\ ask.kind = "dynamic" /\ Entries(ask) > MAX_CREATE_BAT_ENTRIES
  /\ pc' = "cleanup"
  /\ UNCHANGED <<disk, left>>
  /\ Quiet

Truncating == pc = "open" /\ (ask.kind = "dynamic" => Entries(ask) <= MAX_CREATE_BAT_ENTRIES)

Begin ==
  /\ before' = Survivors
  /\ synced' = FALSE
  /\ asked' = asked \cup {ask}
  /\ made' = {}
  /\ left' = TableSectors(ask)
  /\ pc' = "length"
  /\ UNCHANGED <<ask, existed, bounds>>

(* Mutant: the file is not truncated. *)
OpenKept ==
  /\ Truncating
  /\ file' = IF file = Missing THEN <<>> ELSE file
  /\ Begin

OpenTruncated ==
  /\ Truncating
  /\ file' = <<>>
  /\ Begin

OpenRefused == Truncating /\ Failing({file})

(* create_fixed adds the footer to the size only once the file is truncated:
   a sum that does not fit is an error that leaves the file empty.          *)
TooLong == ask.kind = "fixed" /\ Size(ask) + 1 >= MAX_FILE

RefuseOverflow ==
  /\ pc = "length"
  /\ TooLong
  /\ pc' = "cleanup"
  /\ UNCHANGED <<disk, left>>
  /\ Quiet

SetLength ==
  /\ pc = "length"
  /\ ~ TooLong
  /\ \/ /\ file' = Resized(file, FooterAt(ask) + 1)
        /\ pc' = IF ask.kind = "fixed" THEN "footer" ELSE "mirror"
        /\ UNCHANGED <<before, synced, left>>
        /\ Quiet
     \/ Failing({file})

WriteMirror == Put("mirror", 0, <<FooterFor(ask)>>, "header")

WriteHeader == Put("header", HEADER_OFFSET, HeaderFor(ask), "footer")

WriteFooter ==
  Put("footer", FooterAt(ask), <<FooterFor(ask)>>,
      IF ask.kind = "fixed" THEN "sync" ELSE "table")

(* The BAT, a chunk at a time, from where the last one ended. *)
TableAt == TableOffset + TableSectors(ask) - left
Chunk(n) == [s \in 1 .. n |-> Unallocated]
Smaller(a, b) == IF a < b THEN a ELSE b

WriteChunk(n) ==
  /\ pc = "table"
  /\ left > 0
  /\ \/ /\ file' = Written(file, TableAt, Chunk(n))
        /\ left' = left - Smaller(n, left)
        /\ UNCHANGED <<before, synced, pc>>
        /\ Quiet
     \/ Failing(FailedWrites(file, TableAt, Chunk(n)))

(* Mutant: the cursor stands still. *)
WriteTableStuck ==
  /\ pc = "table" /\ left > 0
  /\ file' = Written(file, TableAt, Chunk(1))
  /\ UNCHANGED <<before, synced, pc, left>>
  /\ Quiet

WriteTable == WriteChunk(Smaller(CHUNK_SECTORS, left))

TableWritten ==
  /\ pc = "table"
  /\ left = 0
  /\ pc' = "sync"
  /\ UNCHANGED <<disk, left>>
  /\ Quiet

(* Mutant: the file is closed without a sync. *)
SyncSkipped ==
  /\ pc = "sync"
  /\ pc' = "reopen"
  /\ UNCHANGED <<disk, left>>
  /\ Quiet

Sync ==
  /\ pc = "sync"
  /\ \/ /\ synced' = TRUE
        /\ before' = {}
        /\ pc' = "reopen"
        /\ UNCHANGED <<file, left>>
        /\ Quiet
     \/ Failing({file})

(* open_rw, the way any image is opened. *)
Reopen ==
  /\ pc = "reopen"
  /\ \/ /\ pc' = IF Opens(file) THEN "done" ELSE "cleanup"
        /\ made' = IF Opens(file) THEN {ask} ELSE {}
        /\ UNCHANGED <<disk, left, ask, existed, asked, bounds>>
     \/ Failing({file})

Remove ==
  /\ before' = Survivors
  /\ file' = Missing
  /\ synced' = FALSE

(* Mutant: the file is removed only where there was one. *)
CleanUpInverted ==
  /\ pc = "cleanup"
  /\ pc' = "failed"
  /\ IF existed /\ file # Missing THEN Remove ELSE UNCHANGED disk
  /\ UNCHANGED left
  /\ Quiet

(* Nothing half made is left where there was nothing, unless the removal fails
   too: its error is dropped.                                              *)
CleanUp ==
  /\ pc = "cleanup"
  /\ pc' = "failed"
  /\ IF ~ existed /\ file # Missing THEN Remove ELSE UNCHANGED disk
  /\ UNCHANGED left
  /\ Quiet

RemoveFails ==
  /\ pc = "cleanup"
  /\ ~ existed
  /\ faults < MaxFaults
  /\ faults' = faults + 1
  /\ pc' = "stuck"
  /\ UNCHANGED <<disk, left, ask, existed, asked, made, creates, crashes>>

Report ==
  /\ pc \in {"done", "failed", "stuck"}
  /\ Idle
  /\ UNCHANGED <<disk, asked, made, bounds>>

Kill ==
  /\ pc # "idle"
  /\ crashes < MaxCrashes
  /\ crashes' = crashes + 1
  /\ Idle
  /\ UNCHANGED <<disk, asked, made, creates, faults>>

PowerLoss ==
  /\ crashes < MaxCrashes
  /\ crashes' = crashes + 1
  /\ Idle
  /\ file' \in Survivors
  /\ before' = {}
  /\ synced' = TRUE
  /\ UNCHANGED <<asked, made, creates, faults>>

-----------------------------------------------------------------------------
Init ==
  /\ file \in OldFiles
  /\ before = {}
  /\ synced = TRUE
  /\ pc = "idle"
  /\ ask = NoAsk
  /\ existed = FALSE
  /\ left = 0
  /\ asked = {}
  /\ made = {}
  /\ creates = 0
  /\ faults = 0
  /\ crashes = 0

Proceed ==
  \/ RefuseTable \/ OpenTruncated \/ OpenRefused \/ RefuseOverflow \/ SetLength
  \/ WriteMirror \/ WriteHeader \/ WriteFooter \/ WriteTable \/ TableWritten
  \/ Sync \/ Reopen \/ CleanUp \/ RemoveFails \/ Report

Next == (\E a \in Asks : Create(a)) \/ Proceed \/ Kill \/ PowerLoss

Spec == Init /\ [][Next]_vars

(* The command's thread is run until it returns. *)
FairSpec == Spec /\ WF_vars(Proceed)

-----------------------------------------------------------------------------
(* Correctness *)

(* Whatever a failure, a kill or a power loss leaves at the path, now or later,
   is the file that was there, or nothing that opens, or an empty disk that
   was asked for: a half-made image never passes for another one, and no guest
   data of an image replaced shows through.                                *)
OpensAsAsked ==
  \A f \in Survivors :
    Opens(f) => f \in OldFiles \/ \E a \in asked : IsEmptyDisk(f, a)

(* A create that succeeded has left the whole image, both footers and all of
   the BAT, where no power loss can touch it, and open_inner takes it.     *)
CreatedIsWhole ==
  \A a \in made : Survivors = {Image(a)} /\ Opens(Image(a))

(* A create that failed leaves nothing where there was nothing. *)
NothingLeft == pc = "failed" /\ ~ existed => file = Missing

(* Every create comes back, however many chunks the BAT takes. *)
CreateEnds == pc # "idle" ~> pc = "idle"
-----------------------------------------------------------------------------
(* The inductive invariant behind OpensAsAsked and CreatedIsWhole *)

(* A file the command began for what is asked and did not finish: empty, or of
   its length, each sector still zero, or torn where the image is not zero,
   or in place.                                                            *)
PartOf(f, a) ==
  \/ f = <<>>
  \/ /\ DOMAIN f = 1 .. FooterAt(a) + 1
     /\ f = [s \in DOMAIN f |-> f[s]]
     /\ \A s \in DOMAIN f : \/ f[s] \in {Zeros, Image(a)[s]}
                            \/ f[s] = Torn /\ Image(a)[s] # Zeros

(* Nothing is ever at the path but what the path held before and such parts;
   what is not on stable storage is a part.                                *)
PartInv == file = Missing \/ \E a \in asked : PartOf(file, a)
TraceInv ==
  /\ asked \subseteq Asks
  /\ \A f \in before : f = Missing \/ f \in OldFiles \/ \E a \in asked : PartOf(f, a)
  /\ file \in OldFiles \/ PartInv
  /\ ~ synced => PartInv

(* The image with these sectors written, and the others still zero. *)
WithOnly(a, S) ==
  [s \in 1 .. FooterAt(a) + 1 |-> IF s \in S THEN Image(a)[s] ELSE Zeros]

(* How far a create has come is what it has written. *)
StageInv ==
  /\ pc # "idle" => ask \in Asks
  /\ pc \in {"length", "mirror", "header", "footer", "table", "sync", "reopen"}
       => ask \in asked /\ made = {}
  /\ pc \in {"length", "mirror", "header", "footer"} => left = TableSectors(ask)
  /\ pc = "length" => file = <<>>
  /\ pc = "mirror" => ask.kind = "dynamic" /\ file = WithOnly(ask, {})
  /\ pc = "header" => ask.kind = "dynamic" /\ file = WithOnly(ask, {1})
  /\ pc = "footer" =>
       file = WithOnly(ask, IF ask.kind = "fixed" THEN {} ELSE 1 .. TableOffset)
  /\ pc = "table" =>
       /\ ask.kind = "dynamic" /\ left \in 0 .. TableSectors(ask)
       /\ file = WithOnly(ask, (1 .. TableAt) \cup {FooterAt(ask) + 1})
  /\ pc \in {"sync", "reopen"} => file = Image(ask)
  /\ pc = "reopen" => synced

(* What a create made stays, until the file is opened again to be replaced; a
   command that comes to nothing before that knows it was there.           *)
MadeInv ==
  /\ \A a \in made : synced /\ file = Image(a) /\ Opens(Image(a))
  /\ made # {} /\ pc \in {"open", "cleanup"} => existed

CreateInv == TraceInv /\ StageInv /\ MadeInv
=============================================================================
