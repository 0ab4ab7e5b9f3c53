----------------------------- MODULE ParentChain -----------------------------
(***************************************************************************)
(* Differencing images: open_inner and open_parent following a chain of    *)
(* parents through a directory somebody else may change meanwhile, and a   *)
(* read of the opened chain falling through it layer by layer.  An open    *)
(* file is the image it was when opened, whatever its name means later.    *)
(* Guest addresses are sectors.                                            *)
(***************************************************************************)
EXTENDS Integers, Sequences

CONSTANTS
  Names,              \* file names in the child's directory
  NotNames,           \* parent names that are paths, empty or dots
  Missing,            \* no file has the name
  Images,             \* what a file may hold
  Directories,        \* the directory as the opener may find it
  None,               \* no layer has the sector: a zero
  MAX_PARENT_DEPTH,
  MaxChanges          \* bound: changes of the directory by others

Kinds == {"fixed", "dynamic", "differencing", "corrupt"}

(* An image is what it says of itself and its parent, its size in sectors,
   its block size, and which sectors it holds: all of them when fixed, those
   with their bitmap bit set in an allocated block otherwise.              *)
ASSUME ChainAssumption ==
  /\ MAX_PARENT_DEPTH \in Nat \ {0}
  /\ MaxChanges \in Nat
  /\ Missing \notin Images
  /\ None \notin Nat
  /\ \A x \in Images :
        /\ x.kind \in Kinds
        /\ x.kind = "differencing" => x.parent \in Names \cup NotNames
        /\ x.size \in Nat \ {0}
        /\ x.block \in Nat \ {0}
        /\ x.held \subseteq 0 .. x.size - 1
        /\ x.kind = "fixed" => x.held = 0 .. x.size - 1
  /\ Directories \subseteq [Names -> Images \cup {Missing}]

VARIABLES
  dir,               \* the directory
  step,              \* where the opener is
  layers,            \* devices opened so far, the child first
  depth_remaining,   \* as passed to open_inner
  owning_path,       \* whether the child was opened by path
  read,              \* the read_at call that answers for one sector
  changes            \* counted against the bound

opener == <<step, layers, depth_remaining, owning_path>>
vars == <<dir, opener, read, changes>>

Steps == {"closed", "parse", "exists", "device", "identity", "opened", "failed"}

Last == layers[Len(layers)]

(* parent_file_name *)
IsFileName(name) == name \in Names

Reads == [status : {"none", "pending", "given", "refused"}, layer : Nat,
          from : Nat, to : Nat, sector : Nat, found : Nat \cup {None}]
(* No call yet. *)
NoRead == [status |-> "none", layer |-> 0, from |-> 0, to |-> 0, sector |-> 0,
           found |-> None]

-----------------------------------------------------------------------------
(* open_inner, open_parent, check_parent_identity *)

Enter(image, depth) ==
  /\ layers' = Append(layers, image)
  /\ depth_remaining' = depth
  /\ step' = "parse"

(* VhdReader::open, open_rw by name; open_on_device of a device a caller has. *)
Open(n) ==
  /\ step = "closed"
  /\ IF dir[n] = Missing
     THEN step' = "failed" /\ UNCHANGED <<layers, depth_remaining, owning_path>>
     ELSE Enter(dir[n], MAX_PARENT_DEPTH) /\ owning_path' \in BOOLEAN
  /\ UNCHANGED <<dir, read, changes>>

GiveUp ==
  /\ step' = "failed"
  /\ UNCHANGED <<dir, layers, depth_remaining, owning_path, read, changes>>

TooDeep ==
  /\ step = "parse"
  /\ depth_remaining = 0
  /\ GiveUp

Corrupt ==
  /\ step = "parse"
  /\ depth_remaining > 0
  /\ Last.kind = "corrupt"
  /\ GiveUp

(* A differencing image on a bare device, or one whose parent's name is not a
   file name.                                                              *)
NoPathToParent ==
  /\ step = "parse"
  /\ depth_remaining > 0
  /\ Last.kind = "differencing"
  /\ ~ (owning_path /\ IsFileName(Last.parent))
  /\ GiveUp

NameParent ==
  /\ step = "parse"
  /\ depth_remaining > 0
  /\ Last.kind = "differencing"
  /\ owning_path /\ IsFileName(Last.parent)
  /\ step' = "exists"
  /\ UNCHANGED <<dir, layers, depth_remaining, owning_path, read, changes>>

(* An image without a parent ends the chain; the identities are checked on
   the way back.                                                           *)
EndOfChain ==
  /\ step = "parse"
  /\ depth_remaining > 0
  /\ Last.kind \in {"fixed", "dynamic"}
  /\ step' = "identity"
  /\ UNCHANGED <<dir, layers, depth_remaining, owning_path, read, changes>>

ParentMissing ==
  /\ step \in {"exists", "device"}
  /\ dir[Last.parent] = Missing
  /\ GiveUp

ParentExists ==
  /\ step = "exists"
  /\ dir[Last.parent] # Missing
  /\ step' = "device"
  /\ UNCHANGED <<dir, layers, depth_remaining, owning_path, read, changes>>

(* Mutant: the whole depth is passed on. *)
OpenParentUnbounded ==
  /\ step = "device"
  /\ dir[Last.parent] # Missing
  /\ Len(layers) <= MAX_PARENT_DEPTH + 2
  /\ Enter(dir[Last.parent], depth_remaining)
  /\ UNCHANGED <<dir, owning_path, read, changes>>

OpenParent ==
  /\ step = "device"
  /\ dir[Last.parent] # Missing
  /\ Enter(dir[Last.parent], depth_remaining - 1)
  /\ UNCHANGED <<dir, owning_path, read, changes>>

(* Mutant: only the child's own parent is checked. *)
IsParentOfChild(i) == i = 1 => layers[i + 1].id = layers[i].parent_id

IsParent(i) == layers[i + 1].id = layers[i].parent_id

CheckIdentity ==
  /\ step = "identity"
  /\ step' = IF \A i \in 1 .. Len(layers) - 1 : IsParent(i)
             THEN "opened" ELSE "failed"
  /\ UNCHANGED <<dir, layers, depth_remaining, owning_path, read, changes>>

(* The caller has the error, the reader is dropped, or the process ends. *)
Close ==
  /\ step # "closed"
  /\ step' = "closed"
  /\ layers' = <<>>
  /\ depth_remaining' = 0
  /\ owning_path' = TRUE
  /\ read' = NoRead
  /\ UNCHANGED <<dir, changes>>

(* Somebody removes, replaces or restores a file. *)
Change(n) ==
  /\ changes < MaxChanges
  /\ changes' = changes + 1
  /\ \E d \in Directories :
        /\ d[n] # dir[n]
        /\ dir' = [dir EXCEPT ![n] = d[n]]
  /\ UNCHANGED <<opener, read>>

-----------------------------------------------------------------------------
(* read_at of the chain, followed for one sector of the range asked for: at
   each layer, the call of read_at whose range has the sector.             *)

Layer == layers[read.layer]

(* A caller may ask for a sector too many. *)
ReadAt ==
  /\ step = "opened"
  /\ read.status # "pending"
  /\ \E s \in 0 .. layers[1].size :
       \E from \in 0 .. s, to \in s + 1 .. layers[1].size + 1 :
         read' = [status |-> "pending", layer |-> 1, from |-> from, to |-> to,
                  sector |-> s, found |-> None]
  /\ UNCHANGED <<dir, opener, changes>>

Pending == step = "opened" /\ read.status = "pending"

Return(status, found) ==
  /\ read' = [read EXCEPT !.status = status, !.found = found]
  /\ UNCHANGED <<dir, opener, changes>>

(* read_at's own check, which every layer makes. *)
InBounds == read.to <= Layer.size
OutOfBounds == Pending /\ ~ InBounds /\ Return("refused", None)

Hit ==
  /\ Pending
  /\ InBounds
  /\ read.sector \in Layer.held
  /\ Return("given", read.layer)

ParentSize == layers[read.layer + 1].size

(* Mutant: a run that passes the parent's end is zeros as a whole. *)
PastParentRun == read.layer < Len(layers) => read.to > ParentSize

(* read_block_unallocated fills with zeros where there is no parent, and the
   part of a run that lies past the parent's end.                          *)
PastParent == read.layer < Len(layers) => read.sector >= ParentSize

Hole ==
  /\ Pending
  /\ InBounds
  /\ read.sector \notin Layer.held
  /\ PastParent
  /\ Return("given", None)

(* The run [from, to) of the sector: all of the range that lies in its block
   and is absent with it.                                                  *)
Alike(s) ==
  /\ s \in read.from .. read.to - 1
  /\ s \div Layer.block = read.sector \div Layer.block
  /\ s \notin Layer.held
IsRun(from, to) ==
  /\ \A s \in from .. to - 1 : Alike(s)
  /\ ~ Alike(from - 1) /\ ~ Alike(to)

(* Mutant: a run is not cut at the parent's end. *)
Uncut(to) == to

(* The end of the range the parent is asked for. *)
CutAtParent(to) == IF to > ParentSize THEN ParentSize ELSE to

Defer ==
  /\ Pending
  /\ InBounds
  /\ read.sector \notin Layer.held
  /\ ~ PastParent
  /\ \E from \in read.from .. read.sector, to \in read.sector + 1 .. read.to :
       /\ IsRun(from, to)
       /\ read' = [read EXCEPT !.layer = read.layer + 1, !.from = from,
                               !.to = CutAtParent(to)]
  /\ UNCHANGED <<dir, opener, changes>>

-----------------------------------------------------------------------------
Init ==
  /\ dir \in Directories
  /\ step = "closed"
  /\ layers = <<>>
  /\ depth_remaining = 0
  /\ owning_path = TRUE
  /\ read = NoRead
  /\ changes = 0

Opening ==
  \/ TooDeep \/ Corrupt \/ NoPathToParent \/ NameParent \/ EndOfChain
  \/ ParentMissing \/ ParentExists \/ OpenParent \/ CheckIdentity

Reading == OutOfBounds \/ Hit \/ Hole \/ Defer

Next ==
  \/ \E n \in Names : Open(n) \/ Change(n)
  \/ Opening \/ ReadAt \/ Reading \/ Close

Spec == Init /\ [][Next]_vars

(* A call that opens is carried on by its thread.  Nobody is obliged to open,
   read, close or change anything.                                         *)
FairSpec == Spec /\ WF_vars(Opening)

-----------------------------------------------------------------------------
(* Correctness *)

(* Types: each open device has used up one of the depth, and a read stays in
   the chain and has its sector in its range.                              *)
TypeOK ==
  /\ dir \in [Names -> Images \cup {Missing}]
  /\ step \in Steps
  /\ layers \in Seq(Images)
  /\ IF layers = <<>> THEN step \in {"closed", "failed"}
     ELSE /\ step # "closed"
          /\ depth_remaining \in 0 .. MAX_PARENT_DEPTH
          /\ depth_remaining + Len(layers) = MAX_PARENT_DEPTH + 1
  /\ owning_path \in BOOLEAN
  /\ changes \in Nat
  /\ step # "opened" => read = NoRead
  /\ read \in Reads
  /\ read.status # "none" =>
       /\ read.layer \in 1 .. Len(layers)
       /\ read.from <= read.sector /\ read.sector < read.to

(* A chain that names itself, or that grows under the opener, ends: never more
   files are opened than the depth and one.                                *)
DepthBounded == Len(layers) <= MAX_PARENT_DEPTH + 1

(* Every opened chain is one the images themselves declare, whatever happened
   to the directory while it was followed: each layer but the last is a delta
   on the very image below it, and no chain is longer than the limit.      *)
ChainIsDeclared ==
  step = "opened" =>
    /\ Len(layers) \in 1 .. MAX_PARENT_DEPTH
    /\ \A i \in 1 .. Len(layers) - 1 :
         /\ layers[i].kind = "differencing"
         /\ layers[i].parent_id = layers[i + 1].id
    /\ Last.kind \in {"fixed", "dynamic"}

(* The sector as the chain means it: the nearest layer that holds it, if every
   layer on the way is long enough to have it.                             *)
Reaches(s, i) == \A j \in 1 .. i : s < layers[j].size
NearestHas(s, i) ==
  /\ i \in 1 .. Len(layers)
  /\ s \in layers[i].held
  /\ Reaches(s, i)
  /\ \A j \in 1 .. i - 1 : s \notin layers[j].held

(* A read gives each sector from the nearest layer that has it, and zeros
   where none does or a shorter parent hides it, however the layers' block
   sizes and sizes cut the range up on the way.                            *)
ReadsNearest ==
  read.status = "given" =>
    IF read.found = None
    THEN \A i \in 1 .. Len(layers) : ~ NearestHas(read.sector, i)
    ELSE NearestHas(read.sector, read.found)

(* Only the caller's own range can be refused: a call the code makes on a
   parent never runs past that parent's end.                               *)
OnlyCallerRefused ==
  read.status = "refused" => read.layer = 1 /\ layers[1].size < read.to

(* Opening comes to an end, through loops and chains that grow under the opener. *)
OpenEnds == step = "parse" ~> step \in {"opened", "failed", "closed"}

-----------------------------------------------------------------------------
(* The inductive invariant behind the above. *)

(* What the opener knows of the chain at each of its steps. *)
ChainInv ==
  /\ \A i \in 1 .. Len(layers) - 1 : layers[i].kind = "differencing"
  /\ step \in {"exists", "device", "identity", "opened"} => depth_remaining > 0
  /\ step \in {"exists", "device"} =>
       Last.kind = "differencing" /\ IsFileName(Last.parent)
  /\ step \in {"identity", "opened"} => Last.kind \in {"fixed", "dynamic"}
  /\ step = "opened" =>
       \A i \in 1 .. Len(layers) - 1 : layers[i + 1].id = layers[i].parent_id

(* A read that has come down to a layer asks it for no more than it has, and
   every layer above has the sector in its range and does not hold it.     *)
ReadInv ==
  read.status # "none" =>
    /\ read.layer > 1 => read.to <= layers[read.layer].size
    /\ \A j \in 1 .. read.layer - 1 :
         read.sector \notin layers[j].held /\ read.sector < layers[j].size

IInv == TypeOK /\ ChainInv /\ ReadInv /\ ReadsNearest /\ OnlyCallerRefused
=============================================================================
