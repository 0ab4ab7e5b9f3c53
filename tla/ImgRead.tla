------------------------------- MODULE ImgRead -------------------------------
(***************************************************************************)
(* `img read -o FILE`: a range of the guest's chunks is copied into        *)
(* FILE.partial, runs of zeros passed over, and the copy is renamed.  Each *)
(* file call is a step; calls fail, processes are killed, the power goes,  *)
(* and several processes may be told the same FILE.                        *)
(***************************************************************************)
EXTENDS Integers, Sequences

CONSTANTS
  Tools,           \* processes that run the command
  Source,          \* the guest's chunks
  Ranges,          \* offsets and lengths that are asked for
  FirstFiles,      \* what FILE holds before
  Values, Zero,
  MaxInodes,
  MaxRuns, MaxFaults, MaxCrashes     \* bounds

Absent == 0
Inodes == 1 .. MaxInodes

ASSUME ReadAssumption ==
  /\ Zero \in Values
  /\ Source \in Seq(Values) /\ FirstFiles \subseteq Seq(Values)
  /\ Ranges \subseteq Nat \X Nat
  /\ MaxInodes \in Nat \ {0}
  /\ {MaxRuns, MaxFaults, MaxCrashes} \subseteq Nat

VARIABLES
  names,             \* the directory: which file FILE and FILE.partial are
  data,              \* each file's contents
  dirty,             \* the files whose contents wait for a sync
  namesMedia,        \* the directories a power loss may leave
  pc, fd, range, at, \* each process: its step, open file, range and place in it
  versions,          \* history: all that FILE was ever meant to hold
  runs, faults, crashes     \* counted against the bounds

fs == <<names, data, dirty, namesMedia>>
tool == <<pc, fd, range, at>>
bounds == <<runs, faults, crashes>>
vars == <<fs, tool, versions, bounds>>

Larger(a, b) == IF a > b THEN a ELSE b

-----------------------------------------------------------------------------
(* std::fs *)

Resized(f, n) == [k \in 1 .. n |-> IF k <= Len(f) THEN f[k] ELSE Zero]
WrittenAt(f, k, v) == [Resized(f, Larger(Len(f), k + 1)) EXCEPT ![k + 1] = v]

Contents(i, f) ==
  /\ data' = [data EXCEPT ![i] = f]
  /\ dirty' = dirty \cup {i}

(* Nothing syncs the directory: an older one may come back. *)
Names(d) ==
  /\ names' = d
  /\ namesMedia' = namesMedia \cup {d}

InUse == {d.file : d \in namesMedia} \cup {d.partial : d \in namesMedia}
           \cup {fd[t] : t \in Tools}
NewInode == CHOOSE i \in Inodes : i \notin InUse

(* What a power loss leaves of contents that wait for a sync: a beginning of
   them, with any chunk of it lost.                                        *)
Remnants(f) ==
  {[k \in 1 .. n |-> IF k \in kept THEN f[k] ELSE Zero] :
     n \in 0 .. Len(f), kept \in SUBSET (1 .. Len(f))}

-----------------------------------------------------------------------------
(* read *)

Wanted(r) == SubSeq(Source, r[1] + 1, r[1] + r[2])

Goto(t, step) == pc' = [pc EXCEPT ![t] = step]

(* A range past the end is refused before anything is made. *)
Read(t) ==
  /\ pc[t] = "idle"
  /\ runs < MaxRuns
  /\ runs' = runs + 1
  /\ \E r \in Ranges :
       /\ r[1] + r[2] <= Len(Source)
       /\ range' = [range EXCEPT ![t] = r]
       /\ versions' = versions \cup {Wanted(r)}
  /\ Goto(t, "create")
  /\ UNCHANGED <<fs, fd, at, faults, crashes>>

Opened(t, i) ==
  /\ fd' = [fd EXCEPT ![t] = i]
  /\ Goto(t, "copy")
  /\ UNCHANGED <<range, at, versions, bounds>>

(* File::create: a file already there is emptied, whoever else has it open. *)
Create(t) ==
  /\ pc[t] = "create"
  /\ IF names.partial # Absent
     THEN /\ Contents(names.partial, <<>>)
          /\ Opened(t, names.partial)
          /\ UNCHANGED <<names, namesMedia>>
     ELSE /\ Inodes \ InUse # {}
          /\ Contents(NewInode, <<>>)
          /\ Opened(t, NewInode)
          /\ Names([names EXCEPT !.partial = NewInode])

Copying(t) == pc[t] = "copy" /\ at[t] < range[t][2]
Copied(t) == pc[t] = "copy" /\ at[t] = range[t][2]

(* A chunk of zeros is passed over. *)
CopyChunk(t) ==
  /\ Copying(t)
  /\ at' = [at EXCEPT ![t] = at[t] + 1]
  /\ LET v == Source[range[t][1] + at[t] + 1]
     IN IF v = Zero THEN UNCHANGED <<data, dirty>>
        ELSE Contents(fd[t], WrittenAt(data[fd[t]], at[t], v))
  /\ UNCHANGED <<names, namesMedia, pc, fd, range, versions, bounds>>

(* Mutant: the length is left to what was written. *)
LengthImplied(t) ==
  /\ Copied(t)
  /\ Goto(t, "sync")
  /\ UNCHANGED <<fs, fd, range, at, versions, bounds>>

SetLength(t) ==
  /\ Copied(t)
  /\ Contents(fd[t], Resized(data[fd[t]], range[t][2]))
  /\ Goto(t, "sync")
  /\ UNCHANGED <<names, namesMedia, fd, range, at, versions, bounds>>

(* Mutant: no sync before the rename. *)
SyncSkipped(t) ==
  /\ pc[t] = "sync"
  /\ Goto(t, "rename")
  /\ UNCHANGED <<fs, fd, range, at, versions, bounds>>

SyncAll(t) ==
  /\ pc[t] = "sync"
  /\ dirty' = dirty \ {fd[t]}
  /\ Goto(t, "rename")
  /\ UNCHANGED <<names, namesMedia, data, fd, range, at, versions, bounds>>

Leave(t, step) ==
  /\ Goto(t, step)
  /\ fd' = [fd EXCEPT ![t] = Absent]
  /\ range' = [range EXCEPT ![t] = <<0, 0>>]
  /\ at' = [at EXCEPT ![t] = 0]

(* Whatever file has the name by now; none is an error. *)
Rename(t) ==
  /\ pc[t] = "rename"
  /\ IF names.partial = Absent
     THEN Leave(t, "failed") /\ UNCHANGED <<names, namesMedia>>
     ELSE Leave(t, "idle") /\ Names([file |-> names.partial, partial |-> Absent])
  /\ UNCHANGED <<data, dirty, versions, bounds>>

(* A call before the rename fails; the part of a write that landed goes with the
   copy.                                                                   *)
CopyFails(t) ==
  /\ pc[t] \in {"create", "copy", "sync"}
  /\ faults < MaxFaults
  /\ faults' = faults + 1
  /\ Goto(t, "remove")
  /\ UNCHANGED <<fs, fd, range, at, versions, runs, crashes>>

(* Mutant: the copy is kept. *)
RemoveNothing(t) ==
  /\ pc[t] = "remove"
  /\ Leave(t, "failed")
  /\ UNCHANGED <<fs, versions, bounds>>

RemovePartial(t) ==
  /\ pc[t] = "remove"
  /\ Names([names EXCEPT !.partial = Absent])
  /\ Leave(t, "failed")
  /\ UNCHANGED <<data, dirty, versions, bounds>>

(* A failed rename is reported, a failed removal is not; the copy stays. *)
CopyStays(t) ==
  /\ pc[t] \in {"rename", "remove"}
  /\ faults < MaxFaults
  /\ faults' = faults + 1
  /\ Leave(t, "kept")
  /\ UNCHANGED <<fs, versions, runs, crashes>>

Exit(t) ==
  /\ pc[t] \in {"failed", "kept"}
  /\ Goto(t, "idle")
  /\ UNCHANGED <<fs, fd, range, at, versions, bounds>>

Kill(t) ==
  /\ pc[t] # "idle"
  /\ crashes < MaxCrashes
  /\ crashes' = crashes + 1
  /\ Leave(t, "idle")
  /\ UNCHANGED <<fs, versions, runs, faults>>

PowerLoss ==
  /\ crashes < MaxCrashes
  /\ crashes' = crashes + 1
  /\ names' \in namesMedia
  /\ namesMedia' = {names'}
  /\ \E lost \in [dirty -> UNION {Remnants(data[i]) : i \in dirty}] :
       /\ \A i \in dirty : lost[i] \in Remnants(data[i])
       /\ data' = [i \in Inodes |-> IF i \in dirty THEN lost[i] ELSE data[i]]
  /\ dirty' = {}
  /\ pc' = [t \in Tools |-> "idle"]
  /\ fd' = [t \in Tools |-> Absent]
  /\ range' = [t \in Tools |-> <<0, 0>>]
  /\ at' = [t \in Tools |-> 0]
  /\ UNCHANGED <<versions, runs, faults>>

-----------------------------------------------------------------------------
Init ==
  /\ names = [file |-> 1, partial |-> Absent]
  /\ \E f \in FirstFiles :
       /\ data = [i \in Inodes |-> IF i = 1 THEN f ELSE <<>>]
       /\ versions = {f}
  /\ dirty = {}
  /\ namesMedia = {names}
  /\ pc = [t \in Tools |-> "idle"]
  /\ fd = [t \in Tools |-> Absent]
  /\ range = [t \in Tools |-> <<0, 0>>]
  /\ at = [t \in Tools |-> 0]
  /\ runs = 0
  /\ faults = 0
  /\ crashes = 0

ToolStep(t) ==
  \/ Read(t) \/ Create(t) \/ CopyChunk(t) \/ SetLength(t) \/ SyncAll(t)
  \/ Rename(t) \/ CopyFails(t) \/ RemovePartial(t) \/ CopyStays(t)
  \/ Exit(t) \/ Kill(t)

Next == (\E t \in Tools : ToolStep(t)) \/ PowerLoss

Spec == Init /\ [][Next]_vars

-----------------------------------------------------------------------------
(* Correctness *)

(* Types: both names are of files, and a range lies inside the disk. *)
TypeOK ==
  /\ names \in namesMedia
  /\ namesMedia \subseteq [file : Inodes, partial : Inodes \cup {Absent}]
  /\ dirty \subseteq Inodes
  /\ data \in [Inodes -> Seq(Values)]
  /\ pc \in [Tools -> {"idle", "create", "copy", "sync", "rename", "remove",
                      "failed", "kept"}]
  /\ fd \in [Tools -> Inodes \cup {Absent}]
  /\ range \in [Tools -> {r \in Nat \X Nat : r[1] + r[2] <= Len(Source)}]
  /\ at \in [Tools -> Nat]

(* FILE is never left half written: at every instant, and after any failure,
   kill or power loss, it is what it was or the whole of a range that was
   asked for.                                                              *)
FileIsWhole == names.file # Absent /\ data[names.file] \in versions

(* A process that is about to rename has the whole of its range under the
   copy's name, on stable storage, whatever was under that name before.    *)
CopyIsWhole ==
  \A t \in Tools : pc[t] = "rename" =>
    /\ names.partial # Absent
    /\ data[names.partial] = Wanted(range[t])
    /\ names.partial \notin dirty

(* A copy given up is not left behind, nor one an earlier process left, unless
   its removal fails.                                                      *)
NoPartialLeft == \A t \in Tools : pc[t] = "failed" => names.partial = Absent

-----------------------------------------------------------------------------
(* The invariant of one process at a time, which the two above follow from. *)

(* Every file that FILE may turn out to be is whole, safe from a power loss,
   and not the copy in the making.                                         *)
FilesWhole ==
  \A d \in namesMedia :
    /\ d.file \notin dirty /\ data[d.file] \in versions
    /\ d.file \notin {names.partial, d.partial}

(* A beginning of a range: what is passed over reads as zeros. *)
HoldsUpTo(f, r, n) ==
  /\ n <= r[2] /\ Len(f) <= n
  /\ \A k \in 1 .. n : Source[r[1] + k] = IF k <= Len(f) THEN f[k] ELSE Zero

CopyInv ==
  \A t \in Tools :
    /\ pc[t] \in {"create", "copy", "sync", "rename"} => Wanted(range[t]) \in versions
    /\ pc[t] \in {"copy", "sync", "rename"} => names.partial # Absent
    /\ pc[t] \in {"copy", "sync"} => fd[t] = names.partial
    /\ pc[t] \notin {"copy", "sync", "rename", "remove"} => at[t] = 0
    /\ pc[t] = "copy" => HoldsUpTo(data[names.partial], range[t], at[t])
    /\ pc[t] \in {"sync", "rename"} => data[names.partial] = Wanted(range[t])
    /\ pc[t] = "rename" => names.partial \notin dirty

ReadInv == TypeOK /\ FilesWhole /\ CopyInv /\ NoPartialLeft
=============================================================================
