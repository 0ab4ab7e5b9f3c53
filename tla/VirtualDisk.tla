----------------------------- MODULE VirtualDisk -----------------------------
(***************************************************************************)
(* What a dynamic VHD promises the guest, without a file: a disk of cells, *)
(* one write in progress at a time, writes that may fail leaving each cell *)
(* they cover old or new, and crashes that may undo or redo only what was  *)
(* never acknowledged.                                                     *)
(***************************************************************************)
EXTENDS Integers

CONSTANTS Cells, Values, Idle

VARIABLES
  disk,      \* what each cell reads as
  content,   \* what each cell may read as after a crash
  writing    \* the write in progress: its cells and its value, or Idle

vars == <<disk, content, writing>>

Writes == [cells : SUBSET Cells, value : Values]

TypeOK ==
  /\ disk \in [Cells -> Values]
  /\ content \in [Cells -> SUBSET Values]
  /\ writing \in Writes \cup {Idle}

Init ==
  /\ disk \in [Cells -> Values]
  /\ content = [c \in Cells |-> {disk[c]}]
  /\ writing = Idle

(* Each cell of the write in progress is as it was or as the write makes it. *)
Lands ==
  \A c \in Cells :
    \/ disk'[c] = disk[c]
    \/ c \in writing.cells /\ disk'[c] = writing.value

Begin ==
  /\ writing = Idle
  /\ \E D \in SUBSET Cells, v \in Values : writing' = [cells |-> D, value |-> v]
  /\ UNCHANGED <<disk, content>>

Progress ==
  /\ writing # Idle
  /\ Lands
  /\ UNCHANGED <<content, writing>>

(* An acknowledged write: its cells hold its value, and nothing older comes
   back.                                                                   *)
Acknowledge ==
  /\ writing # Idle
  /\ \A c \in writing.cells : disk[c] = writing.value
  /\ content' = [c \in Cells |-> IF c \in writing.cells THEN {writing.value}
                                 ELSE content[c]]
  /\ writing' = Idle
  /\ UNCHANGED disk

Unsure ==
  [c \in Cells |-> IF writing # Idle /\ c \in writing.cells
                   THEN content[c] \cup {writing.value} ELSE content[c]]

(* A write that returns an error. *)
Abandon ==
  /\ writing # Idle
  /\ Lands
  /\ content' = Unsure
  /\ writing' = Idle

Crash ==
  /\ content' = Unsure
  /\ \A c \in Cells : disk'[c] \in content'[c]
  /\ writing' = Idle

Next == Begin \/ Progress \/ Acknowledge \/ Abandon \/ Crash

Spec == Init /\ [][Next]_vars

=============================================================================
