------------------------------ MODULE ImgWrite ------------------------------
(***************************************************************************)
(* `img write`: what stdin holds goes into an image's guest at an offset.  *)
(* Stdin is FILE, which `img read -o FILE` may replace meanwhile, or a     *)
(* file others lengthen and shorten, or a pipe, or the image itself.  The  *)
(* guest is a row of cells; write_at and flush_writes do to it what        *)
(* VirtualDisk says.  A call on stdin and its write_at are one step.       *)
(***************************************************************************)
EXTENDS ImgRead

CONSTANTS
  Asks,              \* where stdin comes from, the offset, stdin's position
  FirstGuest,        \* what the guest holds before
  PipeData,          \* what may come through a pipe
  FirstFeed,         \* the file others change
  Lengths,           \* the lengths they give it
  CHUNK,
  MaxWrites, MaxChanges  \* bounds

ASSUME WriteAssumption ==
  /\ Asks \subseteq [from : {"file", "feed", "pipe", "image"}, offset : Nat, pos : Nat]
  /\ \A q \in Asks : q.from = "pipe" => q.pos = 0
  /\ FirstGuest \in Seq(Values) /\ FirstFeed \in Seq(Values)
  /\ PipeData \subseteq Seq(Values)
  /\ Lengths \subseteq Nat
  /\ CHUNK \in Nat \ {0}
  /\ {MaxWrites, MaxChanges} \subseteq Nat

VARIABLES
  guest, durable,    \* the guest, and what a power loss leaves of it for certain
  feed,              \* the file others change
  wpc, ask, input,   \* the command's step and request; the file stdin is
  buffered,          \* what came through the pipe
  length, done,      \* the length that was checked; the cells written of it
  base, landed,      \* history: the guest before; what was written, in order
  writes, changes    \* counted against the bounds

call == <<wpc, ask, input, buffered, length, done, base, landed>>
writer == <<guest, durable, feed, call, writes, changes>>
allVars == <<vars, writer>>

Smaller(x, y) == IF x < y THEN x ELSE y

-----------------------------------------------------------------------------
size == Len(FirstGuest)
room == size - ask.offset

(* What stdin holds by now. *)
Stdin ==
  CASE ask.from = "file" -> data[input]
    [] ask.from = "feed" -> feed
    [] OTHER -> buffered

Overlay(g, offset, q) ==
  [c \in DOMAIN g |-> IF c - offset \in DOMAIN q THEN q[c - offset] ELSE g[c]]

(* Only a write from FILE is interleaved with the readers: no other sees them. *)
Quiet == \A t \in Tools : pc[t] = "idle"
Apart == wpc # "idle" /\ ask.from # "file"

(* open_rw; an offset past the end is refused. *)
Write(q) ==
  /\ wpc = "idle"
  /\ q.from # "file" => Quiet
  /\ writes < MaxWrites
  /\ writes' = writes + 1
  /\ wpc' = IF q.offset > size THEN "refused" ELSE "check"
  /\ ask' = q
  /\ input' = IF q.from = "file" THEN names.file ELSE Absent
  /\ base' = guest
  /\ UNCHANGED <<vars, guest, durable, feed, buffered, length, done, landed, changes>>

Proceed(step) ==
  /\ wpc' = step
  /\ UNCHANGED <<vars, guest, durable, feed, ask, input, done, base, landed,
                 writes, changes>>

(* Stdin is the image: the same device and inode. *)
RefuseImage ==
  /\ wpc = "check" /\ ask.from = "image"
  /\ Proceed("refused")
  /\ UNCHANGED <<buffered, length>>

Accept(len) ==
  IF len > room
  THEN Proceed("refused") /\ UNCHANGED length
  ELSE Proceed("stream") /\ length' = len

(* A file's length is looked at once; a position past its end leaves none. *)
CheckLength ==
  /\ wpc = "check" /\ ask.from \in {"file", "feed"}
  /\ Accept(Larger(Len(Stdin) - ask.pos, 0))
  /\ UNCHANGED buffered

(* A pipe is read to its end, or to a cell more than there is room for. *)
DrainPipe ==
  /\ wpc = "check" /\ ask.from = "pipe"
  /\ \E q \in PipeData :
       /\ buffered' = SubSeq(q, 1, Smaller(Len(q), room + 1))
       /\ Accept(Len(buffered'))

(* The chunk that comes next: of a file, as much as the call cares to give. *)
Ahead(held, limit) ==
  Smaller(Smaller(CHUNK, limit - done), Larger(Len(held) - ask.pos - done, 0))
NextChunk(held, k) == SubSeq(held, ask.pos + done + 1, ask.pos + done + k)

Land(q, next) ==
  /\ guest' = Overlay(guest, ask.offset + done, q)
  /\ landed' = landed \o q
  /\ done' = done + Len(q)
  /\ wpc' = next
  /\ UNCHANGED <<vars, durable, feed, ask, input, buffered, length, base,
                 writes, changes>>

StreamFrom(held, limit) ==
  /\ wpc = "stream"
  /\ Ahead(held, limit) > 0
  /\ \E k \in 1 .. Ahead(held, limit) :
       /\ ask.from = "pipe" => k = Ahead(held, limit)
       /\ Land(NextChunk(held, k), "stream")

(* Mutants: the file is read to its end; it is looked for by its name again. *)
StreamAll == StreamFrom(Stdin, size)
StreamByName == StreamFrom(IF ask.from = "file" THEN data[names.file] ELSE Stdin, length)
Stream == StreamFrom(Stdin, length)

(* write_at fails, and part of the chunk may have landed. *)
WriteFails ==
  /\ wpc = "stream"
  /\ Ahead(Stdin, length) > 0
  /\ faults < MaxFaults
  /\ faults' = faults + 1
  /\ \E k \in 0 .. Ahead(Stdin, length) :
       guest' = Overlay(guest, ask.offset + done, NextChunk(Stdin, k))
  /\ wpc' = "failed"
  /\ UNCHANGED <<fs, tool, versions, runs, crashes, durable, feed, ask, input,
                 buffered, length, done, base, landed, writes, changes>>

(* Stdin ends where it was to end, or before. *)
AtEnd == wpc = "stream" /\ Ahead(Stdin, length) = 0

(* Mutant: reported without a flush. *)
ReportUnflushed ==
  /\ AtEnd
  /\ Proceed("done")
  /\ UNCHANGED <<buffered, length>>

Flush ==
  /\ AtEnd
  /\ durable' = guest
  /\ wpc' = "done"
  /\ UNCHANGED <<vars, guest, feed, ask, input, buffered, length, done, base,
                 landed, writes, changes>>

(* A call on stdin, or the flush, fails. *)
CallFails ==
  /\ wpc \in {"check", "stream"}
  /\ faults < MaxFaults
  /\ faults' = faults + 1
  /\ wpc' = "failed"
  /\ UNCHANGED <<fs, tool, versions, runs, crashes, guest, durable, feed, ask,
                 input, buffered, length, done, base, landed, writes, changes>>

NoAsk == [from |-> "image", offset |-> 0, pos |-> 0]

EndCall ==
  /\ wpc' = "idle"
  /\ ask' = NoAsk
  /\ input' = Absent
  /\ buffered' = <<>>
  /\ length' = 0
  /\ done' = 0
  /\ landed' = <<>>

WriteReturns ==
  /\ wpc \in {"refused", "failed", "done"}
  /\ EndCall
  /\ base' = <<>>
  /\ UNCHANGED <<vars, guest, durable, feed, writes, changes>>

KillWriter ==
  /\ wpc # "idle"
  /\ crashes < MaxCrashes
  /\ crashes' = crashes + 1
  /\ EndCall
  /\ base' = <<>>
  /\ UNCHANGED <<fs, tool, versions, runs, faults, guest, durable, feed, writes, changes>>

(* What was not flushed may be lost, cell by cell. *)
LoseUnflushed ==
  /\ \E kept \in SUBSET {c \in DOMAIN guest : guest[c] # durable[c]} :
       guest' = [c \in DOMAIN guest |-> IF c \in kept THEN guest[c] ELSE durable[c]]
  /\ durable' = guest'
  /\ EndCall
  /\ base' = <<>>
  /\ UNCHANGED <<feed, writes, changes>>

(* Another process lengthens or shortens the file stdin is. *)
ChangeFeed ==
  /\ wpc \in {"check", "stream"} /\ ask.from = "feed"
  /\ changes < MaxChanges
  /\ changes' = changes + 1
  /\ \E len \in Lengths : feed' = Resized(feed, len)
  /\ UNCHANGED <<vars, guest, durable, call, writes>>

-----------------------------------------------------------------------------
WriteInit ==
  /\ Init
  /\ guest = FirstGuest /\ durable = FirstGuest
  /\ feed = FirstFeed
  /\ wpc = "idle"
  /\ ask = NoAsk
  /\ input = Absent
  /\ buffered = <<>>
  /\ length = 0 /\ done = 0
  /\ base = <<>> /\ landed = <<>>
  /\ writes = 0 /\ changes = 0

WriteStep ==
  \/ \E q \in Asks : Write(q)
  \/ RefuseImage \/ CheckLength \/ DrainPipe \/ Stream \/ WriteFails
  \/ Flush \/ CallFails \/ WriteReturns \/ KillWriter \/ ChangeFeed

WriteNext ==
  \/ (\E t \in Tools : ToolStep(t)) /\ ~ Apart /\ UNCHANGED writer
  \/ PowerLoss /\ LoseUnflushed
  \/ WriteStep

WriteSpec == WriteInit /\ [][WriteNext]_allVars

-----------------------------------------------------------------------------
(* Correctness *)

(* Whatever becomes of stdin while it is read, the guest outside the range that
   was checked is as it was: a file that grows is followed no further, and a
   command that is refused, or has not checked yet, has written nothing.   *)
OnlyTheRange ==
  wpc # "idle" =>
    \A c \in 1 .. size :
      c \notin ask.offset + 1 .. ask.offset + length => guest[c] = base[c]

(* A write that succeeds has taken the whole of one input: of FILE, one version
   of it, though it was replaced meanwhile; of a pipe, all that came; of a file
   that others change, as many cells as are reported.                      *)
TakesOneInput ==
  wpc = "done" =>
    /\ Len(landed) = done /\ done <= length
    /\ ask.from = "file" =>
         \E v \in versions : landed = SubSeq(v, ask.pos + 1, Len(v))
    /\ ask.from = "pipe" => landed = buffered

(* What is reported as written is in the guest, in its place, and no power loss
   takes it away.                                                          *)
DoneIsDurable ==
  wpc = "done" => durable = Overlay(base, ask.offset, landed)

-----------------------------------------------------------------------------
(* The invariant of one write, which the three above follow from. *)

WriteSteps == {"idle", "check", "stream", "refused", "failed", "done"}

WriteTypeOK ==
  /\ guest \in Seq(Values) /\ Len(guest) = size
  /\ durable \in Seq(Values) /\ Len(durable) = size
  /\ feed \in Seq(Values)
  /\ wpc \in WriteSteps
  /\ wpc # "idle" => ask \in Asks /\ base \in Seq(Values) /\ Len(base) = size
  /\ buffered \in Seq(Values) /\ landed \in Seq(Values)
  /\ length \in Nat /\ done \in Nat

(* FILE, once open, is a file FILE may turn out to be: no reader changes it. *)
InputKept ==
  wpc \in {"check", "stream"} /\ ask.from = "file" =>
    \E d \in namesMedia : input = d.file

Unstarted ==
  wpc \in {"idle", "check"} => landed = <<>> /\ length = 0 /\ done = 0

(* The guest before the first chunk, and between two. *)
GuestKept ==
  /\ wpc \in {"check", "refused"} => guest = base
  /\ wpc \in {"check", "stream"} => ask.offset <= size
  /\ wpc \in {"stream", "done"} =>
       /\ Len(landed) = done /\ done <= length
       /\ guest = Overlay(base, ask.offset, landed)

(* What was written is a beginning of the one input. *)
BeginningOf(held) ==
  /\ length = Larger(Len(held) - ask.pos, 0)
  /\ landed = SubSeq(held, ask.pos + 1, ask.pos + done)

InputTaken ==
  wpc = "stream" =>
    /\ ask.from # "image"
    /\ ask.from \in {"file", "pipe"} => BeginningOf(Stdin)

WriteInv ==
  /\ WriteTypeOK /\ InputKept /\ Unstarted /\ GuestKept /\ InputTaken
  /\ OnlyTheRange /\ TakesOneInput /\ DoneIsDurable
=============================================================================
