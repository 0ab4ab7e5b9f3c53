------------------------------ MODULE SparseRead ------------------------------
(***************************************************************************)
(* read_at on a dynamic VHD (read_sparse), run by several threads beside   *)
(* the writers of SparseImage.  A reader holds the `bat` mutex only while  *)
(* it copies one entry; the bitmap and the data are read outside it, one   *)
(* device call at a time, while writers allocate, publish and overwrite.   *)
(***************************************************************************)
EXTENDS SparseImage

CONSTANTS
  Readers,        \* threads that call read_at
  ReadRequests,   \* the ranges a call may name: [from, to) in cells
  Unread,         \* a cell of the caller's buffer not filled yet
  MaxReads        \* bound: read_at calls in a behaviour

ASSUME ReadAssumption ==
  /\ ReadRequests \subseteq {r \in Cells \X (1 .. VirtualCells) : r[1] < r[2]}
  /\ Unread \notin Values
  /\ MaxReads \in Nat

VARIABLES
  rpc, rto, rcursor,   \* each reader's step, the end of its range, its place
  rhost, rbits,        \* block_host_off and bitmap of the block it is in
  buf,                 \* the caller's buffer
  seen,                \* history: what each cell of the disk was during a read
  reads                \* counted against the bound

place == <<rpc, rto, rcursor, rhost, rbits>>
rvars == <<place, buf, seen, reads>>
allvars == <<vars, rvars>>

ReadSteps == {"idle", "look", "bits", "run", "done"}

NoCells == [c \in Cells |-> {}]
EmptyBuffer == [c \in Cells |-> Unread]

RAt(r, step) == mode = "open" /\ rpc[r] = step

(* The piece of the range in the block the reader is in, and in it the run of
   sectors with the same bitmap bit.                                       *)
ReadChunkEnd(r) == ChunkEnd(rcursor[r], rto[r])
Present(r, c) == OffsetOf(c) \in rbits[r]

(* Mutant: the first sector's bit taken for the whole chunk. *)
WholeChunk(r) == rcursor[r] .. ReadChunkEnd(r) - 1

Run(r) ==
  {c \in rcursor[r] .. ReadChunkEnd(r) - 1 :
     \A d \in rcursor[r] .. c : Present(r, d) = Present(r, rcursor[r])}

-----------------------------------------------------------------------------
(* The steps of read_sparse *)

ReadCall(r) ==
  /\ RAt(r, "idle")
  /\ reads < MaxReads
  /\ reads' = reads + 1
  /\ \E q \in ReadRequests :
        /\ rcursor' = [rcursor EXCEPT ![r] = q[1]]
        /\ rto' = [rto EXCEPT ![r] = q[2]]
        /\ seen' = [seen EXCEPT ![r] =
             [c \in Cells |-> IF c \in q[1] .. q[2] - 1 THEN {Visible(bat, c)}
                              ELSE {}]]
  /\ rpc' = [rpc EXCEPT ![r] = "look"]
  /\ UNCHANGED <<vars, rhost, rbits, buf>>

(* The bytes go into the buffer and the reader moves past them: to the
   next run, to the next block, or to the end.                             *)
Fill(r, bytes) ==
  LET next == rcursor[r] + Cardinality(DOMAIN bytes)
  IN /\ buf' = [buf EXCEPT ![r] =
          [c \in Cells |-> IF c \in DOMAIN bytes THEN bytes[c] ELSE buf[r][c]]]
     /\ rcursor' = [rcursor EXCEPT ![r] = next]
     /\ rpc' = [rpc EXCEPT ![r] = IF next = rto[r] THEN "done"
                                  ELSE IF next = ReadChunkEnd(r) THEN "look"
                                  ELSE "run"]

(* The entry, under the lock.  An absent block of an image without a parent
   is zeros.                                                               *)
LookEntry(r) ==
  /\ RAt(r, "look")
  /\ lock = None
  /\ LET e == bat[BlockOf(rcursor[r])]
     IN IF e = BAT_UNALLOCATED
        THEN /\ Fill(r, [c \in rcursor[r] .. ReadChunkEnd(r) - 1 |-> Zero])
             /\ UNCHANGED rhost
        ELSE /\ rhost' = [rhost EXCEPT ![r] = e]
             /\ rpc' = [rpc EXCEPT ![r] = "bits"]
             /\ UNCHANGED <<rcursor, buf>>
  /\ UNCHANGED <<vars, rto, rbits, seen, reads>>

ReadBits(r) ==
  /\ RAt(r, "bits")
  /\ rbits' = [rbits EXCEPT ![r] = sector[rhost[r]].bits]
  /\ rpc' = [rpc EXCEPT ![r] = "run"]
  /\ UNCHANGED <<vars, rto, rcursor, rhost, buf, seen, reads>>

(* Mutant: a hole is passed over and the caller's bytes are left there. *)
ReadHoleUnfilled(r) ==
  /\ RAt(r, "run")
  /\ ~ Present(r, rcursor[r])
  /\ Fill(r, [c \in Run(r) |-> Unread])
  /\ UNCHANGED <<vars, rto, rhost, rbits, seen, reads>>

ReadHole(r) ==
  /\ RAt(r, "run")
  /\ ~ Present(r, rcursor[r])
  /\ Fill(r, [c \in Run(r) |-> Zero])
  /\ UNCHANGED <<vars, rto, rhost, rbits, seen, reads>>

ReadData(r) ==
  /\ RAt(r, "run")
  /\ Present(r, rcursor[r])
  /\ Fill(r, [c \in Run(r) |->
               sector[DataSectorOf(rhost[r], c)].cells[PartOf(c)]])
  /\ UNCHANGED <<vars, rto, rhost, rbits, seen, reads>>

(* The caller has its answer, whole or an error. *)
Leave(r) ==
  /\ rpc' = [rpc EXCEPT ![r] = "idle"]
  /\ rto' = [rto EXCEPT ![r] = 1]
  /\ rcursor' = [rcursor EXCEPT ![r] = 0]
  /\ rhost' = [rhost EXCEPT ![r] = 0]
  /\ rbits' = [rbits EXCEPT ![r] = {}]
  /\ buf' = [buf EXCEPT ![r] = EmptyBuffer]
  /\ seen' = [seen EXCEPT ![r] = NoCells]
  /\ UNCHANGED reads

ReadReturns(r) ==
  /\ RAt(r, "done")
  /\ Leave(r)
  /\ UNCHANGED vars

(* The device refuses the bitmap or a run: the call ends there. *)
ReadFails(r) ==
  /\ \/ RAt(r, "bits")
     \/ RAt(r, "run") /\ Present(r, rcursor[r])
  /\ Fault
  /\ Leave(r)
  /\ UNCHANGED <<file, media, reader, lock, pc, writer, content, calls, crashes>>

-----------------------------------------------------------------------------
(* A step of the writers or of the world: reads in progress see it happen, or
   end with the process.                                                   *)
Reset ==
  /\ rpc' = [r \in Readers |-> "idle"]
  /\ rto' = [r \in Readers |-> 1]
  /\ rcursor' = [r \in Readers |-> 0]
  /\ rhost' = [r \in Readers |-> 0]
  /\ rbits' = [r \in Readers |-> {}]
  /\ buf' = [r \in Readers |-> EmptyBuffer]
  /\ seen' = [r \in Readers |-> NoCells]
  /\ UNCHANGED reads

Notice ==
  /\ seen' = [r \in Readers |->
       [c \in Cells |-> IF seen[r][c] = {} THEN {}
                        ELSE seen[r][c] \cup {Visible(bat, c)'}]]
  /\ UNCHANGED <<place, buf, reads>>

WriterStep ==
  /\ Next
  /\ IF mode' = "open" THEN Notice ELSE Reset

ReadInit ==
  /\ Init
  /\ rpc = [r \in Readers |-> "idle"]
  /\ rto = [r \in Readers |-> 1]
  /\ rcursor = [r \in Readers |-> 0]
  /\ rhost = [r \in Readers |-> 0]
  /\ rbits = [r \in Readers |-> {}]
  /\ buf = [r \in Readers |-> EmptyBuffer]
  /\ seen = [r \in Readers |-> NoCells]
  /\ reads = 0

ReadProceed(r) ==
  \/ LookEntry(r) \/ ReadBits(r) \/ ReadHole(r) \/ ReadData(r)
  \/ ReadFails(r) \/ ReadReturns(r)

ReadNext ==
  \/ WriterStep
  \/ \E r \in Readers : ReadCall(r) \/ ReadProceed(r)

ReadSpec == ReadInit /\ [][ReadNext]_allvars

(* Every thread that can run is run, readers and writers alike. *)
ReadFairSpec ==
  /\ ReadSpec
  /\ \A r \in Readers : WF_allvars(ReadProceed(r))
  /\ \A w \in Writers : WF_allvars(Proceed(w) /\ Notice)

-----------------------------------------------------------------------------
(* Correctness *)

(* Every byte a read returns is the byte the disk held at some instant of the
   read, though entry, bitmap and data are read at different instants and a
   writer may allocate the block, publish the sector or change it between. *)
ReadsAreCurrent ==
  \A r \in Readers, c \in Cells : buf[r][c] # Unread => buf[r][c] \in seen[r][c]

(* A read that comes to its end has filled all of its range and nothing else. *)
FillsTheRange ==
  \A r \in Readers : rpc[r] = "done" =>
    {c \in Cells : buf[r][c] # Unread} = {c \in Cells : seen[r][c] # {}}

(* No reader is led past the end of the file, though the file is grown by a
   writer while the reader is on its way.                                  *)
ReadsInsideFile ==
  \A r \in Readers :
    /\ rpc[r] = "bits" => rhost[r] < size
    /\ rpc[r] = "run" =>
         \A c \in rcursor[r] .. ReadChunkEnd(r) - 1 :
           Present(r, c) => DataSectorOf(rhost[r], c) < size

(* A read that has begun comes back, or the process goes away. *)
ReadsReturn == \A r \in Readers : rpc[r] = "look" ~> rpc[r] = "idle"

-----------------------------------------------------------------------------
(* The inductive invariant behind the three properties of a read *)

(* Types: a reader's place stays inside its range, and the bitmap it reads is
   a sector of the device.                                                 *)
ReadTypeOK ==
  /\ rpc \in [Readers -> ReadSteps]
  /\ rto \in [Readers -> 1 .. VirtualCells]
  /\ rcursor \in [Readers -> 0 .. VirtualCells]
  /\ rhost \in [Readers -> Sectors]
  /\ rbits \in [Readers -> SUBSET Offsets]
  /\ buf \in [Readers -> [Cells -> Values \cup {Unread}]]
  /\ seen \in [Readers -> [Cells -> SUBSET Values]]
  /\ reads \in Nat

(* The cells a reader has still to fill. *)
Reading == {"look", "bits", "run"}
Ahead(r) == IF rpc[r] \in Reading THEN rcursor[r] .. rto[r] - 1 ELSE {}

(* A read is of the cells it has filled and those ahead, and its history has
   what each of them is now.                                               *)
Told(r) ==
  /\ mode = "down" => rpc[r] = "idle"
  /\ rpc[r] = "idle" => \A c \in Cells : seen[r][c] = {}
  /\ rpc[r] \in Reading => rcursor[r] < rto[r]
  /\ \A c \in Cells :
       /\ seen[r][c] # {} <=> buf[r][c] # Unread \/ c \in Ahead(r)
       /\ seen[r][c] # {} => Visible(bat, c) \in seen[r][c]
       /\ buf[r][c] # Unread => buf[r][c] \in seen[r][c]

(* The entry a reader copied is still the block's, the bits it copied are
   still set, and where one was clear the cell has been seen as zero.      *)
AtHost(r) ==
  /\ rpc[r] \in {"bits", "run"} =>
       rhost[r] # BAT_UNALLOCATED /\ rhost[r] = bat[BlockOf(rcursor[r])]
  /\ rpc[r] = "run" =>
       /\ rbits[r] \subseteq sector[rhost[r]].bits
       /\ \A c \in rcursor[r] .. ReadChunkEnd(r) - 1 :
            ~ Present(r, c) => Zero \in seen[r][c]

ReaderInv == ReadTypeOK /\ \A r \in Readers : Told(r) /\ AtHost(r)

=============================================================================
