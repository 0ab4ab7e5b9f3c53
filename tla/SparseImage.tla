----------------------------- MODULE SparseImage -----------------------------
(***************************************************************************)
(* The write path of a dynamic VHD: write_sparse, allocate_block_locked,   *)
(* define_partial_sectors and set_bitmap_range run by several threads on   *)
(* one shared VhdReader, over a device whose calls can fail part-way, in a *)
(* process that can be killed and on a machine that can lose power, with   *)
(* the image reopened by open_inner afterwards.                            *)
(*                                                                         *)
(* Every device call is one step.  `sector`, `table` and `size` are what a *)
(* read of the file returns now; `sectorMedia`, `tableMedia` and           *)
(* `sizeMedia` are the sets of values a power loss may leave behind: every *)
(* value written since the last flush, and the last flushed one.           *)
(*                                                                         *)
(* The BAT is kept apart from the other sectors, one value per entry.      *)
(***************************************************************************)
EXTENDS VhdLayout, FiniteSets

CONSTANTS
  Writers,        \* threads that call write_at
  Payloads,       \* what a call writes, the same value in every cell
  Existing,       \* guest data the images already hold
  Zero,           \* a zero byte range
  Stale,          \* bytes nobody wrote as guest data
  None,           \* nobody holds the lock
  Requests,       \* the ranges a call may name: [from, to) in cells
  InitialImages,  \* the files a reader may be opened on
  Capacity,       \* sectors set_len can grow the device to
  MaxCalls,       \* bound: write_at calls in a behaviour
  MaxFaults,      \* bound: device calls that fail
  MaxCrashes      \* bound: kills and power losses

Values == Payloads \cup Existing \cup {Zero, Stale}
Sectors == 0 .. Capacity - 1

(* A sector is what it says to each code that reads it: to open_inner as a
   footer, to the bitmap code as a bitmap, to the data code as cells.      *)
Footers == {"whole", "torn", "none"}
SectorContents ==
  [footer : Footers, bits : SUBSET Offsets, cells : [Parts -> Values]]

Filled(v) == [p \in Parts |-> v]
ZeroSector == [footer |-> "none", bits |-> {}, cells |-> Filled(Zero)]
FooterSector == [footer |-> "whole", bits |-> Offsets, cells |-> Filled(Stale)]
BitmapSector(S) == [footer |-> "none", bits |-> S, cells |-> Filled(Stale)]
DataSector(d) == [footer |-> "none", bits |-> Offsets, cells |-> d]

(* What the footer's sector may hold after a write of the footer that failed:
   nothing new, its first bytes (the cookie among them), all of it.  Writing
   part of a footer over the same footer changes nothing.                  *)
FooterLandings(old) ==
  IF old.footer = "whole" THEN {old}
  ELSE {old, [FooterSector EXCEPT !.footer = "torn"], FooterSector}

Images == [sector : [Sectors -> SectorContents],
           table  : [Blocks -> Nat],
           size   : 1 .. Capacity]

ASSUME SparseAssumption ==
  /\ Capacity \in Nat \ {0}
  /\ None \notin Writers
  /\ Requests \subseteq {r \in Cells \X (1 .. VirtualCells) : r[1] < r[2]}
  /\ InitialImages \subseteq Images
  /\ MaxCalls \in Nat /\ MaxFaults \in Nat /\ MaxCrashes \in Nat

(* Nobody's write in progress is not a write. *)
ASSUME IdleAssumption == None \notin [cells : SUBSET Cells, value : Values]

VARIABLES
  sector, table, size,                  \* the file, as it reads
  sectorMedia, tableMedia, sizeMedia,   \* what a power loss may leave of it
  mode,             \* "open": a reader exists; "down": the process is gone
  bat,              \* the cached BAT
  next_alloc_off,   \* where the next block goes
  lock,             \* the writer holding the `bat` mutex
  pc, op, cursor,   \* each writer's step, its call, its place in the call
  host,             \* block_host_off of the chunk a writer is at
  bits,             \* the bitmap set_bitmap_range read
  content,          \* history: the values a cell may read as, between calls
  calls, faults, crashes                \* counted against the bounds

file == <<sector, table, size>>
media == <<sectorMedia, tableMedia, sizeMedia>>
reader == <<mode, bat, next_alloc_off>>
writer == <<op, cursor, host, bits>>
vars == <<file, media, reader, lock, pc, writer, content, calls, faults,
          crashes>>

Steps == {"idle", "lock", "allocate", "footer", "retryFooter", "footerFlush",
          "zero", "zeroFlush", "table", "tableFlush", "define", "data",
          "readBitmap", "bitmap", "flush"}

(* The chunk a writer is at: the block, and the cells of it the call covers. *)
Block(w) == BlockOf(cursor[w])
ChunkStop(w) == ChunkEnd(cursor[w], op[w].to)
Chunk(w) == cursor[w] .. ChunkStop(w) - 1
ChunkOffsets(w) == OffsetOf(cursor[w]) .. OffsetOf(ChunkStop(w) - 1)

FooterAt(h) == h + BlockTotal
DataSectorOf(h, c) == h + BitmapSectors + OffsetOf(c)

TailFooter == sector[size - 1].footer

-----------------------------------------------------------------------------
(* Device calls *)

Put(new) ==
  /\ sector' = new
  /\ sectorMedia' = [s \in Sectors |-> sectorMedia[s] \cup {new[s]}]
  /\ UNCHANGED <<table, size, tableMedia, sizeMedia>>

PutEntry(b, entry) ==
  /\ table' = [table EXCEPT ![b] = entry]
  /\ tableMedia' = [tableMedia EXCEPT ![b] = @ \cup {entry}]
  /\ UNCHANGED <<sector, size, sectorMedia, sizeMedia>>

(* Mutant: a flush that leaves out the file's length. *)
SyncContents ==
  /\ sectorMedia' = [s \in Sectors |-> {sector[s]}]
  /\ tableMedia' = [b \in Blocks |-> {table[b]}]
  /\ UNCHANGED <<file, sizeMedia>>

Grow(n) ==
  /\ size' = n
  /\ sizeMedia' = sizeMedia \cup {n}
  /\ UNCHANGED <<sector, table, sectorMedia, tableMedia>>

Sync ==
  /\ sectorMedia' = [s \in Sectors |-> {sector[s]}]
  /\ tableMedia' = [b \in Blocks |-> {table[b]}]
  /\ sizeMedia' = {size}
  /\ UNCHANGED file

(* The file with the first n sectors of the range at h zeroed. *)
Zeroed(h, n) ==
  [s \in Sectors |-> IF s \in h .. h + n - 1 THEN ZeroSector ELSE sector[s]]

(* The file with the cells of D in the block at h set to v. *)
Filling(h, D, v) ==
  [s \in Sectors |->
     IF \E c \in D : DataSectorOf(h, c) = s
     THEN DataSector([p \in Parts |->
            IF \E c \in D : DataSectorOf(h, c) = s /\ PartOf(c) = p
            THEN v ELSE sector[s].cells[p]])
     ELSE sector[s]]

Bitmapped(h, S) == [sector EXCEPT ![h] = BitmapSector(S)]

-----------------------------------------------------------------------------
(* Control of a call *)

At(w, step) == mode = "open" /\ pc[w] = step
Goto(w, step) == pc' = [pc EXCEPT ![w] = step]

Fault == faults < MaxFaults /\ faults' = faults + 1

(* The cells of a writer's chunk from the first moment its bytes may be on
   the device until the flush that ends the chunk.                         *)
Unsettled(w) ==
  IF pc[w] \in {"data", "readBitmap", "bitmap", "flush"} THEN Chunk(w) ELSE {}

(* A call's locals, before and after it. *)
NoCall == [to |-> 1, value |-> Zero]
Forget(w) ==
  /\ op' = [op EXCEPT ![w] = NoCall]
  /\ cursor' = [cursor EXCEPT ![w] = 0]
  /\ host' = [host EXCEPT ![w] = 0]
  /\ bits' = [bits EXCEPT ![w] = {}]

(* Mutant: an error path that locks `bat` again and leaves it locked. *)
FailHolding(w) ==
  /\ Goto(w, "idle")
  /\ Forget(w)
  /\ UNCHANGED <<lock, content>>

(* An early return with an error: the guard drops, the call is over, and
   whether its bytes landed is anybody's guess.                            *)
Fail(w) ==
  /\ lock' = None
  /\ Goto(w, "idle")
  /\ Forget(w)
  /\ content' = [c \in Cells |-> IF c \in Unsettled(w)
                                 THEN content[c] \cup {op[w].value}
                                 ELSE content[c]]

Continue(w, step) ==
  /\ Goto(w, step)
  /\ UNCHANGED <<lock, content, faults>>

Quiet == UNCHANGED <<calls, crashes>>

-----------------------------------------------------------------------------
(* write_at and the loop of write_sparse *)

Call(w) ==
  /\ At(w, "idle")
  /\ calls < MaxCalls
  /\ calls' = calls + 1
  /\ \E r \in Requests, v \in Payloads :
        /\ op' = [op EXCEPT ![w] = [to |-> r[2], value |-> v]]
        /\ cursor' = [cursor EXCEPT ![w] = r[1]]
  /\ Continue(w, "lock")
  /\ UNCHANGED <<file, media, reader, host, bits, crashes>>

(* Under the lock: look the block up in the cached BAT. *)
LookUp(w) ==
  /\ lock' = w
  /\ IF bat[Block(w)] = BAT_UNALLOCATED
     THEN Goto(w, "allocate") /\ UNCHANGED host
     ELSE /\ Goto(w, "define")
          /\ host' = [host EXCEPT ![w] = bat[Block(w)]]
  /\ UNCHANGED <<file, media, reader, op, cursor, bits, content, faults>>
  /\ Quiet

(* Mutant: a writer goes on whoever holds the lock. *)
TakeLockHeld(w) == At(w, "lock") /\ LookUp(w)

TakeLock(w) ==
  /\ At(w, "lock")
  /\ lock = None
  /\ LookUp(w)

-----------------------------------------------------------------------------
(* allocate_block_locked *)

(* Mutant: the device is left to grow by itself. *)
GrownSizeKept == size

GrownSize == Larger(size, FooterAt(next_alloc_off) + 1)

(* Mutant: the tail is reserved up front, as the version replaced did (1134). *)
AllocateReserved(w) ==
  /\ At(w, "allocate")
  /\ EntryCanName(next_alloc_off)
  /\ GrownSize <= Capacity
  /\ host' = [host EXCEPT ![w] = next_alloc_off]
  /\ next_alloc_off' = FooterAt(next_alloc_off)
  /\ Grow(GrownSize)
  /\ Continue(w, "footer")
  /\ UNCHANGED <<mode, bat, op, cursor, bits>>
  /\ Quiet

Allocate(w) ==
  /\ At(w, "allocate")
  /\ EntryCanName(next_alloc_off)
  /\ GrownSize <= Capacity
  /\ host' = [host EXCEPT ![w] = next_alloc_off]
  /\ Grow(GrownSize)
  /\ Continue(w, "footer")
  /\ UNCHANGED <<reader, op, cursor, bits>>
  /\ Quiet

(* bat_entry_for refuses the tail before anything is written. *)
RefuseEntry(w) ==
  /\ At(w, "allocate")
  /\ ~ EntryCanName(next_alloc_off)
  /\ Fail(w)
  /\ UNCHANGED <<file, media, reader, faults>>
  /\ Quiet

(* set_len: the device is full, or the call fails. *)
GrowFails(w) ==
  /\ At(w, "allocate")
  /\ EntryCanName(next_alloc_off)
  /\ size < GrownSize
  /\ IF GrownSize <= Capacity THEN Fault ELSE UNCHANGED faults
  /\ Fail(w)
  /\ UNCHANGED <<file, media, reader>>
  /\ Quiet

WriteFooter(w) ==
  /\ At(w, "footer") \/ At(w, "retryFooter")
  /\ Put([sector EXCEPT ![FooterAt(host[w])] = FooterSector])
  /\ Continue(w, "footerFlush")
  /\ UNCHANGED <<reader, writer>>
  /\ Quiet

(* Mutant: the new footer is not flushed before the old one is zeroed over. *)
FlushFooterSkipped(w) ==
  /\ At(w, "footerFlush")
  /\ Continue(w, "zero")
  /\ UNCHANGED <<file, media, reader, writer>>
  /\ Quiet

(* A failed footer write is tried once more; then the first error stands. *)
FooterFails(w) ==
  /\ At(w, "footer") \/ At(w, "retryFooter")
  /\ Fault
  /\ \E x \in FooterLandings(sector[FooterAt(host[w])]) :
        Put([sector EXCEPT ![FooterAt(host[w])] = x])
  /\ IF pc[w] = "footer"
     THEN Goto(w, "retryFooter") /\ UNCHANGED <<lock, content, writer>>
     ELSE Fail(w)
  /\ UNCHANGED reader
  /\ Quiet

FlushFooter(w) ==
  /\ At(w, "footerFlush")
  /\ Sync
  /\ Continue(w, "zero")
  /\ UNCHANGED <<reader, writer>>
  /\ Quiet

(* Zeroing over metadata: an image that opened with its tail below data_start
   has its BAT there, and the entries turn into zeros.                     *)
ZeroOver(h, n) ==
  IF h < DataStart /\ n > 0
  THEN /\ sector' = Zeroed(h, n)
       /\ sectorMedia' = [s \in Sectors |-> sectorMedia[s] \cup {Zeroed(h, n)[s]}]
       /\ table' = [b \in Blocks |-> 0]
       /\ tableMedia' = [b \in Blocks |-> tableMedia[b] \cup {0}]
       /\ UNCHANGED <<size, sizeMedia>>
  ELSE Put(Zeroed(h, n))

ZeroBlock(w) ==
  /\ At(w, "zero")
  /\ ZeroOver(host[w], BlockTotal)
  /\ Continue(w, "zeroFlush")
  /\ UNCHANGED <<reader, writer>>
  /\ Quiet

(* The zeroing goes in pieces of 1 MiB: a failure leaves a prefix zeroed. *)
ZeroFails(w) ==
  /\ At(w, "zero")
  /\ Fault
  /\ \E n \in 0 .. BlockTotal : ZeroOver(host[w], n)
  /\ Fail(w)
  /\ UNCHANGED reader
  /\ Quiet

(* Mutant: the tail advances by the data alone, or not at all. *)
FlushZeroDataOnly(w) ==
  /\ At(w, "zeroFlush")
  /\ Sync
  /\ next_alloc_off' = host[w] + SectorsPerBlock
  /\ Continue(w, "table")
  /\ UNCHANGED <<mode, bat, writer>>
  /\ Quiet
FlushZeroUncommitted(w) ==
  /\ At(w, "zeroFlush")
  /\ Sync
  /\ Continue(w, "table")
  /\ UNCHANGED <<reader, writer>>
  /\ Quiet

(* The tail is committed here, before the BAT write is issued. *)
FlushZero(w) ==
  /\ At(w, "zeroFlush")
  /\ Sync
  /\ next_alloc_off' = host[w] + BlockTotal
  /\ Continue(w, "table")
  /\ UNCHANGED <<mode, bat, writer>>
  /\ Quiet

WriteTable(w) ==
  /\ At(w, "table")
  /\ PutEntry(Block(w), host[w])
  /\ Continue(w, "tableFlush")
  /\ UNCHANGED <<reader, writer>>
  /\ Quiet

TableFails(w) ==
  /\ At(w, "table")
  /\ Fault
  /\ \E entry \in {table[Block(w)], host[w]} : PutEntry(Block(w), entry)
  /\ Fail(w)
  /\ UNCHANGED reader
  /\ Quiet

FlushTable(w) ==
  /\ At(w, "tableFlush")
  /\ Sync
  /\ bat' = [bat EXCEPT ![Block(w)] = host[w]]
  /\ Continue(w, "define")
  /\ UNCHANGED <<mode, next_alloc_off, writer>>
  /\ Quiet

-----------------------------------------------------------------------------
(* define_partial_sectors, the payload, set_bitmap_range, the last flush *)

(* Mutant: the end sectors whether or not their bits are set. *)
UncoveredPublished(w) ==
  {c \in Cells \ Chunk(w) :
     /\ BlockOf(c) = Block(w)
     /\ OffsetOf(c) \in {OffsetOf(cursor[w]), OffsetOf(ChunkStop(w) - 1)}}

(* The cells of the chunk's first and last sector the payload leaves alone,
   where the sector's bit is still clear.                                  *)
Uncovered(w) ==
  {c \in Cells \ Chunk(w) :
     /\ BlockOf(c) = Block(w)
     /\ OffsetOf(c) \in {OffsetOf(cursor[w]), OffsetOf(ChunkStop(w) - 1)}
     /\ OffsetOf(c) \notin sector[host[w]].bits}

Define(w) ==
  /\ At(w, "define")
  /\ Put(Filling(host[w], Uncovered(w), Zero))
  /\ Continue(w, "data")
  /\ UNCHANGED <<reader, writer>>
  /\ Quiet

(* The bitmap read fails, or one of the fills does, in part. *)
DefineFails(w) ==
  /\ At(w, "define")
  /\ Fault
  /\ \E D \in SUBSET Uncovered(w) : Put(Filling(host[w], D, Zero))
  /\ Fail(w)
  /\ UNCHANGED reader
  /\ Quiet

WriteData(w) ==
  /\ At(w, "data")
  /\ Put(Filling(host[w], Chunk(w), op[w].value))
  /\ Continue(w, "readBitmap")
  /\ UNCHANGED <<reader, writer>>
  /\ Quiet

DataFails(w) ==
  /\ At(w, "data")
  /\ Fault
  /\ \E n \in cursor[w] .. ChunkStop(w) :
        Put(Filling(host[w], cursor[w] .. n - 1, op[w].value))
  /\ Fail(w)
  /\ UNCHANGED reader
  /\ Quiet

ReadBitmap(w) ==
  /\ At(w, "readBitmap")
  /\ bits' = [bits EXCEPT ![w] = sector[host[w]].bits]
  /\ Continue(w, "bitmap")
  /\ UNCHANGED <<file, media, reader, op, cursor, host>>
  /\ Quiet

(* Mutant: the bitmap is written anew, not read and modified. *)
WriteBitmapFresh(w) ==
  /\ At(w, "bitmap")
  /\ Put(Bitmapped(host[w], ChunkOffsets(w)))
  /\ Continue(w, "flush")
  /\ UNCHANGED <<reader, writer>>
  /\ Quiet

WriteBitmap(w) ==
  /\ At(w, "bitmap")
  /\ Put(Bitmapped(host[w], bits[w] \cup ChunkOffsets(w)))
  /\ Continue(w, "flush")
  /\ UNCHANGED <<reader, writer>>
  /\ Quiet

(* Where a call goes after a chunk: to the next one, or back to its caller. *)
EndChunk(w) ==
  /\ content' = [c \in Cells |-> IF c \in Chunk(w) THEN {op[w].value}
                                 ELSE content[c]]
  /\ lock' = None
  /\ IF ChunkStop(w) = op[w].to
     THEN Goto(w, "idle") /\ Forget(w)
     ELSE /\ Goto(w, "lock")
          /\ cursor' = [cursor EXCEPT ![w] = ChunkStop(w)]
          /\ host' = [host EXCEPT ![w] = 0]
          /\ bits' = [bits EXCEPT ![w] = {}]
          /\ UNCHANGED op

(* Mutant: the chunk is acknowledged without the last flush. *)
FlushChunkSkipped(w) ==
  /\ At(w, "flush")
  /\ EndChunk(w)
  /\ UNCHANGED <<file, media, reader, faults>>
  /\ Quiet

BitmapFails(w) ==
  /\ At(w, "bitmap")
  /\ Fault
  /\ \E S \in SUBSET ChunkOffsets(w) : Put(Bitmapped(host[w], bits[w] \cup S))
  /\ Fail(w)
  /\ UNCHANGED reader
  /\ Quiet

FlushChunk(w) ==
  /\ At(w, "flush")
  /\ Sync
  /\ EndChunk(w)
  /\ UNCHANGED <<reader, faults>>
  /\ Quiet

(* A flush or the bitmap read that only returns an error. *)
CallFails(w) ==
  /\ \E step \in {"footerFlush", "zeroFlush", "tableFlush", "readBitmap",
                  "flush"} : At(w, step)
  /\ Fault
  /\ Fail(w)
  /\ UNCHANGED <<file, media, reader>>
  /\ Quiet

-----------------------------------------------------------------------------
(* flush_writes takes no lock: it may come between any two steps. *)
FlushWrites ==
  /\ mode = "open"
  /\ Sync
  /\ UNCHANGED <<reader, lock, pc, writer, content, calls, faults, crashes>>

(* The process is gone: a kill, or the reader dropped between calls. *)
Stop ==
  /\ crashes < MaxCrashes
  /\ crashes' = crashes + 1
  /\ mode' = "down"
  /\ lock' = None
  /\ pc' = [w \in Writers |-> "idle"]
  /\ content' = [c \in Cells |->
       content[c] \cup {op[w].value : w \in {u \in Writers : c \in Unsettled(u)}}]
  /\ op' = [w \in Writers |-> NoCall]
  /\ cursor' = [w \in Writers |-> 0]
  /\ host' = [w \in Writers |-> 0]
  /\ bits' = [w \in Writers |-> {}]
  /\ bat' = [b \in Blocks |-> BAT_UNALLOCATED]
  /\ next_alloc_off' = 0
  /\ UNCHANGED <<calls, faults>>

Kill ==
  /\ mode = "open"
  /\ Stop
  /\ UNCHANGED <<file, media>>

Dirty == {s \in Sectors : sectorMedia[s] # {sector[s]}}

(* Everything goes back to some value it may have on the media; what lies
   past the end of the file reads as zeros when the file grows again.      *)
PowerLoss ==
  /\ Stop
  /\ \E n \in sizeMedia,
        pick \in [Dirty -> UNION {sectorMedia[s] : s \in Dirty}],
        entries \in [Blocks -> UNION {tableMedia[b] : b \in Blocks}] :
        /\ \A s \in Dirty : pick[s] \in sectorMedia[s]
        /\ \A b \in Blocks : entries[b] \in tableMedia[b]
        /\ size' = n
        /\ sector' = [s \in Sectors |-> IF n <= s THEN ZeroSector
                                        ELSE IF s \in Dirty THEN pick[s]
                                        ELSE sector[s]]
        /\ table' = entries
  /\ sectorMedia' = [s \in Sectors |-> {sector'[s]}]
  /\ tableMedia' = [b \in Blocks |-> {table'[b]}]
  /\ sizeMedia' = {size'}

(* A new process opens the file read-write. *)
Open ==
  /\ mode = "down"
  /\ OpenAccepts(table, size, TailFooter)
  /\ mode' = "open"
  /\ bat' = table
  /\ next_alloc_off' = OpenTail(table, size, TailFooter)
  /\ UNCHANGED <<file, media, lock, pc, writer, content, calls, faults,
                 crashes>>

-----------------------------------------------------------------------------
(* What a reader over BAT t returns for cell c. *)
Visible(t, c) ==
  LET e == t[BlockOf(c)]
  IN IF e = BAT_UNALLOCATED \/ OffsetOf(c) \notin sector[e].bits
     THEN Zero
     ELSE sector[DataSectorOf(e, c)].cells[PartOf(c)]

Init ==
  /\ \E img \in InitialImages :
        /\ sector = img.sector
        /\ table = img.table
        /\ size = img.size
  /\ OpenAccepts(table, size, TailFooter)
  /\ sectorMedia = [s \in Sectors |-> {sector[s]}]
  /\ tableMedia = [b \in Blocks |-> {table[b]}]
  /\ sizeMedia = {size}
  /\ mode = "open"
  /\ bat = table
  /\ next_alloc_off = OpenTail(table, size, TailFooter)
  /\ lock = None
  /\ pc = [w \in Writers |-> "idle"]
  /\ op = [w \in Writers |-> NoCall]
  /\ cursor = [w \in Writers |-> 0]
  /\ host = [w \in Writers |-> 0]
  /\ bits = [w \in Writers |-> {}]
  /\ content = [c \in Cells |-> {Visible(table, c)}]
  /\ calls = 0 /\ faults = 0 /\ crashes = 0

Proceed(w) ==
  \/ TakeLock(w)
  \/ Allocate(w) \/ RefuseEntry(w) \/ GrowFails(w)
  \/ WriteFooter(w) \/ FooterFails(w) \/ FlushFooter(w)
  \/ ZeroBlock(w) \/ ZeroFails(w) \/ FlushZero(w)
  \/ WriteTable(w) \/ TableFails(w) \/ FlushTable(w)
  \/ Define(w) \/ DefineFails(w)
  \/ WriteData(w) \/ DataFails(w)
  \/ ReadBitmap(w) \/ WriteBitmap(w) \/ BitmapFails(w)
  \/ FlushChunk(w) \/ CallFails(w)

Next ==
  \/ \E w \in Writers : Call(w) \/ Proceed(w)
  \/ FlushWrites \/ Kill \/ PowerLoss \/ Open

Spec == Init /\ [][Next]_vars

(* The scheduler runs every thread that can run.  Nothing obliges anyone to
   call, kill, cut the power or reopen.                                    *)
FairSpec == Spec /\ \A w \in Writers : WF_vars(Proceed(w))

-----------------------------------------------------------------------------
(* Correctness *)

FileType ==
  /\ sector \in [Sectors -> SectorContents]
  /\ table \in [Blocks -> Nat]
  /\ size \in 1 .. Capacity
  /\ sectorMedia \in [Sectors -> SUBSET SectorContents]
  /\ tableMedia \in [Blocks -> SUBSET Nat]
  /\ sizeMedia \in SUBSET (1 .. Capacity)

ReaderType ==
  /\ mode \in {"open", "down"}
  /\ bat \in [Blocks -> Sectors \cup {BAT_UNALLOCATED}]
  /\ next_alloc_off \in Nat

WriterType ==
  /\ lock \in Writers \cup {None}
  /\ pc \in [Writers -> Steps]
  /\ op \in [Writers -> [to : 1 .. VirtualCells, value : Values]]
  /\ cursor \in [Writers -> Cells]
  /\ \A w \in Writers : cursor[w] < op[w].to
  /\ host \in [Writers -> Sectors]
  /\ bits \in [Writers -> SUBSET Offsets]

HistoryType ==
  /\ content \in [Cells -> SUBSET Values]
  /\ calls \in Nat /\ faults \in Nat /\ crashes \in Nat

(* Every variable has its type: among them, a writer's cursor stays inside its
   call, and the block it works on begins inside the device.               *)
TypeOK == FileType /\ ReaderType /\ WriterType /\ HistoryType

(* Whatever was interrupted, wherever it was interrupted, the next open_inner
   believes the table it finds: a process that was killed, or a machine that
   lost power, never leaves an image that is refused.                      *)
AlwaysOpens == mode = "down" => OpenAccepts(table, size, TailFooter)

(* Every entry that could ever be read back for a block, cached, in the file
   or on the media after a power loss.                                     *)
Entries(b) == ({bat[b], table[b]} \cup tableMedia[b]) \ {BAT_UNALLOCATED}

(* allocate_block_locked never hands out a range an entry may name: the tail
   lies past every block that is, or after a failed or lost write may turn
   out to be, in the table.                                                *)
TailIsFree ==
  mode = "open" =>
    /\ DataStart <= next_alloc_off
    /\ \A b \in Blocks : \A e \in Entries(b) : e + BlockTotal <= next_alloc_off

(* An allocation before the tail moves, and after. *)
Building == {"footer", "retryFooter", "footerFlush", "zero", "zeroFlush"}
Publishing == {"table", "tableFlush"}

(* allocate_block_locked (1122-1137): "Fail in step 0 or 1 and the tail never
   moved", so the next allocation takes the same range and nothing leaks; once
   the BAT write may be issued the tail is past the range, published or not,
   by one block and no more.                                               *)
TailSettles ==
  [][mode' = "open" =>
       \A w \in Writers :
         /\ pc[w] \in Building /\ pc'[w] = "idle" => next_alloc_off' = host[w]
         /\ pc[w] \in Publishing /\ pc'[w] \notin Publishing =>
              next_alloc_off' = FooterAt(host[w])]_vars

(* No two guest blocks share a sector of the file, in any combination of old
   and new entries a crash can leave.                                      *)
BlocksDisjoint ==
  \A b1, b2 \in Blocks :
    b1 # b2 => \A e \in Entries(b1), f \in Entries(b2) : DisjointBlocks(e, f)

(* The values a read of c may return now: what the last completed write left,
   or what a write that failed or was cut off since may have left, or what
   the chunk in flight is writing.                                         *)
InFlight(c) ==
  {op[w].value : w \in {u \in Writers :
     c \in Unsettled(u) /\ pc[u] \in {"readBitmap", "bitmap", "flush"}}}
Permitted(c) == content[c] \cup InFlight(c)

(* A cell reads as a value it may have, through the open reader and through
   one opened on the file as it stands.  An acknowledged write is never lost,
   to another writer, a failed write, a kill or a power loss, and no byte
   appears that nobody wrote.                                              *)
ReadBack ==
  \A c \in Cells : /\ Visible(table, c) \in Permitted(c)
                   /\ mode = "open" => Visible(bat, c) \in Permitted(c)

(* A running reader changes a sector of a published block only inside the
   chunk whose writer holds the lock: its bitmap, or a data sector the chunk
   covers.                                                                 *)
Touches(w) ==
  {host[w]} \cup {DataSectorOf(host[w], c) : c \in Chunk(w)}
OnlyOwnChunk ==
  [][mode' = "open" =>
       \A b \in Allocated(table) : \A s \in Extent(table[b]) :
         sector'[s] # sector[s] =>
           /\ lock \in Writers
           /\ Block(lock) = b
           /\ s \in Touches(lock)]_vars

(* The block is zeroed over the old trailing footer, and published, only when
   the new trailing footer is on the media and no shorter file is: until the
   call ends, a power loss finds a footer at the end.                      *)
NewFooterIsDurable ==
  lock \in Writers /\ pc[lock] \in {"zero", "zeroFlush", "table", "tableFlush"}
    => \A n \in sizeMedia : \A x \in sectorMedia[n - 1] : x.footer = "whole"

(* A call that has begun returns, or the process goes away. *)
WriteReturns == \A w \in Writers : pc[w] = "lock" ~> pc[w] = "idle"

(* What the image promises its guest: the file, the BAT and the bitmaps
   together are a virtual disk.                                            *)
ViewedTable == IF mode = "open" THEN bat ELSE table
Landing == {w \in Writers : Unsettled(w) # {}}

Disk == INSTANCE VirtualDisk WITH
  Idle <- None,
  disk <- [c \in Cells |-> Visible(ViewedTable, c)],
  writing <- IF Landing = {} THEN None
             ELSE LET w == CHOOSE u \in Landing : TRUE
                  IN [cells |-> Chunk(w), value |-> op[w].value]

(* The write path implements the virtual disk: what was acknowledged changes
   only by a later write to the same cell; a failed write leaves each of its
   cells old or new and touches no other; a kill or a power loss brings back
   nothing but values a cell might still hold.                             *)
IsVirtualDisk == Disk!Spec

-----------------------------------------------------------------------------
(* The inductive invariant behind TailIsFree, BlocksDisjoint and AlwaysOpens *)

Holding == Steps \ {"idle", "lock"}

(* Whoever is past the lock holds it, and a stopped process holds nothing. *)
LockInv ==
  /\ \A w \in Writers : pc[w] \in Holding => lock = w
  /\ mode = "down" => \A w \in Writers : pc[w] = "idle"

(* What the file reads as is among what a power loss may leave of it. *)
MediaInv ==
  /\ \A s \in Sectors : sector[s] \in sectorMedia[s]
  /\ \A b \in Blocks : table[b] \in tableMedia[b]
  /\ size \in sizeMedia
  /\ \A n \in sizeMedia : DataStart < n

(* The block was named before the file was last opened, and nothing that may
   come back names another place for it.                                   *)
Settled(b, e) ==
  /\ tableMedia[b] = {e}
  /\ table[b] = e
  /\ mode = "open" => bat[b] = e

NoFooterIn(h) ==
  \A s \in Extent(h) \cap Sectors : \A x \in sectorMedia[s] : x.footer = "none"

(* Wherever an entry points, the block lies between the metadata and the last
   sector of the file, or ends a file that was cut off after it; and none of
   its sectors can be taken for a footer.                                  *)
EntryInv ==
  \A b \in Blocks : \A e \in Entries(b) :
    /\ DataStart <= e
    /\ \A n \in sizeMedia :
          e + BlockTotal < n \/ (e + BlockTotal = n /\ Settled(b, e))
    /\ NoFooterIn(e)

(* A block under construction lies at the tail, past every block an entry may
   name, in a file long enough for it and its footer; by the time it is
   published no power loss finds the file shorter or a footer in the block. *)
Built(w) ==
  /\ pc[w] \in {"allocate"} \cup Building \cup Publishing =>
       bat[Block(w)] = BAT_UNALLOCATED
  /\ pc[w] \in Building => host[w] = next_alloc_off
  /\ pc[w] \in Building \cup Publishing =>
       DataStart <= host[w] /\ FooterAt(host[w]) < size
  /\ pc[w] \in {"zero", "zeroFlush"} \cup Publishing =>
       \A n \in sizeMedia : FooterAt(host[w]) < n
  /\ pc[w] = "zeroFlush" =>
       \A s \in Extent(host[w]) \cap Sectors : sector[s].footer = "none"
  /\ pc[w] \in Publishing =>
       /\ next_alloc_off = FooterAt(host[w])
       /\ NoFooterIn(host[w])
       /\ \A b \in Blocks \ {Block(w)} : \A e \in Entries(b) :
            e + BlockTotal <= host[w]
BuildInv == \A w \in Writers : Built(w)

LayoutInv ==
  LockInv /\ MediaInv /\ EntryInv /\ BuildInv /\ TailIsFree /\ BlocksDisjoint

(* Past the allocation, a writer works on the block its entry names; the bits
   it read are the block's until it writes them back.                      *)
Landed == {"define", "data", "readBitmap", "bitmap", "flush"}
AtBlock(w) ==
  /\ pc[w] \in Building \cup Publishing \cup Landed => host[w] # BAT_UNALLOCATED
  /\ pc[w] \in Landed => host[w] = bat[Block(w)]
  /\ pc[w] = "bitmap" => bits[w] = sector[host[w]].bits
PayloadInv == \A w \in Writers : AtBlock(w)

(* A file is never longer than the footer of the block at the tail; from the
   flush of that footer on, no power loss finds the file shorter or without it. *)
Footed(w) ==
  /\ pc[w] \in {"footerFlush", "zero", "zeroFlush"} \cup Publishing =>
       size = FooterAt(host[w]) + 1
  /\ pc[w] = "footerFlush" => TailFooter = "whole"
  /\ pc[w] \in {"zero", "zeroFlush"} \cup Publishing =>
       /\ sizeMedia = {size}
       /\ \A x \in sectorMedia[size - 1] : x.footer = "whole"
FooterInv ==
  /\ mode = "open" => size <= FooterAt(next_alloc_off) + 1
  /\ \A w \in Writers : Footed(w)

-----------------------------------------------------------------------------
(* The inductive invariant behind ReadBack and IsVirtualDisk *)

CellAt(h, c) == sector[DataSectorOf(h, c)].cells[PartOf(c)]

(* The cached BAT names nothing the file does not. *)
CachedIsWritten ==
  \A b \in Blocks : bat[b] # BAT_UNALLOCATED => table[b] = bat[b]

(* What a call has done so far stays done: the block it zeroed is zero, the
   entry it wrote is in the table, the fills, the payload and the bits of its
   chunk are in the block.                                                 *)
Written(w) ==
  /\ pc[w] = "zeroFlush" =>
       \A s \in Extent(host[w]) \cap Sectors : sector[s] = ZeroSector
  /\ pc[w] \in Publishing =>
       \A s \in Extent(host[w]) \cap Sectors : sectorMedia[s] = {ZeroSector}
  /\ pc[w] = "tableFlush" => table[Block(w)] = host[w]
  /\ pc[w] \in {"data", "readBitmap", "bitmap"} =>
       \A c \in Uncovered(w) : CellAt(host[w], c) = Zero
  /\ pc[w] \in {"readBitmap", "bitmap", "flush"} =>
       \A c \in Chunk(w) : CellAt(host[w], c) = op[w].value
  /\ pc[w] = "flush" =>
       \A c \in Chunk(w) : OffsetOf(c) \in sector[host[w]].bits
ValueInv == CachedIsWritten /\ (\A w \in Writers : Written(w)) /\ ReadBack

(* The entries that may come back for one block name it in different places,
   the one being published past the others.                                *)
EntriesApart ==
  /\ \A b \in Blocks : \A e, f \in Entries(b) : e # f => DisjointBlocks(e, f)
  /\ \A w \in Writers : pc[w] \in Publishing =>
       \A e \in Entries(Block(w)) : e # host[w] => e + BlockTotal <= host[w]

(* What a cell may turn out to be when the process is cut off now. *)
Held(c) == content[c] \cup {op[w].value : w \in {u \in Writers : c \in Unsettled(u)}}

(* Whichever mixture of table, bitmap and data a power loss leaves, a cell is
   one of these: the bytes under any entry that may come back are, and zero is
   where the entry or the bit may not be there.                            *)
MayComeBack(c, e) ==
  /\ \A y \in sectorMedia[DataSectorOf(e, c)] : y.cells[PartOf(c)] \in Held(c)
  /\ \A x \in sectorMedia[e] : OffsetOf(c) \notin x.bits => Zero \in Held(c)
HeldInv ==
  \A c \in Cells :
    /\ \A e \in Entries(BlockOf(c)) : MayComeBack(c, e)
    /\ BAT_UNALLOCATED \in tableMedia[BlockOf(c)] => Zero \in Held(c)

(* No bytes but zeros lie under a clear bit.  A power loss may bring the bitmap
   of a write without its data, so that on another image it shows what lay
   there before (PublishesOnlyWritten, below).                             *)
CleanImages ==
  \A img \in InitialImages : \A c \in Cells :
    LET e == img.table[BlockOf(c)]
    IN e # BAT_UNALLOCATED /\ OffsetOf(c) \notin img.sector[e].bits
         => img.sector[DataSectorOf(e, c)].cells[PartOf(c)] = Zero

(* The images the theorems are about: past the metadata there is at least one
   sector, and no block holds something that looks like a footer.  The first
   leaves out the all-sparse image cut off before its footer.              *)
SoundImages ==
  \A img \in InitialImages :
    OpenAccepts(img.table, img.size, img.sector[img.size - 1].footer) =>
      /\ DataStart < img.size
      /\ \A b \in Allocated(img.table) :
           \A s \in Extent(img.table[b]) \cap Sectors : img.sector[s].footer = "none"

-----------------------------------------------------------------------------
(* Claims of the documentation that the code does not keep *)

(* write_sparse: "the caller's bytes and the bitmap bits that make them
   visible, with a `dev.flush()` between steps": no crash shows a sector's
   bytes as they were before the payload.                                  *)
PublishesOnlyWritten == \A c \in Cells : Visible(ViewedTable, c) # Stale

(* tests/synthetic.rs: "Writing to a recovered, truncated image allocates
   after the last block rather than over it, and leaves an image that opens
   normally."                                                              *)
RecoveredWriteOpens == lock = None => OpenAccepts(table, size, TailFooter)

=============================================================================
