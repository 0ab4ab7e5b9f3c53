# rust-img-vhd in TLA+

This directory holds TLA+ models of `rust-img-vhd`, a library and command line
tool that reads, writes and creates VHD disk images (fixed, dynamic and
differencing), the TLC configurations that check them on small instances, and
TLAPS proofs that hold for every instance. Line numbers refer to the
repository, whose root is `src/` (the crate's own sources are under `src/src/`).

## 1. Inventory

| part | where | state it keeps | operations | status |
|---|---|---|---|---|
| sparse write path and allocation | `reader.rs` 723-857, 1015-1441 | cached BAT (`bat`), tail (`next_alloc_off`), the file | `write_at`, `write_sparse`, `allocate_block_locked`, `define_partial_sectors`, `set_bitmap_range`, `flush_writes` | modelled: `SparseImage` |
| sparse open and footer recovery | `reader.rs` 143-490 | builds `bat`, `next_alloc_off` | `open_inner` | modelled: the verdict on any image in `OpenImage`, the tail and what crashes leave in `VhdLayout` and `SparseImage`, the parents in `ParentChain` |
| sparse read | `reader.rs` 863-982 | the caller's buffer | `read_sparse`, `read_block_unallocated` | modelled: `SparseRead`, and `ParentChain` for the fall-through |
| fixed images | `reader.rs` 674-757 | none | `read_fixed`, the fixed branch of `write_at` | modelled, in stacks: `CApi` |
| differencing chain | `reader.rs` 143-170, 863-982, 1453-1587 | `parent`, depth | `open_parent`, `parent_file_name`, `check_parent_identity` | modelled: `ParentChain` |
| footer parse | `footer.rs` | none | `Footer::parse` | partly: its errors in their order and the fields `open_inner` acts on (`OpenImage`), not the bytes |
| dynamic header | `dynamic.rs` | none | `parse`, `build_dynamic_header`, `bitmap_size_bytes` | partly: what `parse` refuses, the bitmap size and the fields `open_inner` acts on (`OpenImage`), not the bytes |
| footer build, geometry | `footer_build.rs` | none | `chs_for_size`, `size_with_exact_geometry`, `build_*_footer` | modelled: `Geometry` |
| creation | `reader.rs` 524-632, `cli/vhd/img.rs` 640-707 | the new file | `create_fixed`, `create_dynamic`, `img create` | modelled, one at a time: `CreateImage` |
| `img` command | `cli/vhd/*.rs` | files it writes | `read`, `write`, `create`, `info`, `get` | partly: all that changes anything: `read -o FILE` (`ImgRead`), `write` (`ImgWrite`) and `create` |
| C ABI | `capi.rs` | ownership of handles | `vhd_open*`, `vhd_create_fixed` | modelled: `CApi` |
| size parser | `cli/vhd/size.rs` | none | | not modelled: a function on strings |
| format constants, errors | `format.rs`, `error.rs` | none | | not modelled: no behaviour |
| tests, fuzzing, scripts | `tests/`, `fuzz/`, `scripts/` | | | not part of the program |

How they interact. `open_inner` parses footer and dynamic header, reads and
judges the BAT, and returns a `VhdReader` whose cached BAT and tail the write
path uses. A `VhdReader` is `Sync` and shared inside an `Arc`: threads meet at
the `bat` mutex, which one chunk of one block's write holds from the look-up to
the last flush, and at the device, which readers reach outside the mutex.
`flush_writes` takes no lock. A differencing child owns its parent's reader,
which is never written. `create_fixed` and `create_dynamic` write a file call by
call and end by opening it. The command and the C ABI sit on top; the command
removes what a failed create or copy leaves. A reader is itself a block device,
so the C ABI can put one image on another; a handle given to
`vhd_open_on_device` is consumed, and the device under it lives on inside the new
one. The output of `img read -o` may be the input of `img write`.

What is hard. (1) Several writers on one BAT, one tail and shared bitmap sectors,
and readers between any two of their steps. (2) Device calls that fail part-way,
in a procedure of about fifteen of them, where the error says nothing about what
landed. (3) A kill or power loss between, or inside, any two steps, and the next
open's view of the result. (4) Images other tools made: bitmaps partly clear over
stale bytes, gaps, a damaged or missing trailing footer, chains whose files change
while they are followed. (5) Boundaries: chunks across blocks, writes inside a
sector, the entry value that means "absent", a device that cannot grow, a parent
shorter than its child, disk sizes where the CHS ladder changes rung, blocks and
locators that touch. (6) Inputs that change while they are read: a file on stdin
that grows, shrinks or is replaced. `PROJECT.json` lists each hazard at its line
with the properties that cover it.

What makes each part correct. Write path: an acknowledged write is never lost and
nothing else changes; no two blocks share a sector; the tail is past everything an
entry may name; the image always reopens; every call returns. Open: an accepted
table never leads outside the file or into another block, and the tail it computes
is free; and no sound image is refused. Read: each byte returned is one the disk
held during the read. Chain: opening ends, opens only the parents declared, and
each sector comes from the nearest layer that has it. Creation and copying: a
failure never leaves something that passes for a finished image. `img write`: one
input, whole, inside the range that was checked, durable when reported. Handles:
each freed once, nothing below freed early, nothing read-only written, no footer
reached that an image's own size keeps off limits. Geometry: the size is the
nearest one above the request and CHS describes it.

## 2. The modules

| module | role |
|---|---|
| `VhdLayout` | arithmetic: addresses, chunk ends, what a BAT entry can name, `open_inner`'s verdict on a table and its tail |
| `SparseImage` | the write path, the device, faults, kills, power loss and reopening (extends `VhdLayout`) |
| `VirtualDisk` | the abstract specification `SparseImage` implements: cells, one write in progress, crashes |
| `SparseRead` | readers beside the writers (extends `SparseImage`; its steps are the writers' steps or a reader's) |
| `ParentChain` | opening a differencing chain and reading through it |
| `Geometry` | the CHS ladder and the search for a size it describes |
| `CreateImage` | `img create`, `create_fixed`, `create_dynamic` |
| `ImgRead` | `img read -o FILE` |
| `ImgWrite` | `img write` beside `img read -o FILE` (extends `ImgRead`; its steps are the readers' steps or the writer's) |
| `OpenImage` | what `open_inner` makes of one image, as operators, and what a sound image is |
| `CApi` | the C ABI: handles, references and stacks of images (extends `OpenImage`) |
| `MCSparseImage`, `MCSparseRead`, `MCParentChain`, `MCGeometry`, `MCCreateImage`, `MCImgRead`, `MCImgWrite`, `MCCApi` | images, requests, directories and symmetry for TLC |
| `SparseImageProofs` | the write path, proved: types, the layout of the file, and that a chunk touches nothing else |
| `SparseDiskProofs` | the write path, proved: what a cell reads as, through faults and power losses, and that it implements `VirtualDisk` |
| `SparseReadProofs` | the safety of `SparseRead`, proved |
| `ParentChainProofs`, `GeometryProofs`, `CreateImageProofs` | the safety of `ParentChain`, `Geometry` and `CreateImage`, proved |
| `ImgProofs` | the safety of `ImgRead` and `ImgWrite`, proved |
| `CApiProofs` | the verdict of `OpenImage` on every image, and the safety of `CApi`, proved |

Some modules hold a few definitions commented *Mutant*: a definition above it
changed the way a plausible bug would change it. `PROJECT.json` names for every
property the mutant that breaks it.

### SparseImage

Host addresses are in 512-byte sectors (`open_inner` refuses a sparse file whose
length is not a multiple of 512); guest addresses are in cells,
`CellsPerSector` to a sector, so a write may begin or end inside a sector.

* `sector`, `table`, `size` are the file as reads see it. `table` is the BAT,
  kept apart from the other sectors, one value per entry. A sector is a record
  of what it says to each code that reads it: as a footer (`whole`, `torn` or
  `none`), as a bitmap, as guest cells.
* `sectorMedia`, `tableMedia`, `sizeMedia` are the values a power loss may leave:
  all written since the last flush, and the last flushed. `dev_flush` (`Sync`)
  collapses them. A kill leaves the file as it reads.
* `bat`, `next_alloc_off`, `lock` are the fields of `VhdReader` behind mutexes.
  `next_alloc_off` is only touched under `bat`, so one lock is kept.
* `pc`, `op`, `cursor`, `host`, `bits` are each thread's place and locals.
* `content` is a history variable: the values a cell may read as between calls.

Each device call of `write_sparse` is a step: `TakeLock` (1057-1070), then for an
absent block `Allocate` or `RefuseEntry` or `GrowFails` (1146-1206),
`WriteFooter`, `FooterFails` with its one retry, `FlushFooter` (1208-1219),
`ZeroBlock`, `ZeroFails`, `FlushZero` which commits the tail (1220-1263),
`WriteTable`, `TableFails`, `FlushTable` which updates the cached BAT
(1265-1283); then `Define` (`define_partial_sectors`), `WriteData`, `ReadBitmap`,
`WriteBitmap`, each with its failure, and `FlushChunk`, which releases the lock
and goes to the next chunk or returns. `CallFails` stands for a failed flush or
bitmap read. `FlushWrites` may come between any two steps. `Kill`, `PowerLoss`
and `Open` end and restart the process.

A failed write leaves a part of what it was writing: any prefix of the zeroed
range and of the payload, any part of the bitmap, nothing or the first bytes or
all of the footer, the old or the new BAT entry.

`VirtualDisk` knows no file. A disk is a function from cells to values; a write in
progress may change its cells only to its value; an acknowledged write fixes
them; a failed one leaves each old or new; a crash brings back only values a
cell might still hold. `SparseImage` implements it under the mapping `Disk`:
the disk is what a reader over the current BAT returns, and the write in
progress is the chunk past its first payload write.

### SparseRead

A reader holds the mutex only to copy one entry (`LookEntry`, 882-891); the
bitmap (`ReadBits`) and each run of equal bits (`ReadHole`, `ReadData`) are read
outside it, one device call a step, with any steps of the writers between. `buf`
is the caller's buffer, `seen` a history of what each cell of the disk has been
since the call began. `ReadFails` is a device call that errs. Every step of
`SparseImage` is a step here too (`WriterStep`), and a kill ends the readers.

### ParentChain

A file is what it says of itself: kind, identity, the parent's name and
identity, size, block size, sectors held. `dir` maps names to files and changes
under the opener (`Change`); an open file is the image it was when opened. The
opener's steps are the early returns of `open_inner` and `open_parent` in their
order: `TooDeep`, `Corrupt`, `NoPathToParent`, `NameParent`, `EndOfChain`,
`ParentMissing` or `ParentExists`, `OpenParent` (which passes depth less one),
`CheckIdentity`. `Change` between `ParentExists` and `OpenParent` is the gap
between the test for the file and its opening.

A `read_at` call is followed for one sector, chosen when the call is made: `Hit`
(the layer has it), `Hole` (the last layer, or past a shorter parent: zeros),
`Defer` (the run goes to the parent, cut where the parent ends), `OutOfBounds`.
The range that goes down is kept, because a parent refuses a range past its end.

### Geometry

`Ladder` is the rung arithmetic of `chs_for_size` with its casts; the search of
`size_with_exact_geometry` is a state machine (`Found`, `TryNext`, `Keep`) over
sector counts, and `build_footer` the geometry and size it writes. Numbers are
the real ones, bit for bit; no value comes near 2^64 on the sizes requested, and
`CastsLoseNothing` checks the narrowing casts.

### CreateImage

The file is a sequence of sectors; `Missing` when there is none. `before` holds
the files a power loss may bring back besides the one that reads, `synced` says
there are none. The steps are the calls of the two creators in order: `Create`
(the command's checks, and whether the file existed), `RefuseTable`, `Begin`,
`OpenTruncated`, `RefuseOverflow` (a fixed size whose sum with the footer does not
fit; the file is already cut to nothing by then), `SetLength`, `WriteMirror`,
`WriteHeader`, `WriteTable` in chunks, `TableWritten`, `WriteFooter`, `Sync`,
`Reopen`, then `CleanUp`, which removes a file that was not there before, and
`Report`. Each may fail, and a write that fails leaves a prefix. `Opens` is what
`open_inner` makes of a file.

### ImgRead

`names` says which file FILE and FILE.partial are, `data` what each file holds,
`dirty` which wait for a sync, `namesMedia` the directories a power loss may
bring back (the program never syncs the directory). A process creates the copy
(`Create`), writes the chunks that are not zero (`CopyChunk`), sets the length
(`SetLength`), syncs, renames, and on failure removes the copy.

### ImgWrite

The guest is a row of cells over which `write_at` and `flush_writes` do what
`VirtualDisk` says: `guest` is what it reads as, `durable` what a power loss
leaves of it for certain. `Write` opens the image and refuses an offset past its
end; `RefuseImage` is `is_same_file`; `CheckLength` looks once at the length of a
file on stdin, `DrainPipe` reads a pipe to its end or one cell past the room
there is; `Stream` takes as much as the call gives, never past the length that
was checked, and lands it where the last ended; `WriteFails` lands a part;
`Flush` comes before the report.

Stdin is FILE, opened before the command starts, which `img read -o FILE` may
replace under its name meanwhile (`names.file` changes, `input` does not); or a
file others lengthen and shorten (`feed`); or a pipe; or the image. Only a write
from FILE is interleaved with the readers' steps: the others see nothing of
them (`Quiet`, `Apart`). A call on stdin and the `write_at` of what it gave are one
step, because nothing else is done with the bytes in between.

### OpenImage and CApi

`OpenImage` reads `open_inner` from top to bottom over an image given as a record:
length, last and first sector as footers, the place that holds a header, the BAT
and the locators. Offsets are in half sectors, so that lengths, tables and
locators can end inside one; a BAT entry takes one half sector, and `BITS` is how
many bits of a bitmap do (2,048 in the code, 1 in the run). Block sizes are all
the powers of two a `u32` can be. `Verdict` follows the code: `SortsBefore` is the
order of the sort, `NeighboursApart` compares two entries that nothing sorts
between, and `LastBefore` is `partition_point` for a locator. `Sound` says, unit by
unit and with no order, what the verdict is to mean.

`CApi` keeps the reference counts as a set of holders, `refs`: a handle, a reader,
or the call under way holds a device. `OnDevice` takes the device out of the
handle and frees it before anything is looked at; `RefuseReadOnly`, `OpenFails` (an
error or a caught panic), `Refuse` return NULL and let go; `Opened` makes a reader
over the device and a handle for it. Both look at the image only where its tail
is `TailReadable`: a layer may say it is longer than the one it lies on, whose
bounds check then refuses the read. `Settle` is what dropping an `Arc` takes with
it: of the references that are left, the most that keep their own readers alive.
`Read` and `Write` go down the stack (`Under`): each layer's bounds, each layer's
permission, the same offset. `CreateFixed` is `CreateImage`'s success in one step.
The caller keeps to the header: it uses only handles that are its own and opens
nothing else while it holds one.

## 3. Runs

| run | question | bounds |
|---|---|---|
| `concurrent_writers` | two threads that write parts of sectors on a fresh image and one another tool made, a full device, an exhausted address space: is a write lost, a range handed out twice or leaked, another block touched, anything published that nobody wrote? | 3 calls, 2 faults, no crash, two cells a sector |
| `crashes` | on whole, loose and damaged images: does the image reopen, do acknowledged writes survive, is the new footer durable before the old is given up, is this the virtual disk? Also checks the proofs' inductive invariant | 2 threads, 2 calls, 2 faults, 2 kills or power losses |
| `reads_and_writes` | a reader between any steps of two writers: does it return only bytes the disk held meanwhile, all of them, and do all calls return? | 2 writers, 1 reader, 2 writes, 1 read, 1 fault |
| `parent_chains` | chains with loops, strangers, shorter parents and other block sizes in a directory that changes once: does opening end, is the chain the declared one, does each sector come from the nearest layer? | depth 3, 60 directories |
| `geometry_edges` | every size at an edge of the ladder or of the format: is the size the nearest, does CHS describe it within a cylinder, do the casts lose nothing, does the search end? | some 200 sizes |
| `creating` | creates over nothing, over no image, over images in use, and one too long: what can a failure, a kill or a power loss leave? | 2 creates, 1 fault, 1 crash, BATs of one to four sectors |
| `img_pipeline` | FILE and its copy, and a write into a guest from FILE, a changing file, pipes and the image, under failures, kills and power loss: is FILE whole, and the write of one input, in its range and durable? | 1 reading process, 2 reads, 1 write, 2 faults, 2 crashes, 2 changes of the file |
| `handles` | images with damaged ends, headers, tables and locators, and fixed images in fixed images, some of which say more than they have: is the verdict exactly whether the image is sound, is each handle freed once, is anything read-only written, or a footer reached past its image's size? | 2 to 4 devices; entries and locators anywhere in files of 8 to 14 sectors |
| `publish_after_flush`, `recovered_write_opens`, `geometry_fields_agree`, `img_read_shared` | statements of the documentation or tests that the code does not keep (section 6) | as small as shows it |

Sparse images have two blocks of two sectors behind a footer mirror, a
two-sector header and a one-sector BAT (`DataStart` = 4). Two blocks are enough
for two allocations, for a write that crosses a block boundary, and for one
block to be a neighbour of another; two sectors per block for a bitmap partly
set; two cells per sector, where used, for a write inside one. Two writers
suffice for every race on the lock because writers are interchangeable and hold
it for a whole chunk. `Capacity` leaves room for both blocks and the footer, or
for one, or for one and a truncated second; in `concurrent_writers` the value
that means "absent" is an address the device can reach.

`reads_and_writes` has one payload: a reader only tells a new byte from an old
one, a zero and a stale one, which the image and one payload already provide.
One reader is enough because readers change nothing. The damaged images of
`crashes` have every bit of their allocated blocks set, so that `ReadBack` can
hold across a power loss; the images with clear bits over stale bytes are in
`concurrent_writers`, where the power does not go, and in `publish_after_flush`,
which shows what happens when it does.

`parent_chains` has three files because a fault of the chain involves a layer,
its parent and at most the parent's parent; the depth bound is reached with
three layers. The BATs of `creating` take one write, two writes and a last
write that is shorter. Three chunks make a copy with a hole in the middle, a
hole at the end and none. One write of four cells in chunks of two meets a
file that grows past its room, one cut short between two chunks, one replaced
before, during and after, and short reads at every place.

`handles` has three blocks because an overlap may be with the next block of the
sorted table or the one after; entries take every sector of the file, the footers'
and the header's included, and locators every half sector, with lengths that end
before, at and after each structure. A fixed image says less than what precedes
its footer, that, the whole file or more than the file, by itself and between two
others. Four devices are a file and three images on it; `devices` keeps the files
that are only opened once to two.

Bounds are the constants `MaxCalls`, `MaxFaults`, `MaxCrashes`, `MaxReads`,
`MaxChanges`, `MaxCreates`, `MaxRuns`, `MaxWrites`, `MaxInodes`, `MaxDevices` and
`Capacity`, all in guards. Where a configuration turns deadlock checking off, the
bounds make the system stop: no call is left to make and no crash to suffer.

Fairness. `SparseRead` asks weak fairness of each writer's and each reader's next
step: the operating system runs a thread that can run, and a device call
returns, with or without an error. A thread waiting for the mutex is enabled
only while it is free, so weak fairness alone would not exclude starvation
among endless calls; calls are bounded, so each waiting thread is in the end
alone. `ParentChain` (`Opening`), `Geometry` and `CreateImage` (`Proceed`) each
run one thread, which runs until it returns. Nothing obliges
anybody to call, kill, cut the power, open, or change a directory.

## 4. Proofs

All theorems hold for all constants that meet the modules' assumptions: any
number of writers, blocks, sectors and cells, any images, calls and crashes.

**Types** (`SparseImageProofs`, `TypeCorrect`). `TypeOK` is inductive as it stands:
a writer's cursor stays inside its call because `ChunkEnd` lies in the call
(`ChunkEndBounds`), and its block inside the device because an entry reaches the
cached BAT either from an accepted table (`AcceptedEntries`) or from a tail the
device was grown past (`AllocateTypes`). One lemma per group of actions and, in
each, one step per action.

**Layout** (`SparseImageProofs`). `TailNeverReused`, `NeverShared` and
`NextOpenAccepts` are `TailIsFree`, `BlocksDisjoint` and `AlwaysOpens` of every
behaviour that starts from `SoundImages`: past the metadata there is at least
one sector, and no block holds what looks like a footer. None of the three is
inductive. A step that publishes an entry needs to know that the block was
built, durably, where nobody else's is; one that reopens needs to know which
entries may have survived. The invariant `LayoutInv` adds four parts:

* `LockInv`: who is past the lock holds it, so at most one block is being built.
* `MediaInv`: what reads see is among what a power loss may leave.
* `EntryInv`: whatever an entry may still say, in the cache, the file or on the
  media, the block lies before the last sector of every length the file may
  have, or ends a file cut off after it and has been there since it was opened;
  and none of its sectors can be taken for a footer.
* `BuildInv`: the block being built is at the tail, in a file long enough for it
  and its footer; from the footer's flush no power loss finds the file shorter;
  from the zeroes' flush none finds a footer in the block; and it is published
  only after the tail has moved past it, to just behind it.

`AlwaysOpens` then follows from `EntryInv` and `BlocksDisjoint` (`OpensFromLayout`).
`crashes` checks `LayoutInv` on its instances.

`TailIsSettled` (`TailSettles`) is the comment at `reader.rs` 1122-1137 of every
step: an allocation that fails before the tail moved leaves it where it was, so
the range is not leaked; one that got as far as the BAT write leaves it one block
further, whatever the write did. It follows from `BuildInv`, which says where the
tail is at each step of an allocation, and from the lock.

**Own chunks** (`SparseImageProofs`, `ChunksAreOwn`). `OnlyOwnChunk` speaks of a
step, so it needs an invariant of the state it starts from: `PayloadInv`
(`PayloadCorrect`) says that a writer past the allocation is at the block its
cached entry names, and that the bits it is about to write back are still the
block's. With `LayoutInv`, which keeps a block under construction away from every
published one, no other step can reach a published sector. `AtBlock` is also
what the readers' proof needs of the writers.

**Disk** (`SparseDiskProofs`). `FooterFirst` (`NewFooterIsDurable`) adds
`FooterInv` to the layout: the file never ends past the tail's next footer, and
from the flush of the footer on the new end is durable and whole. The values need
three more invariants. `ValueInv` says what the open call has done so far: the
block it zeroed is zero, its entry is in the table, the fills, the payload and the
bits of its chunk are in the block. It is enough while the power stays on:
`ReadsSurviveFaults` proves `ReadBack` of every behaviour without a power loss, on
all `SoundImages`. A power loss leaves any mixture of what was written since the
last flush, so `EntriesApart` says that the entries that may come back for one
block lie in different places, and `HeldInv` that the bytes under any of them, and
zero where an entry or a bit may be missing, are values the cell may still hold.
Then `ReadsSurvive` is `ReadBack` in full, and `ImplementsDisk` that every step is
a step of `VirtualDisk` or none (`IsVirtualDisk`).

The last two ask for `CleanImages`: no bytes but zeros lie under a clear bit. It
is needed: `publish_after_flush` shows the bitmap of a write come back without its
data, over what lay there before. Images this code makes are clean, and so is
every block it allocates. `MCSparseImage` has TLC evaluate both hypotheses on the
images of the runs (`ImagesMeetHypotheses`), but for the one cut-off image of
`recovered_write_opens` that `SoundImages` leaves out.

**Readers** (`SparseReadProofs`). `ReadsNeverStale` (`ReadsAreCurrent`),
`ReadsWhole` (`FillsTheRange`) and `ReadsStayInside` (`ReadsInsideFile`), for any
numbers of readers and writers. `ReaderInv` (`ReadersCorrect`) has, besides the
types, `Told`: the read's history holds what each of its cells is now, and every
filled byte is in it; and `AtHost`: the entry a reader copied under the lock is
still the block's, because a running process never withdraws or changes one; the
bits it copied are still set, because none is ever cleared; and where one was
clear, zero has been what the cell held. So a run of set bits is read where the
block still is, and a clear run is a value of the past. The writers' three
invariants are carried along, since every step is one of theirs or changes none of
their state.

**Chain** (`ParentChainProofs`). `NeverTooManyFiles` (`DepthBounded`: the depth
left and the layers opened add up), `OpensDeclaredChain` (`ChainIsDeclared`),
`ReadsFallThrough` (`ReadsNearest`) and `NoCallRefused` (`OnlyCallerRefused`). The
invariant `IInv` adds that layers below the last have passed their identity check
(`ChainInv`) and that a pending read's range lies inside the layer it is at and
the sector was not held above (`ReadInv`): the reason the cut at the parent's end
is needed.

**Geometry** (`GeometryProofs`). `NearestSize` (`NearestExact`): the size created
holds the request, and no smaller size that holds it is described exactly by its
own geometry. `SearchInv` says no count passed over would have done.
`GeometryFits` (`WithinACylinder`): CHS beside the size is within a cylinder of
it, below the ceiling, on every rung (`FirstRungFacts`, `LadderEnds`,
`CylindersLeave`). `CastsKeepCounts` (`CastsLoseNothing`): cylinders fit 16 bits,
heads and sectors 8, and none is zero.

**Creation** (`CreateImageProofs`). `NothingHalfMadeOpens` (`OpensAsAsked`),
`WhatIsMadeIsWhole` (`CreatedIsWhole`) and `NothingIsLeft` (`NothingLeft`), for
any sizes, block sizes, old files and lengths of the BAT. `CreateInv` has three
parts. `TraceInv`: whatever may be at the path, now or after a power loss, is what
was there or a part of an image that was asked for (`PartOf`), and what is not
synced is a part. `StageInv`: at each step the file is exactly what the steps
before it wrote. `MadeInv`: a finished image is on stable storage, and a command
that comes to nothing knows the file was there. A part that opens at all is an
empty disk of what was asked (`PartOpensEmpty`): the footer it is opened by, at
either end, is the image's, a table sector that is accepted was written (zeros
name blocks inside the metadata), and nothing else of it is read.

**Command** (`ImgProofs`). With one process at a time on a FILE (`Tools = {t}`;
`img_read_shared` is why), any source, ranges, values and crashes:
`FileNeverPartial` and, beside a writer, `FileStaysWhole` (`FileIsWhole`),
`CopyStaysWhole` (`CopyIsWhole`) and `NoPartialStays` (`NoPartialLeft`);
`RangeKept` (`OnlyTheRange`), `InputWhole` (`TakesOneInput`) and
`ReportedIsDurable` (`DoneIsDurable`). `ReadInv` says that every directory a power
loss may leave has under FILE a file that is whole and synced, never the one under
the copy's name; and of the copy how far it has come. `WriteInv` says that the
file stdin is has been FILE in one of those directories (`InputKept`), so that no
reader ever changes it: a new copy takes an inode that none of them names. What
has landed is then a beginning of that one input (`InputTaken`), and the guest is
what it was with that much laid over it (`GuestKept`).

**Verdict and handles** (`CApiProofs`). `VerdictIsSound` (`AcceptsExactlySound`):
the sort and the comparison of neighbours find every overlap, and
`partition_point` every block a locator touches. `AcceptedIsSound` proves it of
one image with any numbers: of the blocks that sort before a given one there is a
last (`LastOfBlocks`), it is a neighbour, and no earlier one reaches further
(`NeighboursSuffice`, `LastBlockSays`); the rest is intervals and the parity of
sector addresses. It holds for any power of two as a block's size and any `BITS`.

`OneOwner` (`Ownership`), `ReadOnlyStays` (`ReadOnlyUntouched`) and `FootersStay`
(`FooterOffLimits`) are about any files, numbers of devices and sequences of calls.
`OwnersInv`: devices are numbered as they are made and a reader comes after what
it lies on (`DeviceInv`); a device has one holder, and all holders but one are
readers that are held themselves (`HolderInv`). So whatever is alive lies under
the one handle there is (`AliveIsUnder`), and a write asks permission of, and a
read or write stays inside, every layer alive. So what a call reaches ends where
the image's own size does, and before its footer if that size does. `LayerInv`
adds where that footer is: the file, whole, lies under every layer, and a tail
that was read through all of them is in it. One hypothesis, evaluated on the
files of the run (`FilesMeetHypotheses`): `TablesGiven`, a header that parses has a
table of one entry or more, all of it given (with an empty table `open_inner`
still compares a locator with the place it would have, and `Sound` has nothing to
compare).

## 5. Only model-checked, and not modelled

Only model-checked: liveness (`ReadsReturn`, `WriteReturns`, `OpenEnds`,
`AlwaysMade`, `CreateEnds`), which the prover cannot express. Every invariant and
every action property of the passing runs is a theorem.

Not modelled. In the write path: a torn 4-byte BAT entry (the entry lies within
one sector), mutex poisoning and panics, the semantics of a failed `fsync` (data
may be dropped by the kernel though later flushes succeed), guest data that
looks like a footer, two handles on one file, a bitmap of several sectors
written in part (`BitmapSectors` is a constant but `WriteBitmap` is one step),
zeroing over the BAT other than as entries of 0 (it only happens in
`recovered_write_opens`), and the guard `block_idx >= bat.len()`, which no request
inside the disk reaches. Reads of a chain change no layer, and a chain's child
that is written is not composed with `SparseImage`. In creation: two creates at
one path at once, another process on that path, and the durability of the
directory entry apart from the file's (`Sync` commits both). In the command:
`read` to standard output, `info`, `get`, the parsing of arguments and sizes; an
image without a write path, which `img write` refuses before it looks at stdin;
an inode that is used again (a file once named is never given out again before a
power loss); the error of a failed removal, which the command only reports,
leaves the step `stuck` or `kept`.

In `CApi`: one caller, one call at a time, and one opening of the file at once; a
sparse image as the lower layer has an empty guest, and reads and writes go only
through fixed images (the others are `SparseImage` and `SparseRead`); a
differencing image opened by path succeeds or not as `ParentChain` says. The size
of a layer is in whole sectors, where `reader.rs` 198 keeps the bytes
`current_size` says. Of an error only its kind is kept, not which field was wrong.
What the parsers do with bytes beyond their verdict is not modelled, nor are
strings: error texts, parent names, sizes.

## 6. What the violation runs show

1. `recovered_write_opens`. `open_inner` moves the tail past the last block only when
   there is one. For an all-sparse image cut off before its footer the tail is
   the last sector of the BAT; the first allocation zeroes it and the image is
   refused from then on.
2. `geometry_fields_agree`. A size found in one stretch of the ladder may lie in
   another, whose own geometry is smaller: a request of 69,565 sectors is
   created with a size of 69,615 beside CHS 1023/4/17, which is 69,564.
3. `publish_after_flush`. Payload and bitmap share one flush; a power loss may keep
   the bitmap alone and publish stale bytes in a block another tool made. In a
   block this code allocated the bytes under a clear bit are zeros, and
   `crashes` shows nothing else can appear.
4. `img_read_shared`. The copy's name depends on FILE alone. Of two `img read -o
   FILE` at once, the second empties the copy the first is about to rename, and
   FILE is the second's copy in the middle of being made.

Five more statements were found too strong while modelling, and have no run of
their own:

* that a footer is in its place at every instant (`reader.rs` 1120): the file is
  grown at 1206 before the footer is written, so it can end in zeros, and then
  opens from the mirror;
* that a reopened image reclaims the space of an allocation cut short
  (`reader.rs` 1001): the tail is taken at 344 from the new length;
* the order data, bitmap, BAT entry, footer (`README.md` 14): a new block's footer
  and entry come before its data;
* that CHS describes a size "up to a track" (`footer_build.rs` 142 and 197,
  `tests/synthetic.rs` 494): 8,192 sectors, the comment's own example, give
  120/4/17, which is 8,160, 32 short with tracks of 17. It is within a cylinder
  (`WithinACylinder`);
* that a fixed image's footer is "implicitly off-limits" (`reader.rs` 745-748):
  `open_inner` (204) does not compare `current_size` with the device, so an image
  that says more than what precedes its footer is opened with the footer in its
  guest, and a write there changes it. `handles` has such images, and
  `FooterOffLimits` and `FootersStay` say when the claim does hold.

## 7. Plan

1. Two creates, or a create and another process, at one path.
2. A bitmap of several sectors written in part.
3. A sparse lower layer with data in `CApi`, over `SparseImage`'s file.
