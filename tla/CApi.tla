-------------------------------- MODULE CApi --------------------------------
(***************************************************************************)
(* The C ABI: handles to devices that lie on one another, opened by path,  *)
(* made by vhd_create_fixed, or put on a handle that is given up for it;   *)
(* what a reference count keeps alive; and reads and writes that go down a *)
(* stack of fixed images to one file.  One caller, one call at a time, who *)
(* keeps to the header: only handles that are its own, and nothing else    *)
(* opened while one of them is.                                            *)
(*                                                                         *)
(* The file is a row of sectors, each what Footer::parse reads in it.      *)
(***************************************************************************)
EXTENDS OpenImage, FiniteSets

CONSTANTS
  Files,           \* what the file may hold, and how it may be opened
  Sizes,           \* what vhd_create_fixed may be asked for, in sectors
  exact,           \* size_with_exact_geometry
  Written,         \* what callers write
  MaxDevices       \* bound: devices ever made; a file may set a lower one

(* A sector as a footer; what else a file says of itself; and a file. *)
SectorContents == [cookie : BOOLEAN, checksum : BOOLEAN, disk_type : Nat,
                   data_offset : Nat, current_size : Nat]
HeaderContents == [cookie : BOOLEAN, checksum : BOOLEAN, at : Nat, table_offset : Nat,
                   max_table_entries : Nat, block_size : Nat]
LocatorContents == [code : BOOLEAN, at : Nat, length : Nat]
Tables == [header : HeaderContents, bat : Seq(Nat), locators : Seq(LocatorContents)]

IsFile(f) ==
  /\ f.sectors \in Seq(SectorContents)
  /\ [header |-> f.header, bat |-> f.bat, locators |-> f.locators] \in Tables
  /\ f.access \in {"rw", "ro"} /\ f.slack \in 0 .. 1
  /\ f.devices \in 0 .. MaxDevices

ASSUME ApiAssumption ==
  /\ \A f \in Files : IsFile(f)
  /\ \A s \in Sizes : s \in Nat /\ exact[s] \in Nat /\ exact[s] >= s
  /\ Written \subseteq Nat
  /\ MaxDevices \in Nat \ {0}

VARIABLES
  file,        \* what of the file no call below changes
  media,       \* its sectors
  dev,         \* every device there ever was
  refs,        \* which Arcs there are: who holds which device
  freed,       \* how often each device's handle was freed
  pc, call,    \* the call under way
  seen,        \* the image it looked at, and the verdict
  touched      \* the sectors the last read or write came to

state == <<dev, refs, freed>>
vars == <<file, media, state, pc, call, seen, touched>>

Devices == 1 .. MaxDevices

-----------------------------------------------------------------------------
(* Sectors *)
Sector(cookie, checksum, disk_type, data_offset, current_size) ==
  [cookie |-> cookie, checksum |-> checksum, disk_type |-> disk_type,
   data_offset |-> data_offset, current_size |-> current_size]

(* A sector of guest data; what it holds takes the place of the size. *)
Data(v) == Sector(FALSE, FALSE, 0, 0, v)
FixedFooter(sectors) == Sector(TRUE, TRUE, FIXED, NoOffset, sectors * SECTOR_SIZE)

NoHeader == [cookie |-> FALSE, checksum |-> FALSE, at |-> 0, table_offset |-> 0,
             max_table_entries |-> 0, block_size |-> 0]

-----------------------------------------------------------------------------
(* Devices *)
NoDevice == [kind |-> "none", below |-> 0, sectors |-> 0, writable |-> FALSE,
             footer |-> Data(0)]
Bottom(kind, writable, sectors) ==
  [NoDevice EXCEPT !.kind = kind, !.writable = writable, !.sectors = sectors]

Ref(by, id, d) == [by |-> by, id |-> id, dev |-> d]
InCall(d) == Ref("call", 0, d)
InBox(d) == Ref("box", d, d)        \* the handle made for device d
InReader(e, d) == Ref("reader", e, d)

Alive(d) == \E r \in refs : r.dev = d
Owned == {d \in Devices : InBox(d) \in refs}
NewDevice == CHOOSE d \in Devices : /\ dev[d].kind = "none"
                                    /\ \A e \in Devices : dev[e].kind = "none" => d <= e
Room == Cardinality({d \in Devices : dev[d].kind # "none"}) < file.devices

(* A reader goes when the last Arc to it goes, and what it held with it: the
   Arcs left are the most of them that keep their readers alive.           *)
KeepsReaders(K) == \A r \in K : r.by = "reader" => \E q \in K : q.dev = r.id
Settle(R) == UNION {K \in SUBSET R : KeepsReaders(K)}

(* Each layer from the handle down, as read_at and write_at reach them: the
   handle's, and with any of them the one it lies on.                      *)
GoesDown(K) == \A e \in K : dev[e].below \in K \cup {0}
Under(h) == {d \in Devices : \A K \in SUBSET Devices : h \in K /\ GoesDown(K) => d \in K}

(* VhdReader::writable and is_writable *)
Writable(d) ==
  dev[d].writable
    /\ (dev[d].kind = "reader" => dev[d].footer.disk_type \in {FIXED, DYNAMIC})

(* What open_inner reads on a device: the file, as far as the layers below let
   it; on a sparse image, whose guest is empty, zeros.                     *)
OnSparse(d) == dev[d].kind = "reader" /\ Sparse(dev[d].footer)
SectorOf(d, s) == IF OnSparse(d) \/ s = 0 THEN Data(0) ELSE media[s]
ImageOn(d) ==
  [size |-> dev[d].sectors * SECTOR_SIZE + (IF dev[d].kind = "reader" THEN 0 ELSE file.slack),
   tail |-> SectorOf(d, dev[d].sectors),
   mirror |-> SectorOf(d, IF dev[d].sectors = 0 THEN 0 ELSE 1),
   header |-> file.header, bat |-> file.bat, locators |-> file.locators]

-----------------------------------------------------------------------------
(* Calls *)
NoCall == [dev |-> 0, writable |-> FALSE, path |-> FALSE]
NoImage == [verdict |-> "none"]

Opening(d, writable, path) ==
  /\ call' = [dev |-> d, writable |-> writable, path |-> path]
  /\ pc' = "open"
  /\ touched' = {}
  /\ UNCHANGED seen

(* vhd_open and vhd_open_rw, once the path is one and the file opens. *)
OpenPath(writable) ==
  /\ pc = "idle" /\ refs = {} /\ Room
  /\ writable => file.access = "rw"
  /\ dev' = [dev EXCEPT ![NewDevice] = Bottom("file", writable, Len(media))]
  /\ refs' = {InCall(NewDevice)}
  /\ Opening(NewDevice, writable, TRUE)
  /\ UNCHANGED <<file, media, freed>>

(* vhd_create_fixed: what CreateImage says of create_fixed, in one step. *)
CreateFixed(size) ==
  /\ pc = "idle" /\ refs = {} /\ Room
  /\ size > 0 /\ file.access = "rw"
  /\ media' = [s \in 1 .. exact[size] |-> Data(0)] \o <<FixedFooter(exact[size])>>
  /\ file' = [file EXCEPT !.slack = 0, !.header = NoHeader, !.bat = <<>>, !.locators = <<>>]
  /\ dev' = [dev EXCEPT ![NewDevice] = Bottom("file", TRUE, exact[size] + 1)]
  /\ refs' = {InCall(NewDevice)}
  /\ Opening(NewDevice, TRUE, TRUE)
  /\ UNCHANGED freed

(* fs_core_device_from_callbacks: the caller's own device over the file. *)
FromCallbacks ==
  /\ pc = "idle" /\ refs = {} /\ Room
  /\ dev' = [dev EXCEPT ![NewDevice] = Bottom("raw", file.access = "rw", Len(media))]
  /\ refs' = {InBox(NewDevice)}
  /\ touched' = {}
  /\ UNCHANGED <<file, media, freed, pc, call, seen>>

(* Mutant: the box the handle is in is not dropped. *)
OnDeviceKept(h, writable) ==
  /\ pc = "idle" /\ h \in Owned /\ Room
  /\ refs' = refs \cup {InCall(h)}
  /\ freed' = [freed EXCEPT ![h] = freed[h] + 1]
  /\ Opening(h, writable, FALSE)
  /\ UNCHANGED <<file, media, dev>>

(* vhd_open_on_device and vhd_open_rw_on_device: the device is taken out of the
   handle, and the handle is freed, before anything is looked at.          *)
OnDevice(h, writable) ==
  /\ pc = "idle" /\ h \in Owned /\ Room
  /\ refs' = (refs \ {InBox(h)}) \cup {InCall(h)}
  /\ freed' = [freed EXCEPT ![h] = freed[h] + 1]
  /\ Opening(h, writable, FALSE)
  /\ UNCHANGED <<file, media, dev>>

(* Returning NULL: what the call held is let go. *)
Null ==
  /\ refs' = Settle(refs \ {InCall(call.dev)})
  /\ pc' = "returned"
  /\ UNCHANGED <<file, media, dev, freed, call, touched>>

(* A device that cannot be written is refused to vhd_open_rw_on_device. *)
RefuseReadOnly ==
  /\ pc = "open"
  /\ ~ call.path /\ call.writable /\ ~ Writable(call.dev)
  /\ Null
  /\ UNCHANGED seen

Looking == pc = "open" /\ (~ call.path /\ call.writable => Writable(call.dev))

(* A device call fails, as every read of a tail that is not TailReadable does, or
   panics in the caller's callback and is caught.                          *)
OpenFails ==
  /\ Looking
  /\ Null
  /\ UNCHANGED seen

(* A differencing image needs a path, and a parent that opens: ParentChain. *)
NeedsParent(img) == Verdict(img) = "ok" /\ FooterOf(img).disk_type = DIFFERENCING

(* The last sector is read through every layer down to the file, and each of
   them refuses what lies past its own end.                                *)
TailReadable(d) ==
  OnSparse(d) \/ \A e \in Under(d) : dev[d].sectors <= dev[e].sectors

Look(verdict) == seen' = [img |-> ImageOn(call.dev), verdict |-> verdict]

Refuse ==
  /\ Looking /\ TailReadable(call.dev)
  /\ IF NeedsParent(ImageOn(call.dev))
     THEN Look("parent")
     ELSE Verdict(ImageOn(call.dev)) # "ok" /\ Look(Verdict(ImageOn(call.dev)))
  /\ Null

Opened ==
  /\ Looking /\ TailReadable(call.dev) /\ Room
  /\ Verdict(ImageOn(call.dev)) = "ok"
  /\ NeedsParent(ImageOn(call.dev)) => call.path
  /\ LET f == FooterOf(ImageOn(call.dev))
     IN dev' = [dev EXCEPT ![NewDevice] =
                  [kind |-> "reader", below |-> call.dev,
                   sectors |-> f.current_size \div SECTOR_SIZE,
                   writable |-> call.writable, footer |-> f]]
  /\ refs' = (refs \ {InCall(call.dev)})
               \cup {InReader(NewDevice, call.dev), InBox(NewDevice)}
  /\ Look("ok")
  /\ pc' = "returned"
  /\ UNCHANGED <<file, media, freed, call, touched>>

Return ==
  /\ pc = "returned"
  /\ pc' = "idle"
  /\ call' = NoCall
  /\ seen' = NoImage
  /\ UNCHANGED <<file, media, state, touched>>

(* fs_core_device_close *)
Close(h) ==
  /\ pc = "idle" /\ h \in Owned
  /\ refs' = Settle(refs \ {InBox(h)})
  /\ freed' = [freed EXCEPT ![h] = freed[h] + 1]
  /\ touched' = {}
  /\ UNCHANGED <<file, media, dev, pc, call, seen>>

-----------------------------------------------------------------------------
(* Reads and writes of fixed images: virtual offset and host offset are one. *)

(* Mutants: a sector past the end; a reader opened read-only writes. *)
InBoundsPast(d, from, n) == from + n <= dev[d].sectors + 1
Unguarded(d) == dev[d].kind = "reader" \/ dev[d].writable

InBounds(d, from, n) == from + n <= dev[d].sectors

MayWrite(d) == Writable(d)

Reaches(h, from, n) ==
  \A d \in Under(h) : InBounds(d, from, n) /\ ~ OnSparse(d)

Read(h, from, n) ==
  /\ pc = "idle" /\ h \in Owned
  /\ dev[h].kind = "reader"
  /\ Reaches(h, from, n)
  /\ touched' = from + 1 .. from + n
  /\ UNCHANGED <<file, media, state, pc, call, seen>>

Write(h, from, n, v) ==
  /\ pc = "idle" /\ h \in Owned
  /\ dev[h].kind = "reader"
  /\ Reaches(h, from, n)
  /\ \A d \in Under(h) : MayWrite(d)
  /\ media' = [s \in DOMAIN media |-> IF s \in from + 1 .. from + n THEN Data(v) ELSE media[s]]
  /\ touched' = from + 1 .. from + n
  /\ UNCHANGED <<file, state, pc, call, seen>>

-----------------------------------------------------------------------------
Init ==
  /\ \E f \in Files :
       /\ file = [access |-> f.access, slack |-> f.slack, header |-> f.header,
                  bat |-> f.bat, locators |-> f.locators, devices |-> f.devices]
       /\ media = f.sectors
  /\ dev = [d \in Devices |-> NoDevice]
  /\ refs = {}
  /\ freed = [d \in Devices |-> 0]
  /\ pc = "idle"
  /\ call = NoCall
  /\ seen = NoImage
  /\ touched = {}

Next ==
  \/ \E w \in BOOLEAN : OpenPath(w)
  \/ \E s \in Sizes : CreateFixed(s)
  \/ FromCallbacks
  \/ \E h \in Devices, w \in BOOLEAN : OnDevice(h, w)
  \/ RefuseReadOnly \/ OpenFails \/ Refuse \/ Opened \/ Return
  \/ \E h \in Devices : Close(h)
  \/ \E h \in Devices, from \in 0 .. Len(media), n \in 1 .. Len(media) :
       \/ Read(h, from, n)
       \/ \E v \in Written : Write(h, from, n, v)

Spec == Init /\ [][Next]_vars

-----------------------------------------------------------------------------
(* Correctness *)

(* A handle is freed once: by its close, or by the call it is given up to,
   whether that succeeds, fails or panics.  A device alive has one holder: the
   call under way, the reader on it, or a handle the caller may still close;
   and between calls a reader is held by no one but a handle or a reader that
   is itself alive.  Nothing leaks, nothing is used after it is gone.      *)
Ownership ==
  /\ \A d \in Devices : freed[d] <= 1 /\ (d \in Owned => freed[d] = 0)
  /\ \A d \in Devices : Alive(d) => Cardinality({r \in refs : r.dev = d}) = 1
  /\ \A r \in refs : /\ r.by = "reader" => Alive(r.id) /\ dev[r.id].below = r.dev
                     /\ r.by = "call" => pc = "open"

(* An image opened read-only, or over a device that is, is not written, whoever
   opened the layers above it and how.                                     *)
ReadOnlyUntouched ==
  [][media' # media /\ refs # {} =>
       \A d \in Devices : Alive(d) => dev[d].writable]_vars

(* A fixed image's footer is off limits through every layer, whatever the images
   above and below it say, if its own size ends where the footer begins or
   before: no read or write comes to that sector.  open_inner (204) compares
   the two nowhere, and an image that says more has its footer in its guest. *)
FooterOffLimits ==
  \A d \in Devices :
    LET at == dev[dev[d].below].sectors
    IN /\ Alive(d) /\ dev[d].kind = "reader" /\ dev[d].footer.disk_type = FIXED
       /\ dev[d].sectors < at
       => at \notin touched /\ media[at] = dev[d].footer

(* open_inner takes a sparse image exactly when no block or locator shares a byte
   with anything else and all of it is in the file.                        *)
AcceptsExactlySound ==
  pc = "returned" /\ seen.verdict # "none" =>
    LET img == seen.img
    IN /\ seen.verdict \in {"ok", "parent"} => TailParses(img) \/ MirrorStandsIn(img)
       /\ (TailParses(img) \/ MirrorStandsIn(img)) /\ Sparse(FooterOf(img)) =>
            (seen.verdict \in {"ok", "parent"} <=> Sound(img, FooterOf(img)))

-----------------------------------------------------------------------------
(* The inductive invariant behind the above *)
Refs == [by : {"call", "box", "reader"}, id : 0 .. MaxDevices, dev : Devices]
OpenFiles == [access : {"rw", "ro"}, slack : 0 .. 1, header : HeaderContents,
              bat : Seq(Nat), locators : Seq(LocatorContents), devices : 0 .. MaxDevices]
CallsUnderWay == [dev : 0 .. MaxDevices, writable : BOOLEAN, path : BOOLEAN]

TypeOK ==
  /\ file \in OpenFiles
  /\ media \in Seq(SectorContents)
  /\ DOMAIN dev = Devices
  /\ \A d \in Devices : dev[d].kind \in {"none", "file", "raw", "reader"}
                         /\ dev[d].below \in 0 .. MaxDevices
  /\ refs \subseteq Refs
  /\ freed \in [Devices -> Nat]
  /\ pc \in {"idle", "open", "returned"}
  /\ call \in CallsUnderWay
  /\ touched \subseteq Nat

(* Devices are numbered as they are made, a reader after what it lies on; and
   none is freed before it is made.                                        *)
DeviceInv ==
  \A d \in Devices :
    /\ dev[d].kind = "reader" => dev[d].below \in 1 .. d - 1
    /\ dev[d].kind = "none" =>
         freed[d] = 0 /\ \A e \in Devices : e > d => dev[e].kind = "none"
    /\ freed[d] <= 1 /\ (InBox(d) \in refs => freed[d] = 0)

(* A device has one holder; all but one of the holders are readers on the
   device, alive themselves.                                               *)
HolderInv ==
  /\ \A r \in refs :
       /\ dev[r.dev].kind # "none"
       /\ r.by = "box" => r = InBox(r.dev)
       /\ r.by = "call" => r = InCall(call.dev) /\ pc = "open"
       /\ r.by = "reader" => /\ r.id \in Devices /\ Alive(r.id)
                             /\ dev[r.id].kind = "reader" /\ dev[r.id].below = r.dev
  /\ \A r, q \in refs : r.dev = q.dev => r = q
  /\ \A r, q \in refs : r.by # "reader" /\ q.by # "reader" => r = q
  /\ pc = "open" => InCall(call.dev) \in refs

OwnersInv == TypeOK /\ DeviceInv /\ HolderInv

(* Under every device is the file, all of it; so what was read through all the
   layers under a fixed image, its footer, is in the file.                 *)
LayerInv ==
  /\ \A d \in Devices : dev[d].sectors \in Nat /\ dev[d].footer \in SectorContents
  /\ pc # "idle" => touched = {}
  /\ \A d \in Devices : dev[d].kind # "reader" => dev[d].below = 0
  /\ \A d \in Devices : Alive(d) =>
       \E b \in Under(d) : dev[b].kind # "none" /\ dev[b].sectors = Len(media)
  /\ \A d \in Devices : Alive(d) /\ dev[d].kind = "reader" /\ dev[d].footer.disk_type = FIXED =>
       LET at == dev[dev[d].below].sectors
       IN /\ at \in 1 .. Len(media)
          /\ dev[d].sectors < at => at \notin touched /\ media[at] = dev[d].footer

(* What a call reports is what open_inner makes of the image it looked at. *)
SeenInv ==
  /\ pc # "returned" => seen.verdict = "none"
  /\ seen.verdict # "none" => \/ seen.verdict = Verdict(seen.img)
                              \/ seen.verdict = "parent" /\ Verdict(seen.img) = "ok"

(* A header that parses has a table, all of it given. *)
TableGiven(t) == HeaderParses(t.header) => t.header.max_table_entries \in 1 .. Len(t.bat)
TablesGiven == \A f \in Files : TableGiven(f)

IsImage(img) ==
  /\ img.size \in Nat /\ img.tail \in SectorContents /\ img.mirror \in SectorContents
  /\ [header |-> img.header, bat |-> img.bat, locators |-> img.locators] \in Tables
  /\ TableGiven(img)

ImageInv ==
  /\ TableGiven(file)
  /\ seen.verdict # "none" => IsImage(seen.img)
=============================================================================
