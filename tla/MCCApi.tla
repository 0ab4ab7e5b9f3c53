------------------------------- MODULE MCCApi -------------------------------
(***************************************************************************)
(* Files for CApi: stacks of fixed images; files whose footers are damaged *)
(* in every way at either end; sparse images of three blocks with entries  *)
(* anywhere in the file; headers and tables that do not fit; and locators  *)
(* anywhere among two blocks.                                              *)
(***************************************************************************)
EXTENDS CApi

NoBlocks == <<BAT_UNALLOCATED, BAT_UNALLOCATED, BAT_UNALLOCATED>>

File(sectors, slack, header, bat, locators, access, devices) ==
  [devices |-> devices, sectors |-> sectors, slack |-> slack, header |-> header, bat |-> bat,
   locators |-> locators, access |-> access]

Blank(n) == [s \in 1 .. n |-> Data(0)]
Fixed(sectors, access) == File(sectors, 0, NoHeader, NoBlocks, <<>>, access, 4)

(* One image, an image in an image, three; fixed images with room to spare, and
   ones that say more than what precedes their footer.                     *)
Stacks ==
  {Fixed(s, access) :
     access \in {"rw", "ro"},
     s \in {Blank(2) \o <<FixedFooter(2)>>,
            <<Data(0), FixedFooter(1), FixedFooter(2)>>,
            <<Data(0), FixedFooter(1), FixedFooter(2), FixedFooter(3)>>,
            Blank(3) \o <<FixedFooter(1)>>, <<FixedFooter(0)>>,
            Blank(2) \o <<FixedFooter(3)>>, Blank(2) \o <<FixedFooter(4)>>,
            <<Data(0), FixedFooter(1), FixedFooter(3)>>,
            <<Data(0), FixedFooter(2), FixedFooter(2)>>}}

(* The header at sector 1, a table of three entries behind it: data from
   half sector 10 on.                                                      *)
Header(block) == [cookie |-> TRUE, checksum |-> TRUE, at |-> 2, table_offset |-> 6,
                  max_table_entries |-> 3, block_size |-> block]
Footer(kind, size) == Sector(TRUE, TRUE, kind, 2, size)

SparseFile(first, last, n, slack, header, bat, locators) ==
  File(<<first>> \o Blank(n - 2) \o <<last>>, slack, header, bat, locators, "rw", 2)

(* Both ends of a sparse image, and of files of one sector and of none. *)
Ends == {Footer(DYNAMIC, 6), Footer(DIFFERENCING, 6), FixedFooter(3), Data(0),
         [Footer(DYNAMIC, 6) EXCEPT !.checksum = FALSE], Footer(5, 6)}
EndFiles ==
  {SparseFile(first, last, 8, slack, Header(2), NoBlocks, <<>>) :
     first \in Ends, last \in Ends \ {FixedFooter(3)}, slack \in 0 .. 1}
  \cup {Fixed(<<last>>, "rw") : last \in Ends \ {FixedFooter(3)}}
  \cup {File(<<>>, 1, NoHeader, NoBlocks, <<>>, "rw", 2)}

(* Entries anywhere, behind each kind of tail. *)
Tails == {Footer(DYNAMIC, 6), [Footer(DYNAMIC, 6) EXCEPT !.checksum = FALSE], Data(0)}
Entries == {BAT_UNALLOCATED} \cup {0} \cup 4 .. 10
TableFiles ==
  {SparseFile(Footer(DYNAMIC, 6), last, 11, 0, Header(2), bat, <<>>) :
     last \in Tails, bat \in [1 .. 3 -> Entries]}
  \cup
  {SparseFile(Footer(DYNAMIC, 6), last, 14, 0, Header(4), <<7, e, f>>, <<>>) :
     last \in Tails, e \in 4 .. 13, f \in {BAT_UNALLOCATED, 10}}

(* Headers that are none, lie elsewhere, or do not fit. *)
HeaderFiles ==
  {SparseFile(Data(0), [Footer(DYNAMIC, size) EXCEPT !.data_offset = offset], 8, 0, h, NoBlocks, <<>>) :
     size \in {5, 6, 7}, offset \in {NoOffset, 0, 2, 13},
     h \in {Header(2), [Header(2) EXCEPT !.cookie = FALSE],
            [Header(2) EXCEPT !.checksum = FALSE], [Header(2) EXCEPT !.at = 0],
            [Header(1) EXCEPT !.table_offset = 7], Header(3), Header(8),
            [Header(2) EXCEPT !.table_offset = 13], [Header(2) EXCEPT !.table_offset = 14],
            [Header(2) EXCEPT !.max_table_entries = 2]}}

(* A locator anywhere, by itself or behind an unused one. *)
Locator(code, at, length) == [code |-> code, at |-> at, length |-> length]
LocatorFiles ==
  {SparseFile(Footer(DIFFERENCING, 6), last, 13, 0, Header(2), <<9, BAT_UNALLOCATED, 6>>,
              <<Locator(FALSE, 0, 3), Locator(TRUE, at, length)>>) :
     last \in {Footer(DIFFERENCING, 6), Data(0)}, at \in 0 .. 26, length \in {0, 1, 2, 5, 9}}

AllFiles == Stacks \cup EndFiles \cup TableFiles \cup HeaderFiles \cup LocatorFiles

(* What the proofs ask of the files. *)
ASSUME FilesMeetHypotheses == TablesGiven

Rounded == [s \in 0 .. 2 |-> IF s = 2 THEN 3 ELSE s]
=============================================================================
