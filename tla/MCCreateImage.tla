---------------------------- MODULE MCCreateImage ----------------------------
(***************************************************************************)
(* Small instances of CreateImage: BATs of one to four sectors of two      *)
(* entries, three sectors to a write, over nothing, over a file that is no  *)
(* image, over an image with a block in it and over a fixed one.           *)
(***************************************************************************)
EXTENDS CreateImage

Ask(kind, size, block, force) ==
  [kind |-> kind, size |-> size, block |-> block, force |-> force]

SomeAsks ==
  {Ask("fixed", 2, 1, TRUE), Ask("fixed", 3, 1, FALSE), Ask("dynamic", 3, 1, FALSE),
   Ask("fixed", 10, 1, TRUE), Ask("fixed", 10, 1, FALSE),
   Ask("dynamic", 4, 2, TRUE), Ask("dynamic", 7, 1, TRUE), Ask("dynamic", 9, 1, FALSE)}

(* 3 sectors are rounded up to 4; a file of 11 is too long. *)
Rounded == [s \in 0 .. 10 |-> IF s = 3 THEN 4 ELSE s]

Guest == [is |-> "guest"]
Allocated == [is |-> "table", end |-> 6]

(* The image Ask("dynamic", 4, 2, TRUE) makes, once its first block is there. *)
UsedImage ==
  LET fresh == Image(Ask("dynamic", 4, 2, TRUE))
  IN <<fresh[1], fresh[2], fresh[3], Allocated, Guest, Guest, fresh[1]>>
UsedFixed == <<Guest, Guest, Guest, Footer("fixed", 3)>>
NoImage == <<Guest, Guest>>

SomeFiles == {Missing, UsedImage, UsedFixed, NoImage}
=============================================================================
