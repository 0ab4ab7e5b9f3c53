------------------------------ MODULE MCImgRead ------------------------------
(***************************************************************************)
(* Small instances of ImgRead: three chunks with a hole in the middle or   *)
(* at the end of what is asked for, over a file that is longer or shorter. *)
(***************************************************************************)
EXTENDS ImgRead

CONSTANTS a, b, c

Disk == <<a, Zero, b, Zero>>
SomeRanges == {<<0, 3>>, <<1, 3>>, <<0, 2>>, <<2, 3>>}
Found == {<<c>>, <<c, c, c, c>>}
=============================================================================
