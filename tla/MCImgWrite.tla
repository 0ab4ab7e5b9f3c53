----------------------------- MODULE MCImgWrite -----------------------------
(***************************************************************************)
(* Small instances of ImgWrite beside ImgRead: a disk with a hole is read  *)
(* to a FILE that is shorter or longer than the copy, and a guest of four  *)
(* cells is written from FILE, from a file that grows past what there is   *)
(* room for or is cut short, and through pipes that fit or do not.         *)
(***************************************************************************)
EXTENDS ImgWrite

CONSTANTS a, b, c

Disk == <<a, Zero, b, Zero>>
SomeRanges == {<<0, 3>>, <<1, 3>>}
Found == {<<c>>, <<c, c, c, c>>}

Guest == <<b, b, b, b>>
From(from, offset, pos) == [from |-> from, offset |-> offset, pos |-> pos]
SomeAsks ==
  {From("file", 1, 0), From("file", 0, 1), From("feed", 0, 0), From("feed", 1, 1),
   From("pipe", 2, 0), From("pipe", 5, 0), From("image", 0, 0)}
SomePipes == {<<>>, <<c, a, c>>, <<c, Zero>>}
Feed == <<c, a>>
=============================================================================
