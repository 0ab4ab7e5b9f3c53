----------------------------- MODULE MCSparseRead -----------------------------
(***************************************************************************)
(* Small instances of SparseRead, on the images of MCSparseImage.          *)
(***************************************************************************)
EXTENDS SparseRead, MCSparseImage

FreshAndHalf == {FreshImage, ForeignImage({1}, "whole")}

WriteRanges == {<<0, 1>>, <<1, 3>>}

(* Both sectors of block 0; the boundary between the blocks; everything. *)
ReadRanges == {<<0, 2>>, <<1, 3>>, <<0, 4>>}
=============================================================================
