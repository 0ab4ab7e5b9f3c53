------------------------------ MODULE MCGeometry ------------------------------
(***************************************************************************)
(* Sizes for Geometry: the smallest disks, the sizes at which the ladder   *)
(* gains a head or changes rung, its ceiling, and the ceiling of the       *)
(* format.                                                                 *)
(***************************************************************************)
EXTENDS Geometry

(* Each head of the first rung adds 1024 tracks of 17 sectors. *)
HeadEdges == {1024 * 17 * h : h \in 4 .. 16}

RungEdges == {1024 * 16 * 17, 1024 * 16 * 31, LADDER_CEILING_SECTORS}

Around(S, n) == UNION {e - n .. e + n : e \in S}

Edges ==
  1 .. 80
    \cup Around(HeadEdges, 4)
    \cup Around(RungEdges, 1)
    \cup {1024 * 16 * 31 + 1000, 5000000}
    \cup Around({MAX_ADDRESSABLE_SECTORS}, 2)
    \cup {MAX_ADDRESSABLE_SECTORS + 5000}

(* Where a size found in one stretch of the ladder lies in another. *)
HeadEdge == 1024 * 17 * 4 - 70 .. 1024 * 17 * 4 + 20
=============================================================================
