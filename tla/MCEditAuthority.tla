---------------------------- MODULE MCEditAuthority --------------------------
(***************************************************************************)
(* A small world for the edit authority: one horizontal and one vertical   *)
(* axis, chunks of edge 3 and regions as wide as a chunk (the code: three  *)
(* axes, 32 and 256).  The stencils straddle a region border and a chunk   *)
(* corner; one voxel belongs to the protected spawn.                       *)
(***************************************************************************)
EXTENDS EditAuthority, TLC

CONSTANTS p1, p2, s1, s2, w1, w2, Stone

Edge == 3

\* Corner of chunk (0,0); neighbour across the region border; an interior
\* voxel that is Air; the protected spawn pillar, Air in the source.
Corner == <<2, 2>>
Beyond == <<3, 2>>
Pillar == <<1, 1>>

MCVoxel == {Corner, Beyond, Pillar}
MCChunk == (0..1) \X (0..1)
MCColumn == 0..1
MCRegion == 0..1
MCGenerated == [v \in MCVoxel |-> IF v = Pillar THEN Air ELSE Stone]
MCSpawnOverride == [v \in MCVoxel |-> IF v = Pillar THEN Stone ELSE None]
MCProtected == {Pillar}
MCRegionOf == [v \in MCVoxel |-> v[1] \div Edge]
MCColumnOf == [c \in MCChunk |-> c[1]]

\* A corner voxel touches the product of what it touches on each axis.
MCAffected ==
  [v \in MCVoxel |-> (AxisChunks(Edge, v[1]) \X AxisChunks(Edge, v[2])) \cap MCChunk]

\* A chunk product is built from the chunk and a one-voxel shell around it.
MCSampled ==
  [c \in MCChunk |-> {v \in MCVoxel : InShell(Edge, v[1], c[1]) /\ InShell(Edge, v[2], c[2])}]

Dig(volume) == [kind |-> "dig", volume |-> volume, material |-> Air]
Place(volume) == [kind |-> "place", volume |-> volume, material |-> Stone]

RetryActions == {Dig({Corner, Beyond}), Place({Corner}), Dig({Pillar})}
OverlapActions ==
  {Dig({Corner, Beyond}), Dig({Beyond}), Dig({Pillar}), Place({Corner, Beyond})}

\* Every client sends everything; or one player digs a volume of two regions
\* and fills it again, or digs it in a second session, while the other digs a
\* part of the volume, fills it, or tries the protected pillar.
Anything == [p \in Player |-> Session \X OpId \X Action]
AroundOneHole ==
  [p \in Player |->
     IF p = p1 THEN {<<s1, 1, Dig({Corner, Beyond})>>, <<s1, 2, Place({Corner, Beyond})>>,
                      <<s2, 1, Dig({Corner, Beyond})>>}
     ELSE {<<s2, 1, Dig({Beyond})>>, <<s2, 1, Place({Corner, Beyond})>>,
           <<s2, 1, Dig({Pillar})>>}]

WorkerSessionSymmetry == Permutations({w1, w2}) \cup Permutations({s1, s2})
=============================================================================
