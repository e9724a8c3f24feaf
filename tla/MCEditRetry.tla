----------------------------- MODULE MCEditRetry -----------------------------
(***************************************************************************)
(* One player digging one voxel, over and over: the world stays tiny, the  *)
(* connection does everything it can.                                      *)
(***************************************************************************)
EXTENDS EditRetry, TLC

CONSTANTS p1, v1, c1, Stone

MCVoxel == {v1}
MCAction == {[kind |-> "dig", volume |-> {v1}, material |-> Air]}
MCGenerated == [v \in MCVoxel |-> Stone]
MCSpawnOverride == [v \in MCVoxel |-> None]
MCRegionOf == [v \in MCVoxel |-> 0]
MCAffected == [v \in MCVoxel |-> {c1}]
MCColumnOf == (c1 :> 0)
MCOpId == 1..MaxOp
=============================================================================
