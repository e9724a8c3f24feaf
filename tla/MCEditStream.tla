---------------------------- MODULE MCEditStream ----------------------------
(* An instance of EditStream for TLC: one voxel, seen by one chunk.        *)
EXTENDS EditStream

CONSTANTS e1, e2, core, home

OneChunk == [k \in {home} |-> {core}]
OneChunkAffected == [v \in {core} |-> {home}]
=============================================================================
