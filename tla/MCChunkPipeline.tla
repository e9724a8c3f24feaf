-------------------------- MODULE MCChunkPipeline --------------------------
(* Three chunks on a line and two places to stand, at either end; the      *)
(* middle one is of secondary interest some of the time, and is kept when  *)
(* it is not.  Two fit.  Edits touch one or two.                           *)
EXTENDS ChunkPipeline

MCChunk == 1..3
MCFocus == {1, 3}
MCInterests == {{}, {2}}
MCCuts == {{2}, {1, 2}}
MCPagesOf == [k \in MCChunk |-> {IF k = 1 THEN "west" ELSE "east"}]
MCPage == {"west", "east"}

(* The smallest world that keeps a chunk it does not want: two chunks, one *)
(* place to stand, the second chunk wanted some of the time.               *)
KeptChunk == 1..2
KeptFocus == {1}
KeptCuts == {{2}}
KeptPagesOf == [k \in KeptChunk |-> {"east"}]
KeptPage == {"east"}

(* Each of the three conditions of ResidentIsShown is needed.  A commit that  *)
(* comes late is uploaded over a newer one.  A chunk kept but not wanted is  *)
(* remeshed outside any cut, and the staged upload of an earlier commit then *)
(* replaces its new mesh (renderer.rs 7911-7918).  So does one of an earlier *)
(* commit whose pages are presented with older ones beside them.             *)
ShownIfOnTime == ~aside /\ ~overlaid => NewestCapabilityWins
ShownIfWanted == ~late /\ ~overlaid => NewestCapabilityWins
ShownIfHeldBack == ~late /\ ~aside => NewestCapabilityWins
=============================================================================
