--------------------------- MODULE MCTerrainRegions --------------------------
(* Instances of TerrainRegions for TLC.                                    *)
EXTENDS TerrainRegions, TLC

CONSTANTS c1, c2, surface, volume, leaf, edge, block, west, east, l1, l2, l3

\* A coverage root of two columns with a page in each, and an exact region in
\* the column that is edited.
MCPagesOf == [r \in {surface, volume} |-> IF r = surface THEN {leaf, edge} ELSE {block}]
MCFootprint == [p \in {leaf, edge, block} |-> IF p = edge THEN {east} ELSE {west}]
MCRootColumns == [r \in {surface, volume} |-> IF r = surface THEN {west, east} ELSE {west}]
\* One caller stays with the coverage root, the other one moves between roots.
MCAsks == [c \in {c1, c2} |-> IF c = c1 THEN {surface} ELSE {surface, volume}]
MCSize == [r \in {surface, volume} |-> 1]
=============================================================================
