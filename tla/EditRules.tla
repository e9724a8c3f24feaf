------------------------------ MODULE EditRules ------------------------------
(***************************************************************************)
(* The vocabulary and the pure planning rules of the edit authority        *)
(* (world-service/src/edits.rs): what a dig or a place does to the sparse  *)
(* override map and to the editor's inventory, which chunk products it     *)
(* invalidates, and which horizontal regions it has to lock.  The state    *)
(* machines EditLedger (what the authority promises) and EditAuthority     *)
(* (how it works) are both built on these operators.                       *)
(***************************************************************************)
EXTENDS Integers, FiniteSets, Sequences, FiniteSetsExt

CONSTANTS
  Player,         \* durable player identities
  Session,        \* edit session ids (fresh UUIDs in the code)
  OpId,           \* operation ids a client may use, a set of positive naturals
  Voxel,          \* voxel coordinates
  Chunk,          \* 32^3 chunk coordinates
  Column,         \* horizontal (x, z) chunk columns
  Region,         \* horizontal edit regions, as integers: BTreeSet order is <
  Material,       \* the materials an inventory slot can hold (Air excluded)
  Air,            \* the empty voxel
  None,           \* "no override", "no session", "no plan"
  Action,         \* the edit actions clients send
  Generated,      \* [Voxel -> Material \cup {Air}], the immutable source
  SpawnOverride,  \* [Voxel -> Material \cup {Air, None}], server-authored spawn
  Protected,      \* voxels inside the protected spawn disc
  RegionOf,       \* [Voxel -> Region]
  Affected,       \* [Voxel -> SUBSET Chunk], chunks whose mesh samples a voxel
  ColumnOf,       \* [Chunk -> Column]
  Retained        \* receipts kept per player (64 in the code)

InitialRevision == 1

Solid == Material \cup {Air}
Override == Solid \cup {None}
Overrides == [Voxel -> Override]
Counts == [Material -> Nat]

ASSUME PlayerAssumption == IsFiniteSet(Player) /\ None \notin Player
ASSUME SessionAssumption == None \notin Session
ASSUME OpIdAssumption == OpId \subseteq Nat \ {0}
ASSUME MaterialAssumption == Air \notin Material /\ None \notin Solid
ASSUME RegionAssumption == IsFiniteSet(Region) /\ Region \subseteq Int
ASSUME VoxelAssumption ==
  /\ IsFiniteSet(Voxel)
  /\ Generated \in [Voxel -> Solid]
  /\ RegionOf \in [Voxel -> Region]
  /\ Affected \in [Voxel -> SUBSET Chunk]
  /\ ColumnOf \in [Chunk -> Column]
ASSUME SpawnAssumption ==
  /\ Protected \subseteq Voxel
  /\ SpawnOverride \in Overrides
  /\ \A v \in Voxel : SpawnOverride[v] # None => v \in Protected
ASSUME ActionAssumption ==
  \A a \in Action :
    /\ a.kind \in {"dig", "place"}
    /\ a.volume \subseteq Voxel
    /\ a.volume # {}
    /\ a.kind = "place" => a.material \in Material
ASSUME RetainedAssumption == Retained \in Nat \ {0}

-----------------------------------------------------------------------------
(* Effective world: durable player edits plus the spawn geometry on top.   *)

\* install_protected_spawn: the spawn overrides replace durable ones.
Overlay(durable) ==
  [v \in Voxel |-> IF SpawnOverride[v] # None THEN SpawnOverride[v] ELSE durable[v]]

\* EditMap::resolve_generated.
At(edits, v) == IF edits[v] # None THEN edits[v] ELSE Generated[v]

\* EditMap::replace_durable_overrides with one final material per voxel: a
\* value the generator already produces is stored as "no override".
Written(edits, S, m) ==
  [v \in Voxel |->
     IF v \in S THEN (IF m = Generated[v] THEN None ELSE m) ELSE edits[v]]

-----------------------------------------------------------------------------
(* Planning: which voxels change, and what it does to the inventory.       *)

\* Digging leaves Air behind, placing leaves the placed material.
Outcome(a) == IF a.kind = "dig" THEN Air ELSE a.material

\* Protected spawn: any voxel of the volume inside the disc refuses the action.
IntersectsSpawn(a) == a.volume \cap Protected # {}

\* Placing needs an unobstructed volume and one unit per voxel.
Plannable(edits, counts, a) ==
  a.kind = "place" =>
    /\ \A v \in a.volume : At(edits, v) = Air
    /\ Cardinality(a.volume) <= counts[a.material]

\* Digging skips voxels that are Air already; placing changes the whole volume.
Mutated(edits, a) ==
  IF a.kind = "dig" THEN {v \in a.volume : At(edits, v) # Air} ELSE a.volume

\* Every removed voxel credits its own material; a place debits its volume.
CountsAfter(edits, counts, a) ==
  [m \in Material |->
     IF a.kind = "dig" THEN counts[m] + Cardinality({v \in a.volume : At(edits, v) = m})
     ELSE IF m = a.material THEN counts[m] - Cardinality(a.volume)
     ELSE counts[m]]

\* AffectedProducts::from_mutations.
AffectedBy_OneEach(S) == {CHOOSE c \in Affected[v] : TRUE : v \in S}

AffectedBy(S) == UNION {Affected[v] : v \in S}

\* EditMap::affected_chunks along one axis: a voxel on the border of its chunk
\* also touches the neighbour on that side.
AxisChunks(edge, x) ==
  LET base == x \div edge
  IN {base} \cup (IF x % edge = 0 THEN {base - 1} ELSE {})
            \cup (IF x % edge = edge - 1 THEN {base + 1} ELSE {})

\* MeshingHalo along one axis: a chunk is meshed with a shell of one voxel.
InShell(edge, x, base) == edge * base - 1 <= x /\ x <= edge * base + edge

\* edit_regions: every horizontal region the volume reaches.
RegionsOf(a) == {RegionOf[v] : v \in a.volume}

-----------------------------------------------------------------------------
(* Receipts: the player's newest operations, oldest first.                 *)

Receipt == [session : Session, op : OpId, action : Action,
            voxels : SUBSET Voxel, revision : Nat]

HasReceipt_AnySession(receipts, s, o) == \E i \in DOMAIN receipts : receipts[i].op = o

HasReceipt(receipts, s, o) ==
  \E i \in DOMAIN receipts : receipts[i].session = s /\ receipts[i].op = o

\* persist_operation appends the outcome and prunes to the newest Retained.
Newest(receipts) ==
  IF Len(receipts) <= Retained THEN receipts
  ELSE SubSeq(receipts, Len(receipts) - Retained + 1, Len(receipts))

-----------------------------------------------------------------------------
(* Revisions of the derived products.                                      *)

\* persist_product_revisions: every affected chunk takes the commit revision.
Bumped(chunkRevisions, chunks, revision) ==
  [c \in Chunk |-> IF c \in chunks THEN revision ELSE chunkRevisions[c]]

\* record_surface_revision: the newest revision of any chunk in the column.
SurfaceBumped_New(surface, chunks, revision) ==
  [k \in Column |-> IF k \in {ColumnOf[c] : c \in chunks} /\ surface[k] = InitialRevision
                    THEN revision ELSE surface[k]]

SurfaceBumped(surface, chunks, revision) ==
  [k \in Column |->
     IF k \in {ColumnOf[c] : c \in chunks} /\ surface[k] < revision
     THEN revision ELSE surface[k]]

\* build_surface_revision_index: the same maxima, recomputed at start-up.
SurfaceIndex(chunkRevisions) ==
  [k \in Column |->
     Max({InitialRevision} \cup {chunkRevisions[c] : c \in {d \in Chunk : ColumnOf[d] = k}})]
=============================================================================
