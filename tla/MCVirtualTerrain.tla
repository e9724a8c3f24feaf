--------------------------- MODULE MCVirtualTerrain ---------------------------
(***************************************************************************)
(* Two coverage roots of four leaves each.  The player stands at the left  *)
(* end, across the border of the roots or at the right end; near the border*)
(* refinement of one root makes the other one refine for balance.          *)
(***************************************************************************)
EXTENDS VirtualTerrain

\* Refined pages stay refined a little longer than they would be refined anew.
At(at, exact, refine, keep) ==
  [at |-> at, exact |-> exact, refine |-> refine, coarsen |-> refine \cup keep]

Inland == At(<<0, 0>>, {<<0, 0>>}, {<<2, 0>>, <<1, 0>>, <<1, 1>>}, {<<2, 1>>})
Across == At(<<0, 4>>, {<<0, 3>>, <<0, 4>>}, {<<2, 1>>, <<1, 2>>}, {<<2, 0>>, <<1, 1>>, <<1, 3>>})
Far == At(<<0, 7>>, {<<0, 7>>}, {}, {<<2, 0>>, <<2, 1>>})

OneView == {Inland}
ThreeViews == {Inland, Across, Far}
OneUnproven == {<<1, 1>>}
OneLeaf == {<<0, 3>>}
NoPages == {}

\* Two roots of eight leaves.
Deep == At(<<0, 0>>, {<<0, 0>>}, {<<3, 0>>, <<2, 0>>, <<2, 1>>, <<1, 3>>}, {<<2, 2>>})
DeepFar == At(<<0, 11>>, {<<0, 11>>}, {<<3, 1>>, <<2, 2>>, <<1, 4>>}, {<<2, 1>>})
DeepViews == {Deep, DeepFar}
===============================================================================
