------------------------------ MODULE TerrainCut ------------------------------
(***************************************************************************)
(* Which pages own the ground: the cut builder of the virtual terrain      *)
(* (VirtualTerrainHierarchy::select_cut_internal and CutBuilder).          *)
(*                                                                         *)
(* Surface pages form a quadtree; one axis is kept, so a page has two      *)
(* children and two neighbours and an antichain of pages that covers every *)
(* column is a partition of the ground, as in the code.  A cut is built    *)
(* from what is resident: visit the roots, close gaps of two levels by     *)
(* refining the coarse side or, where its children are missing, coarsening *)
(* the fine side under a recorded blocker, then close the handoffs between *)
(* leaves and level-one pages.  Byte, primitive and feedback limits and    *)
(* the screen-error solver are left out.                                   *)
(***************************************************************************)
EXTENDS Integers, FiniteSets

CONSTANTS
  MaxLevel,    \* TERRAIN_COVERAGE_ROOT_LEVEL
  Columns,     \* number of coverage roots inside the horizon
  Incoherent,  \* pages whose children fail validate_terrain_replacement
  Unproven     \* level-one pages without a matching midpoint witness

\* The function f applied n times to x.
Iterated(f, x, n) ==
  LET at[i \in 0..n] == IF i = 0 THEN x ELSE f[at[i - 1]]
  IN at[n]

Children(k) ==
  IF k[1] = 0 THEN {} ELSE {<<k[1] - 1, 2 * k[2]>>, <<k[1] - 1, 2 * k[2] + 1>>}

Parent == [k \in Nat \X Int |-> <<k[1] + 1, k[2] \div 2>>]
AncestorAt(k, l) == Iterated(Parent, k, l - k[1])

\* The coverage roots, and all pages under them.
CoverageRoot == {<<MaxLevel, x>> : x \in 0..(Columns - 1)}
Finer == [S \in SUBSET (Nat \X Int) |-> UNION {Children(k) : k \in S}]
Key == UNION {Iterated(Finer, CoverageRoot, n) : n \in 0..MaxLevel}

ASSUME TreeAssumption ==
  /\ MaxLevel \in Nat \ {0} /\ Columns \in Nat \ {0}
  /\ Incoherent \subseteq Key
  /\ Unproven \subseteq {k \in Key : k[1] = 1}

\* A page and the pages above it; the leaves below it.
Ancestry == [k \in Key |-> {AncestorAt(k, l) : l \in k[1]..MaxLevel}]
Leaf == {k \in Key : k[1] = 0}
LeavesOf == [k \in Key |-> {f \in Leaf : k \in Ancestry[f]}]

Beside(k) == {<<k[1], k[2] - 1>>, <<k[1], k[2] + 1>>}

-----------------------------------------------------------------------------
(* h is the hierarchy [segments, resident, coherent, refined, blockers]: a   *)
(* registered directory is named by its root and describes that page's       *)
(* children; blockers are pairs <<forced page, page whose children it awaits>>*)
(* v is a view [at, exact, refine, coarsen]; q says optional quality counts. *)

HasChildren(h, k) == k \in h.segments
Nodes(h) == (CoverageRoot \cap h.segments) \cup UNION {Children(k) : k \in h.segments}

RequiresExact(v, k) == LeavesOf[k] \cap v.exact # {}

Coherent(resident) ==
  {k \in resident \ Incoherent : Children(k) # {} /\ Children(k) \subseteq resident}

\* record_unavailable_replacement, for every page of S.
WantedDirectories(h, S) == {k \in S : ~HasChildren(h, k) /\ k[1] > 0}
WantedPages(h, S) == (UNION {Children(k) : k \in S \cap h.segments}) \ h.resident

-----------------------------------------------------------------------------
(* CutBuilder::visit, from every root.                                       *)

\* CutBuilder.  balanceRefined and balanceSelected are next_balanced_refined
\* and next_balanced_selected.
Builder == [
  selected : SUBSET Key, touched : SUBSET Key, refined : SUBSET Key,
  balanceRefined : SUBSET Key, balanceSelected : SUBSET Key, blockers : SUBSET (Key \X Key),
  pages : SUBSET Key, directories : SUBSET Key, overflow : BOOLEAN]

Unresolved(h, k) == {b \in Key : <<k, b>> \in h.blockers} \ h.coherent

\* Mutant: the thresholds of the hysteresis change places.
Wants_Swapped(h, v, q, k) ==
  \/ RequiresExact(v, k)
  \/ q /\ k \in (IF k \in h.refined THEN v.refine ELSE v.coarsen)

Wants(h, v, q, k) ==
  \/ RequiresExact(v, k)
  \/ q /\ k \in (IF k \in h.refined THEN v.coarsen ELSE v.refine)

Refines(h, v, q) ==
  {k \in h.coherent : Unresolved(h, k) = {} /\ HasChildren(h, k) /\ Wants(h, v, q, k)}

Visited(h, v, q) ==
  LET R == Refines(h, v, q)
  IN {k \in Key : AncestorAt(k, MaxLevel) \in h.segments /\ Ancestry[k] \ {k} \subseteq R}

Visit(h, v, q) ==
  LET V == Visited(h, v, q)
      R == Refines(h, v, q)
      shown == V \cap h.resident
      forced == {k \in shown : Unresolved(h, k) # {}}
      wants == {k \in shown \ (forced \cup R) : Wants(h, v, q, k)}
      missing == wants \cup UNION {Unresolved(h, k) : k \in forced}
  IN [selected |-> shown \ R,
      touched |-> shown \ R,
      refined |-> shown \cap R,
      balanceRefined |-> {},
      balanceSelected |-> forced,
      blockers |-> {p \in h.blockers : p[1] \in forced /\ p[2] \notin h.coherent},
      pages |-> (V \ h.resident) \cup WantedPages(h, missing),
      directories |-> WantedDirectories(h, missing),
      overflow |-> FALSE]

-----------------------------------------------------------------------------
(* CutBuilder::balance_surface_lod.                                          *)

\* surface_lod_discontinuity_pairs: a page next to one two levels above it.
Gaps(selected) ==
  {e \in selected \X selected :
     /\ e[2][1] >= e[1][1] + 2
     /\ \E n \in Beside(e[1]) : AncestorAt(n, e[2][1]) = e[2]}

\* surface_lod_discontinuity_components: edges whose nominal domains nest.
Domains(e) == {AncestorAt(e[1], e[2][1] - 1), e[2]}
Joined(e, d) ==
  \E a \in Domains(e), b \in Domains(d) : a \in Ancestry[b] \/ b \in Ancestry[a]

Component(edges, e) ==
  LET spread == [S \in SUBSET edges |-> {d \in edges : \E o \in S : Joined(d, o)}]
  IN Iterated(spread, {e}, Cardinality(edges))

Components(edges) == {Component(edges, e) : e \in edges}
CoarseOf(component) == {e[2] : e \in component}

Ready(h, b, component) ==
  \A c \in CoarseOf(component) : c \in h.coherent /\ c \notin b.balanceSelected

\* refine_surface_frontier, for the coarse pages C.
Refined(b, C) ==
  [b EXCEPT !.selected = (@ \ C) \cup UNION {Children(c) : c \in C},
            !.refined = @ \cup C,
            !.balanceRefined = @ \cup C]

Asked(h, b, S) ==
  [b EXCEPT !.pages = @ \cup WantedPages(h, S),
            !.directories = @ \cup WantedDirectories(h, S)]

\* surface_coarsening_target: the lowest resident page one level below c.
Target(h, e) ==
  LET above == {a \in Ancestry[e[1]] : a[1] >= e[2][1] - 1 /\ a \in h.resident}
  IN CHOOSE a \in above : \A o \in above : a[1] <= o[1]

HasTarget(h, e) ==
  \E a \in Ancestry[e[1]] : a[1] >= e[2][1] - 1 /\ a \in h.resident

\* The pages whose children release the coarsening for edge e.
BlockersOf(h, b, e) ==
  LET inherited == {p[2] : p \in {x \in b.blockers : x[1] = e[2]}}
  IN IF inherited # {} THEN inherited ELSE {e[2]} \ h.coherent

\* Mutant: pages below a coarsened one stay counted as refined.
Coarsened_Over(h, v, b, edges) ==
  LET usable == {e \in edges : ~RequiresExact(v, e[1]) /\ HasTarget(h, e)}
      inserted == {Target(h, e) : e \in usable}
  IN [b EXCEPT !.selected = {k \in @ : Ancestry[k] \cap inserted = {}} \cup inserted,
               !.balanceSelected = @ \cup inserted,
               !.blockers = @ \cup UNION {{Target(h, e)} \X BlockersOf(h, b, e) : e \in usable}]

\* coarsen_surface_frontiers: nested targets fall to the highest; a target
\* over an exact page is given up, one that is selected already only learns
\* its blockers.
Coarsened(h, v, b, edges) ==
  LET usable == {e \in edges : ~RequiresExact(v, e[1]) /\ HasTarget(h, e)}
      targets == {Target(h, e) : e \in usable}
      highest == {t \in targets : \A o \in targets : o \in Ancestry[t] => o = t}
      under(t) == {k \in b.selected : t \in Ancestry[k]}
      open == {t \in highest :
                 under(t) # {} /\ \A k \in under(t) : ~RequiresExact(v, k)}
      inserted == {t \in open : under(t) # {t}}
      replaced == UNION {under(t) : t \in inserted}
      below == {k \in Key : Ancestry[k] \cap inserted # {}}
      learned == UNION {{t} \X UNION {BlockersOf(h, b, e) :
                            e \in {x \in usable : t \in Ancestry[Target(h, x)]}} : t \in open}
  IN [b EXCEPT !.selected = (@ \ replaced) \cup inserted,
               !.balanceSelected = @ \cup inserted,
               !.blockers = @ \cup learned,
               !.refined = @ \ below,
               !.balanceRefined = @ \ below]

\* A builder in its passes; those after it has settled change nothing.
Passing == [cut : Builder, settled : BOOLEAN]

\* One pass refines every component whose coarse side is ready, and only if
\* there is none coarsens.
BalancePass(h, v, s) ==
  LET b == s.cut
      unclosed == Gaps(b.selected)
      ready == {c \in Components(unclosed) : Ready(h, b, c)}
      waiting == unclosed \ UNION ready
      blocked == (CoarseOf(waiting) \ b.balanceSelected) \ h.coherent
      asking == Asked(h, b, blocked)
      coarsened == Coarsened(h, v, asking, waiting)
  IN IF s.settled \/ unclosed = {} THEN [s EXCEPT !.settled = TRUE]
     ELSE IF ready # {}
     THEN [cut |-> Refined(asking, CoarseOf(UNION ready)), settled |-> FALSE]
     ELSE [cut |-> coarsened, settled |-> coarsened.selected = b.selected]

Highest(selected) == CHOOSE l \in 0..MaxLevel :
  (\A k \in selected : k[1] <= l) /\ (l = 0 \/ \E k \in selected : k[1] = l)

\* Nothing is both forced coarse and refined, or the cut is given up.
Checked(b) ==
  [b EXCEPT !.touched = @ \cup b.selected,
            !.overflow = @ \/ b.balanceRefined \cap b.balanceSelected # {}]

\* What the last pass leaves; gaps it has not settled are given up.
AfterBalance(last) ==
  Checked([last.cut EXCEPT !.overflow = @ \/ (~last.settled /\ Gaps(last.cut.selected) # {})])

Balanced(h, v, b) ==
  AfterBalance(Iterated([s \in Passing |-> BalancePass(h, v, s)],
                        [cut |-> b, settled |-> FALSE], 2 * (Highest(b.selected) + 1)))

-----------------------------------------------------------------------------
(* CutBuilder::close_surface_handoffs.                                       *)

\* Level-one pages next to a leaf they cannot be shown to meet.
Mismatched(selected) ==
  {c \in selected \cap Unproven :
     \E f \in selected \cap Leaf : \E n \in Beside(f) : AncestorAt(n, 1) = c}

HandoffPass(h, v, s) ==
  LET b == s.cut
      bad == Mismatched(b.selected)
      ready == {c \in bad : c \in h.coherent /\ c \notin b.balanceSelected}
  IN IF s.settled \/ bad = {} THEN [s EXCEPT !.settled = TRUE]
     ELSE IF ready = {} THEN [cut |-> Asked(h, b, bad), settled |-> TRUE]
     ELSE [cut |-> Balanced(h, v, Refined(b, ready)), settled |-> FALSE]

AfterHandoffs(last) == [last.cut EXCEPT !.overflow = @ \/ ~last.settled]

Closed(h, v, b) ==
  AfterHandoffs(Iterated([s \in Passing |-> HandoffPass(h, v, s)],
                         [cut |-> b, settled |-> FALSE], MaxLevel + 1))

-----------------------------------------------------------------------------
(* select_cut_internal.                                                      *)

\* selection_is_exact_active_root_partition.
Partitions(h, selected) ==
  \A f \in Leaf :
    AncestorAt(f, MaxLevel) \in h.segments
      => Cardinality(selected \cap Ancestry[f]) = 1

\* Roots the envelope needs that no selected pages cover.
Ownerless(selected) ==
  {r \in CoverageRoot : \E f \in LeavesOf[r] : selected \cap Ancestry[f] = {}}

\* The cut the builder's final state b amounts to.
CutOf(h, b) ==
  LET ownerless == Ownerless(b.selected)
      overflow == b.overflow \/ (ownerless = {} /\ ~Partitions(h, b.selected))
  IN [selected |-> b.selected, pages |-> b.pages, directories |-> b.directories,
      refined |-> b.refined, blockers |-> b.blockers, touched |-> b.touched,
      overflow |-> overflow,
      renderable |-> /\ b.selected # {} /\ ownerless = {} /\ ~overflow
                     /\ Gaps(b.selected) = {} /\ Mismatched(b.selected) = {}]

SelectCut(h, v, q) == CutOf(h, Closed(h, v, Balanced(h, v, Visit(h, v, q))))

\* covers_presentation_envelope.
Covers(cut, v) == cut.renderable /\ v.exact \subseteq cut.selected
===============================================================================
