---------------------------- MODULE VirtualTerrain ----------------------------
(***************************************************************************)
(* The browser's virtual terrain: directories and pages stream in, frames  *)
(* select a cut of them (TerrainCut), install what is cached, freeze a     *)
(* legal cut as a publication and commit it once the GPU has certified it. *)
(*                                                                         *)
(* One frame of the shell (stream_virtual_terrain) is Frame, any number of *)
(* Hydrate and one FinishFrame; network and GPU callbacks, movement and    *)
(* edits come between frames.  The order of ready groups is free here (the *)
(* code ranks them by distance and error), request windows and retry       *)
(* delays are left to fairness, byte and primitive capacities follow the   *)
(* page count, and expanded GPU geometry is known only for the cut that a  *)
(* frame rebuilt and the one on display.                                   *)
(***************************************************************************)
EXTENDS TerrainCut, Sequences

CONSTANTS
  Views,           \* presentation envelopes, see TerrainCut
  MaxResident,     \* capacity.max_resident_pages
  GroupsPerFrame,  \* groups one frame installs before its time is up
  Edited,          \* leaves that edits hit
  MaxMoves,        \* bound on Move
  MaxEdits,        \* bound on Invalidate
  Nothing

ASSUME VirtualTerrainAssumption ==
  /\ \A v \in Views : v.exact \subseteq Leaf /\ v.at \in v.exact
  /\ MaxResident \in Nat \ {0}
  /\ GroupsPerFrame \in Nat \ {0} /\ MaxMoves \in Nat /\ MaxEdits \in Nat
  /\ Edited \subseteq Leaf
  /\ Nothing \notin Views

VARIABLES
  h,            \* VirtualTerrainHierarchy, see TerrainInit
  view,         \* desired envelope and camera
  cut,          \* virtual_terrain_oracle_cut, Nothing when the plan is invalid
  rebuilt,      \* the selection whose geometry the last frame expanded
  committed,    \* presented cut: [selected, view, current], or Nothing
  publication,  \* frozen cut, likewise, or Nothing
  certified,    \* the GPU candidate of the publication is certified
  uploads,      \* no accepted edit still waits for its canonical uploads
  cached,       \* encoded pages of the shell cache
  asked,        \* pages and directories the last frame left requested
  owed,         \* minimum_region_revisions: directories an edit invalidated
  left,         \* groups this frame may still install; 0 outside a frame
  streaming,    \* a frame is between its selection and its end
  moves, edits

terrain == <<h, cut, committed, publication>>
network == <<cached, asked, owed>>
counters == <<moves, edits>>
terrainVars == <<terrain, view, rebuilt, certified, uploads, network, left, streaming, counters>>

-----------------------------------------------------------------------------
(* The hierarchy.                                                            *)

ResidentAncestry(S) == h.resident \cap UNION {Ancestry[k] : k \in S}

\* last_selected_frame, as the order it gives: pages selected together form a
\* class of h.used, the newest last; a page never selected is in none.
Used(used, S) == SelectSeq([i \in DOMAIN used |-> used[i] \ S], LAMBDA c : c # {})

ParentsOf(S) == {Parent[p] : p \in {k \in S : k[1] < MaxLevel}}

\* install_page for every page of g, refresh_replacement_coherence.
Installed(hh, g) ==
  LET resident == hh.resident \cup g
  IN [hh EXCEPT !.resident = resident,
                !.coherent = @ \cup (Coherent(resident) \cap (g \cup ParentsOf(g)))]

\* Mutant: the proof of the page above outlives its child.
Removed_Alone(hh, S) ==
  [hh EXCEPT !.resident = @ \ S,
             !.coherent = @ \ S,
             !.refined = @ \ S,
             !.blockers = {b \in @ : b[1] \notin S},
             !.used = Used(@, S)]

\* remove_page for every page of S.
Removed(hh, S) ==
  LET touched == S \cup ParentsOf(S)
  IN [hh EXCEPT !.resident = @ \ S,
                !.coherent = @ \ touched,
                !.refined = @ \ touched,
                !.blockers = {b \in @ : b[1] \notin S},
                !.used = Used(@, S)]

\* remove_region_directory: everything under root r.
WithoutRegion(hh, r) ==
  LET gone == {k \in Key : r \in Ancestry[k]}
      kept == Removed(hh, gone \cap hh.resident)
  IN [kept EXCEPT !.segments = @ \ gone,
                  !.refined = @ \ gone,
                  !.blockers = {b \in @ : b[1] \notin gone /\ b[2] \notin gone}]

\* transition_resident_pages.
TransitionPages(hh) ==
  LET pairs == hh.blockers
      held == hh.refined \cup {b[2] : b \in pairs}
  IN (held \cup {b[1] : b \in pairs} \cup UNION {Children(k) : k \in held}) \cap hh.resident

-----------------------------------------------------------------------------
(* Selection, admission, publication.                                        *)

CoversDesired(c) == c # Nothing /\ c.view = view /\ c.current

\* select_virtual_terrain_cut: only a renderable cut is remembered by the
\* hierarchy.
Remembering(hh, new) ==
  LET touched == [hh EXCEPT !.used = Used(Append(Used(@, new.touched), new.touched), {})]
  IN [h |-> IF new.renderable
            THEN [touched EXCEPT !.refined = new.refined, !.blockers = new.blockers]
            ELSE touched,
      cut |-> [selected |-> new.selected, pages |-> new.pages,
               directories |-> new.directories, overflow |-> new.overflow,
               renderable |-> new.renderable]]

Plan(hh, c) == Remembering(hh, SelectCut(hh, view, CoversDesired(c)))

\* The hierarchy and the cut after a selection.
Adopt(plan) == h' = plan.h /\ cut' = plan.cut

\* terrain_page_replacement_groups; a page whose siblings are not all asked
\* for travels alone.
Groups(pages) ==
  LET whole == {k \in Key : Children(k) # {} /\ Children(k) \subseteq pages}
  IN {Children(k) : k \in whole} \cup {{p} : p \in pages \ UNION {Children(k) : k \in whole}}

\* What hydrate_virtual_terrain_from_cache tries: a whole group only under a
\* resident parent; one that fails validate_terrain_replacement is put aside.
ReadyGroups ==
  {g \in Groups(cut.pages) :
     /\ g \subseteq cached
     /\ Cardinality(g) > 1 => ParentsOf(g) \subseteq h.resident \ Incoherent}

\* Mutant: admission protects the desired cut alone.
Protected_Desired(g) ==
  ResidentAncestry(UNION {cut.selected, CoverageRoot \cap h.segments, g}) \cup TransitionPages(h)

\* reclaim_virtual_terrain_logical_capacity: what it may not evict.
Protected(g) ==
  ResidentAncestry(UNION {cut.selected, CoverageRoot \cap h.segments, g,
      IF committed = Nothing THEN {} ELSE committed.selected})
    \cup TransitionPages(h)

\* reclaim_lru_for_admission: least recently selected first, then finer first;
\* down to seven eighths of the capacity if that is possible at all.
LowWatermark == MaxResident - MaxResident \div 8

LastUsed(p) ==
  IF \E i \in DOMAIN h.used : p \in h.used[i]
  THEN CHOOSE i \in DOMAIN h.used : p \in h.used[i] ELSE 0
Older(p, o) == LastUsed(p) < LastUsed(o) \/ (LastUsed(p) = LastUsed(o) /\ p[1] < o[1])

\* Mutant: admission insists on the low watermark.
Reclaims_ToWatermark(g) ==
  LET candidates == h.resident \ Protected(g)
      total == Cardinality(h.resident) + Cardinality(g)
  IN IF total <= MaxResident THEN {{}}
     ELSE {S \in SUBSET candidates :
             /\ Cardinality(S) = total - LowWatermark
             /\ \A p \in S, o \in candidates \ S : ~Older(o, p)}

Reclaims(g) ==
  LET candidates == h.resident \ Protected(g)
      total == Cardinality(h.resident) + Cardinality(g)
      floor == total - Cardinality(candidates)
      target == IF floor <= LowWatermark THEN LowWatermark ELSE MaxResident
  IN IF total <= MaxResident THEN {{}}
     ELSE {S \in SUBSET candidates :
             /\ Cardinality(S) = total - target
             /\ \A p \in S, o \in candidates \ S : ~Older(o, p)}

\* matching_active_generation: the bank on display already holds this cut.
OnDisplay(p) == committed = p

\* discard_unselected_virtual_terrain_logical_pages.
Trimmed(hh, selected) ==
  Removed(hh, hh.resident \ UNION {Ancestry[k] : k \in selected})

-----------------------------------------------------------------------------
TerrainInit ==
  /\ h = [segments |-> {}, resident |-> {}, coherent |-> {}, refined |-> {}, blockers |-> {},
          used |-> <<>>]
  /\ view \in Views
  /\ cut = Nothing /\ committed = Nothing /\ publication = Nothing
  /\ rebuilt = {} /\ certified = FALSE /\ uploads = TRUE
  /\ cached = {} /\ asked = [pages |-> {}, directories |-> {}] /\ owed = {}
  /\ left = 0 /\ streaming = FALSE
  /\ moves = 0 /\ edits = 0

\* A demanded group arrives (accept_remote_terrain_page_completion).  Network
\* and GPU callbacks run between frames; the frame reads neither cache entries
\* that come after its selection nor certificates, so they may come at any time.
Arrive(g) ==
  /\ g \in Groups(asked.pages)
  /\ ~(g \subseteq cached)
  /\ cached' = cached \cup g
  /\ UNCHANGED <<terrain, view, rebuilt, certified, uploads, asked, owed, left, streaming, counters>>

\* Refinement directories wait while the exact domain owes a revision.
Requestable ==
  (CoverageRoot \ h.segments) \cup owed
    \cup (IF \E k \in owed : RequiresExact(view, k) THEN {} ELSE asked.directories)

\* accept_remote_terrain_directory_completion.
Register(k) ==
  /\ ~streaming
  /\ k \in Requestable \ h.segments
  /\ k \in CoverageRoot \cup Nodes(h)
  /\ h' = [h EXCEPT !.segments = @ \cup {k}]
  /\ cut' = Nothing
  /\ owed' = owed \ {k}
  /\ UNCHANGED <<view, rebuilt, committed, publication, certified, uploads, cached, asked, left,
                 streaming, counters>>

\* begin_virtual_terrain_presentation_envelope: a publication that still
\* owns the ground under the player goes on.
Move(v) ==
  /\ ~streaming
  /\ v # view
  /\ moves < MaxMoves
  /\ moves' = moves + 1
  /\ view' = v
  /\ cut' = Nothing
  /\ LET stale == publication # Nothing /\ v.at \notin publication.view.exact
     IN /\ publication' = IF stale THEN Nothing ELSE publication
        /\ certified' = (certified /\ ~stale)
  /\ UNCHANGED <<h, committed, rebuilt, uploads, network, left, streaming, edits>>

\* An accepted edit under leaf f: invalidate_virtual_terrain_world_change and
\* invalidate_virtual_terrain_regions.
Invalidate(f) ==
  LET r == AncestorAt(f, MaxLevel)
      hit(c) == c # Nothing /\ c.selected \cap Ancestry[f] # {}
  IN /\ ~streaming
     /\ r \in h.segments
     /\ edits < MaxEdits
     /\ edits' = edits + 1
     /\ h' = WithoutRegion(h, r)
     /\ cut' = Nothing
     /\ publication' = IF hit(publication) THEN Nothing ELSE publication
     /\ certified' = (certified /\ ~hit(publication))
     /\ committed' = IF hit(committed) THEN [committed EXCEPT !.current = FALSE] ELSE committed
     /\ uploads' = (uploads /\ ~hit(committed))
     /\ cached' = cached \ Ancestry[f]
     /\ asked' = [pages |-> {k \in asked.pages : r \notin Ancestry[k]},
                  directories |-> {k \in asked.directories : r \notin Ancestry[k]}]
     /\ owed' = owed \cup (Ancestry[f] \ Leaf)
     /\ UNCHANGED <<view, rebuilt, left, streaming, moves>>

\* The canonical chunks of every accepted edit are prepared.
Uploaded ==
  /\ ~uploads
  /\ uploads' = TRUE
  /\ UNCHANGED <<terrain, view, rebuilt, certified, network, left, streaming, counters>>

\* GPU feedback certifies the candidate bank.
Certify ==
  /\ publication # Nothing
  /\ ~certified
  /\ certified' = TRUE
  /\ UNCHANGED <<terrain, view, rebuilt, uploads, network, left, streaming, counters>>

\* poll_virtual_terrain_ready.
Promotable == publication # Nothing /\ uploads /\ (certified \/ OnDisplay(publication))

\* The first half of a frame: commit what is ready, select, expand geometry.
Frame ==
  LET commit == Promotable
      shown == IF commit THEN publication ELSE committed
      busy == publication # Nothing /\ ~commit
      trimmed == IF commit THEN Trimmed(h, publication.selected) ELSE h
  IN /\ ~streaming
     /\ committed' = shown
     /\ publication' = IF commit THEN Nothing ELSE publication
     /\ certified' = (certified /\ ~commit)
     /\ IF commit \/ cut = Nothing THEN Adopt(Plan(trimmed, shown)) ELSE UNCHANGED <<h, cut>>
     /\ rebuilt' = IF ~busy /\ cut'.renderable THEN cut'.selected ELSE rebuilt
     /\ left' = IF busy THEN 0 ELSE GroupsPerFrame
     /\ streaming' = TRUE
     /\ UNCHANGED <<view, uploads, network, counters>>

\* Install one cached group and select again.
Hydrate(g) ==
  /\ streaming
  /\ left > 0
  /\ g \in ReadyGroups
  /\ left' = left - 1
  /\ \E S \in Reclaims(g) : Adopt(Plan(Installed(Removed(h, S), g), committed))
  /\ UNCHANGED <<view, rebuilt, committed, publication, certified, uploads, network, streaming,
                 counters>>

\* The second half: hydration is over, or its first group does not fit; freeze
\* the cut if it is legal and drawable, commit it at once if it is on display.
FinishFrame ==
  LET drawn == rebuilt \cup (IF committed = Nothing THEN {} ELSE committed.selected)
      frozen == [selected |-> cut.selected, view |-> view, current |-> TRUE]
      prepare == publication = Nothing /\ Covers(cut, view)
      commit == OnDisplay(frozen) /\ uploads
  IN /\ streaming
     /\ \/ left = 0
        \/ ReadyGroups = {}
        \/ \E g \in ReadyGroups : Reclaims(g) = {}
     /\ \/ /\ prepare
           /\ cut.selected \subseteq drawn
           /\ ~commit
           /\ publication' = frozen
           /\ certified' = FALSE
           /\ UNCHANGED <<h, cut, committed>>
        \/ /\ prepare
           /\ commit
           /\ h' = Trimmed(h, cut.selected)
           /\ cut' = Nothing
           /\ UNCHANGED <<committed, publication, certified>>
        \/ /\ ~(prepare /\ cut.selected \subseteq drawn)
           /\ UNCHANGED <<terrain, certified>>
     /\ asked' = [pages |-> cut.pages, directories |-> cut.directories]
     /\ left' = 0
     /\ streaming' = FALSE
     /\ UNCHANGED <<view, rebuilt, uploads, cached, owed, counters>>

PageArrives == \E g \in Groups(asked.pages) : Arrive(g)
DirectoryArrives == \E k \in Requestable : Register(k)

TerrainNext ==
  \/ PageArrives
  \/ DirectoryArrives
  \/ \E v \in Views : Move(v)
  \/ \E f \in Edited : Invalidate(f)
  \/ Uploaded
  \/ Certify
  \/ Frame
  \/ streaming /\ \E g \in ReadyGroups : Hydrate(g)
  \/ FinishFrame

TerrainSpec == TerrainInit /\ [][TerrainNext]_terrainVars

\* Frames begin and end, whatever they do; what stays asked for is answered,
\* what is prepared is uploaded and certified.
Fairness ==
  /\ WF_streaming(streaming' = ~streaming)
  /\ WF_terrainVars(PageArrives)
  /\ SF_terrainVars(DirectoryArrives)
  /\ WF_terrainVars(Uploaded)
  /\ WF_terrainVars(Certify)

FairTerrainSpec == TerrainSpec /\ Fairness

-----------------------------------------------------------------------------
(* Properties.                                                               *)

\* The cut builder's internal guards never fire, whatever mixture of pages and
\* directories is resident: balancing and closing handoffs end within their
\* passes, no page is both forced coarse and refined, and roots that all have
\* an owner are partitioned (balance_surface_lod, select_cut_internal).
CutNeverTrips == cut # Nothing => ~cut.overflow

\* The coherence proofs that install_page and remove_page maintain in place
\* are those a validation of every resident page from scratch would give, so
\* nothing refines into children that are gone.
ProofsAreCurrent == h.coherent = Coherent(h.resident)

\* Admission, trimming and invalidation never take a page away, or a page above
\* it, that the cut on display or the frozen one owns, unless an edit made it
\* outdated (reclaim_virtual_terrain_logical_capacity).
OwnersStayResident ==
  \A owned \in {committed, publication} \ {Nothing} :
    owned.current => UNION {Ancestry[k] : k \in owned.selected} \subseteq h.resident

\* A drawable cut is a fixed point: selecting again from what its selection
\* left behind (refined frontier, blockers) gives the same pages, so a frame in
\* which nothing arrives never changes the ground.
SelectionIsStable ==
  cut # Nothing /\ cut.renderable => Plan(h, committed).cut.selected = cut.selected

\* Once movement and edits have ended the desired view is presented and stays
\* so, and every page and directory its quality calls for has been installed:
\* no round of admission, balance, eviction and commit goes on for ever.
ViewIsCompleted ==
  <>[](CoversDesired(committed)
         /\ (cut # Nothing => cut.pages = {} /\ cut.directories = {}))

\* Resident pages eventually stop changing: sibling groups do not oscillate
\* (the comment of discard_unselected_virtual_terrain_logical_pages).
RefinementSettles == <>[][h'.resident = h.resident]_terrainVars
===============================================================================
