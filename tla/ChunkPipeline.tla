---------------------------- MODULE ChunkPipeline ----------------------------
(***************************************************************************)
(* A chunk's way through the client: StreamScheduler (runtime/src/lib.rs)  *)
(* wants chunks around the focus and hands out tickets for generation,     *)
(* meshing and upload; the frame callback (shell/src/lib.rs) serves the    *)
(* tickets, applies commits and groups the chunks of an edit into a cut    *)
(* that is uploaded whole; the renderer (render/src/renderer.rs) holds a   *)
(* cut back until terrain that shows the edit is presented with it.        *)
(*                                                                         *)
(* The frame callback is one action; the steps of its publication work on  *)
(* a record of what it changes.  Chunks stand on a line.  What voxels or   *)
(* meshes show is the set of commits they include: commits write different *)
(* voxels.  Which queued chunks a stage starts is left open: priority and  *)
(* urgency only order them.  Serial numbers only tell apart the tickets    *)
(* that exist, so a number nobody holds is used again.                     *)
(***************************************************************************)
EXTENDS Integers, Sequences, FiniteSetsExt, SequencesExt

CONSTANTS
  Chunk,         \* coordinates of the chunks, integers
  FocusPoint,    \* chunks the player may be in
  Interests,     \* secondary_interest: sets of chunks
  LoadRadius, RetentionMargin, MaxTracked,
  Budget,        \* FrameBudget of every stage
  Cuts,          \* affected_chunks of a commit
  Page,          \* pages of the presented terrain cut
  PagesOf,       \* the pages an edit of a chunk changes
  MaxEvents,     \* bound: commits, moves, failures and resyncs together
  None

State == {"queued_generation", "generating", "queued_meshing", "meshing",
          "queued_upload", "uploading", "resident"}
Entry == [state : State, revision : Nat, serial : Nat, desired : BOOLEAN, ever : BOOLEAN]
Ticket == [chunk : Chunk, stage : {"generating", "meshing", "uploading"}, revision : Nat, serial : Nat]
Mesh == [revision : Nat, shows : SUBSET (2..MaxEvents + 1)]

ASSUME NoneAssumption ==
  /\ \A rs \in SUBSET (2..MaxEvents + 1) : rs # None
  /\ None \notin Entry /\ None \notin Ticket /\ None \notin Mesh
ASSUME PipelineAssumption ==
  /\ Chunk \subseteq Int /\ IsFiniteSet(Chunk) /\ FocusPoint \subseteq Chunk
  /\ Interests \subseteq SUBSET Chunk
  /\ LoadRadius \in Nat /\ RetentionMargin \in Nat /\ MaxTracked \in Nat \ {0}
  /\ Budget \in Nat \ {0}
  /\ Cuts \subseteq (SUBSET Chunk) \ {{}}
  /\ PagesOf \in [Chunk -> SUBSET Page]
  /\ MaxEvents \in Nat

VARIABLES
  log,          \* the authority: the chunks of each commit, from revision 2 on
  known,        \* commits the client has handled, or a resync stood for
  watermark,    \* resync_watermark; 0 is None
  late,         \* history: a commit arrived after a later one
  aside,        \* history: a commit touched a chunk that is kept but not wanted
  overlaid,     \* history: a commit's cut was let past an older mesh staged of it
  focus,        \* focus and secondary_interest; None before the first frame
  entries,      \* the scheduler's entry of each chunk, or None
  requests,     \* generation tickets under way, with the revision they were sent at
  voxels,       \* chunks: the commits each resident chunk includes, or None
  meshes,       \* pending_meshes
  uploads,      \* pending_uploads
  cuts,         \* canonical_publications
  shown,        \* the renderer: what each uploaded mesh shows, or None
  staged,       \* pending_canonical_world_changes: by server revision
  fence,        \* revisions of the presented terrain pages; None while none is presented
  mishaps       \* bounded: moves, failures and resyncs so far

authorityVars == <<log, known, watermark, late, aside, overlaid>>
schedulerVars == <<focus, entries>>
hostVars == <<voxels, meshes, uploads, cuts>>
rendererVars == <<shown, staged, fence>>
vars == <<authorityVars, schedulerVars, requests, hostVars, rendererVars, mishaps>>

Revision == Len(log) + 1
Touches(r, k) == k \in log[r - 1]
CommitsOf(k, rs) == {r \in rs : Touches(r, k)}

\* chunk_floor and terrain_page_floor, after the last resync.
Floor(k) == Max({1} \cup {r \in CommitsOf(k, known) : r > watermark})
PageFloor(p) ==
  Max({1} \cup {r \in known : r > watermark /\ \E k \in log[r - 1] : p \in PagesOf[k]})

Tracked == {k \in Chunk : entries[k] # None}
Desired == {k \in Tracked : entries[k].desired}
StateOf(k) == IF k \in Tracked THEN entries[k].state ELSE "untracked"

Init ==
  /\ log = <<>> /\ known = {} /\ watermark = 0 /\ late = FALSE /\ aside = FALSE
  /\ overlaid = FALSE
  /\ focus = None /\ entries = [k \in Chunk |-> None]
  /\ requests = {}
  /\ voxels = [k \in Chunk |-> None] /\ meshes = [k \in Chunk |-> None]
  /\ uploads = [k \in Chunk |-> None] /\ cuts = <<>>
  /\ shown = [k \in Chunk |-> None] /\ staged = <<>>
  /\ fence = None
  /\ mishaps = 0
-----------------------------------------------------------------------------
(* The scheduler.                                                          *)

Distance(j, k) == IF j < k THEN k - j ELSE j - k
Nearer(f, j, k) ==
  \/ Distance(f, j) < Distance(f, k)
  \/ Distance(f, j) = Distance(f, k) /\ j < k

\* The n chunks of ks that priority puts first.
Nearest(f, ks, n) == {k \in ks : Cardinality({j \in ks : Nearer(f, j, k)}) < n}

\* desired_coordinates.
DesiredAt(f, interest) ==
  LET primary == Nearest(f, {k \in Chunk : Distance(f, k) <= LoadRadius}, MaxTracked) IN
  primary \cup Nearest(f, interest \ primary, MaxTracked - Cardinality(primary))

NewEntry == [state |-> "queued_generation", revision |-> 1, serial |-> 0,
             desired |-> TRUE, ever |-> FALSE]

\* The unwanted chunks that stay: resident, inside the margin, with room to spare.
Retained(f, wanted) ==
  Nearest(f,
    {k \in Tracked \ wanted : /\ Distance(f, k) <= LoadRadius + RetentionMargin
                              /\ entries[k].state = "resident"},
    MaxTracked - Cardinality(wanted))

\* update_focus_with_interest.
Refocused(f, interest) ==
  LET wanted == DesiredAt(f, interest)
      kept == Retained(f, wanted) IN
  [k \in Chunk |->
    IF k \in wanted THEN IF k \in Tracked THEN [entries[k] EXCEPT !.desired = TRUE] ELSE NewEntry
    ELSE IF k \in kept THEN [entries[k] EXCEPT !.desired = FALSE]
    ELSE None]

\* Tickets are for one chunk, stage, revision and serial number.
TicketOf(k, es) ==
  LET e == es[k] IN [chunk |-> k, stage |-> e.state, revision |-> e.revision, serial |-> e.serial]

\* complete and retry act on the active ticket only.
IsActive(t, es) == es[t.chunk] # None /\ TicketOf(t.chunk, es) = t

After(stage) == CASE stage = "generating" -> "queued_meshing"
                  [] stage = "meshing" -> "queued_upload"
                  [] stage = "uploading" -> "resident"
Before(stage) == CASE stage = "generating" -> "queued_generation"
                   [] stage = "meshing" -> "queued_meshing"
                   [] stage = "uploading" -> "queued_upload"

Active(ts, es) == {t.chunk : t \in {u \in ts : IsActive(u, es)}}

Completed(ts, es) ==
  LET active == Active(ts, es) IN
  [k \in Chunk |->
    IF k \notin active THEN es[k]
    ELSE LET e == es[k]
             next == After(e.state) IN
         [e EXCEPT !.state = next, !.serial = 0, !.ever = @ \/ next = "resident"]]
Retried(ts, es) ==
  LET active == Active(ts, es) IN
  [k \in Chunk |->
    IF k \notin active THEN es[k]
    ELSE [es[k] EXCEPT !.state = Before(@), !.serial = 0]]

\* A serial number that no ticket of chunk k has.
Fresh(k) ==
  LET held == {q.ticket.serial : q \in {p \in requests : p.ticket.chunk = k}}
              \cup (IF uploads[k] = None THEN {} ELSE {uploads[k].serial})
  IN CHOOSE n \in 1..Cardinality(held) + 1 : n \notin held

\* start_stage may start these.
Startable(queued, es) ==
  {k \in Chunk : es[k] # None /\ es[k].state = queued /\ (es[k].desired \/ es[k].ever)}
Starts(queued, es) ==
  LET ks == Startable(queued, es) IN {S \in SUBSET ks : Cardinality(S) = Min({Budget, Cardinality(ks)})}
Started(ks, stage, es) ==
  [k \in Chunk |->
    IF k \in ks THEN [es[k] EXCEPT !.state = stage, !.serial = Fresh(k)] ELSE es[k]]

TrackedIn(es) == {k \in Chunk : es[k] # None}

\* mark_chunks_edited.
Edited(es, ks) ==
  [k \in Chunk |->
    IF k \notin ks \cap TrackedIn(es) THEN es[k]
    ELSE [es[k] EXCEPT
           !.revision = @ + 1, !.serial = 0,
           !.state = IF @ \in {"queued_generation", "generating"} THEN "queued_generation"
                                                                 ELSE "queued_meshing"]]

\* Mutant: a resync leaves generation under way alone.
Invalidated_NotGenerating(es) ==
  [k \in Chunk |->
    IF k \notin TrackedIn(es) \/ es[k].state = "generating" THEN es[k]
    ELSE [es[k] EXCEPT !.revision = @ + 1, !.serial = 0, !.state = "queued_generation"]]

\* invalidate_all_generation.
Invalidated(es) ==
  [k \in Chunk |->
    IF k \notin TrackedIn(es) THEN es[k]
    ELSE [es[k] EXCEPT !.revision = @ + 1, !.serial = 0, !.state = "queued_generation"]]
-----------------------------------------------------------------------------
(* The frame callback.                                                     *)

Mishaps(n) == mishaps' = mishaps + n /\ Len(log) + mishaps' <= MaxEvents

Only(f, ks) == [k \in DOMAIN f \cap ks |-> f[k]]
Cleared(f, ks) == [k \in Chunk |-> IF k \in ks THEN None ELSE f[k]]

\* A staged change is [ready, uploads]: uploads is a function on its chunks.
Unprepared == [ready |-> FALSE, uploads |-> <<>>]

\* pending_canonical_chunk_has_newer_upload.
HasNewerUpload(k, server, pending) ==
  \E r \in DOMAIN pending : r > server /\ k \in DOMAIN pending[r].uploads

\* A staged change without its uploads of the chunks ks.
Stripped(change, ks) == [change EXCEPT !.uploads = Only(@, DOMAIN @ \ ks)]

\* take_pending_canonical_chunk_uploads, of the changes before this one.
Superseding(server, ks, pending) ==
  [r \in DOMAIN pending |-> IF r < server THEN Stripped(pending[r], ks) ELSE pending[r]]

\* The renderer's chunks with the meshes of ks uploaded.
Showing(h, ks) == [k \in Chunk |-> IF k \in ks THEN h.meshes[k].shows ELSE h.shown[k]]

\* stage_canonical_world_change.  What a failure was to replace is discarded.
Staged(h, server, ks, fails) ==
  LET kept == {k \in ks : ~HasNewerUpload(k, server, h.staged)}
      prepared == [ready |-> TRUE, uploads |-> [k \in kept |-> h.meshes[k].shows]] IN
  IF server \in DOMAIN h.staged
  THEN [h EXCEPT !.staged = [Superseding(server, kept, h.staged) EXCEPT
                              ![server] = IF fails THEN Unprepared ELSE prepared]]
  ELSE [h EXCEPT !.shown = IF fails THEN @ ELSE Showing(h, ks)]

Has(h, k, revision) ==
  /\ h.meshes[k] # None /\ h.meshes[k].revision = revision
  /\ h.uploads[k] # None /\ h.uploads[k].revision = revision

\* Every chunk of the cut has its mesh and its upload ticket.
IsReady(h, required) == \A k \in DOMAIN required : Has(h, k, required[k])

TicketsOf(h, ks) == {h.uploads[k] : k \in {j \in ks : h.uploads[j] # None}}

\* Mutant: the renderer's failure is not looked at.
AfterUpload_Blind(h, ks, failed) ==
  [h EXCEPT !.entries = Completed(TicketsOf(h, ks), @),
            !.uploads = Cleared(@, ks), !.meshes = Cleared(@, ks)]

\* Mutant: tickets whose upload failed are dropped.
AfterUpload_Dropped(h, ks, failed) ==
  IF failed
  THEN [h EXCEPT !.uploads = Cleared(@, ks)]
  ELSE [h EXCEPT !.entries = Completed(TicketsOf(h, ks), @),
                 !.uploads = Cleared(@, ks), !.meshes = Cleared(@, ks)]

\* The upload of ks was tried: its tickets are complete, or all go back.
AfterUpload(h, ks, failed) ==
  IF failed
  THEN [h EXCEPT !.entries = Retried(TicketsOf(h, ks), @), !.uploads = Cleared(@, ks)]
  ELSE [h EXCEPT !.entries = Completed(TicketsOf(h, ks), @),
                 !.uploads = Cleared(@, ks), !.meshes = Cleared(@, ks)]

\* The cuts of the other servers, in their order.
Without(q, servers) ==
  LET left[n \in 0..Len(q)] ==
        IF n = 0 THEN <<>>
        ELSE IF q[n].server \in servers THEN left[n - 1] ELSE Append(left[n - 1], q[n])
  IN left[Len(q)]

\* One cut is visited.
Published(h, cut, failing) ==
  LET current == Only(cut.required,
        {k \in Chunk : h.entries[k] # None /\ k \in DOMAIN cut.required
                     /\ h.entries[k].revision = cut.required[k]})
      ks == DOMAIN current
      fails == ks \cap failing # {}
      without == Without(h.cuts, {cut.server})
      trimmed == [i \in DOMAIN h.cuts |->
        IF h.cuts[i].server = cut.server THEN [cut EXCEPT !.required = current] ELSE h.cuts[i]]
  IN
  IF ks = {}
  THEN [h EXCEPT !.cuts = without, !.staged = Only(@, DOMAIN @ \ {cut.server})]
  ELSE IF ~IsReady(h, current) THEN [h EXCEPT !.cuts = trimmed]
  ELSE [AfterUpload(Staged(h, cut.server, ks, fails), ks, fails) EXCEPT
         !.cuts = IF fails THEN trimmed ELSE without]

\* publish_ready_canonical_cuts: every cut in turn.
PublishedAll(h, failing) ==
  LET visited[n \in 0..Len(cuts)] ==
        IF n = 0 THEN h ELSE Published(visited[n - 1], cuts[n], failing)
  IN visited[Len(cuts)]

\* Mutant: chunks that wait for their cut are uploaded one by one.
Individual_Grouped(h) == {k \in Chunk : h.uploads[k] # None}

\* The upload tickets of chunks that belong to no cut.
Individual(h) ==
  {k \in Chunk : h.uploads[k] # None /\ \A i \in DOMAIN h.cuts : k \notin DOMAIN h.cuts[i].required}

\* The others are uploaded each on its own.  A ticket that is out of date is
\* dropped, one whose mesh is out of date goes back.
UploadedAlone(h, failing) ==
  LET current == {k \in Individual(h) : h.entries[k] # None
                    /\ h.entries[k].state = "uploading" /\ h.entries[k].revision = h.uploads[k].revision}
      fit == {k \in current : Has(h, k, h.uploads[k].revision)}
      done == fit \ failing IN
  AfterUpload(
    [AfterUpload(h, current \ done, TRUE) EXCEPT
      !.uploads = Cleared(@, Individual(h) \ done),
      !.shown = Showing(h, done)],
    done, FALSE)

\* drain_evictions.
Drained(h, gone) ==
  [h EXCEPT !.meshes = Cleared(@, gone), !.uploads = Cleared(@, gone), !.shown = Cleared(@, gone),
            !.staged = [r \in DOMAIN @ |-> Stripped(@[r], gone)]]

\* Focus, tickets, the generation batches, meshing, uploads and evictions.  The
\* socket may refuse a batch and the renderer an upload.  A chunk that has no
\* voxels to mesh is passed over.
Frame(f, interest, failing) ==
  LET es == IF focus = [at |-> f, interest |-> interest] THEN entries ELSE Refocused(f, interest)
      gone == {k \in Tracked : es[k] = None} IN
  /\ focus' = [at |-> f, interest |-> interest]
  /\ Mishaps(Cardinality(failing) + IF focus \in {None, focus'} THEN 0 ELSE 1)
  /\ \E generation \in Starts("queued_generation", es), meshing \in Starts("queued_meshing", es),
        upload \in Starts("queued_upload", es) :
       LET started == Started(upload, "uploading", Started(meshing, "meshing",
                        Started(generation, "generating", es)))
           meshed == {k \in meshing : voxels[k] # None}
           refused == generation \cap failing
           tickets(ks) == {TicketOf(k, started) : k \in ks}
           before == [
             entries |-> Completed(tickets(meshed), Retried(tickets(refused), started)),
             meshes |-> [k \in Chunk |->
               IF k \in meshed THEN [revision |-> es[k].revision, shows |-> voxels[k]] ELSE meshes[k]],
             uploads |-> [k \in Chunk |-> IF k \in upload THEN TicketOf(k, started) ELSE uploads[k]],
             cuts |-> cuts, shown |-> shown, staged |-> staged]
       IN
       /\ failing \subseteq generation \cup {k \in Chunk : before.uploads[k] # None}
       /\ requests' = requests \cup
            {[ticket |-> t, asof |-> Revision] : t \in tickets(generation \ refused)}
       /\ \E after \in {Drained(UploadedAlone(PublishedAll(before, failing), failing), gone)} :
            /\ entries' = after.entries /\ meshes' = after.meshes /\ uploads' = after.uploads
            /\ cuts' = after.cuts /\ shown' = after.shown /\ staged' = after.staged
  /\ voxels' = Cleared(voxels, gone)
  /\ UNCHANGED <<authorityVars, fence>>
-----------------------------------------------------------------------------
(* Between frames: products, commits, resyncs and terrain.                 *)

\* Another player's edit is committed.
Commit(ks) ==
  /\ Len(log) + mishaps < MaxEvents
  /\ log' = Append(log, ks)
  /\ UNCHANGED <<known, watermark, late, aside, overlaid, schedulerVars, requests, hostVars,
                 rendererVars, mishaps>>

\* accept_generated_chunk: the product shows what was committed up to revision n.
Receive(q, n) ==
  LET k == q.ticket.chunk
      shows == CommitsOf(k, 2..n)
      fits == Max({1} \cup shows) >= Floor(k) IN
  /\ q \in requests
  /\ requests' = requests \ {q}
  /\ entries' = IF fits THEN Completed({q.ticket}, entries) ELSE Retried({q.ticket}, entries)
  /\ voxels' = IF fits /\ IsActive(q.ticket, entries) THEN [voxels EXCEPT ![k] = shows] ELSE voxels
  /\ UNCHANGED <<authorityVars, focus, meshes, uploads, cuts, rendererVars, mishaps>>

\* The batch is cancelled, times out or is answered with an error.
RequestFails(q) ==
  /\ q \in requests
  /\ Mishaps(1)
  /\ requests' = requests \ {q}
  /\ entries' = Retried({q.ticket}, entries)
  /\ UNCHANGED <<authorityVars, focus, hostVars, rendererVars>>

\* register_canonical_publication.
Merged(required) ==
  LET overlapping == {i \in DOMAIN cuts : DOMAIN cuts[i].required \cap DOMAIN required # {}}
      older == UNION {DOMAIN cuts[i].required : i \in overlapping} IN
  [servers |-> {cuts[i].server : i \in overlapping},
   required |-> [k \in older \cup DOMAIN required |->
     IF k \in DOMAIN required THEN required[k]
     ELSE LET i == CHOOSE j \in overlapping : k \in DOMAIN cuts[j].required IN cuts[i].required[k]]]

\* Mutant: a change without wanted chunks is held back all the same.
Superseded_ByCuts(r, required) == Merged(required).servers

\* The staged changes that go: of the cuts that are merged, or this one.
Superseded(r, required) == IF DOMAIN required = {} THEN {r} ELSE Merged(required).servers

\* apply_durable_edits: invalidate_virtual_terrain_world_change, the resident
\* voxels, mark_chunks_edited and the cut of the wanted chunks.
Observe(r) ==
  LET ks == log[r - 1]
      pages == {p \in UNION {PagesOf[k] : k \in ks} : r > PageFloor(p)}
      opened == fence # None /\ \E p \in pages : fence[p] < r
      edited == Edited(entries, ks)
      required == [k \in ks \cap Desired |-> edited[k].revision]
      cut == Merged(required)
  IN
  /\ voxels' = [k \in Chunk |->
       IF k \in ks /\ voxels[k] # None THEN voxels[k] \cup {r} ELSE voxels[k]]
  /\ entries' = edited
  /\ staged' = [s \in (DOMAIN staged \cup (IF opened THEN {r} ELSE {})) \ Superseded(r, required) |->
       IF s \in DOMAIN staged THEN staged[s] ELSE Unprepared]
  /\ cuts' = IF DOMAIN required = {} THEN cuts
             ELSE Append(Without(cuts, cut.servers),
                         [server |-> r, required |-> cut.required])
  /\ overlaid' = (\/ overlaid
                  \/ /\ ~opened
                     /\ \E s \in DOMAIN staged :
                          DOMAIN staged[s].uploads \cap DOMAIN cut.required # {})

\* A commit arrives.  Other connections' commits may overtake each other.
Hear(r) ==
  /\ known' = known \cup {r}
  /\ late' = (late \/ \E s \in known : s > r)
  /\ aside' = (aside \/ (r > watermark /\ log[r - 1] \cap (Tracked \ Desired) # {}))
  /\ \/ r > watermark /\ Observe(r)
     \/ r <= watermark /\ UNCHANGED <<voxels, entries, staged, cuts, overlaid>>
  /\ UNCHANGED <<log, watermark, focus, requests, meshes, uploads, shown, fence, mishaps>>

\* resynchronize_world_products.  A resync is sent ahead of later commits.
Resync(n) ==
  /\ Mishaps(1)
  /\ n > watermark /\ \A r \in known : r <= n
  /\ watermark' = n /\ known' = 2..n
  /\ entries' = Invalidated(entries)
  /\ meshes' = Cleared(meshes, Chunk) /\ uploads' = Cleared(uploads, Chunk) /\ cuts' = <<>>
  /\ staged' = <<>> /\ fence' = None
  /\ UNCHANGED <<log, late, aside, overlaid, focus, requests, voxels, shown>>

\* commit_virtual_client_view: every change is prepared, the pages are current.
MayPresent(pages) == (\A r \in DOMAIN staged : staged[r].ready) /\ \A p \in Page : pages[p] >= PageFloor(p)

\* What chunk k will show once everything prepared is presented.
Upcoming(k) ==
  LET prepared == {r \in DOMAIN staged : k \in DOMAIN staged[r].uploads} IN
  IF prepared = {} THEN shown[k] ELSE staged[Max(prepared)].uploads[k]

\* The revisions page p goes through: the commits that change it.
PageRevisions(p) == {1} \cup {r \in 2..Revision : \E k \in log[r - 1] : p \in PagesOf[k]}

\* Every page is at a revision of its own: directories and pages are fetched
\* one by one, and may show commits the client has yet to hear of.
Present(pages) ==
  /\ \A p \in Page : pages[p] \in PageRevisions(p)
  /\ MayPresent(pages)
  /\ fence' = pages
  /\ shown' = [k \in Chunk |-> Upcoming(k)]
  /\ staged' = <<>>
  /\ UNCHANGED <<authorityVars, schedulerVars, requests, hostVars, mishaps>>
-----------------------------------------------------------------------------
Next ==
  \/ \E f \in FocusPoint, interest \in Interests, failing \in SUBSET Chunk : Frame(f, interest, failing)
  \/ \E ks \in Cuts : Commit(ks)
  \/ \E q \in requests : RequestFails(q) \/ \E n \in q.asof..Revision : Receive(q, n)
  \/ \E r \in 2..Revision \ known : Hear(r)
  \/ \E n \in 2..Revision : Resync(n)
  \/ \E pages \in [Page -> 1..Revision] : Present(pages)

Spec == Init /\ [][Next]_vars
-----------------------------------------------------------------------------
(* Properties                                                              *)

Past == {"queued_meshing", "meshing", "queued_upload", "uploading", "resident"}

\* A chunk that is meshed, uploaded or in use holds voxels that include every
\* commit the client was told of: no ticket of an earlier life of the chunk, or
\* from before a resync, brings back an older product.
VoxelsAreCurrent ==
  \A k \in Tracked : StateOf(k) \in Past =>
    voxels[k] # None /\ CommitsOf(k, known) \subseteq voxels[k]

\* Work in flight is held by someone who will finish it, an upload has the mesh
\* of the voxels held, and a chunk given up leaves nothing behind.
WorkIsHeld ==
  \A k \in Chunk :
    /\ StateOf(k) = "generating" => \E q \in requests : q.ticket = TicketOf(k, entries)
    /\ StateOf(k) # "meshing"
    /\ StateOf(k) \in {"queued_upload", "uploading"} =>
         /\ meshes[k] # None /\ meshes[k].revision = entries[k].revision
         /\ meshes[k].shows = voxels[k]
    /\ StateOf(k) = "uploading" => uploads[k] = TicketOf(k, entries) /\ \E i \in DOMAIN cuts : k \in DOMAIN cuts[i].required
    /\ k \notin Tracked =>
         /\ {voxels[k], meshes[k], uploads[k], shown[k]} = {None}
         /\ \A r \in DOMAIN staged : k \notin DOMAIN staged[r].uploads

\* The chunks of a cut change together: none is resident at the revision the
\* cut waits for before all of them can be.
CutsAreWhole ==
  \A i \in DOMAIN cuts : \A k \in DOMAIN cuts[i].required \cap Tracked :
    entries[k].revision = cuts[i].required[k] => entries[k].state # "resident"

\* A chunk the scheduler takes for resident shows what it holds, or will with
\* the changes that are prepared.  There are three ways to break this and no
\* other: commits out of order, an edit of a chunk that is kept but not wanted,
\* which joins no cut, and an edit the presented terrain shows already, which is
\* not held back, while an older mesh of its chunks still is.
ResidentIsShown ==
  ~late /\ ~aside /\ ~overlaid =>
    \A k \in Tracked : StateOf(k) = "resident" => Upcoming(k) = voxels[k]

\* "The newest scheduler capability wins for overlapping chunks"
\* (shell/src/lib.rs:3843), whatever order commits arrive in, whatever is wanted.
NewestCapabilityWins ==
  \A k \in Tracked : StateOf(k) = "resident" => Upcoming(k) = voxels[k]

\* A change that holds the terrain back has a cut that will prepare it, of
\* chunks that are on their way: nothing keeps the old terrain for ever.
NothingBlocksTheTerrain ==
  \A r \in DOMAIN staged : ~staged[r].ready =>
    \E i \in DOMAIN cuts : cuts[i].server = r /\ cuts[i].required # <<>>
=============================================================================
