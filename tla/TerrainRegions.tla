---------------------------- MODULE TerrainRegions ---------------------------
(***************************************************************************)
(* The virtual terrain authority: directories and pages of terrain regions *)
(* are built from the edited world on demand, kept in a byte-bounded cache *)
(* and handed out under revisions, while edits go on being committed.      *)
(*                                                                         *)
(* A caller of ensure_region probes the cache, joins the flight of its     *)
(* root, probes again behind the flight's lock and builds on a blocking    *)
(* thread.  A caller may be cancelled at every await; a build that has     *)
(* started goes on without it.                                             *)
(*                                                                         *)
(* The content of a page is the last commit that touched what the page     *)
(* samples, and whether its root was built exactly.                        *)
(***************************************************************************)
EXTENDS Integers, Sequences, FiniteSets, SequencesExt

CONSTANTS
  Caller,         \* requests of sessions inside ensure_region
  Root,           \* terrain region roots
  Coverage,       \* the surface roots, whose pages carry revisions of their own
  Page,           \* pages of all roots
  PagesOf,        \* [Root -> SUBSET Page]
  Column,         \* columns of chunks
  Footprint,      \* [Page -> SUBSET Column], what a page samples
  RootColumns,    \* [Root -> SUBSET Column], what the revision of a root covers
  Edit,           \* the sets of columns a commit may affect
  Size,           \* [Root -> bytes] of an unedited region; an edited one has one more
  CacheBytes,     \* the cache's byte budget
  RegionWorkers,  \* region_build_workers
  Attempts,       \* REGION_BUILD_ATTEMPTS
  Lock,           \* bound: identities of flight locks, as many as can be in use at once
  None,
  MaxCommits,     \* bound on the commits
  MaxFailures,    \* bound on the failing builds
  Asks,           \* [Caller -> SUBSET Root], whose regions a caller may want
  Impatient       \* callers whose request may be cancelled

InitialRevision == 1

ASSUME RootAssumption ==
  /\ Coverage \subseteq Root
  /\ PagesOf \in [Root -> SUBSET Page]
  /\ RootColumns \in [Root -> SUBSET Column]
  /\ Footprint \in [Page -> SUBSET Column]
  /\ \A r \in Root : \A p \in PagesOf[r] : Footprint[p] \subseteq RootColumns[r]
ASSUME EditAssumption == Edit \subseteq SUBSET Column
ASSUME BudgetAssumption ==
  /\ Size \in [Root -> Nat] /\ CacheBytes \in Nat
  /\ RegionWorkers \in Nat \ {0} /\ Attempts \in Nat \ {0}
  /\ MaxCommits \in Nat /\ MaxFailures \in Nat
ASSUME AsksAssumption == Asks \in [Caller -> SUBSET Root] /\ Impatient \subseteq Caller

\* PreparedTerrainRegion: what a directory and its pages were built from.
Node == [revision : Nat \cup {None}, content : [commit : Nat, exact : BOOLEAN]]
Region == [root : Root, revision : Nat, pages : UNION {[PagesOf[r] -> Node] : r \in Root}]

\* A call of ensure_region, and a build on its blocking thread.
Call == [root : Root, floor : Nat, lock : Lock \cup {None}]
Build ==
  [root : Root, caller : Caller \cup {None}, attempt : Nat, region : Region \cup {None},
   phase : {"start", "built", "prepared", "published", "failed"}]

ASSUME NoneAssumption ==
  /\ None \notin Caller \cup Lock \cup Region \cup Call \cup Build
  /\ "task" \notin Caller \cup {None}

VARIABLES
  log,        \* [1..n -> columns], the commits of the edit authority in order
  cache,      \* regions, least recently used first
  retained,   \* RegionCache::retained_bytes
  flights,    \* [Root -> Lock or None], the flights somebody still shares
  queue,      \* [Lock -> Seq(Caller)], waiting for the flight's lock in order
  owner,      \* [Lock -> None, the caller or "task" that holds it]
  delivered,  \* history: locks in use whose flight has ended with a region
  build,      \* [Lock -> the build that owns the lock, or None]
  permits,    \* free permits of region_build_limiter
  failures,   \* failing builds so far
  pc,         \* [Caller -> stage inside ensure_region]
  call,       \* [Caller -> root, its revision when asked for, lock]
  known       \* [Caller -> the region the caller was given, until it asks again]

world == log
caching == <<cache, retained>>
flying == <<flights, queue, owner, delivered>>
building == <<build, permits, failures>>
vars == <<log, cache, retained, flights, queue, owner, delivered, build, permits,
          failures, pc, call, known>>

-----------------------------------------------------------------------------
(* Revisions.                                                              *)

\* The newest commit of the first n that touches one of the columns.
LastCommit(columns, n) ==
  LET touching == {i \in 1..n : log[i] \cap columns # {}}
  IN IF touching = {} THEN InitialRevision
     ELSE InitialRevision + (CHOOSE i \in touching : \A j \in touching : j <= i)

\* terrain_region_revision and surface_terrain_revision: the newest revision of
\* the chunks, or chunk columns, the key covers.
Revision(r) == LastCommit(RootColumns[r], Len(log))
PageRevision(p) == LastCommit(Footprint[p], Len(log))

\* What a page shows when it is built from the edits of this moment.
ContentNow(r, p) ==
  [commit |-> LastCommit(Footprint[p], Len(log)),
   exact  |-> Revision(r) # InitialRevision]

SizeOf(region) ==
  Size[region.root] + (IF region.revision = InitialRevision THEN 0 ELSE 1)

-----------------------------------------------------------------------------
(* RegionCache.                                                            *)

Hit_AnyRevision(r, revision) == {i \in DOMAIN cache : cache[i].root = r}

\* An entry answers only the revision it was built for.
Hit(r, revision) ==
  {i \in DOMAIN cache : cache[i].root = r /\ cache[i].revision = revision}

Touched(i) == Append(RemoveAt(cache, i), cache[i])

\* The bytes of the first n regions, for every n.
Sums(regions) ==
  LET sum[n \in 0..Len(regions)] == IF n = 0 THEN 0 ELSE sum[n - 1] + SizeOf(regions[n])
  IN sum

Bytes(regions) == Sums(regions)[Len(regions)]

\* The entry of a root.
Entry(r) == {i \in DOMAIN cache : cache[i].root = r}

Replaced_Kept(r) == 0

\* Bytes of the entry a new region of the root replaces.
Replaced(r) == IF Entry(r) = {} THEN 0 ELSE SizeOf(cache[CHOOSE i \in Entry(r) : TRUE])

\* The cache without the entry of the root.
Others(r) == IF Entry(r) = {} THEN cache ELSE RemoveAt(cache, CHOOSE i \in Entry(r) : TRUE)

\* The replaced entry goes first, then the least recently used ones until the
\* region fits; a region that cannot fit at all is not kept.
Insert(region) ==
  IF CacheBytes = 0 \/ SizeOf(region) > CacheBytes
  THEN UNCHANGED caching
  ELSE LET others == Others(region.root)
           After(n) == retained - Replaced(region.root) - Bytes(SubSeq(others, 1, n))
                       + SizeOf(region)
           Fits(n) == n = Len(others) \/ After(n) <= CacheBytes
           evicted == CHOOSE n \in 0..Len(others) : Fits(n) /\ \A m \in 0..(n - 1) : ~Fits(m)
       IN /\ cache' = Append(SubSeq(others, evicted + 1, Len(others)), region)
          /\ retained' = After(evicted)

-----------------------------------------------------------------------------
(* Flights.  A lock lives as long as somebody waits for it or holds it; the *)
(* map only has weak references.                                           *)

InUse(l) == owner[l] # None \/ queue[l] # <<>>

\* flights once the lock l of root r has nobody left.
Forgotten(r, l) ==
  IF flights[r] = l THEN [flights EXCEPT ![r] = None] ELSE flights

\* flights once the holder of l lets go of it without touching the map.
LetGo(r, l) == IF queue[l] = <<>> THEN Forgotten(r, l) ELSE flights

\* delivered once the flight of lock l has left a region to those who wait.
Delivered(l, waiting) == IF waiting = <<>> THEN delivered \ {l} ELSE delivered \cup {l}

\* abandon_flight forgets the flight of a failed owner ...
Abandoned_Always(r, l) == Forgotten(r, l)

\* ... only when the owner's two references are the only ones.
Abandoned(r, l) == IF queue[l] = <<>> THEN Forgotten(r, l) ELSE flights

-----------------------------------------------------------------------------
(* Answers.                                                                *)

\* serve_virtual_terrain_pages: how the page a client names by revision and
\* content fares against the region that ensure_region returned.
PageResult(built, p, identity) ==
  LET node == built.pages[p]
  IN IF node.revision # identity.revision THEN "stale"
     ELSE IF node.content # identity.content THEN "unavailable"
     ELSE "page"

\* The caller has its region, or an error.
Return(c) ==
  /\ pc' = [pc EXCEPT ![c] = "idle"]
  /\ call' = [call EXCEPT ![c] = None]

Deliver(c, built) ==
  /\ Return(c)
  /\ known' = [known EXCEPT ![c] = built]

-----------------------------------------------------------------------------
Commit(columns) ==
  /\ Len(log) < MaxCommits
  /\ log' = Append(log, columns)
  /\ UNCHANGED <<caching, flying, building, pc, call, known>>

\* ensure_region for the directory of a root or for its pages.  The revision is
\* read and the cache is probed under two mutexes with no await between them: a
\* commit that falls between them might as well have come after the probe.
Ask(c, r) ==
  LET hit == Hit(r, Revision(r))
  IN /\ pc[c] = "idle" /\ r \in Asks[c]
     /\ \/ /\ hit = {}
           /\ pc' = [pc EXCEPT ![c] = "join"]
           /\ call' = [call EXCEPT ![c] = [root |-> r, floor |-> Revision(r), lock |-> None]]
           /\ known' = [known EXCEPT ![c] = None]
           /\ cache' = cache
        \/ \E i \in hit :
             /\ cache' = Touched(i)
             /\ known' = [known EXCEPT ![c] = cache[i]]
             /\ UNCHANGED <<pc, call>>
     /\ UNCHANGED <<world, retained, flying, building>>

\* flight_lock and lock_owned: share the flight of the root or start one.
Join(c) ==
  LET r == call[c].root
      free == {l \in Lock : ~InUse(l)}
      l == IF flights[r] # None THEN flights[r] ELSE CHOOSE l \in free : TRUE
  IN /\ pc[c] = "join"
     /\ flights[r] # None \/ free # {}
     /\ flights' = [flights EXCEPT ![r] = l]
     /\ queue' = [queue EXCEPT ![l] = Append(@, c)]
     /\ call' = [call EXCEPT ![c].lock = l]
     /\ pc' = [pc EXCEPT ![c] = "waiting"]
     /\ UNCHANGED <<world, caching, owner, delivered, building, known>>

\* The lock is granted in order.  Behind it the revision is read again and the
\* cache probed again: the flight before this one may have left what is wanted,
\* and then finish_flight retires the flight.
Recheck(c) ==
  LET r == call[c].root
      l == call[c].lock
      hit == Hit(r, Revision(r))
  IN /\ pc[c] = "waiting"
     /\ owner[l] = None /\ Head(queue[l]) = c
     /\ queue' = [queue EXCEPT ![l] = Tail(@)]
     /\ \/ /\ hit = {}
           /\ owner' = [owner EXCEPT ![l] = c]
           /\ pc' = [pc EXCEPT ![c] = "permit"]
           /\ UNCHANGED <<cache, flights, delivered, call, known>>
        \/ /\ \E i \in hit : cache' = Touched(i) /\ Deliver(c, cache[i])
           /\ flights' = Forgotten(r, l)
           /\ delivered' = Delivered(l, Tail(queue[l]))
           /\ owner' = owner
     /\ UNCHANGED <<world, retained, building>>

\* The narrow region lane comes before the generation permit.
TakeRegionPermit(c) ==
  /\ pc[c] = "permit" /\ permits > 0
  /\ permits' = permits - 1
  /\ pc' = [pc EXCEPT ![c] = "generation"]
  /\ UNCHANGED <<world, caching, flying, build, failures, call, known>>

\* With the generation permit the build moves to a blocking thread, which owns
\* the lock and the permits from here on.
Spawn(c) ==
  LET l == call[c].lock
  IN /\ pc[c] = "generation"
     /\ owner' = [owner EXCEPT ![l] = "task"]
     /\ build' = [build EXCEPT ![l] =
                    [root |-> call[c].root, caller |-> c, phase |-> "start",
                     attempt |-> 1, region |-> None]]
     /\ pc' = [pc EXCEPT ![c] = "building"]
     /\ UNCHANGED <<world, caching, flights, queue, delivered, permits, failures, call, known>>

\* The caller is dropped at an await: it leaves the queue, or lets go of the
\* lock and the permit; a build that has started goes on.
Cancel(c) ==
  LET l == call[c].lock
      r == call[c].root
  IN /\ c \in Impatient
     /\ \/ /\ pc[c] = "waiting"
           /\ \E i \in DOMAIN queue[l] :
                queue[l][i] = c /\ queue' = [queue EXCEPT ![l] = RemoveAt(@, i)]
           /\ IF owner[l] = None /\ Len(queue[l]) = 1
              THEN flights' = Forgotten(r, l) /\ delivered' = delivered \ {l}
              ELSE UNCHANGED <<flights, delivered>>
           /\ UNCHANGED <<owner, building>>
        \/ /\ pc[c] = "building"
           /\ build' = [build EXCEPT ![l].caller = None]
           /\ UNCHANGED <<flying, permits, failures>>
        \/ /\ pc[c] \in {"permit", "generation"}
           /\ owner' = [owner EXCEPT ![l] = None]
           /\ flights' = LetGo(r, l)
           /\ delivered' = IF queue[l] = <<>> THEN delivered \ {l} ELSE delivered
           /\ permits' = IF pc[c] = "generation" THEN permits + 1 ELSE permits
           /\ UNCHANGED <<queue, build, failures>>
     /\ Return(c)
     /\ UNCHANGED <<world, caching, known>>

-----------------------------------------------------------------------------
(* The build on its blocking thread.                                       *)

\* One mutex hold copies the edits and the revision of the root; an exact
\* region stamps that revision on all its pages.
Snapshot(l) ==
  LET r == build[l].root
  IN /\ build[l] # None /\ build[l].phase = "start"
     /\ build' = [build EXCEPT
          ![l].region = [root |-> r, revision |-> Revision(r),
                         pages |-> [p \in PagesOf[r] |->
                                      [revision |-> IF r \in Coverage THEN None ELSE Revision(r),
                                       content |-> ContentNow(r, p)]]],
          ![l].phase = "built"]
     /\ UNCHANGED <<world, caching, flying, permits, failures, pc, call, known>>

\* Pages of the build that have no revision yet.
Unread(l) == {p \in PagesOf[build[l].root] : build[l].region.pages[p].revision = None}

\* A coverage root asks the edit authority, page after page in the order it
\* builds them, for the page's revision of that moment, not of the snapshot.
ReadPageRevision(l) ==
  /\ build[l] # None /\ build[l].phase = "built" /\ Unread(l) # {}
  /\ LET p == CHOOSE p \in Unread(l) : TRUE
     IN build' = [build EXCEPT ![l].region.pages[p].revision = PageRevision(p)]
  /\ UNCHANGED <<world, caching, flying, permits, failures, pc, call, known>>

Unchanged_Assumed(l) == TRUE

\* The build counts only if the root still has the revision of the snapshot.
Unchanged(l) == Revision(build[l].root) = build[l].region.revision

Verify(l) ==
  /\ build[l] # None /\ build[l].phase = "built" /\ Unread(l) = {}
  /\ build' =
       IF Unchanged(l) THEN [build EXCEPT ![l].phase = "prepared"]
       ELSE IF build[l].attempt < Attempts
       THEN [build EXCEPT ![l].phase = "start", ![l].region = None,
                          ![l].attempt = @ + 1]
       ELSE [build EXCEPT ![l].phase = "failed", ![l].region = None]
  /\ UNCHANGED <<world, caching, flying, permits, failures, pc, call, known>>

\* The source or the codec refuses.
Fail(l) ==
  /\ build[l] # None /\ build[l].phase = "built"
  /\ failures < MaxFailures
  /\ failures' = failures + 1
  /\ build' = [build EXCEPT ![l].phase = "failed", ![l].region = None]
  /\ UNCHANGED <<world, caching, flying, permits, pc, call, known>>

Publish(l) ==
  /\ build[l] # None /\ build[l].phase = "prepared"
  /\ Insert(build[l].region)
  /\ build' = [build EXCEPT ![l].phase = "published"]
  /\ UNCHANGED <<world, flying, permits, failures, pc, call, known>>

End_KeepsPermit(l) ==
  /\ owner' = [owner EXCEPT ![l] = None]
  /\ build' = [build EXCEPT ![l] = None]
  /\ UNCHANGED <<world, caching, queue, permits, failures>>

\* The thread ends: the guard, both permits and the answer.
End(l) ==
  /\ owner' = [owner EXCEPT ![l] = None]
  /\ build' = [build EXCEPT ![l] = None]
  /\ permits' = permits + 1
  /\ UNCHANGED <<world, caching, queue, failures>>

\* finish_flight: the next caller of the root starts a new flight, those who
\* wait for this lock keep it.
Finish(l) ==
  /\ build[l] # None /\ build[l].phase = "published"
  /\ flights' = Forgotten(build[l].root, l)
  /\ delivered' = Delivered(l, queue[l])
  /\ End(l)
  /\ IF build[l].caller = None THEN UNCHANGED <<pc, call, known>>
     ELSE Deliver(build[l].caller, build[l].region)

Abandon(l) ==
  LET c == build[l].caller
  IN /\ build[l] # None /\ build[l].phase = "failed"
     /\ flights' = Abandoned(build[l].root, l)
     /\ delivered' = IF queue[l] = <<>> THEN delivered \ {l} ELSE delivered
     /\ End(l)
     /\ IF c = None THEN UNCHANGED <<pc, call, known>>
        ELSE Return(c) /\ UNCHANGED known

-----------------------------------------------------------------------------
Init ==
  /\ log = <<>>
  /\ cache = <<>> /\ retained = 0
  /\ flights = [r \in Root |-> None]
  /\ queue = [l \in Lock |-> <<>>]
  /\ owner = [l \in Lock |-> None]
  /\ delivered = {}
  /\ build = [l \in Lock |-> None]
  /\ permits = RegionWorkers
  /\ failures = 0
  /\ pc = [c \in Caller |-> "idle"]
  /\ call = [c \in Caller |-> None]
  /\ known = [c \in Caller |-> None]

Proceed(c) == Join(c) \/ Recheck(c) \/ Spawn(c)
Work(l) ==
  \/ Snapshot(l)
  \/ ReadPageRevision(l)
  \/ Verify(l)
  \/ Publish(l)
  \/ Finish(l)
  \/ Abandon(l)

Next ==
  \/ \E columns \in Edit : Commit(columns)
  \/ \E c \in Caller, r \in Root : Ask(c, r)
  \/ \E c \in Caller : Proceed(c) \/ TakeRegionPermit(c) \/ Cancel(c)
  \/ \E l \in Lock : Work(l) \/ Fail(l)

Spec == Init /\ [][Next]_vars

\* The runtime polls what is ready, blocking threads run, and the semaphore of
\* the region lane serves in order.
FairSpec ==
  /\ Spec
  /\ \A c \in Caller : WF_vars(Proceed(c)) /\ SF_vars(TakeRegionPermit(c))
  /\ \A l \in Lock : WF_vars(Work(l))

-----------------------------------------------------------------------------
Working == {c \in Caller : pc[c] = "generation"}
Running == {l \in Lock : build[l] # None}

\* The cache is what its byte count says, within its budget, with one region
\* per root, and the permits of the region lane are where the stages say they
\* are: replacing, evicting, failing and being cancelled never drift.
ResourcesAreAccounted ==
  /\ permits + Cardinality(Working) + Cardinality(Running) = RegionWorkers
  /\ retained = Bytes(cache)
  /\ retained <= CacheBytes
  /\ \A i, j \in DOMAIN cache : cache[i].root = cache[j].root => i = j

\* A page never shows less or more than its revision says, whatever commits
\* fell between the snapshot and the reading of the revisions: in the cache
\* and at every client the content of a page is the world of its revision,
\* and the directory of a region is the world of the region's revision.
AsOfItsRevision(region) ==
  \A p \in DOMAIN region.pages :
    LET node == region.pages[p]
    IN /\ node.content.commit = LastCommit(Footprint[p], node.revision - InitialRevision)
       /\ node.content.commit = LastCommit(Footprint[p], region.revision - InitialRevision)

RegionsAreSnapshots ==
  /\ \A i \in DOMAIN cache : AsOfItsRevision(cache[i])
  /\ \A c \in Caller : known[c] # None => AsOfItsRevision(known[c])

\* Whoever waits for a lock shares it with everybody who still asks for the
\* root, until the flight has delivered: a failing owner detaches nobody.
NobodyIsDetached ==
  \A l \in Lock : queue[l] # <<>> =>
    \/ l \in delivered
    \/ \E r \in Root : flights[r] = l

\* A caller that had to wait, through however many attempts and owners of the
\* flight, is never given a region older than the world it asked in.
AnswersAreFresh ==
  [][\A c \in Caller : (call[c] # None /\ known'[c] # known[c]) =>
       known'[c].revision >= call[c].floor]_vars

\* Every call ends, however many edits, failures and cancellations there are.
EveryCallReturns == \A c \in Caller : pc[c] # "idle" ~> pc[c] = "idle"
=============================================================================
