----------------------------- MODULE TerrainProofs -----------------------------
(***************************************************************************)
(* What TLAPS proves of the virtual terrain: of its authority              *)
(* (TerrainRegions), for any callers, roots, pages, columns, commits,      *)
(* locks, sizes and permits, and of the browser (VirtualTerrain), for a    *)
(* page tree of any depth and width, any views, edits, capacity and frame  *)
(* budget.                                                                 *)
(***************************************************************************)
EXTENDS TerrainRegions, VirtualTerrain, FiniteSetTheorems, SequenceTheorems,
        NaturalsInduction, WellFoundedInduction, TLAPS

-----------------------------------------------------------------------------
(* The authority.  The inductive invariant.                                *)

TypeInv ==
  /\ log \in Seq(SUBSET Column)
  /\ cache \in Seq(Region)
  /\ retained \in Int
  /\ flights \in [Root -> Lock \cup {None}]
  /\ queue \in [Lock -> Seq(Caller)]
  /\ owner \in [Lock -> Caller \cup {None, "task"}]
  /\ delivered \subseteq Lock
  /\ build \in [Lock -> Build \cup {None}]
  /\ permits \in Nat
  /\ pc \in [Caller -> {"idle", "join", "waiting", "permit", "generation", "building"}]
  /\ call \in [Caller -> Call \cup {None}]
  /\ known \in [Caller -> Region \cup {None}]

\* A caller inside ensure_region knows its root, and holds what its stage says.
CallInv ==
  \A c \in Caller :
    /\ pc[c] = "idle" <=> call[c] = None
    /\ pc[c] \in {"waiting", "permit", "generation", "building"} => call[c].lock \in Lock
    /\ pc[c] = "waiting" => \E i \in DOMAIN queue[call[c].lock] : queue[call[c].lock][i] = c
    /\ pc[c] \in {"permit", "generation"} => owner[call[c].lock] = c
    /\ pc[c] = "building" => /\ build[call[c].lock] # None
                             /\ build[call[c].lock].caller = c

\* A lock is with the caller that has its permits coming, or with the thread.
LockInv ==
  \A l \in Lock :
    /\ owner[l] \in Caller => /\ pc[owner[l]] \in {"permit", "generation"}
                              /\ call[owner[l]].lock = l
    /\ owner[l] = "task" <=> build[l] # None
    /\ build[l] # None =>
         /\ build[l].region # None <=> build[l].phase \in {"built", "prepared", "published"}
         /\ build[l].region # None => build[l].region.root = build[l].root
         /\ build[l].caller # None =>
              /\ pc[build[l].caller] = "building"
              /\ call[build[l].caller].lock = l
              /\ call[build[l].caller].root = build[l].root

Shape == TypeInv /\ CallInv /\ LockInv

\* What a caller asked for is in the past of what it is built from.
FreshInv ==
  /\ \A c \in Caller, r \in Root :
       call[c] # None /\ call[c].root = r => call[c].floor <= Revision(r)
  /\ \A l \in Lock :
       build[l] # None /\ build[l].region # None /\ build[l].caller # None =>
         build[l].region.revision >= call[build[l].caller].floor

\* The permits of the region lane are free, with a caller or with a build.
PermitInv ==
  /\ IsFiniteSet(Working) /\ IsFiniteSet(Running)
  /\ permits + Cardinality(Working) + Cardinality(Running) = RegionWorkers

\* The cache and its byte count.
OneEach(regions) == \A i, j \in DOMAIN regions : regions[i].root = regions[j].root => i = j

CacheInv ==
  /\ retained = Bytes(cache)
  /\ retained <= CacheBytes
  /\ OneEach(cache)

\* A region that no later commit can contradict.
Settled(region) ==
  /\ AsOfItsRevision(region)
  /\ region.revision \in 1..Len(log) + 1
  /\ \A p \in DOMAIN region.pages : region.pages[p].revision \in 1..Len(log) + 1

\* A region in the making was copied after the first n commits; the pages of a
\* coverage root read their revisions since.
Copied(region) ==
  \E n \in 0..Len(log) :
    /\ region.revision = LastCommit(RootColumns[region.root], n)
    /\ DOMAIN region.pages = PagesOf[region.root]
    /\ \A p \in PagesOf[region.root] :
         /\ region.pages[p].content.commit = LastCommit(Footprint[p], n)
         /\ region.pages[p].revision # None =>
              \/ region.pages[p].revision = region.revision
              \/ \E m \in n..Len(log) : region.pages[p].revision = LastCommit(Footprint[p], m)

\* The regions in the cache, at the callers and on their way there ...
Handed ==
  {cache[i] : i \in DOMAIN cache}
    \cup ({known[c] : c \in Caller} \ {None})
    \cup {build[l].region : l \in {k \in Lock : /\ build[k] # None
                                                /\ build[k].phase \in {"prepared", "published"}}}

\* ... and those whose revision is not checked yet.
InTheMaking ==
  {build[l].region : l \in {k \in Lock : build[k] # None /\ build[k].phase = "built"}}

SnapshotInv ==
  /\ \A x \in Handed : Settled(x)
  /\ \A x \in InTheMaking : Copied(x)
-----------------------------------------------------------------------------
(* Revisions.                                                              *)

\* A set of numbers that is not empty has a least one.
LEMMA LeastNat ==
  ASSUME NEW S \in SUBSET Nat, S # {}
  PROVE  \E m \in S : \A x \in S : m <= x
<1>. DEFINE Less == {p \in Nat \X Nat : p[1] < p[2]}
<1>1. IsWellFoundedOn(Less, Nat)
  BY NatLessThanWellFounded DEF OpToRel
<1>2. PICK m \in S : \A x \in S : ~(<<x, m>> \in Less)
  <2>. HIDE DEF Less
  <2>. QED
    BY <1>1, WFMin
<1>3. \A x \in S : <<x, m>> \in Nat \X Nat
  OBVIOUS
<1>4. \A x \in S : ~(x < m)
  BY <1>2, <1>3
<1>. QED
  BY <1>4


\* A bounded set of numbers that is not empty has a largest one.
LEMMA LargestNat ==
  ASSUME NEW n \in Nat, NEW S \in SUBSET (1..n), S # {}
  PROVE  \E m \in S : \A x \in S : x <= m
<1>. DEFINE Bounds == {m \in Nat : \A x \in S : x <= m}
<1>1. PICK b \in Bounds : \A m \in Bounds : b <= m
  <2>1. n \in Bounds
    OBVIOUS
  <2>. QED
    BY <2>1, LeastNat
<1>2. b # 0
  <2>1. PICK x \in S : TRUE
    OBVIOUS
  <2>2. x >= 1 /\ x <= b
    BY <1>1
  <2>. QED
    BY <2>2
<1>3. b - 1 \notin Bounds
  BY <1>1
<1>4. PICK x \in S : ~(x <= b - 1)
  BY <1>1, <1>2, <1>3
<1>. QED
  BY <1>1, <1>4

\* Commit i is the last of the first n that touches the columns.
IsLast(columns, n, i) ==
  /\ i \in 0..n
  /\ i = 0 \/ log[i] \cap columns # {}
  /\ \A j \in i + 1..n : log[j] \cap columns = {}

\* LastCommit names that commit (terrain_region_revision).
LEMMA LastCommitIs ==
  ASSUME NEW columns, NEW n \in Nat
  PROVE  \E i \in 0..n : IsLast(columns, n, i) /\ LastCommit(columns, n) = 1 + i
<1>. DEFINE touching == {i \in 1..n : log[i] \cap columns # {}}
            Newest(i) == i \in touching /\ \A j \in touching : j <= i
<1>1. CASE touching = {}
  <2>1. LastCommit(columns, n) = 1 + 0
    BY <1>1 DEF LastCommit, InitialRevision
  <2>2. IsLast(columns, n, 0)
    BY <1>1 DEF IsLast
  <2>. QED
    BY <2>1, <2>2
<1>2. CASE touching # {}
  <2>. DEFINE i == CHOOSE i \in touching : \A j \in touching : j <= i
  <2>1. Newest(i)
    <3>1. touching \in SUBSET (1..n)
      OBVIOUS
    <3>. HIDE DEF touching
    <3>2. \E m \in touching : \A x \in touching : x <= m
      BY <1>2, <3>1, LargestNat
    <3>. QED
      BY <3>2
  <2>2. LastCommit(columns, n) = 1 + i
    BY <1>2 DEF LastCommit, InitialRevision
  <2>. HIDE DEF i
  <2>3. i \in 1..n /\ log[i] \cap columns # {} /\ \A j \in touching : j <= i
    BY <2>1
  <2>4. \A j \in i + 1..n : log[j] \cap columns = {}
    BY <2>3
  <2>. QED
    BY <2>2, <2>3, <2>4 DEF IsLast
<1>. QED
  BY <1>1, <1>2

\* There is only one.
LEMMA LastCommitUnique ==
  ASSUME NEW columns, NEW n \in Nat, NEW i \in 0..n, IsLast(columns, n, i)
  PROVE  LastCommit(columns, n) = 1 + i
<1>1. PICK k \in 0..n : IsLast(columns, n, k) /\ LastCommit(columns, n) = 1 + k
  BY LastCommitIs
<1>2. ~(k < i) /\ ~(i < k)
  BY <1>1 DEF IsLast
<1>3. k = i
  BY <1>2
<1>. QED
  BY <1>1, <1>3

\* A revision is one more than a number of commits.
LEMMA LastCommitRange ==
  ASSUME NEW columns, NEW n \in Nat
  PROVE  LastCommit(columns, n) \in 1..n + 1
BY LastCommitIs

\* Revisions never go back.
LEMMA LastCommitMonotone ==
  ASSUME NEW columns, NEW m \in Nat, NEW n \in Nat, m <= n
  PROVE  LastCommit(columns, m) <= LastCommit(columns, n)
<1>1. PICK i \in 0..m : IsLast(columns, m, i) /\ LastCommit(columns, m) = 1 + i
  BY LastCommitIs
<1>2. PICK k \in 0..n : IsLast(columns, n, k) /\ LastCommit(columns, n) = 1 + k
  BY LastCommitIs
<1>3. ~(k < i)
  <2>1. SUFFICES ASSUME k < i PROVE FALSE
    OBVIOUS
  <2>2. i \in k + 1..n /\ i # 0
    BY <2>1
  <2>. QED
    BY <1>1, <1>2, <2>2 DEF IsLast
<1>. QED
  BY <1>1, <1>2, <1>3

\* A commit that touches none of the columns, or a part that misses them, leaves
\* the revision: the columns of a page are among those of its root.
LEMMA LastCommitQuiet ==
  ASSUME NEW columns, NEW some \in SUBSET columns,
         NEW n \in Nat, NEW i \in 0..n, IsLast(columns, n, i), NEW m \in i..n
  PROVE  LastCommit(some, m) = LastCommit(some, i)
<1>1. \A j \in i + 1..m : log[j] \cap some = {}
  BY DEF IsLast
<1>2. PICK k \in 0..i : IsLast(some, i, k) /\ LastCommit(some, i) = 1 + k
  BY LastCommitIs
<1>3. IsLast(some, m, k)
  <2>1. ASSUME NEW j \in k + 1..m PROVE log[j] \cap some = {}
    <3>1. CASE j \in k + 1..i
      BY <1>2, <3>1 DEF IsLast
    <3>2. CASE j \in i + 1..m
      BY <1>1, <3>2
    <3>. QED
      BY <3>1, <3>2
  <2>. QED
    BY <1>2, <2>1 DEF IsLast
<1>4. m \in Nat /\ k \in 0..m
  OBVIOUS
<1>. QED
  BY <1>2, <1>3, <1>4, LastCommitUnique

\* The commits before a revision give that revision again.
LEMMA LastCommitSettles ==
  ASSUME NEW columns, NEW n \in Nat
  PROVE  LastCommit(columns, LastCommit(columns, n) - 1) = LastCommit(columns, n)
<1>1. PICK i \in 0..n : IsLast(columns, n, i) /\ LastCommit(columns, n) = 1 + i
  BY LastCommitIs
<1>2. LastCommit(columns, n) = LastCommit(columns, i)
  BY <1>1, LastCommitQuiet
<1>. QED
  BY <1>1, <1>2

\* What the first n commits gave is not changed by a new one.
LEMMA LastCommitKept ==
  ASSUME log \in Seq(SUBSET Column), NEW more, log' = Append(log, more)
  PROVE  /\ Len(log)' = Len(log) + 1 /\ Len(log) \in Nat
         /\ \A columns : \A n \in 0..Len(log) : LastCommit(columns, n)' = LastCommit(columns, n)
<1>1. /\ Len(log') = Len(log) + 1 /\ Len(log) \in Nat
      /\ \A i \in 1..Len(log) : log'[i] = log[i]
  OBVIOUS
<1>2. ASSUME NEW columns, NEW n \in 0..Len(log)
      PROVE  LastCommit(columns, n)' = LastCommit(columns, n)
  <2>1. \A i \in 1..n : log'[i] = log[i]
    BY <1>1
  <2>2. {i \in 1..n : log'[i] \cap columns # {}} = {i \in 1..n : log[i] \cap columns # {}}
    BY <2>1
  <2>. DEFINE Newest(S) == IF S = {} THEN InitialRevision
                          ELSE InitialRevision + (CHOOSE i \in S : \A j \in S : j <= i)
              now == {i \in 1..n : log'[i] \cap columns # {}}
              before == {i \in 1..n : log[i] \cap columns # {}}
  <2>3. LastCommit(columns, n)' = Newest(now) /\ LastCommit(columns, n) = Newest(before)
    BY DEF LastCommit, InitialRevision
  <2>4. now = before
    BY <2>2
  <2>. HIDE DEF now, before, Newest
  <2>. QED
    BY <2>3, <2>4
<1>. QED
  BY <1>1, <1>2

\* The same in the next state.
RevisionsAdvance ==
  \A columns : \A m, n \in Nat :
    /\ LastCommit(columns, n) \in 1..n + 1
    /\ m <= n => LastCommit(columns, m) <= LastCommit(columns, n)

LEMMA AdvanceAlways == RevisionsAdvance /\ RevisionsAdvance'
<1>1. RevisionsAdvance
  BY LastCommitMonotone, LastCommitRange DEF RevisionsAdvance
<1>. QED
  BY <1>1, PTL

\* A commit never takes the revision of a root back, other steps leave it.
LEMMA CommitAdvances ==
  ASSUME log \in Seq(SUBSET Column), NEW columns, log' = Append(log, columns)
  PROVE  \A r : Revision(r) \in Nat /\ Revision(r)' \in Nat /\ Revision(r) <= Revision(r)'
<1>. TAKE r
<1>1. PICK n \in Nat : n = Len(log)
  OBVIOUS
<1>2. Revision(r) = LastCommit(RootColumns[r], n)
  BY <1>1 DEF Revision
<1>3. Len(log)' = n + 1
  BY <1>1
<1>4. Revision(r)' = LastCommit(RootColumns[r], n + 1)'
  BY <1>3 DEF Revision, LastCommit
<1>5. LastCommit(RootColumns[r], n)' = LastCommit(RootColumns[r], n)
  BY <1>1, LastCommitKept
<1>6. /\ LastCommit(RootColumns[r], n)' <= LastCommit(RootColumns[r], n + 1)'
      /\ LastCommit(RootColumns[r], n)' \in Nat /\ LastCommit(RootColumns[r], n + 1)' \in Nat
  <2>1. \A m \in Nat : LastCommit(RootColumns[r], m)' \in Nat
    <3>. TAKE m \in Nat
    <3>1. LastCommit(RootColumns[r], m)' \in 1..m + 1
      BY AdvanceAlways DEF RevisionsAdvance
    <3>. QED
      BY <3>1
  <2>2. LastCommit(RootColumns[r], n)' <= LastCommit(RootColumns[r], n + 1)'
    BY AdvanceAlways DEF RevisionsAdvance
  <2>3. n + 1 \in Nat
    OBVIOUS
  <2>. QED
    BY <2>1, <2>2, <2>3
<1>. QED
  BY <1>2, <1>4, <1>5, <1>6

LEMMA RevisionStays ==
  ASSUME log' = log
  PROVE  /\ \A r : Revision(r)' = Revision(r)
         /\ \A columns : \A n \in Nat : LastCommit(columns, n)' = LastCommit(columns, n)
BY DEF Revision, LastCommit
-----------------------------------------------------------------------------
(* The bytes of a sequence of regions.                                     *)

\* Induction over the natural numbers, for a set.
LEMMA SetInduction ==
  ASSUME NEW S \in SUBSET Nat, 0 \in S, \A n \in S : n + 1 \in S
  PROVE  S = Nat
<1>1. SUFFICES ASSUME Nat \ S # {} PROVE FALSE
  OBVIOUS
<1>2. PICK m \in Nat \ S : \A x \in Nat \ S : m <= x
  BY <1>1, LeastNat
<1>3. m - 1 \in Nat /\ m - 1 \in S
  BY <1>2
<1>4. (m - 1) + 1 \in S
  BY <1>3
<1>. QED
  BY <1>2, <1>4

\* A region has a size.
LEMMA SizeType == ASSUME NEW region \in Region PROVE SizeOf(region) \in Nat
BY BudgetAssumption DEF Region, SizeOf

\* A removed element is the only one that goes (RegionCache::get, a cancelled waiter).
LEMMA RemoveAtIs ==
  ASSUME NEW T, NEW q \in Seq(T), NEW i \in DOMAIN q
  PROVE  /\ RemoveAt(q, i) \in Seq(T)
         /\ Len(RemoveAt(q, i)) = Len(q) - 1
         /\ \A j \in 1..Len(q) - 1 : RemoveAt(q, i)[j] = IF j <= i - 1 THEN q[j] ELSE q[j + 1]
         /\ \A j \in DOMAIN RemoveAt(q, i) : \E m \in DOMAIN q : RemoveAt(q, i)[j] = q[m]
         /\ \A m \in DOMAIN q : m # i => \E j \in DOMAIN RemoveAt(q, i) : RemoveAt(q, i)[j] = q[m]
<1>1. i \in 1..Len(q) /\ Len(q) \in Nat
  OBVIOUS
<1>2. SubSeq(q, 1, i - 1) \in Seq(T) /\ SubSeq(q, i + 1, Len(q)) \in Seq(T)
  BY <1>1
<1>3. Len(SubSeq(q, 1, i - 1)) = i - 1 /\ Len(SubSeq(q, i + 1, Len(q))) = Len(q) - i
  BY <1>1
<1>4. /\ \A j \in 1..i - 1 : SubSeq(q, 1, i - 1)[j] = q[j]
      /\ \A j \in 1..Len(q) - i : SubSeq(q, i + 1, Len(q))[j] = q[i + j]
  BY <1>1
<1>. DEFINE a == SubSeq(q, 1, i - 1)
            b == SubSeq(q, i + 1, Len(q))
<1>5. a \in Seq(T) /\ b \in Seq(T) /\ Len(a) = i - 1 /\ Len(b) = Len(q) - i
  BY <1>2, <1>3
<1>6. /\ \A j \in 1..i - 1 : a[j] = q[j]
      /\ \A j \in 1..Len(q) - i : b[j] = q[i + j]
  BY <1>4
<1>7. RemoveAt(q, i) = a \o b
  BY DEF RemoveAt
<1>. HIDE DEF a, b
<1>8. /\ a \o b \in Seq(T) /\ Len(a \o b) = Len(q) - 1
      /\ \A j \in 1..Len(q) - 1 : (a \o b)[j] = IF j <= i - 1 THEN a[j] ELSE b[j - (i - 1)]
  BY <1>1, <1>5
<1>9. \A j \in 1..Len(q) - 1 : (a \o b)[j] = IF j <= i - 1 THEN q[j] ELSE q[j + 1]
  <2>. TAKE j \in 1..Len(q) - 1
  <2>1. CASE j <= i - 1
    BY <1>6, <1>8, <2>1
  <2>2. CASE ~(j <= i - 1)
    <3>1. j - (i - 1) \in 1..Len(q) - i /\ i + (j - (i - 1)) = j + 1
      BY <1>1, <2>2
    <3>2. b[j - (i - 1)] = q[j + 1]
      BY <1>6, <3>1
    <3>. QED
      BY <1>8, <2>2, <3>2
  <2>. QED
    BY <2>1, <2>2
<1>10. DOMAIN (a \o b) = 1..Len(q) - 1
  BY <1>8
<1>11. ASSUME NEW j \in 1..Len(q) - 1 PROVE \E m \in DOMAIN q : (a \o b)[j] = q[m]
  <2>1. j \in DOMAIN q /\ j + 1 \in DOMAIN q
    BY <1>1
  <2>. QED
    BY <1>9, <2>1
<1>12. ASSUME NEW m \in DOMAIN q, m # i PROVE \E j \in 1..Len(q) - 1 : (a \o b)[j] = q[m]
  <2>0. m \in 1..Len(q)
    OBVIOUS
  <2>1. CASE m < i
    <3>1. m \in 1..Len(q) - 1 /\ m <= i - 1
      BY <1>1, <2>0, <2>1
    <3>. QED
      BY <1>9, <3>1
  <2>2. CASE m > i
    <3>1. m - 1 \in 1..Len(q) - 1 /\ ~(m - 1 <= i - 1) /\ (m - 1) + 1 = m
      BY <1>1, <2>0, <2>2
    <3>. QED
      BY <1>9, <3>1
  <2>3. m < i \/ m > i
    <3>1. i \in Nat /\ m \in Nat
      BY <1>1, <2>0
    <3>. QED
      BY <1>12, <3>1
  <2>. QED
    BY <2>1, <2>2, <2>3
<1>. QED
  BY <1>7, <1>8, <1>9, <1>10, <1>11, <1>12

\* Sums is the function its recursion describes.
LEMMA SumsIs ==
  ASSUME NEW q \in Seq(Region)
  PROVE  Sums(q) = [n \in 0..Len(q) |-> IF n = 0 THEN 0 ELSE Sums(q)[n - 1] + SizeOf(q[n])]
<1>. DEFINE IsSum(g, m) == g = [n \in 0..m |-> IF n = 0 THEN 0 ELSE g[n - 1] + SizeOf(q[n])]
            Summed == {m \in Nat : m <= Len(q) => \E g : IsSum(g, m)}
<1>1. 0 \in Summed
  <2>. DEFINE g == [n \in 0..0 |-> 0]
  <2>1. IsSum(g, 0)
    OBVIOUS
  <2>. QED
    BY <2>1
<1>2. ASSUME NEW m \in Summed PROVE m + 1 \in Summed
  <2>1. SUFFICES ASSUME m + 1 <= Len(q) PROVE \E g : IsSum(g, m + 1)
    OBVIOUS
  <2>2. PICK g : IsSum(g, m)
    BY <1>2, <2>1
  <2>. DEFINE longer == [n \in 0..m + 1 |-> IF n = m + 1 THEN g[m] + SizeOf(q[m + 1]) ELSE g[n]]
  <2>3. ASSUME NEW n \in 0..m + 1
        PROVE  longer[n] = IF n = 0 THEN 0 ELSE longer[n - 1] + SizeOf(q[n])
    <3>1. CASE n = m + 1
      <4>1. n # 0 /\ n - 1 = m /\ m \in 0..m + 1 /\ m # m + 1
        BY <3>1
      <4>. QED
        BY <3>1, <4>1
    <3>2. CASE n # m + 1
      <4>1. n \in 0..m
        BY <3>2
      <4>2. longer[n] = g[n] /\ (n # 0 => longer[n - 1] = g[n - 1])
        BY <3>2, <4>1
      <4>3. g[n] = IF n = 0 THEN 0 ELSE g[n - 1] + SizeOf(q[n])
        BY <2>2, <4>1
      <4>. QED
        BY <4>2, <4>3
    <3>. QED
      BY <3>1, <3>2
  <2>4. IsSum(longer, m + 1)
    <3>1. longer = [n \in 0..m + 1 |-> longer[n]]
      OBVIOUS
    <3>. HIDE DEF longer
    <3>. QED
      BY <2>3, <3>1
  <2>. QED
    BY <2>4
<1>3. Summed = Nat
  <2>. HIDE DEF Summed
  <2>1. Summed \in SUBSET Nat
    BY DEF Summed
  <2>. QED
    BY <1>1, <1>2, <2>1, SetInduction
<1>4. Len(q) \in Summed
  BY <1>3
<1>5. \E g : IsSum(g, Len(q))
  BY <1>4
<1>6. Sums(q) = CHOOSE g : IsSum(g, Len(q))
  BY DEF Sums
<1>. QED
  BY <1>5, <1>6

\* What the recursion says of each of the sums.
LEMMA SumsAt ==
  ASSUME NEW q \in Seq(Region)
  PROVE  /\ Sums(q)[0] = 0
         /\ \A n \in 1..Len(q) : Sums(q)[n] = Sums(q)[n - 1] + SizeOf(q[n])
         /\ \A n \in 0..Len(q) : Sums(q)[n] \in Nat
<1>1. Len(q) \in Nat
  OBVIOUS
<1>2. \A n \in 0..Len(q) : Sums(q)[n] = IF n = 0 THEN 0 ELSE Sums(q)[n - 1] + SizeOf(q[n])
  <2>. DEFINE f == Sums(q)
  <2>1. f = [n \in 0..Len(q) |-> IF n = 0 THEN 0 ELSE f[n - 1] + SizeOf(q[n])]
    BY SumsIs
  <2>. HIDE DEF f
  <2>2. \A n \in 0..Len(q) : f[n] = IF n = 0 THEN 0 ELSE f[n - 1] + SizeOf(q[n])
    BY <2>1
  <2>. QED
    BY <2>2 DEF f
<1>3. Sums(q)[0] = 0 /\ \A n \in 1..Len(q) : Sums(q)[n] = Sums(q)[n - 1] + SizeOf(q[n])
  BY <1>1, <1>2
<1>4. \A n \in 1..Len(q) : SizeOf(q[n]) \in Nat
  BY SizeType
<1>. DEFINE Counted == {n \in Nat : n <= Len(q) => Sums(q)[n] \in Nat}
<1>5. 0 \in Counted
  BY <1>3
<1>6. ASSUME NEW n \in Counted PROVE n + 1 \in Counted
  <2>1. SUFFICES ASSUME n + 1 <= Len(q) PROVE Sums(q)[n + 1] \in Nat
    OBVIOUS
  <2>2. n + 1 \in 1..Len(q) /\ (n + 1) - 1 = n /\ Sums(q)[n] \in Nat
    BY <1>1, <2>1
  <2>3. Sums(q)[n + 1] = Sums(q)[n] + SizeOf(q[n + 1]) /\ SizeOf(q[n + 1]) \in Nat
    BY <1>3, <1>4, <2>2
  <2>. QED
    BY <2>2, <2>3
<1>7. Counted = Nat
  <2>1. Counted \in SUBSET Nat
    OBVIOUS
  <2>. HIDE DEF Counted
  <2>. QED
    BY <1>5, <1>6, <2>1, SetInduction
<1>. QED
  BY <1>1, <1>3, <1>7

\* Two sequences that agree over a stretch grow by the same bytes along it.
LEMMA SumsStretch ==
  ASSUME NEW q \in Seq(Region), NEW r \in Seq(Region),
         NEW a \in 0..Len(q), NEW b \in 0..Len(q), NEW c \in 0..Len(r), NEW d \in 0..Len(r),
         a <= b, b - a = d - c, \A k \in 1..b - a : q[a + k] = r[c + k]
  PROVE  Sums(q)[b] - Sums(q)[a] = Sums(r)[d] - Sums(r)[c]
<1>. DEFINE f == Sums(q)
            g == Sums(r)
            Grown == {k \in Nat : k <= b - a => f[a + k] - f[a] = g[c + k] - g[c]}
<1>0. Len(q) \in Nat /\ Len(r) \in Nat
  OBVIOUS
<1>1. /\ \A n \in 1..Len(q) : f[n] = f[n - 1] + SizeOf(q[n])
      /\ \A n \in 1..Len(r) : g[n] = g[n - 1] + SizeOf(r[n])
      /\ \A n \in 0..Len(q) : f[n] \in Nat
      /\ \A n \in 0..Len(r) : g[n] \in Nat
  BY SumsAt
<1>2. \A n \in 1..Len(q) : SizeOf(q[n]) \in Nat
  BY SizeType
<1>. HIDE DEF f, g
<1>3. 0 \in Grown
  <2>1. f[a] \in Nat /\ g[c] \in Nat /\ a + 0 = a /\ c + 0 = c
    BY <1>0, <1>1
  <2>. QED
    BY <2>1
<1>4. ASSUME NEW k \in Grown PROVE k + 1 \in Grown
  <2>1. SUFFICES ASSUME k + 1 <= b - a PROVE f[a + (k + 1)] - f[a] = g[c + (k + 1)] - g[c]
    OBVIOUS
  <2>. DEFINE n == a + (k + 1)
              m == c + (k + 1)
  <2>2. /\ n \in 1..Len(q) /\ m \in 1..Len(r) /\ n - 1 = a + k /\ m - 1 = c + k
        /\ a + k \in 0..Len(q) /\ c + k \in 0..Len(r) /\ k + 1 \in 1..b - a
    BY <1>0, <2>1
  <2>3. f[a + k] - f[a] = g[c + k] - g[c]
    BY <2>1
  <2>4. q[n] = r[m]
    BY <2>2
  <2>. HIDE DEF n, m
  <2>5. f[n] = f[a + k] + SizeOf(q[n]) /\ SizeOf(q[n]) \in Nat /\ f[a + k] \in Nat /\ f[a] \in Nat
    BY <1>1, <1>2, <2>2
  <2>6. g[m] = g[c + k] + SizeOf(q[n]) /\ g[c + k] \in Nat /\ g[c] \in Nat
    BY <1>1, <2>2, <2>4
  <2>7. f[n] - f[a] = g[m] - g[c]
    <3>. DEFINE fk == f[a + k]
                fa == f[a]
                gk == g[c + k]
                gc == g[c]
                more == SizeOf(q[n])
    <3>1. /\ fk \in Nat /\ fa \in Nat /\ gk \in Nat /\ gc \in Nat /\ more \in Nat
          /\ fk - fa = gk - gc
      BY <2>3, <2>5, <2>6
    <3>2. f[n] = fk + more /\ g[m] = gk + more
      BY <2>5, <2>6
    <3>. HIDE DEF fk, fa, gk, gc, more, Grown
    <3>3. (fk + more) - fa = (gk + more) - gc
      <4>1. fk \in Nat /\ fa \in Nat /\ gk \in Nat /\ gc \in Nat /\ more \in Nat
        BY <3>1
      <4>2. (fk + more) - fa = (fk - fa) + more
        BY <4>1
      <4>3. (gk + more) - gc = (gk - gc) + more
        BY <4>1
      <4>. QED
        BY <3>1, <4>2, <4>3
    <3>4. f[n] - fa = g[m] - gc
      BY <3>2, <3>3
    <3>. QED
      BY <3>4 DEF fa, gc
  <2>. QED
    BY <2>7 DEF n, m
<1>5. Grown = Nat
  <2>1. Grown \in SUBSET Nat
    OBVIOUS
  <2>. HIDE DEF Grown
  <2>. QED
    BY <1>3, <1>4, <2>1, SetInduction
<1>6. f[a + (b - a)] - f[a] = g[c + (b - a)] - g[c]
  <2>1. b - a \in Grown /\ b - a <= b - a
    <3>1. b - a \in Nat /\ b - a <= b - a
      BY <1>0
    <3>. HIDE DEF Grown
    <3>. QED
      BY <1>5, <3>1
  <2>. QED
    BY <2>1
<1>7. a + (b - a) = b /\ c + (b - a) = d
  BY <1>0
<1>. QED
  BY <1>6, <1>7 DEF f, g

\* The bytes of the cache with one region more (the push of RegionCache::insert).
LEMMA BytesOfAppend ==
  ASSUME NEW q \in Seq(Region), NEW x \in Region
  PROVE  Bytes(Append(q, x)) = Bytes(q) + SizeOf(x)
<1>. DEFINE r == Append(q, x)
            n == Len(q)
<1>1. /\ r \in Seq(Region) /\ n \in Nat /\ Len(r) = n + 1 /\ r[n + 1] = x
      /\ \A k \in 1..n : q[k] = r[k]
  OBVIOUS
<1>. HIDE DEF r
<1>2. Sums(q)[n] - Sums(q)[0] = Sums(r)[n] - Sums(r)[0]
  BY <1>1, SumsStretch
<1>3. /\ Sums(q)[0] = 0 /\ Sums(r)[0] = 0 /\ Sums(q)[n] \in Nat /\ Sums(r)[n] \in Nat
  BY <1>1, SumsAt
<1>4. Sums(r)[n + 1] = Sums(r)[n] + SizeOf(x)
  <2>1. n + 1 \in 1..Len(r) /\ (n + 1) - 1 = n
    BY <1>1
  <2>. QED
    BY <1>1, <2>1, SumsAt
<1>5. Sums(q)[n] = Sums(r)[n]
  BY <1>1, <1>2, <1>3
<1>. QED
  BY <1>1, <1>4, <1>5 DEF Bytes, r

\* ... with one less (the remove of RegionCache::get and RegionCache::insert) ...
LEMMA BytesOfRemoveAt ==
  ASSUME NEW q \in Seq(Region), NEW i \in DOMAIN q
  PROVE  Bytes(RemoveAt(q, i)) = Bytes(q) - SizeOf(q[i])
<1>. DEFINE r == RemoveAt(q, i)
            n == Len(q)
<1>1. /\ r \in Seq(Region) /\ Len(r) = n - 1 /\ n \in Nat /\ i \in 1..n
      /\ \A j \in 1..n - 1 : r[j] = IF j <= i - 1 THEN q[j] ELSE q[j + 1]
  BY RemoveAtIs
<1>. HIDE DEF r, n
<1>2. Sums(q)[i - 1] - Sums(q)[0] = Sums(r)[i - 1] - Sums(r)[0]
  <2>1. \A k \in 1..(i - 1) - 0 : q[0 + k] = r[0 + k]
    BY <1>1
  <2>2. /\ i - 1 \in 0..Len(q) /\ 0 \in 0..Len(q) /\ i - 1 \in 0..Len(r) /\ 0 \in 0..Len(r)
        /\ 0 <= i - 1 /\ q \in Seq(Region) /\ r \in Seq(Region)
    BY <1>1 DEF n
  <2>. QED
    BY <2>1, <2>2, SumsStretch
<1>3. Sums(q)[n] - Sums(q)[i] = Sums(r)[n - 1] - Sums(r)[i - 1]
  <2>1. \A k \in 1..n - i : q[i + k] = r[(i - 1) + k]
    <3>. TAKE k \in 1..n - i
    <3>1. (i - 1) + k \in 1..n - 1 /\ ~((i - 1) + k <= i - 1) /\ (i - 1) + k + 1 = i + k
      BY <1>1
    <3>. QED
      BY <1>1, <3>1
  <2>. DEFINE c == i - 1
              d == n - 1
  <2>2. /\ n \in 0..Len(q) /\ i \in 0..Len(q) /\ d \in 0..Len(r) /\ c \in 0..Len(r)
        /\ i <= n /\ n - i = d - c /\ q \in Seq(Region) /\ r \in Seq(Region)
    BY <1>1 DEF n
  <2>3. \A k \in 1..n - i : q[i + k] = r[c + k]
    BY <2>1
  <2>. HIDE DEF c, d
  <2>4. Sums(q)[n] - Sums(q)[i] = Sums(r)[d] - Sums(r)[c]
    BY <2>2, <2>3, SumsStretch
  <2>. QED
    BY <2>4 DEF c, d
<1>4. /\ Sums(q)[0] = 0 /\ Sums(r)[0] = 0
      /\ Sums(q)[i] = Sums(q)[i - 1] + SizeOf(q[i])
      /\ \A k \in 0..n : Sums(q)[k] \in Nat
      /\ \A k \in 0..n - 1 : Sums(r)[k] \in Nat
  BY <1>1, SumsAt DEF n
<1>5. SizeOf(q[i]) \in Nat
  BY <1>1, SizeType
<1>7. Sums(q)[i - 1] = Sums(r)[i - 1]
  BY <1>1, <1>2, <1>4
<1>8. Sums(q)[n] - Sums(q)[i] = Sums(r)[n - 1] - Sums(q)[i - 1]
  BY <1>3, <1>7
<1>9. Sums(r)[n - 1] = Sums(q)[n] - SizeOf(q[i])
  <2>. DEFINE before == Sums(q)[i - 1]
              at == Sums(q)[i]
              all == Sums(q)[n]
              ahead == Sums(r)[n - 1]
              gone == SizeOf(q[i])
  <2>1. /\ before \in Nat /\ at \in Nat /\ all \in Nat /\ ahead \in Nat /\ gone \in Nat
        /\ at = before + gone /\ all - at = ahead - before
    <3>1. i - 1 \in 0..n /\ i \in 0..n /\ n \in 0..n /\ n - 1 \in 0..n - 1
      BY <1>1
    <3>. QED
      BY <1>4, <1>5, <1>8, <3>1
  <2>. HIDE DEF before, at, all, ahead, gone
  <2>2. ahead = all - gone
    BY <2>1
  <2>. QED
    BY <2>2 DEF ahead, all, gone
<1>. QED
  BY <1>1, <1>9 DEF Bytes, r, n

\* ... and without the first ones (the evictions of RegionCache::insert).
LEMMA BytesOfEvicted ==
  ASSUME NEW q \in Seq(Region), NEW n \in 0..Len(q)
  PROVE  /\ SubSeq(q, 1, n) \in Seq(Region) /\ SubSeq(q, n + 1, Len(q)) \in Seq(Region)
         /\ Bytes(SubSeq(q, n + 1, Len(q))) = Bytes(q) - Bytes(SubSeq(q, 1, n))
<1>. DEFINE first == SubSeq(q, 1, n)
            rest == SubSeq(q, n + 1, Len(q))
            len == Len(q)
<1>1. /\ first \in Seq(Region) /\ Len(first) = n /\ \A k \in 1..n : first[k] = q[k]
      /\ rest \in Seq(Region) /\ Len(rest) = len - n /\ len \in Nat
      /\ \A k \in 1..len - n : rest[k] = q[n + k]
  OBVIOUS
<1>. HIDE DEF first, rest, len
<1>2. Sums(q)[n] - Sums(q)[0] = Sums(first)[n] - Sums(first)[0]
  <2>1. \A k \in 1..n - 0 : q[0 + k] = first[0 + k]
    BY <1>1
  <2>2. /\ q \in Seq(Region) /\ first \in Seq(Region) /\ 0 <= n /\ n - 0 = n - 0
        /\ 0 \in 0..Len(q) /\ n \in 0..Len(q) /\ 0 \in 0..Len(first) /\ n \in 0..Len(first)
    BY <1>1
  <2>. QED
    BY <2>1, <2>2, SumsStretch
<1>3. Sums(q)[len] - Sums(q)[n] = Sums(rest)[len - n] - Sums(rest)[0]
  <2>. DEFINE d == len - n
  <2>1. \A k \in 1..len - n : q[n + k] = rest[0 + k]
    BY <1>1
  <2>2. /\ q \in Seq(Region) /\ rest \in Seq(Region) /\ n <= len /\ len - n = d - 0
        /\ n \in 0..Len(q) /\ len \in 0..Len(q) /\ 0 \in 0..Len(rest) /\ d \in 0..Len(rest)
    BY <1>1 DEF len
  <2>. HIDE DEF d
  <2>3. Sums(q)[len] - Sums(q)[n] = Sums(rest)[d] - Sums(rest)[0]
    BY <2>1, <2>2, SumsStretch
  <2>. QED
    BY <2>3 DEF d
<1>4. /\ Sums(q)[0] = 0 /\ Sums(first)[0] = 0 /\ Sums(rest)[0] = 0
      /\ Sums(q)[n] \in Nat /\ Sums(q)[len] \in Nat /\ Sums(first)[n] \in Nat
      /\ Sums(rest)[len - n] \in Nat
  <2>1. n \in 0..len /\ len \in 0..len /\ n \in 0..n /\ len - n \in 0..len - n
    BY <1>1 DEF len
  <2>2. Sums(q)[0] = 0 /\ \A k \in 0..len : Sums(q)[k] \in Nat
    BY SumsAt DEF len
  <2>3. Sums(first)[0] = 0 /\ \A k \in 0..n : Sums(first)[k] \in Nat
    BY <1>1, SumsAt
  <2>4. Sums(rest)[0] = 0 /\ \A k \in 0..len - n : Sums(rest)[k] \in Nat
    BY <1>1, SumsAt
  <2>. QED
    BY <2>1, <2>2, <2>3, <2>4
<1>6. Sums(first)[n] = Sums(q)[n]
  BY <1>2, <1>4
<1>7. Sums(rest)[len - n] = Sums(q)[len] - Sums(first)[n]
  BY <1>3, <1>4, <1>6
<1>. QED
  BY <1>1, <1>7 DEF Bytes, first, rest, len
-----------------------------------------------------------------------------
(* The cache.                                                              *)

\* Taking an entry out leaves one region per root, and none of its root.
LEMMA OneEachRemoved ==
  ASSUME NEW q \in Seq(Region), OneEach(q), NEW i \in DOMAIN q
  PROVE  /\ OneEach(RemoveAt(q, i))
         /\ \A j \in DOMAIN RemoveAt(q, i) : RemoveAt(q, i)[j].root # q[i].root
<1>. DEFINE r == RemoveAt(q, i)
            Was(j) == IF j <= i - 1 THEN j ELSE j + 1
<1>1. /\ r \in Seq(Region) /\ Len(r) = Len(q) - 1 /\ i \in 1..Len(q) /\ Len(q) \in Nat
      /\ \A j \in 1..Len(q) - 1 : r[j] = IF j <= i - 1 THEN q[j] ELSE q[j + 1]
  BY RemoveAtIs
<1>2. \A j \in 1..Len(q) - 1 : r[j] = q[Was(j)]
  BY <1>1
<1>3. DOMAIN r = 1..Len(q) - 1 /\ DOMAIN q = 1..Len(q)
  BY <1>1
<1>4. \A j \in 1..Len(q) - 1 : Was(j) \in 1..Len(q) /\ Was(j) # i
  BY <1>1
<1>5. \A j, k \in 1..Len(q) - 1 : Was(j) = Was(k) => j = k
  BY <1>1
<1>. HIDE DEF r, Was
<1>6. OneEach(r)
  BY <1>2, <1>3, <1>4, <1>5 DEF OneEach
<1>7. \A j \in DOMAIN r : r[j].root # q[i].root
  BY <1>1, <1>2, <1>3, <1>4 DEF OneEach
<1>. QED
  BY <1>6, <1>7 DEF r

\* Pushing a region of a root that is not there leaves one per root.
LEMMA OneEachAppended ==
  ASSUME NEW q \in Seq(Region), OneEach(q), NEW x \in Region,
         \A j \in DOMAIN q : q[j].root # x.root
  PROVE  OneEach(Append(q, x))
<1>. DEFINE r == Append(q, x)
<1>1. /\ Len(q) \in Nat /\ DOMAIN q = 1..Len(q) /\ DOMAIN r = 1..Len(q) + 1
      /\ r[Len(q) + 1] = x /\ \A j \in 1..Len(q) : r[j] = q[j]
  OBVIOUS
<1>. HIDE DEF r
<1>2. ASSUME NEW i \in DOMAIN r, NEW j \in DOMAIN r, r[i].root = r[j].root
      PROVE  i = j
  <2>1. i \in 1..Len(q) \/ i = Len(q) + 1
    BY <1>1
  <2>2. j \in 1..Len(q) \/ j = Len(q) + 1
    BY <1>1
  <2>. QED
    BY <1>1, <1>2, <2>1, <2>2 DEF OneEach
<1>. QED
  BY <1>2 DEF OneEach, r

\* An entry that was hit moves to the end (RegionCache::get).
LEMMA TouchedIs ==
  ASSUME cache \in Seq(Region), NEW i \in DOMAIN cache
  PROVE  /\ Touched(i) \in Seq(Region)
         /\ \A j \in DOMAIN Touched(i) : \E m \in DOMAIN cache : Touched(i)[j] = cache[m]
         /\ Bytes(Touched(i)) = Bytes(cache)
         /\ OneEach(cache) => OneEach(Touched(i))
<1>. DEFINE q == RemoveAt(cache, i)
            x == cache[i]
<1>1. /\ q \in Seq(Region) /\ x \in Region
      /\ \A j \in DOMAIN q : \E m \in DOMAIN cache : q[j] = cache[m]
  BY RemoveAtIs
<1>2. Touched(i) = Append(q, x)
  BY DEF Touched
<1>3. Bytes(q) = Bytes(cache) - SizeOf(x)
  BY BytesOfRemoveAt
<1>4. OneEach(cache) => OneEach(q) /\ \A j \in DOMAIN q : q[j].root # x.root
  BY OneEachRemoved
<1>. HIDE DEF q
<1>5. \A j \in DOMAIN Append(q, x) : (j \in DOMAIN q /\ Append(q, x)[j] = q[j]) \/ Append(q, x)[j] = x
  BY <1>1
<1>6. Bytes(Append(q, x)) = Bytes(q) + SizeOf(x)
  BY <1>1, BytesOfAppend
<1>7. SizeOf(x) \in Nat /\ Bytes(cache) \in Nat
  <2>1. Len(cache) \in 0..Len(cache)
    OBVIOUS
  <2>. QED
    BY <1>1, <2>1, SizeType, SumsAt DEF Bytes
<1>. HIDE DEF x
<1>8. Bytes(Append(q, x)) = Bytes(cache)
  BY <1>3, <1>6, <1>7
<1>9. OneEach(cache) => OneEach(Append(q, x))
  BY <1>1, <1>4, OneEachAppended
<1>10. \A j \in DOMAIN Append(q, x) : \E m \in DOMAIN cache : Append(q, x)[j] = cache[m]
  BY <1>1, <1>5 DEF x
<1>11. Append(q, x) \in Seq(Region)
  BY <1>1
<1>. QED
  BY <1>2, <1>8, <1>9, <1>10, <1>11

\* A hit is an entry of the root.
LEMMA HitIs ==
  ASSUME NEW r, NEW revision, NEW i \in Hit(r, revision)
  PROVE  i \in DOMAIN cache /\ cache[i].root = r /\ cache[i].revision = revision
BY DEF Hit

\* What is left when the entry of a root is taken out (RegionCache::insert).
LEMMA OthersIs ==
  ASSUME cache \in Seq(Region), NEW r
  PROVE  /\ Others(r) \in Seq(Region)
         /\ \A j \in DOMAIN Others(r) : \E m \in DOMAIN cache : Others(r)[j] = cache[m]
         /\ Bytes(Others(r)) = Bytes(cache) - Replaced(r)
         /\ Replaced(r) \in Nat /\ Bytes(cache) \in Nat
         /\ OneEach(cache) => /\ OneEach(Others(r))
                              /\ \A j \in DOMAIN Others(r) : Others(r)[j].root # r
<1>1. Bytes(cache) \in Nat
  <2>1. Len(cache) \in 0..Len(cache)
    OBVIOUS
  <2>. QED
    BY <2>1, SumsAt DEF Bytes
<1>2. CASE Entry(r) = {}
  <2>1. Others(r) = cache /\ Replaced(r) = 0
    BY <1>2 DEF Others, Replaced
  <2>2. \A j \in DOMAIN cache : cache[j].root # r
    BY <1>2 DEF Entry
  <2>. QED
    BY <1>1, <2>1, <2>2
<1>3. CASE Entry(r) # {}
  <2>. DEFINE i == CHOOSE i \in Entry(r) : TRUE
  <2>1. i \in DOMAIN cache /\ cache[i].root = r
    BY <1>3 DEF Entry
  <2>2. Others(r) = RemoveAt(cache, i) /\ Replaced(r) = SizeOf(cache[i])
    BY <1>3 DEF Others, Replaced
  <2>. HIDE DEF i
  <2>3. Bytes(RemoveAt(cache, i)) = Bytes(cache) - SizeOf(cache[i]) /\ SizeOf(cache[i]) \in Nat
    <3>1. cache[i] \in Region
      BY <2>1
    <3>. QED
      BY <2>1, <3>1, BytesOfRemoveAt, SizeType
  <2>4. OneEach(cache) => /\ OneEach(RemoveAt(cache, i))
                          /\ \A j \in DOMAIN RemoveAt(cache, i) : RemoveAt(cache, i)[j].root # r
    BY <2>1, OneEachRemoved
  <2>5. /\ RemoveAt(cache, i) \in Seq(Region)
        /\ \A j \in DOMAIN RemoveAt(cache, i) :
             \E m \in DOMAIN cache : RemoveAt(cache, i)[j] = cache[m]
    BY <2>1, RemoveAtIs
  <2>. QED
    BY <1>1, <2>2, <2>3, <2>4, <2>5
<1>. QED
  BY <1>2, <1>3

\* A published region fits the budget, and the count follows what was evicted
\* and replaced (RegionCache::insert).
LEMMA InsertIs ==
  ASSUME cache \in Seq(Region), retained \in Int, NEW region \in Region, Insert(region)
  PROVE  /\ cache' \in Seq(Region) /\ retained' \in Int
         /\ \A j \in DOMAIN cache' : cache'[j] = region \/ \E m \in DOMAIN cache : cache'[j] = cache[m]
         /\ CacheInv => CacheInv'
<1>1. CASE CacheBytes = 0 \/ SizeOf(region) > CacheBytes
  <2>1. cache' = cache /\ retained' = retained
    BY <1>1 DEF Insert, caching
  <2>2. CacheInv => CacheInv'
    BY <2>1 DEF CacheInv
  <2>. QED
    BY <2>1, <2>2
<1>2. CASE ~(CacheBytes = 0 \/ SizeOf(region) > CacheBytes)
  <2>. DEFINE others == Others(region.root)
              After(n) == retained - Replaced(region.root) - Bytes(SubSeq(others, 1, n))
                          + SizeOf(region)
              Fits(n) == n = Len(others) \/ After(n) <= CacheBytes
              Evicting(n) == Fits(n) /\ \A m \in 0..(n - 1) : ~Fits(m)
              evicted == CHOOSE n \in 0..Len(others) : Evicting(n)
  <2>1. /\ others \in Seq(Region)
        /\ \A j \in DOMAIN others : \E m \in DOMAIN cache : others[j] = cache[m]
        /\ Bytes(others) = Bytes(cache) - Replaced(region.root)
        /\ Replaced(region.root) \in Nat /\ Bytes(cache) \in Nat
        /\ OneEach(cache) => /\ OneEach(others)
                             /\ \A j \in DOMAIN others : others[j].root # region.root
    BY OthersIs
  <2>2. /\ cache' = Append(SubSeq(others, evicted + 1, Len(others)), region)
        /\ retained' = After(evicted)
    BY <1>2 DEF Insert
  <2>. HIDE DEF others
  <2>3. evicted \in 0..Len(others) /\ Evicting(evicted)
    <3>. DEFINE Enough == {n \in 0..Len(others) : Fits(n)}
    <3>1. Len(others) \in Enough /\ Enough \in SUBSET Nat
      BY <2>1
    <3>. HIDE DEF Fits
    <3>2. PICK n \in Enough : \A m \in Enough : n <= m
      <4>. HIDE DEF Enough
      <4>. QED
        BY <3>1, LeastNat
    <3>3. n \in 0..Len(others) /\ Evicting(n)
      BY <2>1, <3>2
    <3>. HIDE DEF Evicting
    <3>. QED
      BY <3>3
  <2>. HIDE DEF evicted
  <2>. DEFINE first == SubSeq(others, 1, evicted)
              rest == SubSeq(others, evicted + 1, Len(others))
  <2>4. /\ first \in Seq(Region) /\ rest \in Seq(Region)
        /\ Bytes(rest) = Bytes(others) - Bytes(first)
    BY <2>1, <2>3, BytesOfEvicted
  <2>5. /\ Len(others) \in Nat /\ DOMAIN rest = 1..Len(others) - evicted
        /\ \A j \in DOMAIN rest : evicted + j \in DOMAIN others /\ rest[j] = others[evicted + j]
    BY <2>1, <2>3
  <2>6. /\ SizeOf(region) \in Nat /\ CacheBytes \in Nat /\ Bytes(others) \in Nat
        /\ Bytes(first) \in Nat
    <3>1. Len(others) \in 0..Len(others) /\ Len(first) \in 0..Len(first)
      BY <2>1, <2>4
    <3>. QED
      BY <2>1, <2>4, <3>1, SizeType, SumsAt, BudgetAssumption DEF Bytes
  <2>7. evicted = Len(others) => Bytes(first) = Bytes(others)
    <3>1. \A q \in Seq(Region) : SubSeq(q, 1, Len(q)) = q
      OBVIOUS
    <3>. QED
      BY <2>1, <3>1
  <2>8. Bytes(cache') = Bytes(rest) + SizeOf(region)
    BY <2>2, <2>4, BytesOfAppend
  <2>9. retained' = retained - Replaced(region.root) - Bytes(first) + SizeOf(region)
    BY <2>2
  <2>10. evicted = Len(others) \/ retained' <= CacheBytes
    BY <2>2, <2>3
  <2>. HIDE DEF rest
  <2>11. /\ cache' \in Seq(Region)
         /\ \A j \in DOMAIN cache' : (j \in DOMAIN rest /\ cache'[j] = rest[j]) \/ cache'[j] = region
    BY <2>2, <2>4 DEF rest
  <2>12. \A j \in DOMAIN cache' : cache'[j] = region \/ \E m \in DOMAIN cache : cache'[j] = cache[m]
    BY <2>1, <2>5, <2>11
  <2>. HIDE DEF first
  <2>13. retained' \in Int
    BY <2>1, <2>6, <2>9
  <2>14. ASSUME CacheInv PROVE CacheInv'
    <3>1. retained = Bytes(cache) /\ OneEach(cache)
      BY <2>14 DEF CacheInv
    <3>2. retained' = Bytes(others) - Bytes(first) + SizeOf(region)
      BY <2>1, <2>9, <3>1
    <3>3. retained' = Bytes(cache')
      BY <2>4, <2>6, <2>8, <3>2
    <3>4. retained' <= CacheBytes
      <4>1. CASE evicted = Len(others)
        <5>1. retained' = SizeOf(region)
          BY <2>6, <2>7, <3>2, <4>1
        <5>. QED
          BY <1>2, <2>6, <5>1
      <4>. QED
        BY <2>10, <4>1
    <3>5. OneEach(rest) /\ \A j \in DOMAIN rest : rest[j].root # region.root
      <4>1. \A i, j \in DOMAIN rest : evicted + i = evicted + j => i = j
        BY <2>3, <2>5
      <4>. QED
        BY <2>1, <2>5, <3>1, <4>1 DEF OneEach
    <3>6. OneEach(cache')
      BY <2>2, <2>4, <3>5, OneEachAppended DEF rest
    <3>. QED
      BY <3>3, <3>4, <3>6 DEF CacheInv
  <2>. QED
    BY <2>11, <2>12, <2>13, <2>14
<1>. QED
  BY <1>1, <1>2
-----------------------------------------------------------------------------
(* Who is where: the callers, the locks and the builds.                    *)

\* Revisions are numbers.
LEMMA RevisionType ==
  ASSUME log \in Seq(SUBSET Column)
  PROVE  /\ Len(log) \in Nat
         /\ \A r : Revision(r) \in 1..Len(log) + 1
         /\ \A p : PageRevision(p) \in 1..Len(log) + 1
BY LastCommitRange DEF Revision, PageRevision

\* A caller inside ensure_region has a call.
LEMMA InsideIs ==
  ASSUME Shape, NEW c \in Caller, pc[c] # "idle"
  PROVE  call[c] \in Call /\ call[c].root \in Root /\ call[c] # None
<1>1. call[c] \in Call \cup {None} /\ call[c] # None
  BY DEF Shape, TypeInv, CallInv
<1>. QED
  BY <1>1 DEF Call

LEMMA ShapeInit == ASSUME Init PROVE Shape
<1>1. TypeInv
  BY BudgetAssumption DEF Init, TypeInv
<1>2. CallInv /\ LockInv
  BY NoneAssumption DEF Init, CallInv, LockInv
<1>. QED
  BY <1>1, <1>2 DEF Shape

LEMMA ShapeCommit ==
  ASSUME Shape, NEW columns \in Edit, Commit(columns)
  PROVE  Shape'
<1>1. TypeInv'
  BY EditAssumption DEF Shape, TypeInv, Commit, caching, flying, building
<1>2. CallInv'
  BY DEF Shape, CallInv, Commit, caching, flying, building
<1>3. LockInv'
  BY DEF Shape, LockInv, Commit, caching, flying, building
<1>. QED
  BY <1>1, <1>2, <1>3 DEF Shape

LEMMA ShapeAsk ==
  ASSUME Shape, NEW c \in Caller, NEW r \in Root, Ask(c, r)
  PROVE  Shape'
<1>. USE DEF Ask, world, flying, building
<1>. DEFINE new == [root |-> r, floor |-> Revision(r), lock |-> None]
<1>1. TypeInv
  BY DEF Shape
<1>2. new \in Call /\ new # None
  <2>1. Revision(r) \in Nat
    BY <1>1, RevisionType DEF TypeInv
  <2>. QED
    BY <2>1, NoneAssumption DEF Call
<1>3. \/ /\ pc[c] = "idle"
         /\ pc' = [pc EXCEPT ![c] = "join"] /\ call' = [call EXCEPT ![c] = new]
         /\ known' = [known EXCEPT ![c] = None] /\ cache' = cache
      \/ /\ UNCHANGED <<pc, call>>
         /\ \E i \in DOMAIN cache :
              cache' = Touched(i) /\ known' = [known EXCEPT ![c] = cache[i]]
  BY HitIs
<1>. HIDE DEF new
<1>4. TypeInv'
  <2>0. /\ cache \in Seq(Region) /\ known \in [Caller -> Region \cup {None}]
        /\ pc \in [Caller -> {"idle", "join", "waiting", "permit", "generation", "building"}]
        /\ call \in [Caller -> Call \cup {None}]
    BY <1>1 DEF TypeInv
  <2>1. cache' \in Seq(Region) /\ known' \in [Caller -> Region \cup {None}]
    <3>1. ASSUME NEW i \in DOMAIN cache, cache' = Touched(i), known' = [known EXCEPT ![c] = cache[i]]
          PROVE  cache' \in Seq(Region) /\ known' \in [Caller -> Region \cup {None}]
      <4>1. cache[i] \in Region
        BY <2>0
      <4>. QED
        BY <2>0, <3>1, <4>1, TouchedIs
    <3>2. CASE cache' = cache /\ known' = [known EXCEPT ![c] = None]
      BY <2>0, <3>2
    <3>. QED
      BY <1>3, <3>1, <3>2
  <2>2. /\ pc' \in [Caller -> {"idle", "join", "waiting", "permit", "generation", "building"}]
        /\ call' \in [Caller -> Call \cup {None}]
    <3>1. \/ pc' = [pc EXCEPT ![c] = "join"] /\ call' = [call EXCEPT ![c] = new]
          \/ pc' = pc /\ call' = call
      BY <1>3
    <3>. QED
      BY <1>2, <2>0, <3>1
  <2>. QED
    BY <1>1, <2>1, <2>2 DEF TypeInv
<1>5. CallInv'
  BY <1>1, <1>2, <1>3 DEF Shape, CallInv, TypeInv
<1>6. LockInv'
  <2>1. \A d \in Caller : pc[d] # "idle" => pc'[d] = pc[d] /\ call'[d] = call[d]
    BY <1>1, <1>3 DEF TypeInv
  <2>2. \A l \in Lock : build[l] # None => build[l].caller \in Caller \cup {None}
    BY <1>1 DEF TypeInv, Build
  <2>. QED
    BY <2>1, <2>2 DEF Shape, LockInv
<1>. QED
  BY <1>4, <1>5, <1>6 DEF Shape

LEMMA ShapeJoin ==
  ASSUME Shape, NEW c \in Caller, Join(c)
  PROVE  Shape'
<1>. DEFINE r == call[c].root
            free == {l \in Lock : ~InUse(l)}
            l == IF flights[r] # None THEN flights[r] ELSE CHOOSE l \in free : TRUE
<1>. USE DEF Join, world, caching, building
<1>1. TypeInv
  BY DEF Shape
<1>2. call[c] \in Call /\ r \in Root /\ call[c] # None
  BY InsideIs
<1>3. l \in Lock
  BY <1>1, <1>2 DEF TypeInv
<1>4. /\ pc[c] = "join"
      /\ flights' = [flights EXCEPT ![r] = l]
      /\ queue' = [queue EXCEPT ![l] = Append(@, c)]
      /\ call' = [call EXCEPT ![c].lock = l]
      /\ pc' = [pc EXCEPT ![c] = "waiting"]
      /\ UNCHANGED <<log, cache, retained, owner, delivered, build, permits, failures, known>>
  OBVIOUS
<1>. HIDE DEF Join, l, r
<1>5. [call[c] EXCEPT !.lock = l] \in Call /\ [call[c] EXCEPT !.lock = l] # None
  <2>1. [call[c] EXCEPT !.lock = l] \in Call
    BY <1>2, <1>3 DEF Call
  <2>. QED
    BY <2>1, NoneAssumption
<1>6. TypeInv'
  <2>1. call' \in [Caller -> Call \cup {None}]
    BY <1>1, <1>4, <1>5 DEF TypeInv
  <2>2. queue' \in [Lock -> Seq(Caller)]
    BY <1>1, <1>3, <1>4 DEF TypeInv
  <2>. QED
    BY <1>1, <1>2, <1>3, <1>4, <2>1, <2>2 DEF TypeInv
<1>7. /\ pc'[c] = "waiting" /\ call'[c] # None /\ call'[c].lock = l
      /\ \A d \in Caller : d # c => pc'[d] = pc[d] /\ call'[d] = call[d]
  <2>1. call'[c] = [call[c] EXCEPT !.lock = l]
    BY <1>1, <1>4 DEF TypeInv
  <2>2. call'[c].lock = l
    BY <1>2, <2>1 DEF Call
  <2>. QED
    BY <1>1, <1>4, <1>5, <2>1, <2>2 DEF TypeInv
<1>8. /\ \E i \in DOMAIN queue'[l] : queue'[l][i] = c
      /\ \A k \in Lock : \A i \in DOMAIN queue[k] :
           i \in DOMAIN queue'[k] /\ queue'[k][i] = queue[k][i]
  <2>1. queue[l] \in Seq(Caller) /\ queue'[l] = Append(queue[l], c)
    BY <1>1, <1>3, <1>4 DEF TypeInv
  <2>2. \A k \in Lock : k # l => queue'[k] = queue[k]
    BY <1>1, <1>4 DEF TypeInv
  <2>3. /\ Len(queue[l]) + 1 \in DOMAIN queue'[l] /\ queue'[l][Len(queue[l]) + 1] = c
        /\ \A i \in DOMAIN queue[l] : i \in DOMAIN queue'[l] /\ queue'[l][i] = queue[l][i]
    BY <2>1
  <2>. QED
    BY <2>2, <2>3
<1>9. CallInv'
  <2>1. CallInv
    BY DEF Shape
  <2>2. ASSUME NEW d \in Caller, pc'[d] = "waiting"
        PROVE  \E i \in DOMAIN queue'[call'[d].lock] : queue'[call'[d].lock][i] = d
    <3>1. CASE d = c
      BY <1>7, <1>8, <3>1
    <3>2. CASE d # c
      <4>1. call'[d] = call[d] /\ call[d].lock \in Lock
        BY <1>7, <2>1, <2>2, <3>2 DEF CallInv
      <4>2. PICK i \in DOMAIN queue[call[d].lock] : queue[call[d].lock][i] = d
        BY <1>7, <2>1, <2>2, <3>2 DEF CallInv
      <4>. QED
        BY <1>8, <4>1, <4>2
    <3>. QED
      BY <3>1, <3>2
  <2>. QED
    BY <1>3, <1>4, <1>7, <2>1, <2>2 DEF CallInv
<1>10. LockInv'
  <2>1. LockInv
    BY DEF Shape
  <2>2. \A k \in Lock : owner[k] # c /\ (build[k] # None => build[k].caller # c)
    BY <1>1, <1>4, <2>1, NoneAssumption DEF LockInv
  <2>3. \A k \in Lock : build[k] # None => build[k].caller \in Caller \cup {None}
    BY <1>1 DEF TypeInv, Build
  <2>. QED
    BY <1>4, <1>7, <2>1, <2>2, <2>3 DEF LockInv
<1>. QED
  BY <1>6, <1>9, <1>10 DEF Shape

\* The head of a queue is served, the others stay in it.
LEMMA TailKeeps ==
  ASSUME NEW q \in Seq(Caller), q # <<>>
  PROVE  /\ Tail(q) \in Seq(Caller)
         /\ \A i \in DOMAIN q : q[i] # Head(q) => \E j \in DOMAIN Tail(q) : Tail(q)[j] = q[i]
<1>1. Tail(q) \in Seq(Caller) /\ Len(q) \in Nat /\ Head(q) = q[1]
  OBVIOUS
<1>2. ASSUME NEW i \in DOMAIN q, q[i] # Head(q)
      PROVE  \E j \in DOMAIN Tail(q) : Tail(q)[j] = q[i]
  <2>1. i - 1 \in 1..Len(q) - 1 /\ (i - 1) + 1 = i
    BY <1>1, <1>2
  <2>2. i - 1 \in DOMAIN Tail(q) /\ Tail(q)[i - 1] = q[i]
    BY <1>1, <2>1
  <2>. QED
    BY <2>2
<1>. QED
  BY <1>1, <1>2

\* Everybody who waits goes on waiting, but for the one that is served or leaves.
LEMMA WaitersStay ==
  ASSUME Shape, NEW l \in Lock, NEW c \in Caller, NEW q \in Seq(Caller),
         queue' = [queue EXCEPT ![l] = q],
         \A i \in DOMAIN queue[l] : queue[l][i] # c => \E j \in DOMAIN q : q[j] = queue[l][i]
  PROVE  \A d \in Caller : d # c /\ pc[d] = "waiting" =>
           \E i \in DOMAIN queue'[call[d].lock] : queue'[call[d].lock][i] = d
<1>. TAKE d \in Caller
<1>. SUFFICES ASSUME d # c, pc[d] = "waiting"
              PROVE  \E i \in DOMAIN queue'[call[d].lock] : queue'[call[d].lock][i] = d
  OBVIOUS
<1>. DEFINE k == call[d].lock
<1>1. k \in Lock
  BY DEF Shape, CallInv
<1>2. PICK i \in DOMAIN queue[k] : queue[k][i] = d
  BY DEF Shape, CallInv
<1>3. queue'[l] = q /\ (k # l => queue'[k] = queue[k])
  BY <1>1 DEF Shape, TypeInv
<1>. QED
  BY <1>2, <1>3

LEMMA ShapeRecheck ==
  ASSUME Shape, NEW c \in Caller, Recheck(c)
  PROVE  Shape'
<1>. DEFINE r == call[c].root
            l == call[c].lock
<1>1. TypeInv /\ CallInv /\ LockInv
  BY DEF Shape
<1>2. pc[c] = "waiting" /\ owner[l] = None /\ Head(queue[l]) = c
  BY DEF Recheck
<1>3. call[c] \in Call /\ r \in Root /\ call[c] # None /\ l \in Lock
  BY <1>1, <1>2, InsideIs DEF CallInv
<1>4. queue' = [queue EXCEPT ![l] = Tail(queue[l])]
  BY <1>1, <1>3 DEF Recheck, TypeInv
<1>5. UNCHANGED <<log, retained, build, permits, failures>>
  BY DEF Recheck, world, building
<1>6. \/ /\ owner' = [owner EXCEPT ![l] = c]
         /\ pc' = [pc EXCEPT ![c] = "permit"]
         /\ UNCHANGED <<cache, flights, delivered, call, known>>
      \/ /\ \E i \in DOMAIN cache : cache' = Touched(i) /\ known' = [known EXCEPT ![c] = cache[i]]
         /\ pc' = [pc EXCEPT ![c] = "idle"] /\ call' = [call EXCEPT ![c] = None]
         /\ flights' = Forgotten(r, l)
         /\ delivered' = Delivered(l, Tail(queue[l]))
         /\ owner' = owner
  BY HitIs DEF Recheck, Deliver, Return
<1>. HIDE DEF r, l
<1>7. queue[l] \in Seq(Caller) /\ queue[l] # <<>>
  <2>1. \E i \in DOMAIN queue[l] : queue[l][i] = c
    BY <1>1, <1>2 DEF CallInv, l
  <2>2. queue[l] \in Seq(Caller)
    BY <1>1, <1>3 DEF TypeInv
  <2>. QED
    BY <2>1, <2>2
<1>8. /\ Tail(queue[l]) \in Seq(Caller)
      /\ \A i \in DOMAIN queue[l] : queue[l][i] # c =>
           \E j \in DOMAIN Tail(queue[l]) : Tail(queue[l])[j] = queue[l][i]
  BY <1>2, <1>7, TailKeeps
<1>9. \A d \in Caller : d # c /\ pc[d] = "waiting" =>
        \E i \in DOMAIN queue'[call[d].lock] : queue'[call[d].lock][i] = d
  BY <1>3, <1>4, <1>8, WaitersStay
<1>10. queue' \in [Lock -> Seq(Caller)]
  BY <1>1, <1>3, <1>4, <1>8 DEF TypeInv
<1>11. build[l] = None
  BY <1>1, <1>2, <1>3, NoneAssumption DEF LockInv
<1>12. CASE /\ owner' = [owner EXCEPT ![l] = c]
            /\ pc' = [pc EXCEPT ![c] = "permit"]
            /\ UNCHANGED <<cache, flights, delivered, call, known>>
  <2>1. TypeInv'
    BY <1>1, <1>3, <1>5, <1>10, <1>12 DEF TypeInv
  <2>2. /\ pc'[c] = "permit" /\ owner'[l] = c
        /\ \A d \in Caller : d # c => pc'[d] = pc[d]
        /\ \A k \in Lock : k # l => owner'[k] = owner[k]
    BY <1>1, <1>3, <1>12 DEF TypeInv
  <2>3. CallInv'
    <3>1. \A d \in Caller : call[d].lock \in Lock /\ owner[call[d].lock] = d => call[d].lock # l
      BY <1>2, NoneAssumption
    <3>. QED
      BY <1>1, <1>2, <1>3, <1>5, <1>9, <1>12, <2>2, <3>1 DEF CallInv, l
  <2>4. LockInv'
    <3>1. \A k \in Lock : owner[k] # c /\ (build[k] # None => build[k].caller # c)
      BY <1>1, <1>2, <1>3, NoneAssumption DEF LockInv
    <3>2. \A k \in Lock : build[k] # None => build[k].caller \in Caller \cup {None}
      BY <1>1 DEF TypeInv, Build
    <3>3. \A k \in Lock : owner[k] \in Caller => owner[k] # c
      BY <3>1
    <3>4. c # "task" /\ c # None
      BY NoneAssumption
    <3>. QED
      BY <1>1, <1>2, <1>3, <1>5, <1>11, <1>12, <2>2, <3>1, <3>2, <3>4 DEF LockInv, l
  <2>. QED
    BY <2>1, <2>3, <2>4 DEF Shape
<1>13. CASE /\ \E i \in DOMAIN cache : cache' = Touched(i) /\ known' = [known EXCEPT ![c] = cache[i]]
            /\ pc' = [pc EXCEPT ![c] = "idle"] /\ call' = [call EXCEPT ![c] = None]
            /\ flights' = Forgotten(r, l)
            /\ delivered' = Delivered(l, Tail(queue[l]))
            /\ owner' = owner
  <2>1. cache' \in Seq(Region) /\ known' \in [Caller -> Region \cup {None}]
    <3>1. PICK i \in DOMAIN cache : cache' = Touched(i) /\ known' = [known EXCEPT ![c] = cache[i]]
      BY <1>13
    <3>2. cache \in Seq(Region) /\ known \in [Caller -> Region \cup {None}] /\ cache[i] \in Region
      BY <1>1 DEF TypeInv
    <3>. QED
      BY <3>1, <3>2, TouchedIs
  <2>2. flights' \in [Root -> Lock \cup {None}] /\ delivered' \subseteq Lock
    BY <1>1, <1>3, <1>13 DEF TypeInv, Forgotten, Delivered
  <2>3. TypeInv'
    BY <1>1, <1>5, <1>10, <1>13, <2>1, <2>2 DEF TypeInv
  <2>4. /\ pc'[c] = "idle" /\ call'[c] = None
        /\ \A d \in Caller : d # c => pc'[d] = pc[d] /\ call'[d] = call[d]
    BY <1>1, <1>13 DEF TypeInv
  <2>5. CallInv'
    BY <1>1, <1>5, <1>9, <1>13, <2>4 DEF CallInv
  <2>6. LockInv'
    <3>1. \A k \in Lock : owner[k] # c /\ (build[k] # None => build[k].caller # c)
      BY <1>1, <1>2, <1>3, NoneAssumption DEF LockInv
    <3>2. \A k \in Lock : build[k] # None => build[k].caller \in Caller \cup {None}
      BY <1>1 DEF TypeInv, Build
    <3>. QED
      BY <1>1, <1>5, <1>13, <2>4, <3>1, <3>2 DEF LockInv
  <2>. QED
    BY <2>3, <2>5, <2>6 DEF Shape
<1>. QED
  BY <1>6, <1>12, <1>13

LEMMA ShapeTakeRegionPermit ==
  ASSUME Shape, NEW c \in Caller, TakeRegionPermit(c)
  PROVE  Shape'
<1>1. TypeInv /\ CallInv /\ LockInv
  BY DEF Shape
<1>2. /\ pc[c] = "permit" /\ permits > 0 /\ permits' = permits - 1
      /\ pc' = [pc EXCEPT ![c] = "generation"]
      /\ UNCHANGED <<log, cache, retained, flights, queue, owner, delivered, build, failures, call, known>>
  BY DEF TakeRegionPermit, world, caching, flying
<1>3. pc'[c] = "generation" /\ \A d \in Caller : d # c => pc'[d] = pc[d]
  BY <1>1, <1>2 DEF TypeInv
<1>4. TypeInv'
  BY <1>1, <1>2 DEF TypeInv
<1>5. CallInv'
  BY <1>1, <1>2, <1>3 DEF CallInv
<1>6. LockInv'
  <2>1. \A l \in Lock : build[l] # None => build[l].caller \in Caller \cup {None}
    BY <1>1 DEF TypeInv, Build
  <2>. QED
    BY <1>1, <1>2, <1>3, <2>1 DEF LockInv
<1>. QED
  BY <1>4, <1>5, <1>6 DEF Shape

LEMMA ShapeSpawn ==
  ASSUME Shape, NEW c \in Caller, Spawn(c)
  PROVE  Shape'
<1>. DEFINE l == call[c].lock
            new == [root |-> call[c].root, caller |-> c, phase |-> "start",
                    attempt |-> 1, region |-> None]
<1>1. TypeInv /\ CallInv /\ LockInv
  BY DEF Shape
<1>2. /\ pc[c] = "generation"
      /\ owner' = [owner EXCEPT ![l] = "task"] /\ build' = [build EXCEPT ![l] = new]
      /\ pc' = [pc EXCEPT ![c] = "building"]
      /\ UNCHANGED <<log, cache, retained, flights, queue, delivered, permits, failures, call, known>>
  BY DEF Spawn, world, caching
<1>3. /\ call[c] \in Call /\ call[c].root \in Root /\ call[c] # None /\ l \in Lock
      /\ owner[l] = c
  BY <1>1, <1>2, InsideIs DEF CallInv
<1>4. new \in Build /\ new # None
  <2>1. new \in Build
    BY <1>3 DEF Build
  <2>. QED
    BY <2>1, NoneAssumption
<1>5. /\ new.caller = c /\ new.region = None /\ new.phase = "start" /\ new.root = call[c].root
  OBVIOUS
<1>. HIDE DEF l, new
<1>6. TypeInv'
  BY <1>1, <1>2, <1>3, <1>4 DEF TypeInv
<1>7. /\ pc'[c] = "building" /\ \A d \in Caller : d # c => pc'[d] = pc[d]
      /\ owner'[l] = "task" /\ build'[l] = new
      /\ \A k \in Lock : k # l => owner'[k] = owner[k] /\ build'[k] = build[k]
  BY <1>1, <1>2, <1>3 DEF TypeInv
<1>8. c # "task" /\ "task" \notin Caller /\ build[l] = None
  BY <1>1, <1>3, NoneAssumption DEF LockInv
<1>9. CallInv'
  <2>1. \A d \in Caller : d # c /\ owner[call[d].lock] = d => call[d].lock # l
    BY <1>3
  <2>2. \A d \in Caller : build[call[d].lock] # None => call[d].lock # l
    BY <1>8
  <2>. QED
    BY <1>1, <1>2, <1>3, <1>4, <1>5, <1>7, <2>1, <2>2 DEF CallInv, l
<1>10. LockInv'
  <2>1. \A k \in Lock : build[k] # None => build[k].caller # c /\ build[k].caller \in Caller \cup {None}
    BY <1>1, <1>2, <1>3, NoneAssumption DEF LockInv, TypeInv, Build
  <2>2. \A k \in Lock : k # l => owner[k] # c
    BY <1>1, <1>3 DEF LockInv, l
  <2>. QED
    BY <1>1, <1>2, <1>3, <1>4, <1>5, <1>7, <1>8, <2>1, <2>2 DEF LockInv, l
<1>. QED
  BY <1>6, <1>9, <1>10 DEF Shape

LEMMA ShapeCancel ==
  ASSUME Shape, NEW c \in Caller, Cancel(c)
  PROVE  Shape'
<1>. DEFINE r == call[c].root
            l == call[c].lock
<1>1. TypeInv /\ CallInv /\ LockInv
  BY DEF Shape
<1>2. /\ pc' = [pc EXCEPT ![c] = "idle"] /\ call' = [call EXCEPT ![c] = None]
      /\ UNCHANGED <<log, cache, retained, known>>
  BY DEF Cancel, Return, world, caching
<1>3. /\ pc'[c] = "idle" /\ call'[c] = None
      /\ \A d \in Caller : d # c => pc'[d] = pc[d] /\ call'[d] = call[d]
  BY <1>1, <1>2 DEF TypeInv
<1>4. pc[c] \in {"waiting", "permit", "generation", "building"}
  BY DEF Cancel
<1>5. call[c] \in Call /\ r \in Root /\ call[c] # None /\ l \in Lock
  BY <1>1, <1>4, InsideIs DEF CallInv
<1>6. \A k \in Lock : build[k] # None => build[k].caller \in Caller \cup {None}
  BY <1>1 DEF TypeInv, Build
<1>7. "task" \notin Caller /\ None \notin Caller /\ "task" # None
  BY NoneAssumption
<1>8. CASE pc[c] = "waiting"
  <2>1. PICK i \in DOMAIN queue[l] :
          queue[l][i] = c /\ queue' = [queue EXCEPT ![l] = RemoveAt(@, i)]
    BY <1>8 DEF Cancel
  <2>2. /\ UNCHANGED <<owner, build, permits, failures>>
        /\ flights' \in {flights, Forgotten(r, l)} /\ delivered' \in {delivered, delivered \ {l}}
    BY <1>8 DEF Cancel, building
  <2>. HIDE DEF r, l
  <2>3. queue[l] \in Seq(Caller) /\ queue' = [queue EXCEPT ![l] = RemoveAt(queue[l], i)]
    BY <1>1, <1>5, <2>1 DEF TypeInv
  <2>4. /\ RemoveAt(queue[l], i) \in Seq(Caller)
        /\ \A m \in DOMAIN queue[l] : queue[l][m] # c =>
             \E j \in DOMAIN RemoveAt(queue[l], i) : RemoveAt(queue[l], i)[j] = queue[l][m]
    <3>. DEFINE q == queue[l]
    <3>1. q \in Seq(Caller) /\ i \in DOMAIN q /\ q[i] = c
      BY <2>1, <2>3
    <3>. HIDE DEF q
    <3>2. /\ RemoveAt(q, i) \in Seq(Caller)
          /\ \A m \in DOMAIN q : m # i =>
               \E j \in DOMAIN RemoveAt(q, i) : RemoveAt(q, i)[j] = q[m]
      BY <3>1, RemoveAtIs
    <3>. QED
      BY <3>1, <3>2 DEF q
  <2>5. \A d \in Caller : d # c /\ pc[d] = "waiting" =>
          \E j \in DOMAIN queue'[call[d].lock] : queue'[call[d].lock][j] = d
    BY <1>5, <2>3, <2>4, WaitersStay
  <2>6. TypeInv'
    <3>1. queue' \in [Lock -> Seq(Caller)]
      BY <1>1, <1>5, <2>3, <2>4 DEF TypeInv
    <3>2. flights' \in [Root -> Lock \cup {None}]
      BY <1>1, <2>2 DEF TypeInv, Forgotten
    <3>. QED
      BY <1>1, <1>2, <2>2, <3>1, <3>2 DEF TypeInv
  <2>7. CallInv'
    BY <1>1, <1>3, <2>2, <2>5 DEF CallInv
  <2>8. LockInv'
    <3>1. \A k \in Lock : owner[k] # c /\ (build[k] # None => build[k].caller # c)
      BY <1>1, <1>5, <1>7, <1>8 DEF LockInv
    <3>. QED
      BY <1>1, <1>3, <1>6, <1>7, <2>2, <3>1 DEF LockInv
  <2>. QED
    BY <2>6, <2>7, <2>8 DEF Shape
<1>9. CASE pc[c] = "building"
  <2>1. build' = [build EXCEPT ![l].caller = None]
        /\ UNCHANGED <<flights, queue, owner, delivered, permits, failures>>
    BY <1>9 DEF Cancel, flying
  <2>2. build[l] # None /\ build[l].caller = c /\ build[l] \in Build
    BY <1>1, <1>5, <1>9 DEF CallInv, TypeInv
  <2>. DEFINE b == [build[l] EXCEPT !.caller = None]
  <2>3. /\ b \in Build /\ b # None /\ b.caller = None /\ b.root = build[l].root
        /\ b.region = build[l].region /\ b.phase = build[l].phase
    <3>1. b \in Build
      BY <2>2 DEF Build
    <3>. QED
      BY <2>2, <3>1, NoneAssumption DEF Build
  <2>4. build' = [build EXCEPT ![l] = b]
    BY <1>1, <1>5, <2>1 DEF TypeInv
  <2>. HIDE DEF b, r, l
  <2>5. build'[l] = b /\ \A k \in Lock : k # l => build'[k] = build[k]
    BY <1>1, <1>5, <2>4 DEF TypeInv
  <2>6. TypeInv'
    BY <1>1, <1>2, <2>1, <2>3, <2>4 DEF TypeInv
  <2>7. CallInv'
    <3>1. \A d \in Caller : d # c /\ build[call[d].lock].caller = d => call[d].lock # l
      BY <2>2
    <3>. QED
      BY <1>1, <1>3, <2>1, <2>3, <2>5, <3>1 DEF CallInv
  <2>8. LockInv'
    <3>1. \A k \in Lock : owner[k] # c
      BY <1>1, <1>5, <1>7, <1>9 DEF LockInv
    <3>2. \A k \in Lock : k # l /\ build[k] # None => build[k].caller # c
      BY <1>1, <1>5, <1>7 DEF LockInv, l
    <3>. QED
      BY <1>1, <1>3, <1>6, <1>7, <2>1, <2>2, <2>3, <2>5, <3>1, <3>2 DEF LockInv
  <2>. QED
    BY <2>6, <2>7, <2>8 DEF Shape
<1>10. CASE pc[c] \in {"permit", "generation"}
  <2>1. /\ owner' = [owner EXCEPT ![l] = None] /\ flights' = LetGo(r, l)
        /\ delivered' \in {delivered, delivered \ {l}} /\ permits' \in {permits, permits + 1}
        /\ UNCHANGED <<queue, build, failures>>
    BY <1>10 DEF Cancel
  <2>2. owner[l] = c
    BY <1>1, <1>10 DEF CallInv
  <2>. HIDE DEF r, l
  <2>3. owner'[l] = None /\ \A k \in Lock : k # l => owner'[k] = owner[k]
    BY <1>1, <1>5, <2>1 DEF TypeInv
  <2>4. TypeInv'
    <3>1. flights' \in [Root -> Lock \cup {None}]
      BY <1>1, <2>1 DEF TypeInv, LetGo, Forgotten
    <3>2. delivered' \subseteq Lock /\ permits' \in Nat
      BY <1>1, <2>1 DEF TypeInv
    <3>. QED
      BY <1>1, <1>2, <2>1, <3>1, <3>2 DEF TypeInv
  <2>5. CallInv'
    <3>1. \A d \in Caller : d # c /\ owner[call[d].lock] = d => call[d].lock # l
      BY <2>2
    <3>. QED
      BY <1>1, <1>3, <2>1, <2>3, <3>1 DEF CallInv
  <2>6. LockInv'
    <3>1. \A k \in Lock : (k # l => owner[k] # c) /\ (build[k] # None => build[k].caller # c)
      BY <1>1, <1>5, <1>7, <1>10 DEF LockInv, l
    <3>2. build[l] = None
      BY <1>1, <1>5, <1>7, <2>2 DEF LockInv
    <3>. QED
      BY <1>1, <1>3, <1>6, <1>7, <2>1, <2>2, <2>3, <3>1, <3>2 DEF LockInv
  <2>. QED
    BY <2>4, <2>5, <2>6 DEF Shape
<1>. QED
  BY <1>4, <1>8, <1>9, <1>10

\* A step of the build of lock l makes it b.
BuildStep(l, b) ==
  /\ build[l] # None /\ build[l] \in Build /\ build[l].root \in Root
  /\ b \in Build /\ b # None
  /\ build' = [build EXCEPT ![l] = b]
  /\ b.caller = build[l].caller /\ b.root = build[l].root
  /\ UNCHANGED <<log, flights, queue, owner, delivered, permits, pc, call, known>>

\* A region is in the hands of the build from the copy to its end.
Held(b) ==
  /\ b.region # None <=> b.phase \in {"built", "prepared", "published"}
  /\ b.region # None => b.region \in Region /\ b.region.root = b.root

\* The copy of the edits is a region (prepare_terrain_region).
LEMMA SnapshotIs ==
  ASSUME Shape, NEW l \in Lock, Snapshot(l)
  PROVE  \E b : /\ BuildStep(l, b) /\ Held(b) /\ UNCHANGED caching
                /\ b.phase = "built"
                /\ b.region = [root |-> b.root, revision |-> Revision(b.root),
                     pages |-> [p \in PagesOf[b.root] |->
                       [revision |-> IF b.root \in Coverage THEN None ELSE Revision(b.root),
                        content |-> ContentNow(b.root, p)]]]
<1>. DEFINE r == build[l].root
            pages == [p \in PagesOf[r] |->
                        [revision |-> IF r \in Coverage THEN None ELSE Revision(r),
                         content |-> ContentNow(r, p)]]
            region == [root |-> r, revision |-> Revision(r), pages |-> pages]
            b == [build[l] EXCEPT !.region = region, !.phase = "built"]
<1>1. TypeInv /\ build[l] # None /\ UNCHANGED <<log, caching, flying, permits, pc, call, known>>
  BY DEF Shape, Snapshot, world
<1>2. build[l] \in Build /\ r \in Root
  BY <1>1 DEF TypeInv, Build
<1>3. build' = [build EXCEPT ![l] = b]
  BY <1>1 DEF Snapshot, TypeInv
<1>4. pages \in [PagesOf[r] -> Node]
  <2>1. ASSUME NEW p PROVE ContentNow(r, p) \in [commit : Nat, exact : BOOLEAN]
    <3>1. LastCommit(Footprint[p], Len(log)) \in Nat
      BY <1>1, LastCommitRange DEF TypeInv
    <3>. QED
      BY <3>1 DEF ContentNow
  <2>2. Revision(r) \in Nat
    BY <1>1, RevisionType DEF TypeInv
  <2>. QED
    BY <2>1, <2>2 DEF Node
<1>. HIDE DEF pages
<1>5. region \in Region /\ Revision(r) \in Nat
  <2>1. Revision(r) \in Nat
    BY <1>1, RevisionType DEF TypeInv
  <2>2. pages \in UNION {[PagesOf[k] -> Node] : k \in Root}
    BY <1>2, <1>4
  <2>. QED
    BY <1>2, <2>1, <2>2 DEF Region
<1>6. region.root = r
  OBVIOUS
<1>. HIDE DEF region
<1>7. /\ b \in Build /\ b.region = region /\ b.phase = "built" /\ b.root = r
      /\ b.caller = build[l].caller
  BY <1>2, <1>5 DEF Build
<1>8. b # None /\ region # None
  BY <1>5, <1>7, NoneAssumption
<1>9. BuildStep(l, b) /\ Held(b)
  BY <1>1, <1>2, <1>3, <1>5, <1>6, <1>7, <1>8 DEF BuildStep, Held, flying
<1>. QED
  BY <1>1, <1>7, <1>9 DEF region, pages

\* Reading a page's revision changes that revision (prepare_terrain_region).
LEMMA ReadPageRevisionIs ==
  ASSUME Shape, NEW l \in Lock, ReadPageRevision(l)
  PROVE  \E b : /\ BuildStep(l, b) /\ Held(b) /\ UNCHANGED caching
                /\ b.phase = "built" /\ build[l].phase = "built"
                /\ b.region.revision = build[l].region.revision
                /\ \E p : b.region.pages =
                            [build[l].region.pages EXCEPT ![p].revision = PageRevision(p)]
<1>. DEFINE old == build[l].region
            p == CHOOSE p \in Unread(l) : TRUE
            pages == [old.pages EXCEPT ![p].revision = PageRevision(p)]
            region == [old EXCEPT !.pages = pages]
            b == [build[l] EXCEPT !.region = region]
<1>1. /\ TypeInv /\ LockInv /\ build[l] # None /\ build[l].phase = "built"
      /\ UNCHANGED <<log, caching, flying, permits, pc, call, known>>
  BY DEF Shape, ReadPageRevision, world
<1>2. build[l] \in Build /\ build[l].root \in Root
  BY <1>1 DEF TypeInv, Build
<1>3. old \in Region /\ old.root = build[l].root
  <2>1. old # None /\ old.root = build[l].root
    BY <1>1 DEF LockInv
  <2>. QED
    BY <1>2, <2>1 DEF Build
<1>4. build' = [build EXCEPT ![l] = b]
  BY <1>1 DEF ReadPageRevision, TypeInv
<1>. HIDE DEF p
<1>5. pages \in UNION {[PagesOf[k] -> Node] : k \in Root}
  <2>1. PICK k \in Root : old.pages \in [PagesOf[k] -> Node]
    BY <1>3 DEF Region
  <2>2. PageRevision(p) \in Nat
    BY <1>1, RevisionType DEF TypeInv
  <2>3. ASSUME NEW n \in Node PROVE [n EXCEPT !.revision = PageRevision(p)] \in Node
    BY <2>2 DEF Node
  <2>4. pages \in [PagesOf[k] -> Node]
    BY <2>1, <2>3
  <2>. QED
    BY <2>4
<1>. HIDE DEF pages
<1>6. /\ region \in Region /\ region.root = build[l].root /\ region.revision = old.revision
      /\ region.pages = pages
  BY <1>3, <1>5 DEF Region
<1>. HIDE DEF region, old
<1>7. /\ b \in Build /\ b.region = region /\ b.phase = "built" /\ b.root = build[l].root
      /\ b.caller = build[l].caller
  BY <1>1, <1>2, <1>6 DEF Build
<1>8. b # None /\ region # None
  BY <1>6, <1>7, NoneAssumption
<1>9. BuildStep(l, b) /\ Held(b)
  BY <1>1, <1>2, <1>4, <1>6, <1>7, <1>8 DEF BuildStep, Held, flying
<1>. HIDE DEF b
<1>10. b.region.revision = build[l].region.revision
  BY <1>6, <1>7 DEF old
<1>11. \E x : b.region.pages = [build[l].region.pages EXCEPT ![x].revision = PageRevision(x)]
  <2>1. b.region.pages = [build[l].region.pages EXCEPT ![p].revision = PageRevision(p)]
    BY <1>6, <1>7 DEF pages, old
  <2>. QED
    BY <2>1
<1>. QED
  BY <1>1, <1>7, <1>9, <1>10, <1>11

\* The check of the revision keeps the region or drops it (prepare_terrain_region).
LEMMA VerifyIs ==
  ASSUME Shape, NEW l \in Lock, Verify(l)
  PROVE  \E b : /\ BuildStep(l, b) /\ Held(b) /\ UNCHANGED caching
                /\ build[l].phase = "built" /\ Unread(l) = {}
                /\ \/ b.phase = "prepared" /\ b.region = build[l].region /\ Unchanged(l)
                   \/ b.phase \in {"start", "failed"} /\ b.region = None
<1>. DEFINE kept == [build[l] EXCEPT !.phase = "prepared"]
            again == [build[l] EXCEPT !.phase = "start", !.region = None,
                                      !.attempt = @ + 1]
            failed == [build[l] EXCEPT !.phase = "failed", !.region = None]
            b == IF Unchanged(l) THEN kept
                 ELSE IF build[l].attempt < Attempts THEN again ELSE failed
<1>1. /\ TypeInv /\ LockInv /\ build[l] # None /\ build[l].phase = "built" /\ Unread(l) = {}
      /\ UNCHANGED <<log, caching, flying, permits, pc, call, known>>
  BY DEF Shape, Verify, world
<1>2. build[l] \in Build /\ build[l].root \in Root
  BY <1>1 DEF TypeInv, Build
<1>3. build[l].region \in Region /\ build[l].region.root = build[l].root
  <2>1. build[l].region # None /\ build[l].region.root = build[l].root
    BY <1>1 DEF LockInv
  <2>. QED
    BY <1>2, <2>1 DEF Build
<1>4. build' = [build EXCEPT ![l] = b]
  BY <1>1 DEF Verify, TypeInv
<1>5. /\ kept \in Build /\ kept.phase = "prepared" /\ kept.region = build[l].region
      /\ kept.root = build[l].root /\ kept.caller = build[l].caller
  BY <1>2 DEF Build
<1>6. /\ again \in Build /\ again.phase = "start" /\ again.region = None
      /\ again.root = build[l].root /\ again.caller = build[l].caller
  <2>. DEFINE first == [build[l] EXCEPT !.phase = "start", !.region = None]
              more == build[l].attempt + 1
  <2>1. /\ first \in Build /\ first.phase = "start" /\ first.region = None
        /\ first.root = build[l].root /\ first.caller = build[l].caller
    BY <1>2 DEF Build
  <2>2. more \in Nat
    BY <1>2 DEF Build
  <2>3. again = [first EXCEPT !.attempt = more]
    BY <1>2 DEF Build
  <2>. HIDE DEF first, more, again
  <2>. QED
    BY <2>1, <2>2, <2>3 DEF Build
<1>7. /\ failed \in Build /\ failed.phase = "failed" /\ failed.region = None
      /\ failed.root = build[l].root /\ failed.caller = build[l].caller
  BY <1>2 DEF Build
<1>. HIDE DEF kept, again, failed
<1>8. /\ b \in Build /\ b.root = build[l].root /\ b.caller = build[l].caller
      /\ \/ b.phase = "prepared" /\ b.region = build[l].region /\ Unchanged(l)
         \/ b.phase \in {"start", "failed"} /\ b.region = None
  BY <1>5, <1>6, <1>7
<1>. HIDE DEF b
<1>9. b # None /\ build[l].region # None
  BY <1>3, <1>8, NoneAssumption
<1>10. BuildStep(l, b) /\ Held(b)
  BY <1>1, <1>2, <1>3, <1>4, <1>8, <1>9 DEF BuildStep, Held, flying
<1>. QED
  BY <1>1, <1>8, <1>10

\* A failing build drops its region.
LEMMA FailIs ==
  ASSUME Shape, NEW l \in Lock, Fail(l)
  PROVE  \E b : /\ BuildStep(l, b) /\ Held(b) /\ UNCHANGED caching
                /\ b.phase = "failed" /\ b.region = None
<1>. DEFINE b == [build[l] EXCEPT !.phase = "failed", !.region = None]
<1>1. TypeInv /\ build[l] # None /\ UNCHANGED <<log, caching, flying, permits, pc, call, known>>
  BY DEF Shape, Fail, world
<1>2. build[l] \in Build /\ build[l].root \in Root
  BY <1>1 DEF TypeInv, Build
<1>3. build' = [build EXCEPT ![l] = b]
  BY <1>1 DEF Fail, TypeInv
<1>4. /\ b \in Build /\ b.phase = "failed" /\ b.region = None
      /\ b.root = build[l].root /\ b.caller = build[l].caller
  BY <1>2 DEF Build
<1>. HIDE DEF b
<1>5. b # None
  BY <1>4, NoneAssumption
<1>6. BuildStep(l, b) /\ Held(b)
  BY <1>1, <1>2, <1>3, <1>4, <1>5 DEF BuildStep, Held, flying
<1>. QED
  BY <1>1, <1>4, <1>6

\* A prepared region is inserted as it is (RegionCache::insert).
LEMMA PublishIs ==
  ASSUME Shape, NEW l \in Lock, Publish(l)
  PROVE  \E b : /\ BuildStep(l, b) /\ Held(b) /\ Insert(b.region) /\ b.region \in Region
                /\ build[l].phase = "prepared"
                /\ b.phase = "published" /\ b.region = build[l].region
<1>. DEFINE b == [build[l] EXCEPT !.phase = "published"]
<1>1. /\ TypeInv /\ LockInv /\ build[l] # None /\ build[l].phase = "prepared"
      /\ Insert(build[l].region)
      /\ UNCHANGED <<log, flying, permits, pc, call, known>>
  BY DEF Shape, Publish, world
<1>2. build[l] \in Build /\ build[l].root \in Root
  BY <1>1 DEF TypeInv, Build
<1>3. build[l].region \in Region /\ build[l].region.root = build[l].root
  <2>1. build[l].region # None /\ build[l].region.root = build[l].root
    BY <1>1 DEF LockInv
  <2>. QED
    BY <1>2, <2>1 DEF Build
<1>4. build' = [build EXCEPT ![l] = b]
  BY <1>1 DEF Publish, TypeInv
<1>5. /\ b \in Build /\ b.phase = "published" /\ b.region = build[l].region
      /\ b.root = build[l].root /\ b.caller = build[l].caller
  BY <1>2 DEF Build
<1>. HIDE DEF b
<1>6. b # None /\ build[l].region # None
  BY <1>3, <1>5, NoneAssumption
<1>7. BuildStep(l, b) /\ Held(b)
  BY <1>1, <1>2, <1>3, <1>4, <1>5, <1>6 DEF BuildStep, Held, flying
<1>8. Insert(b.region)
  BY <1>1, <1>5
<1>. QED
  BY <1>1, <1>3, <1>5, <1>7, <1>8

\* The steps of a build leave everybody where they are.
LEMMA ShapeBuild ==
  ASSUME Shape, NEW l \in Lock, NEW b, BuildStep(l, b), Held(b),
         cache' \in Seq(Region), retained' \in Int
  PROVE  Shape'
<1>1. TypeInv /\ CallInv /\ LockInv
  BY DEF Shape
<1>2. /\ build[l] # None /\ build[l] \in Build
      /\ b \in Build /\ b # None /\ build' = [build EXCEPT ![l] = b]
      /\ b.caller = build[l].caller /\ b.root = build[l].root
      /\ UNCHANGED <<log, flights, queue, owner, delivered, permits, pc, call, known>>
  BY DEF BuildStep
<1>3. build'[l] = b /\ \A k \in Lock : k # l => build'[k] = build[k]
  BY <1>1, <1>2 DEF TypeInv
<1>4. TypeInv'
  BY <1>1, <1>2 DEF TypeInv
<1>5. CallInv'
  <2>1. \A d \in Caller : pc[d] = "building" =>
          /\ call[d].lock \in Lock
          /\ build'[call[d].lock] # None /\ build'[call[d].lock].caller = d
    BY <1>1, <1>2, <1>3 DEF CallInv
  <2>. QED
    BY <1>1, <1>2, <2>1 DEF CallInv
<1>6. LockInv'
  BY <1>1, <1>2, <1>3 DEF LockInv, Held
<1>. QED
  BY <1>4, <1>5, <1>6 DEF Shape

\* The end of a build frees its lock and its caller.
LEMMA ShapeEnd ==
  ASSUME Shape, NEW l \in Lock, build[l] # None, End(l),
         flights' \in {flights, Forgotten(build[l].root, l)}, delivered' \subseteq Lock,
         known' \in [Caller -> Region \cup {None}],
         \/ build[l].caller = None /\ UNCHANGED <<pc, call>>
         \/ build[l].caller # None /\ Return(build[l].caller)
  PROVE  Shape'
<1>1. TypeInv /\ CallInv /\ LockInv
  BY DEF Shape
<1>2. /\ owner' = [owner EXCEPT ![l] = None] /\ build' = [build EXCEPT ![l] = None]
      /\ permits' = permits + 1
      /\ UNCHANGED <<log, cache, retained, queue, failures>>
  BY DEF End, world, caching
<1>3. \A k \in Lock : build[k] # None => build[k].caller \in Caller \cup {None}
  BY <1>1 DEF TypeInv, Build
<1>4. "task" \notin Caller /\ None \notin Caller /\ "task" # None
  BY NoneAssumption
<1>5. /\ owner[l] = "task" /\ owner'[l] = None /\ build'[l] = None
      /\ \A k \in Lock : k # l => owner'[k] = owner[k] /\ build'[k] = build[k]
  BY <1>1, <1>2 DEF TypeInv, LockInv
<1>6. \A d \in Caller : \/ pc'[d] = pc[d] /\ call'[d] = call[d] /\ d # build[l].caller
                        \/ pc'[d] = "idle" /\ call'[d] = None /\ d = build[l].caller
  BY <1>1, <1>3, <1>4 DEF TypeInv, Return
<1>7. TypeInv'
  <2>1. /\ pc' \in [Caller -> {"idle", "join", "waiting", "permit", "generation", "building"}]
        /\ call' \in [Caller -> Call \cup {None}]
    BY <1>1, <1>3 DEF TypeInv, Return
  <2>2. flights' \in [Root -> Lock \cup {None}]
    BY <1>1 DEF TypeInv, Forgotten
  <2>3. /\ owner' \in [Lock -> Caller \cup {None, "task"}] /\ build' \in [Lock -> Build \cup {None}]
        /\ permits' \in Nat
    BY <1>1, <1>2 DEF TypeInv
  <2>. QED
    BY <1>1, <1>2, <2>1, <2>2, <2>3 DEF TypeInv
<1>8. CallInv'
  <2>1. \A d \in Caller : owner[call[d].lock] = d => call[d].lock # l
    BY <1>4, <1>5
  <2>2. \A d \in Caller : pc'[d] # "idle" /\ build[call[d].lock].caller = d => call[d].lock # l
    BY <1>6
  <2>. QED
    BY <1>1, <1>2, <1>5, <1>6, <2>1, <2>2 DEF CallInv
<1>9. LockInv'
  <2>1. \A k \in Lock : k # l => /\ build[k] # None /\ build[l].caller # None => build[k].caller # build[l].caller
                                 /\ owner[k] # build[l].caller \/ build[l].caller = None
    BY <1>1, <1>3, <1>4 DEF LockInv
  <2>. QED
    BY <1>1, <1>3, <1>4, <1>5, <1>6, <2>1 DEF LockInv
<1>. QED
  BY <1>7, <1>8, <1>9 DEF Shape

\* What a finished build hands to its caller is its region.
LEMMA FinishIs ==
  ASSUME Shape, NEW l \in Lock, Finish(l)
  PROVE  /\ build[l] # None /\ build[l].phase = "published" /\ build[l].region \in Region
         /\ build[l].region # None /\ End(l)
         /\ flights' = Forgotten(build[l].root, l) /\ delivered' = Delivered(l, queue[l])
         /\ \/ build[l].caller = None /\ UNCHANGED <<pc, call, known>>
            \/ /\ build[l].caller \in Caller /\ Return(build[l].caller)
               /\ known' = [known EXCEPT ![build[l].caller] = build[l].region]
<1>1. TypeInv /\ LockInv /\ build[l] # None /\ build[l].phase = "published"
  BY DEF Shape, Finish
<1>2. build[l] \in Build
  BY <1>1 DEF TypeInv
<1>3. build[l].region # None
  BY <1>1 DEF LockInv
<1>. QED
  BY <1>1, <1>2, <1>3 DEF Finish, Deliver, Build

LEMMA ShapeFinish ==
  ASSUME Shape, NEW l \in Lock, Finish(l)
  PROVE  Shape'
<1>1. known' \in [Caller -> Region \cup {None}] /\ delivered' \subseteq Lock
  <2>1. known \in [Caller -> Region \cup {None}] /\ delivered \subseteq Lock
    BY DEF Shape, TypeInv
  <2>2. delivered' \subseteq Lock
    BY <2>1, FinishIs DEF Delivered
  <2>3. known' = known \/ known' = [known EXCEPT ![build[l].caller] = build[l].region]
    BY FinishIs
  <2>4. build[l].region \in Region
    BY FinishIs
  <2>. QED
    BY <2>1, <2>2, <2>3, <2>4
<1>2. \/ build[l].caller = None /\ UNCHANGED <<pc, call>>
      \/ build[l].caller # None /\ Return(build[l].caller)
  BY FinishIs, NoneAssumption
<1>. QED
  BY <1>1, <1>2, FinishIs, ShapeEnd

LEMMA ShapeAbandon ==
  ASSUME Shape, NEW l \in Lock, Abandon(l)
  PROVE  Shape'
<1>1. /\ build[l] # None /\ End(l) /\ UNCHANGED known
      /\ \/ build[l].caller = None /\ UNCHANGED <<pc, call>>
         \/ build[l].caller # None /\ Return(build[l].caller)
  BY DEF Abandon
<1>2. flights' \in {flights, Forgotten(build[l].root, l)} /\ delivered' \subseteq Lock
  BY DEF Abandon, Abandoned, Shape, TypeInv
<1>3. known' \in [Caller -> Region \cup {None}]
  BY <1>1 DEF Shape, TypeInv
<1>. QED
  BY <1>1, <1>2, <1>3, ShapeEnd

LEMMA ShapeWork ==
  ASSUME Shape, NEW l \in Lock, Work(l) \/ Fail(l)
  PROVE  Shape'
<1>1. ASSUME NEW b, BuildStep(l, b), Held(b), UNCHANGED caching
      PROVE  Shape'
  <2>1. cache' \in Seq(Region) /\ retained' \in Int
    BY <1>1 DEF Shape, TypeInv, caching
  <2>. QED
    BY <1>1, <2>1, ShapeBuild
<1>2. CASE Snapshot(l)
  BY <1>1, <1>2, SnapshotIs
<1>3. CASE ReadPageRevision(l)
  BY <1>1, <1>3, ReadPageRevisionIs
<1>4. CASE Verify(l)
  BY <1>1, <1>4, VerifyIs
<1>5. CASE Fail(l)
  BY <1>1, <1>5, FailIs
<1>6. CASE Publish(l)
  <2>1. PICK b : BuildStep(l, b) /\ Held(b) /\ Insert(b.region) /\ b.region \in Region
    BY <1>6, PublishIs
  <2>2. cache' \in Seq(Region) /\ retained' \in Int
    BY <2>1, InsertIs DEF Shape, TypeInv
  <2>. QED
    BY <2>1, <2>2, ShapeBuild
<1>7. CASE Finish(l)
  BY <1>7, ShapeFinish
<1>8. CASE Abandon(l)
  BY <1>8, ShapeAbandon
<1>. QED
  BY <1>2, <1>3, <1>4, <1>5, <1>6, <1>7, <1>8 DEF Work

LEMMA ShapeNext ==
  ASSUME Shape, [Next]_vars
  PROVE  Shape'
<1>1. CASE UNCHANGED vars
  BY <1>1 DEF vars, Shape, TypeInv, CallInv, LockInv
<1>2. ASSUME NEW columns \in Edit, Commit(columns) PROVE Shape'
  BY <1>2, ShapeCommit
<1>3. ASSUME NEW c \in Caller, NEW r \in Root, Ask(c, r) PROVE Shape'
  BY <1>3, ShapeAsk
<1>4. ASSUME NEW c \in Caller, Proceed(c) \/ TakeRegionPermit(c) \/ Cancel(c) PROVE Shape'
  BY <1>4, ShapeJoin, ShapeRecheck, ShapeSpawn, ShapeTakeRegionPermit, ShapeCancel DEF Proceed
<1>5. ASSUME NEW l \in Lock, Work(l) \/ Fail(l) PROVE Shape'
  BY <1>5, ShapeWork
<1>. QED
  BY <1>1, <1>2, <1>3, <1>4, <1>5 DEF Next

\* Every variable has its type: callers and locks are where their stages say,
\* and a build holds a region from the copy of the edits to its publication.
THEOREM TypeCorrect == Spec => []TypeInv
<1>1. Init => Shape
  BY ShapeInit
<1>2. Shape /\ [Next]_vars => Shape'
  BY ShapeNext
<1>3. Shape => TypeInv
  BY DEF Shape
<1>. QED
  BY <1>1, <1>2, <1>3, PTL DEF Spec
-----------------------------------------------------------------------------
(* Nobody waits for a lock that newcomers do not share.                    *)

\* A step that only touches the queue of lock l and its flight.
LEMMA DetachedOthers ==
  ASSUME Shape, NobodyIsDetached, NEW l \in Lock, NEW r,
         \A k \in Lock : k # l => queue'[k] = queue[k] /\ (k \in delivered => k \in delivered'),
         flights' \in {flights, Forgotten(r, l)},
         queue'[l] # <<>> => \/ l \in delivered'
                             \/ flights' = flights /\ \E s \in Root : flights[s] = l
  PROVE  NobodyIsDetached'
<1>1. \A s \in Root, k \in Lock : k # l /\ flights[s] = k => flights'[s] = k
  BY DEF Shape, TypeInv, Forgotten
<1>2. ASSUME NEW k \in Lock, queue'[k] # <<>>
      PROVE  k \in delivered' \/ \E s \in Root : flights'[s] = k
  <2>1. CASE k = l
    BY <1>2, <2>1
  <2>2. CASE k # l
    BY <1>1, <1>2, <2>2 DEF NobodyIsDetached
  <2>. QED
    BY <2>1, <2>2
<1>. QED
  BY <1>2 DEF NobodyIsDetached

LEMMA DetachedJoin ==
  ASSUME Shape, NobodyIsDetached, NEW c \in Caller, Join(c)
  PROVE  NobodyIsDetached'
<1>. DEFINE r == call[c].root
            l == IF flights[r] # None THEN flights[r]
                 ELSE CHOOSE k \in {k \in Lock : ~InUse(k)} : TRUE
<1>1. /\ flights' = [flights EXCEPT ![r] = l]
      /\ queue' = [queue EXCEPT ![l] = Append(@, c)] /\ delivered' = delivered
      /\ flights[r] # None \/ {k \in Lock : ~InUse(k)} # {}
  BY DEF Join
<1>2. r \in Root /\ l \in Lock
  <2>1. r \in Root
    BY InsideIs DEF Join
  <2>. QED
    BY <1>1, <2>1 DEF Shape, TypeInv
<1>3. flights[r] # None => l = flights[r]
  OBVIOUS
<1>. HIDE DEF r, l
<1>4. /\ flights'[r] = l
      /\ \A s \in Root : flights[s] \in Lock => flights'[s] = flights[s]
      /\ \A k \in Lock : k # l => queue'[k] = queue[k]
  BY <1>1, <1>2, <1>3, NoneAssumption DEF Shape, TypeInv
<1>5. ASSUME NEW k \in Lock, queue'[k] # <<>>
      PROVE  k \in delivered' \/ \E s \in Root : flights'[s] = k
  <2>1. CASE k = l
    BY <1>2, <1>4, <2>1
  <2>2. CASE k # l
    BY <1>1, <1>4, <1>5, <2>2 DEF NobodyIsDetached
  <2>. QED
    BY <2>1, <2>2
<1>. QED
  BY <1>5 DEF NobodyIsDetached

LEMMA DetachedRecheck ==
  ASSUME Shape, NobodyIsDetached, NEW c \in Caller, Recheck(c)
  PROVE  NobodyIsDetached'
<1>. DEFINE r == call[c].root
            l == call[c].lock
<1>1. /\ pc[c] = "waiting" /\ queue' = [queue EXCEPT ![l] = Tail(@)]
      /\ \/ UNCHANGED <<flights, delivered>>
         \/ flights' = Forgotten(r, l) /\ delivered' = Delivered(l, Tail(queue[l]))
  BY DEF Recheck
<1>2. l \in Lock /\ \E i \in DOMAIN queue[l] : queue[l][i] = c
  BY <1>1 DEF Shape, CallInv
<1>. HIDE DEF r, l
<1>3. /\ queue[l] # <<>> /\ queue'[l] = Tail(queue[l])
      /\ \A k \in Lock : k # l => queue'[k] = queue[k]
  BY <1>1, <1>2 DEF Shape, TypeInv
<1>4. l \in delivered \/ \E s \in Root : flights[s] = l
  BY <1>2, <1>3 DEF NobodyIsDetached
<1>5. \A k \in Lock : k # l /\ k \in delivered => k \in delivered'
  BY <1>1 DEF Delivered
<1>6. queue'[l] # <<>> => \/ l \in delivered'
                          \/ flights' = flights /\ \E s \in Root : flights[s] = l
  BY <1>1, <1>3, <1>4 DEF Delivered
<1>. QED
  BY <1>1, <1>2, <1>3, <1>5, <1>6, DetachedOthers

LEMMA DetachedCancel ==
  ASSUME Shape, NobodyIsDetached, NEW c \in Caller, Cancel(c)
  PROVE  NobodyIsDetached'
<1>. DEFINE r == call[c].root
            l == call[c].lock
<1>1. l \in Lock
  BY DEF Cancel, Shape, CallInv
<1>2. CASE pc[c] = "waiting"
  <2>1. /\ \E i \in DOMAIN queue[l] : queue[l][i] = c /\ queue' = [queue EXCEPT ![l] = RemoveAt(@, i)]
        /\ IF owner[l] = None /\ Len(queue[l]) = 1
           THEN flights' = Forgotten(r, l) /\ delivered' = delivered \ {l}
           ELSE UNCHANGED <<flights, delivered>>
    BY <1>2 DEF Cancel
  <2>. HIDE DEF r, l
  <2>2. PICK i \in DOMAIN queue[l] : queue' = [queue EXCEPT ![l] = RemoveAt(@, i)]
    BY <2>1
  <2>3. queue[l] \in Seq(Caller) /\ queue[l] # <<>>
    BY <1>1, <2>2 DEF Shape, TypeInv
  <2>4. queue'[l] = RemoveAt(queue[l], i) /\ \A k \in Lock : k # l => queue'[k] = queue[k]
    BY <1>1, <2>2 DEF Shape, TypeInv
  <2>5. Len(queue[l]) = 1 => queue'[l] = <<>>
    <3>1. RemoveAt(queue[l], i) \in Seq(Caller) /\ Len(RemoveAt(queue[l], i)) = Len(queue[l]) - 1
      BY <2>2, <2>3, RemoveAtIs
    <3>2. \A q \in Seq(Caller) : Len(q) = 0 => q = <<>>
      OBVIOUS
    <3>3. Len(queue[l]) = 1 => Len(queue[l]) - 1 = 0
      OBVIOUS
    <3>. QED
      BY <2>4, <3>1, <3>2, <3>3
  <2>6. l \in delivered \/ \E s \in Root : flights[s] = l
    BY <1>1, <2>3 DEF NobodyIsDetached
  <2>7. /\ \A k \in Lock : k # l /\ k \in delivered => k \in delivered'
        /\ flights' \in {flights, Forgotten(r, l)}
        /\ queue'[l] # <<>> => \/ l \in delivered'
                               \/ flights' = flights /\ \E s \in Root : flights[s] = l
    BY <2>1, <2>5, <2>6
  <2>. QED
    BY <1>1, <2>4, <2>7, DetachedOthers
<1>3. CASE pc[c] = "building"
  BY <1>3 DEF Cancel, flying, NobodyIsDetached
<1>4. CASE pc[c] \in {"permit", "generation"}
  <2>1. /\ queue' = queue /\ flights' = LetGo(r, l)
        /\ delivered' = IF queue[l] = <<>> THEN delivered \ {l} ELSE delivered
    BY <1>4 DEF Cancel
  <2>. HIDE DEF r, l
  <2>2. /\ \A k \in Lock : k # l => queue'[k] = queue[k] /\ (k \in delivered => k \in delivered')
        /\ flights' \in {flights, Forgotten(r, l)}
        /\ queue'[l] # <<>> => \/ l \in delivered'
                               \/ flights' = flights /\ \E s \in Root : flights[s] = l
    BY <1>1, <2>1 DEF LetGo, NobodyIsDetached
  <2>. QED
    BY <1>1, <2>2, DetachedOthers
<1>. QED
  BY <1>2, <1>3, <1>4 DEF Cancel

LEMMA DetachedWork ==
  ASSUME Shape, NobodyIsDetached, NEW l \in Lock, Work(l) \/ Fail(l)
  PROVE  NobodyIsDetached'
<1>1. CASE Snapshot(l) \/ ReadPageRevision(l) \/ Verify(l) \/ Fail(l) \/ Publish(l)
  BY <1>1 DEF Snapshot, ReadPageRevision, Verify, Fail, Publish, flying, NobodyIsDetached
<1>2. CASE Finish(l) \/ Abandon(l)
  <2>1. /\ queue' = queue /\ flights' \in {flights, Forgotten(build[l].root, l)}
        /\ \/ delivered' = Delivered(l, queue[l])
           \/ /\ flights' = Abandoned(build[l].root, l)
              /\ delivered' = IF queue[l] = <<>> THEN delivered \ {l} ELSE delivered
    BY <1>2 DEF Finish, Abandon, End, Abandoned
  <2>2. /\ \A k \in Lock : k # l => queue'[k] = queue[k] /\ (k \in delivered => k \in delivered')
        /\ queue'[l] # <<>> => \/ l \in delivered'
                               \/ flights' = flights /\ \E s \in Root : flights[s] = l
    BY <2>1 DEF Delivered, Abandoned, NobodyIsDetached
  <2>. QED
    BY <2>1, <2>2, DetachedOthers
<1>. QED
  BY <1>1, <1>2 DEF Work

\* Whoever waits for a flight's lock shares it with everybody who still asks for
\* the root, until the flight has delivered (abandon_flight, finish_flight).
THEOREM NobodyStaysDetached == Spec => []NobodyIsDetached
<1>1. Init => Shape /\ NobodyIsDetached
  BY ShapeInit DEF Init, NobodyIsDetached
<1>2. ASSUME Shape, NobodyIsDetached, [Next]_vars
      PROVE  NobodyIsDetached'
  <2>1. CASE UNCHANGED vars
    BY <1>2, <2>1 DEF vars, NobodyIsDetached
  <2>2. ASSUME NEW columns \in Edit, Commit(columns) PROVE NobodyIsDetached'
    BY <1>2, <2>2 DEF Commit, flying, NobodyIsDetached
  <2>3. ASSUME NEW c \in Caller, NEW r \in Root, Ask(c, r) PROVE NobodyIsDetached'
    BY <1>2, <2>3 DEF Ask, flying, NobodyIsDetached
  <2>4. ASSUME NEW c \in Caller, Spawn(c) \/ TakeRegionPermit(c) PROVE NobodyIsDetached'
    BY <1>2, <2>4 DEF Spawn, TakeRegionPermit, flying, NobodyIsDetached
  <2>5. ASSUME NEW c \in Caller, Join(c) \/ Recheck(c) \/ Cancel(c) PROVE NobodyIsDetached'
    BY <1>2, <2>5, DetachedJoin, DetachedRecheck, DetachedCancel
  <2>6. ASSUME NEW l \in Lock, Work(l) \/ Fail(l) PROVE NobodyIsDetached'
    BY <1>2, <2>6, DetachedWork
  <2>. QED
    BY <1>2, <2>1, <2>2, <2>3, <2>4, <2>5, <2>6 DEF Next, Proceed
<1>3. Shape /\ NobodyIsDetached /\ [Next]_vars => (Shape /\ NobodyIsDetached)'
  BY <1>2, ShapeNext
<1>. QED
  BY <1>1, <1>3, PTL DEF Spec
-----------------------------------------------------------------------------
(* An answer is not older than the question.                               *)

\* Builds that keep their caller and their region, or give one up.
LEMMA FreshBuilds ==
  ASSUME FreshInv,
         \A l \in Lock :
           build'[l] # None /\ build'[l].region # None /\ build'[l].caller # None =>
             /\ build[l] # None /\ build[l].region # None
             /\ build[l].caller = build'[l].caller
             /\ build'[l].region.revision = build[l].region.revision
             /\ call'[build[l].caller] = call[build[l].caller]
  PROVE  \A l \in Lock :
           build'[l] # None /\ build'[l].region # None /\ build'[l].caller # None =>
             build'[l].region.revision >= call'[build'[l].caller].floor
BY DEF FreshInv

\* Callers that keep their question, or are done with it.
LEMMA FreshCalls ==
  ASSUME FreshInv, log' = log,
         \A c \in Caller : call'[c] # None =>
           /\ call[c] # None
           /\ call'[c].root = call[c].root /\ call'[c].floor = call[c].floor
  PROVE  \A c \in Caller, r \in Root :
           call'[c] # None /\ call'[c].root = r => call'[c].floor <= Revision(r)'
BY RevisionStays DEF FreshInv

LEMMA FreshCommit ==
  ASSUME Shape, FreshInv, NEW columns \in Edit, Commit(columns)
  PROVE  FreshInv'
<1>1. log' = Append(log, columns) /\ call' = call /\ build' = build /\ log \in Seq(SUBSET Column)
  BY DEF Commit, building, Shape, TypeInv
<1>2. ASSUME NEW c \in Caller, NEW r \in Root, call[c] # None, call[c].root = r
      PROVE  call[c].floor <= Revision(r)'
  <2>1. Revision(r) \in Nat /\ Revision(r)' \in Nat /\ Revision(r) <= Revision(r)'
    BY <1>1, CommitAdvances
  <2>2. call[c].floor \in Nat
    BY <1>2 DEF Shape, TypeInv, Call
  <2>. QED
    BY <1>2, <2>1, <2>2 DEF FreshInv
<1>. QED
  BY <1>1, <1>2 DEF FreshInv

\* The builds of the steps that callers take.
LEMMA FreshCallers ==
  ASSUME Shape, FreshInv, NEW c \in Caller,
         pc[c] # "building", build' = build,
         \A d \in Caller : d # c => call'[d] = call[d]
  PROVE  \A l \in Lock :
           build'[l] # None /\ build'[l].region # None /\ build'[l].caller # None =>
             build'[l].region.revision >= call'[build'[l].caller].floor
<1>1. \A l \in Lock : build[l] # None /\ build[l].caller # None =>
        build[l].caller \in Caller /\ build[l].caller # c
  BY DEF Shape, TypeInv, LockInv, Build
<1>. QED
  BY <1>1, FreshBuilds

LEMMA FreshAsk ==
  ASSUME Shape, FreshInv, NEW c \in Caller, NEW r \in Root, Ask(c, r)
  PROVE  FreshInv'
<1>. DEFINE new == [root |-> r, floor |-> Revision(r), lock |-> None]
<1>1. /\ pc[c] = "idle" /\ log' = log /\ build' = build
      /\ call' = [call EXCEPT ![c] = new] \/ call' = call
  BY DEF Ask, building, world
<1>2. \A d \in Caller : d # c => call'[d] = call[d]
  BY <1>1 DEF Shape, TypeInv
<1>3. ASSUME NEW d \in Caller, NEW s \in Root, call'[d] # None, call'[d].root = s
      PROVE  call'[d].floor <= Revision(s)'
  <2>1. Revision(s)' = Revision(s) /\ Revision(s) \in Nat
    <3>1. Revision(s) \in Nat
      BY RevisionType DEF Shape, TypeInv
    <3>. QED
      BY <1>1, <3>1, RevisionStays
  <2>2. CASE call'[d] = call[d]
    BY <1>3, <2>1, <2>2 DEF FreshInv
  <2>3. CASE call'[d] # call[d]
    <3>1. d = c /\ call'[c] = new
      BY <1>1, <1>2, <2>3 DEF Shape, TypeInv
    <3>2. s = r /\ call'[d].floor = Revision(r)
      BY <1>3, <3>1
    <3>. QED
      BY <2>1, <3>2
  <2>. QED
    BY <2>2, <2>3
<1>4. pc[c] # "building"
  BY <1>1
<1>. QED
  BY <1>1, <1>2, <1>3, <1>4, FreshCallers DEF FreshInv

LEMMA FreshJoin ==
  ASSUME Shape, FreshInv, NEW c \in Caller, Join(c)
  PROVE  FreshInv'
<1>1. pc[c] = "join" /\ log' = log /\ build' = build
  BY DEF Join, building, world
<1>2. PICK l : call' = [call EXCEPT ![c].lock = l]
  BY DEF Join
<1>3. call[c] \in Call /\ call[c] # None
  BY <1>1, InsideIs
<1>4. /\ call'[c].root = call[c].root /\ call'[c].floor = call[c].floor
      /\ \A d \in Caller : d # c => call'[d] = call[d]
  BY <1>2, <1>3 DEF Shape, TypeInv, Call
<1>5. \A d \in Caller : call'[d] # None =>
        call[d] # None /\ call'[d].root = call[d].root /\ call'[d].floor = call[d].floor
  BY <1>3, <1>4
<1>6. pc[c] # "building"
  BY <1>1
<1>. QED
  BY <1>1, <1>4, <1>5, <1>6, FreshCalls, FreshCallers DEF FreshInv

\* A caller that leaves, or goes on with the question it has.
LEMMA FreshQuiet ==
  ASSUME Shape, FreshInv, NEW c \in Caller,
         Recheck(c) \/ TakeRegionPermit(c) \/ (Cancel(c) /\ pc[c] # "building")
  PROVE  FreshInv'
<1>1. /\ pc[c] # "building" /\ log' = log /\ build' = build
      /\ call' = call \/ call' = [call EXCEPT ![c] = None]
  BY DEF Recheck, TakeRegionPermit, Cancel, Deliver, Return, building, world
<1>2. \A d \in Caller : call'[d] = call[d] \/ (d = c /\ call'[d] = None)
  <2>1. call \in [Caller -> Call \cup {None}]
    BY DEF Shape, TypeInv
  <2>2. CASE call' = call
    BY <2>2
  <2>3. CASE call' = [call EXCEPT ![c] = None]
    BY <2>1, <2>3
  <2>. QED
    BY <1>1, <2>2, <2>3
<1>3. \A d \in Caller : call'[d] # None => call'[d] = call[d] /\ call[d] # None
  BY <1>2
<1>4. \A d \in Caller : d # c => call'[d] = call[d]
  BY <1>2
<1>. QED
  BY <1>1, <1>3, <1>4, FreshCalls, FreshCallers DEF FreshInv

LEMMA FreshSpawn ==
  ASSUME Shape, FreshInv, NEW c \in Caller, Spawn(c)
  PROVE  FreshInv'
<1>. DEFINE l == call[c].lock
            new == [root |-> call[c].root, caller |-> c, phase |-> "start",
                    attempt |-> 1, region |-> None]
<1>1. log' = log /\ call' = call /\ build' = [build EXCEPT ![l] = new]
  BY DEF Spawn, world
<1>2. new.region = None
  OBVIOUS
<1>. HIDE DEF new, l
<1>3. \A k \in Lock : build'[k] = build[k] \/ build'[k] = new
  BY <1>1 DEF Shape, TypeInv
<1>4. \A k \in Lock : build'[k] # None /\ build'[k].region # None => build'[k] = build[k]
  BY <1>2, <1>3
<1>. QED
  BY <1>1, <1>4, FreshBuilds, FreshCalls DEF FreshInv

LEMMA FreshOrphan ==
  ASSUME Shape, FreshInv, NEW c \in Caller, Cancel(c), pc[c] = "building"
  PROVE  FreshInv'
<1>. DEFINE l == call[c].lock
<1>1. /\ log' = log /\ call' = [call EXCEPT ![c] = None]
      /\ build' = [build EXCEPT ![l].caller = None]
  BY DEF Cancel, Return, world
<1>2. l \in Lock /\ build[l] # None /\ build[l].caller = c /\ build[l] \in Build
  BY DEF Shape, TypeInv, CallInv
<1>3. \A d \in Caller : call'[d] # None => call'[d] = call[d] /\ d # c
  BY <1>1 DEF Shape, TypeInv
<1>4. build'[l] = [build[l] EXCEPT !.caller = None] /\ \A k \in Lock : k # l => build'[k] = build[k]
  BY <1>1, <1>2 DEF Shape, TypeInv
<1>5. build'[l].caller = None
  BY <1>2, <1>4 DEF Build
<1>6. \A k \in Lock : k # l /\ build[k] # None /\ build[k].caller # None =>
        build[k].caller \in Caller /\ build[k].caller # c
  BY <1>2 DEF Shape, TypeInv, LockInv, Build
<1>7. \A d \in Caller : d # c => call'[d] = call[d]
  BY <1>1 DEF Shape, TypeInv
<1>. HIDE DEF l
<1>8. \A k \in Lock :
        build'[k] # None /\ build'[k].region # None /\ build'[k].caller # None =>
          /\ build'[k] = build[k] /\ call'[build[k].caller] = call[build[k].caller]
  BY <1>4, <1>5, <1>6, <1>7
<1>. QED
  BY <1>1, <1>3, <1>8, FreshBuilds, FreshCalls DEF FreshInv

LEMMA FreshSnapshot ==
  ASSUME Shape, FreshInv, NEW l \in Lock, Snapshot(l)
  PROVE  FreshInv'
<1>1. PICK b : /\ BuildStep(l, b)
               /\ b.region = [root |-> b.root, revision |-> Revision(b.root),
                    pages |-> [p \in PagesOf[b.root] |->
                      [revision |-> IF b.root \in Coverage THEN None ELSE Revision(b.root),
                       content |-> ContentNow(b.root, p)]]]
  BY SnapshotIs
<1>2. /\ build[l] # None /\ build[l].root \in Root /\ build' = [build EXCEPT ![l] = b]
      /\ b.caller = build[l].caller /\ b.root = build[l].root
      /\ log' = log /\ call' = call
  BY <1>1 DEF BuildStep
<1>3. b.region.revision = Revision(b.root)
  BY <1>1
<1>4. build'[l] = b /\ \A k \in Lock : k # l => build'[k] = build[k]
  BY <1>2 DEF Shape, TypeInv
<1>5. ASSUME NEW k \in Lock, build'[k] # None, build'[k].region # None, build'[k].caller # None
      PROVE  build'[k].region.revision >= call'[build'[k].caller].floor
  <2>1. CASE k = l
    <3>. DEFINE c == b.caller
    <3>1. c \in Caller /\ call[c].root = b.root /\ call[c] # None /\ call[c] \in Call
      <4>1. c \in Caller /\ pc[c] = "building" /\ call[c].root = b.root
        BY <1>2, <1>4, <1>5, <2>1 DEF Shape, TypeInv, LockInv, Build
      <4>. QED
        BY <4>1, InsideIs
    <3>2. call[c].floor <= Revision(b.root)
      BY <1>2, <3>1 DEF FreshInv
    <3>3. call[c].floor \in Nat /\ Revision(b.root) \in Nat
      BY <3>1, RevisionType DEF Shape, TypeInv, Call
    <3>. QED
      BY <1>2, <1>3, <1>4, <2>1, <3>2, <3>3
  <2>2. CASE k # l
    BY <1>2, <1>4, <1>5, <2>2 DEF FreshInv
  <2>. QED
    BY <2>1, <2>2
<1>. QED
  BY <1>2, <1>5, FreshCalls DEF FreshInv

\* The other steps of a build keep the revision of its region, or drop it.
LEMMA FreshBuild ==
  ASSUME Shape, FreshInv, NEW l \in Lock, NEW b, BuildStep(l, b), Held(b),
         b.region # None => build[l].region # None /\ b.region.revision = build[l].region.revision
  PROVE  FreshInv'
<1>1. /\ build[l] # None /\ build' = [build EXCEPT ![l] = b]
      /\ b.caller = build[l].caller
      /\ log' = log /\ call' = call
  BY DEF BuildStep
<1>2. build'[l] = b /\ \A k \in Lock : k # l => build'[k] = build[k]
  BY <1>1 DEF Shape, TypeInv
<1>. QED
  BY <1>1, <1>2, FreshBuilds, FreshCalls DEF FreshInv

LEMMA FreshEnd ==
  ASSUME Shape, FreshInv, NEW l \in Lock, Finish(l) \/ Abandon(l)
  PROVE  FreshInv'
<1>1. /\ build' = [build EXCEPT ![l] = None] /\ log' = log
      /\ call' = call \/ call' = [call EXCEPT ![build[l].caller] = None]
      /\ build[l] # None
  BY DEF Finish, Abandon, End, Deliver, Return, world
<1>2. \A k \in Lock : k # l => build'[k] = build[k]
  BY <1>1 DEF Shape, TypeInv
<1>3. \A d \in Caller : call'[d] = call[d] \/ (d = build[l].caller /\ call'[d] = None)
  <2>1. call \in [Caller -> Call \cup {None}]
    BY DEF Shape, TypeInv
  <2>2. CASE call' = [call EXCEPT ![build[l].caller] = None]
    BY <2>1, <2>2
  <2>. QED
    BY <1>1, <2>2
<1>4. \A k \in Lock : k # l /\ build[k] # None /\ build[k].caller # None =>
        build[k].caller \in Caller /\ build[k].caller # build[l].caller
  <2>1. \A k \in Lock : build[k] # None => build[k].caller \in Caller \cup {None}
    BY DEF Shape, TypeInv, Build
  <2>2. \A k \in Lock : build[k] # None /\ build[k].caller # None => call[build[k].caller].lock = k
    BY DEF Shape, LockInv
  <2>. QED
    BY <1>1, <2>1, <2>2
<1>5. build'[l] = None
  BY <1>1 DEF Shape, TypeInv
<1>6. \A k \in Lock :
        build'[k] # None /\ build'[k].region # None /\ build'[k].caller # None =>
          /\ build'[k] = build[k] /\ call'[build[k].caller] = call[build[k].caller]
  BY <1>2, <1>3, <1>4, <1>5
<1>7. \A d \in Caller : call'[d] # None => call'[d] = call[d]
  BY <1>3
<1>. QED
  BY <1>1, <1>6, <1>7, FreshBuilds, FreshCalls DEF FreshInv

LEMMA FreshWork ==
  ASSUME Shape, FreshInv, NEW l \in Lock, Work(l) \/ Fail(l)
  PROVE  FreshInv'
<1>1. CASE Snapshot(l)
  BY <1>1, FreshSnapshot
<1>2. CASE ReadPageRevision(l)
  <2>1. PICK b : BuildStep(l, b) /\ Held(b) /\ b.region.revision = build[l].region.revision
    BY <1>2, ReadPageRevisionIs
  <2>2. build[l].region # None
    BY <1>2 DEF ReadPageRevision, Shape, LockInv
  <2>. QED
    BY <2>1, <2>2, FreshBuild
<1>3. CASE Verify(l)
  <2>1. PICK b : BuildStep(l, b) /\ Held(b) /\ (b.region = build[l].region \/ b.region = None)
    BY <1>3, VerifyIs
  <2>. QED
    BY <2>1, FreshBuild
<1>4. CASE Fail(l)
  <2>1. PICK b : BuildStep(l, b) /\ Held(b) /\ b.region = None
    BY <1>4, FailIs
  <2>. QED
    BY <2>1, FreshBuild
<1>5. CASE Publish(l)
  <2>1. PICK b : BuildStep(l, b) /\ Held(b) /\ b.region = build[l].region
    BY <1>5, PublishIs
  <2>. QED
    BY <2>1, FreshBuild
<1>6. CASE Finish(l) \/ Abandon(l)
  BY <1>6, FreshEnd
<1>. QED
  BY <1>1, <1>2, <1>3, <1>4, <1>5, <1>6 DEF Work

LEMMA FreshNext ==
  ASSUME Shape, FreshInv, [Next]_vars
  PROVE  FreshInv'
<1>1. CASE UNCHANGED vars
  <2>1. log' = log /\ call' = call /\ build' = build
    BY <1>1 DEF vars
  <2>. QED
    BY <2>1, FreshCalls DEF FreshInv
<1>2. ASSUME NEW columns \in Edit, Commit(columns) PROVE FreshInv'
  BY <1>2, FreshCommit
<1>3. ASSUME NEW c \in Caller, NEW r \in Root, Ask(c, r) PROVE FreshInv'
  BY <1>3, FreshAsk
<1>4. ASSUME NEW c \in Caller, Proceed(c) \/ TakeRegionPermit(c) \/ Cancel(c) PROVE FreshInv'
  BY <1>4, FreshJoin, FreshQuiet, FreshSpawn, FreshOrphan DEF Proceed
<1>5. ASSUME NEW l \in Lock, Work(l) \/ Fail(l) PROVE FreshInv'
  BY <1>5, FreshWork
<1>. QED
  BY <1>1, <1>2, <1>3, <1>4, <1>5 DEF Next

\* What a step hands to a caller that was waiting is as new as its question.
LEMMA FreshAnswer ==
  ASSUME Shape, FreshInv, [Next]_vars,
         NEW c \in Caller, call[c] # None, known'[c] # known[c]
  PROVE  known'[c].revision >= call[c].floor
<1>1. ASSUME NEW d \in Caller, Recheck(d) PROVE known'[c].revision >= call[c].floor
  <2>. DEFINE r == call[d].root
  <2>1. pc[d] = "waiting"
    BY <1>1 DEF Recheck
  <2>2. call[d] \in Call /\ r \in Root /\ call[d] # None
    BY <2>1, InsideIs
  <2>3. UNCHANGED known \/ \E i \in Hit(r, Revision(r)) : known' = [known EXCEPT ![d] = cache[i]]
    BY <1>1 DEF Recheck, Deliver
  <2>4. PICK i \in Hit(r, Revision(r)) : known' = [known EXCEPT ![d] = cache[i]]
    BY <2>3
  <2>5. c = d /\ known'[c] = cache[i]
    BY <2>4 DEF Shape, TypeInv
  <2>6. cache[i].revision = Revision(r) /\ call[d].floor <= Revision(r)
    BY <2>2, HitIs DEF FreshInv
  <2>7. call[d].floor \in Nat /\ Revision(r) \in Nat
    BY <2>2, RevisionType DEF Shape, TypeInv, Call
  <2>. QED
    BY <2>5, <2>6, <2>7
<1>2. ASSUME NEW l \in Lock, Finish(l) PROVE known'[c].revision >= call[c].floor
  <2>1. /\ build[l] # None /\ build[l].region # None
        /\ \/ known' = known
           \/ /\ build[l].caller \in Caller
              /\ known' = [known EXCEPT ![build[l].caller] = build[l].region]
    BY <1>2, FinishIs
  <2>2. c = build[l].caller /\ known'[c] = build[l].region
    BY <2>1 DEF Shape, TypeInv
  <2>3. build[l].caller # None
    BY <2>2, NoneAssumption
  <2>. QED
    BY <2>1, <2>2, <2>3 DEF FreshInv
<1>3. ASSUME NEW d \in Caller, NEW r \in Root, Ask(d, r) PROVE FALSE
  <2>1. pc[d] = "idle" /\ \E x : known' = [known EXCEPT ![d] = x]
    BY <1>3 DEF Ask
  <2>2. call[d] = None
    BY <2>1 DEF Shape, CallInv
  <2>. QED
    BY <2>1, <2>2 DEF Shape, TypeInv
<1>4. CASE UNCHANGED known
  BY <1>4
<1>5. \/ UNCHANGED known
      \/ \E d \in Caller, r \in Root : Ask(d, r)
      \/ \E d \in Caller : Recheck(d)
      \/ \E l \in Lock : Finish(l)
  BY DEF Next, Proceed, Work, vars, Commit, Join, Spawn, TakeRegionPermit, Cancel, Snapshot,
         ReadPageRevision, Verify, Fail, Publish, Abandon
<1>. QED
  BY <1>1, <1>2, <1>3, <1>4, <1>5

\* Through however many attempts and owners of a flight, a caller is never given
\* a region older than the world it asked in (ensure_region).
THEOREM CallersGetFreshRegions == Spec => AnswersAreFresh
<1>1. Init => Shape /\ FreshInv
  <2>1. ASSUME Init PROVE FreshInv
    BY <2>1 DEF Init, FreshInv
  <2>. QED
    BY <2>1, ShapeInit
<1>2. Shape /\ FreshInv /\ [Next]_vars => (Shape /\ FreshInv)'
  BY ShapeNext, FreshNext
<1>3. Shape /\ FreshInv /\ [Next]_vars =>
        [\A c \in Caller : (call[c] # None /\ known'[c] # known[c]) =>
           known'[c].revision >= call[c].floor]_vars
  BY FreshAnswer
<1>. QED
  BY <1>1, <1>2, <1>3, PTL DEF Spec, AnswersAreFresh
-----------------------------------------------------------------------------
(* The cache within its budget, the permits where the stages say they are. *)

LEMMA CacheNext ==
  ASSUME Shape, CacheInv, [Next]_vars
  PROVE  CacheInv'
<1>1. CASE UNCHANGED caching
  <2>1. cache' = cache /\ retained' = retained
    BY <1>1 DEF caching
  <2>. QED
    BY <2>1 DEF CacheInv
<1>2. ASSUME NEW i \in DOMAIN cache, cache' = Touched(i), retained' = retained
      PROVE  CacheInv'
  <2>1. cache \in Seq(Region)
    BY DEF Shape, TypeInv
  <2>2. Bytes(Touched(i)) = Bytes(cache) /\ (OneEach(cache) => OneEach(Touched(i)))
    BY <2>1, TouchedIs
  <2>. QED
    BY <1>2, <2>2 DEF CacheInv
<1>3. ASSUME NEW c \in Caller, NEW r \in Root, Ask(c, r) PROVE CacheInv'
  <2>1. retained' = retained /\ (cache' = cache \/ \E i \in DOMAIN cache : cache' = Touched(i))
    BY <1>3, HitIs DEF Ask
  <2>. QED
    BY <1>1, <1>2, <2>1 DEF caching
<1>4. ASSUME NEW c \in Caller, Recheck(c) PROVE CacheInv'
  <2>1. retained' = retained /\ (cache' = cache \/ \E i \in DOMAIN cache : cache' = Touched(i))
    BY <1>4, HitIs DEF Recheck
  <2>. QED
    BY <1>1, <1>2, <2>1 DEF caching
<1>5. ASSUME NEW l \in Lock, Publish(l) PROVE CacheInv'
  <2>1. PICK b : Insert(b.region) /\ b.region \in Region
    BY <1>5, PublishIs
  <2>. QED
    BY <2>1, InsertIs DEF Shape, TypeInv
<1>6. \/ UNCHANGED caching
      \/ \E c \in Caller, r \in Root : Ask(c, r)
      \/ \E c \in Caller : Recheck(c)
      \/ \E l \in Lock : Publish(l)
  BY DEF Next, Proceed, Work, vars, caching, Commit, Join, Spawn, TakeRegionPermit, Cancel,
         Snapshot, ReadPageRevision, Verify, Fail, Finish, Abandon, End
<1>. QED
  BY <1>1, <1>3, <1>4, <1>5, <1>6

LEMMA PermitCallers ==
  ASSUME Shape, PermitInv, NEW c \in Caller,
         Proceed(c) \/ TakeRegionPermit(c) \/ Cancel(c)
  PROVE  PermitInv'
<1>. DEFINE l == call[c].lock
<1>1. TypeInv /\ CallInv /\ LockInv
  BY DEF Shape
<1>2. /\ IsFiniteSet(Working) /\ IsFiniteSet(Running)
      /\ permits + Cardinality(Working) + Cardinality(Running) = RegionWorkers
      /\ Cardinality(Working) \in Nat /\ Cardinality(Running) \in Nat /\ permits \in Nat
  BY <1>1, FS_CardinalityType DEF PermitInv, TypeInv
<1>3. CASE Join(c) \/ Recheck(c) \/ (Cancel(c) /\ pc[c] # "generation")
  <2>1. /\ permits' = permits /\ pc[c] # "generation"
        /\ \E x \in {"waiting", "permit", "idle"} : pc' = [pc EXCEPT ![c] = x]
    BY <1>3 DEF Join, Recheck, Cancel, Deliver, Return, building
  <2>2. Working' = Working
    BY <1>1, <2>1 DEF Working, TypeInv
  <2>3. Running' = Running
    <3>1. build' = build \/ (build' = [build EXCEPT ![l].caller = None] /\ pc[c] = "building")
      BY <1>3 DEF Join, Recheck, Cancel, building
    <3>2. CASE build' = [build EXCEPT ![l].caller = None] /\ pc[c] = "building"
      <4>1. l \in Lock /\ build[l] \in Build /\ build[l] # None
        BY <1>1, <3>2 DEF CallInv, TypeInv
      <4>2. [build[l] EXCEPT !.caller = None] \in Build
        BY <4>1 DEF Build
      <4>3. /\ build'[l] = [build[l] EXCEPT !.caller = None]
            /\ \A k \in Lock : k # l => build'[k] = build[k]
        BY <1>1, <3>2, <4>1 DEF TypeInv
      <4>. HIDE DEF l
      <4>4. \A k \in Lock : build'[k] # None <=> build[k] # None
        BY <4>1, <4>2, <4>3, NoneAssumption
      <4>. QED
        BY <4>4 DEF Running
    <3>. QED
      BY <3>1, <3>2 DEF Running
  <2>. QED
    BY <1>2, <2>1, <2>2, <2>3 DEF PermitInv
<1>4. CASE Spawn(c)
  <2>1. /\ pc[c] = "generation" /\ pc' = [pc EXCEPT ![c] = "building"] /\ permits' = permits
        /\ \E b : b # None /\ build' = [build EXCEPT ![l] = b]
    <3>1. call[c] \in Call /\ call[c].root \in Root
      BY <1>4, InsideIs DEF Spawn
    <3>2. [root |-> call[c].root, caller |-> c, phase |-> "start", attempt |-> 1, region |-> None]
            \in Build
      BY <3>1 DEF Build
    <3>. QED
      BY <1>4, <3>2, NoneAssumption DEF Spawn
  <2>2. l \in Lock /\ build[l] = None
    <3>1. l \in Lock /\ owner[l] = c
      BY <1>1, <2>1 DEF CallInv
    <3>. QED
      BY <1>1, <3>1, NoneAssumption DEF LockInv
  <2>. HIDE DEF l
  <2>3. Working' = Working \ {c} /\ c \in Working
    BY <1>1, <2>1 DEF Working, TypeInv
  <2>4. Running' = Running \cup {l} /\ l \notin Running
    BY <1>1, <2>1, <2>2 DEF Running, TypeInv
  <2>5. IsFiniteSet(Working') /\ Cardinality(Working') = Cardinality(Working) - 1
    BY <1>2, <2>3, FS_RemoveElement
  <2>6. IsFiniteSet(Running') /\ Cardinality(Running') = Cardinality(Running) + 1
    BY <1>2, <2>4, FS_AddElement
  <2>. QED
    BY <1>2, <2>1, <2>5, <2>6 DEF PermitInv
<1>5. CASE TakeRegionPermit(c)
  <2>1. /\ pc[c] = "permit" /\ pc' = [pc EXCEPT ![c] = "generation"]
        /\ permits' = permits - 1 /\ build' = build
    BY <1>5 DEF TakeRegionPermit
  <2>2. Working' = Working \cup {c} /\ c \notin Working
    BY <1>1, <2>1 DEF Working, TypeInv
  <2>3. Running' = Running
    BY <2>1 DEF Running
  <2>4. IsFiniteSet(Working') /\ Cardinality(Working') = Cardinality(Working) + 1
    BY <1>2, <2>2, FS_AddElement
  <2>. QED
    BY <1>2, <2>1, <2>3, <2>4 DEF PermitInv
<1>6. CASE Cancel(c) /\ pc[c] = "generation"
  <2>1. pc' = [pc EXCEPT ![c] = "idle"] /\ permits' = permits + 1 /\ build' = build
    BY <1>6 DEF Cancel, Return
  <2>2. Working' = Working \ {c} /\ c \in Working
    BY <1>1, <1>6, <2>1 DEF Working, TypeInv
  <2>3. Running' = Running
    BY <2>1 DEF Running
  <2>4. IsFiniteSet(Working') /\ Cardinality(Working') = Cardinality(Working) - 1
    BY <1>2, <2>2, FS_RemoveElement
  <2>. QED
    BY <1>2, <2>1, <2>3, <2>4 DEF PermitInv
<1>. QED
  BY <1>3, <1>4, <1>5, <1>6 DEF Proceed

LEMMA PermitWork ==
  ASSUME Shape, PermitInv, NEW l \in Lock, Work(l) \/ Fail(l)
  PROVE  PermitInv'
<1>1. TypeInv /\ CallInv /\ LockInv
  BY DEF Shape
<1>2. /\ IsFiniteSet(Working) /\ IsFiniteSet(Running)
      /\ permits + Cardinality(Working) + Cardinality(Running) = RegionWorkers
      /\ Cardinality(Working) \in Nat /\ Cardinality(Running) \in Nat /\ permits \in Nat
  BY <1>1, FS_CardinalityType DEF PermitInv, TypeInv
<1>3. ASSUME NEW b, BuildStep(l, b) PROVE PermitInv'
  <2>1. /\ build[l] # None /\ b # None /\ build' = [build EXCEPT ![l] = b]
        /\ pc' = pc /\ permits' = permits
    BY <1>3 DEF BuildStep
  <2>2. Running' = Running /\ Working' = Working
    BY <1>1, <2>1 DEF Running, Working, TypeInv
  <2>. QED
    BY <1>2, <2>1, <2>2 DEF PermitInv
<1>4. CASE Finish(l) \/ Abandon(l)
  <2>1. /\ build[l] # None /\ build' = [build EXCEPT ![l] = None] /\ permits' = permits + 1
        /\ \/ pc' = pc
           \/ build[l].caller # None /\ pc' = [pc EXCEPT ![build[l].caller] = "idle"]
    BY <1>4 DEF Finish, Abandon, End, Deliver, Return
  <2>2. build[l].caller # None => pc[build[l].caller] = "building"
    BY <1>1, <2>1 DEF LockInv
  <2>3. Working' = Working
    BY <1>1, <2>1, <2>2 DEF Working, TypeInv
  <2>4. Running' = Running \ {l} /\ l \in Running
    BY <1>1, <2>1 DEF Running, TypeInv
  <2>5. IsFiniteSet(Running') /\ Cardinality(Running') = Cardinality(Running) - 1
    BY <1>2, <2>4, FS_RemoveElement
  <2>. QED
    BY <1>2, <2>1, <2>3, <2>5 DEF PermitInv
<1>. QED
  BY <1>3, <1>4, SnapshotIs, ReadPageRevisionIs, VerifyIs, FailIs, PublishIs DEF Work

\* The cache is what its byte count says, within its budget, one region per
\* root, and no permit of the region lane is lost or made: replacing, evicting,
\* failing and being cancelled never drift (RegionCache, region_build_limiter).
THEOREM ResourcesStayAccounted == Spec => []ResourcesAreAccounted
<1>1. Init => Shape /\ CacheInv /\ PermitInv
  <2>. SUFFICES ASSUME Init PROVE CacheInv /\ PermitInv
    BY ShapeInit
  <2>1. CacheInv
    <3>1. <<>> \in Seq(Region) /\ Len(<<>>) = 0
      OBVIOUS
    <3>2. Bytes(<<>>) = 0
      BY <3>1, SumsAt DEF Bytes
    <3>. QED
      BY <3>2, BudgetAssumption DEF Init, CacheInv, OneEach
  <2>2. PermitInv
    <3>1. Working = {} /\ Running = {}
      BY DEF Init, Working, Running
    <3>. QED
      BY <3>1, FS_EmptySet, BudgetAssumption DEF Init, PermitInv
  <2>. QED
    BY <2>1, <2>2
<1>2. ASSUME Shape, PermitInv, [Next]_vars PROVE PermitInv'
  <2>1. CASE UNCHANGED <<pc, build, permits>>
    BY <1>2, <2>1 DEF PermitInv, Working, Running
  <2>2. ASSUME NEW columns \in Edit, Commit(columns) PROVE PermitInv'
    BY <2>1, <2>2 DEF Commit, building
  <2>3. ASSUME NEW c \in Caller, NEW r \in Root, Ask(c, r) PROVE PermitInv'
    <3>1. /\ build' = build /\ permits' = permits /\ pc[c] = "idle"
          /\ \E x \in {"idle", "join"} : pc' = [pc EXCEPT ![c] = x]
      BY <1>2, <2>3 DEF Ask, building, Shape, TypeInv
    <3>2. Working' = Working /\ Running' = Running
      BY <1>2, <3>1 DEF Shape, TypeInv, Working, Running
    <3>. QED
      BY <1>2, <3>1, <3>2 DEF PermitInv
  <2>4. CASE UNCHANGED vars
    BY <2>1, <2>4 DEF vars
  <2>. QED
    BY <1>2, <2>2, <2>3, <2>4, PermitCallers, PermitWork DEF Next
<1>3. Shape /\ CacheInv /\ PermitInv /\ [Next]_vars => (Shape /\ CacheInv /\ PermitInv)'
  BY <1>2, ShapeNext, CacheNext
<1>4. CacheInv /\ PermitInv => ResourcesAreAccounted
  BY DEF CacheInv, PermitInv, OneEach, ResourcesAreAccounted
<1>. QED
  BY <1>1, <1>3, <1>4, PTL DEF Spec
-----------------------------------------------------------------------------
(* Regions are snapshots.                                                  *)

\* Further commits do not touch what earlier ones left.
LEMMA LogKept ==
  ASSUME log \in Seq(SUBSET Column), NEW columns, log' = log \/ log' = Append(log, columns)
  PROVE  /\ Len(log) \in Nat /\ Len(log') \in Nat /\ Len(log) <= Len(log')
         /\ \A some : \A n \in 0..Len(log) : LastCommit(some, n)' = LastCommit(some, n)
<1>1. CASE log' = log
  BY <1>1, RevisionStays
<1>2. CASE log' = Append(log, columns)
  BY <1>2, LastCommitKept
<1>. QED
  BY <1>1, <1>2

LEMMA SettledStays ==
  ASSUME log \in Seq(SUBSET Column), NEW columns, log' = log \/ log' = Append(log, columns),
         NEW CONSTANT x, Settled(x)
  PROVE  Settled(x)'
<1>1. /\ Len(log) \in Nat /\ Len(log') \in Nat /\ Len(log) <= Len(log')
      /\ \A some : \A n \in 0..Len(log) : LastCommit(some, n)' = LastCommit(some, n)
  BY LogKept
<1>2. x.revision \in 1..Len(log) + 1 /\ x.revision - InitialRevision \in 0..Len(log)
  BY <1>1 DEF Settled, InitialRevision
<1>3. ASSUME NEW p \in DOMAIN x.pages
      PROVE  /\ x.pages[p].revision \in 1..Len(log') + 1
             /\ x.pages[p].content.commit = LastCommit(Footprint[p], x.pages[p].revision - InitialRevision)'
             /\ x.pages[p].content.commit = LastCommit(Footprint[p], x.revision - InitialRevision)'
  <2>1. /\ x.pages[p].revision \in 1..Len(log) + 1
        /\ x.pages[p].revision - InitialRevision \in 0..Len(log)
    BY <1>1 DEF Settled, InitialRevision
  <2>2. /\ x.pages[p].content.commit = LastCommit(Footprint[p], x.pages[p].revision - InitialRevision)
        /\ x.pages[p].content.commit = LastCommit(Footprint[p], x.revision - InitialRevision)
    BY DEF Settled, AsOfItsRevision
  <2>. QED
    BY <1>1, <1>2, <2>1, <2>2
<1>4. x.revision \in 1..Len(log') + 1
  BY <1>1, <1>2
<1>. QED
  BY <1>3, <1>4 DEF Settled, AsOfItsRevision

LEMMA CopiedStays ==
  ASSUME log \in Seq(SUBSET Column), NEW columns, log' = log \/ log' = Append(log, columns),
         NEW CONSTANT x, Copied(x)
  PROVE  Copied(x)'
<1>1. /\ Len(log) \in Nat /\ Len(log') \in Nat /\ Len(log) <= Len(log')
      /\ \A some : \A n \in 0..Len(log) : LastCommit(some, n)' = LastCommit(some, n)
  BY LogKept
<1>2. PICK n \in 0..Len(log) :
        /\ x.revision = LastCommit(RootColumns[x.root], n)
        /\ DOMAIN x.pages = PagesOf[x.root]
        /\ \A p \in PagesOf[x.root] :
             /\ x.pages[p].content.commit = LastCommit(Footprint[p], n)
             /\ x.pages[p].revision # None =>
                  \/ x.pages[p].revision = x.revision
                  \/ \E m \in n..Len(log) : x.pages[p].revision = LastCommit(Footprint[p], m)
  BY DEF Copied
<1>3. ASSUME NEW p \in PagesOf[x.root]
      PROVE  /\ x.pages[p].content.commit = LastCommit(Footprint[p], n)'
             /\ x.pages[p].revision # None =>
                  \/ x.pages[p].revision = x.revision
                  \/ \E m \in n..Len(log') : x.pages[p].revision = LastCommit(Footprint[p], m)'
  <2>1. x.pages[p].content.commit = LastCommit(Footprint[p], n)'
    BY <1>1, <1>2
  <2>2. ASSUME NEW m \in n..Len(log), x.pages[p].revision = LastCommit(Footprint[p], m)
        PROVE  m \in n..Len(log') /\ x.pages[p].revision = LastCommit(Footprint[p], m)'
    BY <1>1, <1>2, <2>2
  <2>. QED
    BY <1>2, <2>1, <2>2
<1>4. n \in 0..Len(log') /\ x.revision = LastCommit(RootColumns[x.root], n)'
  BY <1>1, <1>2
<1>. QED
  BY <1>2, <1>3, <1>4 DEF Copied

\* Steps that hand over nothing new.
LEMMA SnapshotKept ==
  ASSUME Shape, SnapshotInv, NEW columns, log' = log \/ log' = Append(log, columns),
         \A x \in Handed' : x \in Handed \/ Settled(x)',
         \A x \in InTheMaking' : x \in InTheMaking \/ Copied(x)'
  PROVE  SnapshotInv'
<1>1. log \in Seq(SUBSET Column)
  BY DEF Shape, TypeInv
<1>2. ASSUME NEW x \in Handed' PROVE Settled(x)'
  BY <1>1, <1>2, SettledStays DEF SnapshotInv
<1>. QED
  BY <1>1, <1>2, CopiedStays DEF SnapshotInv

\* What a step of the build of lock l adds.
LEMMA BuildHands ==
  ASSUME Shape, NEW l \in Lock, NEW b, BuildStep(l, b),
         \A j \in DOMAIN cache' : cache'[j] \in Handed
  PROVE  /\ \A x \in Handed' : x \in Handed
                               \/ (x = b.region /\ b.phase \in {"prepared", "published"})
         /\ \A x \in InTheMaking' : x \in InTheMaking \/ (x = b.region /\ b.phase = "built")
<1>1. /\ build' = [build EXCEPT ![l] = b] /\ known' = known
  BY DEF BuildStep
<1>2. build'[l] = b /\ \A k \in Lock : k # l => build'[k] = build[k]
  BY <1>1 DEF Shape, TypeInv
<1>3. ASSUME NEW x \in Handed'
      PROVE  x \in Handed \/ (x = b.region /\ b.phase \in {"prepared", "published"})
  <2>1. CASE \E j \in DOMAIN cache' : x = cache'[j]
    BY <2>1
  <2>2. CASE x \in {known'[c] : c \in Caller} \ {None}
    BY <1>1, <2>2 DEF Handed
  <2>3. CASE \E k \in Lock : /\ x = build'[k].region /\ build'[k] # None
                             /\ build'[k].phase \in {"prepared", "published"}
    <3>1. PICK k \in Lock : /\ x = build'[k].region /\ build'[k] # None
                            /\ build'[k].phase \in {"prepared", "published"}
      BY <2>3
    <3>2. CASE k = l
      BY <1>2, <3>1, <3>2
    <3>3. CASE k # l
      BY <1>2, <3>1, <3>3 DEF Handed
    <3>. QED
      BY <3>2, <3>3
  <2>. QED
    BY <2>1, <2>2, <2>3 DEF Handed
<1>4. ASSUME NEW x \in InTheMaking'
      PROVE  x \in InTheMaking \/ (x = b.region /\ b.phase = "built")
  <2>1. PICK k \in Lock : x = build'[k].region /\ build'[k] # None /\ build'[k].phase = "built"
    BY DEF InTheMaking
  <2>2. CASE k = l
    BY <1>2, <2>1, <2>2
  <2>3. CASE k # l
    BY <1>2, <2>1, <2>3 DEF InTheMaking
  <2>. QED
    BY <2>2, <2>3
<1>. QED
  BY <1>3, <1>4

\* A new copy has what the log says now.
LEMMA SnapshotCopies ==
  ASSUME Shape, NEW l \in Lock, Snapshot(l), NEW CONSTANT x, x \in InTheMaking', x \notin InTheMaking
  PROVE  Copied(x)'
<1>1. PICK b :
        /\ BuildStep(l, b) /\ UNCHANGED caching /\ b.phase = "built"
        /\ b.region = [root |-> b.root, revision |-> Revision(b.root),
             pages |-> [p \in PagesOf[b.root] |->
               [revision |-> IF b.root \in Coverage THEN None ELSE Revision(b.root),
                content |-> ContentNow(b.root, p)]]]
  BY SnapshotIs
<1>2. x = b.region
  <2>1. \A j \in DOMAIN cache' : cache'[j] \in Handed
    BY <1>1 DEF caching, Handed
  <2>. QED
    BY <1>1, <2>1, BuildHands
<1>3. log' = log /\ log \in Seq(SUBSET Column)
  BY <1>1 DEF BuildStep, Shape, TypeInv
<1>4. /\ x.root = b.root /\ x.revision = Revision(b.root) /\ DOMAIN x.pages = PagesOf[b.root]
      /\ \A p \in PagesOf[b.root] :
           /\ x.pages[p].content = ContentNow(b.root, p)
           /\ x.pages[p].revision = IF b.root \in Coverage THEN None ELSE Revision(b.root)
  BY <1>1, <1>2
<1>5. \A p : ContentNow(b.root, p).commit = LastCommit(Footprint[p], Len(log))
  BY DEF ContentNow
<1>6. Len(log) \in 0..Len(log)
  BY <1>3
<1>7. x.revision = LastCommit(RootColumns[x.root], Len(log))
  BY <1>4 DEF Revision
<1>8. Copied(x)
  BY <1>4, <1>5, <1>6, <1>7 DEF Copied
<1>. QED
  BY <1>3, <1>8, CopiedStays

\* Reading a page's revision finds a later commit, or the same one.
LEMMA ReadingCopies ==
  ASSUME Shape, SnapshotInv, NEW l \in Lock, ReadPageRevision(l),
         NEW CONSTANT x, x \in InTheMaking', x \notin InTheMaking
  PROVE  Copied(x)'
<1>. DEFINE old == build[l].region
<1>1. PICK b : /\ BuildStep(l, b) /\ Held(b) /\ UNCHANGED caching
               /\ b.phase = "built" /\ build[l].phase = "built"
               /\ b.region.revision = old.revision
               /\ \E p : b.region.pages = [old.pages EXCEPT ![p].revision = PageRevision(p)]
  BY ReadPageRevisionIs
<1>2. PICK p : b.region.pages = [old.pages EXCEPT ![p].revision = PageRevision(p)]
  BY <1>1
<1>3. x = b.region
  <2>1. \A j \in DOMAIN cache' : cache'[j] \in Handed
    BY <1>1 DEF caching, Handed
  <2>. QED
    BY <1>1, <2>1, BuildHands
<1>4. log' = log /\ log \in Seq(SUBSET Column) /\ Len(log) \in Nat
  BY <1>1 DEF BuildStep, Shape, TypeInv
<1>5. Copied(old) /\ build[l] # None
  BY <1>1 DEF BuildStep, SnapshotInv, InTheMaking
<1>6. old \in Region /\ old.root = build[l].root /\ x.root = build[l].root
  <2>1. old # None /\ old.root = build[l].root
    BY <1>1, <1>5 DEF Shape, LockInv
  <2>2. old \in Region
    BY <1>5, <2>1 DEF Shape, TypeInv, Build
  <2>3. b.region # None /\ b.region.root = b.root /\ b.root = build[l].root
    BY <1>1 DEF Held, BuildStep
  <2>. QED
    BY <1>3, <2>1, <2>2, <2>3
<1>. HIDE DEF old
<1>7. PICK n \in 0..Len(log) :
        /\ old.revision = LastCommit(RootColumns[old.root], n)
        /\ DOMAIN old.pages = PagesOf[old.root]
        /\ \A q \in PagesOf[old.root] :
             /\ old.pages[q].content.commit = LastCommit(Footprint[q], n)
             /\ old.pages[q].revision # None =>
                  \/ old.pages[q].revision = old.revision
                  \/ \E m \in n..Len(log) : old.pages[q].revision = LastCommit(Footprint[q], m)
  BY <1>5 DEF Copied
<1>8. /\ x.root = old.root /\ x.revision = old.revision
      /\ x.pages = [old.pages EXCEPT ![p].revision = PageRevision(p)]
  BY <1>1, <1>2, <1>3, <1>6
<1>9. DOMAIN x.pages = PagesOf[x.root]
  BY <1>7, <1>8
<1>10. ASSUME NEW q \in PagesOf[x.root]
       PROVE  /\ x.pages[q].content.commit = LastCommit(Footprint[q], n)
              /\ x.pages[q].revision # None =>
                   \/ x.pages[q].revision = x.revision
                   \/ \E m \in n..Len(log) : x.pages[q].revision = LastCommit(Footprint[q], m)
  <2>1. CASE q # p
    <3>1. x.pages[q] = old.pages[q]
      BY <1>7, <1>8, <2>1
    <3>2. /\ old.pages[q].content.commit = LastCommit(Footprint[q], n)
          /\ old.pages[q].revision # None =>
               \/ old.pages[q].revision = x.revision
               \/ \E m \in n..Len(log) : old.pages[q].revision = LastCommit(Footprint[q], m)
      BY <1>7, <1>8
    <3>. QED
      BY <3>1, <3>2
  <2>2. CASE q = p
    <3>1. x.pages[q] = [old.pages[q] EXCEPT !.revision = PageRevision(q)]
      BY <1>7, <1>8, <2>2
    <3>2. old.pages[q] \in Node
      <4>1. PICK k \in Root : old.pages \in [PagesOf[k] -> Node]
        BY <1>6 DEF Region
      <4>. QED
        BY <1>7, <1>8, <4>1
    <3>3. /\ x.pages[q].content = old.pages[q].content
          /\ x.pages[q].revision = LastCommit(Footprint[q], Len(log))
      BY <3>1, <3>2 DEF Node, PageRevision
    <3>4. Len(log) \in n..Len(log)
      BY <1>4
    <3>. QED
      BY <1>7, <1>8, <3>3, <3>4
  <2>. QED
    BY <2>1, <2>2
<1>11. Copied(x)
  BY <1>7, <1>8, <1>9, <1>10 DEF Copied
<1>. QED
  BY <1>4, <1>11, CopiedStays

\* A copy whose root has still its revision when all pages are read is settled.
LEMMA VerifySettles ==
  ASSUME Shape, NEW l \in Lock, NEW x, x \in Region, x.root \in Root,
         Copied(x), Revision(x.root) = x.revision,
         \A p \in PagesOf[x.root] : x.pages[p].revision # None
  PROVE  Settled(x)
<1>. DEFINE columns == RootColumns[x.root]
<1>1. log \in Seq(SUBSET Column) /\ Len(log) \in Nat
  BY DEF Shape, TypeInv
<1>2. PICK n \in 0..Len(log) :
        /\ x.revision = LastCommit(columns, n)
        /\ DOMAIN x.pages = PagesOf[x.root]
        /\ \A p \in PagesOf[x.root] :
             /\ x.pages[p].content.commit = LastCommit(Footprint[p], n)
             /\ x.pages[p].revision # None =>
                  \/ x.pages[p].revision = x.revision
                  \/ \E m \in n..Len(log) : x.pages[p].revision = LastCommit(Footprint[p], m)
  BY DEF Copied
<1>3. PICK k \in 0..Len(log) : IsLast(columns, Len(log), k) /\ LastCommit(columns, Len(log)) = 1 + k
  BY <1>1, LastCommitIs
<1>4. x.revision = 1 + k /\ k \in 0..n
  <2>1. x.revision = 1 + k
    BY <1>3 DEF Revision
  <2>2. x.revision \in 1..n + 1
    BY <1>1, <1>2, LastCommitRange
  <2>. QED
    BY <1>1, <1>3, <2>1, <2>2
<1>5. ASSUME NEW p \in PagesOf[x.root], NEW m \in k..Len(log)
      PROVE  LastCommit(Footprint[p], m) = LastCommit(Footprint[p], k)
  <2>1. Footprint[p] \in SUBSET columns
    BY RootAssumption
  <2>. HIDE DEF columns
  <2>. QED
    BY <1>1, <1>3, <2>1, LastCommitQuiet
<1>6. ASSUME NEW p \in PagesOf[x.root]
      PROVE  /\ x.pages[p].content.commit = LastCommit(Footprint[p], k)
             /\ x.pages[p].revision \in 1..Len(log) + 1
             /\ x.pages[p].content.commit
                  = LastCommit(Footprint[p], x.pages[p].revision - 1)
  <2>1. x.pages[p].content.commit = LastCommit(Footprint[p], k)
    <3>1. n \in k..Len(log)
      BY <1>4
    <3>. QED
      BY <1>2, <1>5, <3>1
  <2>2. CASE x.pages[p].revision = x.revision
    <3>1. x.pages[p].revision - 1 = k /\ x.pages[p].revision \in 1..Len(log) + 1
      BY <1>1, <1>4, <2>2
    <3>. QED
      BY <2>1, <3>1
  <2>3. ASSUME NEW m \in n..Len(log), x.pages[p].revision = LastCommit(Footprint[p], m)
        PROVE  /\ x.pages[p].revision \in 1..Len(log) + 1
               /\ x.pages[p].content.commit = LastCommit(Footprint[p], x.pages[p].revision - 1)
    <3>1. m \in k..Len(log) /\ m \in Nat
      BY <1>1, <1>4
    <3>2. LastCommit(Footprint[p], LastCommit(Footprint[p], m) - 1) = LastCommit(Footprint[p], m)
      BY <3>1, LastCommitSettles
    <3>3. LastCommit(Footprint[p], m) \in 1..m + 1
      BY <3>1, LastCommitRange
    <3>4. x.pages[p].revision \in 1..Len(log) + 1
      BY <1>1, <2>3, <3>1, <3>3
    <3>. QED
      BY <1>5, <2>1, <2>3, <3>1, <3>2, <3>4
  <2>. QED
    BY <1>2, <2>1, <2>2, <2>3
<1>7. x.revision - InitialRevision = k /\ x.revision \in 1..Len(log) + 1
  BY <1>1, <1>4 DEF InitialRevision
<1>8. \A p \in PagesOf[x.root] :
        /\ x.pages[p].content.commit = LastCommit(Footprint[p], x.revision - InitialRevision)
        /\ x.pages[p].content.commit = LastCommit(Footprint[p], x.pages[p].revision - InitialRevision)
  BY <1>6, <1>7 DEF InitialRevision
<1>. QED
  BY <1>2, <1>6, <1>7, <1>8 DEF Settled, AsOfItsRevision

LEMMA SnapshotWork ==
  ASSUME Shape, SnapshotInv, NEW l \in Lock, Work(l) \/ Fail(l)
  PROVE  SnapshotInv'
<1>1. CASE Snapshot(l)
  <2>1. PICK b : BuildStep(l, b) /\ b.phase = "built" /\ UNCHANGED caching
    BY <1>1, SnapshotIs
  <2>2. log' = log /\ \A j \in DOMAIN cache' : cache'[j] \in Handed
    BY <2>1 DEF BuildStep, caching, Handed
  <2>3. \A x \in Handed' : x \in Handed
    BY <2>1, <2>2, BuildHands
  <2>4. \A x \in InTheMaking' : x \in InTheMaking \/ Copied(x)'
    BY <1>1, SnapshotCopies
  <2>. QED
    BY <2>2, <2>3, <2>4, SnapshotKept
<1>2. CASE ReadPageRevision(l)
  <2>1. PICK b : BuildStep(l, b) /\ b.phase = "built" /\ UNCHANGED caching
    BY <1>2, ReadPageRevisionIs
  <2>2. log' = log /\ \A j \in DOMAIN cache' : cache'[j] \in Handed
    BY <2>1 DEF BuildStep, caching, Handed
  <2>3. \A x \in Handed' : x \in Handed
    BY <2>1, <2>2, BuildHands
  <2>4. \A x \in InTheMaking' : x \in InTheMaking \/ Copied(x)'
    BY <1>2, ReadingCopies
  <2>. QED
    BY <2>2, <2>3, <2>4, SnapshotKept
<1>3. CASE Verify(l)
  <2>1. PICK b : /\ BuildStep(l, b) /\ Held(b) /\ UNCHANGED caching
                 /\ build[l].phase = "built" /\ Unread(l) = {}
                 /\ \/ b.phase = "prepared" /\ b.region = build[l].region /\ Unchanged(l)
                    \/ b.phase \in {"start", "failed"} /\ b.region = None
    BY <1>3, VerifyIs
  <2>2. log' = log /\ log \in Seq(SUBSET Column) /\ \A j \in DOMAIN cache' : cache'[j] \in Handed
    BY <2>1 DEF BuildStep, caching, Handed, Shape, TypeInv
  <2>3. \A x \in InTheMaking' : x \in InTheMaking
    BY <2>1, <2>2, BuildHands
  <2>4. CASE b.phase = "prepared" /\ b.region = build[l].region /\ Unchanged(l)
    <3>. DEFINE x == build[l].region
    <3>1. /\ build[l] # None /\ b.root = build[l].root /\ b.root \in Root
          /\ b.region = x /\ x.root = b.root /\ x \in Region
      BY <2>1, <2>4 DEF BuildStep, Held
    <3>2. Copied(x)
      BY <2>1, <3>1 DEF SnapshotInv, InTheMaking
    <3>3. Revision(x.root) = x.revision /\ \A p \in PagesOf[x.root] : x.pages[p].revision # None
      BY <2>1, <2>4, <3>1 DEF Unchanged, Unread
    <3>. HIDE DEF x
    <3>4. Settled(x)
      BY <3>1, <3>2, <3>3, VerifySettles
    <3>5. \A y \in Handed' : y \in Handed \/ Settled(y)'
      <4>1. \A y \in Handed' : y \in Handed \/ y = x
        BY <2>1, <2>2, <3>1, BuildHands
      <4>2. ASSUME NEW CONSTANT y, y = x PROVE Settled(y)'
        <5>1. Settled(y)
          BY <3>4, <4>2
        <5>. QED
          BY <2>2, <5>1, SettledStays
      <4>. QED
        BY <4>1, <4>2
    <3>. QED
      BY <2>2, <2>3, <3>5, SnapshotKept
  <2>5. CASE b.phase \in {"start", "failed"}
    <3>1. \A x \in Handed' : x \in Handed
      BY <2>1, <2>2, <2>5, BuildHands
    <3>. QED
      BY <2>2, <2>3, <3>1, SnapshotKept
  <2>. QED
    BY <2>1, <2>4, <2>5
<1>4. CASE Fail(l)
  <2>1. PICK b : BuildStep(l, b) /\ b.phase = "failed" /\ UNCHANGED caching
    BY <1>4, FailIs
  <2>2. log' = log /\ \A j \in DOMAIN cache' : cache'[j] \in Handed
    BY <2>1 DEF BuildStep, caching, Handed
  <2>3. (\A x \in Handed' : x \in Handed) /\ \A x \in InTheMaking' : x \in InTheMaking
    BY <2>1, <2>2, BuildHands
  <2>. QED
    BY <2>2, <2>3, SnapshotKept
<1>5. CASE Publish(l)
  <2>1. PICK b : /\ BuildStep(l, b) /\ Insert(b.region) /\ b.region \in Region
                 /\ build[l].phase = "prepared" /\ b.phase = "published" /\ b.region = build[l].region
    BY <1>5, PublishIs
  <2>2. log' = log /\ build[l] # None
    BY <2>1 DEF BuildStep
  <2>3. b.region \in Handed
    BY <2>1, <2>2 DEF Handed
  <2>4. \A j \in DOMAIN cache' : cache'[j] \in Handed
    <3>1. \A j \in DOMAIN cache' : cache'[j] = b.region \/ \E m \in DOMAIN cache : cache'[j] = cache[m]
      BY <2>1, InsertIs DEF Shape, TypeInv
    <3>2. \A m \in DOMAIN cache : cache[m] \in Handed
      BY DEF Handed
    <3>. QED
      BY <2>3, <3>1, <3>2
  <2>5. (\A x \in Handed' : x \in Handed) /\ \A x \in InTheMaking' : x \in InTheMaking
    BY <2>1, <2>3, <2>4, BuildHands
  <2>. QED
    BY <2>2, <2>5, SnapshotKept
<1>6. CASE Finish(l) \/ Abandon(l)
  <2>1. /\ build[l] # None /\ build' = [build EXCEPT ![l] = None] /\ log' = log /\ cache' = cache
        /\ \/ known' = known
           \/ /\ build[l].phase = "published"
              /\ known' = [known EXCEPT ![build[l].caller] = build[l].region]
    BY <1>6, FinishIs DEF Finish, Abandon, End, world, caching, Deliver
  <2>2. build'[l] = None /\ \A k \in Lock : k # l => build'[k] = build[k]
    BY <2>1 DEF Shape, TypeInv
  <2>3. \A k \in Lock : build'[k] # None => build'[k] = build[k] /\ build[k] # None
    BY <2>2
  <2>4. \A x \in InTheMaking' : x \in InTheMaking
    BY <2>3 DEF InTheMaking
  <2>5. \A c \in Caller : known'[c] = known[c] \/ (known'[c] = build[l].region /\ build[l].phase = "published")
    BY <2>1 DEF Shape, TypeInv
  <2>6. build[l].phase = "published" => build[l].region \in Handed
    BY <2>1 DEF Handed
  <2>7. \A c \in Caller : known'[c] # None => known'[c] \in Handed
    BY <2>5, <2>6 DEF Handed
  <2>8. \A x \in Handed' : x \in Handed
    <3>. TAKE x \in Handed'
    <3>1. CASE \E j \in DOMAIN cache' : x = cache'[j]
      BY <2>1, <3>1 DEF Handed
    <3>2. CASE x \in {known'[c] : c \in Caller} \ {None}
      BY <2>7, <3>2
    <3>3. CASE \E k \in Lock : /\ x = build'[k].region /\ build'[k] # None
                               /\ build'[k].phase \in {"prepared", "published"}
      BY <2>3, <3>3 DEF Handed
    <3>. QED
      BY <3>1, <3>2, <3>3 DEF Handed
  <2>. QED
    BY <2>1, <2>4, <2>8, SnapshotKept
<1>. QED
  BY <1>1, <1>2, <1>3, <1>4, <1>5, <1>6 DEF Work

\* Callers are handed what is in the cache, and leave the builds their regions.
LEMMA SnapshotCallers ==
  ASSUME Shape, SnapshotInv, log' = log,
         \/ cache' = cache /\ \A c \in Caller : known'[c] \in {known[c], None}
         \/ \E i \in DOMAIN cache :
              cache' = Touched(i) /\ \A c \in Caller : known'[c] \in {known[c], cache[i]},
         \A l \in Lock : build'[l] # None /\ build'[l].phase # "start" =>
           /\ build[l] # None
           /\ build'[l].phase = build[l].phase /\ build'[l].region = build[l].region
  PROVE  SnapshotInv'
<1>1. \A j \in DOMAIN cache' : \E m \in DOMAIN cache : cache'[j] = cache[m]
  BY TouchedIs DEF Shape, TypeInv
<1>2. \A c \in Caller : known'[c] # None => known'[c] \in Handed
  BY DEF Handed
<1>3. \A x \in Handed' : x \in Handed
  <2>. TAKE x \in Handed'
  <2>1. CASE \E j \in DOMAIN cache' : x = cache'[j]
    BY <1>1, <2>1 DEF Handed
  <2>2. CASE x \in {known'[c] : c \in Caller} \ {None}
    BY <1>2, <2>2
  <2>3. CASE \E k \in Lock : /\ x = build'[k].region /\ build'[k] # None
                             /\ build'[k].phase \in {"prepared", "published"}
    <3>1. PICK k \in Lock : /\ x = build'[k].region /\ build'[k] # None
                            /\ build'[k].phase \in {"prepared", "published"}
      BY <2>3
    <3>2. build[k] # None /\ x = build[k].region /\ build[k].phase \in {"prepared", "published"}
      BY <3>1
    <3>. QED
      BY <3>2 DEF Handed
  <2>. QED
    BY <2>1, <2>2, <2>3 DEF Handed
<1>4. \A x \in InTheMaking' : x \in InTheMaking
  <2>. TAKE x \in InTheMaking'
  <2>1. PICK k \in Lock : x = build'[k].region /\ build'[k] # None /\ build'[k].phase = "built"
    BY DEF InTheMaking
  <2>2. build[k] # None /\ x = build[k].region /\ build[k].phase = "built"
    BY <2>1
  <2>. QED
    BY <2>2 DEF InTheMaking
<1>. QED
  BY <1>3, <1>4, SnapshotKept

LEMMA SnapshotNext ==
  ASSUME Shape, SnapshotInv, [Next]_vars
  PROVE  SnapshotInv'
<1>1. CASE UNCHANGED vars
  <2>1. log' = log /\ cache' = cache /\ known' = known /\ build' = build
    BY <1>1 DEF vars
  <2>. QED
    BY <2>1, SnapshotCallers
<1>2. ASSUME NEW columns \in Edit, Commit(columns) PROVE SnapshotInv'
  <2>1. log' = Append(log, columns) /\ cache' = cache /\ known' = known /\ build' = build
    BY <1>2 DEF Commit, caching, building
  <2>2. Handed' = Handed /\ InTheMaking' = InTheMaking
    BY <2>1 DEF Handed, InTheMaking
  <2>. QED
    BY <2>1, <2>2, SnapshotKept
<1>3. ASSUME NEW c \in Caller, NEW r \in Root, Ask(c, r) PROVE SnapshotInv'
  <2>1. /\ log' = log /\ build' = build
        /\ \/ cache' = cache /\ known' = [known EXCEPT ![c] = None]
           \/ \E i \in DOMAIN cache : cache' = Touched(i) /\ known' = [known EXCEPT ![c] = cache[i]]
    BY <1>3, HitIs DEF Ask, world, building
  <2>2. \/ cache' = cache /\ \A d \in Caller : known'[d] \in {known[d], None}
        \/ \E i \in DOMAIN cache :
             cache' = Touched(i) /\ \A d \in Caller : known'[d] \in {known[d], cache[i]}
    BY <2>1 DEF Shape, TypeInv
  <2>. QED
    BY <2>1, <2>2, SnapshotCallers
<1>4. ASSUME NEW c \in Caller, Recheck(c) PROVE SnapshotInv'
  <2>1. /\ log' = log /\ build' = build
        /\ \/ cache' = cache /\ known' = known
           \/ \E i \in DOMAIN cache : cache' = Touched(i) /\ known' = [known EXCEPT ![c] = cache[i]]
    BY <1>4, HitIs DEF Recheck, Deliver, world, building
  <2>2. \/ cache' = cache /\ \A d \in Caller : known'[d] \in {known[d], None}
        \/ \E i \in DOMAIN cache :
             cache' = Touched(i) /\ \A d \in Caller : known'[d] \in {known[d], cache[i]}
    BY <2>1 DEF Shape, TypeInv
  <2>. QED
    BY <2>1, <2>2, SnapshotCallers
<1>5. ASSUME NEW c \in Caller, Join(c) \/ TakeRegionPermit(c) PROVE SnapshotInv'
  <2>1. log' = log /\ build' = build /\ cache' = cache /\ known' = known
    BY <1>5 DEF Join, TakeRegionPermit, world, building, caching
  <2>. QED
    BY <2>1, SnapshotCallers
<1>6. ASSUME NEW c \in Caller, Spawn(c) PROVE SnapshotInv'
  <2>. DEFINE new == [root |-> call[c].root, caller |-> c, phase |-> "start",
                      attempt |-> 1, region |-> None]
  <2>1. /\ log' = log /\ cache' = cache /\ known' = known
        /\ build' = [build EXCEPT ![call[c].lock] = new] /\ new.phase = "start"
    BY <1>6 DEF Spawn, world, caching
  <2>. HIDE DEF new
  <2>2. \A l \in Lock : build'[l] = build[l] \/ build'[l].phase = "start"
    BY <2>1 DEF Shape, TypeInv
  <2>3. \A l \in Lock : build'[l] # None /\ build'[l].phase # "start" =>
          /\ build[l] # None
          /\ build'[l].phase = build[l].phase /\ build'[l].region = build[l].region
    BY <2>2
  <2>. QED
    BY <2>1, <2>3, SnapshotCallers
<1>7. ASSUME NEW c \in Caller, Cancel(c) PROVE SnapshotInv'
  <2>. DEFINE l == call[c].lock
  <2>1. /\ log' = log /\ cache' = cache /\ known' = known
        /\ \/ build' = build
           \/ pc[c] = "building" /\ build' = [build EXCEPT ![l].caller = None]
    BY <1>7 DEF Cancel, world, caching, building
  <2>2. CASE pc[c] = "building" /\ build' = [build EXCEPT ![l].caller = None]
    <3>1. l \in Lock /\ build[l] # None /\ build[l] \in Build
      BY <2>2 DEF Shape, CallInv, TypeInv
    <3>2. /\ build'[l] = [build[l] EXCEPT !.caller = None]
          /\ \A k \in Lock : k # l => build'[k] = build[k]
      BY <2>2, <3>1 DEF Shape, TypeInv
    <3>3. build'[l].phase = build[l].phase /\ build'[l].region = build[l].region
      BY <3>1, <3>2 DEF Build
    <3>. HIDE DEF l
    <3>4. \A k \in Lock : build'[k] # None /\ build'[k].phase # "start" =>
            /\ build[k] # None
            /\ build'[k].phase = build[k].phase /\ build'[k].region = build[k].region
      BY <3>1, <3>2, <3>3
    <3>. QED
      BY <2>1, <3>4, SnapshotCallers
  <2>3. CASE build' = build
    BY <2>1, <2>3, SnapshotCallers
  <2>. QED
    BY <2>1, <2>2, <2>3
<1>8. ASSUME NEW l \in Lock, Work(l) \/ Fail(l) PROVE SnapshotInv'
  BY <1>8, SnapshotWork
<1>. QED
  BY <1>1, <1>2, <1>3, <1>4, <1>5, <1>6, <1>7, <1>8 DEF Next, Proceed

\* A page never shows less or more than its revision says, whatever commits fell
\* between the copy of the edits and the reading of the revisions
\* (prepare_terrain_region).
THEOREM RegionsStaySnapshots == Spec => []RegionsAreSnapshots
<1>1. Init => Shape /\ SnapshotInv
  <2>. SUFFICES ASSUME Init PROVE SnapshotInv
    BY ShapeInit
  <2>1. cache = <<>> /\ (\A c \in Caller : known[c] = None) /\ \A l \in Lock : build[l] = None
    BY DEF Init
  <2>2. DOMAIN cache = {}
    BY <2>1
  <2>3. Handed = {} /\ InTheMaking = {}
    BY <2>1, <2>2 DEF Handed, InTheMaking
  <2>. QED
    BY <2>3 DEF SnapshotInv
<1>2. Shape /\ SnapshotInv /\ [Next]_vars => (Shape /\ SnapshotInv)'
  BY ShapeNext, SnapshotNext
<1>3. SnapshotInv => RegionsAreSnapshots
  BY DEF SnapshotInv, Handed, Settled, RegionsAreSnapshots
<1>. QED
  BY <1>1, <1>2, <1>3, PTL DEF Spec

-----------------------------------------------------------------------------
(* The browser.  Iteration.                                                *)

\* A function applied n times is f after n - 1 times.
LEMMA IteratedIs ==
  ASSUME NEW f, NEW x
  PROVE  /\ Iterated(f, x, 0) = x
         /\ \A n \in Nat : Iterated(f, x, n + 1) = f[Iterated(f, x, n)]
<1>. DEFINE Step(g, i) == f[g[i - 1]]
            IsAt(g, m) == g = [i \in 0..m |-> IF i = 0 THEN x ELSE Step(g, i)]
            Solved == {m \in Nat : \E g : IsAt(g, m)}
<1>1. 0 \in Solved
  <2>. DEFINE g == [i \in 0..0 |-> x]
  <2>1. IsAt(g, 0)
    OBVIOUS
  <2>. QED
    BY <2>1
<1>2. ASSUME NEW m \in Solved PROVE m + 1 \in Solved
  <2>1. PICK g : IsAt(g, m)
    <3>. HIDE DEF IsAt
    <3>. QED
      BY <1>2
  <2>. DEFINE last == f[g[m]]
              longer == [i \in 0..m + 1 |-> IF i = m + 1 THEN last ELSE g[i]]
  <2>2. ASSUME NEW i \in 0..m + 1 PROVE longer[i] = IF i = 0 THEN x ELSE Step(longer, i)
    <3>1. CASE i = m + 1
      <4>1. i # 0 /\ i - 1 = m /\ m \in 0..m + 1 /\ m # m + 1
        BY <3>1
      <4>2. longer[i] = last /\ longer[i - 1] = g[m]
        BY <3>1, <4>1
      <4>. QED
        BY <3>1, <4>1, <4>2
    <3>2. CASE i # m + 1
      <4>1. i \in 0..m
        BY <3>2
      <4>2. longer[i] = g[i] /\ (i # 0 => longer[i - 1] = g[i - 1])
        BY <3>2, <4>1
      <4>3. g[i] = IF i = 0 THEN x ELSE Step(g, i)
        BY <2>1, <4>1
      <4>. QED
        BY <4>2, <4>3
    <3>. QED
      BY <3>1, <3>2
  <2>3. IsAt(longer, m + 1)
    <3>1. longer = [i \in 0..m + 1 |-> longer[i]]
      OBVIOUS
    <3>. HIDE DEF longer
    <3>. QED
      BY <2>2, <3>1
  <2>4. \E c : IsAt(c, m + 1)
    <3>. HIDE DEF IsAt, longer
    <3>. QED
      BY <2>3
  <2>. QED
    BY <2>4
<1>3. Solved = Nat
  <2>. HIDE DEF Solved
  <2>1. Solved \in SUBSET Nat
    BY DEF Solved
  <2>. QED
    BY <1>1, <1>2, <2>1, SetInduction
<1>4. ASSUME NEW m \in Nat
      PROVE  \E g : IsAt(g, m) /\ Iterated(f, x, m) = g[m]
  <2>. DEFINE g == CHOOSE c : IsAt(c, m)
  <2>1. IsAt(g, m)
    <3>1. \E c : IsAt(c, m)
      <4>. HIDE DEF IsAt
      <4>. QED
        BY <1>3
    <3>. QED
      BY <3>1
  <2>2. Iterated(f, x, m) = g[m]
    BY DEF Iterated
  <2>. HIDE DEF g
  <2>. QED
    BY <2>1, <2>2
<1>5. ASSUME NEW g, NEW m \in Nat, IsAt(g, m)
      PROVE  g[0] = x /\ \A i \in 1..m : g[i] = f[g[i - 1]]
  <2>1. \A i \in 0..m : g[i] = IF i = 0 THEN x ELSE Step(g, i)
    BY <1>5
  <2>. QED
    BY <2>1
<1>. HIDE DEF IsAt
<1>6. Iterated(f, x, 0) = x
  BY <1>4, <1>5
<1>. DEFINE Agreed == {i \in Nat : \A m \in Nat : \A g : IsAt(g, m) /\ i <= m => g[i] = Iterated(f, x, i)}
<1>7. 0 \in Agreed
  BY <1>5, <1>6
<1>8. ASSUME NEW i \in Agreed PROVE i + 1 \in Agreed
  <2>1. ASSUME NEW m \in Nat, NEW g, IsAt(g, m), i + 1 <= m PROVE g[i + 1] = f[Iterated(f, x, i)]
    <3>1. i + 1 \in 1..m /\ (i + 1) - 1 = i /\ i <= m
      BY <2>1
    <3>2. g[i] = Iterated(f, x, i)
      BY <1>8, <2>1, <3>1
    <3>3. g[i + 1] = f[g[i]]
      BY <1>5, <2>1, <3>1
    <3>. QED
      BY <3>2, <3>3
  <2>2. PICK c : IsAt(c, i + 1) /\ Iterated(f, x, i + 1) = c[i + 1]
    BY <1>4
  <2>3. Iterated(f, x, i + 1) = f[Iterated(f, x, i)]
    BY <2>1, <2>2
  <2>. QED
    BY <2>1, <2>3
<1>9. Agreed = Nat
  <2>. HIDE DEF Agreed
  <2>1. Agreed \in SUBSET Nat
    BY DEF Agreed
  <2>. QED
    BY <1>7, <1>8, <2>1, SetInduction
<1>10. ASSUME NEW n \in Nat PROVE Iterated(f, x, n + 1) = f[Iterated(f, x, n)]
  <2>1. PICK g : IsAt(g, n + 1) /\ Iterated(f, x, n + 1) = g[n + 1]
    BY <1>4
  <2>2. n + 1 \in 1..n + 1 /\ (n + 1) - 1 = n /\ n <= n + 1 /\ n + 1 \in Nat
    OBVIOUS
  <2>3. g[n + 1] = f[g[n]]
    BY <1>5, <2>1, <2>2
  <2>4. g[n] = Iterated(f, x, n)
    BY <1>9, <2>1, <2>2
  <2>. QED
    BY <2>1, <2>3, <2>4
<1>. QED
  BY <1>6, <1>10

\* What the function keeps, its iteration keeps.
LEMMA IteratedStays ==
  ASSUME NEW f, NEW G, NEW x \in G, \A y \in G : f[y] \in G, NEW n \in Nat
  PROVE  Iterated(f, x, n) \in G
<1>. DEFINE Good == {i \in Nat : Iterated(f, x, i) \in G}
<1>1. 0 \in Good
  BY IteratedIs
<1>2. ASSUME NEW i \in Good PROVE i + 1 \in Good
  <2>1. i \in Nat /\ i + 1 \in Nat /\ Iterated(f, x, i) \in G
    OBVIOUS
  <2>2. Iterated(f, x, i + 1) = f[Iterated(f, x, i)]
    BY <2>1, IteratedIs
  <2>. QED
    BY <2>1, <2>2
<1>3. Good = Nat
  <2>. HIDE DEF Good
  <2>1. Good \in SUBSET Nat
    BY DEF Good
  <2>. QED
    BY <1>1, <1>2, <2>1, SetInduction
<1>. QED
  BY <1>3

LEMMA IteratedTwice ==
  ASSUME NEW f, NEW x, NEW m \in Nat, NEW n \in Nat
  PROVE  Iterated(f, Iterated(f, x, m), n) = Iterated(f, x, m + n)
<1>0. \A j \in Nat : Iterated(f, x, j + 1) = f[Iterated(f, x, j)]
  BY IteratedIs
<1>. DEFINE y == Iterated(f, x, m)
            Good == {i \in Nat : Iterated(f, y, i) = Iterated(f, x, m + i)}
<1>1. 0 \in Good
  BY IteratedIs
<1>2. ASSUME NEW i \in Good PROVE i + 1 \in Good
  <2>1. m + (i + 1) = (m + i) + 1 /\ m + i \in Nat /\ i \in Nat
    OBVIOUS
  <2>2. Iterated(f, y, i + 1) = f[Iterated(f, y, i)]
    <3>. HIDE DEF y
    <3>. QED
      BY <2>1, IteratedIs
  <2>3. Iterated(f, x, (m + i) + 1) = f[Iterated(f, x, m + i)]
    BY <1>0, <2>1
  <2>. QED
    BY <1>2, <2>1, <2>2, <2>3
<1>3. Good = Nat
  <2>. HIDE DEF Good
  <2>1. Good \in SUBSET Nat
    BY DEF Good
  <2>. QED
    BY <1>1, <1>2, <2>1, SetInduction
<1>. QED
  BY <1>3

-----------------------------------------------------------------------------
(* The tree of pages.                                                      *)

\* A page is the parent of its children, and below it.
LEMMA ChildrenAre ==
  ASSUME NEW k \in Nat \X Nat, NEW c \in Children(k)
  PROVE  /\ c \in Nat \X Nat /\ c[1] = k[1] - 1 /\ k[1] > 0
         /\ Parent[c] = k
<1>1. k = <<k[1], k[2]>> /\ k[1] \in Nat /\ k[2] \in Nat /\ k[1] # 0
  BY DEF Children
<1>2. c = <<k[1] - 1, 2 * k[2]>> \/ c = <<k[1] - 1, 2 * k[2] + 1>>
  BY <1>1 DEF Children
<1>3. c[1] = k[1] - 1 /\ c[2] \in {2 * k[2], 2 * k[2] + 1} /\ c = <<c[1], c[2]>>
  BY <1>2
<1>4. c[2] \div 2 = k[2] /\ c[2] \in Nat /\ c[1] \in Nat /\ c[1] + 1 = k[1]
  BY <1>1, <1>3
<1>5. Parent[c] = <<c[1] + 1, c[2] \div 2>>
  BY <1>3, <1>4 DEF Parent
<1>. QED
  BY <1>1, <1>3, <1>4, <1>5

LEMMA ParentHas ==
  ASSUME NEW k \in Nat \X Nat
  PROVE  /\ Parent[k] \in Nat \X Nat /\ Parent[k][1] = k[1] + 1
         /\ k \in Children(Parent[k])
<1>1. k = <<k[1], k[2]>> /\ k[1] \in Nat /\ k[2] \in Nat
  OBVIOUS
<1>. DEFINE p == k[1] + 1
            q == k[2] \div 2
<1>2. Parent[k] = <<p, q>>
  BY <1>1 DEF Parent
<1>3. q \in Nat /\ (k[2] = 2 * q \/ k[2] = 2 * q + 1) /\ p \in Nat /\ p # 0 /\ p - 1 = k[1]
  BY <1>1
<1>. HIDE DEF p, q
<1>4. Children(<<p, q>>) = {<<p - 1, 2 * q>>, <<p - 1, 2 * q + 1>>}
  BY <1>3 DEF Children
<1>5. k \in Children(<<p, q>>)
  BY <1>1, <1>3, <1>4
<1>. QED
  BY <1>2, <1>3, <1>5 DEF p

LEMMA ImageFinite ==
  ASSUME NEW S, IsFiniteSet(S), NEW f, DOMAIN f = S
  PROVE  IsFiniteSet({f[x] : x \in S})
<1>. DEFINE T == {f[x] : x \in S}
            g == [x \in S |-> f[x]]
<1>1. g \in Surjection(S, T)
  BY DEF Surjection
<1>. HIDE DEF g, T
<1>2. IsFiniteSet(T)
  BY <1>1, FS_Surjection
<1>. QED
  BY <1>2 DEF T

\* The pages n levels under the coverage roots.
Level(n) == Iterated(Finer, CoverageRoot, n)

LEMMA LevelIs ==
  ASSUME NEW n \in 0..MaxLevel
  PROVE  /\ \A k \in Level(n) : k \in Nat \X Nat /\ k[1] = MaxLevel - n
         /\ IsFiniteSet(Level(n))
<1>0. MaxLevel \in Nat /\ Columns \in Nat
  BY TreeAssumption
<1>. DEFINE Fits(m) == \A k \in Level(m) : k \in Nat \X Nat /\ k[1] = MaxLevel - m
            Good == {m \in Nat : m <= MaxLevel => Fits(m) /\ IsFiniteSet(Level(m))}
<1>1. 0 \in Good
  <2>1. Level(0) = CoverageRoot
    BY IteratedIs DEF Level
  <2>2. \A k \in CoverageRoot : k \in Nat \X Nat /\ k[1] = MaxLevel
    BY <1>0 DEF CoverageRoot
  <2>3. IsFiniteSet(CoverageRoot)
    <3>1. IsFiniteSet(0..(Columns - 1))
      BY <1>0, FS_Interval
    <3>. DEFINE S == 0..(Columns - 1)
                f == [x \in S |-> <<MaxLevel, x>>]
    <3>2. CoverageRoot = {f[x] : x \in S} /\ DOMAIN f = S
      BY DEF CoverageRoot
    <3>. HIDE DEF f, S
    <3>. QED
      BY <3>1, <3>2, ImageFinite DEF S
  <2>. QED
    BY <1>0, <2>1, <2>2, <2>3
<1>2. ASSUME NEW m \in Good PROVE m + 1 \in Good
  <2>1. SUFFICES ASSUME m + 1 <= MaxLevel PROVE Fits(m + 1) /\ IsFiniteSet(Level(m + 1))
    OBVIOUS
  <2>2. Fits(m) /\ IsFiniteSet(Level(m)) /\ m \in Nat
    BY <1>0, <1>2, <2>1
  <2>3. Level(m + 1) = UNION {Children(k) : k \in Level(m)}
    <3>1. Level(m + 1) = Finer[Level(m)]
      BY <2>2, IteratedIs DEF Level
    <3>2. Level(m) \in SUBSET (Nat \X Int)
      BY <2>2
    <3>. QED
      BY <3>1, <3>2 DEF Finer
  <2>4. Fits(m + 1)
    <3>1. ASSUME NEW k \in Level(m), NEW c \in Children(k)
          PROVE  c \in Nat \X Nat /\ c[1] = MaxLevel - (m + 1)
      <4>1. k \in Nat \X Nat /\ k[1] = MaxLevel - m
        BY <2>2
      <4>2. c \in Nat \X Nat /\ c[1] = k[1] - 1
        BY <4>1, ChildrenAre
      <4>. QED
        BY <1>0, <2>2, <4>1, <4>2
    <3>. QED
      BY <2>3, <3>1
  <2>5. IsFiniteSet(Level(m + 1))
    <3>. DEFINE all == {Children(k) : k \in Level(m)}
    <3>1. IsFiniteSet(all)
      <4>. DEFINE f == [k \in Level(m) |-> Children(k)]
      <4>1. all = {f[k] : k \in Level(m)} /\ DOMAIN f = Level(m)
        OBVIOUS
      <4>. HIDE DEF f, all
      <4>. QED
        BY <2>2, <4>1, ImageFinite
    <3>2. \A S \in all : IsFiniteSet(S)
      <4>1. ASSUME NEW k PROVE IsFiniteSet(Children(k))
        <5>1. IsFiniteSet({<<k[1] - 1, 2 * k[2]>>}) /\ IsFiniteSet({<<k[1] - 1, 2 * k[2] + 1>>})
          BY FS_Singleton
        <5>2. IsFiniteSet({<<k[1] - 1, 2 * k[2]>>} \cup {<<k[1] - 1, 2 * k[2] + 1>>})
          BY <5>1, FS_Union
        <5>3. Children(k) \subseteq {<<k[1] - 1, 2 * k[2]>>} \cup {<<k[1] - 1, 2 * k[2] + 1>>}
          BY DEF Children
        <5>. QED
          BY <5>2, <5>3, FS_Subset
      <4>. QED
        BY <4>1
    <3>. HIDE DEF all
    <3>3. IsFiniteSet(UNION all)
      BY <3>1, <3>2, FS_UNION
    <3>. QED
      BY <2>3, <3>3 DEF all
  <2>. QED
    BY <2>4, <2>5
<1>3. Good = Nat
  <2>. HIDE DEF Good
  <2>1. Good \in SUBSET Nat
    BY DEF Good
  <2>. QED
    BY <1>1, <1>2, <2>1, SetInduction
<1>4. n \in Good /\ n <= MaxLevel
  <2>. HIDE DEF Good
  <2>. QED
    BY <1>0, <1>3
<1>. QED
  BY <1>4

\* A page has a level up to that of the roots; its children and, below the
\* roots, its parent are pages.
LEMMA KeyIs ==
  ASSUME NEW k \in Key
  PROVE  /\ k \in Nat \X Nat /\ k[1] \in 0..MaxLevel
         /\ \A c \in Children(k) : c \in Key
         /\ k[1] # MaxLevel => Parent[k] \in Key
         /\ k[1] = MaxLevel => k \in CoverageRoot
<1>0. MaxLevel \in Nat
  BY TreeAssumption
<1>1. PICK n \in 0..MaxLevel : k \in Level(n)
  BY DEF Key, Level
<1>2. k \in Nat \X Nat /\ k[1] = MaxLevel - n
  BY <1>1, LevelIs
<1>3. ASSUME NEW m \in 0..MaxLevel PROVE Level(m) \subseteq Key /\ Level(m) \in SUBSET (Nat \X Int)
  <2>1. Level(m) \subseteq Key
    BY DEF Key, Level
  <2>2. \A j \in Level(m) : j \in Nat \X Nat
    BY LevelIs
  <2>. QED
    BY <2>1, <2>2
<1>4. ASSUME NEW m \in 0..MaxLevel, m + 1 <= MaxLevel PROVE Level(m + 1) = UNION {Children(j) : j \in Level(m)}
  <2>1. m \in Nat
    BY <1>0
  <2>2. Level(m + 1) = Finer[Level(m)]
    BY <2>1, IteratedIs DEF Level
  <2>. QED
    BY <1>3, <2>2 DEF Finer
<1>5. ASSUME NEW c \in Children(k) PROVE c \in Key
  <2>1. k[1] > 0
    BY <1>2, ChildrenAre
  <2>2. n + 1 \in 0..MaxLevel /\ n + 1 <= MaxLevel
    BY <1>0, <1>2, <2>1
  <2>3. c \in Level(n + 1)
    BY <1>1, <1>4, <2>2
  <2>. QED
    BY <1>3, <2>2, <2>3
<1>6. ASSUME k[1] # MaxLevel PROVE Parent[k] \in Key
  <2>1. n - 1 \in 0..MaxLevel /\ (n - 1) + 1 = n /\ n <= MaxLevel
    BY <1>0, <1>2, <1>6
  <2>2. PICK p \in Level(n - 1) : k \in Children(p)
    BY <1>1, <1>4, <2>1
  <2>3. p \in Nat \X Nat
    BY <2>1, <2>2, LevelIs
  <2>4. Parent[k] = p
    BY <2>2, <2>3, ChildrenAre
  <2>. QED
    BY <1>3, <2>1, <2>2, <2>4
<1>7. ASSUME k[1] = MaxLevel PROVE k \in CoverageRoot
  <2>1. n = 0
    BY <1>0, <1>2, <1>7
  <2>2. Level(0) = CoverageRoot
    BY IteratedIs DEF Level
  <2>. QED
    BY <1>1, <2>1, <2>2
<1>8. k[1] \in 0..MaxLevel
  BY <1>0, <1>2
<1>. QED
  BY <1>2, <1>5, <1>6, <1>7, <1>8

LEMMA KeyFinite == IsFiniteSet(Key)
<1>0. MaxLevel \in Nat
  BY TreeAssumption
<1>. DEFINE all == {Level(n) : n \in 0..MaxLevel}
<1>1. IsFiniteSet(all)
  <2>1. IsFiniteSet(0..MaxLevel)
    BY <1>0, FS_Interval
  <2>. DEFINE S == 0..MaxLevel
              f == [n \in S |-> Level(n)]
  <2>2. all = {f[n] : n \in S} /\ DOMAIN f = S
    OBVIOUS
  <2>. HIDE DEF f, all, S
  <2>. QED
    BY <2>1, <2>2, ImageFinite DEF S
<1>2. \A S \in all : IsFiniteSet(S)
  BY LevelIs
<1>3. Key = UNION all
  BY DEF Key, Level
<1>. HIDE DEF all
<1>. QED
  BY <1>1, <1>2, <1>3, FS_UNION

LEMMA AncestorIs ==
  ASSUME NEW k \in Key, NEW l \in k[1]..MaxLevel
  PROVE  AncestorAt(k, l) \in Key /\ AncestorAt(k, l)[1] = l
<1>0. MaxLevel \in Nat /\ k[1] \in 0..MaxLevel /\ k[1] \in Nat
  BY TreeAssumption, KeyIs
<1>. DEFINE Up(n) == Iterated(Parent, k, n)
            Good == {n \in Nat : n <= MaxLevel - k[1] => Up(n) \in Key /\ Up(n)[1] = k[1] + n}
<1>1. 0 \in Good
  BY <1>0, IteratedIs
<1>2. ASSUME NEW n \in Good PROVE n + 1 \in Good
  <2>1. SUFFICES ASSUME n + 1 <= MaxLevel - k[1] PROVE Up(n + 1) \in Key /\ Up(n + 1)[1] = k[1] + (n + 1)
    OBVIOUS
  <2>2. Up(n) \in Key /\ Up(n)[1] = k[1] + n /\ n \in Nat
    BY <1>0, <1>2, <2>1
  <2>3. Up(n + 1) = Parent[Up(n)]
    BY <2>2, IteratedIs
  <2>. HIDE DEF Up
  <2>4. Up(n)[1] # MaxLevel
    BY <1>0, <2>1, <2>2
  <2>5. Parent[Up(n)] \in Key /\ Up(n) \in Nat \X Nat
    BY <2>2, <2>4, KeyIs
  <2>6. Parent[Up(n)][1] = Up(n)[1] + 1
    BY <2>5, ParentHas
  <2>. QED
    BY <1>0, <2>2, <2>3, <2>5, <2>6
<1>3. Good = Nat
  <2>. HIDE DEF Good
  <2>1. Good \in SUBSET Nat
    BY DEF Good
  <2>. QED
    BY <1>1, <1>2, <2>1, SetInduction
<1>4. l - k[1] \in Good /\ l - k[1] <= MaxLevel - k[1]
  <2>. HIDE DEF Good
  <2>. QED
    BY <1>0, <1>3
<1>5. Up(l - k[1]) \in Key /\ Up(l - k[1])[1] = k[1] + (l - k[1])
  BY <1>4
<1>6. AncestorAt(k, l) = Up(l - k[1])
  BY DEF AncestorAt
<1>. HIDE DEF Up
<1>. QED
  BY <1>0, <1>5, <1>6

\* A page is above itself, what is above an ancestor is above the page, and
\* what is above a child is the child or above the page.
LEMMA AncestryIs ==
  ASSUME NEW k \in Key
  PROVE  /\ k \in Ancestry[k] /\ Ancestry[k] \subseteq Key
         /\ \A a \in Ancestry[k] : Ancestry[a] \subseteq Ancestry[k]
         /\ \A c \in Children(k) : Ancestry[c] \subseteq {c} \cup Ancestry[k]
         /\ \E r \in CoverageRoot : r \in Ancestry[k]
<1>0. MaxLevel \in Nat /\ k[1] \in 0..MaxLevel /\ k[1] \in Nat /\ k \in Nat \X Nat
  BY TreeAssumption, KeyIs
<1>1. \A j \in Key : Ancestry[j] = {AncestorAt(j, l) : l \in j[1]..MaxLevel}
  BY DEF Ancestry
<1>2. AncestorAt(k, k[1]) = k
  BY <1>0, IteratedIs DEF AncestorAt
<1>3. k \in Ancestry[k] /\ Ancestry[k] \subseteq Key
  <2>1. k[1] \in k[1]..MaxLevel
    BY <1>0
  <2>2. \A l \in k[1]..MaxLevel : AncestorAt(k, l) \in Key
    BY AncestorIs
  <2>. QED
    BY <1>1, <1>2, <2>1, <2>2
<1>4. ASSUME NEW a \in Ancestry[k] PROVE Ancestry[a] \subseteq Ancestry[k]
  <2>1. PICK l \in k[1]..MaxLevel : a = AncestorAt(k, l)
    BY <1>1
  <2>2. a \in Key /\ a[1] = l /\ l \in Nat
    BY <1>0, <2>1, AncestorIs
  <2>3. ASSUME NEW m \in l..MaxLevel PROVE AncestorAt(a, m) = AncestorAt(k, m) /\ m \in k[1]..MaxLevel
    <3>1. m \in k[1]..MaxLevel /\ l - k[1] \in Nat /\ m - l \in Nat /\ (l - k[1]) + (m - l) = m - k[1]
      BY <1>0, <2>1, <2>2
    <3>2. Iterated(Parent, Iterated(Parent, k, l - k[1]), m - l) = Iterated(Parent, k, (l - k[1]) + (m - l))
      <4>. DEFINE u == l - k[1]
                  w == m - l
      <4>1. u \in Nat /\ w \in Nat
        BY <3>1
      <4>. HIDE DEF u, w
      <4>2. Iterated(Parent, Iterated(Parent, k, u), w) = Iterated(Parent, k, u + w)
        BY <4>1, IteratedTwice
      <4>. QED
        BY <4>2 DEF u, w
    <3>. QED
      BY <2>1, <2>2, <3>1, <3>2 DEF AncestorAt
  <2>. QED
    BY <1>1, <2>2, <2>3
<1>5. ASSUME NEW c \in Children(k) PROVE Ancestry[c] \subseteq {c} \cup Ancestry[k]
  <2>1. c \in Key /\ c[1] = k[1] - 1 /\ Parent[c] = k /\ c[1] \in Nat
    BY <1>0, ChildrenAre, KeyIs
  <2>2. ASSUME NEW m \in c[1]..MaxLevel PROVE AncestorAt(c, m) \in {c} \cup Ancestry[k]
    <3>1. CASE m = c[1]
      <4>1. AncestorAt(c, m) = c
        BY <2>1, <3>1, IteratedIs DEF AncestorAt
      <4>. QED
        BY <4>1
    <3>2. CASE m # c[1]
      <4>1. m \in k[1]..MaxLevel /\ m - k[1] \in Nat /\ 1 + (m - k[1]) = m - c[1] /\ 1 \in Nat
        BY <1>0, <2>1, <3>2
      <4>2. Iterated(Parent, c, 1) = k
        <5>1. Iterated(Parent, c, 0 + 1) = Parent[Iterated(Parent, c, 0)] /\ Iterated(Parent, c, 0) = c
          BY IteratedIs
        <5>2. 0 + 1 = 1
          OBVIOUS
        <5>. QED
          BY <2>1, <5>1, <5>2
      <4>3. Iterated(Parent, Iterated(Parent, c, 1), m - k[1]) = Iterated(Parent, c, 1 + (m - k[1]))
        BY <4>1, IteratedTwice
      <4>4. AncestorAt(c, m) = AncestorAt(k, m)
        BY <4>1, <4>2, <4>3 DEF AncestorAt
      <4>. QED
        BY <1>1, <4>1, <4>4
    <3>. QED
      BY <3>1, <3>2
  <2>. QED
    BY <1>1, <2>1, <2>2
<1>6. \E r \in CoverageRoot : r \in Ancestry[k]
  <2>1. MaxLevel \in k[1]..MaxLevel
    BY <1>0
  <2>2. AncestorAt(k, MaxLevel) \in Key /\ AncestorAt(k, MaxLevel)[1] = MaxLevel
    BY <2>1, AncestorIs
  <2>3. AncestorAt(k, MaxLevel) \in CoverageRoot
    BY <2>2, KeyIs
  <2>. QED
    BY <1>1, <2>1, <2>3
<1>. QED
  BY <1>3, <1>4, <1>5, <1>6


\* The ancestors of a page: one per level, each above those before it, and
\* the parent among them.
LEMMA AncestorsAre ==
  ASSUME NEW k \in Key
  PROVE  /\ \A a \in Ancestry[k] : a[1] \in k[1]..MaxLevel /\ (a[1] = k[1] => a = k)
         /\ \A a, b \in Ancestry[k] : a \in Ancestry[b] \/ b \in Ancestry[a]
         /\ \A c \in Children(k) : k \in Ancestry[c]
<1>0. MaxLevel \in Nat /\ k[1] \in 0..MaxLevel /\ k[1] \in Nat /\ k \in Nat \X Nat
  BY TreeAssumption, KeyIs
<1>1. \A j \in Key : Ancestry[j] = {AncestorAt(j, l) : l \in j[1]..MaxLevel}
  BY DEF Ancestry
<1>2. AncestorAt(k, k[1]) = k
  BY <1>0, IteratedIs DEF AncestorAt
<1>3. \A l \in k[1]..MaxLevel : AncestorAt(k, l) \in Key /\ AncestorAt(k, l)[1] = l
  BY AncestorIs
<1>4. ASSUME NEW a \in Ancestry[k] PROVE a[1] \in k[1]..MaxLevel /\ a = AncestorAt(k, a[1])
  BY <1>1, <1>3
<1>5. ASSUME NEW l \in k[1]..MaxLevel, NEW m \in l..MaxLevel PROVE AncestorAt(k, m) \in Ancestry[AncestorAt(k, l)]
  <2>. DEFINE a == AncestorAt(k, l)
              u == l - k[1]
              w == m - l
  <2>1. a \in Key /\ a[1] = l /\ l \in Nat /\ u \in Nat /\ w \in Nat /\ m - k[1] = u + w
    BY <1>0, <1>3
  <2>2. a = Iterated(Parent, k, u)
    BY DEF AncestorAt
  <2>3. AncestorAt(k, m) = Iterated(Parent, k, u + w)
    BY <2>1 DEF AncestorAt
  <2>4. AncestorAt(a, m) = Iterated(Parent, a, w)
    BY <2>1 DEF AncestorAt
  <2>. HIDE DEF a, u, w
  <2>5. AncestorAt(a, m) = AncestorAt(k, m)
    BY <2>1, <2>2, <2>3, <2>4, IteratedTwice
  <2>6. AncestorAt(a, m) \in Ancestry[a]
    BY <1>1, <2>1
  <2>. QED
    BY <2>5, <2>6 DEF a
<1>6. ASSUME NEW a \in Ancestry[k], NEW b \in Ancestry[k] PROVE a \in Ancestry[b] \/ b \in Ancestry[a]
  <2>1. /\ a[1] \in k[1]..MaxLevel /\ a = AncestorAt(k, a[1])
        /\ b[1] \in k[1]..MaxLevel /\ b = AncestorAt(k, b[1])
    BY <1>4
  <2>2. a[1] \in b[1]..MaxLevel \/ b[1] \in a[1]..MaxLevel
    BY <1>0, <2>1
  <2>. QED
    BY <1>5, <2>1, <2>2
<1>7. ASSUME NEW c \in Children(k) PROVE k \in Ancestry[c]
  <2>1. c \in Key /\ c[1] = k[1] - 1 /\ Parent[c] = k /\ c[1] \in Nat
    BY <1>0, ChildrenAre, KeyIs
  <2>2. k[1] \in c[1]..MaxLevel /\ k[1] - c[1] = 0 + 1
    BY <1>0, <2>1
  <2>3. Iterated(Parent, c, 0 + 1) = Parent[Iterated(Parent, c, 0)] /\ Iterated(Parent, c, 0) = c
    BY IteratedIs
  <2>4. AncestorAt(c, k[1]) = k
    BY <2>1, <2>2, <2>3 DEF AncestorAt
  <2>. QED
    BY <1>1, <2>1, <2>2, <2>4
<1>. QED
  BY <1>2, <1>4, <1>6, <1>7

-----------------------------------------------------------------------------
(* The cut builder.                                                        *)

\* What the cut builder may rely on of a hierarchy.
Stands(hh) ==
  /\ DOMAIN hh = {"segments", "resident", "coherent", "refined", "blockers", "used"}
  /\ hh.resident \subseteq Key
  /\ hh.coherent = Coherent(hh.resident)
  /\ hh.blockers \subseteq Key \X Key

\* The selected pages and all above them are resident.
Grounded(hh, selected) == \A k \in selected : Ancestry[k] \subseteq hh.resident

\* No selected page lies under another.
Apart(selected) == \A k, o \in selected : o \in Ancestry[k] => o = k

\* What every pass of the builder keeps.
Legal(hh, b) ==
  /\ Grounded(hh, b.selected)
  /\ Apart(b.selected)
  /\ b.balanceRefined \cap b.balanceSelected = {}

LEMMA CoherentIs ==
  ASSUME NEW hh, Stands(hh), NEW k \in hh.coherent
  PROVE  k \in Key /\ k \in hh.resident /\ Children(k) \subseteq hh.resident
BY DEF Stands, Coherent

LEMMA WantedIs ==
  ASSUME NEW hh, NEW S \in SUBSET Key
  PROVE  WantedPages(hh, S) \subseteq Key /\ WantedDirectories(hh, S) \subseteq Key
<1>1. ASSUME NEW p \in WantedPages(hh, S) PROVE p \in Key
  <2>1. PICK k \in S : p \in Children(k)
    BY DEF WantedPages
  <2>. QED
    BY <2>1, KeyIs
<1>2. WantedDirectories(hh, S) \subseteq Key
  BY DEF WantedDirectories
<1>. QED
  BY <1>1, <1>2

LEMMA VisitIs ==
  ASSUME NEW hh, Stands(hh), NEW v, NEW q
  PROVE  Visit(hh, v, q) \in Builder /\ Legal(hh, Visit(hh, v, q))
<1>. DEFINE V == Visited(hh, v, q)
            R == Refines(hh, v, q)
            shown == V \cap hh.resident
            forced == {k \in shown : Unresolved(hh, k) # {}}
            wants == {k \in shown \ (forced \cup R) : Wants(hh, v, q, k)}
            missing == wants \cup UNION {Unresolved(hh, k) : k \in forced}
            barred == {p \in hh.blockers : p[1] \in forced /\ p[2] \notin hh.coherent}
            pages == (V \ hh.resident) \cup WantedPages(hh, missing)
            directories == WantedDirectories(hh, missing)
<1>1. Visit(hh, v, q) = [selected |-> shown \ R, touched |-> shown \ R, refined |-> shown \cap R,
        balanceRefined |-> {}, balanceSelected |-> forced, blockers |-> barred, pages |-> pages,
        directories |-> directories, overflow |-> FALSE]
  BY DEF Visit
<1>2. V \subseteq Key
  BY DEF Visited
<1>3. missing \subseteq Key
  <2>1. \A k : Unresolved(hh, k) \subseteq Key
    BY DEF Unresolved
  <2>2. wants \subseteq Key
    BY <1>2
  <2>. HIDE DEF forced, wants
  <2>. QED
    BY <2>1, <2>2
<1>4. pages \subseteq Key /\ directories \subseteq Key
  <2>. HIDE DEF missing, V
  <2>. QED
    BY <1>2, <1>3, WantedIs
<1>5. barred \subseteq Key \X Key
  BY DEF Stands
<1>6. ASSUME NEW k \in shown PROVE Ancestry[k] \subseteq hh.resident
  <2>1. k \in V /\ k \in hh.resident
    OBVIOUS
  <2>2. Ancestry[k] \ {k} \subseteq R
    BY <2>1 DEF Visited
  <2>3. R \subseteq hh.resident
    <3>1. R \subseteq hh.coherent
      BY DEF Refines
    <3>. QED
      BY <3>1, CoherentIs
  <2>. QED
    BY <2>1, <2>2, <2>3
<1>7. shown \subseteq Key /\ forced \subseteq shown
  BY <1>2
<1>. HIDE DEF V, R, shown, forced, wants, missing, barred, pages, directories
<1>8. Visit(hh, v, q) \in Builder
  BY <1>1, <1>4, <1>5, <1>7 DEF Builder
<1>9. Visit(hh, v, q).selected = shown \ R /\ Visit(hh, v, q).balanceRefined = {}
  BY <1>1
<1>10. ASSUME NEW k \in shown \ R, NEW o \in shown \ R, o \in Ancestry[k] PROVE o = k
  <2>1. Ancestry[k] \ {k} \subseteq R
    BY DEF shown, V, R, Visited
  <2>. QED
    BY <1>10, <2>1
<1>. QED
  BY <1>6, <1>8, <1>9, <1>10 DEF Grounded, Apart, Legal

\* Refining coherent pages of the selection.
LEMMA RefinedIs ==
  ASSUME NEW hh, Stands(hh), NEW b \in Builder, Legal(hh, b),
         NEW C \in SUBSET b.selected, C \subseteq hh.coherent, C \cap b.balanceSelected = {}
  PROVE  Refined(b, C) \in Builder /\ Legal(hh, Refined(b, C))
<1>. DEFINE chosen == (b.selected \ C) \cup UNION {Children(c) : c \in C}
            r == Refined(b, C)
<1>0. b.selected \subseteq Key
  BY DEF Builder
<1>1. ASSUME NEW k \in chosen PROVE k \in Key /\ Ancestry[k] \subseteq hh.resident
  <2>1. CASE k \in b.selected
    BY <1>0, <2>1 DEF Grounded, Legal
  <2>2. CASE k \notin b.selected
    <3>1. PICK c \in C : k \in Children(c)
      BY <2>2
    <3>2. c \in Key /\ c \in hh.coherent /\ Ancestry[c] \subseteq hh.resident
      BY <1>0 DEF Grounded, Legal
    <3>3. k \in hh.resident /\ k \in Key
      BY <3>1, <3>2, CoherentIs DEF Stands
    <3>4. Ancestry[k] \subseteq {k} \cup Ancestry[c]
      BY <3>1, <3>2, AncestryIs
    <3>. QED
      BY <3>2, <3>3, <3>4
  <2>. QED
    BY <2>1, <2>2
<1>2. r.selected = chosen /\ r.balanceRefined = b.balanceRefined \cup C /\ r.balanceSelected = b.balanceSelected
  BY DEF Refined, Builder
<1>3. r = [b EXCEPT !.selected = chosen, !.refined = @ \cup C, !.balanceRefined = @ \cup C]
  BY DEF Refined
<1>4. chosen \subseteq Key
  BY <1>1
<1>5. r \in Builder
  <2>. HIDE DEF chosen, r
  <2>. QED
    BY <1>0, <1>3, <1>4 DEF Builder
<1>6. \A k, o \in b.selected : o \in Ancestry[k] => o = k
  BY DEF Legal, Apart
<1>7. ASSUME NEW k \in chosen
      PROVE  \E c \in b.selected :
               /\ c \in Key /\ c \in Ancestry[k] /\ Ancestry[k] \subseteq {k} \cup Ancestry[c]
               /\ (k = c /\ c \notin C) \/ (c \in C /\ k[1] = c[1] - 1)
  <2>1. CASE k \in b.selected \ C
    <3>1. k \in Key
      BY <1>0, <2>1
    <3>. QED
      BY <2>1, <3>1, AncestryIs
  <2>2. CASE k \notin b.selected \ C
    <3>1. PICK c \in C : k \in Children(c)
      BY <2>2
    <3>2. c \in Key /\ c \in Nat \X Nat
      BY <1>0, KeyIs
    <3>3. c \in Ancestry[k] /\ Ancestry[k] \subseteq {k} \cup Ancestry[c] /\ k[1] = c[1] - 1
      BY <3>1, <3>2, AncestryIs, AncestorsAre, ChildrenAre
    <3>. QED
      BY <3>2, <3>3
  <2>. QED
    BY <2>1, <2>2
<1>8. ASSUME NEW k \in chosen, NEW o \in chosen, o \in Ancestry[k] PROVE o = k
  <2>1. PICK c \in b.selected :
               /\ c \in Key /\ c \in Ancestry[k] /\ Ancestry[k] \subseteq {k} \cup Ancestry[c]
               /\ (k = c /\ c \notin C) \/ (c \in C /\ k[1] = c[1] - 1)
    BY <1>7
  <2>2. PICK d \in b.selected :
               /\ d \in Key /\ d \in Ancestry[o] /\ Ancestry[o] \subseteq {o} \cup Ancestry[d]
               /\ (o = d /\ d \notin C) \/ (d \in C /\ o[1] = d[1] - 1)
    BY <1>7
  <2>3. SUFFICES ASSUME o # k PROVE FALSE
    OBVIOUS
  <2>4. o \in Ancestry[c]
    BY <1>8, <2>1, <2>3
  <2>5. d \in Ancestry[c]
    BY <2>1, <2>2, <2>4, AncestryIs
  <2>6. d = c
    BY <1>6, <2>5
  <2>7. c \in C /\ o[1] = c[1] - 1
    BY <2>1, <2>2, <2>3, <2>6
  <2>8. o[1] \in c[1]..MaxLevel /\ c[1] \in Nat
    <3>1. c[1] \in 0..MaxLevel
      BY <2>1, KeyIs
    <3>. QED
      BY <2>1, <2>4, <3>1, AncestorsAre
  <2>. QED
    BY <2>7, <2>8
<1>9. (b.balanceRefined \cup C) \cap b.balanceSelected = {}
  BY DEF Legal
<1>. HIDE DEF chosen
<1>. QED
  BY <1>1, <1>2, <1>5, <1>8, <1>9 DEF Grounded, Legal, Apart

LEMMA AskedIs ==
  ASSUME NEW hh, NEW b \in Builder, NEW S \in SUBSET Key
  PROVE  /\ Asked(hh, b, S) \in Builder
         /\ Asked(hh, b, S).selected = b.selected
         /\ Asked(hh, b, S).balanceSelected = b.balanceSelected
         /\ Legal(hh, b) => Legal(hh, Asked(hh, b, S))
<1>. DEFINE wp == WantedPages(hh, S)
            wd == WantedDirectories(hh, S)
<1>1. wp \subseteq Key /\ wd \subseteq Key
  BY WantedIs
<1>2. Asked(hh, b, S) = [b EXCEPT !.pages = @ \cup wp, !.directories = @ \cup wd]
  BY DEF Asked
<1>. HIDE DEF wp, wd
<1>. QED
  BY <1>1, <1>2 DEF Builder, Legal

\* A coarsening target is resident and above the fine page.
LEMMA TargetIs ==
  ASSUME NEW hh, NEW e \in Key \X Key, HasTarget(hh, e)
  PROVE  Target(hh, e) \in Ancestry[e[1]]
<1>. DEFINE above == {a \in Ancestry[e[1]] : a[1] >= e[2][1] - 1 /\ a \in hh.resident}
            levels == {a[1] : a \in above}
            Least(a) == a \in above /\ \A o \in above : a[1] <= o[1]
<1>1. above # {}
  BY DEF HasTarget
<1>2. \A a \in above : a \in Key /\ a[1] \in Nat
  <2>1. e[1] \in Key
    OBVIOUS
  <2>2. \A a \in above : a \in Key
    BY <2>1, AncestryIs
  <2>. HIDE DEF above
  <2>3. ASSUME NEW a \in above PROVE a[1] \in Nat
    <3>1. a \in Key
      BY <2>2
    <3>2. a \in Nat \X Nat
      BY <3>1, KeyIs
    <3>. QED
      BY <3>2
  <2>. QED
    BY <2>2, <2>3
<1>3. PICK m \in levels : \A x \in levels : m <= x
  <2>1. levels \in SUBSET Nat /\ levels # {}
    BY <1>1, <1>2
  <2>. HIDE DEF levels
  <2>. QED
    BY <2>1, LeastNat
<1>4. \E a : Least(a)
  BY <1>3
<1>5. Target(hh, e) = CHOOSE a \in above : \A o \in above : a[1] <= o[1]
  BY DEF Target
<1>. HIDE DEF above
<1>6. Target(hh, e) \in above
  BY <1>4, <1>5
<1>. QED
  BY <1>6 DEF above

LEMMA GapsAre ==
  ASSUME NEW selected
  PROVE  Gaps(selected) \subseteq selected \X selected
BY DEF Gaps

LEMMA CoarsenedIs ==
  ASSUME NEW hh, Stands(hh), NEW v, NEW b \in Builder, Legal(hh, b),
         NEW edges \in SUBSET (b.selected \X b.selected)
  PROVE  Coarsened(hh, v, b, edges) \in Builder /\ Legal(hh, Coarsened(hh, v, b, edges))
<1>. DEFINE usable == {e \in edges : ~RequiresExact(v, e[1]) /\ HasTarget(hh, e)}
            targets == {Target(hh, e) : e \in usable}
            highest == {t \in targets : \A o \in targets : o \in Ancestry[t] => o = t}
            under(t) == {k \in b.selected : t \in Ancestry[k]}
            open == {t \in highest :
                       under(t) # {} /\ \A k \in under(t) : ~RequiresExact(v, k)}
            inserted == {t \in open : under(t) # {t}}
            replaced == UNION {under(t) : t \in inserted}
            below == {k \in Key : Ancestry[k] \cap inserted # {}}
            lessons(t) == UNION {BlockersOf(hh, b, e) :
                            e \in {x \in usable : t \in Ancestry[Target(hh, x)]}}
            learned == UNION {{t} \X lessons(t) : t \in open}
            c == Coarsened(hh, v, b, edges)
<1>0. b.selected \subseteq Key /\ b.blockers \subseteq Key \X Key
  BY DEF Builder
<1>1. c = [b EXCEPT !.selected = (@ \ replaced) \cup inserted,
                    !.balanceSelected = @ \cup inserted,
                    !.blockers = @ \cup learned,
                    !.refined = @ \ below,
                    !.balanceRefined = @ \ below]
  BY DEF Coarsened
<1>2. ASSUME NEW t \in targets PROVE t \in Key /\ Ancestry[t] \subseteq hh.resident
  <2>1. PICK e \in usable : t = Target(hh, e)
    OBVIOUS
  <2>2. e \in edges /\ HasTarget(hh, e) /\ e[1] \in b.selected /\ e \in Key \X Key /\ e[1] \in Key
    BY <1>0, <2>1
  <2>3. t \in Ancestry[e[1]]
    BY <2>1, <2>2, TargetIs
  <2>4. t \in Key /\ Ancestry[t] \subseteq Ancestry[e[1]]
    BY <2>2, <2>3, AncestryIs
  <2>5. Ancestry[e[1]] \subseteq hh.resident
    BY <2>2 DEF Grounded, Legal
  <2>. QED
    BY <2>4, <2>5
<1>3. open \subseteq targets /\ inserted \subseteq targets
  OBVIOUS
<1>4. ASSUME NEW e \in usable PROVE BlockersOf(hh, b, e) \subseteq Key
  <2>1. e[2] \in Key
    BY <1>0
  <2>2. \A x \in b.blockers : x[2] \in Key
    BY <1>0
  <2>. HIDE DEF usable
  <2>. QED
    BY <2>1, <2>2 DEF BlockersOf
<1>5. learned \subseteq Key \X Key
  <2>1. ASSUME NEW t \in open PROVE t \in Key /\ lessons(t) \subseteq Key
    <3>1. t \in Key
      BY <1>2, <1>3
    <3>2. lessons(t) \subseteq Key
      <4>. HIDE DEF usable
      <4>. QED
        BY <1>4
    <3>. QED
      BY <3>1, <3>2
  <2>. HIDE DEF open, lessons
  <2>. QED
    BY <2>1
<1>10. \A k, o \in b.selected : o \in Ancestry[k] => o = k
  BY DEF Legal, Apart
<1>11. ASSUME NEW k \in (b.selected \ replaced) \cup inserted, NEW o \in (b.selected \ replaced) \cup inserted,
              o \in Ancestry[k]
       PROVE  o = k
  <2>1. CASE k \in inserted /\ o \in inserted
    <3>1. k \in highest /\ o \in targets
      BY <2>1
    <3>. QED
      BY <1>11, <3>1
  <2>2. CASE k \in inserted /\ o \in b.selected \ replaced
    <3>1. PICK j \in b.selected : k \in Ancestry[j]
      BY <2>2
    <3>2. j \in Key /\ k \in Key
      BY <1>0, <1>2, <1>3, <2>2
    <3>3. o \in Ancestry[j]
      BY <1>11, <3>1, <3>2, AncestryIs
    <3>4. o = j /\ o \in Key
      BY <1>0, <1>10, <2>2, <3>3
    <3>5. o[1] \in k[1]..MaxLevel /\ k[1] \in o[1]..MaxLevel /\ (k[1] = o[1] => k = o)
      BY <1>11, <3>1, <3>2, <3>4, AncestorsAre
    <3>6. o[1] \in Nat /\ k[1] \in Nat
      <4>1. o[1] \in 0..MaxLevel /\ k[1] \in 0..MaxLevel
        BY <3>2, <3>4, KeyIs
      <4>. QED
        BY <4>1
    <3>. QED
      BY <3>5, <3>6
  <2>3. CASE k \in b.selected \ replaced /\ o \in inserted
    <3>1. k \in under(o)
      BY <1>11, <2>3
    <3>. QED
      BY <2>3, <3>1
  <2>4. CASE k \in b.selected /\ o \in b.selected
    BY <1>10, <1>11, <2>4
  <2>. QED
    BY <1>11, <2>1, <2>2, <2>3, <2>4
<1>12. inserted \subseteq below
  <2>1. \A t \in inserted : t \in Key /\ t \in Ancestry[t]
    BY <1>2, <1>3, AncestryIs
  <2>. HIDE DEF inserted
  <2>. QED
    BY <2>1
<1>. HIDE DEF usable, targets, open, inserted, replaced, below, learned, c
<1>6. inserted \subseteq Key
  BY <1>2, <1>3
<1>7. c \in Builder
  BY <1>0, <1>1, <1>5, <1>6 DEF Builder
<1>8. /\ c.selected = (b.selected \ replaced) \cup inserted
      /\ c.balanceSelected = b.balanceSelected \cup inserted
      /\ c.balanceRefined = b.balanceRefined \ below
  BY <1>1 DEF Builder
<1>9. Grounded(hh, c.selected)
  BY <1>2, <1>3, <1>8 DEF Grounded, Legal
<1>13. Apart(c.selected)
  BY <1>8, <1>11 DEF Apart
<1>14. c.balanceRefined \cap c.balanceSelected = {}
  BY <1>8, <1>12 DEF Legal
<1>. QED
  BY <1>7, <1>9, <1>13, <1>14 DEF c, Legal

\* A component of a set of gaps is a part of it.
LEMMA ComponentIs ==
  ASSUME NEW edges \in SUBSET (Key \X Key), NEW e \in edges
  PROVE  Component(edges, e) \subseteq edges
<1>. DEFINE spread == [S \in SUBSET edges |-> {d \in edges : \E o \in S : Joined(d, o)}]
            G == SUBSET edges
            n == Cardinality(edges)
            x == {e}
<1>1. n \in Nat
  <2>1. IsFiniteSet(Key \X Key)
    BY KeyFinite, FS_Product
  <2>2. IsFiniteSet(edges)
    BY <2>1, FS_Subset
  <2>. QED
    BY <2>2, FS_CardinalityType
<1>2. x \in G /\ \A y \in G : spread[y] \in G
  OBVIOUS
<1>3. Component(edges, e) = Iterated(spread, x, n)
  BY DEF Component
<1>. HIDE DEF spread, G, n, x
<1>4. Iterated(spread, x, n) \in G
  BY <1>1, <1>2, IteratedStays
<1>. QED
  BY <1>3, <1>4 DEF G

LEMMA HighestIs ==
  ASSUME NEW selected \in SUBSET Key
  PROVE  Highest(selected) \in Nat
<1>0. MaxLevel \in Nat
  BY TreeAssumption
<1>. DEFINE Top(l) == (\A k \in selected : k[1] <= l) /\ (l = 0 \/ \E k \in selected : k[1] = l)
<1>1. \A k \in selected : k[1] \in 0..MaxLevel
  <2>1. \A k \in selected : k \in Key
    OBVIOUS
  <2>. QED
    BY <2>1, KeyIs
<1>2. \E l \in 0..MaxLevel : Top(l)
  <2>1. CASE selected = {}
    BY <1>0, <2>1
  <2>2. CASE selected # {}
    <3>. DEFINE depths == {MaxLevel - k[1] : k \in selected}
    <3>1. depths \in SUBSET Nat /\ depths # {}
      BY <1>0, <1>1, <2>2
    <3>2. PICK m \in depths : \A x \in depths : m <= x
      <4>. HIDE DEF depths
      <4>. QED
        BY <3>1, LeastNat
    <3>3. PICK t \in selected : m = MaxLevel - t[1]
      BY <3>2
    <3>4. \A k \in selected : MaxLevel - t[1] <= MaxLevel - k[1]
      BY <3>2, <3>3
    <3>5. \A k \in selected : k[1] <= t[1]
      BY <1>0, <1>1, <3>4
    <3>. QED
      BY <1>1, <3>5
  <2>. QED
    BY <2>1, <2>2
<1>3. Highest(selected) = CHOOSE l \in 0..MaxLevel : Top(l)
  BY DEF Highest
<1>. HIDE DEF Top
<1>4. Highest(selected) \in 0..MaxLevel
  BY <1>2, <1>3
<1>. QED
  BY <1>0, <1>4

\* A builder in its passes that keeps to what is resident.
Sound(hh) == {s \in Passing : Legal(hh, s.cut)}

LEMMA BalancePassIs ==
  ASSUME NEW hh, Stands(hh), NEW v, NEW s \in Sound(hh)
  PROVE  BalancePass(hh, v, s) \in Sound(hh)
<1>. DEFINE b == s.cut
            unclosed == Gaps(b.selected)
            ready == {c \in Components(unclosed) : Ready(hh, b, c)}
            joint == UNION ready
            waiting == unclosed \ joint
            blocked == (CoarseOf(waiting) \ b.balanceSelected) \ hh.coherent
            asking == Asked(hh, b, blocked)
            coarsened == Coarsened(hh, v, asking, waiting)
            refined == Refined(asking, CoarseOf(joint))
            settles == coarsened.selected = b.selected
<1>1. b \in Builder /\ Legal(hh, b) /\ b.selected \subseteq Key
  BY DEF Sound, Passing, Builder
<1>2. BalancePass(hh, v, s) =
        IF s.settled \/ unclosed = {} THEN [s EXCEPT !.settled = TRUE]
        ELSE IF ready # {} THEN [cut |-> refined, settled |-> FALSE]
        ELSE [cut |-> coarsened, settled |-> settles]
  BY DEF BalancePass
<1>3. unclosed \subseteq b.selected \X b.selected /\ unclosed \in SUBSET (Key \X Key)
  BY <1>1, GapsAre
<1>. HIDE DEF unclosed
<1>4. ASSUME NEW c \in ready
      PROVE  /\ c \subseteq unclosed /\ CoarseOf(c) \subseteq hh.coherent
             /\ CoarseOf(c) \cap b.balanceSelected = {}
  <2>1. c \in Components(unclosed) /\ Ready(hh, b, c)
    OBVIOUS
  <2>2. PICK e \in unclosed : c = Component(unclosed, e)
    BY <2>1 DEF Components
  <2>3. c \subseteq unclosed
    BY <1>3, <2>2, ComponentIs
  <2>. QED
    BY <2>1, <2>3 DEF Ready
<1>5. /\ joint \subseteq unclosed /\ CoarseOf(joint) \subseteq hh.coherent
      /\ CoarseOf(joint) \cap b.balanceSelected = {}
  <2>. HIDE DEF ready
  <2>1. ASSUME NEW e \in joint PROVE e \in unclosed /\ e[2] \in hh.coherent /\ e[2] \notin b.balanceSelected
    <3>1. PICK c \in ready : e \in c
      OBVIOUS
    <3>. QED
      BY <1>4, <3>1 DEF CoarseOf
  <2>. QED
    BY <2>1 DEF CoarseOf
<1>. HIDE DEF ready, joint
<1>6. CoarseOf(joint) \subseteq b.selected
  BY <1>3, <1>5 DEF CoarseOf
<1>7. blocked \in SUBSET Key
  <2>1. CoarseOf(waiting) \subseteq Key
    BY <1>1, <1>3 DEF CoarseOf
  <2>. QED
    BY <2>1
<1>8. waiting \subseteq b.selected \X b.selected
  BY <1>3
<1>. HIDE DEF blocked, waiting, b
<1>9. /\ asking \in Builder /\ asking.selected = b.selected /\ Legal(hh, asking)
      /\ asking.balanceSelected = b.balanceSelected
  BY <1>1, <1>7, AskedIs
<1>. HIDE DEF asking
<1>10. refined \in Builder /\ Legal(hh, refined)
  <2>. DEFINE C == CoarseOf(joint)
  <2>1. C \in SUBSET asking.selected /\ C \subseteq hh.coherent /\ C \cap asking.balanceSelected = {}
    BY <1>1, <1>5, <1>6, <1>9
  <2>. HIDE DEF C
  <2>2. Refined(asking, C) \in Builder /\ Legal(hh, Refined(asking, C))
    BY <1>9, <2>1, RefinedIs
  <2>. QED
    BY <2>2 DEF C
<1>11. coarsened \in Builder /\ Legal(hh, coarsened)
  <2>1. waiting \in SUBSET (asking.selected \X asking.selected) /\ Legal(hh, asking)
    BY <1>1, <1>8, <1>9
  <2>. QED
    BY <1>9, <2>1, CoarsenedIs
<1>12. settles \in BOOLEAN
  OBVIOUS
<1>. HIDE DEF refined, coarsened, settles
<1>13. [s EXCEPT !.settled = TRUE] \in Sound(hh)
  BY DEF Sound, Passing
<1>14. [cut |-> refined, settled |-> FALSE] \in Sound(hh)
  BY <1>10 DEF Sound, Passing
<1>15. [cut |-> coarsened, settled |-> settles] \in Sound(hh)
  BY <1>11, <1>12 DEF Sound, Passing
<1>. QED
  BY <1>2, <1>13, <1>14, <1>15

LEMMA FlaggedIs ==
  ASSUME NEW hh, NEW b \in Builder, Legal(hh, b), NEW P \in BOOLEAN
  PROVE  [b EXCEPT !.overflow = @ \/ P] \in Builder /\ Legal(hh, [b EXCEPT !.overflow = @ \/ P])
<1>1. b.overflow \in BOOLEAN
  BY DEF Builder
<1>. DEFINE o == b.overflow \/ P
<1>2. o \in BOOLEAN
  OBVIOUS
<1>3. [b EXCEPT !.overflow = @ \/ P] = [b EXCEPT !.overflow = o]
  OBVIOUS
<1>. HIDE DEF o
<1>4. [b EXCEPT !.overflow = o] \in Builder /\ Legal(hh, [b EXCEPT !.overflow = o])
  BY <1>2 DEF Builder, Legal
<1>. QED
  BY <1>3, <1>4

LEMMA BalancedIs ==
  ASSUME NEW hh, Stands(hh), NEW v, NEW b \in Builder, Legal(hh, b)
  PROVE  Balanced(hh, v, b) \in Builder /\ Legal(hh, Balanced(hh, v, b))
<1>. DEFINE pass == [s \in Passing |-> BalancePass(hh, v, s)]
            first == [cut |-> b, settled |-> FALSE]
            n == 2 * (Highest(b.selected) + 1)
            last == Iterated(pass, first, n)
            late == ~last.settled /\ Gaps(last.cut.selected) # {}
            c == [last.cut EXCEPT !.overflow = @ \/ late]
            torn == c.balanceRefined \cap c.balanceSelected # {}
            d == [c EXCEPT !.overflow = @ \/ torn]
<1>1. Balanced(hh, v, b) = Checked(c)
  BY DEF Balanced, AfterBalance
<1>2. n \in Nat
  <2>1. Highest(b.selected) \in Nat
    BY HighestIs DEF Builder
  <2>. QED
    BY <2>1
<1>3. first \in Sound(hh)
  BY DEF Sound, Passing
<1>4. ASSUME NEW s \in Sound(hh) PROVE pass[s] \in Sound(hh)
  <2>1. s \in Passing
    BY DEF Sound
  <2>2. pass[s] = BalancePass(hh, v, s)
    BY <2>1
  <2>. QED
    BY <2>2, BalancePassIs
<1>. HIDE DEF pass, first, n
<1>5. last \in Sound(hh)
  BY <1>2, <1>3, <1>4, IteratedStays
<1>6. last.cut \in Builder /\ Legal(hh, last.cut) /\ last.settled \in BOOLEAN
  BY <1>5 DEF Sound, Passing
<1>. HIDE DEF last
<1>7. late \in BOOLEAN
  OBVIOUS
<1>. HIDE DEF late
<1>8. c \in Builder /\ Legal(hh, c)
  BY <1>6, <1>7, FlaggedIs
<1>. HIDE DEF c
<1>9. torn \in BOOLEAN
  OBVIOUS
<1>10. Checked(c) = [d EXCEPT !.touched = c.touched \cup c.selected]
  BY <1>8 DEF Checked, Builder
<1>. HIDE DEF torn
<1>11. d \in Builder /\ Legal(hh, d)
  BY <1>8, <1>9, FlaggedIs
<1>. HIDE DEF d
<1>12. Checked(c) \in Builder /\ Legal(hh, Checked(c))
  <2>1. c.touched \cup c.selected \in SUBSET Key
    BY <1>8 DEF Builder
  <2>. QED
    BY <1>10, <1>11, <2>1 DEF Builder, Legal
<1>. QED
  BY <1>1, <1>12

LEMMA HandoffPassIs ==
  ASSUME NEW hh, Stands(hh), NEW v, NEW s \in Sound(hh)
  PROVE  HandoffPass(hh, v, s) \in Sound(hh)
<1>. DEFINE b == s.cut
            bad == Mismatched(b.selected)
            ready == {c \in bad : c \in hh.coherent /\ c \notin b.balanceSelected}
            asking == Asked(hh, b, bad)
            closed == Balanced(hh, v, Refined(b, ready))
<1>1. b \in Builder /\ Legal(hh, b) /\ b.selected \subseteq Key
  BY DEF Sound, Passing, Builder
<1>2. HandoffPass(hh, v, s) =
        IF s.settled \/ bad = {} THEN [s EXCEPT !.settled = TRUE]
        ELSE IF ready = {} THEN [cut |-> asking, settled |-> TRUE]
        ELSE [cut |-> closed, settled |-> FALSE]
  BY DEF HandoffPass
<1>3. bad \subseteq b.selected /\ bad \in SUBSET Key
  BY <1>1 DEF Mismatched
<1>. HIDE DEF bad, b
<1>4. ready \in SUBSET b.selected /\ ready \subseteq hh.coherent /\ ready \cap b.balanceSelected = {}
  BY <1>3
<1>. HIDE DEF ready
<1>5. asking \in Builder /\ Legal(hh, asking)
  BY <1>1, <1>3, AskedIs
<1>6. Refined(b, ready) \in Builder /\ Legal(hh, Refined(b, ready))
  BY <1>1, <1>4, RefinedIs
<1>7. closed \in Builder /\ Legal(hh, closed)
  <2>. DEFINE r == Refined(b, ready)
  <2>1. r \in Builder /\ Legal(hh, r)
    BY <1>6
  <2>. HIDE DEF r
  <2>2. Balanced(hh, v, r) \in Builder /\ Legal(hh, Balanced(hh, v, r))
    BY <2>1, BalancedIs
  <2>. QED
    BY <2>2 DEF r
<1>. HIDE DEF asking, closed
<1>8. [s EXCEPT !.settled = TRUE] \in Sound(hh)
  BY DEF Sound, Passing
<1>9. [cut |-> asking, settled |-> TRUE] \in Sound(hh)
  BY <1>1, <1>5 DEF Sound, Passing
<1>10. [cut |-> closed, settled |-> FALSE] \in Sound(hh)
  BY <1>7 DEF Sound, Passing
<1>. QED
  BY <1>2, <1>8, <1>9, <1>10

LEMMA ClosedIs ==
  ASSUME NEW hh, Stands(hh), NEW v, NEW b \in Builder, Legal(hh, b)
  PROVE  Closed(hh, v, b) \in Builder /\ Legal(hh, Closed(hh, v, b))
<1>. DEFINE pass == [s \in Passing |-> HandoffPass(hh, v, s)]
            first == [cut |-> b, settled |-> FALSE]
            n == MaxLevel + 1
            last == Iterated(pass, first, n)
            late == ~last.settled
<1>1. Closed(hh, v, b) = [last.cut EXCEPT !.overflow = @ \/ late]
  BY DEF Closed, AfterHandoffs
<1>2. n \in Nat
  BY TreeAssumption
<1>3. first \in Sound(hh)
  BY DEF Sound, Passing
<1>4. ASSUME NEW s \in Sound(hh) PROVE pass[s] \in Sound(hh)
  <2>1. s \in Passing
    BY DEF Sound
  <2>2. pass[s] = HandoffPass(hh, v, s)
    BY <2>1
  <2>. QED
    BY <2>2, HandoffPassIs
<1>. HIDE DEF pass, first, n
<1>5. last \in Sound(hh)
  BY <1>2, <1>3, <1>4, IteratedStays
<1>6. last.cut \in Builder /\ Legal(hh, last.cut)
  BY <1>5 DEF Sound, Passing
<1>. HIDE DEF last
<1>7. late \in BOOLEAN
  OBVIOUS
<1>. HIDE DEF late
<1>. QED
  BY <1>1, <1>6, <1>7, FlaggedIs

\* Every leaf has an owner among the selected pages.
Complete(selected) == \A f \in Leaf : selected \cap Ancestry[f] # {}

LEMMA CompleteIs ==
  ASSUME NEW selected, Ownerless(selected) = {}
  PROVE  Complete(selected)
<1>. SUFFICES ASSUME NEW f \in Leaf PROVE selected \cap Ancestry[f] # {}
  BY DEF Complete
<1>1. f \in Key
  BY DEF Leaf
<1>2. PICK r \in CoverageRoot : r \in Ancestry[f]
  BY <1>1, AncestryIs
<1>3. r \in Key
  BY <1>1, <1>2, AncestryIs
<1>4. f \in LeavesOf[r]
  BY <1>2, <1>3 DEF LeavesOf
<1>. QED
  BY <1>2, <1>4 DEF Ownerless

LEMMA SelectCutIs ==
  ASSUME NEW hh, Stands(hh), NEW v, NEW q
  PROVE  LET new == SelectCut(hh, v, q)
         IN /\ new.pages \subseteq Key /\ new.selected \subseteq Key /\ new.blockers \subseteq Key \X Key
            /\ Grounded(hh, new.selected) /\ Apart(new.selected)
            /\ new.renderable => Complete(new.selected)
<1>. DEFINE first == Visit(hh, v, q)
            second == Balanced(hh, v, first)
            b == Closed(hh, v, second)
            new == SelectCut(hh, v, q)
<1>1. first \in Builder /\ Legal(hh, first)
  BY VisitIs
<1>. HIDE DEF first
<1>2. second \in Builder /\ Legal(hh, second)
  BY <1>1, BalancedIs
<1>. HIDE DEF second
<1>3. b \in Builder /\ Legal(hh, b)
  BY <1>2, ClosedIs
<1>4. new = CutOf(hh, b)
  BY DEF SelectCut, first, second
<1>. HIDE DEF b, new
<1>5. /\ new.pages = b.pages /\ new.blockers = b.blockers /\ new.selected = b.selected
      /\ new.renderable => Ownerless(b.selected) = {}
  BY <1>4 DEF CutOf
<1>. QED
  BY <1>3, <1>5, CompleteIs DEF Builder, Legal, new

-----------------------------------------------------------------------------
(* The hierarchy.                                                          *)

\* Installing siblings or lone pages, the coherence proofs are refreshed where
\* a page or one of its children is new.
LEMMA InstalledIs ==
  ASSUME NEW hh, Stands(hh), NEW g \in SUBSET Key
  PROVE  Stands(Installed(hh, g)) /\ Installed(hh, g).resident = hh.resident \cup g
<1>. DEFINE resident == hh.resident \cup g
            fresh == Coherent(resident) \cap (g \cup ParentsOf(g))
            i == Installed(hh, g)
<1>1. i = [hh EXCEPT !.resident = resident, !.coherent = @ \cup fresh]
  BY DEF Installed
<1>2. ASSUME NEW k \in Coherent(resident), k \notin Coherent(hh.resident) PROVE k \in g \cup ParentsOf(g)
  <2>1. k \in resident /\ k \notin Incoherent /\ Children(k) # {} /\ Children(k) \subseteq resident
    BY DEF Coherent
  <2>2. SUFFICES ASSUME k \in hh.resident, k \notin g PROVE k \in ParentsOf(g)
    BY <2>1
  <2>3. PICK c \in Children(k) : c \notin hh.resident
    BY <1>2, <2>1, <2>2 DEF Coherent
  <2>4. k \in Key /\ k \in Nat \X Nat /\ k[1] \in 0..MaxLevel /\ MaxLevel \in Nat
    BY <2>2, KeyIs, TreeAssumption DEF Stands
  <2>5. c \in g /\ c[1] = k[1] - 1 /\ Parent[c] = k
    BY <2>1, <2>3, <2>4, ChildrenAre
  <2>6. c[1] < MaxLevel
    BY <2>4, <2>5
  <2>. QED
    BY <2>5, <2>6 DEF ParentsOf
<1>3. Coherent(hh.resident) \subseteq Coherent(resident)
  BY DEF Coherent
<1>4. hh.coherent \cup fresh = Coherent(resident)
  BY <1>2, <1>3 DEF Stands
<1>5. resident \subseteq Key
  BY DEF Stands
<1>. HIDE DEF resident, fresh
<1>6. i.resident = resident /\ i.coherent = hh.coherent \cup fresh /\ i.blockers = hh.blockers
      /\ DOMAIN i = DOMAIN hh
  BY <1>1 DEF Stands
<1>. QED
  BY <1>4, <1>5, <1>6 DEF Stands, resident

\* Removing pages, the proofs of those above them go as well.
LEMMA RemovedIs ==
  ASSUME NEW hh, Stands(hh), NEW S \in SUBSET Key
  PROVE  Stands(Removed(hh, S)) /\ Removed(hh, S).resident = hh.resident \ S
<1>. DEFINE touched == S \cup ParentsOf(S)
            remaining == hh.resident \ S
            kept == {b \in hh.blockers : b[1] \notin S}
            used == Used(hh.used, S)
            r == Removed(hh, S)
<1>1. r = [hh EXCEPT !.resident = remaining, !.coherent = @ \ touched, !.refined = @ \ touched,
                     !.blockers = kept, !.used = used]
  BY DEF Removed, Stands
<1>2. ASSUME NEW k \in Coherent(hh.resident), k \notin touched PROVE k \in Coherent(remaining)
  <2>1. k \in hh.resident /\ k \notin Incoherent /\ Children(k) # {} /\ Children(k) \subseteq hh.resident
    BY DEF Coherent
  <2>2. k \in Key /\ k \in Nat \X Nat /\ k[1] \in 0..MaxLevel /\ MaxLevel \in Nat
    BY <2>1, KeyIs, TreeAssumption DEF Stands
  <2>3. ASSUME NEW c \in Children(k) PROVE c \notin S
    <3>1. c[1] = k[1] - 1 /\ Parent[c] = k
      BY <2>2, ChildrenAre
    <3>2. c[1] < MaxLevel
      BY <2>2, <3>1
    <3>. QED
      BY <1>2, <3>1, <3>2 DEF ParentsOf
  <2>. QED
    BY <1>2, <2>1, <2>3 DEF Coherent
<1>3. ASSUME NEW k \in Coherent(remaining) PROVE k \in Coherent(hh.resident) /\ k \notin touched
  <2>1. k \in remaining /\ k \notin Incoherent /\ Children(k) # {} /\ Children(k) \subseteq remaining
    BY DEF Coherent
  <2>2. k \in Coherent(hh.resident)
    BY <2>1 DEF Coherent
  <2>3. ASSUME k \in ParentsOf(S) PROVE FALSE
    <3>1. PICK p \in S : k = Parent[p]
      BY <2>3 DEF ParentsOf
    <3>2. p \in Nat \X Nat
      BY <3>1, KeyIs
    <3>3. p \in Children(k)
      BY <3>1, <3>2, ParentHas
    <3>. QED
      BY <2>1, <3>1, <3>3
  <2>. QED
    BY <2>1, <2>2, <2>3
<1>4. hh.coherent \ touched = Coherent(remaining)
  BY <1>2, <1>3 DEF Stands
<1>5. remaining \subseteq Key /\ kept \subseteq Key \X Key
  BY DEF Stands
<1>. HIDE DEF touched, remaining, kept, used
<1>6. r.resident = remaining /\ r.coherent = hh.coherent \ touched /\ r.blockers = kept
      /\ DOMAIN r = DOMAIN hh
  BY <1>1 DEF Stands
<1>. QED
  BY <1>4, <1>5, <1>6 DEF Stands, remaining

LEMMA WithoutRegionIs ==
  ASSUME NEW hh, Stands(hh), NEW r
  PROVE  Stands(WithoutRegion(hh, r))
<1>. DEFINE gone == {k \in Key : r \in Ancestry[k]}
            fallen == gone \cap hh.resident
            kept == Removed(hh, fallen)
            blockers == {b \in kept.blockers : b[1] \notin gone /\ b[2] \notin gone}
            w == WithoutRegion(hh, r)
<1>1. Stands(kept)
  <2>1. fallen \in SUBSET Key
    OBVIOUS
  <2>. HIDE DEF fallen
  <2>. QED
    BY <2>1, RemovedIs
<1>2. w = [kept EXCEPT !.segments = @ \ gone, !.refined = @ \ gone, !.blockers = blockers]
  BY <1>1 DEF WithoutRegion, Stands
<1>3. blockers \subseteq kept.blockers
  OBVIOUS
<1>. HIDE DEF gone, kept, blockers
<1>4. w.resident = kept.resident /\ w.coherent = kept.coherent /\ w.blockers = blockers
      /\ DOMAIN w = DOMAIN kept
  BY <1>1, <1>2 DEF Stands
<1>. QED
  BY <1>1, <1>3, <1>4 DEF Stands

\* Trimming to a selection leaves it and what is above it.
LEMMA TrimmedIs ==
  ASSUME NEW hh, Stands(hh), NEW selected
  PROVE  /\ Stands(Trimmed(hh, selected))
         /\ Grounded(hh, selected) => Grounded(Trimmed(hh, selected), selected)
<1>. DEFINE S == hh.resident \ UNION {Ancestry[k] : k \in selected}
<1>1. S \in SUBSET Key
  BY DEF Stands
<1>2. Trimmed(hh, selected) = Removed(hh, S)
  BY DEF Trimmed
<1>3. \A k \in selected : Ancestry[k] \cap S = {}
  OBVIOUS
<1>. HIDE DEF S
<1>4. Stands(Removed(hh, S)) /\ Removed(hh, S).resident = hh.resident \ S
  BY <1>1, RemovedIs
<1>. QED
  BY <1>2, <1>3, <1>4 DEF Grounded

-----------------------------------------------------------------------------
(* Selection.                                                              *)

\* A cut that may be frozen: what it asks for are pages, what it selected is
\* resident to the roots, and one that can be drawn has an owner for every leaf.
CutStands(hh, c) ==
  /\ c.pages \subseteq Key /\ c.selected \subseteq Key
  /\ Grounded(hh, c.selected) /\ Apart(c.selected)
  /\ c.renderable => Complete(c.selected)

LEMMA PlanIs ==
  ASSUME NEW hh, Stands(hh), NEW c
  PROVE  /\ Stands(Plan(hh, c).h) /\ Plan(hh, c).h.resident = hh.resident
         /\ CutStands(Plan(hh, c).h, Plan(hh, c).cut)
<1>. DEFINE q == CoversDesired(c)
            new == SelectCut(hh, view, q)
            used == Used(Append(Used(hh.used, new.touched), new.touched), {})
            touched == [hh EXCEPT !.used = used]
            remembered == [touched EXCEPT !.refined = new.refined, !.blockers = new.blockers]
            p == Plan(hh, c)
<1>1. /\ new.pages \subseteq Key /\ new.selected \subseteq Key /\ new.blockers \subseteq Key \X Key
      /\ Grounded(hh, new.selected) /\ Apart(new.selected)
      /\ new.renderable => Complete(new.selected)
  <2>. HIDE DEF q
  <2>. QED
    BY SelectCutIs
<1>2. p = [h |-> IF new.renderable THEN remembered ELSE touched,
           cut |-> [selected |-> new.selected, pages |-> new.pages,
                    directories |-> new.directories, overflow |-> new.overflow,
                    renderable |-> new.renderable]]
  BY DEF Plan, Remembering, Stands
<1>. HIDE DEF new, used
<1>3. Stands(touched) /\ touched.resident = hh.resident
  BY DEF Stands
<1>. HIDE DEF touched
<1>4. Stands(remembered) /\ remembered.resident = hh.resident
  BY <1>1, <1>3 DEF Stands
<1>. HIDE DEF remembered
<1>5. Stands(p.h) /\ p.h.resident = hh.resident
  BY <1>2, <1>3, <1>4
<1>6. p.cut.pages = new.pages /\ p.cut.selected = new.selected /\ p.cut.renderable = new.renderable
  BY <1>2
<1>. QED
  BY <1>1, <1>5, <1>6 DEF CutStands, Grounded, p

\* What is admitted are pages.
LEMMA GroupsAre ==
  ASSUME NEW pages \in SUBSET Key, NEW g \in Groups(pages)
  PROVE  g \in SUBSET Key
<1>1. \A k \in Key : Children(k) \subseteq Key
  BY KeyIs
<1>. QED
  BY <1>1 DEF Groups

-----------------------------------------------------------------------------
(* The cuts on display and in preparation.                                 *)

\* A presented or frozen cut: its pages do not overlap and leave no leaf out,
\* and unless an edit made it outdated they are resident to the roots.
Owns(hh, c) ==
  /\ DOMAIN c = {"selected", "view", "current"}
  /\ Apart(c.selected) /\ Complete(c.selected) /\ c.selected \subseteq Key
  /\ c.current => Grounded(hh, c.selected)

\* The inductive invariant.  A frame has a cut to work with, and it only
\* installs groups while nothing is frozen.
TerrainInv ==
  /\ Stands(h)
  /\ streaming \/ cut # Nothing => CutStands(h, cut)
  /\ \A owned \in {committed, publication} \ {Nothing} : Owns(h, owned)
  /\ left > 0 => publication = Nothing

\* A cut keeps its pages under a hierarchy that keeps them.
LEMMA OwnsStays ==
  ASSUME NEW hh, NEW c, Owns(hh, c), NEW h2,
         \A k \in c.selected : \A a \in Ancestry[k] : a \in hh.resident => a \in h2.resident
  PROVE  Owns(h2, c)
<1>1. c.current => Grounded(h2, c.selected)
  BY DEF Owns, Grounded
<1>. QED
  BY <1>1 DEF Owns

LEMMA TerrainInitHolds == TerrainInit => TerrainInv
<1>. SUFFICES ASSUME TerrainInit PROVE TerrainInv
  OBVIOUS
<1>1. Stands(h)
  <2>1. h = [segments |-> {}, resident |-> {}, coherent |-> {}, refined |-> {}, blockers |-> {}, used |-> <<>>]
    BY DEF TerrainInit
  <2>2. h.resident = {} /\ h.coherent = {} /\ h.blockers = {}
        /\ DOMAIN h = {"segments", "resident", "coherent", "refined", "blockers", "used"}
    BY <2>1
  <2>3. Coherent({}) = {}
    BY DEF Coherent
  <2>. QED
    BY <2>2, <2>3 DEF Stands
<1>2. cut = Nothing /\ committed = Nothing /\ publication = Nothing /\ left = 0 /\ streaming = FALSE
  BY DEF TerrainInit
<1>. QED
  BY <1>1, <1>2 DEF TerrainInv

\* Steps that touch neither the hierarchy nor the cuts.
LEMMA IdleHolds ==
  ASSUME TerrainInv, UNCHANGED <<terrain, left, streaming>>
  PROVE  TerrainInv'
BY DEF TerrainInv, terrain

LEMMA RegisterHolds ==
  ASSUME TerrainInv, NEW k, Register(k)
  PROVE  TerrainInv'
<1>1. /\ ~streaming /\ cut' = Nothing /\ streaming' = streaming /\ left' = left
      /\ committed' = committed /\ publication' = publication
      /\ h' = [h EXCEPT !.segments = @ \cup {k}]
  BY DEF Register
<1>2. Stands(h') /\ h'.resident = h.resident
  BY <1>1 DEF TerrainInv, Stands
<1>3. \A owned \in {committed, publication} \ {Nothing} : Owns(h', owned)
  BY <1>2, OwnsStays DEF TerrainInv
<1>. QED
  BY <1>1, <1>2, <1>3 DEF TerrainInv

LEMMA MoveHolds ==
  ASSUME TerrainInv, NEW v, Move(v)
  PROVE  TerrainInv'
<1>1. /\ ~streaming /\ cut' = Nothing /\ streaming' = streaming /\ left' = left /\ h' = h
      /\ committed' = committed /\ publication' \in {publication, Nothing}
  BY DEF Move
<1>. QED
  BY <1>1 DEF TerrainInv

\* An edit outdates the cut on display and discards the one in preparation:
\* both own the edited leaf.
LEMMA InvalidateHolds ==
  ASSUME TerrainInv, NEW f \in Edited, Invalidate(f)
  PROVE  TerrainInv'
<1>. DEFINE r == AncestorAt(f, MaxLevel)
<1>1. f \in Leaf
  BY VirtualTerrainAssumption
<1>2. \A c \in {committed, publication} \ {Nothing} : c.selected \cap Ancestry[f] # {}
  BY <1>1 DEF TerrainInv, Owns, Complete
<1>3. /\ ~streaming /\ cut' = Nothing /\ streaming' = streaming /\ left' = left
      /\ h' = WithoutRegion(h, r)
      /\ publication' = Nothing
      /\ committed # Nothing => committed' = [committed EXCEPT !.current = FALSE]
      /\ committed = Nothing => committed' = Nothing
  BY <1>2 DEF Invalidate
<1>4. Stands(h')
  BY <1>3, WithoutRegionIs DEF TerrainInv
<1>5. ASSUME committed # Nothing PROVE Owns(h', committed')
  <2>1. Owns(h, committed)
    BY <1>5 DEF TerrainInv
  <2>2. /\ committed'.selected = committed.selected /\ committed'.current = FALSE
        /\ DOMAIN committed' = DOMAIN committed
    BY <1>3, <1>5, <2>1 DEF Owns
  <2>. QED
    BY <2>1, <2>2 DEF Owns
<1>. QED
  BY <1>3, <1>4, <1>5 DEF TerrainInv

LEMMA FrameHolds ==
  ASSUME TerrainInv, Frame
  PROVE  TerrainInv'
<1>. DEFINE commit == Promotable
            shown == IF commit THEN publication ELSE committed
            busy == publication # Nothing /\ ~commit
            trimmed == IF commit THEN Trimmed(h, publication.selected) ELSE h
            plan == IF commit \/ cut = Nothing THEN Plan(trimmed, shown) ELSE [h |-> h, cut |-> cut]
<1>1. /\ committed' = shown
      /\ publication' = IF commit THEN Nothing ELSE publication
      /\ left' = IF busy THEN 0 ELSE GroupsPerFrame
      /\ streaming' = TRUE
  BY DEF Frame
<1>2. h' = plan.h /\ cut' = plan.cut
  <2>1. CASE commit \/ cut = Nothing
    <3>1. Adopt(Plan(trimmed, shown)) /\ plan = Plan(trimmed, shown)
      BY <2>1 DEF Frame
    <3>. QED
      BY <3>1 DEF Adopt
  <2>2. CASE ~(commit \/ cut = Nothing)
    <3>1. h' = h /\ cut' = cut /\ plan = [h |-> h, cut |-> cut]
      BY <2>2 DEF Frame
    <3>. QED
      BY <3>1
  <2>. QED
    BY <2>1, <2>2
<1>3. Stands(trimmed)
  BY TrimmedIs DEF TerrainInv
<1>4. commit => publication # Nothing
  BY DEF Promotable
<1>5. ASSUME shown # Nothing PROVE Owns(trimmed, shown)
  <2>1. CASE commit
    <3>1. Owns(h, publication) /\ shown = publication /\ trimmed = Trimmed(h, publication.selected)
      BY <1>4, <2>1 DEF TerrainInv
    <3>2. Grounded(h, publication.selected) => Grounded(trimmed, publication.selected)
      BY <3>1, TrimmedIs DEF TerrainInv
    <3>. QED
      BY <3>1, <3>2 DEF Owns
  <2>2. CASE ~commit
    BY <1>5, <2>2 DEF TerrainInv
  <2>. QED
    BY <2>1, <2>2
<1>6. Stands(plan.h) /\ plan.h.resident = trimmed.resident /\ CutStands(plan.h, plan.cut)
  <2>1. CASE commit \/ cut = Nothing
    <3>1. plan = Plan(trimmed, shown)
      BY <2>1
    <3>. HIDE DEF trimmed, shown, plan
    <3>. QED
      BY <1>3, <3>1, PlanIs
  <2>2. CASE ~(commit \/ cut = Nothing)
    <3>1. plan = [h |-> h, cut |-> cut] /\ trimmed = h
      BY <2>2
    <3>2. CutStands(h, cut)
      BY <2>2 DEF TerrainInv
    <3>3. plan.h = h /\ plan.cut = cut
      BY <3>1
    <3>. QED
      BY <1>3, <3>1, <3>2, <3>3
  <2>. QED
    BY <2>1, <2>2
<1>7. \A owned \in {committed', publication'} \ {Nothing} : Owns(trimmed, owned)
  <2>1. CASE commit
    BY <1>1, <1>5, <2>1
  <2>2. CASE ~commit
    BY <1>1, <2>2 DEF TerrainInv
  <2>. QED
    BY <2>1, <2>2
<1>8. left' > 0 => publication' = Nothing
  BY <1>1
<1>. HIDE DEF plan, trimmed
<1>9. \A owned \in {committed', publication'} \ {Nothing} : Owns(h', owned)
  BY <1>2, <1>6, <1>7, OwnsStays
<1>. QED
  BY <1>1, <1>2, <1>6, <1>8, <1>9 DEF TerrainInv

\* Admission evicts nothing the cut on display owns, and none is frozen.
LEMMA HydrateHolds ==
  ASSUME TerrainInv, streaming, NEW g \in ReadyGroups, Hydrate(g)
  PROVE  TerrainInv'
<1>1. /\ left > 0 /\ left' = left - 1 /\ streaming' = streaming
      /\ committed' = committed /\ publication' = publication
  BY DEF Hydrate
<1>2. PICK S \in Reclaims(g) :
        /\ h' = Plan(Installed(Removed(h, S), g), committed).h
        /\ cut' = Plan(Installed(Removed(h, S), g), committed).cut
  BY DEF Hydrate, Adopt
<1>3. S \subseteq h.resident \ Protected(g)
  BY <1>2 DEF Reclaims
<1>4. g \in SUBSET Key
  <2>1. g \in Groups(cut.pages) /\ cut.pages \in SUBSET Key
    BY DEF ReadyGroups, TerrainInv, CutStands
  <2>. QED
    BY <2>1, GroupsAre
<1>. DEFINE removed == Removed(h, S)
            installed == Installed(removed, g)
<1>5. S \in SUBSET Key /\ Stands(h)
  BY <1>3 DEF TerrainInv, Stands
<1>6. Stands(removed) /\ removed.resident = h.resident \ S
  BY <1>5, RemovedIs
<1>. HIDE DEF removed
<1>7. Stands(installed) /\ installed.resident = removed.resident \cup g
  BY <1>4, <1>6, InstalledIs
<1>8. h' = Plan(installed, committed).h /\ cut' = Plan(installed, committed).cut
  BY <1>2 DEF removed
<1>. HIDE DEF installed
<1>9. Stands(h') /\ h'.resident = installed.resident /\ CutStands(h', cut')
  BY <1>7, <1>8, PlanIs
<1>10. ASSUME committed # Nothing PROVE Owns(h', committed)
  <2>1. Owns(h, committed)
    BY <1>10 DEF TerrainInv
  <2>2. ASSUME NEW k \in committed.selected, NEW a \in Ancestry[k], a \in h.resident PROVE a \in h'.resident
    <3>1. a \in Protected(g)
      BY <1>10, <2>2 DEF Protected, ResidentAncestry
    <3>. QED
      BY <1>3, <1>6, <1>7, <1>9, <2>2, <3>1
  <2>. QED
    BY <2>1, <2>2, OwnsStays
<1>11. publication' = Nothing
  BY <1>1 DEF TerrainInv
<1>. QED
  BY <1>1, <1>9, <1>10, <1>11 DEF TerrainInv

LEMMA FinishFrameHolds ==
  ASSUME TerrainInv, FinishFrame
  PROVE  TerrainInv'
<1>. DEFINE frozen == [selected |-> cut.selected, view |-> view, current |-> TRUE]
<1>1. streaming /\ left' = 0 /\ streaming' = FALSE /\ CutStands(h, cut)
  BY DEF FinishFrame, TerrainInv
<1>2. Covers(cut, view) => Owns(h, frozen)
  <2>1. SUFFICES ASSUME cut.renderable PROVE Owns(h, frozen)
    BY DEF Covers
  <2>2. /\ Grounded(h, cut.selected) /\ Apart(cut.selected) /\ Complete(cut.selected)
        /\ cut.selected \subseteq Key
    BY <1>1, <2>1 DEF CutStands
  <2>3. frozen.selected = cut.selected /\ frozen.current = TRUE /\ DOMAIN frozen = {"selected", "view", "current"}
    OBVIOUS
  <2>. HIDE DEF frozen
  <2>. QED
    BY <2>2, <2>3 DEF Owns
<1>3. CASE /\ Covers(cut, view)
           /\ publication' = frozen
           /\ UNCHANGED <<h, cut, committed>>
  <2>. HIDE DEF frozen
  <2>1. \A owned \in {committed', publication'} \ {Nothing} : Owns(h', owned)
    BY <1>2, <1>3 DEF TerrainInv
  <2>. QED
    BY <1>1, <1>3, <2>1 DEF TerrainInv
<1>4. CASE /\ Covers(cut, view) /\ publication = Nothing /\ committed = frozen
           /\ h' = Trimmed(h, cut.selected) /\ cut' = Nothing
           /\ UNCHANGED <<committed, publication>>
  <2>1. Stands(h') /\ (Grounded(h, cut.selected) => Grounded(h', cut.selected))
    BY <1>4, TrimmedIs DEF TerrainInv
  <2>2. frozen.selected = cut.selected
    OBVIOUS
  <2>. HIDE DEF frozen
  <2>3. Owns(h', committed')
    BY <1>1, <1>2, <1>4, <2>1, <2>2 DEF Owns, CutStands
  <2>. QED
    BY <1>1, <1>4, <2>1, <2>3 DEF TerrainInv
<1>5. CASE UNCHANGED terrain
  BY <1>1, <1>5 DEF TerrainInv, terrain
<1>. QED
  BY <1>3, <1>4, <1>5 DEF FinishFrame, OnDisplay, terrain

LEMMA TerrainNextHolds == TerrainInv /\ [TerrainNext]_terrainVars => TerrainInv'
<1>. SUFFICES ASSUME TerrainInv, [TerrainNext]_terrainVars PROVE TerrainInv'
  OBVIOUS
<1>1. CASE PageArrives \/ Uploaded \/ Certify
  <2>1. UNCHANGED <<terrain, left, streaming>>
    BY <1>1 DEF PageArrives, Arrive, Uploaded, Certify
  <2>. QED
    BY <2>1, IdleHolds
<1>2. CASE DirectoryArrives
  BY <1>2, RegisterHolds DEF DirectoryArrives
<1>3. ASSUME NEW v \in Views, Move(v) PROVE TerrainInv'
  BY <1>3, MoveHolds
<1>4. ASSUME NEW f \in Edited, Invalidate(f) PROVE TerrainInv'
  BY <1>4, InvalidateHolds
<1>5. CASE Frame
  BY <1>5, FrameHolds
<1>6. ASSUME streaming, NEW g \in ReadyGroups, Hydrate(g) PROVE TerrainInv'
  BY <1>6, HydrateHolds
<1>7. CASE FinishFrame
  BY <1>7, FinishFrameHolds
<1>8. CASE UNCHANGED terrainVars
  <2>1. UNCHANGED <<terrain, left, streaming>>
    BY <1>8 DEF terrainVars
  <2>. QED
    BY <2>1, IdleHolds
<1>. QED
  BY <1>1, <1>2, <1>3, <1>4, <1>5, <1>6, <1>7, <1>8 DEF TerrainNext

LEMMA TerrainInvHolds == TerrainSpec => []TerrainInv
<1>. QED
  BY TerrainInitHolds, TerrainNextHolds, PTL DEF TerrainSpec

\* The coherence proofs kept in place are those of a validation from scratch
\* (install_page, remove_page, refresh_replacement_coherence).
THEOREM ProofsStayCurrent == TerrainSpec => []ProofsAreCurrent
<1>1. TerrainInv => ProofsAreCurrent
  BY DEF TerrainInv, Stands, ProofsAreCurrent
<1>. QED
  BY <1>1, TerrainInvHolds, PTL

\* No page of a cut on display or in preparation is evicted, trimmed or
\* invalidated under it (reclaim_virtual_terrain_logical_capacity).
THEOREM OwnersKeepTheirPages == TerrainSpec => []OwnersStayResident
<1>1. TerrainInv => OwnersStayResident
  <2>. SUFFICES ASSUME TerrainInv, NEW owned \in {committed, publication} \ {Nothing}, owned.current
                PROVE  UNION {Ancestry[k] : k \in owned.selected} \subseteq h.resident
    BY DEF OwnersStayResident
  <2>1. Grounded(h, owned.selected)
    BY DEF TerrainInv, Owns
  <2>. QED
    BY <2>1 DEF Grounded
<1>. QED
  BY <1>1, TerrainInvHolds, PTL

LEMMA OwnerIs ==
  ASSUME NEW selected, Apart(selected), NEW f \in Leaf, selected \cap Ancestry[f] # {}
  PROVE  Cardinality(selected \cap Ancestry[f]) = 1
<1>0. f \in Key
  BY DEF Leaf
<1>1. PICK k : k \in selected \cap Ancestry[f]
  OBVIOUS
<1>2. ASSUME NEW o \in selected \cap Ancestry[f] PROVE o = k
  <2>1. o \in Ancestry[k] \/ k \in Ancestry[o]
    BY <1>0, <1>1, AncestorsAre
  <2>. QED
    BY <1>1, <2>1 DEF Apart
<1>3. selected \cap Ancestry[f] = {k}
  BY <1>1, <1>2
<1>. QED
  BY <1>3, FS_Singleton

\* Exactly one page of a cut on display or in preparation owns any leaf.
GroundHasOneOwner ==
  \A owned \in {committed, publication} \ {Nothing} :
    \A f \in Leaf : Cardinality(owned.selected \cap Ancestry[f]) = 1

\* The ground is neither left out nor drawn twice: refining, coarsening and the
\* frames around them only ever exchange a page for those below or above it
\* (refine_surface_frontier, coarsen_surface_frontiers).
THEOREM GroundIsOwnedOnce == TerrainSpec => []GroundHasOneOwner
<1>1. TerrainInv => GroundHasOneOwner
  <2>. SUFFICES ASSUME TerrainInv, NEW owned \in {committed, publication} \ {Nothing}, NEW f \in Leaf
                PROVE  Cardinality(owned.selected \cap Ancestry[f]) = 1
    BY DEF GroundHasOneOwner
  <2>1. Apart(owned.selected) /\ Complete(owned.selected)
    BY DEF TerrainInv, Owns
  <2>. QED
    BY <2>1, OwnerIs DEF Complete
<1>. QED
  BY <1>1, TerrainInvHolds, PTL

\* Selected roots that all have an owner are partitioned.
SelectionIsAPartition ==
  cut # Nothing /\ Ownerless(cut.selected) = {} => Partitions(h, cut.selected)

\* The partition test of a selection never fails, so of the guards that set
\* selection_overflow only the number of passes is left
\* (selection_is_exact_active_root_partition in select_cut_internal).
THEOREM SelectionsPartition == TerrainSpec => []SelectionIsAPartition
<1>1. TerrainInv => SelectionIsAPartition
  <2>. SUFFICES ASSUME TerrainInv, cut # Nothing, Ownerless(cut.selected) = {}, NEW f \in Leaf
                PROVE  Cardinality(cut.selected \cap Ancestry[f]) = 1
    BY DEF SelectionIsAPartition, Partitions
  <2>1. Apart(cut.selected)
    BY DEF TerrainInv, CutStands
  <2>2. cut.selected \cap Ancestry[f] # {}
    BY CompleteIs DEF Complete
  <2>. QED
    BY <2>1, <2>2, OwnerIs
<1>. QED
  BY <1>1, TerrainInvHolds, PTL
================================================================================
