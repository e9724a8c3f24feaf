--------------------------- MODULE EditStreamProofs ---------------------------
(***************************************************************************)
(* What TLAPS proves of the edit stream, for any editors, voxels, chunks,  *)
(* volumes, queue capacity and number of lost connections.                 *)
(***************************************************************************)
EXTENDS EditStream, WellFoundedInduction, SequenceTheorems, TLAPS

-----------------------------------------------------------------------------
(* The inductive invariant.                                                *)

\* Frames as the session queues them, at a revision of at most n.
Frame(n) ==
  [kind : {"commit"}, revision : 2..n, class : {"world change", "critical"}]
  \cup [kind : {"resync"}, revision : 1..n, class : {"critical"}]
  \cup [kind : {"product"}, revision : Nat, class : {"product"}, chunk : Chunk, ticket : Nat,
        content : UNION {[Sampled[k] -> Nat] : k \in Chunk}]

TypeInv ==
  /\ log \in Seq(Volumes)
  /\ pc \in [Editor -> {"idle", "applied", "aimed", "full"}]
  /\ commit \in [Editor -> 1..Revision]
  /\ \A e \in Editor : pc[e] # "idle" => commit[e] # 1
  /\ aimed \subseteq Editor
  /\ queue \in Seq(2..Revision)
  /\ overflowed \in BOOLEAN
  /\ session \in {"idle", "popped", "draining", "drained", "resync", "applied"}
  /\ hand \in 1..Revision
  /\ session \in {"popped", "applied"} => hand # 1
  /\ replays \subseteq 2..Revision
  /\ wire \in Seq(Frame(Revision))
  /\ requests \subseteq [chunk : Chunk, ticket : Nat]
  /\ watermark \in 0..Revision
  /\ voxelFloor \in [Voxel -> 0..Revision]
  /\ stage \in [Chunk -> {"queued", "generating", "loaded"}]
  /\ ticket \in [Chunk -> Nat]
  /\ DOMAIN content = Chunk
  /\ \A k \in Chunk : content[k] \in [Sampled[k] -> Nat]
  /\ owed \subseteq 2..Revision
  /\ told \subseteq 2..Revision

\* Where a revision published to the connection is before the client has it: in
\* the queue, in the loop's hand, with a publisher that found the queue full,
\* behind the overflow flag or the resync it leads to, or on the wire.
Conveyed(r) ==
  \/ r \in told
  \/ \E i \in DOMAIN queue : queue[i] = r
  \/ session = "popped" /\ hand = r
  \/ \E e \in aimed : pc[e] = "full" /\ commit[e] = r
  \/ overflowed
  \/ session \in {"draining", "drained", "resync"}
  \/ \E i \in DOMAIN wire : wire[i].kind = "commit" /\ wire[i].revision = r
  \/ \E i \in DOMAIN wire : wire[i].kind = "resync" /\ wire[i].revision >= r

GapInv == \A r \in owed : Conveyed(r)

\* The floors speak for what the client was told: all of it up to the
\* watermark, and after the watermark the newest commit of each voxel.
FloorInv ==
  /\ 2..watermark \subseteq told
  /\ \A v \in Voxel : voxelFloor[v] # 0 =>
       voxelFloor[v] \in told /\ v \in Volume(voxelFloor[v])
  /\ \A r \in told : \A v \in Volume(r) : r <= watermark \/ r <= voxelFloor[v]

\* A write at c of voxel v is as new as the commits rs.
AsNewAs(c, v, rs) == c >= 1 /\ \A r \in rs : v \in Volume(r) => c >= r

\* A product for the ticket a chunk has now shows what the client was told.
ProductInv ==
  /\ \A q \in requests : q.ticket <= ticket[q.chunk]
  /\ \A i \in DOMAIN wire : wire[i].kind = "product" =>
       /\ wire[i].ticket <= ticket[wire[i].chunk]
       /\ wire[i].content \in [Sampled[wire[i].chunk] -> Nat]
       /\ wire[i].ticket = ticket[wire[i].chunk] =>
            \A v \in Sampled[wire[i].chunk] : AsNewAs(wire[i].content[v], v, told)

\* A chunk in use shows what the client was told.
ContentInv ==
  \A k \in Chunk : stage[k] = "loaded" =>
    \A v \in Sampled[k] : AsNewAs(content[k][v], v, told)

\* A resync on the wire is at least as new as what the client was told and as
\* what was queued before it: nothing queued after it passes it, as it is
\* critical, and so the floors it clears are all older than its watermark.
OrderInv ==
  \A j \in DOMAIN wire : wire[j].kind = "resync" =>
    /\ \A r \in told : r <= wire[j].revision
    /\ \A i \in 1..j - 1 : wire[i].kind \in {"commit", "resync"} =>
         wire[i].revision <= wire[j].revision

ClientInv == FloorInv /\ ProductInv /\ ContentInv

IInv == TypeInv /\ GapInv /\ OrderInv /\ ClientInv
-----------------------------------------------------------------------------
(* Facts about the operators.                                              *)

\* A set of numbers that is not empty has a least one.
LEMMA LeastNat ==
  ASSUME NEW S \in SUBSET Nat, S # {}
  PROVE  \E m \in S : \A x \in S : m <= x
<1>. DEFINE Less == {p \in Nat \X Nat : p[1] < p[2]}
<1>1. IsWellFoundedOn(Less, Nat)
  BY NatLessThanWellFounded DEF OpToRel
<1>2. PICK m \in S : \A x \in S : ~(<<x, m>> \in Less)
  <2>. HIDE DEF Less
  <2>. QED
    BY <1>1, WFMin
<1>3. \A x \in S : <<x, m>> \in Nat \X Nat
  OBVIOUS
<1>4. \A x \in S : ~(x < m)
  BY <1>2, <1>3
<1>. QED
  BY <1>4

\* A set of revisions up to n has a newest one (LastWrite, ChunkRevision).
LEMMA MaxOf ==
  ASSUME NEW n \in Nat, NEW S \in SUBSET (1..n), S # {}
  PROVE  Max(S) \in S /\ \A x \in S : x <= Max(S)
<1>. DEFINE Bounds == {m \in Nat : \A x \in S : x <= m}
<1>1. PICK b \in Bounds : \A m \in Bounds : b <= m
  <2>1. n \in Bounds
    OBVIOUS
  <2>. QED
    BY <2>1, LeastNat
<1>2. b - 1 \notin Bounds
  BY <1>1
<1>3. b \in S
  <2>1. b # 0
    <3>1. PICK x \in S : TRUE
      OBVIOUS
    <3>2. x >= 1 /\ x <= b
      BY <1>1
    <3>. QED
      BY <3>2
  <2>2. PICK x \in S : ~(x <= b - 1)
    BY <1>1, <1>2, <2>1
  <2>. QED
    BY <1>1, <2>2
<1>4. \A y \in S : (\A x \in S : y >= x) <=> y = b
  BY <1>1, <1>3
<1>. QED
  BY <1>1, <1>3, <1>4 DEF Max

\* The newest write is the one that is as new as all of them.
LEMMA LastWriteIs ==
  ASSUME NEW n \in Nat, NEW rs \in SUBSET (2..n), NEW v
  PROVE  /\ LastWrite(v, rs) \in 1..n + 1
         /\ AsNewAs(LastWrite(v, rs), v, rs)
         /\ \A c \in Nat : AsNewAs(c, v, rs) => c >= LastWrite(v, rs)
<1>. DEFINE S == {1} \cup {r \in rs : v \in Volume(r)}
<1>1. S \in SUBSET (1..n + 1) /\ S # {}
  <2>1. \A r \in rs : r \in 1..n + 1
    OBVIOUS
  <2>2. 1 \in 1..n + 1
    OBVIOUS
  <2>. QED
    BY <2>1, <2>2
<1>2. Max(S) \in S /\ \A x \in S : x <= Max(S)
  <2>. HIDE DEF S
  <2>1. n + 1 \in Nat
    OBVIOUS
  <2>. QED
    BY <1>1, <2>1, MaxOf
<1>3. LastWrite(v, rs) = Max(S)
  BY DEF LastWrite
<1>. HIDE DEF S
<1>4. LastWrite(v, rs) \in S /\ \A x \in S : x <= LastWrite(v, rs)
  BY <1>2, <1>3
<1>. QED
  BY <1>1, <1>4 DEF S, AsNewAs

\* A removed frame is the only one that goes (Receive, RequestFails).
LEMMA RemovedIs ==
  ASSUME NEW T, NEW q \in Seq(T), NEW i \in DOMAIN q
  PROVE  /\ Removed(q, i) \in Seq(T)
         /\ Len(Removed(q, i)) = Len(q) - 1
         /\ \A j \in 1..Len(q) - 1 : Removed(q, i)[j] = IF j <= i - 1 THEN q[j] ELSE q[j + 1]
         /\ \A j \in DOMAIN Removed(q, i) : \E m \in DOMAIN q : Removed(q, i)[j] = q[m]
         /\ \A m \in DOMAIN q : m # i => \E j \in DOMAIN Removed(q, i) : Removed(q, i)[j] = q[m]
<1>1. i \in 1..Len(q) /\ Len(q) \in Nat
  OBVIOUS
<1>2. SubSeq(q, 1, i - 1) \in Seq(T) /\ SubSeq(q, i + 1, Len(q)) \in Seq(T)
  BY <1>1
<1>3. Len(SubSeq(q, 1, i - 1)) = i - 1 /\ Len(SubSeq(q, i + 1, Len(q))) = Len(q) - i
  BY <1>1
<1>4. /\ \A j \in 1..i - 1 : SubSeq(q, 1, i - 1)[j] = q[j]
      /\ \A j \in 1..Len(q) - i : SubSeq(q, i + 1, Len(q))[j] = q[i + j]
  BY <1>1
<1>. DEFINE a == SubSeq(q, 1, i - 1)
            b == SubSeq(q, i + 1, Len(q))
<1>5. a \in Seq(T) /\ b \in Seq(T) /\ Len(a) = i - 1 /\ Len(b) = Len(q) - i
  BY <1>2, <1>3
<1>6. /\ \A j \in 1..i - 1 : a[j] = q[j]
      /\ \A j \in 1..Len(q) - i : b[j] = q[i + j]
  BY <1>4
<1>7. Removed(q, i) = a \o b
  BY DEF Removed
<1>. HIDE DEF a, b
<1>8. /\ a \o b \in Seq(T) /\ Len(a \o b) = Len(q) - 1
      /\ \A j \in 1..Len(q) - 1 : (a \o b)[j] = IF j <= i - 1 THEN a[j] ELSE b[j - (i - 1)]
  BY <1>1, <1>5
<1>9. \A j \in 1..Len(q) - 1 : (a \o b)[j] = IF j <= i - 1 THEN q[j] ELSE q[j + 1]
  <2>. TAKE j \in 1..Len(q) - 1
  <2>1. CASE j <= i - 1
    BY <1>6, <1>8, <2>1
  <2>2. CASE ~(j <= i - 1)
    <3>1. j - (i - 1) \in 1..Len(q) - i /\ i + (j - (i - 1)) = j + 1
      BY <1>1, <2>2
    <3>2. b[j - (i - 1)] = q[j + 1]
      BY <1>6, <3>1
    <3>. QED
      BY <1>8, <2>2, <3>2
  <2>. QED
    BY <2>1, <2>2
<1>10. DOMAIN (a \o b) = 1..Len(q) - 1
  BY <1>8
<1>11. ASSUME NEW j \in 1..Len(q) - 1 PROVE \E m \in DOMAIN q : (a \o b)[j] = q[m]
  <2>1. j \in DOMAIN q /\ j + 1 \in DOMAIN q
    BY <1>1
  <2>. QED
    BY <1>9, <2>1
<1>12. ASSUME NEW m \in DOMAIN q, m # i PROVE \E j \in 1..Len(q) - 1 : (a \o b)[j] = q[m]
  <2>0. m \in 1..Len(q)
    OBVIOUS
  <2>1. CASE m < i
    <3>1. m \in 1..Len(q) - 1 /\ m <= i - 1
      BY <1>1, <2>0, <2>1
    <3>. QED
      BY <1>9, <3>1
  <2>2. CASE m > i
    <3>1. m - 1 \in 1..Len(q) - 1 /\ ~(m - 1 <= i - 1) /\ (m - 1) + 1 = m
      BY <1>1, <2>0, <2>2
    <3>. QED
      BY <1>9, <3>1
  <2>3. m < i \/ m > i
    <3>1. i \in Nat /\ m \in Nat
      BY <1>1, <2>0
    <3>. QED
      BY <1>12, <3>1
  <2>. QED
    BY <2>1, <2>2, <2>3
<1>. QED
  BY <1>7, <1>8, <1>9, <1>10, <1>11, <1>12

\* One frame at the end of the wire (Send).
LEMMA SentIs ==
  ASSUME NEW T, NEW q \in Seq(T), NEW f
  PROVE  /\ f \in T => q \o <<f>> \in Seq(T)
         /\ \A j \in DOMAIN (q \o <<f>>) :
              (q \o <<f>>)[j] = f \/ \E m \in DOMAIN q : (q \o <<f>>)[j] = q[m]
         /\ \A m \in DOMAIN q : \E j \in DOMAIN (q \o <<f>>) : (q \o <<f>>)[j] = q[m]
         /\ \E j \in DOMAIN (q \o <<f>>) : (q \o <<f>>)[j] = f
<1>1. q \o <<f>> = Append(q, f)
  OBVIOUS
<1>2. /\ Len(Append(q, f)) = Len(q) + 1
      /\ \A j \in 1..Len(q) : Append(q, f)[j] = q[j]
      /\ Append(q, f)[Len(q) + 1] = f
  OBVIOUS
<1>3. DOMAIN q = 1..Len(q) /\ DOMAIN Append(q, f) = 1..Len(q) + 1
  OBVIOUS
<1>. QED
  BY <1>1, <1>2, <1>3

\* An enqueued commit makes the queue a different one.
LEMMA Append_Differs == ASSUME NEW T, NEW q \in Seq(T), NEW x PROVE Append(q, x) # q
<1>1. Len(Append(q, x)) = Len(q) + 1 /\ Len(q) \in Nat
  OBVIOUS
<1>. QED
  BY <1>1

\* The frames on the wire stay when one is sent.
LEMMA SendKeeps ==
  ASSUME NEW T, wire \in Seq(T), NEW f, wire' = wire \o <<f>>
  PROVE  /\ \A i \in DOMAIN wire : \E j \in DOMAIN wire' : wire'[j] = wire[i]
         /\ \E j \in DOMAIN wire' : wire'[j] = f
<1>. DEFINE longer == wire \o <<f>>
<1>1. /\ \A i \in DOMAIN wire : \E j \in DOMAIN longer : longer[j] = wire[i]
      /\ \E j \in DOMAIN longer : longer[j] = f
  <2>1. longer = Append(wire, f)
    OBVIOUS
  <2>2. /\ DOMAIN wire = 1..Len(wire) /\ DOMAIN Append(wire, f) = 1..Len(wire) + 1
        /\ Len(wire) \in Nat
        /\ \A i \in 1..Len(wire) : Append(wire, f)[i] = wire[i]
        /\ Append(wire, f)[Len(wire) + 1] = f
    OBVIOUS
  <2>. HIDE DEF longer
  <2>. QED
    BY <2>1, <2>2
<1>2. wire' = longer
  OBVIOUS
<1>. HIDE DEF longer
<1>. QED
  BY <1>1, <1>2

\* ... and nothing but the frame that is sent comes to them.
LEMMA SendAdds ==
  ASSUME NEW T, wire \in Seq(T), NEW f, wire' = wire \o <<f>>, NEW j \in DOMAIN wire'
  PROVE  wire'[j] = f \/ \E i \in DOMAIN wire : wire'[j] = wire[i]
<1>1. wire' = Append(wire, f)
  OBVIOUS
<1>2. DOMAIN wire' = 1..Len(wire) + 1 /\ Len(wire) \in Nat /\ DOMAIN wire = 1..Len(wire)
  BY <1>1
<1>3. j = Len(wire) + 1 \/ j \in DOMAIN wire
  BY <1>2
<1>. QED
  BY <1>1, <1>3

\* The commits of the log stay, and a commit is the next revision.
LEMMA LogGrows ==
  ASSUME log \in Seq(Volumes), NEW volume \in Volumes, log' = Append(log, volume)
  PROVE  /\ log' \in Seq(Volumes)
         /\ Revision \in Nat \ {0} /\ Revision' = Revision + 1
         /\ \A r \in 2..Revision : Volume(r)' = Volume(r)
BY DEF Revision, Volume

\* Frames of a revision are frames of a later one.
LEMMA FrameGrows ==
  ASSUME NEW n \in Nat, NEW m \in Nat, n <= m
  PROVE  Frame(n) \subseteq Frame(m) /\ Seq(Frame(n)) \subseteq Seq(Frame(m))
<1>1. 2..n \subseteq 2..m /\ 1..n \subseteq 1..m
  OBVIOUS
<1>2. Frame(n) \subseteq Frame(m)
  BY <1>1 DEF Frame
<1>. QED
  BY <1>2

\* A commit affects chunks, and all that sample its volume.
LEMMA AffectedIs ==
  ASSUME log \in Seq(Volumes), NEW r \in 2..Revision
  PROVE  /\ Volume(r) \in Volumes /\ Volume(r) \subseteq Voxel
         /\ AffectedBy(r) \subseteq Chunk
         /\ \A k \in Chunk : \A v \in Sampled[k] : v \in Volume(r) => k \in AffectedBy(r)
<1>1. Volume(r) \in Volumes
  BY DEF Volume, Revision
<1>. QED
  BY <1>1, StreamAssumption DEF AffectedBy
-----------------------------------------------------------------------------
(* Types.                                                                  *)

\* Initially nothing is published and nothing is told.
LEMMA InitType == Init => TypeInv
<1>. SUFFICES ASSUME Init PROVE TypeInv
  OBVIOUS
<1>1. Revision = 1
  BY DEF Init, Revision
<1>2. <<>> \in Seq(Volumes) /\ <<>> \in Seq(2..Revision) /\ <<>> \in Seq(Frame(Revision))
  OBVIOUS
<1>3. 1 \in 1..Revision /\ 0 \in 0..Revision
  BY <1>1
<1>4. content = [k \in Chunk |-> [v \in Sampled[k] |-> 0]]
      /\ \A k \in Chunk : content[k] \in [Sampled[k] -> Nat]
  BY DEF Init
<1>5. /\ aimed \subseteq Editor /\ replays \subseteq 2..Revision
      /\ requests \subseteq [chunk : Chunk, ticket : Nat]
      /\ owed \subseteq 2..Revision /\ told \subseteq 2..Revision
  BY DEF Init
<1>6. /\ log \in Seq(Volumes) /\ queue \in Seq(2..Revision) /\ wire \in Seq(Frame(Revision))
  BY <1>2 DEF Init
<1>. QED
  BY <1>3, <1>4, <1>5, <1>6 DEF Init, TypeInv

\* The steps of the other players' sessions.
LEMMA TypePublish ==
  ASSUME TypeInv, NEW e \in Editor, Publish(e)
  PROVE  TypeInv'
<1>1. UNCHANGED log /\ Revision' = Revision
  BY DEF Publish, Aim, Reserve, MarkOverflow, Revision
<1>2. CASE Aim(e)
  BY <1>1, <1>2 DEF Aim, TypeInv, sessionVars, chunkVars, floorVars
<1>3. CASE Reserve(e)
  <2>1. commit[e] \in 2..Revision
    BY <1>3 DEF Reserve, TypeInv
  <2>2. queue' \in Seq(2..Revision)
    <3>1. queue \in Seq(2..Revision)
      BY DEF TypeInv
    <3>2. queue' = queue \/ queue' = Append(queue, commit[e])
      BY <1>3 DEF Reserve
    <3>. DEFINE R == 2..Revision
    <3>3. commit[e] \in R /\ queue \in Seq(R)
      BY <2>1, <3>1
    <3>. HIDE DEF R
    <3>4. queue' \in Seq(R)
      BY <3>2, <3>3, AppendProperties
    <3>. QED
      BY <3>4 DEF R
  <2>3. pc' \in [Editor -> {"idle", "applied", "aimed", "full"}] /\ (pc'[e] = "idle" \/ commit[e] # 1)
        /\ \A d \in Editor : d # e => pc'[d] = pc[d]
    BY <1>3, <2>1 DEF Reserve, TypeInv
  <2>4. aimed' \subseteq Editor /\ owed' \subseteq 2..Revision
    BY <1>3, <2>1 DEF Reserve, TypeInv
  <2>. QED
    BY <1>1, <1>3, <2>2, <2>3, <2>4 DEF Reserve, TypeInv, chunkVars, floorVars
<1>4. CASE MarkOverflow(e)
  BY <1>1, <1>4 DEF MarkOverflow, TypeInv, sessionVars, chunkVars, floorVars, historyVars
<1>. QED
  BY <1>2, <1>3, <1>4 DEF Publish

\* A commit is recorded, by another player's session or by the client's own.
LEMMA TypeApply ==
  ASSUME TypeInv, NEW volume \in Volumes,
         (\E e \in Editor : Apply(e, volume)) \/ ApplyOwn(volume)
  PROVE  TypeInv'
<1>1. log' = Append(log, volume)
  BY DEF Apply, ApplyOwn
<1>2. log' \in Seq(Volumes) /\ Revision \in Nat \ {0} /\ Revision' = Revision + 1
  BY <1>1, LogGrows DEF TypeInv
<1>3. /\ 1..Revision \subseteq 1..Revision' /\ 0..Revision \subseteq 0..Revision'
      /\ 2..Revision \subseteq 2..Revision' /\ Revision + 1 \in 2..Revision'
  BY <1>2
<1>4. wire \in Seq(Frame(Revision')) /\ queue \in Seq(2..Revision')
  BY <1>2, <1>3, FrameGrows DEF TypeInv
<1>5. /\ UNCHANGED <<aimed, queue, overflowed, replays, wire, chunkVars, floorVars, historyVars>>
      /\ replays' \subseteq 2..Revision' /\ owed' \subseteq 2..Revision' /\ told' \subseteq 2..Revision'
      /\ watermark' \in 0..Revision' /\ voxelFloor' \in [Voxel -> 0..Revision']
  <2>1. UNCHANGED <<aimed, queue, overflowed, replays, wire, chunkVars, floorVars, historyVars>>
    BY DEF Apply, ApplyOwn, sessionVars
  <2>2. UNCHANGED <<replays, owed, told, watermark, voxelFloor>>
    BY <2>1 DEF floorVars, historyVars
  <2>. QED
    BY <1>3, <2>1, <2>2 DEF TypeInv
<1>6. /\ pc' \in [Editor -> {"idle", "applied", "aimed", "full"}]
      /\ commit' \in [Editor -> 1..Revision']
      /\ \A e \in Editor : pc'[e] # "idle" => commit'[e] # 1
  <2>1. CASE \E e \in Editor : Apply(e, volume)
    BY <1>2, <1>3, <2>1 DEF Apply, TypeInv
  <2>2. CASE ApplyOwn(volume)
    BY <1>3, <2>2 DEF ApplyOwn, TypeInv
  <2>. QED
    BY <2>1, <2>2
<1>7. /\ session' \in {"idle", "popped", "draining", "drained", "resync", "applied"}
      /\ hand' \in 1..Revision'
      /\ session' \in {"popped", "applied"} => hand' # 1
  BY <1>2, <1>3 DEF Apply, ApplyOwn, TypeInv, SessionMoves, sessionVars
<1>. QED
  BY <1>2, <1>4, <1>5, <1>6, <1>7 DEF TypeInv, chunkVars, floorVars, historyVars

\* The frames the session sends are frames.
LEMMA FramesAreFrames ==
  ASSUME TypeInv
  PROVE  /\ \A r \in 2..Revision : \A class \in {"critical", "world change"} :
              CommitFrame(r, class) \in Frame(Revision)
         /\ ResyncFrame(Revision) \in Frame(Revision)
         /\ \A q \in requests : ProductFrame(q) \in Frame(Revision)
<1>1. Revision \in Nat \ {0}
  BY DEF TypeInv, Revision
<1>2. ASSUME NEW r \in 2..Revision, NEW class \in {"critical", "world change"}
      PROVE CommitFrame(r, class) \in Frame(Revision)
  BY <1>2 DEF CommitFrame, Frame
<1>3. ResyncFrame(Revision) \in Frame(Revision)
  BY <1>1 DEF ResyncFrame, Frame
<1>4. ASSUME NEW q \in requests PROVE ProductFrame(q) \in Frame(Revision)
  <2>1. q.chunk \in Chunk /\ q.ticket \in Nat
    BY DEF TypeInv
  <2>2. ChunkRevision(q.chunk) \in Nat
    <3>. DEFINE S == {1} \cup {r \in 2..Revision : q.chunk \in AffectedBy(r)}
    <3>1. S \in SUBSET (1..Revision) /\ S # {} /\ Revision \in Nat
      BY <1>1
    <3>2. Max(S) \in S
      <4>. HIDE DEF S
      <4>. QED
        BY <3>1, MaxOf
    <3>. QED
      BY <3>1, <3>2 DEF ChunkRevision
  <2>3. \A v \in Sampled[q.chunk] : LastWrite(v, 2..Revision) \in Nat
    BY <1>1, LastWriteIs
  <2>4. [v \in Sampled[q.chunk] |-> LastWrite(v, 2..Revision)] \in UNION {[Sampled[k] -> Nat] : k \in Chunk}
    BY <2>1, <2>3
  <2>. QED
    BY <2>1, <2>2, <2>4 DEF ProductFrame, Frame
<1>. QED
  BY <1>2, <1>3, <1>4

\* The steps of the client's select loop.
LEMMA TypeSession ==
  ASSUME TypeInv,
         Loop \/ (\E r \in replays : Replay(r)) \/ (\E q \in requests : Serve(q))
  PROVE  TypeInv'
<1>1. UNCHANGED log /\ Revision' = Revision
  BY DEF Loop, Pop, Forward, Discard, Drain, Recheck, Resync, Answer, Replay, Serve, OnlySession,
         authorityVars, Revision
<1>2. /\ wire' \in Seq(Frame(Revision))
      /\ requests' \subseteq requests /\ replays' \subseteq replays
  <2>1. CASE Pop \/ Discard \/ Drain \/ Recheck
    BY <2>1 DEF TypeInv, Pop, Discard, Drain, Recheck, OnlySession, chunkVars
  <2>0. session \in {"popped", "applied"} => hand \in 2..Revision
    BY DEF TypeInv, Revision
  <2>2. CASE Forward
    BY <2>0, <2>2, SentIs, FramesAreFrames DEF TypeInv, Forward, Send, OnlySession, chunkVars
  <2>3. CASE Resync
    BY <2>3, SentIs, FramesAreFrames DEF TypeInv, Resync, Send, OnlySession, chunkVars
  <2>4. CASE Answer
    BY <2>0, <2>4, SentIs, FramesAreFrames DEF TypeInv, Answer, Send, OnlySession, chunkVars
  <2>5. ASSUME NEW r \in replays, Replay(r) PROVE <1>2!:
    <3>1. r \in 2..Revision
      BY DEF TypeInv
    <3>2. wire' = wire \/ wire' = wire \o <<CommitFrame(r, "critical")>>
      BY <2>5 DEF Replay, Send
    <3>3. wire' \in Seq(Frame(Revision))
      <4>1. CommitFrame(r, "critical") \in Frame(Revision) /\ wire \in Seq(Frame(Revision))
        BY <3>1, FramesAreFrames DEF TypeInv
      <4>. QED
        BY <3>2, <4>1, SentIs
    <3>. QED
      BY <2>5, <3>3 DEF Replay, OnlySession, chunkVars
  <2>6. ASSUME NEW q \in requests, Serve(q) PROVE <1>2!:
    BY <2>6, SentIs, FramesAreFrames DEF TypeInv, Serve, Send
  <2>. QED
    BY <2>1, <2>2, <2>3, <2>4, <2>5, <2>6 DEF Loop
<1>3. /\ queue' \in Seq(2..Revision) /\ overflowed' \in BOOLEAN
      /\ session' \in {"idle", "popped", "draining", "drained", "resync", "applied"}
      /\ hand' \in 1..Revision
      /\ session' \in {"popped", "applied"} => hand' # 1
  <2>1. CASE Pop
    <3>1. queue \in Seq(2..Revision) /\ queue # <<>>
      BY <2>1 DEF Pop, TypeInv
    <3>2. Head(queue) \in 2..Revision /\ Tail(queue) \in Seq(2..Revision)
      BY <3>1, HeadTailProperties
    <3>3. Head(queue) \in 1..Revision /\ Head(queue) # 1
      BY <3>2
    <3>. QED
      BY <2>1, <3>2, <3>3 DEF Pop, TypeInv, SessionMoves
  <2>2. CASE Drain
    <3>. DEFINE R == 2..Revision
    <3>0. queue \in Seq(R)
      BY DEF TypeInv
    <3>. HIDE DEF R
    <3>1. queue' \in Seq(R)
      BY <2>2, <3>0, HeadTailProperties DEF Drain
    <3>. USE DEF R
    <3>. QED
      BY <2>2, <3>1 DEF Drain, TypeInv, SessionMoves
  <2>3. CASE Forward \/ Discard \/ Recheck \/ Resync \/ Answer
    BY <2>3 DEF TypeInv, Forward, Discard, Recheck, Resync, Answer, SessionMoves
  <2>4. CASE (\E r \in replays : Replay(r)) \/ (\E q \in requests : Serve(q))
    BY <2>4 DEF TypeInv, Replay, Serve, sessionVars
  <2>. QED
    BY <2>1, <2>2, <2>3, <2>4 DEF Loop
<1>4. UNCHANGED <<authorityVars, floorVars, historyVars, stage, ticket, content>>
  BY DEF Loop, Pop, Forward, Discard, Drain, Recheck, Resync, Answer, Replay, Serve, OnlySession,
         chunkVars
<1>. QED
  BY <1>1, <1>2, <1>3, <1>4 DEF TypeInv, authorityVars, floorVars, historyVars

\* What a frame on the wire says.
LEMMA FrameIs ==
  ASSUME TypeInv, NEW i \in DOMAIN wire
  PROVE  /\ wire[i].kind \in {"commit", "resync", "product"}
         /\ wire[i].kind = "commit" => wire[i].revision \in 2..Revision
         /\ wire[i].kind = "resync" => wire[i].revision \in 1..Revision
         /\ wire[i].kind = "product" => wire[i].chunk \in Chunk /\ wire[i].ticket \in Nat
<1>1. wire[i] \in Frame(Revision)
  BY DEF TypeInv
<1>. QED
  BY <1>1 DEF Frame

\* The client takes in a commit (apply_durable_edits, apply_resident_mutations).
LEMMA TypeCommit ==
  ASSUME TypeInv, NEW r \in 2..Revision, HandleCommit(r), UNCHANGED log
  PROVE  /\ requests' \subseteq [chunk : Chunk, ticket : Nat]
         /\ watermark' \in 0..Revision
         /\ voxelFloor' \in [Voxel -> 0..Revision]
         /\ stage' \in [Chunk -> {"queued", "generating", "loaded"}]
         /\ ticket' \in [Chunk -> Nat]
         /\ DOMAIN content' = Chunk
         /\ \A k \in Chunk : content'[k] \in [Sampled[k] -> Nat]
         /\ told' \subseteq 2..Revision
<1>1. CASE UNCHANGED <<floorVars, chunkVars, told>>
  BY <1>1 DEF TypeInv, floorVars, chunkVars
<1>2. CASE IsAfterResync(r) /\ ~UNCHANGED <<floorVars, chunkVars, told>>
  <2>1. Revision \in Nat /\ r \in 0..Revision /\ r \in Nat
    BY DEF TypeInv, Revision
  <2>2. voxelFloor' \in [Voxel -> 0..Revision]
    BY <1>2, <2>1 DEF HandleCommit, TypeInv
  <2>3. content' = [k \in Chunk |-> [v \in Sampled[k] |->
            IF v \in Accepted(r) /\ content[k][v] # 0 THEN r ELSE content[k][v]]]
    BY <1>2 DEF HandleCommit
  <2>4. \A k \in Chunk : content'[k] \in [Sampled[k] -> Nat]
    BY <2>1, <2>3 DEF TypeInv
  <2>5. stage' \in [Chunk -> {"queued", "generating", "loaded"}] /\ ticket' \in [Chunk -> Nat]
    <3>1. /\ stage' = [k \in Chunk |-> IF k \in AffectedBy(r) THEN AfterEdit(k) ELSE stage[k]]
          /\ ticket' = [k \in Chunk |-> IF k \in AffectedBy(r) THEN ticket[k] + 1 ELSE ticket[k]]
      BY <1>2 DEF HandleCommit
    <3>2. \A k \in Chunk : AfterEdit(k) \in {"queued", "generating", "loaded"}
      BY DEF AfterEdit, TypeInv
    <3>. QED
      BY <3>1, <3>2 DEF TypeInv
  <2>6. told' \subseteq 2..Revision /\ UNCHANGED <<watermark, requests>>
    BY <1>2 DEF HandleCommit, TypeInv
  <2>. QED
    BY <2>2, <2>3, <2>4, <2>5, <2>6 DEF TypeInv
<1>. QED
  BY <1>1, <1>2 DEF HandleCommit

\* The client takes in a frame.
LEMMA TypeReceive ==
  ASSUME TypeInv, ProductInv, NEW i \in DOMAIN wire, Receive(i)
  PROVE  TypeInv'
<1>1. UNCHANGED <<authorityVars, sessionVars, replays, owed>> /\ Revision' = Revision
  BY DEF Receive, authorityVars, Revision
<1>2. wire' \in Seq(Frame(Revision))
  <2>1. wire' = Removed(wire, i) /\ wire \in Seq(Frame(Revision))
    BY DEF Receive, TypeInv
  <2>. QED
    BY <2>1, RemovedIs
<1>3. /\ requests' \subseteq [chunk : Chunk, ticket : Nat]
      /\ watermark' \in 0..Revision
      /\ voxelFloor' \in [Voxel -> 0..Revision]
      /\ stage' \in [Chunk -> {"queued", "generating", "loaded"}]
      /\ ticket' \in [Chunk -> Nat]
      /\ DOMAIN content' = Chunk
      /\ \A k \in Chunk : content'[k] \in [Sampled[k] -> Nat]
      /\ told' \subseteq 2..Revision
  <2>1. CASE wire[i].kind = "commit" /\ HandleCommit(wire[i].revision)
    BY <1>1, <2>1, FrameIs, TypeCommit DEF authorityVars
  <2>2. CASE wire[i].kind = "resync" /\ HandleResync(wire[i].revision)
    <3>1. wire[i].revision \in 1..Revision /\ Revision \in Nat
      BY <2>2, FrameIs DEF TypeInv, Revision
    <3>2. wire[i].revision \in 0..Revision /\ 2..wire[i].revision \subseteq 2..Revision
      BY <3>1
    <3>3. CASE UNCHANGED <<floorVars, chunkVars, told>>
      BY <3>3 DEF TypeInv, floorVars, chunkVars
    <3>4. CASE ~UNCHANGED <<floorVars, chunkVars, told>>
      <4>1. /\ watermark' = wire[i].revision
            /\ voxelFloor' = [v \in Voxel |-> 0]
            /\ stage' = [k \in Chunk |-> "queued"]
            /\ ticket' = [k \in Chunk |-> ticket[k] + 1]
            /\ told' = told \cup 2..wire[i].revision
            /\ UNCHANGED <<requests, content>>
        BY <2>2, <3>4 DEF HandleResync
      <4>2. told' \subseteq 2..Revision
        BY <3>2, <4>1 DEF TypeInv
      <4>3. 0 \in 0..Revision
        BY <3>1
      <4>4. voxelFloor' \in [Voxel -> 0..Revision]
        BY <4>1, <4>3
      <4>5. watermark' \in 0..Revision
        BY <3>2, <4>1
      <4>. QED
        BY <4>1, <4>2, <4>4, <4>5 DEF TypeInv
    <3>. QED
      BY <3>3, <3>4
  <2>3. CASE wire[i].kind = "product" /\ HandleProduct(wire[i])
    <3>1. wire[i].chunk \in Chunk /\ wire[i].content \in [Sampled[wire[i].chunk] -> Nat]
      BY <2>3, FrameIs DEF ProductInv
    <3>2. UNCHANGED <<requests, watermark, voxelFloor, ticket, told>>
      BY <2>3 DEF HandleProduct, floorVars
    <3>3. stage' \in [Chunk -> {"queued", "generating", "loaded"}]
      BY <2>3, <3>1 DEF HandleProduct, Retried, TypeInv
    <3>4. DOMAIN content' = Chunk /\ \A k \in Chunk : content'[k] \in [Sampled[k] -> Nat]
      BY <2>3, <3>1 DEF HandleProduct, TypeInv
    <3>. QED
      BY <3>2, <3>3, <3>4 DEF TypeInv
  <2>. QED
    BY <2>1, <2>2, <2>3 DEF Receive
<1>. QED
  BY <1>1, <1>2, <1>3 DEF TypeInv, authorityVars, sessionVars

\* The other steps of the client, and lost connections.
LEMMA TypeClient ==
  ASSUME TypeInv,
         Attach \/ Break \/ (\E k \in Chunk : Request(k))
         \/ (\E q \in Outstanding : RequestFails(q))
  PROVE  TypeInv'
<1>1. UNCHANGED log /\ Revision' = Revision
  BY DEF Attach, Break, Request, RequestFails, OnlyChunks, authorityVars, Revision
<1>2. CASE Attach
  BY <1>1, <1>2 DEF Attach, TypeInv, authorityVars, sessionVars, chunkVars, floorVars, historyVars
<1>3. ASSUME NEW k \in Chunk, Request(k) PROVE TypeInv'
  <2>1. /\ stage' \in [Chunk -> {"queued", "generating", "loaded"}]
        /\ requests' \subseteq [chunk : Chunk, ticket : Nat]
    BY <1>3 DEF Request, TypeInv
  <2>. QED
    BY <1>1, <1>3, <2>1
       DEF Request, OnlyChunks, TypeInv, authorityVars, sessionVars, floorVars, historyVars
<1>4. ASSUME NEW q \in Outstanding, RequestFails(q) PROVE TypeInv'
  <2>1. stage' \in [Chunk -> {"queued", "generating", "loaded"}] /\ requests' \subseteq requests
    BY <1>4 DEF RequestFails, Retried, Outstanding, TypeInv
  <2>2. wire' \in Seq(Frame(Revision))
    <3>1. wire \in Seq(Frame(Revision))
      BY DEF TypeInv
    <3>2. wire' = wire \/ \E i \in DOMAIN wire : wire' = Removed(wire, i)
      BY <1>4 DEF RequestFails
    <3>. QED
      BY <3>1, <3>2, RemovedIs
  <2>. QED
    BY <1>1, <1>4, <2>1, <2>2
       DEF RequestFails, OnlyChunks, TypeInv, authorityVars, sessionVars, floorVars, historyVars
<1>5. CASE Break
  <2>1. \A i \in DOMAIN wire : wire[i].kind = "commit" => wire[i].revision \in 2..Revision
    BY FrameIs
  <2>2. replays' \subseteq 2..Revision
    BY <1>5, <2>1 DEF Break, TypeInv
  <2>3. stage' \in [Chunk -> {"queued", "generating", "loaded"}]
    BY <1>5 DEF Break, TypeInv
  <2>4. queue' \in Seq(2..Revision) /\ wire' \in Seq(Frame(Revision))
    BY <1>5 DEF Break
  <2>. QED
    BY <1>1, <1>5, <2>2, <2>3, <2>4 DEF Break, TypeInv, floorVars
<1>. QED
  BY <1>2, <1>3, <1>4, <1>5

\* Every step keeps the types.
LEMMA TypeNext == ASSUME TypeInv, ProductInv, [Next]_vars PROVE TypeInv'
<1>1. CASE UNCHANGED vars
  BY <1>1 DEF TypeInv, vars, authorityVars, sessionVars, chunkVars, floorVars, historyVars, Revision
<1>. QED
  BY <1>1, TypePublish, TypeApply, TypeSession, TypeReceive, TypeClient DEF Next
-----------------------------------------------------------------------------
(* No silent gap.                                                          *)

\* A step that adds frames or tells the client more, and takes nothing out of
\* the session's hands, conveys what was conveyed.
LEMMA GapKept ==
  ASSUME GapInv, owed' \subseteq owed, told \subseteq told',
         UNCHANGED <<queue, session, hand>>, overflowed => overflowed',
         \A e \in aimed : pc[e] = "full" => e \in aimed' /\ pc'[e] = "full" /\ commit'[e] = commit[e],
         \A i \in DOMAIN wire : \E j \in DOMAIN wire' : wire'[j] = wire[i]
  PROVE  GapInv'
<1>1. SUFFICES ASSUME NEW r \in owed, Conveyed(r) PROVE Conveyed(r)'
  BY DEF GapInv
<1>2. CASE \E i \in DOMAIN wire : wire[i].kind = "commit" /\ wire[i].revision = r
  BY <1>2 DEF Conveyed
<1>3. CASE \E i \in DOMAIN wire : wire[i].kind = "resync" /\ wire[i].revision >= r
  BY <1>3 DEF Conveyed
<1>. QED
  BY <1>1, <1>2, <1>3 DEF Conveyed

\* A publisher enqueues the commit, or holds on to it until the flag is set.
LEMMA GapPublish ==
  ASSUME TypeInv, GapInv, NEW e \in Editor, Publish(e)
  PROVE  GapInv'
<1>1. CASE Aim(e)
  BY <1>1, GapKept DEF Aim, TypeInv, sessionVars
<1>2. CASE Reserve(e)
  <2>0. UNCHANGED <<told, session, hand, overflowed, wire, commit>>
    BY <1>2 DEF Reserve
  <2>1. CASE owed' = owed
    <3>1. queue' = queue \/ queue' = Append(queue, commit[e])
      BY <1>2 DEF Reserve
    <3>2. ASSUME NEW i \in DOMAIN queue PROVE i \in DOMAIN queue' /\ queue'[i] = queue[i]
      <4>1. CASE queue' = Append(queue, commit[e])
        BY <4>1 DEF TypeInv
      <4>. QED
        BY <3>1, <4>1
    <3>3. ASSUME NEW d \in aimed, pc[d] = "full"
          PROVE  d \in aimed' /\ pc'[d] = "full"
      BY <1>2, <3>3 DEF Reserve, TypeInv
    <3>4. ASSUME NEW r \in owed, Conveyed(r) PROVE Conveyed(r)'
      BY <2>0, <3>2, <3>3, <3>4 DEF Conveyed
    <3>. QED
      BY <2>1, <3>4 DEF GapInv
  <2>2. CASE owed' # owed /\ queue' # queue
    <3>1. queue' = Append(queue, commit[e]) /\ owed' = owed \cup {commit[e]}
      BY <1>2, <2>2 DEF Reserve
    <3>2. ASSUME NEW i \in DOMAIN queue PROVE i \in DOMAIN queue' /\ queue'[i] = queue[i]
      BY <3>1 DEF TypeInv
    <3>3. Len(queue) + 1 \in DOMAIN queue' /\ queue'[Len(queue) + 1] = commit[e]
      <4>1. queue \in Seq(2..Revision)
        BY DEF TypeInv
      <4>2. DOMAIN queue' = 1..Len(queue) + 1 /\ Len(queue) \in Nat
        BY <3>1, <4>1
      <4>3. queue'[Len(queue) + 1] = commit[e]
        BY <3>1, <4>1
      <4>. QED
        BY <4>2, <4>3
    <3>4. ASSUME NEW d \in aimed, pc[d] = "full"
          PROVE  d \in aimed' /\ pc'[d] = "full"
      BY <1>2, <3>4 DEF Reserve, TypeInv
    <3>5. ASSUME NEW r \in owed, Conveyed(r) PROVE Conveyed(r)'
      BY <2>0, <3>2, <3>4, <3>5 DEF Conveyed
    <3>6. ASSUME NEW r, r = commit[e] PROVE Conveyed(r)'
      BY <2>0, <3>3, <3>6 DEF Conveyed
    <3>. QED
      BY <3>1, <3>5, <3>6 DEF GapInv
  <2>3. CASE owed' # owed /\ queue' = queue
    <3>1. /\ owed' = owed \cup {commit[e]} /\ e \in aimed /\ aimed' = aimed
          /\ pc' = [pc EXCEPT ![e] = "full"]
      BY <1>2, <2>2, <2>3, Append_Differs DEF Reserve, TypeInv
    <3>2. pc'[e] = "full" /\ \A d \in Editor : pc[d] = "full" => pc'[d] = "full"
      BY <3>1 DEF TypeInv
    <3>3. ASSUME NEW r \in owed, Conveyed(r) PROVE Conveyed(r)'
      BY <2>0, <2>3, <3>1, <3>2, <3>3 DEF Conveyed, TypeInv
    <3>4. ASSUME NEW r, r = commit[e] PROVE Conveyed(r)'
      BY <2>0, <3>1, <3>2, <3>4 DEF Conveyed
    <3>. QED
      BY <3>1, <3>3, <3>4 DEF GapInv
  <2>. QED
    BY <2>1, <2>2, <2>3
<1>3. CASE MarkOverflow(e)
  <2>0. UNCHANGED <<told, session, hand, queue, wire, commit, owed>>
    BY <1>3 DEF MarkOverflow, historyVars
  <2>1. overflowed' = (overflowed \/ e \in aimed) /\ aimed' = aimed \ {e}
        /\ \A d \in Editor : d # e => pc'[d] = pc[d]
    BY <1>3 DEF MarkOverflow, TypeInv
  <2>2. ASSUME NEW r \in owed, Conveyed(r) PROVE Conveyed(r)'
    <3>1. CASE overflowed \/ e \in aimed
      BY <2>1, <3>1 DEF Conveyed
    <3>2. CASE ~(overflowed \/ e \in aimed)
      BY <2>0, <2>1, <2>2, <3>2 DEF Conveyed, TypeInv
    <3>. QED
      BY <3>1, <3>2
  <2>. QED
    BY <2>0, <2>2 DEF GapInv
<1>. QED
  BY <1>1, <1>2, <1>3 DEF Publish

\* The select loop hands a popped commit to the wire; an overflow ends in a
\* resync at the revision of that moment, which covers all that was dropped.
LEMMA GapSession ==
  ASSUME TypeInv, GapInv, Loop
  PROVE  GapInv'
<1>1. UNCHANGED <<told, owed, aimed, pc, commit>>
  BY DEF Loop, Pop, Forward, Discard, Drain, Recheck, Resync, Answer, OnlySession, authorityVars,
         historyVars
<1>2. SUFFICES ASSUME NEW r \in owed, Conveyed(r) PROVE Conveyed(r)'
  BY <1>1 DEF GapInv
<1>3. CASE Pop
  <2>1. wire' = wire /\ overflowed' = overflowed /\ session' = "popped" /\ hand' = Head(queue)
        /\ queue' = Tail(queue) /\ session = "idle" /\ queue # <<>>
    BY <1>3 DEF Pop, SessionMoves
  <2>2. ASSUME NEW i \in DOMAIN queue, queue[i] = r PROVE Conveyed(r)'
    <3>1. i \in 1..Len(queue) /\ Len(queue) \in Nat /\ DOMAIN queue' = 1..Len(queue) - 1
          /\ Head(queue) = queue[1] /\ \A j \in 1..Len(queue) - 1 : queue'[j] = queue[j + 1]
      BY <2>1 DEF TypeInv
    <3>2. CASE i = 1
      BY <2>1, <2>2, <3>1, <3>2 DEF Conveyed
    <3>3. CASE i # 1
      <4>1. i - 1 \in DOMAIN queue' /\ queue'[i - 1] = r
        BY <2>2, <3>1, <3>3
      <4>. QED
        BY <4>1 DEF Conveyed
    <3>. QED
      BY <3>2, <3>3
  <2>. QED
    BY <1>1, <1>2, <2>1, <2>2 DEF Conveyed
<1>4. CASE Forward \/ Answer \/ Resync
  <2>0. wire \in Seq(Frame(Revision))
    BY DEF TypeInv
  <2>1. UNCHANGED <<queue, overflowed>>
    BY <1>4 DEF Forward, Answer, Resync
  <2>2. PICK f : wire' = wire \o <<f>> /\
          \/ f.kind = "commit" /\ f.revision = hand /\ session \in {"popped", "applied"}
          \/ f.kind = "resync" /\ f.revision = Revision /\ session = "resync"
    <3>1. CASE Forward
      <4>. DEFINE g == CommitFrame(hand, "world change")
      <4>1. wire' = wire \o <<g>> /\ session \in {"popped", "applied"}
        BY <3>1 DEF Forward, Send
      <4>2. g.kind = "commit" /\ g.revision = hand
        BY DEF CommitFrame
      <4>. HIDE DEF g
      <4>. QED
        BY <4>1, <4>2
    <3>2. CASE Answer
      <4>. DEFINE g == CommitFrame(hand, "critical")
      <4>1. wire' = wire \o <<g>> /\ session \in {"popped", "applied"}
        BY <3>2 DEF Answer, Send
      <4>2. g.kind = "commit" /\ g.revision = hand
        BY DEF CommitFrame
      <4>. HIDE DEF g
      <4>. QED
        BY <4>1, <4>2
    <3>3. CASE Resync
      <4>. DEFINE g == ResyncFrame(Revision)
      <4>1. wire' = wire \o <<g>> /\ session = "resync"
        BY <3>3 DEF Resync, Send
      <4>2. g.kind = "resync" /\ g.revision = Revision
        BY DEF ResyncFrame
      <4>. HIDE DEF g
      <4>. QED
        BY <4>1, <4>2
    <3>. QED
      BY <1>4, <3>1, <3>2, <3>3
  <2>3. /\ \A i \in DOMAIN wire : \E j \in DOMAIN wire' : wire'[j] = wire[i]
        /\ \E j \in DOMAIN wire' : wire'[j] = f
    BY <2>0, <2>2, SendKeeps
  <2>4. CASE session \in {"popped", "applied"} /\ session = "popped" /\ hand = r
    BY <2>2, <2>3, <2>4 DEF Conveyed
  <2>5. CASE session = "resync"
    <3>1. r <= Revision
      BY DEF TypeInv, Revision
    <3>. QED
      BY <2>2, <2>3, <2>5, <3>1 DEF Conveyed
  <2>6. CASE \E i \in DOMAIN wire : wire[i].kind = "commit" /\ wire[i].revision = r
    BY <2>3, <2>6 DEF Conveyed
  <2>7. CASE \E i \in DOMAIN wire : wire[i].kind = "resync" /\ wire[i].revision >= r
    BY <2>3, <2>7 DEF Conveyed
  <2>. QED
    BY <1>1, <1>2, <2>1, <2>2, <2>4, <2>5, <2>6, <2>7 DEF Conveyed
<1>5. CASE Discard \/ Drain \/ Recheck
  BY <1>5 DEF Discard, Drain, Recheck, SessionMoves, Conveyed
<1>. QED
  BY <1>3, <1>4, <1>5 DEF Loop

\* A frame taken in is one the client is told of, now or by the resync whose
\* watermark it does not pass.
LEMMA GapReceive ==
  ASSUME TypeInv, GapInv, FloorInv, NEW i \in DOMAIN wire, Receive(i)
  PROVE  GapInv'
<1>1. UNCHANGED <<owed, aimed, pc, commit, queue, session, hand, overflowed>>
  BY DEF Receive, authorityVars, sessionVars
<1>2. SUFFICES ASSUME NEW r \in owed, Conveyed(r) PROVE Conveyed(r)'
  BY <1>1 DEF GapInv
<1>3. \A m \in DOMAIN wire : m # i => \E j \in DOMAIN wire' : wire'[j] = wire[m]
  BY RemovedIs DEF Receive, TypeInv
<1>4. r \in 2..Revision /\ Revision \in Nat /\ watermark \in Nat
  BY DEF TypeInv, Revision
<1>5. told \subseteq told'
  BY DEF Receive, HandleCommit, HandleResync, HandleProduct
<1>6. CASE wire[i].kind = "commit" /\ wire[i].revision = r
  <2>1. CASE r > watermark
    BY <1>6, <2>1 DEF Receive, HandleCommit, IsAfterResync, Conveyed
  <2>2. CASE ~(r > watermark)
    BY <1>4, <1>5, <2>2 DEF FloorInv, Conveyed
  <2>. QED
    BY <2>1, <2>2
<1>7. CASE wire[i].kind = "resync" /\ wire[i].revision >= r
  <2>0. wire[i].revision \in 1..Revision
    BY <1>7, FrameIs
  <2>1. CASE wire[i].revision > watermark
    <3>1. told' = told \cup 2..wire[i].revision
      BY <1>7, <2>1 DEF Receive, HandleResync, IsAfterResync
    <3>. QED
      BY <1>4, <1>7, <2>0, <3>1 DEF Conveyed
  <2>2. CASE ~(wire[i].revision > watermark)
    BY <1>4, <1>5, <1>7, <2>0, <2>2 DEF FloorInv, Conveyed
  <2>. QED
    BY <2>1, <2>2
<1>8. CASE \E m \in DOMAIN wire : m # i /\ wire[m].kind = "commit" /\ wire[m].revision = r
  BY <1>3, <1>8 DEF Conveyed
<1>9. CASE \E m \in DOMAIN wire : m # i /\ wire[m].kind = "resync" /\ wire[m].revision >= r
  BY <1>3, <1>9 DEF Conveyed
<1>. QED
  BY <1>1, <1>2, <1>5, <1>6, <1>7, <1>8, <1>9 DEF Conveyed

\* Every step conveys what was published to the connection.
LEMMA GapNext == ASSUME TypeInv, GapInv, FloorInv, [Next]_vars PROVE GapInv'
<1>1. ASSUME NEW e \in Editor, NEW volume \in Volumes, Apply(e, volume) PROVE GapInv'
  BY <1>1, GapKept DEF Apply, TypeInv, sessionVars, historyVars
<1>2. ASSUME NEW volume \in Volumes, ApplyOwn(volume) PROVE GapInv'
  <2>1. UNCHANGED <<told, owed, aimed, pc, commit, queue, overflowed, wire>> /\ session = "idle"
    BY <1>2 DEF ApplyOwn, historyVars
  <2>. QED
    BY <2>1 DEF GapInv, Conveyed
<1>3. ASSUME NEW r \in replays, Replay(r) PROVE GapInv'
  <2>1. wire \in Seq(Frame(Revision)) /\ (wire' = wire \/ wire' = wire \o <<CommitFrame(r, "critical")>>)
    BY <1>3 DEF Replay, Send, TypeInv
  <2>2. \A i \in DOMAIN wire : \E j \in DOMAIN wire' : wire'[j] = wire[i]
    BY <2>1, SendKeeps
  <2>. QED
    BY <1>3, <2>2, GapKept DEF Replay, OnlySession, sessionVars, authorityVars, historyVars
<1>4. ASSUME NEW q \in requests, Serve(q) PROVE GapInv'
  <2>1. wire \in Seq(Frame(Revision)) /\ wire' = wire \o <<ProductFrame(q)>>
    BY <1>4 DEF Serve, Send, TypeInv
  <2>2. \A i \in DOMAIN wire : \E j \in DOMAIN wire' : wire'[j] = wire[i]
    BY <2>1, SendKeeps
  <2>. QED
    BY <1>4, <2>2, GapKept DEF Serve, sessionVars, authorityVars, historyVars
<1>5. CASE Attach
  BY <1>5, GapKept DEF Attach, authorityVars, sessionVars, historyVars
<1>6. ASSUME NEW k \in Chunk, Request(k) PROVE GapInv'
  BY <1>6, GapKept DEF Request, OnlyChunks, authorityVars, sessionVars, historyVars
<1>7. ASSUME NEW q \in Outstanding, RequestFails(q) PROVE GapInv'
  <2>1. UNCHANGED <<told, owed, aimed, pc, commit, queue, session, hand, overflowed>>
    BY <1>7 DEF RequestFails, OnlyChunks, authorityVars, sessionVars, historyVars
  <2>2. CASE wire' = wire
    BY <2>1, <2>2, GapKept
  <2>3. ASSUME NEW i \in DOMAIN wire, wire[i].kind = "product", wire' = Removed(wire, i)
        PROVE  GapInv'
    <3>1. \A m \in DOMAIN wire : m # i => \E j \in DOMAIN wire' : wire'[j] = wire[m]
      BY <2>3, RemovedIs DEF TypeInv
    <3>2. ASSUME NEW r \in owed, Conveyed(r) PROVE Conveyed(r)'
      <4>1. CASE \E m \in DOMAIN wire : wire[m].kind = "commit" /\ wire[m].revision = r
        BY <2>3, <3>1, <4>1 DEF Conveyed
      <4>2. CASE \E m \in DOMAIN wire : wire[m].kind = "resync" /\ wire[m].revision >= r
        BY <2>3, <3>1, <4>2 DEF Conveyed
      <4>. QED
        BY <2>1, <3>2, <4>1, <4>2 DEF Conveyed
    <3>. QED
      BY <2>1, <3>2 DEF GapInv
  <2>. QED
    BY <1>7, <2>2, <2>3 DEF RequestFails
<1>8. CASE Break
  BY <1>8 DEF Break, GapInv
<1>9. CASE UNCHANGED vars
  BY <1>9, GapKept DEF vars, authorityVars, sessionVars, historyVars
<1>. QED
  BY <1>1, <1>2, <1>3, <1>4, <1>5, <1>6, <1>7, <1>8, <1>9, GapPublish, GapSession, GapReceive DEF Next
-----------------------------------------------------------------------------
(* No frame overtakes a resync.                                            *)

\* What is told grows by what is not behind a resync on the wire.
LEMMA OrderKept ==
  ASSUME OrderInv, wire' = wire, told' = told
  PROVE  OrderInv'
BY DEF OrderInv

\* The select loop queues a resync at the newest revision, behind frames and
\* tellings of older ones.
LEMMA OrderSend ==
  ASSUME TypeInv, OrderInv, NEW f, wire' = wire \o <<f>>, told' = told,
         f.kind = "resync" => f.revision = Revision
  PROVE  OrderInv'
<1>1. wire' = Append(wire, f) /\ wire \in Seq(Frame(Revision))
  BY DEF TypeInv
<1>2. /\ DOMAIN wire' = 1..Len(wire) + 1 /\ Len(wire) \in Nat /\ DOMAIN wire = 1..Len(wire)
      /\ \A j \in 1..Len(wire) : wire'[j] = wire[j]
      /\ wire'[Len(wire) + 1] = f
  BY <1>1
<1>3. /\ \A r \in told : r <= Revision
      /\ \A i \in DOMAIN wire : wire[i].kind \in {"commit", "resync"} => wire[i].revision <= Revision
  <2>1. Revision \in Nat
    BY DEF TypeInv, Revision
  <2>. QED
    BY <2>1, FrameIs DEF TypeInv
<1>4. ASSUME NEW j \in DOMAIN wire', wire'[j].kind = "resync"
      PROVE  /\ \A r \in told : r <= wire'[j].revision
             /\ \A i \in 1..j - 1 : wire'[i].kind \in {"commit", "resync"} =>
                  wire'[i].revision <= wire'[j].revision
  <2>1. CASE j = Len(wire) + 1
    <3>1. wire'[j].revision = Revision
      BY <1>2, <1>4, <2>1
    <3>2. \A i \in 1..j - 1 : i \in DOMAIN wire /\ wire'[i] = wire[i]
      BY <1>2, <2>1
    <3>. QED
      BY <1>3, <3>1, <3>2
  <2>2. CASE j \in DOMAIN wire
    <3>1. wire'[j] = wire[j] /\ \A i \in 1..j - 1 : i \in DOMAIN wire /\ wire'[i] = wire[i]
      BY <1>2, <2>2
    <3>. QED
      BY <1>4, <2>2, <3>1 DEF OrderInv
  <2>. QED
    BY <1>2, <2>1, <2>2
<1>. QED
  BY <1>4 DEF OrderInv

\* A frame that leaves keeps the order of the others.
LEMMA OrderRemove ==
  ASSUME TypeInv, OrderInv, NEW m \in DOMAIN wire, wire' = Removed(wire, m),
         \A j \in DOMAIN wire : j # m /\ wire[j].kind = "resync" =>
           \A r \in told' : r <= wire[j].revision
  PROVE  OrderInv'
<1>1. wire \in Seq(Frame(Revision)) /\ Len(wire) \in Nat /\ m \in 1..Len(wire)
  BY DEF TypeInv
<1>2. /\ DOMAIN wire' = 1..Len(wire) - 1
      /\ \A j \in 1..Len(wire) - 1 : wire'[j] = IF j <= m - 1 THEN wire[j] ELSE wire[j + 1]
  <2>1. /\ Removed(wire, m) \in Seq(Frame(Revision)) /\ Len(Removed(wire, m)) = Len(wire) - 1
        /\ \A j \in 1..Len(wire) - 1 :
             Removed(wire, m)[j] = IF j <= m - 1 THEN wire[j] ELSE wire[j + 1]
    BY <1>1, RemovedIs
  <2>. QED
    BY <2>1
<1>. DEFINE Old(j) == IF j <= m - 1 THEN j ELSE j + 1
<1>3. \A j \in DOMAIN wire' : Old(j) \in DOMAIN wire /\ Old(j) # m /\ wire'[j] = wire[Old(j)]
  BY <1>1, <1>2
<1>4. \A j \in DOMAIN wire' : \A i \in 1..j - 1 :
        i \in DOMAIN wire' /\ Old(i) \in 1..Old(j) - 1
  BY <1>1, <1>2
<1>. HIDE DEF Old
<1>5. ASSUME NEW j \in DOMAIN wire', wire'[j].kind = "resync"
      PROVE  /\ \A r \in told' : r <= wire'[j].revision
             /\ \A i \in 1..j - 1 : wire'[i].kind \in {"commit", "resync"} =>
                  wire'[i].revision <= wire'[j].revision
  <2>1. wire'[j] = wire[Old(j)] /\ Old(j) \in DOMAIN wire /\ Old(j) # m
    BY <1>3
  <2>2. \A r \in told' : r <= wire'[j].revision
    BY <1>5, <2>1
  <2>3. ASSUME NEW i \in 1..j - 1, wire'[i].kind \in {"commit", "resync"}
        PROVE  wire'[i].revision <= wire'[j].revision
    <3>1. wire'[i] = wire[Old(i)] /\ Old(i) \in 1..Old(j) - 1
      BY <1>3, <1>4
    <3>. QED
      BY <1>5, <2>1, <2>3, <3>1 DEF OrderInv
  <2>. QED
    BY <2>2, <2>3
<1>. QED
  BY <1>5 DEF OrderInv

\* A frame is taken in only when no resync is before it.
LEMMA OrderReceive ==
  ASSUME TypeInv, OrderInv, NEW m \in DOMAIN wire, Receive(m)
  PROVE  OrderInv'
<1>1. wire' = Removed(wire, m) /\ Sendable(m)
  BY DEF Receive
<1>2. Len(wire) \in Nat /\ DOMAIN wire = 1..Len(wire) /\ Revision \in Nat
  BY DEF TypeInv, Revision
<1>3. ASSUME NEW j \in DOMAIN wire, j # m, wire[j].kind = "resync", NEW r \in told'
      PROVE  r <= wire[j].revision
  <2>1. wire[j].class = "critical"
    <3>1. wire[j] \in Frame(Revision)
      BY DEF TypeInv
    <3>. QED
      BY <1>3, <3>1 DEF Frame
  <2>2. m \in 1..j - 1
    <3>1. j \notin 1..m - 1
      BY <1>1, <2>1 DEF Sendable
    <3>2. j \in 1..Len(wire) /\ m \in 1..Len(wire)
      BY <1>2
    <3>. QED
      BY <1>2, <1>3, <3>1, <3>2
  <2>3. wire[j].revision \in Nat /\ \A i \in told : i <= wire[j].revision
    BY <1>2, <1>3, FrameIs DEF OrderInv
  <2>4. wire[m].kind \in {"commit", "resync"} => wire[m].revision <= wire[j].revision
    BY <1>3, <2>2 DEF OrderInv
  <2>5. CASE wire[m].kind = "product"
    <3>1. told' = told
      BY <2>5 DEF Receive, HandleProduct
    <3>. QED
      BY <2>3, <3>1
  <2>6. CASE wire[m].kind = "commit"
    <3>1. told' \subseteq told \cup {wire[m].revision}
      BY <2>6 DEF Receive, HandleCommit
    <3>. QED
      BY <2>3, <2>4, <2>6, <3>1
  <2>7. CASE wire[m].kind = "resync"
    <3>1. told' \subseteq told \cup 2..wire[m].revision
      BY <2>7 DEF Receive, HandleResync
    <3>2. wire[m].revision \in Nat
      BY <1>2, <2>7, FrameIs
    <3>. QED
      BY <2>3, <2>4, <2>7, <3>1, <3>2
  <2>. QED
    BY <2>5, <2>6, <2>7, FrameIs
<1>. QED
  BY <1>1, <1>3, OrderRemove

\* Every step keeps the order.
LEMMA OrderNext == ASSUME TypeInv, OrderInv, [Next]_vars PROVE OrderInv'
<1>1. ASSUME NEW volume \in Volumes, (\E e \in Editor : Apply(e, volume)) \/ ApplyOwn(volume)
      PROVE  OrderInv'
  BY <1>1, OrderKept DEF Apply, ApplyOwn, historyVars
<1>2. ASSUME NEW e \in Editor, Publish(e) PROVE OrderInv'
  BY <1>2, OrderKept DEF Publish, Aim, Reserve, MarkOverflow, historyVars
<1>3. ASSUME NEW r, NEW class, wire' = wire \o <<CommitFrame(r, class)>>, told' = told
      PROVE  OrderInv'
  <2>. DEFINE f == CommitFrame(r, class)
  <2>1. wire' = wire \o <<f>> /\ f.kind # "resync"
    BY <1>3 DEF CommitFrame
  <2>. HIDE DEF f
  <2>. QED
    BY <1>3, <2>1, OrderSend
<1>4. CASE Forward \/ Answer
  BY <1>3, <1>4 DEF Forward, Answer, Send, OnlySession, historyVars
<1>5. CASE Pop \/ Discard \/ Drain \/ Recheck
  BY <1>5, OrderKept DEF Pop, Discard, Drain, Recheck, OnlySession, historyVars
<1>6. CASE Resync
  <2>. DEFINE f == ResyncFrame(Revision)
  <2>1. wire' = wire \o <<f>> /\ f.revision = Revision /\ told' = told
    BY <1>6 DEF Resync, Send, ResyncFrame, OnlySession, historyVars
  <2>. HIDE DEF f
  <2>. QED
    BY <2>1, OrderSend
<1>7. ASSUME NEW r \in replays, Replay(r) PROVE OrderInv'
  BY <1>3, <1>7, OrderKept DEF Replay, Send, OnlySession, historyVars
<1>8. ASSUME NEW q \in requests, Serve(q) PROVE OrderInv'
  <2>. DEFINE f == ProductFrame(q)
  <2>1. wire' = wire \o <<f>> /\ f.kind # "resync" /\ told' = told
    BY <1>8 DEF Serve, Send, ProductFrame, historyVars
  <2>. HIDE DEF f
  <2>. QED
    BY <2>1, OrderSend
<1>9. ASSUME NEW q \in Outstanding, RequestFails(q) PROVE OrderInv'
  <2>1. told' = told
    BY <1>9 DEF RequestFails, OnlyChunks, historyVars
  <2>2. wire' = wire \/ \E i \in DOMAIN wire : wire' = Removed(wire, i)
    BY <1>9 DEF RequestFails
  <2>. QED
    BY <2>1, <2>2, OrderKept, OrderRemove DEF OrderInv
<1>10. CASE Break
  BY <1>10 DEF Break, OrderInv
<1>11. CASE Attach \/ (\E k \in Chunk : Request(k)) \/ UNCHANGED vars
  BY <1>11, OrderKept DEF Attach, Request, OnlyChunks, historyVars, vars
<1>. QED
  BY <1>1, <1>2, <1>4, <1>5, <1>6, <1>7, <1>8, <1>9, <1>10, <1>11, OrderReceive DEF Next, Loop

-----------------------------------------------------------------------------
(* Never behind what it was told.                                          *)

\* A step that tells the client nothing and loads no chunk keeps what it shows.
LEMMA ClientKept ==
  ASSUME TypeInv, ClientInv, UNCHANGED <<watermark, voxelFloor, ticket, content, told>>,
         \A r \in 2..Revision : Volume(r)' = Volume(r),
         \A k \in Chunk : stage'[k] = "loaded" => stage[k] = "loaded",
         \A q \in requests' : q.ticket <= ticket[q.chunk],
         \A j \in DOMAIN wire' : wire'[j].kind = "product" =>
           \E i \in DOMAIN wire : wire'[j] = wire[i]
  PROVE  ClientInv'
<1>1. \A r \in told : Volume(r)' = Volume(r)
  BY DEF TypeInv
<1>2. \A c, v : AsNewAs(c, v, told) => AsNewAs(c, v, told)'
  BY <1>1 DEF AsNewAs
<1>3. FloorInv'
  BY <1>1 DEF ClientInv, FloorInv
<1>4. ProductInv'
  <2>1. ASSUME NEW j \in DOMAIN wire', wire'[j].kind = "product"
        PROVE  /\ wire'[j].ticket <= ticket'[wire'[j].chunk]
               /\ wire'[j].content \in [Sampled[wire'[j].chunk] -> Nat]
               /\ wire'[j].ticket = ticket'[wire'[j].chunk] =>
                    \A v \in Sampled[wire'[j].chunk] : AsNewAs(wire[j].content[v], v, told)'
    <3>1. PICK i \in DOMAIN wire : wire'[j] = wire[i]
      BY <2>1
    <3>2. /\ wire[i].ticket <= ticket[wire[i].chunk]
          /\ wire[i].content \in [Sampled[wire[i].chunk] -> Nat]
          /\ wire[i].ticket = ticket[wire[i].chunk] =>
               \A v \in Sampled[wire[i].chunk] : AsNewAs(wire[i].content[v], v, told)
      BY <2>1, <3>1 DEF ClientInv, ProductInv
    <3>. QED
      BY <1>1, <3>1, <3>2 DEF AsNewAs
  <2>. QED
    BY <2>1 DEF ProductInv
<1>5. ContentInv'
  BY <1>1 DEF ClientInv, ContentInv, AsNewAs
<1>. QED
  BY <1>3, <1>4, <1>5 DEF ClientInv

\* A product is cut at a snapshot no older than anything the client was told.
LEMMA ClientServe ==
  ASSUME TypeInv, ClientInv, NEW q \in requests, Serve(q)
  PROVE  ClientInv'
<1>1. /\ UNCHANGED <<log, watermark, voxelFloor, ticket, content, told, stage>>
      /\ requests' \subseteq requests /\ wire' = wire \o <<ProductFrame(q)>>
  BY DEF Serve, Send, authorityVars, floorVars, historyVars
<1>2. Revision \in Nat /\ told \subseteq 2..Revision /\ wire \in Seq(Frame(Revision))
      /\ q.chunk \in Chunk
  BY DEF TypeInv, Revision
<1>3. \A r : Volume(r)' = Volume(r)
  BY <1>1 DEF Volume
<1>. DEFINE f == ProductFrame(q)
<1>4. /\ f.kind = "product" /\ f.chunk = q.chunk /\ f.ticket = q.ticket
      /\ f.content = [v \in Sampled[q.chunk] |-> LastWrite(v, 2..Revision)]
  BY DEF ProductFrame
<1>. HIDE DEF f
<1>5. \A v : LastWrite(v, 2..Revision) \in Nat /\ AsNewAs(LastWrite(v, 2..Revision), v, 2..Revision)
  <2>1. 2..Revision \in SUBSET (2..Revision) /\ \A x \in 1..Revision + 1 : x \in Nat
    BY <1>2
  <2>. QED
    BY <1>2, <2>1, LastWriteIs
<1>6. \A v \in Sampled[q.chunk] : f.content[v] \in Nat /\ AsNewAs(f.content[v], v, told)
  <2>1. \A c, v : AsNewAs(c, v, 2..Revision) => AsNewAs(c, v, told)
    BY <1>2 DEF AsNewAs
  <2>2. \A v \in Sampled[q.chunk] : f.content[v] = LastWrite(v, 2..Revision)
    BY <1>4
  <2>. QED
    BY <1>5, <2>1, <2>2
<1>7. f.content \in [Sampled[q.chunk] -> Nat]
  BY <1>4, <1>5
<1>8. FloorInv' /\ ContentInv'
  BY <1>1, <1>3 DEF ClientInv, FloorInv, ContentInv, AsNewAs
<1>9. ASSUME NEW j \in DOMAIN wire', wire'[j].kind = "product"
      PROVE  /\ wire'[j].ticket <= ticket[wire'[j].chunk]
             /\ wire'[j].content \in [Sampled[wire'[j].chunk] -> Nat]
             /\ wire'[j].ticket = ticket[wire'[j].chunk] =>
                  \A v \in Sampled[wire'[j].chunk] : AsNewAs(wire'[j].content[v], v, told)
  <2>1. CASE wire'[j] = f
    BY <1>4, <1>6, <1>7, <2>1 DEF ClientInv, ProductInv
  <2>2. CASE \E i \in DOMAIN wire : wire'[j] = wire[i]
    <3>1. PICK i \in DOMAIN wire : wire'[j] = wire[i]
      BY <2>2
    <3>2. wire[i].kind = "product"
      BY <1>9, <3>1
    <3>3. /\ wire[i].ticket <= ticket[wire[i].chunk]
          /\ wire[i].content \in [Sampled[wire[i].chunk] -> Nat]
          /\ wire[i].ticket = ticket[wire[i].chunk] =>
               \A v \in Sampled[wire[i].chunk] : AsNewAs(wire[i].content[v], v, told)
      BY <3>2 DEF ClientInv, ProductInv
    <3>. QED
      BY <3>1, <3>3
  <2>3. wire'[j] = f \/ \E i \in DOMAIN wire : wire'[j] = wire[i]
    <3>1. wire' = wire \o <<f>>
      BY <1>1 DEF f
    <3>. QED
      BY <1>2, <3>1, SendAdds
  <2>. QED
    BY <2>1, <2>2, <2>3
<1>10. ProductInv'
  BY <1>1, <1>3, <1>9 DEF ClientInv, ProductInv, AsNewAs
<1>. QED
  BY <1>8, <1>10 DEF ClientInv

\* What a commit of the told ones changes for a voxel.
LEMMA ToldCommit ==
  ASSUME NEW c \in Nat, NEW v, NEW r, NEW rs, AsNewAs(c, v, rs), v \in Volume(r) => c >= r
  PROVE  AsNewAs(c, v, rs \cup {r})
BY DEF AsNewAs

\* A commit after the watermark is newer than all the client was told of the
\* voxels that accept it, and no product that lacks it keeps its ticket.
LEMMA ClientCommit ==
  ASSUME TypeInv, ClientInv, NEW r \in 2..Revision, HandleCommit(r), UNCHANGED log,
         \A j \in DOMAIN wire' : \E i \in DOMAIN wire : wire'[j] = wire[i]
  PROVE  ClientInv'
<1>1. CASE ~IsAfterResync(r)
  <2>1. UNCHANGED <<floorVars, chunkVars, told>>
    BY <1>1 DEF HandleCommit
  <2>2. \A m \in 2..Revision : Volume(m)' = Volume(m)
    BY DEF Volume
  <2>. QED
    BY <2>1, <2>2, ClientKept DEF floorVars, chunkVars, ClientInv, ProductInv
<1>2. CASE IsAfterResync(r)
  <2>1. /\ voxelFloor' = [v \in Voxel |-> IF v \in Accepted(r) THEN r ELSE voxelFloor[v]]
        /\ content' = [k \in Chunk |-> [v \in Sampled[k] |->
             IF v \in Accepted(r) /\ content[k][v] # 0 THEN r ELSE content[k][v]]]
        /\ stage' = [k \in Chunk |-> IF k \in AffectedBy(r) THEN AfterEdit(k) ELSE stage[k]]
        /\ ticket' = [k \in Chunk |-> IF k \in AffectedBy(r) THEN ticket[k] + 1 ELSE ticket[k]]
        /\ told' = told \cup {r}
        /\ UNCHANGED <<watermark, requests>>
    BY <1>2 DEF HandleCommit
  <2>2. /\ Revision \in Nat /\ watermark \in Nat /\ r \in Nat /\ r > watermark
        /\ told \subseteq 2..Revision
    BY <1>2 DEF TypeInv, Revision, IsAfterResync
  <2>3. \A m : Volume(m)' = Volume(m)
    BY DEF Volume
  <2>4. /\ Volume(r) \subseteq Voxel /\ AffectedBy(r) \subseteq Chunk
        /\ \A k \in Chunk : \A v \in Sampled[k] : v \in Volume(r) => k \in AffectedBy(r)
    BY AffectedIs DEF TypeInv
  <2>5. \A m \in told : m \in Nat /\ Volume(m) \subseteq Voxel
    BY <2>2, AffectedIs DEF TypeInv
  <2>6. \A v \in Voxel : voxelFloor[v] \in Nat /\ (v \in Accepted(r) <=> v \in Volume(r) /\ r > voxelFloor[v])
    BY <2>4 DEF Accepted, TypeInv
  <2>7. \A v \in Accepted(r) : \A m \in told : v \in Volume(m) => r >= m
    BY <2>2, <2>5, <2>6 DEF ClientInv, FloorInv
  <2>8. FloorInv'
    <3>1. \A v \in Voxel : voxelFloor'[v] # 0 =>
            voxelFloor'[v] \in told' /\ v \in Volume(voxelFloor'[v])
      BY <2>1, <2>6 DEF ClientInv, FloorInv
    <3>2. \A m \in told' : \A v \in Volume(m) : m <= watermark' \/ m <= voxelFloor'[v]
      <4>1. ASSUME NEW m \in told', NEW v \in Volume(m), ~(m <= watermark)
            PROVE  m <= voxelFloor'[v]
        <5>1. m \in told \/ m = r
          BY <2>1
        <5>2. v \in Voxel /\ m \in Nat
          <6>1. CASE m = r
            BY <2>2, <2>4, <6>1
          <6>2. CASE m \in told
            BY <2>5, <6>2
          <6>. QED
            BY <5>1, <6>1, <6>2
        <5>3. CASE v \in Accepted(r)
          BY <2>1, <2>2, <2>7, <5>1, <5>2, <5>3
        <5>4. CASE v \notin Accepted(r)
          <6>1. voxelFloor'[v] = voxelFloor[v] /\ voxelFloor[v] \in Nat
            BY <2>1, <2>6, <5>2, <5>4
          <6>. QED
            BY <2>2, <2>6, <4>1, <5>1, <5>2, <5>4, <6>1 DEF ClientInv, FloorInv
        <5>. QED
          BY <5>3, <5>4
      <4>. QED
        BY <2>1, <4>1
    <3>3. 2..watermark' \subseteq told'
      BY <2>1 DEF ClientInv, FloorInv
    <3>. QED
      BY <2>3, <3>1, <3>2, <3>3 DEF FloorInv
  <2>9. ASSUME NEW k \in Chunk, stage'[k] = "loaded", NEW v \in Sampled[k]
        PROVE  AsNewAs(content'[k][v], v, told \cup {r})
    <3>1. stage[k] = "loaded"
      BY <2>1, <2>9 DEF AfterEdit
    <3>2. AsNewAs(content[k][v], v, told) /\ content[k][v] \in Nat /\ content[k][v] >= 1
          /\ v \in Voxel
      BY <3>1, StreamAssumption DEF ClientInv, ContentInv, TypeInv, AsNewAs
    <3>3. CASE v \in Accepted(r)
      <4>1. content'[k][v] = r
        BY <2>1, <3>2, <3>3
      <4>. QED
        <5>1. \A m \in told : v \in Volume(m) => r >= m
          BY <2>7, <3>3
        <5>2. r >= r /\ r >= 1
          BY <2>2
        <5>. QED
          BY <4>1, <5>1, <5>2 DEF AsNewAs
    <3>4. CASE v \notin Accepted(r)
      <4>1. content'[k][v] = content[k][v]
        BY <2>1, <3>4
      <4>2. v \in Volume(r) => content[k][v] >= r
        <5>1. SUFFICES ASSUME v \in Volume(r) PROVE content[k][v] >= r
          OBVIOUS
        <5>2. voxelFloor[v] >= r /\ voxelFloor[v] # 0
          BY <2>2, <2>6, <3>2, <3>4, <5>1
        <5>3. voxelFloor[v] \in told /\ v \in Volume(voxelFloor[v])
          BY <3>2, <5>2 DEF ClientInv, FloorInv
        <5>4. content[k][v] >= voxelFloor[v]
          BY <3>2, <5>3 DEF AsNewAs
        <5>. QED
          BY <2>2, <2>6, <3>2, <5>2, <5>4
      <4>. QED
        BY <3>2, <4>1, <4>2, ToldCommit
    <3>. QED
      BY <3>3, <3>4
  <2>10. ContentInv'
    BY <2>1, <2>3, <2>9 DEF ContentInv, AsNewAs
  <2>11. ASSUME NEW i \in DOMAIN wire, wire[i].kind = "product"
         PROVE  /\ wire[i].ticket <= ticket'[wire[i].chunk]
                /\ wire[i].content \in [Sampled[wire[i].chunk] -> Nat]
                /\ wire[i].ticket = ticket'[wire[i].chunk] =>
                     \A v \in Sampled[wire[i].chunk] : AsNewAs(wire[i].content[v], v, told \cup {r})
    <3>. DEFINE k == wire[i].chunk
    <3>1. k \in Chunk /\ wire[i].ticket \in Nat /\ ticket[k] \in Nat
      BY <2>11, FrameIs DEF TypeInv
    <3>2. /\ wire[i].ticket <= ticket[k] /\ wire[i].content \in [Sampled[k] -> Nat]
          /\ wire[i].ticket = ticket[k] =>
               \A v \in Sampled[k] : AsNewAs(wire[i].content[v], v, told)
      BY <2>11 DEF ClientInv, ProductInv
    <3>. HIDE DEF k
    <3>3. CASE k \in AffectedBy(r)
      <4>1. ticket'[k] = ticket[k] + 1
        BY <2>1, <3>1, <3>3
      <4>. QED
        BY <3>1, <3>2, <4>1 DEF k
    <3>4. CASE k \notin AffectedBy(r)
      <4>1. ticket'[k] = ticket[k]
        BY <2>1, <3>1, <3>4
      <4>2. \A v \in Sampled[k] : v \notin Volume(r)
        BY <2>4, <3>1, <3>4
      <4>3. wire[i].ticket = ticket[k] =>
              \A v \in Sampled[k] : AsNewAs(wire[i].content[v], v, told \cup {r})
        BY <3>2, <4>2, ToldCommit
      <4>. QED
        BY <3>2, <4>1, <4>3 DEF k
    <3>. QED
      BY <3>3, <3>4
  <2>12. \A q \in requests' : q.ticket <= ticket'[q.chunk]
    <3>1. ASSUME NEW q \in requests PROVE q.ticket <= ticket'[q.chunk]
      <4>1. q.chunk \in Chunk /\ q.ticket \in Nat /\ ticket[q.chunk] \in Nat
            /\ q.ticket <= ticket[q.chunk]
        BY DEF TypeInv, ClientInv, ProductInv
      <4>. QED
        BY <2>1, <4>1
    <3>. QED
      BY <2>1, <3>1
  <2>13. ProductInv'
    <3>1. ASSUME NEW j \in DOMAIN wire', wire'[j].kind = "product"
          PROVE  /\ wire'[j].ticket <= ticket'[wire'[j].chunk]
                 /\ wire'[j].content \in [Sampled[wire'[j].chunk] -> Nat]
                 /\ wire'[j].ticket = ticket'[wire'[j].chunk] =>
                      \A v \in Sampled[wire'[j].chunk] :
                        AsNewAs(wire'[j].content[v], v, told \cup {r})
      BY <2>11, <3>1
    <3>. QED
      BY <2>1, <2>3, <2>12, <3>1 DEF ProductInv, AsNewAs
  <2>. QED
    BY <2>8, <2>10, <2>13 DEF ClientInv
<1>. QED
  BY <1>1, <1>2

\* A resync gives every chunk a new ticket, so no chunk is in use until it is
\* generated again, and the floors may go.
LEMMA ClientResync ==
  ASSUME TypeInv, ClientInv, NEW r \in 1..Revision, HandleResync(r), UNCHANGED log,
         \A m \in told : m <= r,
         \A j \in DOMAIN wire' : \E i \in DOMAIN wire : wire'[j] = wire[i]
  PROVE  ClientInv'
<1>1. CASE ~IsAfterResync(r)
  <2>1. UNCHANGED <<floorVars, chunkVars, told>>
    BY <1>1 DEF HandleResync
  <2>2. \A m \in 2..Revision : Volume(m)' = Volume(m)
    BY DEF Volume
  <2>. QED
    BY <2>1, <2>2, ClientKept DEF floorVars, chunkVars, ClientInv, ProductInv
<1>2. CASE IsAfterResync(r)
  <2>1. /\ watermark' = r
        /\ voxelFloor' = [v \in Voxel |-> 0]
        /\ stage' = [k \in Chunk |-> "queued"]
        /\ ticket' = [k \in Chunk |-> ticket[k] + 1]
        /\ told' = told \cup 2..r
        /\ UNCHANGED <<requests, content>>
    BY <1>2 DEF HandleResync
  <2>2. /\ Revision \in Nat /\ watermark \in Nat /\ r \in Nat /\ r > watermark
        /\ told \subseteq 2..Revision
    BY <1>2 DEF TypeInv, Revision, IsAfterResync
  <2>3. \A m : Volume(m)' = Volume(m)
    BY DEF Volume
  <2>4. \A m \in told : m \in Nat /\ Volume(m) \subseteq Voxel
    BY <2>2, AffectedIs DEF TypeInv
  <2>5. FloorInv'
    <3>1. \A m \in told' : m <= r
      BY <2>1, <2>2
    <3>2. 2..r \subseteq told'
      BY <2>1
    <3>. QED
      BY <2>1, <2>3, <3>1, <3>2 DEF FloorInv
  <2>6. ContentInv'
    BY <2>1 DEF ContentInv
  <2>7. ASSUME NEW i \in DOMAIN wire, wire[i].kind = "product"
        PROVE  /\ wire[i].ticket < ticket'[wire[i].chunk]
               /\ wire[i].ticket \in Nat /\ ticket'[wire[i].chunk] \in Nat
               /\ wire[i].content \in [Sampled[wire[i].chunk] -> Nat]
    <3>1. wire[i].chunk \in Chunk /\ wire[i].ticket \in Nat
      BY <2>7, FrameIs
    <3>2. wire[i].ticket <= ticket[wire[i].chunk] /\ ticket[wire[i].chunk] \in Nat
          /\ wire[i].content \in [Sampled[wire[i].chunk] -> Nat]
      BY <2>7, <3>1 DEF ClientInv, ProductInv, TypeInv
    <3>3. ticket'[wire[i].chunk] = ticket[wire[i].chunk] + 1
      BY <2>1, <3>1
    <3>. QED
      BY <3>1, <3>2, <3>3
  <2>8. \A q \in requests : q.ticket <= ticket'[q.chunk]
    BY <2>1 DEF ClientInv, ProductInv, TypeInv
  <2>9. ProductInv'
    <3>1. ASSUME NEW j \in DOMAIN wire', wire'[j].kind = "product"
          PROVE  /\ wire'[j].ticket < ticket'[wire'[j].chunk]
                 /\ wire'[j].ticket \in Nat /\ ticket'[wire'[j].chunk] \in Nat
                 /\ wire'[j].content \in [Sampled[wire'[j].chunk] -> Nat]
      <4>1. PICK i \in DOMAIN wire : wire'[j] = wire[i]
        OBVIOUS
      <4>. QED
        BY <2>7, <3>1, <4>1
    <3>. QED
      BY <2>1, <2>8, <3>1 DEF ProductInv
  <2>. QED
    BY <2>5, <2>6, <2>9 DEF ClientInv
<1>. QED
  BY <1>1, <1>2

\* A product that is accepted is for the ticket its chunk has.
LEMMA ClientProduct ==
  ASSUME TypeInv, ClientInv, NEW i \in DOMAIN wire, wire[i].kind = "product",
         HandleProduct(wire[i]), UNCHANGED log,
         \A j \in DOMAIN wire' : \E m \in DOMAIN wire : wire'[j] = wire[m]
  PROVE  ClientInv'
<1>. DEFINE p == wire[i]
<1>1. /\ p.chunk \in Chunk /\ p.content \in [Sampled[p.chunk] -> Nat]
      /\ p.ticket = ticket[p.chunk] =>
           \A v \in Sampled[p.chunk] : AsNewAs(p.content[v], v, told)
  BY FrameIs DEF ClientInv, ProductInv
<1>2. UNCHANGED <<watermark, voxelFloor, requests, ticket, told>> /\ HandleProduct(p)
  BY DEF HandleProduct, floorVars
<1>3. \A m : Volume(m)' = Volume(m)
  BY DEF Volume
<1>. HIDE DEF p
<1>4. CASE UNCHANGED content /\ stage' = Retried(p)
  BY <1>2, <1>3, <1>4, ClientKept DEF Retried, ClientInv, ProductInv, TypeInv
<1>5. CASE UNCHANGED <<stage, content>>
  BY <1>2, <1>3, <1>5, ClientKept DEF ClientInv, ProductInv
<1>6. CASE /\ IsCurrent(p)
           /\ stage' = [stage EXCEPT ![p.chunk] = "loaded"]
           /\ content' = [content EXCEPT ![p.chunk] = p.content]
  <2>1. \A v \in Sampled[p.chunk] : AsNewAs(p.content[v], v, told)
    BY <1>1, <1>6 DEF IsCurrent
  <2>2. ASSUME NEW k \in Chunk, stage'[k] = "loaded", NEW v \in Sampled[k]
        PROVE  AsNewAs(content'[k][v], v, told)
    <3>1. CASE k = p.chunk
      BY <1>6, <2>1, <3>1 DEF TypeInv
    <3>2. CASE k # p.chunk
      BY <1>6, <2>2, <3>2 DEF TypeInv, ClientInv, ContentInv
    <3>. QED
      BY <3>1, <3>2
  <2>3. ContentInv'
    BY <1>2, <1>3, <2>2 DEF ContentInv, AsNewAs
  <2>4. FloorInv'
    BY <1>2, <1>3 DEF ClientInv, FloorInv
  <2>5. ASSUME NEW j \in DOMAIN wire', wire'[j].kind = "product"
        PROVE  /\ wire'[j].ticket <= ticket[wire'[j].chunk]
               /\ wire'[j].content \in [Sampled[wire'[j].chunk] -> Nat]
               /\ wire'[j].ticket = ticket[wire'[j].chunk] =>
                    \A v \in Sampled[wire'[j].chunk] : AsNewAs(wire'[j].content[v], v, told)
    <3>1. PICK m \in DOMAIN wire : wire'[j] = wire[m]
      OBVIOUS
    <3>. QED
      BY <2>5, <3>1 DEF ClientInv, ProductInv
  <2>6. ProductInv'
    BY <1>2, <1>3, <2>5 DEF ClientInv, ProductInv, AsNewAs
  <2>. QED
    BY <2>3, <2>4, <2>6 DEF ClientInv
<1>. QED
  BY <1>2, <1>4, <1>5, <1>6 DEF HandleProduct

\* A frame taken in.
LEMMA ClientReceive ==
  ASSUME TypeInv, OrderInv, ClientInv, NEW i \in DOMAIN wire, Receive(i)
  PROVE  ClientInv'
<1>1. UNCHANGED log /\ wire' = Removed(wire, i) /\ wire \in Seq(Frame(Revision))
  BY DEF Receive, authorityVars, TypeInv
<1>2. \A j \in DOMAIN wire' : \E m \in DOMAIN wire : wire'[j] = wire[m]
  BY <1>1, RemovedIs
<1>3. CASE wire[i].kind = "commit" /\ HandleCommit(wire[i].revision)
  BY <1>1, <1>2, <1>3, FrameIs, ClientCommit
<1>4. CASE wire[i].kind = "resync" /\ HandleResync(wire[i].revision)
  BY <1>1, <1>2, <1>4, FrameIs, ClientResync DEF OrderInv
<1>5. CASE wire[i].kind = "product" /\ HandleProduct(wire[i])
  BY <1>1, <1>2, <1>5, ClientProduct
<1>. QED
  BY <1>3, <1>4, <1>5 DEF Receive

\* Every step keeps what the client shows up to date with what it was told.
LEMMA ClientNext == ASSUME TypeInv, OrderInv, ClientInv, [Next]_vars PROVE ClientInv'
<1>. DEFINE Quietly ==
       /\ UNCHANGED <<watermark, voxelFloor, ticket, content, told>>
       /\ \A k \in Chunk : stage'[k] = "loaded" => stage[k] = "loaded"
       /\ requests' \subseteq requests
<1>0. \A q \in requests : q.ticket <= ticket[q.chunk]
  BY DEF ClientInv, ProductInv
<1>1. ASSUME Quietly, log' = log,
             \A j \in DOMAIN wire' : wire'[j].kind = "product" =>
               \E i \in DOMAIN wire : wire'[j] = wire[i]
      PROVE  ClientInv'
  <2>1. \A r \in 2..Revision : Volume(r)' = Volume(r)
    BY <1>1 DEF Volume
  <2>. QED
    BY <1>0, <1>1, <2>1, ClientKept
<1>2. ASSUME NEW volume \in Volumes, (\E e \in Editor : Apply(e, volume)) \/ ApplyOwn(volume)
      PROVE  ClientInv'
  <2>1. log' = Append(log, volume) /\ wire' = wire /\ Quietly
    BY <1>2 DEF Apply, ApplyOwn, chunkVars, floorVars, historyVars
  <2>2. \A r \in 2..Revision : Volume(r)' = Volume(r)
    BY <2>1, LogGrows DEF TypeInv
  <2>. QED
    BY <1>0, <2>1, <2>2, ClientKept
<1>3. ASSUME NEW e \in Editor, Publish(e) PROVE ClientInv'
  BY <1>1, <1>3 DEF Publish, Aim, Reserve, MarkOverflow, sessionVars, chunkVars, floorVars, historyVars
<1>4. ASSUME Loop \/ \E r \in replays : Replay(r) PROVE ClientInv'
  <2>1. Quietly /\ log' = log
    BY <1>4 DEF Loop, Pop, Forward, Discard, Drain, Recheck, Resync, Answer, Replay, OnlySession,
                authorityVars, chunkVars, floorVars, historyVars
  <2>2. wire' = wire \/ \E f : wire' = wire \o <<f>> /\ f.kind \in {"commit", "resync"}
    <3>1. CASE Pop \/ Discard \/ Drain \/ Recheck
      BY <3>1 DEF Pop, Discard, Drain, Recheck
    <3>2. ASSUME NEW r, NEW class, wire' = wire \o <<CommitFrame(r, class)>> PROVE <2>2!:
      <4>. DEFINE f == CommitFrame(r, class)
      <4>1. f.kind = "commit" /\ wire' = wire \o <<f>>
        BY <3>2 DEF CommitFrame
      <4>. HIDE DEF f
      <4>. QED
        BY <4>1
    <3>3. CASE Resync
      <4>. DEFINE f == ResyncFrame(Revision)
      <4>1. f.kind = "resync" /\ wire' = wire \o <<f>>
        BY <3>3 DEF Resync, Send, ResyncFrame
      <4>. HIDE DEF f
      <4>. QED
        BY <4>1
    <3>4. CASE Forward \/ Answer
      BY <3>2, <3>4 DEF Forward, Answer, Send
    <3>5. ASSUME NEW r \in replays, Replay(r) PROVE <2>2!:
      BY <3>2, <3>5 DEF Replay, Send
    <3>. QED
      BY <1>4, <3>1, <3>3, <3>4, <3>5 DEF Loop
  <2>3. wire \in Seq(Frame(Revision))
    BY DEF TypeInv
  <2>4. ASSUME NEW j \in DOMAIN wire', wire'[j].kind = "product"
        PROVE  \E i \in DOMAIN wire : wire'[j] = wire[i]
    <3>1. CASE wire' = wire
      BY <3>1
    <3>2. ASSUME NEW f, wire' = wire \o <<f>>, f.kind \in {"commit", "resync"}
          PROVE  \E i \in DOMAIN wire : wire'[j] = wire[i]
      <4>1. wire'[j] = f \/ \E i \in DOMAIN wire : wire'[j] = wire[i]
        BY <2>3, <3>2, SendAdds
      <4>. QED
        BY <2>4, <3>2, <4>1
    <3>. QED
      BY <2>2, <3>1, <3>2
  <2>. QED
    BY <1>1, <2>1, <2>4
<1>5. CASE Attach
  BY <1>1, <1>5 DEF Attach, authorityVars, chunkVars, floorVars, historyVars
<1>6. ASSUME NEW k \in Chunk, Request(k) PROVE ClientInv'
  <2>1. /\ UNCHANGED <<log, wire, watermark, voxelFloor, ticket, content, told>>
        /\ stage' = [stage EXCEPT ![k] = "generating"]
        /\ requests' = requests \cup {[chunk |-> k, ticket |-> ticket[k]]}
    BY <1>6 DEF Request, OnlyChunks, authorityVars, floorVars, historyVars
  <2>2. \A c \in Chunk : stage'[c] = "loaded" => stage[c] = "loaded"
    BY <2>1 DEF TypeInv
  <2>3. \A q \in requests' : q.ticket <= ticket[q.chunk]
    BY <1>0, <2>1 DEF TypeInv
  <2>4. \A r \in 2..Revision : Volume(r)' = Volume(r)
    BY <2>1 DEF Volume
  <2>. QED
    BY <2>1, <2>2, <2>3, <2>4, ClientKept
<1>7. ASSUME NEW q \in Outstanding, RequestFails(q) PROVE ClientInv'
  <2>1. Quietly /\ log' = log
    BY <1>7 DEF RequestFails, Retried, OnlyChunks, authorityVars, floorVars, historyVars, TypeInv
  <2>2. wire' = wire \/ \E i \in DOMAIN wire : wire' = Removed(wire, i)
    BY <1>7 DEF RequestFails
  <2>3. \A j \in DOMAIN wire' : \E i \in DOMAIN wire : wire'[j] = wire[i]
    BY <2>2, RemovedIs DEF TypeInv
  <2>. QED
    BY <1>1, <2>1, <2>3
<1>8. CASE Break
  BY <1>1, <1>8 DEF Break, floorVars, TypeInv
<1>9. CASE UNCHANGED vars
  BY <1>1, <1>9 DEF vars, authorityVars, chunkVars, floorVars, historyVars
<1>. QED
  BY <1>2, <1>3, <1>4, <1>5, <1>6, <1>7, <1>8, <1>9, ClientServe, ClientReceive DEF Next
-----------------------------------------------------------------------------
(* The theorems.                                                           *)

\* A client that starts has been told nothing and is owed nothing.
LEMMA InitInv == Init => IInv
<1>. SUFFICES ASSUME Init PROVE IInv
  OBVIOUS
<1>1. TypeInv
  BY InitType
<1>2. GapInv /\ OrderInv
  BY DEF Init, GapInv, OrderInv
<1>3. FloorInv
  BY DEF Init, FloorInv
<1>4. ProductInv /\ ContentInv
  BY DEF Init, ProductInv, ContentInv
<1>. QED
  BY <1>1, <1>2, <1>3, <1>4 DEF IInv, ClientInv

\* The invariant is inductive.
LEMMA NextInv == IInv /\ [Next]_vars => IInv'
<1>. SUFFICES ASSUME IInv, [Next]_vars PROVE IInv'
  OBVIOUS
<1>1. TypeInv /\ GapInv /\ OrderInv /\ ClientInv /\ FloorInv /\ ProductInv
  BY DEF IInv, ClientInv
<1>2. TypeInv'
  BY <1>1, TypeNext
<1>3. GapInv'
  BY <1>1, GapNext
<1>4. OrderInv'
  BY <1>1, OrderNext
<1>5. ClientInv'
  BY <1>1, ClientNext
<1>. QED
  BY <1>2, <1>3, <1>4, <1>5 DEF IInv

\* The queue, the wire and the client's floors and chunks keep their types, and
\* no revision is ahead of the authority's.
THEOREM TypeCorrect == Spec => []TypeInv
BY InitInv, NextInv, PTL DEF Spec, IInv

\* Overflow leaves no silent gap (EditSubscription, discard_stale_after_overflow):
\* when nothing is under way, the client has handled every commit published to
\* its connection, or a resync that covers it.
THEOREM GapIsNeverSilent == Spec => []NoSilentGap
<1>1. IInv => NoSilentGap
  <2>. SUFFICES ASSUME IInv, Quiet, NEW r \in owed PROVE r \in told
    BY DEF NoSilentGap
  <2>1. Conveyed(r)
    BY DEF IInv, GapInv
  <2>. QED
    BY <2>1 DEF Quiet, Conveyed
<1>. QED
  BY <1>1, InitInv, NextInv, PTL DEF Spec

\* A chunk in use shows every voxel at least as new as the newest commit the
\* client was told of (commit_is_after_resync, mark_chunks_edited,
\* resynchronize_world_products, accept_generated_chunk).
THEOREM ClientIsNeverBehind == Spec => []NeverBehindWhatItWasTold
<1>1. IInv => NeverBehindWhatItWasTold
  <2>. SUFFICES ASSUME IInv, NEW k \in Chunk, stage[k] = "loaded", NEW v \in Sampled[k]
                PROVE  content[k][v] >= LastWrite(v, told)
    BY DEF NeverBehindWhatItWasTold
  <2>1. Revision \in Nat /\ told \in SUBSET (2..Revision) /\ content[k][v] \in Nat
    BY DEF IInv, TypeInv, Revision
  <2>2. AsNewAs(content[k][v], v, told)
    BY DEF IInv, ClientInv, ContentInv
  <2>. QED
    BY <2>1, <2>2, LastWriteIs
<1>. QED
  BY <1>1, InitInv, NextInv, PTL DEF Spec
=============================================================================
