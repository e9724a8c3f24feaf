------------------------- MODULE ChunkPipelineProofs -------------------------
(***************************************************************************)
(* What TLAPS proves of a chunk's way through the client: what is meshed   *)
(* and shown includes every commit the client was told of, the chunks of a *)
(* cut come into use together, no change holds the terrain back that       *)
(* nobody prepares, no work in flight is lost, and in order what is shown  *)
(* is what is held.                                                        *)
(***************************************************************************)
EXTENDS ChunkPipeline, FiniteSetTheorems, SequenceTheorems, NaturalsInduction, WellFoundedInduction, TLAPS

-----------------------------------------------------------------------------
(* The inductive invariant.                                                *)

Entries == [Chunk -> Entry \cup {None}]
GenerationTicket == {t \in Ticket : t.stage = "generating"}
UploadTicket == {t \in Ticket : t.stage = "uploading"}
Uploads == [Chunk -> UploadTicket \cup {None}]
Required == UNION {[S -> Nat] : S \in SUBSET Chunk}
CutType == [server : Nat, required : Required]
RequestType == [ticket : GenerationTicket, asof : Nat]
Revisions == 2..Revision

ShapeInv ==
  /\ log \in Seq(SUBSET Chunk) /\ Len(log) <= MaxEvents
  /\ mishaps \in Nat
  /\ watermark \in Nat /\ watermark <= Revision
  /\ known \subseteq Revisions /\ 2..watermark \subseteq known
  /\ entries \in Entries
  /\ requests \subseteq RequestType /\ IsFiniteSet(requests)
  /\ voxels \in [Chunk -> (SUBSET Revisions) \cup {None}]
  /\ uploads \in Uploads
  /\ cuts \in Seq(CutType)

\* A product under way for a generation that still counts was asked for after
\* the last resync.
TicketInv ==
  \A q \in requests : IsActive(q.ticket, entries) => watermark <= q.asof /\ q.asof <= Revision

CurrentInv == ShapeInv /\ TicketInv /\ VoxelsAreCurrent

-----------------------------------------------------------------------------
(* What a step of the scheduler may do to the entries: no chunk comes into *)
(* use, and no request that was void counts again.                         *)

Uses(es, k) == es[k] # None /\ es[k].state \in Past

Follows(b, a) ==
  /\ b \in Entries
  /\ \A k \in Chunk : Uses(b, k) => Uses(a, k)
  /\ \A q \in requests : IsActive(q.ticket, b) => IsActive(q.ticket, a)

LEMMA TicketType ==
  ASSUME NEW es \in Entries, NEW k \in Chunk, es[k] # None
  PROVE  /\ es[k] \in Entry
         /\ TicketOf(k, es).stage = es[k].state /\ TicketOf(k, es).chunk = k
         /\ TicketOf(k, es).serial = es[k].serial
BY DEF TicketOf, Entries

LEMMA TicketIs ==
  ASSUME NEW es, NEW k \in Chunk, es[k] \in Entry, es[k].state \in {"generating", "meshing", "uploading"}
  PROVE  TicketOf(k, es) \in Ticket /\ TicketOf(k, es).stage = es[k].state
BY DEF Entry, TicketOf, Ticket

LEMMA ActiveIs ==
  ASSUME NEW es \in Entries, NEW ts \in SUBSET Ticket, NEW k \in Active(ts, es)
  PROVE  /\ k \in Chunk /\ es[k] # None /\ es[k] \in Entry
         /\ TicketOf(k, es) \in ts /\ TicketOf(k, es).stage = es[k].state
<1>1. PICK t \in ts : IsActive(t, es) /\ k = t.chunk
  BY DEF Active
<1>2. t.chunk \in Chunk
  BY DEF Ticket
<1>3. es[k] # None /\ TicketOf(k, es) = t
  BY <1>1 DEF IsActive
<1>4. k \in Chunk
  BY <1>1, <1>2
<1>5. es[k] \in Entry /\ TicketOf(k, es).stage = es[k].state
  BY <1>3, <1>4, TicketType
<1>. QED
  BY <1>1, <1>3, <1>4, <1>5

LEMMA FollowsRefl == ASSUME NEW es \in Entries PROVE Follows(es, es)
BY DEF Follows

LEMMA FollowsTrans == ASSUME NEW a, NEW b, NEW c, Follows(b, a), Follows(c, b) PROVE Follows(c, a)
BY DEF Follows

\* Entries of some chunks are rewritten.
LEMMA RewrittenFollows ==
  ASSUME NEW a \in Entries, NEW S, NEW b, requests \subseteq RequestType,
         b = [k \in Chunk |-> IF k \in S THEN b[k] ELSE a[k]],
         \A k \in Chunk \cap S : b[k] # None =>
           /\ b[k] \in Entry
           /\ b[k].state \in Past => Uses(a, k)
           /\ b[k].state = "generating" =>
                \A q \in requests : q.ticket.chunk = k => q.ticket.serial # b[k].serial
  PROVE  Follows(b, a)
<1>1. \A k \in Chunk : b[k] \in Entry \cup {None}
  BY DEF Entries
<1>2. b \in Entries
  BY <1>1 DEF Entries
<1>3. ASSUME NEW k \in Chunk, Uses(b, k) PROVE Uses(a, k)
  <2>1. CASE k \in S
    BY <1>3, <2>1 DEF Uses
  <2>2. CASE k \notin S
    <3>1. b[k] = a[k]
      BY <2>2
    <3>. QED
      BY <1>3, <3>1 DEF Uses
  <2>. QED
    BY <2>1, <2>2
<1>4. ASSUME NEW q \in requests, IsActive(q.ticket, b) PROVE IsActive(q.ticket, a)
  <2>. DEFINE k == q.ticket.chunk
  <2>1. k \in Chunk /\ q.ticket.stage = "generating"
    BY DEF RequestType, GenerationTicket, Ticket
  <2>2. b[k] # None /\ TicketOf(k, b) = q.ticket
    BY <1>4 DEF IsActive
  <2>3. b[k].state = "generating" /\ b[k].serial = q.ticket.serial
    <3>1. TicketOf(k, b).stage = b[k].state /\ TicketOf(k, b).serial = b[k].serial
      BY <1>2, <2>1, <2>2, TicketType
    <3>. QED
      BY <2>1, <2>2, <3>1
  <2>4. k \notin S
    BY <2>1, <2>2, <2>3
  <2>5. b[k] = a[k]
    BY <2>1, <2>4
  <2>. QED
    BY <2>2, <2>5 DEF IsActive, TicketOf
<1>. QED
  BY <1>2, <1>3, <1>4 DEF Follows

\* The ways an entry changes; each gives an entry.
DoneEntry(e, s) == [e EXCEPT !.state = s, !.serial = 0, !.ever = @ \/ s = "resident"]
SetEntry(e, s, n) == [e EXCEPT !.state = s, !.serial = n]
WantedEntry(e, x) == [e EXCEPT !.desired = x]
RenewedEntry(e, s) == [e EXCEPT !.revision = @ + 1, !.serial = 0, !.state = s]

LEMMA EntryDone ==
  ASSUME NEW e \in Entry, NEW s \in State
  PROVE  DoneEntry(e, s) \in Entry /\ DoneEntry(e, s).state = s
<1>1. PICK x \in BOOLEAN : x = (e.ever \/ s = "resident")
  OBVIOUS
<1>2. DoneEntry(e, s) = [e EXCEPT !.state = s, !.serial = 0, !.ever = x]
  BY <1>1 DEF DoneEntry
<1>3. [e EXCEPT !.state = s, !.serial = 0, !.ever = x] \in Entry
  BY DEF Entry
<1>4. [e EXCEPT !.state = s, !.serial = 0, !.ever = x].state = s
  BY DEF Entry
<1>. QED
  BY <1>2, <1>3, <1>4

LEMMA EntrySet ==
  ASSUME NEW e \in Entry, NEW s \in State, NEW n \in Nat
  PROVE  SetEntry(e, s, n) \in Entry /\ SetEntry(e, s, n).state = s /\ SetEntry(e, s, n).serial = n
BY DEF Entry, SetEntry

LEMMA EntryWanted ==
  ASSUME NEW e \in Entry, NEW x \in BOOLEAN
  PROVE  /\ WantedEntry(e, x) \in Entry /\ WantedEntry(e, x).state = e.state
         /\ WantedEntry(e, x).serial = e.serial
BY DEF Entry, WantedEntry

LEMMA EntryRenewed ==
  ASSUME NEW e \in Entry, NEW s \in State
  PROVE  RenewedEntry(e, s) \in Entry /\ RenewedEntry(e, s).state = s
<1>1. PICK r \in Nat : r = e.revision + 1
  BY DEF Entry
<1>2. RenewedEntry(e, s) = [e EXCEPT !.revision = r, !.serial = 0, !.state = s]
  BY <1>1 DEF RenewedEntry
<1>3. [e EXCEPT !.revision = r, !.serial = 0, !.state = s] \in Entry
  BY DEF Entry
<1>4. [e EXCEPT !.revision = r, !.serial = 0, !.state = s].state = s
  BY DEF Entry
<1>. QED
  BY <1>2, <1>3, <1>4

\* Induction over the natural numbers, for a set.
LEMMA SetInduction ==
  ASSUME NEW S \in SUBSET Nat, 0 \in S, \A n \in S : n + 1 \in S
  PROVE  S = Nat
<1>. DEFINE Less == {p \in Nat \X Nat : p[1] < p[2]}
<1>1. SUFFICES ASSUME Nat \ S # {} PROVE FALSE
  OBVIOUS
<1>2. IsWellFoundedOn(Less, Nat)
  BY NatLessThanWellFounded DEF OpToRel
<1>3. PICK m \in Nat \ S : \A x \in Nat \ S : ~(<<x, m>> \in Less)
  <2>. HIDE DEF Less
  <2>. QED
    BY <1>1, <1>2, WFMin
<1>4. m # 0 /\ m - 1 \in Nat /\ m - 1 < m
  BY <1>3
<1>5. m - 1 \in S
  BY <1>3, <1>4
<1>6. (m - 1) + 1 \in S
  BY <1>5
<1>. QED
  BY <1>3, <1>4, <1>6

\* A set of numbers that is not empty has a least one.
LEMMA LeastNat ==
  ASSUME NEW S \in SUBSET Nat, S # {}
  PROVE  \E m \in S : \A x \in S : m <= x
<1>. DEFINE Less == {p \in Nat \X Nat : p[1] < p[2]}
<1>1. IsWellFoundedOn(Less, Nat)
  BY NatLessThanWellFounded DEF OpToRel
<1>2. PICK m \in S : \A x \in S : ~(<<x, m>> \in Less)
  <2>. HIDE DEF Less
  <2>. QED
    BY <1>1, WFMin
<1>3. \A x \in S : <<x, m>> \in Nat \X Nat
  OBVIOUS
<1>4. \A x \in S : ~(x < m)
  BY <1>2, <1>3
<1>. QED
  BY <1>4

\* A set of revisions up to n has a newest one.
LEMMA MaxOf ==
  ASSUME NEW n \in Nat, NEW S \in SUBSET (1..n), S # {}
  PROVE  Max(S) \in S /\ \A x \in S : x <= Max(S)
<1>. DEFINE Bounds == {m \in Nat : \A x \in S : x <= m}
<1>1. PICK b \in Bounds : \A m \in Bounds : b <= m
  <2>1. n \in Bounds
    OBVIOUS
  <2>. QED
    BY <2>1, LeastNat
<1>2. b - 1 \notin Bounds
  BY <1>1
<1>3. b \in S
  <2>1. b # 0
    <3>1. PICK x \in S : TRUE
      OBVIOUS
    <3>2. x >= 1 /\ x <= b
      BY <1>1
    <3>. QED
      BY <3>2
  <2>2. PICK x \in S : ~(x <= b - 1)
    BY <1>1, <1>2, <2>1
  <2>. QED
    BY <1>1, <2>2
<1>4. \A y \in S : (\A x \in S : y >= x) <=> y = b
  BY <1>1, <1>3
<1>. QED
  BY <1>1, <1>3, <1>4 DEF Max

-----------------------------------------------------------------------------
(* The operations of the scheduler.                                        *)

LEMMA CompletedFollows ==
  ASSUME NEW es \in Entries, NEW ts \in SUBSET Ticket, \A t \in ts : t.stage # "generating",
         requests \subseteq RequestType
  PROVE  Follows(Completed(ts, es), es)
<1>. DEFINE next(k) == After(es[k].state)
            b == Completed(ts, es)
<1>1. b = [k \in Chunk |-> IF k \in Active(ts, es)
                           THEN [es[k] EXCEPT !.state = next(k), !.serial = 0, !.ever = @ \/ next(k) = "resident"]
                           ELSE es[k]]
  BY DEF Completed
<1>2. ASSUME NEW k \in Chunk \cap Active(ts, es)
      PROVE  b[k] \in Entry /\ Uses(es, k) /\ b[k].state # "generating"
  <2>1. /\ k \in Chunk /\ es[k] # None /\ es[k] \in Entry
        /\ TicketOf(k, es) \in ts /\ TicketOf(k, es).stage = es[k].state
    BY ActiveIs
  <2>7. es[k].state \in {"meshing", "uploading"}
    BY <2>1 DEF Ticket
  <2>2. next(k) \in {"queued_upload", "resident"}
    <3>1. CASE es[k].state = "meshing"
      BY <3>1 DEF After
    <3>2. CASE es[k].state = "uploading"
      BY <3>2 DEF After
    <3>. QED
      BY <2>7, <3>1, <3>2
  <2>3. next(k) \in State /\ next(k) # "generating"
    BY <2>2 DEF State, Past
  <2>. HIDE DEF next
  <2>4. b[k] = DoneEntry(es[k], next(k))
    BY <1>1, <2>1 DEF DoneEntry
  <2>5. b[k] \in Entry /\ b[k].state = next(k)
    BY <2>1, <2>3, <2>4, EntryDone
  <2>. QED
    BY <2>1, <2>3, <2>5, <2>7 DEF Uses, Past
<1>3. b = [k \in Chunk |-> IF k \in Active(ts, es) THEN b[k] ELSE es[k]]
  BY <1>1
<1>. HIDE DEF b
<1>4. Follows(b, es)
  BY <1>2, <1>3, RewrittenFollows
<1>. QED
  BY <1>4 DEF b

LEMMA RetriedFollows ==
  ASSUME NEW es \in Entries, NEW ts \in SUBSET Ticket, requests \subseteq RequestType
  PROVE  Follows(Retried(ts, es), es)
<1>. DEFINE before(k) == Before(es[k].state)
            b == Retried(ts, es)
<1>1. b = [k \in Chunk |-> IF k \in Active(ts, es)
                           THEN [es[k] EXCEPT !.state = before(k), !.serial = 0]
                           ELSE es[k]]
  BY DEF Retried
<1>2. ASSUME NEW k \in Chunk \cap Active(ts, es)
      PROVE  b[k] \in Entry /\ (b[k].state \in Past => Uses(es, k)) /\ b[k].state # "generating"
  <2>1. /\ k \in Chunk /\ es[k] # None /\ es[k] \in Entry
        /\ TicketOf(k, es) \in ts /\ TicketOf(k, es).stage = es[k].state
    BY ActiveIs
  <2>7. es[k].state \in {"generating", "meshing", "uploading"}
    BY <2>1 DEF Ticket
  <2>2. /\ before(k) \in {"queued_generation", "queued_meshing", "queued_upload"}
        /\ before(k) # "queued_generation" => es[k].state \in Past
    <3>1. CASE es[k].state = "generating"
      BY <3>1 DEF Before
    <3>2. CASE es[k].state = "meshing"
      BY <3>2 DEF Before, Past
    <3>3. CASE es[k].state = "uploading"
      BY <3>3 DEF Before, Past
    <3>. QED
      BY <2>7, <3>1, <3>2, <3>3
  <2>3. before(k) \in State /\ before(k) # "generating"
    BY <2>2 DEF State, Past
  <2>4. before(k) \in Past => Uses(es, k)
    BY <2>1, <2>2 DEF Uses, Past
  <2>. HIDE DEF before
  <2>5. b[k] = SetEntry(es[k], before(k), 0)
    BY <1>1, <2>1 DEF SetEntry
  <2>6. b[k] \in Entry /\ b[k].state = before(k)
    BY <2>1, <2>3, <2>5, EntrySet
  <2>. QED
    BY <2>3, <2>4, <2>6
<1>3. b = [k \in Chunk |-> IF k \in Active(ts, es) THEN b[k] ELSE es[k]]
  BY <1>1
<1>. HIDE DEF b
<1>4. Follows(b, es)
  BY <1>2, <1>3, RewrittenFollows
<1>. QED
  BY <1>4 DEF b

LEMMA EditedFollows ==
  ASSUME NEW es \in Entries, NEW ks, requests \subseteq RequestType
  PROVE  Follows(Edited(es, ks), es)
<1>. DEFINE S == ks \cap TrackedIn(es)
            state(k) == IF es[k].state \in {"queued_generation", "generating"} THEN "queued_generation"
                        ELSE "queued_meshing"
            b == Edited(es, ks)
<1>1. b = [k \in Chunk |-> IF k \in S
                           THEN [es[k] EXCEPT !.revision = @ + 1, !.serial = 0, !.state = state(k)]
                           ELSE es[k]]
  BY DEF Edited
<1>2. ASSUME NEW k \in Chunk \cap S
      PROVE  b[k] \in Entry /\ (b[k].state \in Past => Uses(es, k)) /\ b[k].state # "generating"
  <2>1. k \in Chunk /\ es[k] # None /\ es[k] \in Entry
    BY DEF TrackedIn, Entries
  <2>2. es[k].state \in State
    BY <2>1 DEF Entry
  <2>3. /\ state(k) \in State /\ state(k) # "generating"
        /\ state(k) \in Past => es[k].state \in Past
    BY <2>2 DEF State, Past
  <2>4. b[k] = RenewedEntry(es[k], state(k))
    BY <1>1, <1>2 DEF RenewedEntry
  <2>. HIDE DEF state
  <2>5. b[k] \in Entry /\ b[k].state = state(k)
    BY <2>1, <2>3, <2>4, EntryRenewed
  <2>. QED
    BY <2>1, <2>3, <2>5 DEF Uses
<1>3. b = [k \in Chunk |-> IF k \in S THEN b[k] ELSE es[k]]
  BY <1>1
<1>. HIDE DEF b, S
<1>4. Follows(b, es)
  BY <1>2, <1>3, RewrittenFollows
<1>. QED
  BY <1>4 DEF b

\* Nothing is in use after a resync, and no request counts.
LEMMA InvalidatedIsIdle ==
  ASSUME NEW es \in Entries
  PROVE  /\ Invalidated(es) \in Entries
         /\ \A k \in Chunk : Invalidated(es)[k] # None => Invalidated(es)[k].state = "queued_generation"
<1>. DEFINE b == Invalidated(es)
<1>1. ASSUME NEW k \in Chunk
      PROVE  b[k] \in Entry \cup {None} /\ (b[k] # None => b[k].state = "queued_generation")
  <2>1. CASE es[k] = None
    BY <2>1 DEF Invalidated, TrackedIn
  <2>2. CASE es[k] # None
    <3>1. es[k] \in Entry
      BY <2>2 DEF Entries
    <3>3. b[k] = RenewedEntry(es[k], "queued_generation")
      BY <2>2 DEF Invalidated, TrackedIn, RenewedEntry
    <3>4. "queued_generation" \in State
      BY DEF State
    <3>. QED
      BY <3>1, <3>3, <3>4, EntryRenewed
  <2>. QED
    BY <2>1, <2>2
<1>2. b = [k \in Chunk |-> b[k]]
  BY DEF Invalidated
<1>. HIDE DEF b
<1>3. b \in Entries
  BY <1>1, <1>2 DEF Entries
<1>. QED
  BY <1>1, <1>3 DEF b

-----------------------------------------------------------------------------
(* A serial number for a new ticket.                                       *)

LEMMA FreshIsFresh ==
  ASSUME NEW k \in Chunk, requests \subseteq RequestType, IsFiniteSet(requests), uploads \in Uploads
  PROVE  Fresh(k) \in Nat /\ \A q \in requests : q.ticket.chunk = k => q.ticket.serial # Fresh(k)
<1>. DEFINE own == {p \in requests : p.ticket.chunk = k}
            asked == {q.ticket.serial : q \in own}
            carried == IF uploads[k] = None THEN {} ELSE {uploads[k].serial}
            held == asked \cup carried
<1>1. IsFiniteSet(own)
  BY FS_Subset
<1>2. IsFiniteSet(asked)
  <2>. DEFINE serial == [q \in own |-> q.ticket.serial]
  <2>1. serial \in Surjection(own, asked)
    BY DEF Surjection
  <2>. HIDE DEF own, asked, serial
  <2>. QED
    BY <1>1, <2>1, FS_Surjection
<1>3. IsFiniteSet(carried)
  BY FS_EmptySet, FS_Singleton
<1>4. IsFiniteSet(held)
  <2>. HIDE DEF asked, carried
  <2>. QED
    BY <1>2, <1>3, FS_Union
<1>5. Fresh(k) = CHOOSE n \in 1..Cardinality(held) + 1 : n \notin held
  BY DEF Fresh
<1>6. \A q \in requests : q.ticket.chunk = k => q.ticket.serial \in held
  OBVIOUS
<1>. HIDE DEF held
<1>7. \E n \in 1..Cardinality(held) + 1 : n \notin held
  <2>1. Cardinality(held) \in Nat
    BY <1>4, FS_CardinalityType
  <2>. DEFINE m == Cardinality(held) + 1
  <2>2. Cardinality(1..m) = m
    BY <2>1, FS_Interval
  <2>3. SUFFICES ASSUME 1..m \subseteq held PROVE FALSE
    OBVIOUS
  <2>4. Cardinality(1..m) <= Cardinality(held)
    BY <1>4, <2>3, FS_Subset
  <2>. QED
    BY <2>1, <2>2, <2>4
<1>8. Fresh(k) \in 1..Cardinality(held) + 1 /\ Fresh(k) \notin held
  BY <1>5, <1>7
<1>. QED
  BY <1>6, <1>8

\* A stage starts.  Only generation makes a ticket that requests could have.
LEMMA StartedFollows ==
  ASSUME NEW es \in Entries, NEW stage \in {"generating", "meshing", "uploading"},
         NEW ks \in SUBSET Chunk,
         \A k \in ks : es[k] # None /\ (stage # "generating" => es[k].state \in Past),
         requests \subseteq RequestType, IsFiniteSet(requests), uploads \in Uploads
  PROVE  /\ Follows(Started(ks, stage, es), es)
         /\ \A k \in Chunk : k \in ks => Started(ks, stage, es)[k].state = stage /\ Started(ks, stage, es)[k] \in Entry
         /\ \A k \in Chunk : k \notin ks => Started(ks, stage, es)[k] = es[k]
<1>. DEFINE b == Started(ks, stage, es)
<1>1. b = [k \in Chunk |-> IF k \in ks THEN SetEntry(es[k], stage, Fresh(k)) ELSE es[k]]
  BY DEF Started, SetEntry
<1>2. ASSUME NEW k \in Chunk \cap ks
      PROVE  /\ b[k] \in Entry /\ b[k].state = stage /\ (b[k].state \in Past => Uses(es, k))
             /\ \A q \in requests : q.ticket.chunk = k => q.ticket.serial # b[k].serial
  <2>1. es[k] # None /\ es[k] \in Entry
    BY DEF Entries
  <2>2. Fresh(k) \in Nat /\ \A q \in requests : q.ticket.chunk = k => q.ticket.serial # Fresh(k)
    BY FreshIsFresh
  <2>3. stage \in State
    BY DEF State, Past
  <2>4. b[k] = SetEntry(es[k], stage, Fresh(k))
    BY <1>1
  <2>5. b[k] \in Entry /\ b[k].state = stage /\ b[k].serial = Fresh(k)
    BY <2>1, <2>2, <2>3, <2>4, EntrySet
  <2>6. b[k].state \in Past => Uses(es, k)
    BY <2>1, <2>5 DEF Uses, Past
  <2>. QED
    BY <2>2, <2>5, <2>6
<1>3. b = [k \in Chunk |-> IF k \in ks THEN b[k] ELSE es[k]]
  BY <1>1
<1>4. \A k \in Chunk : k \notin ks => b[k] = es[k]
  BY <1>1
<1>. HIDE DEF b
<1>5. Follows(b, es)
  BY <1>2, <1>3, RewrittenFollows
<1>. QED
  BY <1>2, <1>4, <1>5 DEF b

\* A change of focus keeps what is in use or drops it.
LEMMA RefocusedFollows ==
  ASSUME entries \in Entries, NEW f, NEW interest, requests \subseteq RequestType
  PROVE  Follows(Refocused(f, interest), entries)
<1>. DEFINE wanted == DesiredAt(f, interest)
            kept == Retained(f, wanted)
            b == Refocused(f, interest)
<1>1. b = [k \in Chunk |->
            IF k \in wanted THEN IF k \in Tracked THEN WantedEntry(entries[k], TRUE) ELSE NewEntry
            ELSE IF k \in kept THEN WantedEntry(entries[k], FALSE)
            ELSE None]
  BY DEF Refocused, WantedEntry
<1>2. kept \subseteq Tracked
  BY DEF Retained, Nearest
<1>. HIDE DEF wanted, kept
<1>3. NewEntry \in Entry /\ NewEntry.state = "queued_generation"
  BY DEF NewEntry, Entry, State
<1>4. ASSUME NEW k \in Chunk
      PROVE  b[k] \in Entry \cup {None} /\ (Uses(b, k) => Uses(entries, k))
             /\ \A q \in requests : IsActive(q.ticket, b) /\ q.ticket.chunk = k => IsActive(q.ticket, entries)
  <2>. DEFINE x == IF k \in wanted THEN TRUE ELSE FALSE
  <2>1. CASE b[k] = None
    BY <2>1 DEF Uses, IsActive
  <2>2. CASE k \in Tracked /\ b[k] = WantedEntry(entries[k], x)
    <3>1. entries[k] # None /\ entries[k] \in Entry
      BY <2>2 DEF Tracked, Entries
    <3>2. /\ b[k] \in Entry /\ b[k].state = entries[k].state /\ b[k].serial = entries[k].serial
      BY <2>2, <3>1, EntryWanted
    <3>3. b[k].revision = entries[k].revision
      BY <2>2, <3>1 DEF WantedEntry, Entry
    <3>4. TicketOf(k, b) = TicketOf(k, entries)
      BY <3>2, <3>3 DEF TicketOf
    <3>. QED
      BY <3>1, <3>2, <3>4 DEF Uses, IsActive
  <2>3. CASE b[k] = NewEntry
    <3>1. ~Uses(b, k)
      BY <1>3, <2>3 DEF Uses, Past
    <3>2. ASSUME NEW q \in requests, IsActive(q.ticket, b), q.ticket.chunk = k PROVE FALSE
      <4>1. q.ticket.stage = "generating"
        BY DEF RequestType, GenerationTicket, Ticket
      <4>2. TicketOf(k, b).stage = "queued_generation"
        BY <1>3, <2>3 DEF TicketOf
      <4>. QED
        BY <3>2, <4>1, <4>2 DEF IsActive
    <3>. QED
      BY <1>3, <2>3, <3>1, <3>2
  <2>. QED
    BY <1>1, <1>2, <2>1, <2>2, <2>3
<1>5. b = [k \in Chunk |-> b[k]]
  BY <1>1
<1>. HIDE DEF b
<1>6. b \in Entries
  BY <1>4, <1>5 DEF Entries
<1>7. \A q \in requests : q.ticket.chunk \in Chunk
  BY DEF RequestType, GenerationTicket, Ticket
<1>8. Follows(b, entries)
  BY <1>4, <1>6, <1>7 DEF Follows
<1>. QED
  BY <1>8 DEF b

-----------------------------------------------------------------------------
(* Cuts.                                                                   *)

LEMMA RequiredIs ==
  ASSUME NEW f
  PROVE  f \in Required <=> DOMAIN f \in SUBSET Chunk /\ f \in [DOMAIN f -> Nat]
<1>1. ASSUME f \in Required PROVE DOMAIN f \in SUBSET Chunk /\ f \in [DOMAIN f -> Nat]
  <2>1. PICK S \in SUBSET Chunk : f \in [S -> Nat]
    BY <1>1 DEF Required
  <2>. QED
    BY <2>1
<1>2. ASSUME DOMAIN f \in SUBSET Chunk, f \in [DOMAIN f -> Nat] PROVE f \in Required
  BY <1>2 DEF Required
<1>. QED
  BY <1>1, <1>2

LEMMA OnlyType ==
  ASSUME NEW f \in Required, NEW ks
  PROVE  Only(f, ks) \in Required
<1>1. DOMAIN f \in SUBSET Chunk /\ f \in [DOMAIN f -> Nat]
  BY RequiredIs
<1>. DEFINE g == Only(f, ks)
<1>2. DOMAIN g \in SUBSET Chunk /\ g \in [DOMAIN g -> Nat]
  BY <1>1 DEF Only
<1>. HIDE DEF g
<1>3. g \in Required
  BY <1>2, RequiredIs
<1>. QED
  BY <1>3 DEF g

\* A cut that lost some of its chunks takes its own place.
LEMMA TrimmedType ==
  ASSUME NEW q \in Seq(CutType), NEW cut \in CutType, NEW required \in Required
  PROVE  [i \in DOMAIN q |-> IF q[i].server = cut.server THEN [cut EXCEPT !.required = required] ELSE q[i]]
           \in Seq(CutType)
<1>. DEFINE c == [cut EXCEPT !.required = required]
            t == [i \in DOMAIN q |-> IF q[i].server = cut.server THEN c ELSE q[i]]
<1>1. c \in CutType
  BY DEF CutType
<1>2. Len(q) \in Nat /\ DOMAIN q = 1..Len(q) /\ \A i \in 1..Len(q) : q[i] \in CutType
  OBVIOUS
<1>. HIDE DEF c
<1>3. t \in [1..Len(q) -> CutType]
  BY <1>1, <1>2
<1>4. t \in Seq(CutType)
  BY <1>2, <1>3
<1>. QED
  BY <1>4 DEF c

\* The recursion that Without is defined by has a solution.
LEMMA WithoutExists ==
  ASSUME NEW T, NEW q \in Seq(T), NEW S
  PROVE  \E g : /\ g = [n \in 0..Len(q) |-> IF n = 0 THEN <<>>
                                            ELSE IF q[n].server \in S THEN g[n - 1]
                                            ELSE Append(g[n - 1], q[n])]
                /\ Without(q, S) = g[Len(q)]
<1>. DEFINE Step(g, n) == IF q[n].server \in S THEN g[n - 1] ELSE Append(g[n - 1], q[n])
            IsWithout(g, m) == g = [n \in 0..m |-> IF n = 0 THEN <<>> ELSE Step(g, n)]
            Solved == {m \in Nat : m <= Len(q) => \E g : IsWithout(g, m)}
<1>1. 0 \in Solved
  <2>. DEFINE g == [n \in 0..0 |-> <<>>]
  <2>1. IsWithout(g, 0)
    OBVIOUS
  <2>. QED
    BY <2>1
<1>2. ASSUME NEW m \in Solved PROVE m + 1 \in Solved
  <2>1. SUFFICES ASSUME m + 1 <= Len(q) PROVE \E g : IsWithout(g, m + 1)
    <3>. HIDE DEF IsWithout
    <3>. QED
      OBVIOUS
  <2>2. PICK g : IsWithout(g, m)
    <3>. HIDE DEF IsWithout
    <3>1. m <= Len(q)
      BY <1>2, <2>1
    <3>. QED
      BY <1>2, <3>1
  <2>. DEFINE last == IF q[m + 1].server \in S THEN g[m] ELSE Append(g[m], q[m + 1])
              h == [n \in 0..m + 1 |-> IF n = m + 1 THEN last ELSE g[n]]
  <2>3. ASSUME NEW n \in 0..m + 1 PROVE h[n] = IF n = 0 THEN <<>> ELSE Step(h, n)
    <3>1. CASE n = m + 1
      <4>1. n # 0 /\ n - 1 = m /\ m \in 0..m + 1 /\ m # m + 1
        BY <3>1
      <4>2. h[n] = last /\ h[n - 1] = g[m]
        BY <3>1, <4>1
      <4>. QED
        BY <3>1, <4>1, <4>2
    <3>2. CASE n # m + 1
      <4>1. n \in 0..m
        BY <3>2
      <4>2. h[n] = g[n] /\ (n # 0 => h[n - 1] = g[n - 1])
        BY <3>2, <4>1
      <4>3. g[n] = IF n = 0 THEN <<>> ELSE Step(g, n)
        BY <2>2, <4>1
      <4>. QED
        BY <4>2, <4>3
    <3>. QED
      BY <3>1, <3>2
  <2>4. IsWithout(h, m + 1)
    <3>1. h = [n \in 0..m + 1 |-> h[n]]
      OBVIOUS
    <3>. HIDE DEF h
    <3>. QED
      BY <2>3, <3>1
  <2>. QED
    BY <2>4
<1>3. Solved = Nat
  <2>. HIDE DEF Solved
  <2>1. Solved \in SUBSET Nat
    BY DEF Solved
  <2>. QED
    BY <1>1, <1>2, <2>1, SetInduction
<1>4. \E g : IsWithout(g, Len(q))
  <2>1. Len(q) \in Nat
    OBVIOUS
  <2>2. Len(q) \in Solved /\ Len(q) <= Len(q)
    <3>. HIDE DEF Solved
    <3>. QED
      BY <1>3, <2>1
  <2>. HIDE DEF IsWithout
  <2>. QED
    BY <2>2
<1>. DEFINE f == CHOOSE g : IsWithout(g, Len(q))
<1>5. IsWithout(f, Len(q))
  BY <1>4
<1>6. Without(q, S) = f[Len(q)]
  BY DEF Without
<1>. QED
  BY <1>5, <1>6

LEMMA WithoutType ==
  ASSUME NEW T, NEW q \in Seq(T), NEW S
  PROVE  Without(q, S) \in Seq(T)
<1>0. Len(q) \in Nat /\ \A n \in 1..Len(q) : q[n] \in T
  OBVIOUS
<1>1. PICK g : /\ g = [n \in 0..Len(q) |-> IF n = 0 THEN <<>>
                                          ELSE IF q[n].server \in S THEN g[n - 1]
                                          ELSE Append(g[n - 1], q[n])]
               /\ Without(q, S) = g[Len(q)]
  BY WithoutExists
<1>. DEFINE Good == {n \in Nat : n <= Len(q) => g[n] \in Seq(T)}
<1>2. 0 \in Good
  BY <1>0, <1>1
<1>3. ASSUME NEW n \in Good PROVE n + 1 \in Good
  <2>1. SUFFICES ASSUME n + 1 <= Len(q) PROVE g[n + 1] \in Seq(T)
    OBVIOUS
  <2>2. n \in Nat /\ n + 1 \in 0..Len(q) /\ n + 1 # 0 /\ (n + 1) - 1 = n
    BY <1>0, <1>3, <2>1
  <2>3. g[n + 1] = IF q[n + 1].server \in S THEN g[n] ELSE Append(g[n], q[n + 1])
    <3>1. g[n + 1] = IF n + 1 = 0 THEN <<>>
                     ELSE IF q[n + 1].server \in S THEN g[(n + 1) - 1]
                     ELSE Append(g[(n + 1) - 1], q[n + 1])
      BY <1>1, <2>2
    <3>. QED
      BY <2>2, <3>1
  <2>4. g[n] \in Seq(T) /\ q[n + 1] \in T
    BY <1>0, <1>3, <2>1, <2>2
  <2>. QED
    BY <2>3, <2>4
<1>4. Good = Nat
  <2>. HIDE DEF Good
  <2>1. Good \in SUBSET Nat
    BY DEF Good
  <2>. QED
    BY <1>2, <1>3, <2>1, SetInduction
<1>5. Len(q) \in Good /\ Len(q) <= Len(q)
  <2>. HIDE DEF Good
  <2>. QED
    BY <1>0, <1>4
<1>6. g[Len(q)] \in Seq(T)
  BY <1>5
<1>. QED
  BY <1>1, <1>6

-----------------------------------------------------------------------------
(* The publication steps of a frame.                                       *)

Fields == {"entries", "meshes", "uploads", "cuts", "shown", "staged"}
Host(h) ==
  /\ DOMAIN h = Fields
  /\ h.entries \in Entries /\ h.uploads \in Uploads /\ h.cuts \in Seq(CutType)

\* Step g of the publication comes after h.
Leads(h, g) == Host(g) /\ Follows(g.entries, h.entries)

LEMMA LeadsTrans == ASSUME NEW h, NEW g, NEW j, Leads(h, g), Leads(g, j) PROVE Leads(h, j)
BY FollowsTrans DEF Leads

\* A step that leaves entries and tickets alone.
LEMMA LeadsSame ==
  ASSUME NEW h, NEW g, Host(h), DOMAIN g = Fields, g.entries = h.entries, g.uploads = h.uploads,
         g.cuts \in Seq(CutType)
  PROVE  Leads(h, g)
BY FollowsRefl DEF Leads, Host

LEMMA ClearedUploads ==
  ASSUME NEW u \in Uploads, NEW ks PROVE Cleared(u, ks) \in Uploads
BY DEF Uploads, Cleared

LEMMA TicketsAreUploads ==
  ASSUME NEW h, Host(h), NEW ks \in SUBSET Chunk
  PROVE  TicketsOf(h, ks) \in SUBSET UploadTicket
BY DEF TicketsOf, Host, Uploads

LEMMA AfterUploadLeads ==
  ASSUME NEW h, Host(h), NEW ks \in SUBSET Chunk, NEW failed \in BOOLEAN, requests \subseteq RequestType
  PROVE  Leads(h, AfterUpload(h, ks, failed))
<1>. DEFINE g == AfterUpload(h, ks, failed)
            ts == TicketsOf(h, ks)
<1>0. /\ h.entries \in Entries /\ h.uploads \in Uploads /\ h.cuts \in Seq(CutType)
      /\ DOMAIN h = {"entries", "meshes", "uploads", "cuts", "shown", "staged"}
  BY DEF Host, Fields
<1>1. ts \in SUBSET Ticket /\ \A t \in ts : t.stage # "generating"
  BY TicketsAreUploads DEF UploadTicket
<1>2. DOMAIN g = Fields /\ g.uploads = Cleared(h.uploads, ks) /\ g.cuts = h.cuts
  BY <1>0 DEF AfterUpload, Fields
<1>3. g.uploads \in Uploads
  BY <1>0, <1>2, ClearedUploads
<1>. HIDE DEF ts
<1>4. CASE failed
  <2>1. g.entries = Retried(ts, h.entries)
    BY <1>0, <1>4 DEF AfterUpload, ts
  <2>2. Follows(Retried(ts, h.entries), h.entries)
    BY <1>0, <1>1, RetriedFollows
  <2>. QED
    BY <1>2, <1>3, <2>1, <2>2 DEF Leads, Host, Follows
<1>5. CASE ~failed
  <2>1. g.entries = Completed(ts, h.entries)
    BY <1>0, <1>5 DEF AfterUpload, ts
  <2>2. Follows(Completed(ts, h.entries), h.entries)
    BY <1>0, <1>1, CompletedFollows
  <2>. QED
    BY <1>2, <1>3, <2>1, <2>2 DEF Leads, Host, Follows
<1>. QED
  BY <1>4, <1>5

LEMMA StagedSame ==
  ASSUME NEW h, Host(h), NEW server, NEW ks, NEW fails
  PROVE  Leads(h, Staged(h, server, ks, fails))
<1>. DEFINE g == Staged(h, server, ks, fails)
<1>1. DOMAIN h = {"entries", "meshes", "uploads", "cuts", "shown", "staged"}
  BY DEF Host, Fields
<1>2. DOMAIN g = Fields /\ g.entries = h.entries /\ g.uploads = h.uploads /\ g.cuts = h.cuts
  <2>1. CASE server \in DOMAIN h.staged
    <3>. DEFINE x == [Superseding(server, {k \in ks : ~HasNewerUpload(k, server, h.staged)}, h.staged) EXCEPT
                       ![server] = IF fails THEN Unprepared
                                   ELSE [ready |-> TRUE,
                                         uploads |-> [k \in {k \in ks : ~HasNewerUpload(k, server, h.staged)} |-> h.meshes[k].shows]]]
    <3>1. g = [h EXCEPT !.staged = x]
      BY <2>1 DEF Staged
    <3>. HIDE DEF x, g
    <3>. QED
      BY <1>1, <3>1 DEF Fields
  <2>2. CASE server \notin DOMAIN h.staged
    <3>. DEFINE x == IF fails THEN h.shown ELSE Showing(h, ks)
    <3>1. g = [h EXCEPT !.shown = x]
      BY <2>2 DEF Staged
    <3>. HIDE DEF x, g
    <3>. QED
      BY <1>1, <3>1 DEF Fields
  <2>. QED
    BY <2>1, <2>2
<1>. HIDE DEF g
<1>3. Leads(h, g)
  BY <1>2, LeadsSame DEF Host
<1>. QED
  BY <1>3 DEF g

LEMMA PublishedLeads ==
  ASSUME NEW h, Host(h), NEW cut \in CutType, NEW failing, requests \subseteq RequestType
  PROVE  Leads(h, Published(h, cut, failing))
<1>. DEFINE current == Only(cut.required,
              {k \in Chunk : h.entries[k] # None /\ k \in DOMAIN cut.required
                           /\ h.entries[k].revision = cut.required[k]})
            ks == DOMAIN current
            fails == ks \cap failing # {}
            without == Without(h.cuts, {cut.server})
            trimmed == [i \in DOMAIN h.cuts |->
              IF h.cuts[i].server = cut.server THEN [cut EXCEPT !.required = current] ELSE h.cuts[i]]
            rest == Only(h.staged, DOMAIN h.staged \ {cut.server})
            tried == AfterUpload(Staged(h, cut.server, ks, fails), ks, fails)
            left == IF fails THEN trimmed ELSE without
            g == Published(h, cut, failing)
<1>1. \/ g = [h EXCEPT !.cuts = without, !.staged = rest]
      \/ g = [h EXCEPT !.cuts = trimmed]
      \/ g = [tried EXCEPT !.cuts = left]
  BY DEF Published
<1>2. DOMAIN h = {"entries", "meshes", "uploads", "cuts", "shown", "staged"}
  BY DEF Host, Fields
<1>3. ks \in SUBSET Chunk /\ fails \in BOOLEAN
  BY DEF Only
<1>4. Leads(h, tried)
  <2>. HIDE DEF ks, fails
  <2>1. Leads(h, Staged(h, cut.server, ks, fails))
    BY StagedSame
  <2>2. Leads(Staged(h, cut.server, ks, fails), tried)
    BY <1>3, <2>1, AfterUploadLeads DEF Leads
  <2>. QED
    BY <2>1, <2>2, LeadsTrans
<1>5. without \in Seq(CutType)
  BY WithoutType DEF Host
<1>6. trimmed \in Seq(CutType)
  <2>1. current \in Required
    BY OnlyType DEF CutType
  <2>. HIDE DEF current
  <2>. QED
    BY <2>1, TrimmedType DEF Host
<1>7. left \in Seq(CutType)
  BY <1>5, <1>6
<1>. HIDE DEF ks, fails, without, trimmed, rest, tried, left, g
<1>8. Leads(h, g)
  <2>1. CASE g = [h EXCEPT !.cuts = without, !.staged = rest]
    <3>1. DOMAIN g = Fields /\ g.entries = h.entries /\ g.uploads = h.uploads /\ g.cuts = without
      BY <1>2, <2>1 DEF Fields
    <3>. QED
      BY <1>5, <3>1, LeadsSame
  <2>2. CASE g = [h EXCEPT !.cuts = trimmed]
    <3>1. DOMAIN g = Fields /\ g.entries = h.entries /\ g.uploads = h.uploads /\ g.cuts = trimmed
      BY <1>2, <2>2 DEF Fields
    <3>. QED
      BY <1>6, <3>1, LeadsSame
  <2>3. CASE g = [tried EXCEPT !.cuts = left]
    <3>1. DOMAIN tried = {"entries", "meshes", "uploads", "cuts", "shown", "staged"}
      BY <1>4 DEF Leads, Host, Fields
    <3>2. DOMAIN g = Fields /\ g.entries = tried.entries /\ g.uploads = tried.uploads /\ g.cuts = left
      BY <2>3, <3>1 DEF Fields
    <3>3. Leads(tried, g)
      BY <1>4, <1>7, <3>2, LeadsSame DEF Leads
    <3>. QED
      BY <1>4, <3>3, LeadsTrans
  <2>. QED
    BY <1>1, <2>1, <2>2, <2>3
<1>. QED
  BY <1>8 DEF g

\* The recursion of the publication has a solution.
LEMMA VisitedExists ==
  ASSUME NEW h0, NEW failing, Len(cuts) \in Nat
  PROVE  \E g : /\ g[0] = h0
                /\ \A n \in 1..Len(cuts) : g[n] = Published(g[n - 1], cuts[n], failing)
                /\ PublishedAll(h0, failing) = g[Len(cuts)]
<1>. DEFINE Step(g, n) == Published(g[n - 1], cuts[n], failing)
            IsVisited(g, m) == g = [n \in 0..m |-> IF n = 0 THEN h0 ELSE Step(g, n)]
            Solved == {m \in Nat : m <= Len(cuts) => \E g : IsVisited(g, m)}
<1>1. 0 \in Solved
  <2>. DEFINE g == [n \in 0..0 |-> h0]
  <2>1. IsVisited(g, 0)
    OBVIOUS
  <2>. QED
    BY <2>1
<1>2. ASSUME NEW m \in Solved PROVE m + 1 \in Solved
  <2>1. SUFFICES ASSUME m + 1 <= Len(cuts) PROVE \E g : IsVisited(g, m + 1)
    <3>. HIDE DEF IsVisited
    <3>. QED
      OBVIOUS
  <2>2. PICK g : IsVisited(g, m)
    <3>. HIDE DEF IsVisited
    <3>1. m <= Len(cuts)
      BY <1>2, <2>1
    <3>. QED
      BY <1>2, <3>1
  <2>. DEFINE last == Published(g[m], cuts[m + 1], failing)
              h == [n \in 0..m + 1 |-> IF n = m + 1 THEN last ELSE g[n]]
  <2>3. ASSUME NEW n \in 0..m + 1 PROVE h[n] = IF n = 0 THEN h0 ELSE Step(h, n)
    <3>1. CASE n = m + 1
      <4>1. n # 0 /\ n - 1 = m /\ m \in 0..m + 1 /\ m # m + 1
        BY <3>1
      <4>2. h[n] = last /\ h[n - 1] = g[m]
        BY <3>1, <4>1
      <4>. QED
        BY <3>1, <4>1, <4>2
    <3>2. CASE n # m + 1
      <4>1. n \in 0..m
        BY <3>2
      <4>2. h[n] = g[n] /\ (n # 0 => h[n - 1] = g[n - 1])
        BY <3>2, <4>1
      <4>3. g[n] = IF n = 0 THEN h0 ELSE Step(g, n)
        BY <2>2, <4>1
      <4>. QED
        BY <4>2, <4>3
    <3>. QED
      BY <3>1, <3>2
  <2>4. IsVisited(h, m + 1)
    <3>1. h = [n \in 0..m + 1 |-> h[n]]
      OBVIOUS
    <3>. HIDE DEF h
    <3>. QED
      BY <2>3, <3>1
  <2>. QED
    BY <2>4
<1>3. Solved = Nat
  <2>. HIDE DEF Solved
  <2>1. Solved \in SUBSET Nat
    BY DEF Solved
  <2>. QED
    BY <1>1, <1>2, <2>1, SetInduction
<1>4. \E g : IsVisited(g, Len(cuts))
  <2>2. Len(cuts) \in Solved /\ Len(cuts) <= Len(cuts)
    <3>. HIDE DEF Solved
    <3>. QED
      BY <1>3
  <2>. HIDE DEF IsVisited
  <2>. QED
    BY <2>2
<1>. DEFINE f == CHOOSE g : IsVisited(g, Len(cuts))
<1>5. IsVisited(f, Len(cuts))
  BY <1>4
<1>6. PublishedAll(h0, failing) = f[Len(cuts)]
  BY DEF PublishedAll
<1>. HIDE DEF f
<1>7. ASSUME NEW n \in 0..Len(cuts) PROVE f[n] = IF n = 0 THEN h0 ELSE Step(f, n)
  BY <1>5
<1>8. f[0] = h0 /\ \A n \in 1..Len(cuts) : f[n] = Published(f[n - 1], cuts[n], failing)
  BY <1>7
<1>. QED
  BY <1>6, <1>8

LEMMA PublishedAllLeads ==
  ASSUME NEW h, Host(h), NEW failing, cuts \in Seq(CutType), requests \subseteq RequestType
  PROVE  Leads(h, PublishedAll(h, failing))
<1>1. Len(cuts) \in Nat /\ \A n \in 1..Len(cuts) : cuts[n] \in CutType
  OBVIOUS
<1>2. PICK g : /\ g[0] = h
               /\ \A n \in 1..Len(cuts) : g[n] = Published(g[n - 1], cuts[n], failing)
               /\ PublishedAll(h, failing) = g[Len(cuts)]
  BY <1>1, VisitedExists
<1>. DEFINE Good == {n \in Nat : n <= Len(cuts) => Leads(h, g[n])}
<1>3. 0 \in Good
  <2>1. Leads(h, h)
    BY LeadsSame DEF Host
  <2>. QED
    BY <1>2, <2>1
<1>4. ASSUME NEW n \in Good PROVE n + 1 \in Good
  <2>1. SUFFICES ASSUME n + 1 <= Len(cuts) PROVE Leads(h, g[n + 1])
    OBVIOUS
  <2>2. n \in Nat /\ n + 1 \in 1..Len(cuts) /\ (n + 1) - 1 = n
    BY <1>1, <1>4, <2>1
  <2>3. Leads(h, g[n])
    BY <1>1, <1>4, <2>1, <2>2
  <2>4. g[n + 1] = Published(g[n], cuts[n + 1], failing)
    BY <1>2, <2>2
  <2>5. Leads(g[n], Published(g[n], cuts[n + 1], failing))
    BY <1>1, <2>2, <2>3, PublishedLeads DEF Leads
  <2>. QED
    BY <2>3, <2>4, <2>5, LeadsTrans
<1>5. Good = Nat
  <2>. HIDE DEF Good
  <2>1. Good \in SUBSET Nat
    BY DEF Good
  <2>. QED
    BY <1>3, <1>4, <2>1, SetInduction
<1>6. Len(cuts) \in Good /\ Len(cuts) <= Len(cuts)
  <2>. HIDE DEF Good
  <2>. QED
    BY <1>1, <1>5
<1>7. Leads(h, g[Len(cuts)])
  BY <1>6
<1>. QED
  BY <1>2, <1>7

LEMMA UploadedAloneLeads ==
  ASSUME NEW h, Host(h), NEW failing, requests \subseteq RequestType
  PROVE  Leads(h, UploadedAlone(h, failing))
<1>. DEFINE current == {k \in Individual(h) : h.entries[k] # None
                          /\ h.entries[k].state = "uploading" /\ h.entries[k].revision = h.uploads[k].revision}
            fit == {k \in current : Has(h, k, h.uploads[k].revision)}
            done == fit \ failing
            back == AfterUpload(h, current \ done, TRUE)
            mid == [back EXCEPT !.uploads = Cleared(@, Individual(h) \ done), !.shown = Showing(h, done)]
<1>1. UploadedAlone(h, failing) = AfterUpload(mid, done, FALSE)
  BY DEF UploadedAlone
<1>2. done \in SUBSET Chunk /\ current \ done \in SUBSET Chunk
  BY DEF Individual
<1>. HIDE DEF current, done
<1>3. Leads(h, back)
  BY <1>2, AfterUploadLeads
<1>4. Leads(back, mid)
  <2>1. /\ DOMAIN back = {"entries", "meshes", "uploads", "cuts", "shown", "staged"}
        /\ back.entries \in Entries /\ back.uploads \in Uploads /\ back.cuts \in Seq(CutType)
    BY <1>3 DEF Leads, Host, Fields
  <2>. DEFINE u == Cleared(back.uploads, Individual(h) \ done)
              s == Showing(h, done)
  <2>2. u \in Uploads
    BY <2>1, ClearedUploads
  <2>3. mid = [back EXCEPT !.uploads = u, !.shown = s]
    OBVIOUS
  <2>. HIDE DEF back, u, s, mid
  <2>4. DOMAIN mid = Fields /\ mid.entries = back.entries /\ mid.uploads = u /\ mid.cuts = back.cuts
    BY <2>1, <2>3 DEF Fields
  <2>. QED
    BY <2>1, <2>2, <2>4, FollowsRefl DEF Leads, Host
<1>5. Leads(mid, AfterUpload(mid, done, FALSE))
  <2>1. Host(mid)
    BY <1>4 DEF Leads
  <2>. HIDE DEF mid
  <2>. QED
    BY <1>2, <2>1, AfterUploadLeads
<1>. HIDE DEF back, mid
<1>. QED
  BY <1>1, <1>3, <1>4, <1>5, LeadsTrans

LEMMA DrainedLeads ==
  ASSUME NEW h, Host(h), NEW gone
  PROVE  Leads(h, Drained(h, gone))
<1>. DEFINE u == Cleared(h.uploads, gone)
            g == Drained(h, gone)
<1>1. /\ DOMAIN h = {"entries", "meshes", "uploads", "cuts", "shown", "staged"}
      /\ h.entries \in Entries /\ h.uploads \in Uploads /\ h.cuts \in Seq(CutType)
  BY DEF Host, Fields
<1>2. u \in Uploads
  BY <1>1, ClearedUploads
<1>. HIDE DEF u
<1>3. DOMAIN g = Fields /\ g.entries = h.entries /\ g.uploads = u /\ g.cuts = h.cuts
  BY <1>1 DEF Drained, Fields, u
<1>. HIDE DEF g
<1>4. Leads(h, g)
  BY <1>1, <1>2, <1>3, FollowsRefl DEF Leads, Host
<1>. QED
  BY <1>4 DEF g

-----------------------------------------------------------------------------
(* The frame callback keeps the invariant.                                 *)

\* The three stages start chunks of their own.
LEMMA StagesStart ==
  ASSUME NEW es \in Entries, NEW generation \in SUBSET Chunk, NEW meshing \in SUBSET Chunk,
         NEW upload \in SUBSET Chunk,
         \A k \in generation : es[k] # None /\ es[k].state = "queued_generation",
         \A k \in meshing : es[k] # None /\ es[k].state = "queued_meshing",
         \A k \in upload : es[k] # None /\ es[k].state = "queued_upload",
         requests \subseteq RequestType, IsFiniteSet(requests), uploads \in Uploads,
         NEW begin, NEW mesh, NEW load, begin = "generating", mesh = "meshing", load = "uploading",
         NEW started, started = Started(upload, load, Started(meshing, mesh, Started(generation, begin, es)))
  PROVE  /\ Follows(started, es)
         /\ \A k \in generation : started[k] \in Entry /\ started[k].state = "generating"
         /\ \A k \in meshing : started[k] \in Entry /\ started[k].state = "meshing"
         /\ \A k \in upload : started[k] \in Entry /\ started[k].state = "uploading"
<1>. DEFINE s1 == Started(generation, begin, es)
            s2 == Started(meshing, mesh, s1)
<1>0. started = Started(upload, load, s2)
  OBVIOUS
<1>1. /\ Follows(s1, es)
      /\ \A k \in Chunk : k \in generation => s1[k].state = "generating" /\ s1[k] \in Entry
      /\ \A k \in Chunk : k \notin generation => s1[k] = es[k]
  <2>1. \A k \in generation : es[k] # None /\ (begin # "generating" => es[k].state \in Past)
    OBVIOUS
  <2>. QED
    BY <2>1, StartedFollows
<1>. HIDE DEF s1
<1>2. s1 \in Entries
  BY <1>1 DEF Follows
<1>3. ASSUME NEW k \in meshing PROVE k \in Chunk /\ s1[k] # None /\ s1[k].state = "queued_meshing"
  <2>1. k \in Chunk /\ k \notin generation /\ es[k] # None /\ es[k].state = "queued_meshing"
    OBVIOUS
  <2>. QED
    BY <1>1, <2>1
<1>4. /\ Follows(s2, s1)
      /\ \A k \in Chunk : k \in meshing => s2[k].state = "meshing" /\ s2[k] \in Entry
      /\ \A k \in Chunk : k \notin meshing => s2[k] = s1[k]
  <2>1. \A k \in meshing : s1[k] # None /\ (mesh # "generating" => s1[k].state \in Past)
    BY <1>3 DEF Past
  <2>. QED
    BY <1>2, <2>1, StartedFollows
<1>. HIDE DEF s2
<1>5. s2 \in Entries
  BY <1>4 DEF Follows
<1>6. ASSUME NEW k \in upload PROVE k \in Chunk /\ s2[k] # None /\ s2[k].state = "queued_upload"
  <2>1. /\ k \in Chunk /\ k \notin generation /\ k \notin meshing
        /\ es[k] # None /\ es[k].state = "queued_upload"
    OBVIOUS
  <2>2. s1[k] = es[k] /\ s2[k] = s1[k]
    BY <1>1, <1>4, <2>1
  <2>. QED
    BY <2>1, <2>2
<1>7. /\ Follows(started, s2)
      /\ \A k \in Chunk : k \in upload => started[k].state = "uploading" /\ started[k] \in Entry
      /\ \A k \in Chunk : k \notin upload => started[k] = s2[k]
  <2>1. \A k \in upload : s2[k] # None /\ (load # "generating" => s2[k].state \in Past)
    BY <1>6 DEF Past
  <2>. QED
    BY <1>0, <1>5, <2>1, StartedFollows
<1>8. Follows(started, es)
  BY <1>1, <1>4, <1>7, FollowsTrans
<1>9. ASSUME NEW k \in generation PROVE started[k] \in Entry /\ started[k].state = "generating"
  <2>1. k \in Chunk /\ k \notin meshing /\ k \notin upload
    OBVIOUS
  <2>2. s2[k] = s1[k] /\ started[k] = s2[k]
    BY <1>4, <1>7, <2>1
  <2>. QED
    BY <1>1, <2>1, <2>2
<1>10. ASSUME NEW k \in meshing PROVE started[k] \in Entry /\ started[k].state = "meshing"
  <2>1. k \in Chunk /\ k \notin upload
    OBVIOUS
  <2>2. started[k] = s2[k]
    BY <1>7, <2>1
  <2>. QED
    BY <1>4, <2>1, <2>2
<1>11. ASSUME NEW k \in upload PROVE started[k] \in Entry /\ started[k].state = "uploading"
  BY <1>6, <1>7, <1>11
<1>. QED
  BY <1>8, <1>9, <1>10, <1>11

LEMMA FrameKeeps ==
  ASSUME CurrentInv, NEW f, NEW interest, NEW failing \in SUBSET Chunk, Frame(f, interest, failing)
  PROVE  CurrentInv'
<1>. DEFINE es == IF focus = [at |-> f, interest |-> interest] THEN entries ELSE Refocused(f, interest)
            gone == {k \in Tracked : es[k] = None}
<1>0. /\ entries \in Entries /\ requests \subseteq RequestType /\ IsFiniteSet(requests)
      /\ uploads \in Uploads /\ cuts \in Seq(CutType)
  BY DEF CurrentInv, ShapeInv
<1>1. Follows(es, entries) /\ es \in Entries
  BY <1>0, FollowsRefl, RefocusedFollows DEF Follows
<1>. HIDE DEF es
<1>2. PICK generation \in Starts("queued_generation", es), meshing \in Starts("queued_meshing", es),
           upload \in Starts("queued_upload", es) :
       LET started == Started(upload, "uploading", Started(meshing, "meshing",
                        Started(generation, "generating", es)))
           meshed == {k \in meshing : voxels[k] # None}
           refused == generation \cap failing
           tickets(ks) == {TicketOf(k, started) : k \in ks}
           before == [
             entries |-> Completed(tickets(meshed), Retried(tickets(refused), started)),
             meshes |-> [k \in Chunk |->
               IF k \in meshed THEN [revision |-> es[k].revision, shows |-> voxels[k]] ELSE meshes[k]],
             uploads |-> [k \in Chunk |-> IF k \in upload THEN TicketOf(k, started) ELSE uploads[k]],
             cuts |-> cuts, shown |-> shown, staged |-> staged]
       IN
       /\ failing \subseteq generation \cup {k \in Chunk : before.uploads[k] # None}
       /\ requests' = requests \cup
            {[ticket |-> t, asof |-> Revision] : t \in tickets(generation \ refused)}
       /\ \E after \in {Drained(UploadedAlone(PublishedAll(before, failing), failing), gone)} :
            /\ entries' = after.entries /\ meshes' = after.meshes /\ uploads' = after.uploads
            /\ cuts' = after.cuts /\ shown' = after.shown /\ staged' = after.staged
  BY DEF Frame, es
<1>. DEFINE s1 == Started(generation, "generating", es)
            s2 == Started(meshing, "meshing", s1)
            started == Started(upload, "uploading", s2)
            meshed == {k \in meshing : voxels[k] # None}
            refused == generation \cap failing
            tickets(ks) == {TicketOf(k, started) : k \in ks}
            before == [
              entries |-> Completed(tickets(meshed), Retried(tickets(refused), started)),
              meshes |-> [k \in Chunk |->
                IF k \in meshed THEN [revision |-> es[k].revision, shows |-> voxels[k]] ELSE meshes[k]],
              uploads |-> [k \in Chunk |-> IF k \in upload THEN TicketOf(k, started) ELSE uploads[k]],
              cuts |-> cuts, shown |-> shown, staged |-> staged]
            after == Drained(UploadedAlone(PublishedAll(before, failing), failing), gone)
            asked == {[ticket |-> t, asof |-> Revision] : t \in tickets(generation \ refused)}
<1>3. /\ requests' = requests \cup asked
      /\ entries' = after.entries /\ uploads' = after.uploads /\ cuts' = after.cuts
  BY <1>2
<1>4. /\ generation \subseteq Chunk /\ meshing \subseteq Chunk /\ upload \subseteq Chunk
      /\ \A k \in generation : es[k] # None /\ es[k].state = "queued_generation"
      /\ \A k \in meshing : es[k] # None /\ es[k].state = "queued_meshing"
      /\ \A k \in upload : es[k] # None /\ es[k].state = "queued_upload"
  BY DEF Starts, Startable
<1>5. UNCHANGED <<log, known, watermark, late>> /\ voxels' = Cleared(voxels, gone)
  BY DEF Frame, authorityVars, es
<1>6. mishaps' \in Nat
  <2>1. mishaps' = mishaps + (Cardinality(failing) + IF focus \in {None, focus'} THEN 0 ELSE 1)
    BY DEF Frame, Mishaps
  <2>2. Cardinality(failing) \in Nat
    BY PipelineAssumption, FS_Subset, FS_CardinalityType
  <2>. QED
    BY <2>1, <2>2 DEF CurrentInv, ShapeInv
<1>. HIDE DEF gone
<1>7. /\ Follows(started, es)
      /\ \A k \in generation : started[k] \in Entry /\ started[k].state = "generating"
      /\ \A k \in meshing : started[k] \in Entry /\ started[k].state = "meshing"
      /\ \A k \in upload : started[k] \in Entry /\ started[k].state = "uploading"
  BY <1>0, <1>1, <1>4, StagesStart
<1>. HIDE DEF s1, s2, started
<1>8. /\ tickets(meshed) \in SUBSET Ticket /\ \A t \in tickets(meshed) : t.stage # "generating"
      /\ tickets(refused) \in SUBSET Ticket
      /\ tickets(generation \ refused) \in SUBSET GenerationTicket
      /\ \A k \in upload : TicketOf(k, started) \in UploadTicket
  <2>1. \A k \in generation : TicketOf(k, started) \in GenerationTicket
    BY <1>4, <1>7, TicketIs DEF GenerationTicket
  <2>2. \A k \in meshing : TicketOf(k, started) \in Ticket /\ TicketOf(k, started).stage # "generating"
    BY <1>4, <1>7, TicketIs
  <2>3. \A k \in upload : TicketOf(k, started) \in UploadTicket
    BY <1>4, <1>7, TicketIs DEF UploadTicket
  <2>. QED
    BY <2>1, <2>2, <2>3 DEF GenerationTicket
<1>9. Host(before) /\ Follows(before.entries, es)
  <2>. DEFINE back == Retried(tickets(refused), started)
              done == Completed(tickets(meshed), back)
  <2>1. started \in Entries
    BY <1>7 DEF Follows
  <2>. HIDE DEF tickets, refused, meshed
  <2>2. Follows(back, started)
    BY <1>0, <1>8, <2>1, RetriedFollows
  <2>4. Follows(done, back)
    <3>1. back \in Entries
      BY <2>2 DEF Follows
    <3>. HIDE DEF back
    <3>. QED
      BY <1>0, <1>8, <3>1, CompletedFollows
  <2>5. before.uploads \in Uploads
    BY <1>0, <1>8 DEF Uploads
  <2>6. /\ DOMAIN before = {"entries", "meshes", "uploads", "cuts", "shown", "staged"}
        /\ before.entries = done /\ before.cuts = cuts
    OBVIOUS
  <2>. HIDE DEF before, done, back
  <2>7. done \in Entries /\ Follows(done, es)
    BY <1>7, <2>2, <2>4, FollowsTrans DEF Follows
  <2>. QED
    BY <1>0, <2>5, <2>6, <2>7 DEF Host, Fields
<1>. HIDE DEF before
<1>10. Host(after) /\ Follows(after.entries, es) /\ Follows(after.entries, entries)
  <2>. DEFINE grouped == PublishedAll(before, failing)
              alone == UploadedAlone(grouped, failing)
  <2>1. Leads(before, grouped)
    BY <1>0, <1>9, PublishedAllLeads
  <2>. HIDE DEF grouped
  <2>2. Leads(grouped, alone)
    BY <1>0, <2>1, UploadedAloneLeads DEF Leads
  <2>. HIDE DEF alone
  <2>3. Leads(alone, after)
    BY <2>2, DrainedLeads DEF Leads, alone, grouped
  <2>. HIDE DEF after
  <2>4. Leads(before, after)
    BY <2>1, <2>2, <2>3, LeadsTrans
  <2>5. Follows(after.entries, es)
    BY <1>9, <2>4, FollowsTrans DEF Leads
  <2>. QED
    BY <1>1, <2>4, <2>5, FollowsTrans DEF Leads
<1>. HIDE DEF after
<1>11. asked \subseteq RequestType /\ IsFiniteSet(asked) /\ \A q \in asked : q.asof = Revision
  <2>1. Revision \in Nat
    BY DEF CurrentInv, ShapeInv, Revision
  <2>2. asked \subseteq RequestType /\ \A q \in asked : q.asof = Revision
    BY <1>8, <2>1 DEF RequestType
  <2>3. IsFiniteSet(generation \ refused)
    BY <1>4, PipelineAssumption, FS_Subset
  <2>4. IsFiniteSet(asked)
    <3>. DEFINE ask == [k \in generation \ refused |-> [ticket |-> TicketOf(k, started), asof |-> Revision]]
    <3>1. ask \in Surjection(generation \ refused, asked)
      BY DEF Surjection
    <3>. HIDE DEF ask, asked, refused
    <3>. QED
      BY <2>3, <3>1, FS_Surjection
  <2>. QED
    BY <2>2, <2>4
<1>. HIDE DEF asked
<1>12. Revision' = Revision /\ Revisions' = Revisions
  BY <1>5 DEF Revision, Revisions
<1>13. ShapeInv'
  <2>1. requests' \subseteq RequestType /\ IsFiniteSet(requests')
    BY <1>0, <1>3, <1>11, FS_Union
  <2>2. voxels' \in [Chunk -> (SUBSET Revisions) \cup {None}]
    <3>. DEFINE V == (SUBSET Revisions) \cup {None}
    <3>1. voxels \in [Chunk -> V]
      BY DEF CurrentInv, ShapeInv
    <3>3. None \in V
      OBVIOUS
    <3>. HIDE DEF V
    <3>2. voxels' \in [Chunk -> V]
      BY <1>5, <3>1, <3>3 DEF Cleared
    <3>. QED
      BY <3>2 DEF V
  <2>3. entries' \in Entries /\ uploads' \in Uploads /\ cuts' \in Seq(CutType)
    BY <1>3, <1>10 DEF Host
  <2>. QED
    BY <1>5, <1>6, <1>12, <2>1, <2>2, <2>3 DEF CurrentInv, ShapeInv
<1>14. TicketInv'
  <2>1. SUFFICES ASSUME NEW q \in requests', IsActive(q.ticket, entries')
                 PROVE  watermark <= q.asof /\ q.asof <= Revision
    BY <1>5, <1>12 DEF TicketInv, IsActive
  <2>2. CASE q \in asked
    BY <1>11, <2>2 DEF CurrentInv, ShapeInv, Revision
  <2>3. CASE q \in requests
    <3>1. IsActive(q.ticket, entries)
      BY <1>3, <1>10, <2>1, <2>3 DEF Follows
    <3>. QED
      BY <2>3, <3>1 DEF CurrentInv, TicketInv
  <2>. QED
    BY <1>3, <2>1, <2>2, <2>3
<1>15. VoxelsAreCurrent'
  <2>1. SUFFICES ASSUME NEW k \in Chunk, Uses(entries', k)
                 PROVE  voxels'[k] # None /\ CommitsOf(k, known)' \subseteq voxels'[k]
    BY DEF VoxelsAreCurrent, Tracked, StateOf, Uses
  <2>2. Uses(entries, k) /\ es[k] # None
    <3>1. Uses(after.entries, k)
      BY <1>3, <2>1
    <3>. QED
      BY <1>10, <3>1 DEF Follows, Uses
  <2>3. voxels[k] # None /\ CommitsOf(k, known) \subseteq voxels[k]
    BY <2>2 DEF CurrentInv, VoxelsAreCurrent, Tracked, StateOf, Uses
  <2>4. voxels'[k] = voxels[k]
    BY <1>5, <2>2 DEF Cleared, gone
  <2>5. CommitsOf(k, known)' = CommitsOf(k, known)
    BY <1>5 DEF CommitsOf, Touches
  <2>. QED
    BY <2>3, <2>4, <2>5
<1>. QED
  BY <1>13, <1>14, <1>15 DEF CurrentInv

-----------------------------------------------------------------------------
(* The other actions keep it.                                              *)

\* The scheduler takes up nothing and the world stays as it is.
LEMMA IdleKeeps ==
  ASSUME CurrentInv, ShapeInv', UNCHANGED <<authorityVars, voxels>>,
         Follows(entries', entries), requests' \subseteq requests
  PROVE  CurrentInv'
<1>1. UNCHANGED <<log, known, watermark>> /\ Revision' = Revision
  BY DEF authorityVars, Revision
<1>2. TicketInv'
  <2>1. SUFFICES ASSUME NEW q \in requests', IsActive(q.ticket, entries')
                 PROVE  watermark <= q.asof /\ q.asof <= Revision
    BY <1>1 DEF TicketInv, IsActive
  <2>2. q \in requests /\ IsActive(q.ticket, entries)
    BY <2>1 DEF Follows
  <2>. QED
    BY <2>2 DEF CurrentInv, TicketInv
<1>3. VoxelsAreCurrent'
  <2>1. SUFFICES ASSUME NEW k \in Chunk, Uses(entries', k)
                 PROVE  voxels[k] # None /\ CommitsOf(k, known)' \subseteq voxels[k]
    BY DEF VoxelsAreCurrent, Tracked, StateOf, Uses
  <2>2. Uses(entries, k)
    BY <2>1 DEF Follows
  <2>3. CommitsOf(k, known)' = CommitsOf(k, known)
    BY <1>1 DEF CommitsOf, Touches
  <2>. QED
    BY <2>2, <2>3 DEF CurrentInv, VoxelsAreCurrent, Tracked, StateOf, Uses
<1>. QED
  BY <1>2, <1>3 DEF CurrentInv

LEMMA RequestFailsKeeps ==
  ASSUME CurrentInv, NEW q, RequestFails(q)
  PROVE  CurrentInv'
<1>1. /\ q \in requests /\ requests' = requests \ {q} /\ entries' = Retried({q.ticket}, entries)
      /\ UNCHANGED <<log, known, watermark, voxels, uploads, cuts>> /\ mishaps' = mishaps + 1
  BY DEF RequestFails, authorityVars, hostVars, Mishaps
<1>2. ShapeInv
  BY DEF CurrentInv
<1>3. q.ticket \in Ticket
  BY <1>1, <1>2 DEF ShapeInv, RequestType, GenerationTicket
<1>4. Follows(entries', entries)
  BY <1>1, <1>2, <1>3, RetriedFollows DEF ShapeInv
<1>5. ShapeInv'
  <2>1. IsFiniteSet(requests') /\ requests' \subseteq RequestType
    BY <1>1, <1>2, FS_Subset DEF ShapeInv
  <2>. QED
    BY <1>1, <1>2, <1>4, <2>1 DEF ShapeInv, Follows, Revision, Revisions
<1>. QED
  BY <1>1, <1>4, <1>5, IdleKeeps DEF RequestFails

LEMMA PresentKeeps ==
  ASSUME CurrentInv, NEW pages, Present(pages)
  PROVE  CurrentInv'
<1>1. UNCHANGED <<log, known, watermark, entries, requests, voxels, uploads, cuts, mishaps>>
  BY DEF Present, authorityVars, schedulerVars, hostVars
<1>2. ShapeInv /\ TicketInv /\ VoxelsAreCurrent
  BY DEF CurrentInv
<1>3. ShapeInv'
  BY <1>1, <1>2 DEF ShapeInv, Revision, Revisions
<1>4. TicketInv'
  BY <1>1, <1>2 DEF TicketInv, IsActive, TicketOf, Revision
<1>5. VoxelsAreCurrent'
  BY <1>1, <1>2 DEF VoxelsAreCurrent, Tracked, StateOf, CommitsOf, Touches
<1>. QED
  BY <1>3, <1>4, <1>5 DEF CurrentInv

LEMMA CommitKeeps ==
  ASSUME CurrentInv, NEW ks \in Cuts, Commit(ks)
  PROVE  CurrentInv'
<1>1. /\ log' = Append(log, ks) /\ Len(log) + mishaps < MaxEvents
      /\ UNCHANGED <<known, watermark, entries, requests, voxels, uploads, cuts, mishaps>>
  BY DEF Commit, schedulerVars, hostVars
<1>2. ShapeInv /\ TicketInv /\ VoxelsAreCurrent
  BY DEF CurrentInv
<1>3. /\ log \in Seq(SUBSET Chunk) /\ mishaps \in Nat /\ MaxEvents \in Nat /\ ks \in SUBSET Chunk
      /\ watermark \in Nat /\ watermark <= Revision
  BY <1>2, PipelineAssumption DEF ShapeInv
<1>4. /\ log' \in Seq(SUBSET Chunk) /\ Len(log') = Len(log) + 1 /\ Len(log') <= MaxEvents
      /\ Len(log) \in Nat /\ \A i \in 1..Len(log) : log'[i] = log[i]
  BY <1>1, <1>3
<1>5. Revision \in Nat /\ Revision' = Revision + 1 /\ Revisions \subseteq Revisions'
  BY <1>4 DEF Revision, Revisions
<1>6. ShapeInv'
  <2>1. voxels' \in [Chunk -> (SUBSET (Revisions')) \cup {None}]
    <3>1. voxels \in [Chunk -> (SUBSET Revisions) \cup {None}] /\ voxels' = voxels
      BY <1>1, <1>2 DEF ShapeInv
    <3>2. (SUBSET Revisions) \cup {None} \subseteq (SUBSET (Revisions')) \cup {None}
      BY <1>5
    <3>. QED
      BY <3>1, <3>2
  <2>2. watermark' <= Revision' /\ known' \subseteq Revisions'
    BY <1>1, <1>2, <1>3, <1>5 DEF ShapeInv
  <2>. QED
    BY <1>1, <1>2, <1>4, <2>1, <2>2 DEF ShapeInv
<1>7. TicketInv'
  <2>1. SUFFICES ASSUME NEW q \in requests, IsActive(q.ticket, entries)
                 PROVE  watermark <= q.asof /\ q.asof <= Revision'
    BY <1>1 DEF TicketInv, IsActive, TicketOf
  <2>2. watermark <= q.asof /\ q.asof <= Revision /\ q.asof \in Nat
    BY <1>2, <2>1 DEF TicketInv, ShapeInv, RequestType
  <2>. QED
    BY <1>5, <2>2
<1>8. VoxelsAreCurrent'
  <2>1. SUFFICES ASSUME NEW k \in Chunk, Uses(entries, k)
                 PROVE  voxels[k] # None /\ CommitsOf(k, known)' \subseteq voxels[k]
    BY <1>1 DEF VoxelsAreCurrent, Tracked, StateOf, Uses
  <2>2. voxels[k] # None /\ CommitsOf(k, known) \subseteq voxels[k]
    BY <1>2, <2>1 DEF VoxelsAreCurrent, Tracked, StateOf, Uses
  <2>3. ASSUME NEW r \in known PROVE Touches(r, k)' <=> Touches(r, k)
    <3>1. r - 1 \in 1..Len(log)
      BY <1>2, <1>4 DEF ShapeInv, Revisions, Revision
    <3>. QED
      BY <1>4, <3>1 DEF Touches
  <2>. QED
    BY <1>1, <2>2, <2>3 DEF CommitsOf
<1>. QED
  BY <1>6, <1>7, <1>8 DEF CurrentInv

LEMMA ResyncKeeps ==
  ASSUME CurrentInv, NEW n \in 2..Revision, Resync(n)
  PROVE  CurrentInv'
<1>1. /\ watermark' = n /\ known' = 2..n /\ entries' = Invalidated(entries)
      /\ uploads' = Cleared(uploads, Chunk) /\ cuts' = <<>>
      /\ UNCHANGED <<log, requests, voxels>> /\ mishaps' = mishaps + 1
  BY DEF Resync, Mishaps
<1>2. ShapeInv
  BY DEF CurrentInv
<1>3. /\ entries' \in Entries
      /\ \A k \in Chunk : entries'[k] # None => entries'[k].state = "queued_generation"
  BY <1>1, <1>2, InvalidatedIsIdle DEF ShapeInv
<1>4. Revision' = Revision /\ Revisions' = Revisions /\ Revision \in Nat
  BY <1>1, <1>2 DEF Revision, Revisions, ShapeInv
<1>5. ShapeInv'
  <2>1. uploads' \in Uploads /\ cuts' \in Seq(CutType)
    BY <1>1, <1>2, ClearedUploads DEF ShapeInv
  <2>2. watermark' \in Nat /\ watermark' <= Revision' /\ known' \subseteq Revisions' /\ 2..(watermark') \subseteq known'
    BY <1>1, <1>4 DEF Revisions
  <2>. QED
    BY <1>1, <1>2, <1>3, <1>4, <2>1, <2>2 DEF ShapeInv
<1>6. TicketInv'
  <2>1. SUFFICES ASSUME NEW q \in requests, IsActive(q.ticket, entries') PROVE FALSE
    BY <1>1 DEF TicketInv, IsActive
  <2>2. q.ticket.chunk \in Chunk /\ q.ticket.stage = "generating"
    BY <1>2, <2>1 DEF ShapeInv, RequestType, GenerationTicket, Ticket
  <2>. QED
    BY <1>3, <2>1, <2>2 DEF IsActive, TicketOf
<1>7. VoxelsAreCurrent'
  <2>1. SUFFICES ASSUME NEW k \in Chunk, Uses(entries', k) PROVE FALSE
    BY DEF VoxelsAreCurrent, Tracked, StateOf, Uses
  <2>. QED
    BY <1>3, <2>1 DEF Uses, Past
<1>. QED
  BY <1>5, <1>6, <1>7 DEF CurrentInv

\* A product that fits and still counts includes every commit the client knows.
LEMMA ProductIsCurrent ==
  ASSUME CurrentInv, NEW q \in requests, NEW n \in q.asof..Revision, NEW k \in Chunk,
         IsActive(q.ticket, entries),
         Max({1} \cup CommitsOf(k, 2..n)) >= Floor(k)
  PROVE  CommitsOf(k, known) \subseteq CommitsOf(k, 2..n)
<1>1. /\ watermark \in Nat /\ known \subseteq 2..Revision /\ Revision \in Nat
      /\ q.asof \in Nat /\ watermark <= q.asof
  BY DEF CurrentInv, ShapeInv, TicketInv, RequestType, Revision, Revisions
<1>2. n \in Nat /\ watermark <= n /\ n <= Revision
  BY <1>1
<1>. DEFINE shows == CommitsOf(k, 2..n)
            due == {r \in CommitsOf(k, known) : r > watermark}
            A == {1} \cup shows
            B == {1} \cup due
<1>3. /\ n + 1 \in Nat /\ A \in SUBSET (1..n + 1) /\ A # {}
      /\ Revision + 1 \in Nat /\ B \in SUBSET (1..Revision + 1) /\ B # {}
  <2>1. shows \subseteq 2..n /\ due \subseteq 2..Revision
    BY <1>1 DEF CommitsOf
  <2>. HIDE DEF shows, due
  <2>. QED
    BY <1>1, <1>2, <2>1
<1>4. Max(A) \in A /\ Max(B) \in B /\ \A r \in B : r <= Max(B)
  <2>. HIDE DEF A, B
  <2>1. Max(A) \in A
    BY <1>3, MaxOf
  <2>2. Max(B) \in B /\ \A r \in B : r <= Max(B)
    BY <1>3, MaxOf
  <2>. QED
    BY <2>1, <2>2
<1>5. Max(A) >= Max(B) /\ Max(B) \in Nat /\ Max(A) \in Nat /\ (Max(A) = 1 \/ Max(A) <= n)
  <2>1. Max(A) >= Max(B)
    BY DEF Floor
  <2>3. Max(A) = 1 \/ Max(A) \in 2..n
    BY <1>4 DEF CommitsOf
  <2>. HIDE DEF A, B
  <2>4. Max(A) \in 1..n + 1 /\ Max(B) \in 1..Revision + 1
    BY <1>3, <1>4
  <2>5. Max(A) \in Nat /\ Max(B) \in Nat
    BY <1>3, <2>4
  <2>6. Max(A) = 1 \/ Max(A) <= n
    BY <1>2, <2>3
  <2>. QED
    BY <2>1, <2>5, <2>6
<1>6. ASSUME NEW r \in CommitsOf(k, known) PROVE r \in 2..n /\ Touches(r, k)
  <2>1. r \in 2..Revision /\ Touches(r, k)
    BY <1>1 DEF CommitsOf
  <2>2. CASE r <= watermark
    BY <1>1, <1>2, <2>1, <2>2
  <2>3. CASE r > watermark
    <3>1. r <= Max(B)
      BY <1>4, <2>3
    <3>. HIDE DEF A, B
    <3>. QED
      BY <1>2, <1>5, <2>1, <3>1
  <2>. QED
    BY <1>1, <2>1, <2>2, <2>3
<1>. QED
  BY <1>6 DEF CommitsOf

LEMMA ReceiveKeeps ==
  ASSUME CurrentInv, NEW q \in requests, NEW n \in q.asof..Revision, Receive(q, n)
  PROVE  CurrentInv'
<1>. DEFINE k == q.ticket.chunk
            shows == CommitsOf(k, 2..n)
            fits == Max({1} \cup shows) >= Floor(k)
<1>1. /\ requests' = requests \ {q}
      /\ entries' = IF fits THEN Completed({q.ticket}, entries) ELSE Retried({q.ticket}, entries)
      /\ voxels' = IF fits /\ IsActive(q.ticket, entries) THEN [voxels EXCEPT ![k] = shows] ELSE voxels
      /\ UNCHANGED <<log, known, watermark, uploads, cuts, mishaps>> /\ UNCHANGED authorityVars
  BY DEF Receive, authorityVars
<1>2. ShapeInv
  BY DEF CurrentInv
<1>3. /\ q.ticket \in Ticket /\ q.ticket.stage = "generating" /\ k \in Chunk /\ q.asof \in Nat
      /\ entries \in Entries /\ requests \subseteq RequestType /\ IsFiniteSet(requests)
      /\ Revision \in Nat /\ Revision <= MaxEvents + 1
  BY <1>2, PipelineAssumption DEF ShapeInv, RequestType, GenerationTicket, Ticket, Revision
<1>4. n \in Nat /\ n <= Revision
  BY <1>3
<1>5. shows \in SUBSET Revisions /\ shows # None
  <2>1. shows \subseteq 2..n
    BY DEF CommitsOf
  <2>2. shows \in SUBSET (2..MaxEvents + 1) /\ shows \in SUBSET Revisions
    BY <1>3, <1>4, <2>1, PipelineAssumption DEF Revisions
  <2>. QED
    BY <2>2, NoneAssumption
<1>. HIDE DEF shows, fits, k
<1>6. requests' \subseteq requests /\ IsFiniteSet(requests')
  BY <1>1, <1>3, FS_Subset
<1>7. ASSUME Follows(entries', entries), voxels' = voxels PROVE CurrentInv'
  <2>1. entries' \in Entries
    BY <1>7 DEF Follows
  <2>2. ShapeInv'
    BY <1>1, <1>2, <1>3, <1>6, <1>7, <2>1 DEF ShapeInv, Revision, Revisions
  <2>. QED
    BY <1>1, <1>6, <1>7, <2>2, IdleKeeps
<1>8. CASE ~fits
  <2>1. Follows(Retried({q.ticket}, entries), entries)
    BY <1>3, RetriedFollows
  <2>. QED
    BY <1>1, <1>7, <1>8, <2>1
<1>9. CASE fits /\ ~IsActive(q.ticket, entries)
  <2>1. Active({q.ticket}, entries) = {}
    BY <1>9 DEF Active
  <2>2. Completed({q.ticket}, entries) = entries
    BY <1>3, <2>1 DEF Completed, Entries
  <2>3. Follows(entries', entries)
    BY <1>1, <1>3, <1>9, <2>2, FollowsRefl
  <2>. QED
    BY <1>1, <1>7, <1>9, <2>3
<1>10. CASE fits /\ IsActive(q.ticket, entries)
  <2>1. Active({q.ticket}, entries) = {k}
    BY <1>10 DEF Active, k
  <2>2. entries[k] \in Entry /\ entries[k].state = "generating"
    <3>1. entries[k] # None /\ TicketOf(k, entries) = q.ticket
      BY <1>10 DEF IsActive, k
    <3>. QED
      BY <1>3, <3>1, TicketType
  <2>3. entries' = [j \in Chunk |-> IF j # k THEN entries[j] ELSE DoneEntry(entries[k], "queued_meshing")]
    BY <1>1, <1>3, <1>10, <2>1, <2>2 DEF Completed, DoneEntry, After
  <2>. DEFINE next == "queued_meshing"
  <2>4. next \in State
    BY DEF State, Past
  <2>. HIDE DEF next
  <2>5. entries'[k] \in Entry /\ entries'[k].state = next
    BY <1>3, <2>2, <2>3, <2>4, EntryDone DEF next
  <2>6. \A j \in Chunk : j # k => entries'[j] = entries[j]
    BY <2>3
  <2>7. entries' \in Entries
    BY <1>3, <2>3, <2>5, <2>6 DEF Entries
  <2>8. voxels' = [voxels EXCEPT ![k] = shows]
    BY <1>1, <1>10
  <2>9. voxels \in [Chunk -> (SUBSET Revisions) \cup {None}]
    BY <1>2 DEF ShapeInv
  <2>10. ShapeInv'
    <3>1. Revision' = Revision /\ Revisions' = Revisions
      BY <1>1 DEF Revision, Revisions
    <3>2. voxels' \in [Chunk -> (SUBSET Revisions) \cup {None}]
      BY <1>5, <2>8, <2>9
    <3>. QED
      BY <1>1, <1>2, <1>3, <1>6, <2>7, <3>1, <3>2 DEF ShapeInv
  <2>11. TicketInv'
    <3>1. SUFFICES ASSUME NEW p \in requests', IsActive(p.ticket, entries')
                   PROVE  watermark <= p.asof /\ p.asof <= Revision
      BY <1>1 DEF TicketInv, IsActive, Revision
    <3>. DEFINE j == p.ticket.chunk
    <3>2. p \in requests /\ j \in Chunk /\ p.ticket.stage = "generating"
      BY <1>3, <1>6, <3>1 DEF RequestType, GenerationTicket, Ticket
    <3>3. j # k
      BY <2>5, <3>1, <3>2 DEF IsActive, TicketOf, next
    <3>4. IsActive(p.ticket, entries)
      BY <2>6, <3>1, <3>2, <3>3 DEF IsActive, TicketOf
    <3>. QED
      BY <3>2, <3>4 DEF CurrentInv, TicketInv
  <2>12. VoxelsAreCurrent'
    <3>1. SUFFICES ASSUME NEW j \in Chunk, Uses(entries', j)
                   PROVE  voxels'[j] # None /\ CommitsOf(j, known)' \subseteq voxels'[j]
      BY DEF VoxelsAreCurrent, Tracked, StateOf, Uses
    <3>2. CommitsOf(j, known)' = CommitsOf(j, known)
      BY <1>1 DEF CommitsOf, Touches
    <3>3. CASE j = k
      <4>1. voxels'[j] = shows
        BY <2>8, <2>9, <3>3
      <4>2. CommitsOf(k, known) \subseteq shows
        BY <1>3, <1>10, ProductIsCurrent DEF fits, shows
      <4>. QED
        BY <1>5, <3>2, <3>3, <4>1, <4>2
    <3>4. CASE j # k
      <4>1. voxels'[j] = voxels[j] /\ Uses(entries, j)
        BY <2>6, <2>8, <2>9, <3>1, <3>4 DEF Uses
      <4>2. voxels[j] # None /\ CommitsOf(j, known) \subseteq voxels[j]
        BY <4>1 DEF CurrentInv, VoxelsAreCurrent, Tracked, StateOf, Uses
      <4>. QED
        BY <3>2, <4>1, <4>2
    <3>. QED
      BY <3>3, <3>4
  <2>. QED
    BY <2>10, <2>11, <2>12 DEF CurrentInv
<1>. QED
  BY <1>8, <1>9, <1>10

\* The cut of an edit and of the cuts that it overlaps.
LEMMA MergedType ==
  ASSUME NEW required \in Required, cuts \in Seq(CutType)
  PROVE  Merged(required).required \in Required
<1>. DEFINE overlapping == {i \in DOMAIN cuts : DOMAIN cuts[i].required \cap DOMAIN required # {}}
            older == UNION {DOMAIN cuts[i].required : i \in overlapping}
            holder(k) == CHOOSE j \in overlapping : k \in DOMAIN cuts[j].required
            m == [k \in older \cup DOMAIN required |->
                   IF k \in DOMAIN required THEN required[k] ELSE cuts[holder(k)].required[k]]
<1>1. Merged(required).required = m
  BY DEF Merged
<1>2. \A i \in DOMAIN cuts : cuts[i].required \in Required
  <2>1. \A i \in DOMAIN cuts : cuts[i] \in CutType
    OBVIOUS
  <2>. QED
    BY <2>1 DEF CutType
<1>3. ASSUME NEW k \in older PROVE k \in Chunk /\ cuts[holder(k)].required[k] \in Nat
  <2>1. PICK i \in overlapping : k \in DOMAIN cuts[i].required
    OBVIOUS
  <2>2. holder(k) \in overlapping /\ k \in DOMAIN cuts[holder(k)].required
    BY <2>1
  <2>. DEFINE f == cuts[holder(k)].required
  <2>3. f \in Required /\ k \in DOMAIN f
    BY <1>2, <2>2
  <2>. HIDE DEF f
  <2>4. DOMAIN f \in SUBSET Chunk /\ f \in [DOMAIN f -> Nat]
    BY <2>3, RequiredIs
  <2>5. k \in Chunk /\ f[k] \in Nat
    BY <2>3, <2>4
  <2>. QED
    BY <2>5 DEF f
<1>4. DOMAIN required \in SUBSET Chunk /\ required \in [DOMAIN required -> Nat]
  BY RequiredIs
<1>. HIDE DEF older, holder
<1>5. DOMAIN m \in SUBSET Chunk /\ m \in [DOMAIN m -> Nat]
  BY <1>3, <1>4
<1>. HIDE DEF m
<1>6. m \in Required
  BY <1>5, RequiredIs
<1>. QED
  BY <1>1, <1>6

\* What an edit asks of the wanted chunks it touches.
LEMMA EditedRequired ==
  ASSUME ShapeInv, NEW r \in 2..Revision
  PROVE  LET ks == log[r - 1] IN
         /\ ks \in SUBSET Chunk
         /\ [k \in ks \cap Desired |-> Edited(entries, ks)[k].revision] \in Required
<1>. DEFINE ks == log[r - 1]
            edited == Edited(entries, ks)
            required == [k \in ks \cap Desired |-> edited[k].revision]
<1>1. entries \in Entries /\ requests \subseteq RequestType /\ ks \in SUBSET Chunk
  BY DEF ShapeInv, Revision
<1>2. \A k \in Desired : k \in Chunk /\ entries[k] # None /\ entries[k] \in Entry
  BY <1>1 DEF Desired, Tracked, Entries
<1>3. ASSUME NEW k \in ks \cap Desired PROVE edited[k].revision \in Nat
  <2>1. k \in Chunk /\ entries[k] # None /\ entries[k] \in Entry
    BY <1>2
  <2>. DEFINE s == IF entries[k].state \in {"queued_generation", "generating"} THEN "queued_generation"
                   ELSE "queued_meshing"
  <2>2. edited[k] = RenewedEntry(entries[k], s)
    BY <2>1 DEF Edited, TrackedIn, RenewedEntry
  <2>3. s \in State
    BY DEF State, Past
  <2>. HIDE DEF s, edited
  <2>4. edited[k] \in Entry
    BY <2>1, <2>2, <2>3, EntryRenewed
  <2>. QED
    BY <2>4 DEF Entry
<1>. HIDE DEF edited
<1>4. DOMAIN required \in SUBSET Chunk /\ required \in [DOMAIN required -> Nat]
  BY <1>1, <1>2, <1>3
<1>. HIDE DEF required
<1>5. required \in Required
  BY <1>4, RequiredIs
<1>. QED
  BY <1>1, <1>5 DEF required, edited

LEMMA ObserveCuts ==
  ASSUME ShapeInv, NEW r \in 2..Revision, Observe(r)
  PROVE  cuts' \in Seq(CutType)
<1>. DEFINE ks == log[r - 1]
            edited == Edited(entries, ks)
            required == [k \in ks \cap Desired |-> edited[k].revision]
            cut == Merged(required)
            new == [server |-> r, required |-> cut.required]
<1>1. cuts \in Seq(CutType) /\ r \in Nat
  BY DEF ShapeInv, Revision
<1>2. cuts' = IF DOMAIN required = {} THEN cuts ELSE Append(Without(cuts, cut.servers), new)
  BY DEF Observe
<1>3. required \in Required
  BY EditedRequired
<1>. HIDE DEF required, edited
<1>4. new \in CutType
  BY <1>1, <1>3, MergedType DEF CutType
<1>5. Without(cuts, cut.servers) \in Seq(CutType)
  BY <1>1, WithoutType
<1>. HIDE DEF cut, new
<1>. QED
  BY <1>1, <1>2, <1>4, <1>5

LEMMA HearKeeps ==
  ASSUME CurrentInv, NEW r \in 2..Revision, r \notin known, Hear(r)
  PROVE  CurrentInv'
<1>. DEFINE ks == log[r - 1]
<1>1. ShapeInv /\ Revision \in Nat /\ r \in Nat /\ r >= 2 /\ r <= Revision
  BY DEF CurrentInv, ShapeInv, Revision
<1>2. r > watermark
  <2>1. watermark \in Nat /\ 2..watermark \subseteq known
    BY <1>1 DEF ShapeInv
  <2>. QED
    BY <1>1, <2>1
<1>3. /\ known' = known \cup {r} /\ Observe(r)
      /\ UNCHANGED <<log, watermark, requests, uploads, mishaps>>
  BY <1>1, <1>2 DEF Hear, ShapeInv
<1>4. /\ voxels' = [k \in Chunk |-> IF k \in ks /\ voxels[k] # None THEN voxels[k] \cup {r} ELSE voxels[k]]
      /\ entries' = Edited(entries, ks)
  BY <1>3 DEF Observe
<1>5. Revision' = Revision /\ Revisions' = Revisions /\ r \in Revisions
  BY <1>3 DEF Revision, Revisions
<1>6. voxels \in [Chunk -> (SUBSET Revisions) \cup {None}]
  BY <1>1 DEF ShapeInv
<1>7. Follows(entries', entries)
  BY <1>1, <1>4, EditedFollows DEF ShapeInv
<1>8. ShapeInv'
  <2>1. cuts' \in Seq(CutType)
    BY <1>1, <1>3, ObserveCuts
  <2>2. voxels' \in [Chunk -> (SUBSET Revisions) \cup {None}]
    <3>1. \A k \in Chunk : voxels'[k] \in (SUBSET Revisions) \cup {None}
      BY <1>4, <1>5, <1>6
    <3>. QED
      BY <1>4, <3>1
  <2>3. entries' \in Entries
    BY <1>7 DEF Follows
  <2>4. known' \subseteq Revisions /\ 2..watermark \subseteq known'
    BY <1>1, <1>3, <1>5 DEF ShapeInv
  <2>. QED
    BY <1>1, <1>3, <1>5, <2>1, <2>2, <2>3, <2>4 DEF ShapeInv
<1>9. TicketInv'
  <2>1. SUFFICES ASSUME NEW q \in requests, IsActive(q.ticket, entries')
                 PROVE  watermark <= q.asof /\ q.asof <= Revision
    BY <1>3, <1>5 DEF TicketInv, IsActive
  <2>2. IsActive(q.ticket, entries)
    BY <1>7, <2>1 DEF Follows
  <2>. QED
    BY <2>2 DEF CurrentInv, TicketInv
<1>10. VoxelsAreCurrent'
  <2>1. SUFFICES ASSUME NEW k \in Chunk, Uses(entries', k)
                 PROVE  voxels'[k] # None /\ CommitsOf(k, known)' \subseteq voxels'[k]
    BY DEF VoxelsAreCurrent, Tracked, StateOf, Uses
  <2>2. Uses(entries, k)
    BY <1>7, <2>1 DEF Follows
  <2>3. voxels[k] # None /\ CommitsOf(k, known) \subseteq voxels[k]
    BY <2>2 DEF CurrentInv, VoxelsAreCurrent, Tracked, StateOf, Uses
  <2>4. CommitsOf(k, known)' = CommitsOf(k, known \cup {r})
    BY <1>3 DEF CommitsOf, Touches
  <2>5. CASE k \in ks
    <3>1. voxels'[k] = voxels[k] \cup {r}
      BY <1>4, <2>3, <2>5
    <3>2. voxels[k] \cup {r} \in SUBSET (2..MaxEvents + 1)
      <4>1. voxels[k] \in SUBSET Revisions
        BY <1>6, <2>3
      <4>2. Revisions \subseteq 2..MaxEvents + 1
        BY <1>1, PipelineAssumption DEF Revisions, Revision, ShapeInv
      <4>. QED
        BY <1>5, <4>1, <4>2
    <3>3. voxels[k] \cup {r} # None
      BY <3>2, NoneAssumption
    <3>. QED
      BY <2>3, <2>4, <3>1, <3>3 DEF CommitsOf
  <2>6. CASE k \notin ks
    <3>1. voxels'[k] = voxels[k]
      BY <1>4, <2>6
    <3>2. CommitsOf(k, known \cup {r}) = CommitsOf(k, known)
      BY <2>6 DEF CommitsOf, Touches
    <3>. QED
      BY <2>3, <2>4, <3>1, <3>2
  <2>. QED
    BY <2>5, <2>6
<1>. QED
  BY <1>8, <1>9, <1>10 DEF CurrentInv
-----------------------------------------------------------------------------
(* What is in use is current.                                              *)

LEMMA CurrentInit == ASSUME Init PROVE CurrentInv
<1>1. Revision = 1 /\ Revisions = {}
  BY DEF Init, Revision, Revisions
<1>2. ShapeInv
  <2>1. entries \in Entries /\ uploads \in Uploads /\ voxels \in [Chunk -> (SUBSET Revisions) \cup {None}]
    BY DEF Init, Entries, Uploads
  <2>2. log \in Seq(SUBSET Chunk) /\ Len(log) = 0 /\ cuts \in Seq(CutType)
    BY DEF Init
  <2>3. IsFiniteSet(requests) /\ requests \subseteq RequestType
    BY FS_EmptySet DEF Init
  <2>. QED
    BY <1>1, <2>1, <2>2, <2>3, PipelineAssumption DEF Init, ShapeInv
<1>3. TicketInv
  BY DEF Init, TicketInv
<1>4. VoxelsAreCurrent
  BY DEF Init, VoxelsAreCurrent, Tracked
<1>. QED
  BY <1>2, <1>3, <1>4 DEF CurrentInv

LEMMA CurrentNext == ASSUME CurrentInv, [Next]_vars PROVE CurrentInv'
<1>1. ASSUME NEW f \in FocusPoint, NEW interest \in Interests, NEW failing \in SUBSET Chunk,
             Frame(f, interest, failing)
      PROVE  CurrentInv'
  BY <1>1, FrameKeeps
<1>2. ASSUME NEW ks \in Cuts, Commit(ks) PROVE CurrentInv'
  BY <1>2, CommitKeeps
<1>3. ASSUME NEW q \in requests, RequestFails(q) PROVE CurrentInv'
  BY <1>3, RequestFailsKeeps
<1>4. ASSUME NEW q \in requests, NEW n \in q.asof..Revision, Receive(q, n) PROVE CurrentInv'
  BY <1>4, ReceiveKeeps
<1>5. ASSUME NEW r \in 2..Revision \ known, Hear(r) PROVE CurrentInv'
  BY <1>5, HearKeeps
<1>6. ASSUME NEW n \in 2..Revision, Resync(n) PROVE CurrentInv'
  BY <1>6, ResyncKeeps
<1>7. ASSUME NEW pages \in [Page -> 1..Revision], Present(pages) PROVE CurrentInv'
  BY <1>7, PresentKeeps
<1>8. CASE UNCHANGED vars
  <2>1. UNCHANGED <<log, known, watermark, entries, requests, voxels, uploads, cuts, mishaps>>
    BY <1>8 DEF vars, authorityVars, schedulerVars, hostVars
  <2>2. ShapeInv'
    BY <2>1 DEF CurrentInv, ShapeInv, Revision, Revisions
  <2>3. TicketInv'
    BY <2>1 DEF CurrentInv, TicketInv, IsActive, TicketOf, Revision
  <2>4. VoxelsAreCurrent'
    BY <2>1 DEF CurrentInv, VoxelsAreCurrent, Tracked, StateOf, CommitsOf, Touches
  <2>. QED
    BY <2>2, <2>3, <2>4 DEF CurrentInv
<1>. QED
  BY <1>1, <1>2, <1>3, <1>4, <1>5, <1>6, <1>7, <1>8 DEF Next

\* A chunk that is meshed, uploaded or in use holds voxels that include every
\* commit the client was told of: accept_generated_chunk refuses what is older
\* than the floor of the chunk, and no ticket from before a resync counts.
THEOREM VoxelsStayCurrent == Spec => []VoxelsAreCurrent
<1>1. Init => CurrentInv
  BY CurrentInit
<1>2. CurrentInv /\ [Next]_vars => CurrentInv'
  BY CurrentNext
<1>3. CurrentInv => VoxelsAreCurrent
  BY DEF CurrentInv
<1>. QED
  BY <1>1, <1>2, <1>3, PTL DEF Spec

-----------------------------------------------------------------------------
(* Cuts change as a whole, and what is held back has a cut that will end   *)
(* the wait.                                                               *)

\* The cut's chunks are still to be uploaded.
Waits(es, required) ==
  \A k \in DOMAIN required :
    es[k] # None /\ es[k].revision = required[k] => es[k].state # "resident"
Whole(es, q) == \A i \in DOMAIN q : Waits(es, q[i].required)

\* Each cut has its own server revision and its own chunks.
Disjoint(a, b) == DOMAIN a.required \cap DOMAIN b.required = {}
Apart(q) == \A i, j \in DOMAIN q : i # j => q[i].server # q[j].server /\ Disjoint(q[i], q[j])

\* An upload ticket is kept under its chunk.
Own(u) == \A k \in Chunk : u[k] # None => u[k].chunk = k

IsChange(c) == c = [ready |-> c.ready, uploads |-> c.uploads]
IsStaged(st) == st = [r \in DOMAIN st |-> st[r]] /\ \A r \in DOMAIN st : IsChange(st[r])

\* A change that is not prepared has a cut that will prepare it.
Awaited(st, q) ==
  \A r \in DOMAIN st : ~st[r].ready =>
    \E i \in DOMAIN q : q[i].server = r /\ DOMAIN q[i].required # {}

CutInv ==
  /\ Apart(cuts) /\ \A i \in DOMAIN cuts : cuts[i].server \in known
  /\ Whole(entries, cuts)
  /\ Own(uploads)
  /\ IsStaged(staged) /\ Awaited(staged, cuts)

-----------------------------------------------------------------------------
(* What is left of the cuts when some are taken out, or one is trimmed.    *)

\* The cuts of the other servers stay, each in one place, and no others come.
Keeps(w, q, n, S) ==
  /\ \A j \in 1..Len(w) : \E i \in 1..n : w[j] = q[i] /\ q[i].server \notin S
  /\ \A i \in 1..n : q[i].server \notin S => \E j \in 1..Len(w) : w[j] = q[i]
  /\ \A i, j \in 1..Len(w) : i # j => w[i].server # w[j].server

LEMMA WithoutKeeps ==
  ASSUME NEW T, NEW q \in Seq(T), NEW S, \A i, j \in 1..Len(q) : i # j => q[i].server # q[j].server
  PROVE  Without(q, S) \in Seq(T) /\ Keeps(Without(q, S), q, Len(q), S)
<1>0. Len(q) \in Nat /\ \A n \in 1..Len(q) : q[n] \in T
  OBVIOUS
<1>1. PICK g : /\ g = [n \in 0..Len(q) |-> IF n = 0 THEN <<>>
                                          ELSE IF q[n].server \in S THEN g[n - 1]
                                          ELSE Append(g[n - 1], q[n])]
               /\ Without(q, S) = g[Len(q)]
  BY WithoutExists
<1>. DEFINE Good == {n \in Nat : n <= Len(q) => g[n] \in Seq(T) /\ Keeps(g[n], q, n, S)}
<1>2. 0 \in Good
  <2>1. g[0] = <<>>
    BY <1>0, <1>1
  <2>2. Len(<<>>) = 0 /\ 1..0 = {} /\ <<>> \in Seq(T)
    OBVIOUS
  <2>3. Keeps(<<>>, q, 0, S)
    BY <2>2 DEF Keeps
  <2>. QED
    BY <2>1, <2>2, <2>3
<1>3. ASSUME NEW n \in Good PROVE n + 1 \in Good
  <2>1. SUFFICES ASSUME n + 1 <= Len(q) PROVE g[n + 1] \in Seq(T) /\ Keeps(g[n + 1], q, n + 1, S)
    OBVIOUS
  <2>2. n \in Nat /\ n + 1 \in 0..Len(q) /\ n + 1 # 0 /\ (n + 1) - 1 = n
    BY <1>0, <1>3, <2>1
  <2>3. g[n + 1] = IF q[n + 1].server \in S THEN g[n] ELSE Append(g[n], q[n + 1])
    <3>1. g[n + 1] = IF n + 1 = 0 THEN <<>>
                     ELSE IF q[n + 1].server \in S THEN g[(n + 1) - 1]
                     ELSE Append(g[(n + 1) - 1], q[n + 1])
      BY <1>1, <2>2
    <3>. QED
      BY <2>2, <3>1
  <2>4. g[n] \in Seq(T) /\ q[n + 1] \in T /\ Keeps(g[n], q, n, S)
    BY <1>0, <1>3, <2>1, <2>2
  <2>5. \A i \in 1..n + 1 : i \in 1..n \/ i = n + 1
    BY <2>2
  <2>6. 1..n \subseteq 1..n + 1 /\ n + 1 \in 1..n + 1 /\ n + 1 \notin 1..n
    BY <2>2
  <2>7. CASE q[n + 1].server \in S
    <3>1. g[n + 1] = g[n]
      BY <2>3, <2>7
    <3>. QED
      BY <2>4, <2>5, <2>6, <2>7, <3>1 DEF Keeps
  <2>8. CASE q[n + 1].server \notin S
    <3>. DEFINE u == g[n]
                v == Append(u, q[n + 1])
    <3>1. g[n + 1] = v
      BY <2>3, <2>8
    <3>2. /\ v \in Seq(T) /\ Len(u) \in Nat /\ Len(v) = Len(u) + 1
          /\ \A j \in 1..Len(u) : v[j] = u[j]
          /\ v[Len(u) + 1] = q[n + 1]
      BY <2>4
    <3>. HIDE DEF u, v
    <3>3. \A j \in 1..Len(v) : j \in 1..Len(u) \/ j = Len(u) + 1
      BY <3>2
    <3>4. 1..Len(u) \subseteq 1..Len(v) /\ Len(u) + 1 \in 1..Len(v)
      BY <3>2
    <3>5. Keeps(u, q, n, S)
      BY <2>4 DEF u
    <3>6. ASSUME NEW j \in 1..Len(v) PROVE \E i \in 1..n + 1 : v[j] = q[i] /\ q[i].server \notin S
      BY <2>6, <2>8, <3>2, <3>3, <3>5 DEF Keeps
    <3>7. ASSUME NEW i \in 1..n + 1, q[i].server \notin S PROVE \E j \in 1..Len(v) : v[j] = q[i]
      BY <2>5, <3>2, <3>4, <3>5, <3>7 DEF Keeps
    <3>8. ASSUME NEW j \in 1..Len(u) PROVE v[j].server # q[n + 1].server
      <4>1. PICK i \in 1..n : u[j] = q[i]
        BY <3>5 DEF Keeps
      <4>2. i \in 1..Len(q) /\ n + 1 \in 1..Len(q) /\ i # n + 1
        BY <1>0, <2>1, <2>2
      <4>. QED
        BY <3>2, <4>1, <4>2
    <3>9. ASSUME NEW i \in 1..Len(v), NEW j \in 1..Len(v), i # j PROVE v[i].server # v[j].server
      <4>1. CASE i \in 1..Len(u) /\ j \in 1..Len(u)
        <5>1. v[i] = u[i] /\ v[j] = u[j]
          BY <3>2, <4>1
        <5>2. u[i].server # u[j].server
          BY <3>5, <3>9, <4>1 DEF Keeps
        <5>. QED
          BY <5>1, <5>2
      <4>2. CASE i \in 1..Len(u) /\ j = Len(u) + 1
        BY <3>2, <3>8, <4>2
      <4>3. CASE j \in 1..Len(u) /\ i = Len(u) + 1
        BY <3>2, <3>8, <4>3
      <4>. QED
        BY <3>3, <3>9, <4>1, <4>2, <4>3
    <3>10. v \in Seq(T) /\ Keeps(v, q, n + 1, S)
      BY <3>2, <3>6, <3>7, <3>9 DEF Keeps
    <3>. QED
      BY <3>1, <3>10
  <2>. QED
    BY <2>7, <2>8
<1>4. Good = Nat
  <2>. HIDE DEF Good
  <2>1. Good \in SUBSET Nat
    BY DEF Good
  <2>. QED
    BY <1>2, <1>3, <2>1, SetInduction
<1>5. Len(q) \in Good /\ Len(q) <= Len(q)
  <2>. HIDE DEF Good
  <2>. QED
    BY <1>0, <1>4
<1>6. g[Len(q)] \in Seq(T) /\ Keeps(g[Len(q)], q, Len(q), S)
  BY <1>5
<1>. QED
  BY <1>1, <1>6

\* The cuts that stay are cuts there were.
LEMMA WithoutIs ==
  ASSUME NEW q \in Seq(CutType), NEW S, Apart(q)
  PROVE  /\ Without(q, S) \in Seq(CutType) /\ Apart(Without(q, S))
         /\ \A j \in DOMAIN Without(q, S) : \E i \in DOMAIN q :
              Without(q, S)[j] = q[i] /\ q[i].server \notin S
         /\ \A i \in DOMAIN q : q[i].server \notin S =>
              \E j \in DOMAIN Without(q, S) : Without(q, S)[j] = q[i]
<1>. DEFINE w == Without(q, S)
<1>1. Len(q) \in Nat /\ DOMAIN q = 1..Len(q)
  OBVIOUS
<1>2. w \in Seq(CutType) /\ Keeps(w, q, Len(q), S)
  BY <1>1, WithoutKeeps DEF Apart
<1>. HIDE DEF w
<1>3. DOMAIN w = 1..Len(w)
  BY <1>2
<1>4. /\ \A j \in DOMAIN w : \E i \in DOMAIN q : w[j] = q[i] /\ q[i].server \notin S
      /\ \A i \in DOMAIN q : q[i].server \notin S => \E j \in DOMAIN w : w[j] = q[i]
  BY <1>1, <1>2, <1>3 DEF Keeps
<1>5. ASSUME NEW i \in DOMAIN w, NEW j \in DOMAIN w, i # j
      PROVE  w[i].server # w[j].server /\ Disjoint(w[i], w[j])
  <2>1. PICK a \in DOMAIN q : w[i] = q[a]
    BY <1>4
  <2>2. PICK b \in DOMAIN q : w[j] = q[b]
    BY <1>4
  <2>3. w[i].server # w[j].server
    BY <1>2, <1>3, <1>5 DEF Keeps
  <2>. QED
    BY <2>1, <2>2, <2>3 DEF Apart
<1>6. Apart(w)
  BY <1>5 DEF Apart
<1>. QED
  BY <1>2, <1>4, <1>6 DEF w

\* The cut of a server with fewer chunks.
Trimmed(q, cut, required) ==
  [i \in DOMAIN q |-> IF q[i].server = cut.server THEN [cut EXCEPT !.required = required] ELSE q[i]]

LEMMA TrimmedIs ==
  ASSUME NEW q \in Seq(CutType), NEW cut \in CutType, NEW required \in Required, Apart(q),
         DOMAIN required \subseteq DOMAIN cut.required,
         \A i \in DOMAIN q : q[i].server # cut.server => Disjoint(q[i], cut)
  PROVE  /\ Trimmed(q, cut, required) \in Seq(CutType) /\ Apart(Trimmed(q, cut, required))
         /\ DOMAIN Trimmed(q, cut, required) = DOMAIN q
         /\ \A i \in DOMAIN q :
              /\ q[i].server # cut.server => Trimmed(q, cut, required)[i] = q[i]
              /\ q[i].server = cut.server => /\ Trimmed(q, cut, required)[i].server = cut.server
                                             /\ Trimmed(q, cut, required)[i].required = required
<1>. DEFINE t == Trimmed(q, cut, required)
            c == [cut EXCEPT !.required = required]
<1>1. t \in Seq(CutType)
  BY TrimmedType DEF Trimmed
<1>2. c.server = cut.server /\ c.required = required
  BY DEF CutType
<1>3. /\ DOMAIN t = DOMAIN q
      /\ \A i \in DOMAIN q : t[i] = IF q[i].server = cut.server THEN c ELSE q[i]
  BY DEF Trimmed
<1>. HIDE DEF t, c
<1>4. ASSUME NEW i \in DOMAIN q, NEW j \in DOMAIN q, i # j
      PROVE  t[i].server # t[j].server /\ Disjoint(t[i], t[j])
  <2>1. q[i].server # q[j].server /\ Disjoint(q[i], q[j])
    BY <1>4 DEF Apart
  <2>2. CASE q[i].server = cut.server
    BY <1>2, <1>3, <2>1, <2>2 DEF Disjoint
  <2>3. CASE q[j].server = cut.server
    BY <1>2, <1>3, <2>1, <2>3 DEF Disjoint
  <2>4. CASE q[i].server # cut.server /\ q[j].server # cut.server
    BY <1>3, <2>1, <2>4
  <2>. QED
    BY <2>2, <2>3, <2>4
<1>5. Apart(t)
  BY <1>3, <1>4 DEF Apart
<1>. QED
  BY <1>1, <1>2, <1>3, <1>5 DEF t

-----------------------------------------------------------------------------
(* Which steps of the scheduler bring a chunk into use.                    *)

\* What is resident after the step was, at the same revision, except in ks.
Resident(es, k) == es[k] # None /\ es[k].state = "resident"
Settles(b, a, ks) ==
  \A k \in Chunk \ ks : Resident(b, k) => Resident(a, k) /\ a[k].revision = b[k].revision

LEMMA SettlesTrans ==
  ASSUME NEW a, NEW b, NEW c, NEW ks, Settles(b, a, ks), Settles(c, b, ks) PROVE Settles(c, a, ks)
BY DEF Settles

LEMMA SettlesMore ==
  ASSUME NEW a, NEW b, NEW ks, Settles(b, a, {}) PROVE Settles(b, a, ks)
BY DEF Settles

\* A cut whose chunks the step does not bring into use is still whole.
LEMMA WaitsOn ==
  ASSUME NEW a, NEW b, NEW ks, NEW required \in Required, Settles(b, a, ks), Waits(a, required),
         DOMAIN required \cap ks = {}
  PROVE  Waits(b, required)
<1>1. DOMAIN required \in SUBSET Chunk
  BY RequiredIs
<1>. QED
  BY <1>1 DEF Waits, Settles, Resident

LEMMA CutHas ==
  ASSUME NEW q \in Seq(CutType), NEW i \in DOMAIN q
  PROVE  q[i] \in CutType /\ q[i].required \in Required /\ DOMAIN q[i].required \subseteq Chunk /\ q[i].server \in Nat
<1>1. q[i] \in CutType
  OBVIOUS
<1>2. q[i].required \in Required /\ q[i].server \in Nat
  BY <1>1 DEF CutType
<1>. QED
  BY <1>1, <1>2, RequiredIs

LEMMA WholeOn ==
  ASSUME NEW a, NEW b, NEW ks, NEW q \in Seq(CutType), Settles(b, a, ks), Whole(a, q),
         \A i \in DOMAIN q : DOMAIN q[i].required \cap ks = {}
  PROVE  Whole(b, q)
<1>1. ASSUME NEW i \in DOMAIN q PROVE Waits(b, q[i].required)
  <2>1. q[i].required \in Required
    BY CutHas
  <2>2. Waits(a, q[i].required) /\ DOMAIN q[i].required \cap ks = {}
    BY DEF Whole
  <2>. QED
    BY <2>1, <2>2, WaitsOn
<1>. QED
  BY <1>1 DEF Whole

\* A ticket completed brings its chunk into use if it was for an upload.
LEMMA CompletedSettles ==
  ASSUME NEW es \in Entries, NEW ts \in SUBSET Ticket, NEW ks,
         \A t \in ts : t.stage = "uploading" => t.chunk \in ks
  PROVE  Settles(Completed(ts, es), es, ks)
<1>. DEFINE b == Completed(ts, es)
            next(k) == After(es[k].state)
<1>1. b = [k \in Chunk |-> IF k \in Active(ts, es)
                           THEN [es[k] EXCEPT !.state = next(k), !.serial = 0, !.ever = @ \/ next(k) = "resident"]
                           ELSE es[k]]
  BY DEF Completed
<1>2. SUFFICES ASSUME NEW k \in Chunk \ ks, Resident(b, k)
               PROVE  Resident(es, k) /\ es[k].revision = b[k].revision
  BY DEF Settles
<1>3. CASE k \notin Active(ts, es)
  <2>1. b[k] = es[k]
    BY <1>1, <1>3
  <2>. QED
    BY <1>2, <2>1 DEF Resident
<1>4. CASE k \in Active(ts, es)
  <2>1. /\ k \in Chunk /\ es[k] # None /\ es[k] \in Entry
        /\ TicketOf(k, es) \in ts /\ TicketOf(k, es).stage = es[k].state /\ TicketOf(k, es).chunk = k
    BY <1>4, ActiveIs, TicketType
  <2>2. es[k].state \in {"generating", "meshing"}
    BY <1>2, <2>1 DEF Ticket
  <2>3. next(k) \in State /\ next(k) # "resident"
    <3>1. CASE es[k].state = "generating"
      BY <3>1 DEF After, State, Past
    <3>2. CASE es[k].state = "meshing"
      BY <3>2 DEF After, State, Past
    <3>. QED
      BY <2>2, <3>1, <3>2
  <2>. HIDE DEF next
  <2>4. b[k] = DoneEntry(es[k], next(k))
    BY <1>1, <1>4, <2>1 DEF DoneEntry
  <2>5. b[k].state = next(k)
    BY <2>1, <2>3, <2>4, EntryDone
  <2>. QED
    BY <1>2, <2>3, <2>5 DEF Resident
<1>. QED
  BY <1>3, <1>4

LEMMA RetriedSettles ==
  ASSUME NEW es \in Entries, NEW ts \in SUBSET Ticket
  PROVE  Settles(Retried(ts, es), es, {})
<1>. DEFINE b == Retried(ts, es)
            before(k) == Before(es[k].state)
<1>1. b = [k \in Chunk |-> IF k \in Active(ts, es)
                           THEN [es[k] EXCEPT !.state = before(k), !.serial = 0]
                           ELSE es[k]]
  BY DEF Retried
<1>2. SUFFICES ASSUME NEW k \in Chunk, Resident(b, k)
               PROVE  Resident(es, k) /\ es[k].revision = b[k].revision
  BY DEF Settles
<1>3. CASE k \notin Active(ts, es)
  <2>1. b[k] = es[k]
    BY <1>1, <1>3
  <2>. QED
    BY <1>2, <2>1 DEF Resident
<1>4. CASE k \in Active(ts, es)
  <2>1. /\ k \in Chunk /\ es[k] # None /\ es[k] \in Entry
        /\ TicketOf(k, es) \in ts /\ TicketOf(k, es).stage = es[k].state
    BY <1>4, ActiveIs
  <2>2. es[k].state \in {"generating", "meshing", "uploading"}
    BY <2>1 DEF Ticket
  <2>3. before(k) \in State /\ before(k) # "resident"
    <3>1. CASE es[k].state = "generating"
      BY <3>1 DEF Before, State, Past
    <3>2. CASE es[k].state = "meshing"
      BY <3>2 DEF Before, State, Past
    <3>3. CASE es[k].state = "uploading"
      BY <3>3 DEF Before, State, Past
    <3>. QED
      BY <2>2, <3>1, <3>2, <3>3
  <2>. HIDE DEF before
  <2>4. b[k] = SetEntry(es[k], before(k), 0)
    BY <1>1, <1>4, <2>1 DEF SetEntry
  <2>5. b[k].state = before(k)
    BY <2>1, <2>3, <2>4, EntrySet
  <2>. QED
    BY <1>2, <2>3, <2>5 DEF Resident
<1>. QED
  BY <1>3, <1>4

LEMMA RefocusedSettles ==
  ASSUME entries \in Entries, NEW f, NEW interest
  PROVE  Settles(Refocused(f, interest), entries, {})
<1>. DEFINE wanted == DesiredAt(f, interest)
            kept == Retained(f, wanted)
            b == Refocused(f, interest)
<1>1. b = [k \in Chunk |->
            IF k \in wanted THEN IF k \in Tracked THEN WantedEntry(entries[k], TRUE) ELSE NewEntry
            ELSE IF k \in kept THEN WantedEntry(entries[k], FALSE)
            ELSE None]
  BY DEF Refocused, WantedEntry
<1>2. kept \subseteq Tracked
  BY DEF Retained, Nearest
<1>. HIDE DEF wanted, kept
<1>3. SUFFICES ASSUME NEW k \in Chunk, Resident(b, k)
               PROVE  Resident(entries, k) /\ entries[k].revision = b[k].revision
  BY DEF Settles
<1>4. b[k] # NewEntry
  BY <1>3 DEF Resident, NewEntry
<1>. DEFINE x == IF k \in wanted THEN TRUE ELSE FALSE
<1>5. k \in Tracked /\ b[k] = WantedEntry(entries[k], x)
  BY <1>1, <1>2, <1>3, <1>4 DEF Resident
<1>6. entries[k] # None /\ entries[k] \in Entry
  BY <1>5 DEF Tracked, Entries
<1>. HIDE DEF b, x
<1>7. x \in BOOLEAN
  BY DEF x
<1>8. b[k].state = entries[k].state /\ b[k].revision = entries[k].revision
  BY <1>5, <1>6, <1>7 DEF WantedEntry, Entry
<1>. QED
  BY <1>3, <1>6, <1>8 DEF Resident

\* An edited chunk is to be meshed, or made, again.
LEMMA EditedSettles ==
  ASSUME NEW es \in Entries, NEW ks
  PROVE  /\ Settles(Edited(es, ks), es, {})
         /\ \A k \in Chunk : k \in ks => ~Resident(Edited(es, ks), k)
<1>. DEFINE b == Edited(es, ks)
            S == ks \cap TrackedIn(es)
<1>1. ASSUME NEW k \in Chunk, k \in S PROVE ~Resident(b, k)
  <2>. DEFINE s == IF es[k].state \in {"queued_generation", "generating"} THEN "queued_generation"
                   ELSE "queued_meshing"
  <2>1. es[k] \in Entry
    BY <1>1 DEF TrackedIn, Entries
  <2>2. b[k] = RenewedEntry(es[k], s)
    BY <1>1 DEF Edited, RenewedEntry
  <2>3. s \in State /\ s # "resident"
    BY DEF State, Past
  <2>. HIDE DEF s, b
  <2>4. b[k].state = s
    BY <2>1, <2>2, <2>3, EntryRenewed
  <2>. QED
    BY <2>3, <2>4 DEF Resident
<1>2. \A k \in Chunk : k \notin S => b[k] = es[k]
  BY DEF Edited
<1>3. \A k \in Chunk : k \in ks /\ k \notin S => b[k] = None
  BY <1>2 DEF TrackedIn
<1>. HIDE DEF b
<1>4. Settles(b, es, {}) /\ \A k \in Chunk : k \in ks => ~Resident(b, k)
  BY <1>1, <1>2, <1>3 DEF Settles, Resident
<1>. QED
  BY <1>4 DEF b

-----------------------------------------------------------------------------
(* The publication steps of a frame, for cuts and staged changes.          *)

LEMMA OwnCleared ==
  ASSUME NEW u, Own(u), NEW ks PROVE Own(Cleared(u, ks))
BY DEF Own, Cleared

LEMMA AfterUploadSettles ==
  ASSUME NEW h, Host(h), Own(h.uploads), NEW ks \in SUBSET Chunk, NEW failed \in BOOLEAN
  PROVE  LET g == AfterUpload(h, ks, failed) IN
         /\ Settles(g.entries, h.entries, IF failed THEN {} ELSE ks)
         /\ Own(g.uploads) /\ g.cuts = h.cuts /\ g.staged = h.staged
<1>. DEFINE g == AfterUpload(h, ks, failed)
            ts == TicketsOf(h, ks)
            u == Cleared(h.uploads, ks)
<1>0. /\ h.entries \in Entries /\ h.uploads \in Uploads
      /\ DOMAIN h = {"entries", "meshes", "uploads", "cuts", "shown", "staged"}
  BY DEF Host, Fields
<1>1. ts \in SUBSET Ticket
  BY TicketsAreUploads DEF UploadTicket
<1>2. \A t \in ts : t.chunk \in ks
  BY DEF TicketsOf, Own
<1>3. Own(u)
  BY OwnCleared
<1>. HIDE DEF ts, u
<1>4. g.uploads = u /\ g.cuts = h.cuts /\ g.staged = h.staged
  BY <1>0 DEF AfterUpload, u
<1>5. CASE failed
  <2>1. g.entries = Retried(ts, h.entries)
    BY <1>0, <1>5 DEF AfterUpload, ts
  <2>2. Settles(Retried(ts, h.entries), h.entries, {})
    BY <1>0, <1>1, RetriedSettles
  <2>. QED
    BY <1>3, <1>4, <1>5, <2>1, <2>2
<1>6. CASE ~failed
  <2>1. g.entries = Completed(ts, h.entries)
    BY <1>0, <1>6 DEF AfterUpload, ts
  <2>2. Settles(Completed(ts, h.entries), h.entries, ks)
    BY <1>0, <1>1, <1>2, CompletedSettles
  <2>. QED
    BY <1>3, <1>4, <1>6, <2>1, <2>2
<1>. QED
  BY <1>5, <1>6

LEMMA StrippedIs ==
  ASSUME NEW c, IsChange(c), NEW ks
  PROVE  IsChange(Stripped(c, ks)) /\ Stripped(c, ks).ready = c.ready
<1>. DEFINE left == Only(c.uploads, DOMAIN c.uploads \ ks)
<1>1. c = [ready |-> c.ready, uploads |-> c.uploads]
  BY DEF IsChange
<1>2. Stripped(c, ks) = [c EXCEPT !.uploads = left]
  BY DEF Stripped
<1>. HIDE DEF left
<1>3. Stripped(c, ks) = [ready |-> c.ready, uploads |-> left]
  BY <1>1, <1>2
<1>. QED
  BY <1>3 DEF IsChange

\* Staging a cut prepares its change, or undoes it, and no other.
LEMMA StagedChanges ==
  ASSUME NEW h, Host(h), IsStaged(h.staged), NEW server, NEW ks, NEW fails \in BOOLEAN
  PROVE  LET g == Staged(h, server, ks, fails) IN
         /\ Host(g) /\ g.entries = h.entries /\ g.uploads = h.uploads /\ g.cuts = h.cuts
         /\ IsStaged(g.staged) /\ DOMAIN g.staged = DOMAIN h.staged
         /\ \A r \in DOMAIN h.staged : r # server => g.staged[r].ready = h.staged[r].ready
         /\ server \in DOMAIN h.staged /\ ~fails => g.staged[server].ready
<1>. DEFINE g == Staged(h, server, ks, fails)
            kept == {k \in ks : ~HasNewerUpload(k, server, h.staged)}
            carried == [k \in kept |-> h.meshes[k].shows]
            prepared == [ready |-> TRUE, uploads |-> carried]
            y == Superseding(server, kept, h.staged)
            x == [y EXCEPT ![server] = IF fails THEN Unprepared ELSE prepared]
<1>1. DOMAIN h = {"entries", "meshes", "uploads", "cuts", "shown", "staged"}
  BY DEF Host, Fields
<1>2. CASE server \in DOMAIN h.staged
  <2>1. g = [h EXCEPT !.staged = x]
    BY <1>2 DEF Staged
  <2>2. /\ y = [r \in DOMAIN h.staged |-> y[r]]
        /\ \A r \in DOMAIN h.staged : y[r].ready = h.staged[r].ready /\ IsChange(y[r])
    <3>1. ASSUME NEW r \in DOMAIN h.staged
          PROVE  y[r].ready = h.staged[r].ready /\ IsChange(y[r])
      <4>1. IsChange(h.staged[r])
        BY DEF IsStaged
      <4>2. y[r] = IF r < server THEN Stripped(h.staged[r], kept) ELSE h.staged[r]
        BY DEF Superseding
      <4>. HIDE DEF y, kept
      <4>. QED
        BY <4>1, <4>2, StrippedIs
    <3>2. y = [r \in DOMAIN h.staged |-> y[r]]
      BY DEF Superseding
    <3>. QED
      BY <3>1, <3>2
  <2>3. IsChange(prepared) /\ prepared.ready /\ IsChange(Unprepared)
    <3>. HIDE DEF carried
    <3>. QED
      BY DEF IsChange, Unprepared
  <2>. HIDE DEF y, prepared, kept
  <2>4. DOMAIN x = DOMAIN h.staged /\ x = [r \in DOMAIN x |-> x[r]]
    BY <2>2
  <2>5. \A r \in DOMAIN h.staged : r # server => x[r] = y[r]
    BY <2>2
  <2>6. x[server] = IF fails THEN Unprepared ELSE prepared
    BY <1>2, <2>2
  <2>. HIDE DEF x, g
  <2>7. /\ DOMAIN g = Fields /\ g.staged = x
        /\ g.entries = h.entries /\ g.uploads = h.uploads /\ g.cuts = h.cuts
    BY <1>1, <2>1 DEF Fields
  <2>8. IsStaged(x)
    BY <2>2, <2>3, <2>4, <2>5, <2>6 DEF IsStaged
  <2>9. Host(g)
    BY <2>7 DEF Host
  <2>10. /\ \A r \in DOMAIN h.staged : r # server => g.staged[r].ready = h.staged[r].ready
         /\ ~fails => g.staged[server].ready
    BY <2>2, <2>3, <2>5, <2>6, <2>7
  <2>. QED
    BY <2>4, <2>7, <2>8, <2>9, <2>10 DEF g
<1>3. CASE server \notin DOMAIN h.staged
  <2>. DEFINE s == IF fails THEN h.shown ELSE Showing(h, ks)
  <2>1. g = [h EXCEPT !.shown = s]
    BY <1>3 DEF Staged
  <2>. HIDE DEF s, g
  <2>2. /\ DOMAIN g = Fields /\ g.staged = h.staged
        /\ g.entries = h.entries /\ g.uploads = h.uploads /\ g.cuts = h.cuts
    BY <1>1, <2>1 DEF Fields
  <2>3. Host(g)
    BY <2>2 DEF Host
  <2>. QED
    BY <1>3, <2>2, <2>3 DEF g
<1>. QED
  BY <1>2, <1>3

\* The host after n cuts were visited: its cuts are some of those there were,
\* and those not visited are still whole and still there.
Linked(h, n) ==
  /\ Host(h) /\ Own(h.uploads)
  /\ Apart(h.cuts) /\ Whole(h.entries, h.cuts)
  /\ IsStaged(h.staged) /\ Awaited(h.staged, h.cuts)
  /\ \A j \in DOMAIN h.cuts : \E i \in DOMAIN cuts :
       cuts[i].server = h.cuts[j].server /\ DOMAIN h.cuts[j].required \subseteq DOMAIN cuts[i].required
  /\ \A m \in n + 1..Len(cuts) :
       Waits(h.entries, cuts[m].required) /\ \E j \in DOMAIN h.cuts : h.cuts[j].server = cuts[m].server

\* The other cuts share no chunk with the one that is visited.
LEMMA OthersAreApart ==
  ASSUME cuts \in Seq(CutType), Apart(cuts), NEW n \in 1..Len(cuts), NEW h, Linked(h, n - 1)
  PROVE  /\ cuts[n] \in CutType /\ cuts[n].required \in Required
         /\ \A j \in DOMAIN h.cuts : h.cuts[j].server # cuts[n].server => Disjoint(h.cuts[j], cuts[n])
         /\ \A m \in n + 1..Len(cuts) : cuts[m].server # cuts[n].server /\ Disjoint(cuts[m], cuts[n])
         /\ Waits(h.entries, cuts[n].required)
         /\ \E j \in DOMAIN h.cuts : h.cuts[j].server = cuts[n].server
         /\ n + 1..Len(cuts) \subseteq (n - 1) + 1..Len(cuts)
<1>1. DOMAIN cuts = 1..Len(cuts) /\ Len(cuts) \in Nat /\ n \in DOMAIN cuts
  OBVIOUS
<1>2. cuts[n] \in CutType /\ cuts[n].required \in Required
  BY <1>1, CutHas
<1>3. ASSUME NEW j \in DOMAIN h.cuts, h.cuts[j].server # cuts[n].server
      PROVE  Disjoint(h.cuts[j], cuts[n])
  <2>1. PICK i \in DOMAIN cuts :
          cuts[i].server = h.cuts[j].server /\ DOMAIN h.cuts[j].required \subseteq DOMAIN cuts[i].required
    BY DEF Linked
  <2>2. Disjoint(cuts[i], cuts[n])
    BY <1>1, <1>3, <2>1 DEF Apart
  <2>. QED
    BY <2>1, <2>2 DEF Disjoint
<1>4. \A m \in n + 1..Len(cuts) : m \in DOMAIN cuts /\ m # n
  BY <1>1
<1>5. \A m \in n + 1..Len(cuts) : cuts[m].server # cuts[n].server /\ Disjoint(cuts[m], cuts[n])
  BY <1>1, <1>4 DEF Apart
<1>6. n \in (n - 1) + 1..Len(cuts) /\ n + 1..Len(cuts) \subseteq (n - 1) + 1..Len(cuts)
  BY <1>1
<1>7. Waits(h.entries, cuts[n].required) /\ \E j \in DOMAIN h.cuts : h.cuts[j].server = cuts[n].server
  BY <1>6 DEF Linked
<1>. QED
  BY <1>2, <1>3, <1>5, <1>6, <1>7

\* The cut is gone: it came into use, or none of its chunks is current.
LEMMA GoneLinks ==
  ASSUME cuts \in Seq(CutType), Apart(cuts), NEW n \in 1..Len(cuts), NEW h, Linked(h, n - 1),
         NEW g, Host(g), Own(g.uploads), IsStaged(g.staged),
         g.cuts = Without(h.cuts, {cuts[n].server}),
         NEW ks, ks \subseteq DOMAIN cuts[n].required, Settles(g.entries, h.entries, ks),
         DOMAIN g.staged \subseteq DOMAIN h.staged,
         \A r \in DOMAIN g.staged : r # cuts[n].server => g.staged[r].ready = h.staged[r].ready,
         cuts[n].server \in DOMAIN g.staged => g.staged[cuts[n].server].ready
  PROVE  Linked(g, n)
<1>. DEFINE server == cuts[n].server
<1>0. /\ h.cuts \in Seq(CutType) /\ Apart(h.cuts) /\ Whole(h.entries, h.cuts) /\ Awaited(h.staged, h.cuts)
  BY DEF Linked, Host
<1>1. /\ g.cuts \in Seq(CutType) /\ Apart(g.cuts)
      /\ \A j \in DOMAIN g.cuts : \E i \in DOMAIN h.cuts : g.cuts[j] = h.cuts[i] /\ h.cuts[i].server # server
      /\ \A i \in DOMAIN h.cuts : h.cuts[i].server # server => \E j \in DOMAIN g.cuts : g.cuts[j] = h.cuts[i]
  <2>. DEFINE S == {server}
              q == h.cuts
              w == Without(q, S)
  <2>0. q \in Seq(CutType) /\ Apart(q)
    BY <1>0
  <2>2. \A i \in DOMAIN q : q[i].server \notin S <=> q[i].server # server
    OBVIOUS
  <2>3. g.cuts = w /\ h.cuts = q
    OBVIOUS
  <2>. HIDE DEF S, q
  <2>1. /\ w \in Seq(CutType) /\ Apart(w)
        /\ \A j \in DOMAIN w : \E i \in DOMAIN q : w[j] = q[i] /\ q[i].server \notin S
        /\ \A i \in DOMAIN q : q[i].server \notin S => \E j \in DOMAIN w : w[j] = q[i]
    BY <2>0, WithoutIs
  <2>. HIDE DEF w
  <2>4. \A j \in DOMAIN w : \E i \in DOMAIN q : w[j] = q[i] /\ q[i].server # server
    BY <2>1, <2>2
  <2>5. \A i \in DOMAIN q : q[i].server # server => \E j \in DOMAIN w : w[j] = q[i]
    BY <2>1, <2>2
  <2>. HIDE DEF server
  <2>6. g.cuts \in Seq(CutType) /\ Apart(g.cuts)
    BY <2>1, <2>3
  <2>7. \A j \in DOMAIN g.cuts : \E i \in DOMAIN h.cuts : g.cuts[j] = h.cuts[i] /\ h.cuts[i].server # server
    BY <2>3, <2>4
  <2>8. \A i \in DOMAIN h.cuts : h.cuts[i].server # server => \E j \in DOMAIN g.cuts : g.cuts[j] = h.cuts[i]
    BY <2>3, <2>5
  <2>. QED
    BY <2>6, <2>7, <2>8
<1>2. /\ \A j \in DOMAIN h.cuts : h.cuts[j].server # server => Disjoint(h.cuts[j], cuts[n])
      /\ \A m \in n + 1..Len(cuts) : cuts[m].server # server /\ Disjoint(cuts[m], cuts[n])
      /\ n + 1..Len(cuts) \subseteq (n - 1) + 1..Len(cuts)
  BY OthersAreApart
<1>3. Whole(g.entries, g.cuts)
  <2>1. ASSUME NEW j \in DOMAIN g.cuts PROVE DOMAIN g.cuts[j].required \cap ks = {}
    <3>1. PICK i \in DOMAIN h.cuts : g.cuts[j] = h.cuts[i] /\ h.cuts[i].server # server
      BY <1>1
    <3>2. Disjoint(h.cuts[i], cuts[n])
      BY <1>2, <3>1
    <3>. QED
      BY <3>1, <3>2 DEF Disjoint
  <2>2. Whole(h.entries, g.cuts)
    BY <1>0, <1>1 DEF Whole
  <2>. DEFINE w == g.cuts
  <2>3. w \in Seq(CutType) /\ Whole(h.entries, w) /\ \A j \in DOMAIN w : DOMAIN w[j].required \cap ks = {}
    BY <1>1, <2>1, <2>2
  <2>. HIDE DEF w
  <2>4. Whole(g.entries, w)
    BY <2>3, WholeOn
  <2>. QED
    BY <2>4 DEF w
<1>4. ASSUME NEW r \in DOMAIN g.staged, ~g.staged[r].ready
      PROVE  \E i \in DOMAIN g.cuts : g.cuts[i].server = r /\ DOMAIN g.cuts[i].required # {}
  <2>1. r # server /\ ~h.staged[r].ready /\ r \in DOMAIN h.staged
    BY <1>4
  <2>2. PICK i \in DOMAIN h.cuts : h.cuts[i].server = r /\ DOMAIN h.cuts[i].required # {}
    BY <1>0, <2>1 DEF Awaited
  <2>3. PICK j \in DOMAIN g.cuts : g.cuts[j] = h.cuts[i]
    <3>1. h.cuts[i].server # server
      BY <2>1, <2>2
    <3>. HIDE DEF server
    <3>. QED
      BY <1>1, <2>2, <3>1
  <2>. QED
    BY <2>2, <2>3
<1>5. \A j \in DOMAIN g.cuts : \E i \in DOMAIN cuts :
        cuts[i].server = g.cuts[j].server /\ DOMAIN g.cuts[j].required \subseteq DOMAIN cuts[i].required
  <2>1. ASSUME NEW j \in DOMAIN g.cuts
        PROVE  \E i \in DOMAIN cuts :
                 cuts[i].server = g.cuts[j].server /\ DOMAIN g.cuts[j].required \subseteq DOMAIN cuts[i].required
    <3>1. PICK i \in DOMAIN h.cuts : g.cuts[j] = h.cuts[i]
      BY <1>1
    <3>2. PICK o \in DOMAIN cuts :
            cuts[o].server = h.cuts[i].server /\ DOMAIN h.cuts[i].required \subseteq DOMAIN cuts[o].required
      BY DEF Linked
    <3>. QED
      BY <3>1, <3>2
  <2>. QED
    BY <2>1
<1>6. ASSUME NEW m \in n + 1..Len(cuts)
      PROVE  Waits(g.entries, cuts[m].required) /\ \E j \in DOMAIN g.cuts : g.cuts[j].server = cuts[m].server
  <2>1. m \in (n - 1) + 1..Len(cuts) /\ m \in DOMAIN cuts /\ cuts[m].server # server
    BY <1>2
  <2>2. Waits(h.entries, cuts[m].required) /\ \E j \in DOMAIN h.cuts : h.cuts[j].server = cuts[m].server
    BY <2>1 DEF Linked
  <2>3. cuts[m].required \in Required
    BY <2>1, CutHas
  <2>4. DOMAIN cuts[m].required \cap ks = {}
    BY <1>2 DEF Disjoint
  <2>5. Waits(g.entries, cuts[m].required)
    BY <2>2, <2>3, <2>4, WaitsOn
  <2>6. PICK i \in DOMAIN h.cuts : h.cuts[i].server = cuts[m].server
    BY <2>2
  <2>7. \E j \in DOMAIN g.cuts : g.cuts[j] = h.cuts[i]
    BY <1>1, <2>1, <2>6
  <2>. QED
    BY <2>5, <2>6, <2>7
<1>. QED
  BY <1>1, <1>3, <1>4, <1>5, <1>6 DEF Linked, Awaited

\* The cut stays with the chunks that are current.
LEMMA StayingLinks ==
  ASSUME cuts \in Seq(CutType), Apart(cuts), NEW n \in 1..Len(cuts), NEW h, Linked(h, n - 1),
         NEW g, Host(g), Own(g.uploads), IsStaged(g.staged),
         NEW current \in Required, DOMAIN current # {}, DOMAIN current \subseteq DOMAIN cuts[n].required,
         \A k \in DOMAIN current : current[k] = cuts[n].required[k],
         g.cuts = Trimmed(h.cuts, cuts[n], current),
         Settles(g.entries, h.entries, {}),
         DOMAIN g.staged = DOMAIN h.staged,
         \A r \in DOMAIN g.staged : r # cuts[n].server => g.staged[r].ready = h.staged[r].ready
  PROVE  Linked(g, n)
<1>. DEFINE server == cuts[n].server
<1>0. /\ h.cuts \in Seq(CutType) /\ Apart(h.cuts) /\ Whole(h.entries, h.cuts) /\ Awaited(h.staged, h.cuts)
  BY DEF Linked, Host
<1>1. /\ cuts[n] \in CutType
      /\ \A j \in DOMAIN h.cuts : h.cuts[j].server # server => Disjoint(h.cuts[j], cuts[n])
      /\ Waits(h.entries, cuts[n].required)
      /\ \E j \in DOMAIN h.cuts : h.cuts[j].server = server
      /\ n + 1..Len(cuts) \subseteq (n - 1) + 1..Len(cuts)
  BY OthersAreApart
<1>2. /\ g.cuts \in Seq(CutType) /\ Apart(g.cuts) /\ DOMAIN g.cuts = DOMAIN h.cuts
      /\ \A i \in DOMAIN h.cuts :
           /\ h.cuts[i].server # server => g.cuts[i] = h.cuts[i]
           /\ h.cuts[i].server = server => g.cuts[i].server = server /\ g.cuts[i].required = current
  <2>. DEFINE q == h.cuts
              cut == cuts[n]
              t == Trimmed(q, cut, current)
  <2>1. q \in Seq(CutType) /\ cut \in CutType /\ Apart(q) /\ DOMAIN current \subseteq DOMAIN cut.required
    BY <1>0, <1>1
  <2>2. \A i \in DOMAIN q : q[i].server # cut.server => Disjoint(q[i], cut)
    BY <1>1
  <2>3. h.cuts = q /\ g.cuts = t /\ server = cut.server
    OBVIOUS
  <2>. HIDE DEF q, cut, t, server
  <2>4. /\ t \in Seq(CutType) /\ Apart(t) /\ DOMAIN t = DOMAIN q
        /\ \A i \in DOMAIN q :
             /\ q[i].server # cut.server => t[i] = q[i]
             /\ q[i].server = cut.server => t[i].server = cut.server /\ t[i].required = current
    BY <2>1, <2>2, TrimmedIs DEF t
  <2>. QED
    BY <2>3, <2>4
<1>3. Whole(g.entries, g.cuts)
  <2>1. Waits(h.entries, current)
    BY <1>1 DEF Waits
  <2>2. Whole(h.entries, g.cuts)
    BY <1>0, <1>2, <2>1 DEF Whole
  <2>. QED
    BY <1>2, <2>2, WholeOn
<1>4. ASSUME NEW r \in DOMAIN g.staged, ~g.staged[r].ready
      PROVE  \E i \in DOMAIN g.cuts : g.cuts[i].server = r /\ DOMAIN g.cuts[i].required # {}
  <2>1. CASE r = server
    BY <1>1, <1>2, <2>1
  <2>2. CASE r # server
    <3>1. PICK i \in DOMAIN h.cuts : h.cuts[i].server = r /\ DOMAIN h.cuts[i].required # {}
      BY <1>0, <1>4, <2>2 DEF Awaited
    <3>. QED
      BY <1>2, <2>2, <3>1
  <2>. QED
    BY <2>1, <2>2
<1>5. ASSUME NEW j \in DOMAIN g.cuts
      PROVE  \E i \in DOMAIN cuts :
               cuts[i].server = g.cuts[j].server /\ DOMAIN g.cuts[j].required \subseteq DOMAIN cuts[i].required
  <2>1. CASE h.cuts[j].server = server
    BY <1>2, <2>1
  <2>2. CASE h.cuts[j].server # server
    BY <1>2, <2>2 DEF Linked
  <2>. QED
    BY <2>1, <2>2
<1>6. ASSUME NEW m \in n + 1..Len(cuts)
      PROVE  Waits(g.entries, cuts[m].required) /\ \E j \in DOMAIN g.cuts : g.cuts[j].server = cuts[m].server
  <2>1. m \in (n - 1) + 1..Len(cuts) /\ m \in DOMAIN cuts
    BY <1>1
  <2>2. Waits(h.entries, cuts[m].required) /\ \E j \in DOMAIN h.cuts : h.cuts[j].server = cuts[m].server
    BY <2>1 DEF Linked
  <2>3. cuts[m].required \in Required
    BY <2>1, CutHas
  <2>4. Waits(g.entries, cuts[m].required)
    BY <2>2, <2>3, WaitsOn
  <2>. QED
    BY <1>2, <2>2, <2>4
<1>. QED
  BY <1>2, <1>3, <1>4, <1>5, <1>6 DEF Linked, Awaited

\* Visiting a cut keeps the cuts whole and the staged changes awaited.
LEMMA PublishedLinks ==
  ASSUME cuts \in Seq(CutType), Apart(cuts), requests \subseteq RequestType,
         NEW n \in 1..Len(cuts), NEW h, Linked(h, n - 1), NEW failing
  PROVE  Linked(Published(h, cuts[n], failing), n)
<1>. DEFINE cut == cuts[n]
            fresh == {k \in Chunk : h.entries[k] # None /\ k \in DOMAIN cut.required
                                  /\ h.entries[k].revision = cut.required[k]}
            current == Only(cut.required, fresh)
            ks == DOMAIN current
            fails == ks \cap failing # {}
            without == Without(h.cuts, {cut.server})
            trimmed == Trimmed(h.cuts, cut, current)
            rest == Only(h.staged, DOMAIN h.staged \ {cut.server})
            put == Staged(h, cut.server, ks, fails)
            tried == AfterUpload(put, ks, fails)
            g == Published(h, cut, failing)
<1>0. /\ Host(h) /\ Own(h.uploads) /\ IsStaged(h.staged)
      /\ DOMAIN h = {"entries", "meshes", "uploads", "cuts", "shown", "staged"}
  BY DEF Linked, Host, Fields
<1>1. cut \in CutType /\ cut.required \in Required
  BY OthersAreApart
<1>2. /\ current \in Required /\ ks \subseteq DOMAIN cut.required
      /\ \A k \in DOMAIN current : current[k] = cut.required[k]
  <2>1. current \in Required
    BY <1>1, OnlyType
  <2>. QED
    BY <2>1 DEF Only
<1>3. ks \in SUBSET Chunk /\ fails \in BOOLEAN
  BY DEF Only
<1>4. Host(g)
  BY <1>0, <1>1, PublishedLeads DEF Leads
<1>5. /\ ks = {} => g = [h EXCEPT !.cuts = without, !.staged = rest]
      /\ ks # {} => \/ g = [h EXCEPT !.cuts = trimmed]
                    \/ g = [tried EXCEPT !.cuts = IF fails THEN trimmed ELSE without]
  BY DEF Published, Trimmed
<1>. HIDE DEF fresh, current, fails, without, trimmed, rest, g
<1>6. CASE ks = {}
  <2>1. /\ g.entries = h.entries /\ g.uploads = h.uploads /\ g.cuts = without /\ g.staged = rest
    BY <1>0, <1>5, <1>6
  <2>2. /\ IsStaged(rest) /\ DOMAIN rest = DOMAIN h.staged \ {cut.server}
        /\ \A r \in DOMAIN rest : rest[r] = h.staged[r]
    BY <1>0 DEF rest, Only, IsStaged
  <2>3. Settles(g.entries, h.entries, ks)
    BY <2>1 DEF Settles
  <2>4. g.cuts = Without(h.cuts, {cuts[n].server})
    BY <2>1 DEF without
  <2>5. /\ DOMAIN g.staged \subseteq DOMAIN h.staged
        /\ \A r \in DOMAIN g.staged : r # cuts[n].server => g.staged[r].ready = h.staged[r].ready
        /\ cuts[n].server \in DOMAIN g.staged => g.staged[cuts[n].server].ready
    BY <2>1, <2>2
  <2>6. IsStaged(g.staged) /\ Own(g.uploads)
    BY <1>0, <2>1, <2>2
  <2>7. Linked(g, n)
    BY <1>2, <1>4, <2>3, <2>4, <2>5, <2>6, GoneLinks
  <2>. QED
    BY <2>7 DEF g
<1>7. CASE ks # {} /\ g = [h EXCEPT !.cuts = trimmed]
  <2>1. /\ g.entries = h.entries /\ g.uploads = h.uploads /\ g.cuts = trimmed /\ g.staged = h.staged
    BY <1>0, <1>7
  <2>2. Settles(g.entries, h.entries, {})
    BY <2>1 DEF Settles
  <2>3. g.cuts = Trimmed(h.cuts, cuts[n], current)
    BY <2>1 DEF trimmed
  <2>4. Linked(g, n)
    BY <1>0, <1>2, <1>4, <1>7, <2>1, <2>2, <2>3, StayingLinks
  <2>. QED
    BY <2>4 DEF g
<1>8. CASE ks # {} /\ g = [tried EXCEPT !.cuts = IF fails THEN trimmed ELSE without]
  <2>. HIDE DEF ks
  <2>1. /\ Host(put) /\ put.entries = h.entries /\ put.uploads = h.uploads /\ put.cuts = h.cuts
        /\ IsStaged(put.staged) /\ DOMAIN put.staged = DOMAIN h.staged
        /\ \A r \in DOMAIN h.staged : r # cut.server => put.staged[r].ready = h.staged[r].ready
        /\ cut.server \in DOMAIN h.staged /\ ~fails => put.staged[cut.server].ready
    BY <1>0, <1>3, StagedChanges
  <2>. HIDE DEF put
  <2>2. /\ Settles(tried.entries, put.entries, IF fails THEN {} ELSE ks)
        /\ Own(tried.uploads) /\ tried.cuts = put.cuts /\ tried.staged = put.staged
    BY <1>0, <1>3, <2>1, AfterUploadSettles
  <2>3. Host(tried)
    BY <1>3, <2>1, AfterUploadLeads, <1>0 DEF Leads
  <2>. HIDE DEF tried
  <2>4. DOMAIN tried = {"entries", "meshes", "uploads", "cuts", "shown", "staged"}
    BY <2>3 DEF Host, Fields
  <2>5. /\ g.entries = tried.entries /\ g.uploads = tried.uploads /\ g.staged = tried.staged
        /\ g.cuts = IF fails THEN trimmed ELSE without
    BY <1>8, <2>4
  <2>6. CASE fails
    <3>1. Settles(g.entries, h.entries, {}) /\ g.cuts = Trimmed(h.cuts, cuts[n], current)
      BY <2>1, <2>2, <2>5, <2>6 DEF trimmed
    <3>2. ks # {} /\ ks = DOMAIN current
      BY <1>8 DEF ks
    <3>3. Linked(g, n)
      BY <1>2, <1>4, <2>1, <2>2, <2>5, <3>1, <3>2, StayingLinks
    <3>. QED
      BY <3>3 DEF g
  <2>7. CASE ~fails
    <3>1. Settles(g.entries, h.entries, ks) /\ g.cuts = Without(h.cuts, {cuts[n].server})
      BY <2>1, <2>2, <2>5, <2>7 DEF without
    <3>2. /\ \A r \in DOMAIN g.staged : r # cuts[n].server => g.staged[r].ready = h.staged[r].ready
          /\ cuts[n].server \in DOMAIN g.staged => g.staged[cuts[n].server].ready
      BY <2>1, <2>2, <2>5, <2>7
    <3>3. ks \subseteq DOMAIN cuts[n].required
      BY <1>2 DEF ks
    <3>4. IsStaged(g.staged) /\ Own(g.uploads) /\ DOMAIN g.staged \subseteq DOMAIN h.staged
      BY <2>1, <2>2, <2>5
    <3>5. Linked(g, n)
      BY <1>4, <3>1, <3>2, <3>3, <3>4, GoneLinks
    <3>. QED
      BY <3>5 DEF g
  <2>. QED
    BY <2>6, <2>7
<1>. QED
  BY <1>5, <1>6, <1>7, <1>8

\* So does visiting all of them.
LEMMA PublishedAllLinks ==
  ASSUME cuts \in Seq(CutType), Apart(cuts), requests \subseteq RequestType,
         NEW h, Linked(h, 0), NEW failing
  PROVE  Linked(PublishedAll(h, failing), Len(cuts))
<1>1. Len(cuts) \in Nat /\ \A n \in 1..Len(cuts) : cuts[n] \in CutType
  OBVIOUS
<1>2. PICK g : /\ g[0] = h
               /\ \A n \in 1..Len(cuts) : g[n] = Published(g[n - 1], cuts[n], failing)
               /\ PublishedAll(h, failing) = g[Len(cuts)]
  BY <1>1, VisitedExists
<1>. DEFINE Good == {n \in Nat : n <= Len(cuts) => Linked(g[n], n)}
<1>3. 0 \in Good
  BY <1>2
<1>4. ASSUME NEW n \in Good PROVE n + 1 \in Good
  <2>1. SUFFICES ASSUME n + 1 <= Len(cuts) PROVE Linked(g[n + 1], n + 1)
    OBVIOUS
  <2>2. n \in Nat /\ n + 1 \in 1..Len(cuts) /\ (n + 1) - 1 = n
    BY <1>1, <1>4, <2>1
  <2>3. Linked(g[n], n)
    BY <1>1, <1>4, <2>1, <2>2
  <2>4. g[n + 1] = Published(g[n], cuts[n + 1], failing)
    BY <1>2, <2>2
  <2>. DEFINE m == n + 1
  <2>5. m \in 1..Len(cuts) /\ m - 1 = n
    BY <2>2
  <2>. HIDE DEF m
  <2>6. Linked(g[n], m - 1)
    BY <2>3, <2>5
  <2>7. Linked(Published(g[n], cuts[m], failing), m)
    BY <2>5, <2>6, PublishedLinks
  <2>. QED
    BY <2>4, <2>7 DEF m
<1>5. Good = Nat
  <2>. HIDE DEF Good
  <2>1. Good \in SUBSET Nat
    BY DEF Good
  <2>. QED
    BY <1>3, <1>4, <2>1, SetInduction
<1>6. Len(cuts) \in Good /\ Len(cuts) <= Len(cuts)
  <2>. HIDE DEF Good
  <2>. QED
    BY <1>1, <1>5
<1>7. Linked(g[Len(cuts)], Len(cuts))
  BY <1>6
<1>. QED
  BY <1>2, <1>7

\* A step that leaves the cuts alone and brings none of their chunks into use.
LEMMA AsideLinks ==
  ASSUME cuts \in Seq(CutType), NEW h, Linked(h, Len(cuts)),
         NEW g, Host(g), Own(g.uploads), g.cuts = h.cuts,
         NEW ks, Settles(g.entries, h.entries, ks),
         \A i \in DOMAIN h.cuts : DOMAIN h.cuts[i].required \cap ks = {},
         IsStaged(g.staged), DOMAIN g.staged = DOMAIN h.staged,
         \A r \in DOMAIN h.staged : g.staged[r].ready = h.staged[r].ready
  PROVE  Linked(g, Len(cuts))
<1>. DEFINE q == h.cuts
<1>1. q \in Seq(CutType) /\ Whole(h.entries, q) /\ \A i \in DOMAIN q : DOMAIN q[i].required \cap ks = {}
  BY DEF Linked, Host
<1>. HIDE DEF q
<1>2. Whole(g.entries, q)
  BY <1>1, WholeOn
<1>3. Whole(g.entries, g.cuts)
  BY <1>2 DEF q
<1>4. Awaited(g.staged, g.cuts)
  BY DEF Linked, Awaited
<1>5. Len(cuts) + 1..Len(cuts) = {}
  <2>1. Len(cuts) \in Nat
    OBVIOUS
  <2>. QED
    BY <2>1
<1>. QED
  BY <1>3, <1>4, <1>5 DEF Linked

LEMMA UploadedAloneLinks ==
  ASSUME cuts \in Seq(CutType), requests \subseteq RequestType, NEW h, Linked(h, Len(cuts)), NEW failing
  PROVE  Linked(UploadedAlone(h, failing), Len(cuts))
<1>. DEFINE current == {k \in Individual(h) : h.entries[k] # None
                          /\ h.entries[k].state = "uploading" /\ h.entries[k].revision = h.uploads[k].revision}
            fit == {k \in current : Has(h, k, h.uploads[k].revision)}
            done == fit \ failing
            back == AfterUpload(h, current \ done, TRUE)
            u == Cleared(back.uploads, Individual(h) \ done)
            s == Showing(h, done)
            mid == [back EXCEPT !.uploads = u, !.shown = s]
            g == AfterUpload(mid, done, FALSE)
<1>0. Host(h) /\ Own(h.uploads) /\ IsStaged(h.staged)
  BY DEF Linked
<1>1. UploadedAlone(h, failing) = g
  BY DEF UploadedAlone
<1>2. /\ done \in SUBSET Chunk /\ current \ done \in SUBSET Chunk
      /\ \A i \in DOMAIN h.cuts : DOMAIN h.cuts[i].required \cap done = {}
  BY DEF Individual
<1>. HIDE DEF current, done
<1>3. /\ Host(back) /\ Settles(back.entries, h.entries, {})
      /\ Own(back.uploads) /\ back.cuts = h.cuts /\ back.staged = h.staged
  <2>. DEFINE ks == current \ done
              x == TRUE
              b == AfterUpload(h, ks, x)
  <2>1. ks \in SUBSET Chunk /\ x \in BOOLEAN /\ x
    BY <1>2
  <2>. HIDE DEF ks, x
  <2>2. /\ Settles(b.entries, h.entries, IF x THEN {} ELSE ks)
        /\ Own(b.uploads) /\ b.cuts = h.cuts /\ b.staged = h.staged
    BY <1>0, <2>1, AfterUploadSettles
  <2>3. Host(b)
    BY <1>0, <2>1, AfterUploadLeads DEF Leads
  <2>. HIDE DEF b
  <2>4. /\ Host(b) /\ Settles(b.entries, h.entries, {})
        /\ Own(b.uploads) /\ b.cuts = h.cuts /\ b.staged = h.staged
    BY <2>1, <2>2, <2>3
  <2>5. b = back
    BY DEF b, x, ks
  <2>. QED
    BY <2>4, <2>5
<1>. HIDE DEF back
<1>4. /\ Host(mid) /\ Own(mid.uploads) /\ mid.entries = back.entries
      /\ mid.cuts = back.cuts /\ mid.staged = back.staged
  <2>1. DOMAIN back = {"entries", "meshes", "uploads", "cuts", "shown", "staged"}
    BY <1>3 DEF Host, Fields
  <2>2. u \in Uploads /\ Own(u)
    BY <1>3, ClearedUploads, OwnCleared DEF Host
  <2>. HIDE DEF u, s
  <2>3. /\ DOMAIN mid = Fields /\ mid.entries = back.entries /\ mid.uploads = u
        /\ mid.cuts = back.cuts /\ mid.staged = back.staged
    BY <2>1 DEF Fields
  <2>. HIDE DEF mid
  <2>. QED
    BY <1>3, <2>2, <2>3 DEF Host
<1>. HIDE DEF mid
<1>5. /\ Host(g) /\ Settles(g.entries, mid.entries, done)
      /\ Own(g.uploads) /\ g.cuts = mid.cuts /\ g.staged = mid.staged
  <2>. DEFINE x == FALSE
              b == AfterUpload(mid, done, x)
  <2>1. x \in BOOLEAN /\ ~x
    OBVIOUS
  <2>. HIDE DEF x
  <2>2. /\ Settles(b.entries, mid.entries, IF x THEN {} ELSE done)
        /\ Own(b.uploads) /\ b.cuts = mid.cuts /\ b.staged = mid.staged
    BY <1>2, <1>4, <2>1, AfterUploadSettles
  <2>3. Host(b)
    BY <1>0, <1>2, <1>4, <2>1, AfterUploadLeads DEF Leads
  <2>. HIDE DEF b
  <2>4. /\ Host(b) /\ Settles(b.entries, mid.entries, done)
        /\ Own(b.uploads) /\ b.cuts = mid.cuts /\ b.staged = mid.staged
    BY <2>1, <2>2, <2>3
  <2>5. b = g
    BY DEF b, x
  <2>. QED
    BY <2>4, <2>5
<1>. HIDE DEF g
<1>6. Settles(g.entries, h.entries, done)
  <2>1. Settles(mid.entries, h.entries, done)
    BY <1>3, <1>4, SettlesMore
  <2>. QED
    BY <1>5, <2>1, SettlesTrans
<1>7. g.cuts = h.cuts /\ g.staged = h.staged
  BY <1>3, <1>4, <1>5
<1>8. IsStaged(g.staged) /\ DOMAIN g.staged = DOMAIN h.staged
      /\ \A r \in DOMAIN h.staged : g.staged[r].ready = h.staged[r].ready
  BY <1>0, <1>7
<1>9. Linked(g, Len(cuts))
  BY <1>2, <1>5, <1>6, <1>7, <1>8, AsideLinks
<1>. QED
  BY <1>1, <1>9

LEMMA DrainedLinks ==
  ASSUME cuts \in Seq(CutType), NEW h, Linked(h, Len(cuts)), NEW gone
  PROVE  Linked(Drained(h, gone), Len(cuts))
<1>. DEFINE u == Cleared(h.uploads, gone)
            st == [r \in DOMAIN h.staged |-> Stripped(h.staged[r], gone)]
            g == Drained(h, gone)
<1>1. /\ DOMAIN h = {"entries", "meshes", "uploads", "cuts", "shown", "staged"}
      /\ Host(h) /\ Own(h.uploads) /\ IsStaged(h.staged)
  BY DEF Linked, Host, Fields
<1>2. u \in Uploads /\ Own(u)
  BY <1>1, ClearedUploads, OwnCleared DEF Host
<1>3. IsStaged(st) /\ DOMAIN st = DOMAIN h.staged /\ \A r \in DOMAIN h.staged : st[r].ready = h.staged[r].ready
  <2>1. ASSUME NEW r \in DOMAIN h.staged PROVE st[r].ready = h.staged[r].ready /\ IsChange(st[r])
    <3>1. IsChange(h.staged[r])
      BY <1>1 DEF IsStaged
    <3>. QED
      BY <3>1, StrippedIs
  <2>2. st = [r \in DOMAIN st |-> st[r]] /\ DOMAIN st = DOMAIN h.staged
    OBVIOUS
  <2>. HIDE DEF st
  <2>. QED
    BY <2>1, <2>2 DEF IsStaged
<1>4. g.staged = st
  BY <1>1 DEF Drained
<1>. HIDE DEF u, st
<1>5. DOMAIN g = Fields /\ g.entries = h.entries /\ g.uploads = u /\ g.cuts = h.cuts
  BY <1>1 DEF Drained, Fields, u
<1>. HIDE DEF g
<1>6. Host(g)
  BY <1>1, <1>2, <1>5 DEF Host
<1>7. Settles(g.entries, h.entries, {})
  BY <1>5 DEF Settles
<1>8. \A i \in DOMAIN h.cuts : DOMAIN h.cuts[i].required \cap {} = {}
  OBVIOUS
<1>9. IsStaged(g.staged) /\ DOMAIN g.staged = DOMAIN h.staged
      /\ \A r \in DOMAIN h.staged : g.staged[r].ready = h.staged[r].ready
  BY <1>3, <1>4
<1>10. Linked(g, Len(cuts))
  BY <1>2, <1>5, <1>6, <1>7, <1>8, <1>9, AsideLinks
<1>. QED
  BY <1>10 DEF g

LEMMA FrameCuts ==
  ASSUME CurrentInv, CutInv, NEW f, NEW interest, NEW failing \in SUBSET Chunk, Frame(f, interest, failing)
  PROVE  CutInv'
<1>. DEFINE es == IF focus = [at |-> f, interest |-> interest] THEN entries ELSE Refocused(f, interest)
            gone == {k \in Tracked : es[k] = None}
<1>0. /\ entries \in Entries /\ requests \subseteq RequestType /\ IsFiniteSet(requests)
      /\ uploads \in Uploads /\ cuts \in Seq(CutType)
      /\ Apart(cuts) /\ Whole(entries, cuts) /\ Own(uploads) /\ IsStaged(staged) /\ Awaited(staged, cuts)
      /\ \A i \in DOMAIN cuts : cuts[i].server \in known
  BY DEF CurrentInv, ShapeInv, CutInv
<1>1. es \in Entries /\ Settles(es, entries, {})
  <2>1. Settles(entries, entries, {})
    BY DEF Settles
  <2>2. Settles(Refocused(f, interest), entries, {}) /\ Refocused(f, interest) \in Entries
    BY <1>0, RefocusedSettles, RefocusedFollows DEF Follows
  <2>. QED
    BY <1>0, <2>1, <2>2
<1>. HIDE DEF es
<1>2. PICK generation \in Starts("queued_generation", es), meshing \in Starts("queued_meshing", es),
           upload \in Starts("queued_upload", es) :
       LET started == Started(upload, "uploading", Started(meshing, "meshing",
                        Started(generation, "generating", es)))
           meshed == {k \in meshing : voxels[k] # None}
           refused == generation \cap failing
           tickets(ks) == {TicketOf(k, started) : k \in ks}
           before == [
             entries |-> Completed(tickets(meshed), Retried(tickets(refused), started)),
             meshes |-> [k \in Chunk |->
               IF k \in meshed THEN [revision |-> es[k].revision, shows |-> voxels[k]] ELSE meshes[k]],
             uploads |-> [k \in Chunk |-> IF k \in upload THEN TicketOf(k, started) ELSE uploads[k]],
             cuts |-> cuts, shown |-> shown, staged |-> staged]
       IN
       /\ failing \subseteq generation \cup {k \in Chunk : before.uploads[k] # None}
       /\ requests' = requests \cup
            {[ticket |-> t, asof |-> Revision] : t \in tickets(generation \ refused)}
       /\ \E after \in {Drained(UploadedAlone(PublishedAll(before, failing), failing), gone)} :
            /\ entries' = after.entries /\ meshes' = after.meshes /\ uploads' = after.uploads
            /\ cuts' = after.cuts /\ shown' = after.shown /\ staged' = after.staged
  BY DEF Frame, es
<1>. DEFINE s1 == Started(generation, "generating", es)
            s2 == Started(meshing, "meshing", s1)
            started == Started(upload, "uploading", s2)
            meshed == {k \in meshing : voxels[k] # None}
            refused == generation \cap failing
            tickets(ks) == {TicketOf(k, started) : k \in ks}
            before == [
              entries |-> Completed(tickets(meshed), Retried(tickets(refused), started)),
              meshes |-> [k \in Chunk |->
                IF k \in meshed THEN [revision |-> es[k].revision, shows |-> voxels[k]] ELSE meshes[k]],
              uploads |-> [k \in Chunk |-> IF k \in upload THEN TicketOf(k, started) ELSE uploads[k]],
              cuts |-> cuts, shown |-> shown, staged |-> staged]
            after == Drained(UploadedAlone(PublishedAll(before, failing), failing), gone)
<1>3. entries' = after.entries /\ uploads' = after.uploads /\ cuts' = after.cuts /\ staged' = after.staged
  BY <1>2
<1>4. /\ generation \subseteq Chunk /\ meshing \subseteq Chunk /\ upload \subseteq Chunk
      /\ \A k \in generation : es[k] # None /\ es[k].state = "queued_generation"
      /\ \A k \in meshing : es[k] # None /\ es[k].state = "queued_meshing"
      /\ \A k \in upload : es[k] # None /\ es[k].state = "queued_upload"
  BY DEF Starts, Startable
<1>5. known' = known
  BY DEF Frame, authorityVars
<1>. HIDE DEF gone
<1>6. /\ started \in Entries
      /\ \A k \in generation : started[k] \in Entry /\ started[k].state = "generating"
      /\ \A k \in meshing : started[k] \in Entry /\ started[k].state = "meshing"
      /\ \A k \in upload : started[k] \in Entry /\ started[k].state = "uploading"
  BY <1>0, <1>1, <1>4, StagesStart DEF Follows
<1>7. Settles(started, es, {})
  <2>1. ASSUME NEW k \in Chunk, Resident(started, k)
        PROVE  Resident(es, k) /\ es[k].revision = started[k].revision
    <3>1. k \notin generation /\ k \notin meshing /\ k \notin upload
      BY <1>6, <2>1 DEF Resident
    <3>2. started[k] = es[k]
      BY <3>1 DEF Started
    <3>. HIDE DEF started
    <3>. QED
      BY <2>1, <3>2 DEF Resident
  <2>. HIDE DEF started
  <2>. QED
    BY <2>1 DEF Settles
<1>. HIDE DEF s1, s2, started
<1>8. /\ tickets(meshed) \in SUBSET Ticket /\ \A t \in tickets(meshed) : t.stage = "meshing"
      /\ tickets(refused) \in SUBSET Ticket
      /\ \A k \in upload : TicketOf(k, started) \in UploadTicket /\ TicketOf(k, started).chunk = k
  <2>1. \A k \in generation : TicketOf(k, started) \in Ticket
    BY <1>4, <1>6, TicketIs
  <2>2. \A k \in meshing : TicketOf(k, started) \in Ticket /\ TicketOf(k, started).stage = "meshing"
    BY <1>4, <1>6, TicketIs
  <2>3. \A k \in upload : TicketOf(k, started) \in UploadTicket
    BY <1>4, <1>6, TicketIs DEF UploadTicket
  <2>4. \A k \in upload : TicketOf(k, started).chunk = k
    BY DEF TicketOf
  <2>. QED
    BY <2>1, <2>2, <2>3, <2>4
<1>9. Linked(before, 0)
  <2>. DEFINE back == Retried(tickets(refused), started)
              done == Completed(tickets(meshed), back)
              u == before.uploads
  <2>1. u \in Uploads /\ Own(u)
    BY <1>0, <1>8 DEF Uploads, Own
  <2>. HIDE DEF tickets, refused, meshed
  <2>2. back \in Entries /\ Settles(back, started, {})
    BY <1>0, <1>6, <1>8, RetriedFollows, RetriedSettles DEF Follows
  <2>3. done \in Entries /\ Settles(done, back, {})
    <3>. HIDE DEF back
    <3>1. done \in Entries
      BY <1>0, <1>8, <2>2, CompletedFollows DEF Follows
    <3>2. \A t \in tickets(meshed) : t.stage = "uploading" => t.chunk \in {}
      BY <1>8
    <3>. QED
      BY <1>8, <2>2, <3>1, <3>2, CompletedSettles
  <2>4. /\ DOMAIN before = {"entries", "meshes", "uploads", "cuts", "shown", "staged"}
        /\ before.entries = done /\ before.cuts = cuts /\ before.staged = staged /\ before.uploads = u
    OBVIOUS
  <2>. HIDE DEF before, done, back, u
  <2>5. Settles(done, entries, {})
    BY <1>1, <1>7, <2>2, <2>3, SettlesTrans
  <2>6. Whole(done, cuts)
    BY <1>0, <2>5, WholeOn
  <2>7. Host(before)
    BY <1>0, <2>1, <2>3, <2>4 DEF Host, Fields
  <2>8. \A m \in 0 + 1..Len(cuts) : m \in DOMAIN cuts
    BY <1>0
  <2>9. \A m \in 0 + 1..Len(cuts) : Waits(done, cuts[m].required) /\ \E j \in DOMAIN cuts : cuts[j].server = cuts[m].server
    BY <2>6, <2>8 DEF Whole
  <2>10. \A j \in DOMAIN cuts : \E i \in DOMAIN cuts :
           cuts[i].server = cuts[j].server /\ DOMAIN cuts[j].required \subseteq DOMAIN cuts[i].required
    OBVIOUS
  <2>. QED
    BY <1>0, <2>1, <2>4, <2>6, <2>7, <2>9, <2>10 DEF Linked
<1>. HIDE DEF before
<1>10. Linked(after, Len(cuts))
  <2>. DEFINE grouped == PublishedAll(before, failing)
              alone == UploadedAlone(grouped, failing)
  <2>1. Linked(grouped, Len(cuts))
    BY <1>0, <1>9, PublishedAllLinks
  <2>. HIDE DEF grouped
  <2>2. Linked(alone, Len(cuts))
    BY <1>0, <2>1, UploadedAloneLinks
  <2>. HIDE DEF alone
  <2>3. Linked(Drained(alone, gone), Len(cuts))
    BY <1>0, <2>2, DrainedLinks
  <2>. QED
    BY <2>3 DEF alone, grouped
<1>. HIDE DEF after
<1>11. \A i \in DOMAIN cuts' : cuts'[i].server \in known'
  BY <1>0, <1>3, <1>5, <1>10 DEF Linked
<1>. QED
  BY <1>3, <1>10, <1>11 DEF Linked, CutInv

-----------------------------------------------------------------------------
(* The steps between frames, for cuts and staged changes.                  *)

LEMMA NothingStaged == ASSUME NEW st, st = <<>> PROVE IsStaged(st) /\ \A q : Awaited(st, q)
<1>1. DOMAIN st = {}
  OBVIOUS
<1>2. st = [r \in DOMAIN st |-> st[r]]
  BY <1>1
<1>. QED
  BY <1>1, <1>2 DEF IsStaged, Awaited

LEMMA IdleCuts ==
  ASSUME CurrentInv, CutInv, Settles(entries', entries, {}), UNCHANGED <<known, uploads, cuts, staged>>
  PROVE  CutInv'
<1>1. cuts \in Seq(CutType) /\ Whole(entries, cuts)
  BY DEF CurrentInv, ShapeInv, CutInv
<1>2. Whole(entries', cuts)
  BY <1>1, WholeOn
<1>. QED
  BY <1>2 DEF CutInv, Whole, Waits

LEMMA CommitCuts == ASSUME CurrentInv, CutInv, NEW ks, Commit(ks) PROVE CutInv'
<1>1. UNCHANGED <<known, entries, uploads, cuts, staged>>
  BY DEF Commit, schedulerVars, hostVars, rendererVars
<1>2. Settles(entries', entries, {})
  BY <1>1 DEF Settles
<1>. QED
  BY <1>1, <1>2, IdleCuts

LEMMA RequestFailsCuts ==
  ASSUME CurrentInv, CutInv, NEW q \in requests, RequestFails(q) PROVE CutInv'
<1>1. /\ UNCHANGED <<known, uploads, cuts, staged>>
      /\ entries' = Retried({q.ticket}, entries)
  BY DEF RequestFails, authorityVars, hostVars, rendererVars
<1>2. {q.ticket} \in SUBSET Ticket /\ entries \in Entries
  BY DEF CurrentInv, ShapeInv, RequestType, GenerationTicket
<1>3. Settles(entries', entries, {})
  BY <1>1, <1>2, RetriedSettles
<1>. QED
  BY <1>1, <1>3, IdleCuts

LEMMA ReceiveCuts ==
  ASSUME CurrentInv, CutInv, NEW q \in requests, NEW n, Receive(q, n) PROVE CutInv'
<1>. DEFINE ts == {q.ticket}
<1>1. /\ UNCHANGED <<known, uploads, cuts, staged>>
      /\ entries' = Completed(ts, entries) \/ entries' = Retried(ts, entries)
  BY DEF Receive, authorityVars, rendererVars
<1>2. ts \in SUBSET Ticket /\ entries \in Entries /\ \A t \in ts : t.stage = "generating"
  BY DEF CurrentInv, ShapeInv, RequestType, GenerationTicket
<1>. HIDE DEF ts
<1>3. \A t \in ts : t.stage = "uploading" => t.chunk \in {}
  BY <1>2
<1>4. Settles(entries', entries, {})
  BY <1>1, <1>2, <1>3, CompletedSettles, RetriedSettles
<1>. QED
  BY <1>1, <1>4, IdleCuts

LEMMA PresentCuts == ASSUME CurrentInv, CutInv, NEW pages, Present(pages) PROVE CutInv'
<1>1. UNCHANGED <<known, entries, uploads, cuts>> /\ staged' = <<>>
  BY DEF Present, authorityVars, schedulerVars, hostVars
<1>2. IsStaged(staged') /\ Awaited(staged', cuts)
  BY <1>1, NothingStaged
<1>. QED
  BY <1>1, <1>2 DEF CutInv, Whole, Waits

LEMMA ResyncCuts == ASSUME NEW n, Resync(n) PROVE CutInv'
<1>1. cuts' = <<>> /\ staged' = <<>> /\ uploads' = Cleared(uploads, Chunk)
  BY DEF Resync
<1>2. DOMAIN cuts' = {}
  BY <1>1
<1>3. IsStaged(staged') /\ Awaited(staged', cuts')
  BY <1>1, NothingStaged
<1>4. Own(uploads')
  BY <1>1 DEF Own, Cleared
<1>. QED
  BY <1>2, <1>3, <1>4 DEF CutInv, Apart, Whole

\* What register_canonical_publication makes of an edit's chunks.
LEMMA MergedIs ==
  ASSUME NEW required
  PROVE  LET m == Merged(required) IN
         /\ \A k \in DOMAIN m.required :
              \/ k \in DOMAIN required
              \/ \E i \in DOMAIN cuts : /\ DOMAIN cuts[i].required \cap DOMAIN required # {}
                                        /\ k \in DOMAIN cuts[i].required
                                        /\ m.required[k] = cuts[i].required[k]
         /\ DOMAIN required \subseteq DOMAIN m.required
         /\ \A i \in DOMAIN cuts : cuts[i].server \notin m.servers =>
              DOMAIN cuts[i].required \cap DOMAIN required = {}
<1>. DEFINE overlapping == {i \in DOMAIN cuts : DOMAIN cuts[i].required \cap DOMAIN required # {}}
            older == UNION {DOMAIN cuts[i].required : i \in overlapping}
            holder(k) == CHOOSE j \in overlapping : k \in DOMAIN cuts[j].required
            merged == [k \in older \cup DOMAIN required |->
                        IF k \in DOMAIN required THEN required[k] ELSE cuts[holder(k)].required[k]]
<1>1. Merged(required).required = merged /\ Merged(required).servers = {cuts[i].server : i \in overlapping}
  BY DEF Merged
<1>2. ASSUME NEW k \in DOMAIN merged, k \notin DOMAIN required
      PROVE  \E i \in overlapping : k \in DOMAIN cuts[i].required /\ merged[k] = cuts[i].required[k]
  <2>1. k \in older
    BY <1>2
  <2>2. holder(k) \in overlapping /\ k \in DOMAIN cuts[holder(k)].required
    BY <2>1
  <2>3. merged[k] = cuts[holder(k)].required[k]
    BY <1>2
  <2>. HIDE DEF holder, overlapping, merged
  <2>. QED
    BY <2>2, <2>3
<1>3. DOMAIN required \subseteq DOMAIN merged
  OBVIOUS
<1>. HIDE DEF merged
<1>. QED
  BY <1>1, <1>2, <1>3

\* The cut of an edit takes the place of the cuts that it overlaps.
LEMMA MergedCuts ==
  ASSUME cuts \in Seq(CutType), Apart(cuts), \A i \in DOMAIN cuts : cuts[i].server \in known,
         NEW r \in Nat, r \notin known, NEW required \in Required
  PROVE  LET new == [server |-> r, required |-> Merged(required).required]
             q == Append(Without(cuts, Merged(required).servers), new) IN
         /\ q \in Seq(CutType) /\ Apart(q)
         /\ \A j \in DOMAIN q : q[j] = new \/ \E i \in DOMAIN cuts : q[j] = cuts[i]
         /\ \E j \in DOMAIN q : q[j] = new
         /\ \A i \in DOMAIN cuts : cuts[i].server \notin Merged(required).servers => \E j \in DOMAIN q : q[j] = cuts[i]
<1>. DEFINE S == Merged(required).servers
            w == Without(cuts, S)
            new == [server |-> r, required |-> Merged(required).required]
            q == Append(w, new)
<1>. HIDE DEF S
<1>1. /\ w \in Seq(CutType) /\ Apart(w)
      /\ \A j \in DOMAIN w : \E i \in DOMAIN cuts : w[j] = cuts[i] /\ cuts[i].server \notin S
      /\ \A i \in DOMAIN cuts : cuts[i].server \notin S => \E j \in DOMAIN w : w[j] = cuts[i]
  <2>. DEFINE p == cuts
              v == Without(p, S)
  <2>1. p \in Seq(CutType) /\ Apart(p)
    OBVIOUS
  <2>. HIDE DEF p
  <2>2. /\ v \in Seq(CutType) /\ Apart(v)
        /\ \A j \in DOMAIN v : \E i \in DOMAIN p : v[j] = p[i] /\ p[i].server \notin S
        /\ \A i \in DOMAIN p : p[i].server \notin S => \E j \in DOMAIN v : v[j] = p[i]
    BY <2>1, WithoutIs
  <2>. QED
    BY <2>2 DEF p
<1>. USE DEF S
<1>2. new \in CutType /\ new.server = r /\ new.required = Merged(required).required
  <2>1. Merged(required).required \in Required
    BY MergedType
  <2>. QED
    BY <2>1 DEF CutType
<1>3. ASSUME NEW i \in DOMAIN cuts, cuts[i].server \notin S
      PROVE  cuts[i].server # r /\ Disjoint(cuts[i], new)
  <2>1. DOMAIN cuts[i].required \cap DOMAIN required = {}
    BY <1>3, MergedIs
  <2>2. ASSUME NEW k \in DOMAIN new.required, k \in DOMAIN cuts[i].required PROVE FALSE
    <3>1. k \notin DOMAIN required
      BY <2>1, <2>2
    <3>2. PICK o \in DOMAIN cuts : DOMAIN cuts[o].required \cap DOMAIN required # {} /\ k \in DOMAIN cuts[o].required
      BY <1>2, <2>2, <3>1, MergedIs
    <3>3. o # i
      BY <2>1, <3>2
    <3>. QED
      BY <2>2, <3>2, <3>3 DEF Apart, Disjoint
  <2>. QED
    BY <2>2 DEF Disjoint
<1>. HIDE DEF S, w, new
<1>4. Len(w) \in Nat /\ DOMAIN w = 1..Len(w)
  BY <1>1
<1>5. /\ q \in Seq(CutType) /\ DOMAIN q = 1..Len(w) + 1
      /\ q[Len(w) + 1] = new /\ \A j \in DOMAIN w : q[j] = w[j]
  BY <1>1, <1>2, <1>4
<1>. HIDE DEF q
<1>6. \A j \in DOMAIN q : j \in DOMAIN w \/ j = Len(w) + 1
  BY <1>4, <1>5
<1>7. \A j \in DOMAIN w : j \in DOMAIN q
  BY <1>4, <1>5
<1>8. ASSUME NEW j \in DOMAIN w PROVE q[j].server # new.server /\ Disjoint(q[j], new)
  <2>1. PICK i \in DOMAIN cuts : w[j] = cuts[i] /\ cuts[i].server \notin S
    BY <1>1
  <2>2. cuts[i].server # r /\ Disjoint(cuts[i], new)
    BY <1>3, <2>1
  <2>. QED
    BY <1>2, <1>5, <2>1, <2>2
<1>9. Apart(q)
  <2>1. ASSUME NEW i \in DOMAIN q, NEW j \in DOMAIN q, i # j
        PROVE  q[i].server # q[j].server /\ Disjoint(q[i], q[j])
    <3>1. CASE i \in DOMAIN w /\ j \in DOMAIN w
      <4>1. w[i].server # w[j].server /\ Disjoint(w[i], w[j])
        BY <1>1, <2>1, <3>1 DEF Apart
      <4>. QED
        BY <1>5, <3>1, <4>1
    <3>2. CASE i \in DOMAIN w /\ j = Len(w) + 1
      BY <1>5, <1>8, <3>2
    <3>3. CASE i = Len(w) + 1 /\ j \in DOMAIN w
      BY <1>5, <1>8, <3>3 DEF Disjoint
    <3>. QED
      BY <1>6, <2>1, <3>1, <3>2, <3>3
  <2>. QED
    BY <2>1 DEF Apart
<1>10. \A j \in DOMAIN q : q[j] = new \/ \E i \in DOMAIN cuts : q[j] = cuts[i]
  BY <1>1, <1>5, <1>6
<1>11. \E j \in DOMAIN q : q[j] = new
  BY <1>4, <1>5
<1>12. \A i \in DOMAIN cuts : cuts[i].server \notin S => \E j \in DOMAIN q : q[j] = cuts[i]
  BY <1>1, <1>5, <1>7
<1>. QED
  BY <1>5, <1>9, <1>10, <1>11, <1>12 DEF S, w, new, q

LEMMA HearCuts ==
  ASSUME CurrentInv, CutInv, NEW r \in 2..Revision, r \notin known, Hear(r)
  PROVE  CutInv'
<1>. DEFINE ks == log[r - 1]
            edited == Edited(entries, ks)
            required == [k \in ks \cap Desired |-> edited[k].revision]
            new == [server |-> r, required |-> Merged(required).required]
            q == Append(Without(cuts, Merged(required).servers), new)
<1>0. /\ ShapeInv /\ entries \in Entries /\ cuts \in Seq(CutType) /\ r \in Nat
      /\ Apart(cuts) /\ Whole(entries, cuts) /\ Own(uploads) /\ IsStaged(staged) /\ Awaited(staged, cuts)
      /\ \A i \in DOMAIN cuts : cuts[i].server \in known
  BY DEF CurrentInv, ShapeInv, CutInv, Revision
<1>1. r > watermark
  BY DEF CurrentInv, ShapeInv, Revision
<1>2. known' = known \cup {r} /\ Observe(r) /\ uploads' = uploads
  BY <1>0, <1>1 DEF Hear, ShapeInv
<1>3. PICK O \in SUBSET {r} :
        /\ entries' = edited
        /\ cuts' = IF DOMAIN required = {} THEN cuts ELSE q
        /\ staged' = [s \in (DOMAIN staged \cup O) \ Superseded(r, required) |->
             IF s \in DOMAIN staged THEN staged[s] ELSE Unprepared]
  <2>. DEFINE opened == fence # None /\ \E p \in {o \in UNION {PagesOf[k] : k \in ks} : r > PageFloor(o)} : fence[p] < r
              O == IF opened THEN {r} ELSE {}
  <2>1. /\ entries' = edited
        /\ cuts' = IF DOMAIN required = {} THEN cuts ELSE q
        /\ staged' = [s \in (DOMAIN staged \cup O) \ Superseded(r, required) |->
             IF s \in DOMAIN staged THEN staged[s] ELSE Unprepared]
    BY <1>2 DEF Observe
  <2>2. O \in SUBSET {r}
    OBVIOUS
  <2>. HIDE DEF O, q, required, edited
  <2>. QED
    BY <2>1, <2>2
<1>4. /\ Settles(edited, entries, {})
      /\ \A k \in Chunk : k \in ks => ~Resident(edited, k)
  BY <1>0, EditedSettles
<1>5. required \in Required /\ DOMAIN required \subseteq ks
  BY <1>0, EditedRequired
<1>. HIDE DEF edited, required
<1>6. new \in CutType /\ Waits(edited, new.required)
  <2>1. new \in CutType /\ new.required = Merged(required).required /\ new.required \in Required
    BY <1>0, <1>5, MergedType DEF CutType
  <2>2. ASSUME NEW k \in DOMAIN new.required, Resident(edited, k), edited[k].revision = new.required[k]
        PROVE  FALSE
    <3>1. k \in Chunk
      BY <2>1, RequiredIs
    <3>2. k \notin DOMAIN required
      BY <1>4, <1>5, <2>2, <3>1
    <3>3. PICK i \in DOMAIN cuts : k \in DOMAIN cuts[i].required /\ new.required[k] = cuts[i].required[k]
      BY <2>1, <3>2, MergedIs
    <3>4. cuts[i].required \in Required /\ Waits(entries, cuts[i].required)
      BY <1>0, CutHas DEF Whole
    <3>5. Waits(edited, cuts[i].required)
      BY <1>4, <3>4, WaitsOn
    <3>. QED
      BY <2>2, <3>3, <3>5 DEF Waits, Resident
  <2>. QED
    BY <2>1, <2>2 DEF Waits, Resident
<1>7. Whole(edited, cuts)
  BY <1>0, <1>4, WholeOn
<1>8. IsStaged(staged')
  <2>. DEFINE S == (DOMAIN staged \cup O) \ Superseded(r, required)
  <2>1. staged' = [s \in S |-> IF s \in DOMAIN staged THEN staged[s] ELSE Unprepared]
    BY <1>3
  <2>2. IsChange(Unprepared) /\ \A s \in DOMAIN staged : IsChange(staged[s])
    BY <1>0 DEF IsStaged, IsChange, Unprepared
  <2>. HIDE DEF S
  <2>3. DOMAIN staged' = S /\ \A s \in S : IsChange(staged'[s])
    BY <2>1, <2>2
  <2>. QED
    BY <2>1, <2>3 DEF IsStaged
<1>9. /\ \A s \in DOMAIN staged' : s \notin Superseded(r, required) /\ (s \in DOMAIN staged \/ s = r)
      /\ \A s \in DOMAIN staged' : s \in DOMAIN staged => staged'[s] = staged[s]
  BY <1>3
<1>10. CASE DOMAIN required = {}
  <2>1. cuts' = cuts /\ Superseded(r, required) = {r}
    BY <1>3, <1>10 DEF Superseded
  <2>2. Awaited(staged', cuts')
    BY <1>0, <1>9, <2>1 DEF Awaited
  <2>3. Whole(entries', cuts') /\ Apart(cuts') /\ Own(uploads') /\ \A i \in DOMAIN cuts' : cuts'[i].server \in known'
    BY <1>0, <1>2, <1>3, <1>7, <2>1
  <2>. QED
    BY <1>8, <2>2, <2>3 DEF CutInv
<1>11. CASE DOMAIN required # {}
  <2>. HIDE DEF new
  <2>1. cuts' = q /\ Superseded(r, required) = Merged(required).servers
    BY <1>3, <1>11 DEF Superseded
  <2>2. /\ q \in Seq(CutType) /\ Apart(q)
        /\ \A j \in DOMAIN q : q[j] = new \/ \E i \in DOMAIN cuts : q[j] = cuts[i]
        /\ \E j \in DOMAIN q : q[j] = new
        /\ \A i \in DOMAIN cuts : cuts[i].server \notin Merged(required).servers => \E j \in DOMAIN q : q[j] = cuts[i]
    <3>3. cuts \in Seq(CutType) /\ Apart(cuts) /\ r \in Nat /\ r \notin known /\ required \in Required
      BY <1>0, <1>5
    <3>4. \A i \in DOMAIN cuts : cuts[i].server \in known
      BY <1>0
    <3>. QED
      BY <3>3, <3>4, MergedCuts DEF new
  <2>. HIDE DEF q
  <2>3. Whole(edited, q)
    BY <1>6, <1>7, <2>2 DEF Whole
  <2>4. \A j \in DOMAIN q : q[j].server \in known'
    <3>1. new.server = r
      BY DEF new
    <3>. QED
      BY <1>0, <1>2, <2>2, <3>1
  <2>5. ASSUME NEW s \in DOMAIN staged', ~staged'[s].ready
        PROVE  \E j \in DOMAIN q : q[j].server = s /\ DOMAIN q[j].required # {}
    <3>1. CASE s \in DOMAIN staged
      <4>1. PICK i \in DOMAIN cuts : cuts[i].server = s /\ DOMAIN cuts[i].required # {}
        BY <1>0, <1>9, <2>5, <3>1 DEF Awaited
      <4>2. cuts[i].server \notin Merged(required).servers
        BY <1>9, <2>1, <4>1
      <4>3. PICK j \in DOMAIN q : q[j] = cuts[i]
        BY <2>2, <4>2
      <4>. QED
        BY <4>1, <4>3
    <3>2. CASE s = r
      <4>1. new.server = r /\ new.required = Merged(required).required
        BY DEF new
      <4>2. DOMAIN required \subseteq DOMAIN new.required
        BY <4>1, MergedIs
      <4>. QED
        BY <1>11, <2>2, <3>2, <4>1, <4>2
    <3>. QED
      BY <1>9, <3>1, <3>2
  <2>6. Awaited(staged', cuts')
    BY <2>1, <2>5 DEF Awaited
  <2>. QED
    BY <1>0, <1>2, <1>3, <1>8, <2>1, <2>2, <2>3, <2>4, <2>6 DEF CutInv
<1>. QED
  BY <1>10, <1>11

LEMMA CutInit == ASSUME Init PROVE CutInv
<1>1. cuts = <<>> /\ staged = <<>> /\ uploads = [k \in Chunk |-> None]
  BY DEF Init
<1>2. DOMAIN cuts = {} /\ Own(uploads)
  BY <1>1 DEF Own
<1>3. IsStaged(staged) /\ Awaited(staged, cuts)
  BY <1>1, NothingStaged
<1>. QED
  BY <1>2, <1>3 DEF CutInv, Apart, Whole

LEMMA CutNext == ASSUME CurrentInv, CutInv, [Next]_vars PROVE CutInv'
<1>1. ASSUME NEW f \in FocusPoint, NEW interest \in Interests, NEW failing \in SUBSET Chunk,
             Frame(f, interest, failing)
      PROVE  CutInv'
  BY <1>1, FrameCuts
<1>2. ASSUME NEW ks \in Cuts, Commit(ks) PROVE CutInv'
  BY <1>2, CommitCuts
<1>3. ASSUME NEW q \in requests, RequestFails(q) PROVE CutInv'
  BY <1>3, RequestFailsCuts
<1>4. ASSUME NEW q \in requests, NEW n \in q.asof..Revision, Receive(q, n) PROVE CutInv'
  BY <1>4, ReceiveCuts
<1>5. ASSUME NEW r \in 2..Revision \ known, Hear(r) PROVE CutInv'
  BY <1>5, HearCuts
<1>6. ASSUME NEW n \in 2..Revision, Resync(n) PROVE CutInv'
  BY <1>6, ResyncCuts
<1>7. ASSUME NEW pages \in [Page -> 1..Revision], Present(pages) PROVE CutInv'
  BY <1>7, PresentCuts
<1>8. CASE UNCHANGED vars
  <2>1. UNCHANGED <<known, entries, uploads, cuts, staged>>
    BY <1>8 DEF vars, authorityVars, schedulerVars, hostVars, rendererVars
  <2>2. Settles(entries', entries, {})
    BY <2>1 DEF Settles
  <2>. QED
    BY <2>1, <2>2, IdleCuts
<1>. QED
  BY <1>1, <1>2, <1>3, <1>4, <1>5, <1>6, <1>7, <1>8 DEF Next

LEMMA CutsHold == Spec => [](CurrentInv /\ CutInv)
<1>1. Init => CurrentInv /\ CutInv
  BY CurrentInit, CutInit
<1>2. CurrentInv /\ CutInv /\ [Next]_vars => CurrentInv' /\ CutInv'
  BY CurrentNext, CutNext
<1>. QED
  BY <1>1, <1>2, PTL DEF Spec

\* The chunks of a cut come into use together: register_canonical_publication
\* merges overlapping cuts, publish_ready_canonical_cuts uploads a cut as a whole
\* and the chunk uploads leave its chunks alone.
THEOREM CutsStayWhole == Spec => []CutsAreWhole
<1>1. CurrentInv /\ CutInv => CutsAreWhole
  BY DEF CutInv, Whole, Waits, CutsAreWhole, Tracked
<1>. QED
  BY <1>1, CutsHold, PTL

\* A change that holds the terrain back has a cut that will prepare it, whatever
\* is merged, cancelled, evicted or fails: commit_virtual_client_view does not
\* wait for a change that nobody prepares.
THEOREM TerrainIsNotBlocked == Spec => []NothingBlocksTheTerrain
<1>1. ASSUME CutInv PROVE NothingBlocksTheTerrain
  <2>1. ASSUME NEW r \in DOMAIN staged, ~staged[r].ready
        PROVE  \E i \in DOMAIN cuts : cuts[i].server = r /\ cuts[i].required # <<>>
    <3>1. PICK i \in DOMAIN cuts : cuts[i].server = r /\ DOMAIN cuts[i].required # {}
      BY <1>1, <2>1 DEF CutInv, Awaited
    <3>2. cuts[i].required # <<>>
      <4>1. \A x : x = <<>> => DOMAIN x = {}
        OBVIOUS
      <4>. QED
        BY <3>1, <4>1
    <3>. QED
      BY <3>1, <3>2
  <2>. QED
    BY <2>1 DEF NothingBlocksTheTerrain
<1>. QED
  BY <1>1, CutsHold, PTL

-----------------------------------------------------------------------------
(* Work in flight has somebody who will finish it.                         *)

Carried(e, k) == [chunk |-> k, stage |-> e.state, revision |-> e.revision, serial |-> e.serial]

\* A tracked chunk: entry, mesh, upload ticket and voxels.  An upload ticket for
\* the entry's revision is the active one, and what is to be uploaded has a mesh
\* of the voxels held.
Busy(e, m, u, v, k) ==
  /\ u # None => u.revision <= e.revision /\ (u.revision = e.revision => u = Carried(e, k))
  /\ e.state # "meshing"
  /\ e.state \in {"queued_upload", "uploading"} =>
       m # None /\ m.revision = e.revision /\ m.shows = v
  /\ e.state = "uploading" => u = Carried(e, k)

\* Nothing is left of the chunk on the host's side or the renderer's.
Gone(h, k) ==
  /\ h.meshes[k] = None /\ h.uploads[k] = None /\ h.shown[k] = None
  /\ \A r \in DOMAIN h.staged : k \notin DOMAIN h.staged[r].uploads

\* The host's work, while the chunks given up in this frame are still to be dropped.
Works(h, gone) ==
  \A k \in Chunk :
    IF h.entries[k] = None THEN k \in gone \/ Gone(h, k)
    ELSE Busy(h.entries[k], h.meshes[k], h.uploads[k], voxels[k], k)

Here == [entries |-> entries, meshes |-> meshes, uploads |-> uploads, cuts |-> cuts,
         shown |-> shown, staged |-> staged]

Asked == \A k \in Chunk : entries[k] # None /\ entries[k].state = "generating" =>
           \E q \in requests : q.ticket = Carried(entries[k], k)

\* Chunks being uploaded wait for a cut.
Grouped(es, q) == \A k \in Chunk : es[k] # None /\ es[k].state = "uploading" =>
                    \E i \in DOMAIN q : k \in DOMAIN q[i].required

HeldInv ==
  /\ Works(Here, {}) /\ Asked /\ Grouped(entries, cuts)
  /\ \A k \in Chunk : entries[k] = None => voxels[k] = None

LEMMA CarriedIs == ASSUME NEW es, NEW k PROVE TicketOf(k, es) = Carried(es[k], k)
BY DEF TicketOf, Carried

\* An entry that was not being uploaded moves on, or is set back, outside the
\* stages that need a mesh.
LEMMA BusyStep ==
  ASSUME NEW k \in Chunk, NEW e \in Entry, NEW m, NEW u \in UploadTicket \cup {None}, NEW v, Busy(e, m, u, v, k),
         e.state # "uploading",
         NEW b \in Entry, b.revision = e.revision,
         b.state \in {"queued_generation", "generating", "queued_meshing", "resident"},
         NEW n, NEW w
  PROVE  Busy(b, n, u, w, k)
<1>1. ASSUME u # None PROVE u.revision < e.revision
  <2>1. u.revision <= e.revision /\ (u.revision = e.revision => u.stage = e.state)
    BY <1>1 DEF Busy, Carried
  <2>2. u.stage = "uploading" /\ u.revision \in Nat /\ e.revision \in Nat
    BY <1>1 DEF UploadTicket, Ticket, Entry
  <2>. QED
    BY <2>1, <2>2
<1>2. ASSUME u # None PROVE u.revision <= b.revision /\ u.revision # b.revision
  <2>1. u.revision \in Nat /\ e.revision \in Nat
    BY <1>2 DEF UploadTicket, Ticket, Entry
  <2>. QED
    BY <1>1, <1>2, <2>1
<1>. QED
  BY <1>2 DEF Busy

\* A later revision, to be made or meshed again.
LEMMA BusyRenewed ==
  ASSUME NEW k \in Chunk, NEW e \in Entry, NEW m, NEW u \in UploadTicket \cup {None}, NEW v, Busy(e, m, u, v, k),
         NEW b \in Entry, b.revision = e.revision + 1, b.state \in {"queued_generation", "queued_meshing"},
         NEW n, NEW w
  PROVE  Busy(b, n, u, w, k)
<1>1. ASSUME u # None PROVE u.revision <= b.revision /\ u.revision # b.revision
  <2>1. u.revision <= e.revision
    BY <1>1 DEF Busy
  <2>2. u.revision \in Nat /\ e.revision \in Nat
    BY <1>1 DEF UploadTicket, Ticket, Entry
  <2>. QED
    BY <2>1, <2>2
<1>. QED
  BY <1>1 DEF Busy

\* A chunk without an upload ticket.
LEMMA BusyWithout ==
  ASSUME NEW k, NEW b, NEW n, NEW v,
         b.state \in {"queued_generation", "generating", "queued_meshing", "queued_upload", "resident"},
         b.state = "queued_upload" => n # None /\ n.revision = b.revision /\ n.shows = v
  PROVE  Busy(b, n, None, v, k)
BY DEF Busy

\* The ways an entry changes leave its revision, and it is not None.
LEMMA EntryChanges ==
  ASSUME NEW e \in Entry, NEW s \in State, NEW n \in Nat, NEW x \in BOOLEAN
  PROVE  /\ DoneEntry(e, s) \in Entry /\ DoneEntry(e, s).state = s /\ DoneEntry(e, s).revision = e.revision
         /\ SetEntry(e, s, n) \in Entry /\ SetEntry(e, s, n).state = s
         /\ SetEntry(e, s, n).revision = e.revision
         /\ WantedEntry(e, x) \in Entry /\ WantedEntry(e, x).revision = e.revision
         /\ WantedEntry(e, x).state = e.state /\ WantedEntry(e, x).serial = e.serial
         /\ RenewedEntry(e, s) \in Entry /\ RenewedEntry(e, s).state = s
         /\ RenewedEntry(e, s).revision = e.revision + 1
<1>1. DoneEntry(e, s) \in Entry /\ DoneEntry(e, s).state = s /\ DoneEntry(e, s).revision = e.revision
  <2>1. PICK y \in BOOLEAN : y = (e.ever \/ s = "resident")
    OBVIOUS
  <2>2. DoneEntry(e, s) = [e EXCEPT !.state = s, !.serial = 0, !.ever = y]
    BY <2>1 DEF DoneEntry
  <2>3. [e EXCEPT !.state = s, !.serial = 0, !.ever = y].revision = e.revision
    BY DEF Entry
  <2>. QED
    BY <2>2, <2>3, EntryDone
<1>2. SetEntry(e, s, n) \in Entry /\ SetEntry(e, s, n).state = s /\ SetEntry(e, s, n).revision = e.revision
  BY EntrySet DEF Entry, SetEntry
<1>3. /\ WantedEntry(e, x) \in Entry /\ WantedEntry(e, x).revision = e.revision
      /\ WantedEntry(e, x).state = e.state /\ WantedEntry(e, x).serial = e.serial
  BY EntryWanted DEF Entry, WantedEntry
<1>4. /\ RenewedEntry(e, s) \in Entry /\ RenewedEntry(e, s).state = s
      /\ RenewedEntry(e, s).revision = e.revision + 1
  <2>1. PICK r \in Nat : r = e.revision + 1
    BY DEF Entry
  <2>2. RenewedEntry(e, s) = [e EXCEPT !.revision = r, !.serial = 0, !.state = s]
    BY <2>1 DEF RenewedEntry
  <2>3. [e EXCEPT !.revision = r, !.serial = 0, !.state = s].revision = r
    BY DEF Entry
  <2>. QED
    BY <2>1, <2>2, <2>3, EntryRenewed
<1>. QED
  BY <1>1, <1>2, <1>3, <1>4

\* What complete and retry do to the entry of one chunk.
LEMMA CompletedIs ==
  ASSUME NEW es \in Entries, NEW ts \in SUBSET Ticket, NEW k \in Chunk
  PROVE  /\ k \notin Active(ts, es) => Completed(ts, es)[k] = es[k]
         /\ k \in Active(ts, es) =>
              LET e == es[k]  b == Completed(ts, es)[k] IN
              /\ e \in Entry /\ e # None /\ b \in Entry /\ b # None /\ b.revision = e.revision
              /\ e.state \in {"generating", "meshing", "uploading"}
              /\ e.state = "generating" => b.state = "queued_meshing"
              /\ e.state = "meshing" => b.state = "queued_upload"
              /\ e.state = "uploading" => b.state = "resident"
<1>. DEFINE b == Completed(ts, es)[k]
            e == es[k]
            next == After(e.state)
<1>1. ASSUME k \notin Active(ts, es) PROVE b = es[k]
  BY <1>1 DEF Completed
<1>2. ASSUME k \in Active(ts, es)
      PROVE  /\ e \in Entry /\ e # None /\ b \in Entry /\ b # None /\ b.revision = e.revision
             /\ e.state \in {"generating", "meshing", "uploading"}
             /\ e.state = "generating" => b.state = "queued_meshing"
             /\ e.state = "meshing" => b.state = "queued_upload"
             /\ e.state = "uploading" => b.state = "resident"
  <2>1. e # None /\ e \in Entry /\ TicketOf(k, es) \in ts /\ TicketOf(k, es).stage = e.state
    BY <1>2, ActiveIs
  <2>2. e.state \in {"generating", "meshing", "uploading"}
    BY <2>1 DEF Ticket
  <2>3. b = DoneEntry(e, next)
    BY <1>2 DEF Completed, DoneEntry
  <2>4. /\ e.state = "generating" => next = "queued_meshing"
        /\ e.state = "meshing" => next = "queued_upload"
        /\ e.state = "uploading" => next = "resident"
    <3>1. e.state = "generating" => next = "queued_meshing"
      BY DEF After
    <3>2. e.state = "meshing" => next = "queued_upload"
      BY DEF After
    <3>3. e.state = "uploading" => next = "resident"
      BY DEF After
    <3>. QED
      BY <3>1, <3>2, <3>3
  <2>5. next \in State
    <3>. HIDE DEF next
    <3>. QED
      BY <2>2, <2>4 DEF State
  <2>. HIDE DEF b, e, next
  <2>6. b \in Entry /\ b.state = next /\ b.revision = e.revision
    <3>1. 0 \in Nat /\ TRUE \in BOOLEAN
      OBVIOUS
    <3>. QED
      BY <2>1, <2>3, <2>5, <3>1, EntryChanges
  <2>7. b # None
    BY <2>6, NoneAssumption
  <2>. QED
    BY <2>1, <2>2, <2>4, <2>6, <2>7
<1>. QED
  BY <1>1, <1>2

LEMMA RetriedIs ==
  ASSUME NEW es \in Entries, NEW ts \in SUBSET Ticket, NEW k \in Chunk
  PROVE  /\ k \notin Active(ts, es) => Retried(ts, es)[k] = es[k]
         /\ k \in Active(ts, es) =>
              LET e == es[k]  b == Retried(ts, es)[k] IN
              /\ e \in Entry /\ e # None /\ b \in Entry /\ b # None /\ b.revision = e.revision
              /\ e.state \in {"generating", "meshing", "uploading"}
              /\ e.state = "generating" => b.state = "queued_generation"
              /\ e.state = "meshing" => b.state = "queued_meshing"
              /\ e.state = "uploading" => b.state = "queued_upload"
<1>. DEFINE b == Retried(ts, es)[k]
            e == es[k]
            prior == Before(e.state)
<1>1. ASSUME k \notin Active(ts, es) PROVE b = es[k]
  BY <1>1 DEF Retried
<1>2. ASSUME k \in Active(ts, es)
      PROVE  /\ e \in Entry /\ e # None /\ b \in Entry /\ b # None /\ b.revision = e.revision
             /\ e.state \in {"generating", "meshing", "uploading"}
             /\ e.state = "generating" => b.state = "queued_generation"
             /\ e.state = "meshing" => b.state = "queued_meshing"
             /\ e.state = "uploading" => b.state = "queued_upload"
  <2>1. e # None /\ e \in Entry /\ TicketOf(k, es) \in ts /\ TicketOf(k, es).stage = e.state
    BY <1>2, ActiveIs
  <2>2. e.state \in {"generating", "meshing", "uploading"}
    BY <2>1 DEF Ticket
  <2>3. b = SetEntry(e, prior, 0)
    BY <1>2 DEF Retried, SetEntry
  <2>4. /\ e.state = "generating" => prior = "queued_generation"
        /\ e.state = "meshing" => prior = "queued_meshing"
        /\ e.state = "uploading" => prior = "queued_upload"
    <3>1. e.state = "generating" => prior = "queued_generation"
      BY DEF Before
    <3>2. e.state = "meshing" => prior = "queued_meshing"
      BY DEF Before
    <3>3. e.state = "uploading" => prior = "queued_upload"
      BY DEF Before
    <3>. QED
      BY <3>1, <3>2, <3>3
  <2>5. prior \in State
    <3>. HIDE DEF prior
    <3>. QED
      BY <2>2, <2>4 DEF State
  <2>. HIDE DEF b, e, prior
  <2>6. b \in Entry /\ b.state = prior /\ b.revision = e.revision
    <3>1. 0 \in Nat /\ TRUE \in BOOLEAN
      OBVIOUS
    <3>. QED
      BY <2>1, <2>3, <2>5, <3>1, EntryChanges
  <2>7. b # None
    BY <2>6, NoneAssumption
  <2>. QED
    BY <2>1, <2>2, <2>4, <2>6, <2>7
<1>. QED
  BY <1>1, <1>2

-----------------------------------------------------------------------------
(* What the publication steps of a frame do to the work of one chunk.      *)

Hosts(h, gone) == Host(h) /\ Own(h.uploads) /\ IsStaged(h.staged) /\ Works(h, gone)

\* No chunk is given up or taken on, and no generation is begun.
Remains(g, h) ==
  \A k \in Chunk : /\ g.entries[k] = None <=> h.entries[k] = None
                   /\ g.entries[k] # None /\ g.entries[k].state = "generating" => g.entries[k] = h.entries[k]

LEMMA RemainsTrans == ASSUME NEW h, NEW g, NEW j, Remains(g, h), Remains(j, g) PROVE Remains(j, h)
<1>. SUFFICES ASSUME NEW k \in Chunk
              PROVE  /\ j.entries[k] = None <=> h.entries[k] = None
                     /\ j.entries[k] # None /\ j.entries[k].state = "generating" => j.entries[k] = h.entries[k]
  BY DEF Remains
<1>1. /\ g.entries[k] = None <=> h.entries[k] = None
      /\ g.entries[k] # None /\ g.entries[k].state = "generating" => g.entries[k] = h.entries[k]
      /\ j.entries[k] = None <=> g.entries[k] = None
      /\ j.entries[k] # None /\ j.entries[k].state = "generating" => j.entries[k] = g.entries[k]
  BY DEF Remains
<1>. QED
  BY <1>1

LEMMA RemainsSame == ASSUME NEW h, NEW g, g.entries = h.entries PROVE Remains(g, h)
BY DEF Remains

\* A ticket of the chunks is active if it is the one its entry carries.
LEMMA ActiveUploads ==
  ASSUME NEW h, Host(h), Own(h.uploads), NEW ks \in SUBSET Chunk, NEW k \in Chunk
  PROVE  k \in Active(TicketsOf(h, ks), h.entries) <=>
           /\ k \in ks /\ h.entries[k] # None /\ h.uploads[k] # None
           /\ h.uploads[k] = Carried(h.entries[k], k)
<1>1. ASSUME k \in Active(TicketsOf(h, ks), h.entries)
      PROVE  /\ k \in ks /\ h.entries[k] # None /\ h.uploads[k] # None
             /\ h.uploads[k] = Carried(h.entries[k], k)
  <2>1. PICK t \in TicketsOf(h, ks) : IsActive(t, h.entries) /\ t.chunk = k
    BY <1>1 DEF Active
  <2>2. PICK j \in ks : h.uploads[j] # None /\ t = h.uploads[j]
    BY <2>1 DEF TicketsOf
  <2>3. j = k
    BY <2>1, <2>2 DEF Own
  <2>. QED
    BY <2>1, <2>2, <2>3, CarriedIs DEF IsActive
<1>2. ASSUME k \in ks, h.entries[k] # None, h.uploads[k] # None, h.uploads[k] = Carried(h.entries[k], k)
      PROVE  k \in Active(TicketsOf(h, ks), h.entries)
  <2>. DEFINE t == h.uploads[k]
  <2>1. t \in TicketsOf(h, ks)
    BY <1>2 DEF TicketsOf
  <2>2. t.chunk = k
    BY <1>2 DEF Own
  <2>3. IsActive(t, h.entries)
    BY <1>2, <2>2, CarriedIs DEF IsActive
  <2>. QED
    BY <2>1, <2>2, <2>3 DEF Active
<1>. QED
  BY <1>1, <1>2

Carries(h, k) ==
  h.entries[k] # None /\ h.uploads[k] # None /\ h.uploads[k] = Carried(h.entries[k], k)

\* The upload of ks was tried.
Tried(g, h, ks, failed) ==
  /\ Host(g) /\ Own(g.uploads) /\ g.cuts = h.cuts /\ g.staged = h.staged /\ g.shown = h.shown
  /\ \A k \in Chunk : k \notin ks =>
       g.entries[k] = h.entries[k] /\ g.uploads[k] = h.uploads[k] /\ g.meshes[k] = h.meshes[k]
  /\ \A k \in ks :
       /\ g.uploads[k] = None
       /\ g.meshes[k] = IF failed THEN h.meshes[k] ELSE None
       /\ Carries(h, k) => /\ g.entries[k] \in Entry /\ g.entries[k] # None
                           /\ g.entries[k].revision = h.entries[k].revision
                           /\ g.entries[k].state = IF failed THEN "queued_upload" ELSE "resident"
       /\ ~Carries(h, k) => g.entries[k] = h.entries[k]

LEMMA UploadTried ==
  ASSUME NEW h, Host(h), Own(h.uploads), NEW ks \in SUBSET Chunk, NEW failed \in BOOLEAN,
         requests \subseteq RequestType
  PROVE  Tried(AfterUpload(h, ks, failed), h, ks, failed)
<1>. DEFINE g == AfterUpload(h, ks, failed)
            ts == TicketsOf(h, ks)
            es == h.entries
            u == Cleared(h.uploads, ks)
            m == Cleared(h.meshes, ks)
<1>0. /\ es \in Entries /\ h.uploads \in Uploads
      /\ DOMAIN h = {"entries", "meshes", "uploads", "cuts", "shown", "staged"}
  BY DEF Host, Fields
<1>1. ts \in SUBSET Ticket
  BY TicketsAreUploads DEF UploadTicket
<1>2. \A k \in Chunk : k \in Active(ts, es) <=> k \in ks /\ Carries(h, k)
  BY ActiveUploads DEF Carries
<1>3. Host(g)
  BY AfterUploadLeads DEF Leads
<1>4. /\ \A k \in Chunk : k \notin ks => u[k] = h.uploads[k] /\ m[k] = h.meshes[k]
      /\ \A k \in ks : u[k] = None /\ m[k] = None
      /\ Own(u)
  BY OwnCleared DEF Cleared
<1>5. \A k \in Chunk : Carries(h, k) => es[k].state = "uploading"
  BY <1>0 DEF Uploads, UploadTicket, Carried, Carries
<1>. HIDE DEF es
<1>6. CASE failed
  <2>. DEFINE b == Retried(ts, es)
  <2>. HIDE DEF ts, u, m, b
  <2>1. /\ g.entries = b /\ g.uploads = u /\ g.meshes = h.meshes
        /\ g.cuts = h.cuts /\ g.staged = h.staged /\ g.shown = h.shown
    BY <1>0, <1>6 DEF AfterUpload, ts, u, b, es
  <2>. HIDE DEF g
  <2>2. ASSUME NEW k \in Chunk, ~(k \in ks /\ Carries(h, k)) PROVE b[k] = es[k]
    BY <1>0, <1>1, <1>2, <2>2, RetriedIs DEF b
  <2>3. ASSUME NEW k \in ks, Carries(h, k)
        PROVE  b[k] \in Entry /\ b[k] # None /\ b[k].revision = es[k].revision /\ b[k].state = "queued_upload"
    <3>1. k \in Active(ts, es) /\ k \in Chunk
      BY <1>2, <2>3
    <3>. QED
      BY <1>0, <1>1, <1>5, <2>3, <3>1, RetriedIs DEF b
  <2>4. \A k \in Chunk : k \notin ks =>
          g.entries[k] = h.entries[k] /\ g.uploads[k] = h.uploads[k] /\ g.meshes[k] = h.meshes[k]
    BY <1>4, <2>1, <2>2 DEF es
  <2>5. ASSUME NEW k \in ks
        PROVE  /\ g.uploads[k] = None /\ g.meshes[k] = h.meshes[k]
               /\ Carries(h, k) => /\ g.entries[k] \in Entry /\ g.entries[k] # None
                                /\ g.entries[k].revision = es[k].revision /\ g.entries[k].state = "queued_upload"
               /\ ~Carries(h, k) => g.entries[k] = es[k]
    BY <1>4, <2>1, <2>2, <2>3
  <2>. QED
    BY <1>3, <1>4, <1>6, <2>1, <2>4, <2>5 DEF g, es, Tried
<1>7. CASE ~failed
  <2>. DEFINE b == Completed(ts, es)
  <2>. HIDE DEF ts, u, m, b
  <2>1. /\ g.entries = b /\ g.uploads = u /\ g.meshes = m
        /\ g.cuts = h.cuts /\ g.staged = h.staged /\ g.shown = h.shown
    BY <1>0, <1>7 DEF AfterUpload, ts, u, m, b, es
  <2>. HIDE DEF g
  <2>2. ASSUME NEW k \in Chunk, ~(k \in ks /\ Carries(h, k)) PROVE b[k] = es[k]
    BY <1>0, <1>1, <1>2, <2>2, CompletedIs DEF b
  <2>3. ASSUME NEW k \in ks, Carries(h, k)
        PROVE  b[k] \in Entry /\ b[k] # None /\ b[k].revision = es[k].revision /\ b[k].state = "resident"
    <3>1. k \in Active(ts, es) /\ k \in Chunk
      BY <1>2, <2>3
    <3>. QED
      BY <1>0, <1>1, <1>5, <2>3, <3>1, CompletedIs DEF b
  <2>4. \A k \in Chunk : k \notin ks =>
          g.entries[k] = h.entries[k] /\ g.uploads[k] = h.uploads[k] /\ g.meshes[k] = h.meshes[k]
    BY <1>4, <2>1, <2>2 DEF es
  <2>5. ASSUME NEW k \in ks
        PROVE  /\ g.uploads[k] = None /\ g.meshes[k] = None
               /\ Carries(h, k) => /\ g.entries[k] \in Entry /\ g.entries[k] # None
                                /\ g.entries[k].revision = es[k].revision /\ g.entries[k].state = "resident"
               /\ ~Carries(h, k) => g.entries[k] = es[k]
    BY <1>4, <2>1, <2>2, <2>3
  <2>. QED
    BY <1>3, <1>4, <1>7, <2>1, <2>4, <2>5 DEF g, es, Tried
<1>. QED
  BY <1>6, <1>7

\* Chunks whose upload is tried keep what they need, or are in use.
LEMMA UploadWorks ==
  ASSUME NEW h, NEW gone, Hosts(h, gone), NEW ks \in SUBSET Chunk, NEW failed \in BOOLEAN,
         requests \subseteq RequestType,
         ~failed => \A k \in ks : /\ h.entries[k] # None /\ h.uploads[k] # None
                                  /\ h.uploads[k].revision = h.entries[k].revision
  PROVE  Hosts(AfterUpload(h, ks, failed), gone) /\ Remains(AfterUpload(h, ks, failed), h)
<1>. DEFINE g == AfterUpload(h, ks, failed)
<1>0. Host(h) /\ Own(h.uploads) /\ IsStaged(h.staged) /\ Works(h, gone) /\ h.entries \in Entries
  BY DEF Hosts, Host
<1>. HIDE DEF g
<1>1. Tried(g, h, ks, failed)
  BY <1>0, UploadTried DEF g
<1>2. \A k \in Chunk : h.entries[k] # None =>
        /\ h.entries[k] \in Entry
        /\ Busy(h.entries[k], h.meshes[k], h.uploads[k], voxels[k], k)
  BY <1>0 DEF Works, Entries
<1>3. ASSUME NEW k \in Chunk
      PROVE  /\ g.entries[k] = None <=> h.entries[k] = None
             /\ g.entries[k] # None /\ g.entries[k].state = "generating" => g.entries[k] = h.entries[k]
  BY <1>1 DEF Tried, Carries
<1>4. ASSUME NEW k \in Chunk, g.entries[k] = None PROVE k \in gone \/ Gone(g, k)
  <2>1. k \in gone \/ Gone(h, k)
    BY <1>0, <1>3, <1>4 DEF Works
  <2>2. Gone(h, k) => Gone(g, k)
    BY <1>1 DEF Gone, Tried
  <2>. QED
    BY <2>1, <2>2
<1>5. ASSUME NEW k \in Chunk, g.entries[k] # None
      PROVE  Busy(g.entries[k], g.meshes[k], g.uploads[k], voxels[k], k)
  <2>1. h.entries[k] \in Entry /\ Busy(h.entries[k], h.meshes[k], h.uploads[k], voxels[k], k)
    BY <1>2, <1>3, <1>5
  <2>2. CASE k \notin ks
    BY <1>1, <2>1, <2>2 DEF Tried
  <2>3. CASE k \in ks /\ Carries(h, k)
    <3>1. h.entries[k].state = "uploading"
      BY <1>0, <2>3 DEF Carries, Host, Uploads, UploadTicket, Carried
    <3>2. h.meshes[k] # None /\ h.meshes[k].revision = h.entries[k].revision /\ h.meshes[k].shows = voxels[k]
      BY <2>1, <3>1 DEF Busy
    <3>3. /\ g.uploads[k] = None /\ g.entries[k].revision = h.entries[k].revision
          /\ g.entries[k].state = IF failed THEN "queued_upload" ELSE "resident"
          /\ g.meshes[k] = IF failed THEN h.meshes[k] ELSE None
      BY <1>1, <2>3 DEF Tried
    <3>4. /\ g.entries[k].state \in {"queued_generation", "generating", "queued_meshing", "queued_upload", "resident"}
          /\ g.entries[k].state = "queued_upload" =>
               g.meshes[k] # None /\ g.meshes[k].revision = g.entries[k].revision /\ g.meshes[k].shows = voxels[k]
      BY <3>2, <3>3
    <3>. QED
      BY <3>3, <3>4, BusyWithout
  <2>4. CASE k \in ks /\ ~Carries(h, k)
    <3>1. failed
      BY <2>1, <2>4 DEF Carries, Busy
    <3>2. g.uploads[k] = None /\ g.entries[k] = h.entries[k] /\ g.meshes[k] = h.meshes[k]
      BY <1>1, <2>4, <3>1 DEF Tried
    <3>3. h.entries[k].state # "uploading"
      <4>1. SUFFICES ASSUME h.entries[k].state = "uploading" PROVE FALSE
        OBVIOUS
      <4>2. h.uploads[k] = Carried(h.entries[k], k)
        BY <2>1, <4>1 DEF Busy
      <4>3. Carried(h.entries[k], k) \in Ticket
        BY <2>1, <4>1 DEF Carried, Ticket, Entry
      <4>4. h.uploads[k] # None
        BY <4>2, <4>3, NoneAssumption
      <4>. QED
        BY <1>3, <1>5, <2>4, <4>2, <4>4 DEF Carries
    <3>4. /\ h.entries[k].state \in {"queued_generation", "generating", "queued_meshing", "queued_upload", "resident"}
          /\ h.entries[k].state = "queued_upload" =>
               h.meshes[k] # None /\ h.meshes[k].revision = h.entries[k].revision /\ h.meshes[k].shows = voxels[k]
      <4>1. h.entries[k].state \in State
        BY <2>1 DEF Entry
      <4>. QED
        BY <2>1, <3>3, <4>1 DEF Busy, State
    <3>. QED
      BY <3>2, <3>4, BusyWithout
  <2>. QED
    BY <2>2, <2>3, <2>4
<1>6. Works(g, gone)
  BY <1>4, <1>5 DEF Works
<1>7. Hosts(g, gone) /\ Remains(g, h)
  BY <1>0, <1>1, <1>3, <1>6 DEF Hosts, Remains, Tried
<1>. QED
  BY <1>7 DEF g

\* Work goes on if only what is shown or staged of tracked chunks changes.
LEMMA WorksOn ==
  ASSUME NEW h, NEW gone, Hosts(h, gone), NEW g, Host(g), Own(g.uploads), IsStaged(g.staged),
         g.entries = h.entries,
         \A k \in Chunk : h.entries[k] # None => g.uploads[k] = h.uploads[k] /\ g.meshes[k] = h.meshes[k],
         \A k \in Chunk : h.entries[k] = None /\ k \notin gone /\ Gone(h, k) => Gone(g, k)
  PROVE  Hosts(g, gone) /\ Remains(g, h)
<1>1. Works(h, gone)
  BY DEF Hosts
<1>2. Works(g, gone)
  BY <1>1 DEF Works
<1>. QED
  BY <1>2, RemainsSame DEF Hosts

\* What stripping leaves of a change's uploads.
LEMMA StrippedLess ==
  ASSUME NEW c, IsChange(c), NEW ks
  PROVE  DOMAIN Stripped(c, ks).uploads = DOMAIN c.uploads \ ks
<1>. DEFINE left == Only(c.uploads, DOMAIN c.uploads \ ks)
<1>1. c = [ready |-> c.ready, uploads |-> c.uploads]
  BY DEF IsChange
<1>2. Stripped(c, ks) = [c EXCEPT !.uploads = left]
  BY DEF Stripped
<1>3. DOMAIN left = DOMAIN c.uploads \ ks
  BY DEF Only
<1>. HIDE DEF left
<1>4. Stripped(c, ks).uploads = left
  BY <1>1, <1>2
<1>. QED
  BY <1>3, <1>4

\* Staging touches the chunks of the cut only.
LEMMA StagedTouches ==
  ASSUME NEW h, Host(h), IsStaged(h.staged), NEW server, NEW ks \in SUBSET Chunk, NEW fails \in BOOLEAN,
         NEW k \in Chunk, k \notin ks, Gone(h, k), NEW g, g = Staged(h, server, ks, fails),
         Host(g), g.uploads = h.uploads
  PROVE  Gone(g, k)
<1>. DEFINE kept == {j \in ks : ~HasNewerUpload(j, server, h.staged)}
            carried == [j \in kept |-> h.meshes[j].shows]
            prepared == [ready |-> TRUE, uploads |-> carried]
            y == Superseding(server, kept, h.staged)
            x == [y EXCEPT ![server] = IF fails THEN Unprepared ELSE prepared]
<1>1. DOMAIN h = {"entries", "meshes", "uploads", "cuts", "shown", "staged"}
  BY DEF Host, Fields
<1>2. CASE server \in DOMAIN h.staged
  <2>1. g = [h EXCEPT !.staged = x]
    BY <1>2 DEF Staged
  <2>2. ASSUME NEW r \in DOMAIN h.staged PROVE k \notin DOMAIN y[r].uploads
    <3>1. IsChange(h.staged[r]) /\ k \notin DOMAIN h.staged[r].uploads
      BY DEF IsStaged, Gone
    <3>2. y[r] = IF r < server THEN Stripped(h.staged[r], kept) ELSE h.staged[r]
      BY DEF Superseding
    <3>. HIDE DEF y, kept
    <3>. QED
      BY <3>1, <3>2, StrippedLess
  <2>3. k \notin DOMAIN prepared.uploads /\ k \notin DOMAIN Unprepared.uploads
    <3>1. prepared.uploads = carried
      OBVIOUS
    <3>2. DOMAIN carried = kept /\ k \notin kept
      OBVIOUS
    <3>3. Unprepared.uploads = <<>> /\ DOMAIN <<>> = {}
      BY DEF Unprepared
    <3>. HIDE DEF prepared, carried, kept
    <3>. QED
      BY <3>1, <3>2, <3>3
  <2>4. DOMAIN y = DOMAIN h.staged /\ y = [r \in DOMAIN y |-> y[r]]
    BY DEF Superseding
  <2>. HIDE DEF y, prepared
  <2>5. ASSUME NEW r \in DOMAIN x PROVE k \notin DOMAIN x[r].uploads
    <3>1. r \in DOMAIN h.staged
      BY <2>4
    <3>2. x[r] = IF r = server THEN (IF fails THEN Unprepared ELSE prepared) ELSE y[r]
      BY <2>4, <3>1
    <3>. QED
      BY <2>2, <2>3, <3>1, <3>2
  <2>. HIDE DEF x
  <2>6. g.staged = x /\ g.shown = h.shown /\ g.meshes = h.meshes
    BY <1>1, <2>1
  <2>. QED
    BY <2>5, <2>6 DEF Gone
<1>3. CASE server \notin DOMAIN h.staged
  <2>. DEFINE s == IF fails THEN h.shown ELSE Showing(h, ks)
  <2>1. g = [h EXCEPT !.shown = s]
    BY <1>3 DEF Staged
  <2>2. s[k] = h.shown[k]
    BY DEF Showing
  <2>. HIDE DEF s
  <2>3. g.staged = h.staged /\ g.shown = s /\ g.meshes = h.meshes
    BY <1>1, <2>1
  <2>. QED
    BY <2>2, <2>3 DEF Gone
<1>. QED
  BY <1>2, <1>3

LEMMA StagedMeshes ==
  ASSUME NEW h, Host(h), NEW server, NEW ks, NEW fails
  PROVE  Staged(h, server, ks, fails).meshes = h.meshes
<1>. DEFINE y == Superseding(server, {k \in ks : ~HasNewerUpload(k, server, h.staged)}, h.staged)
            p == [ready |-> TRUE, uploads |->
                   [k \in {k \in ks : ~HasNewerUpload(k, server, h.staged)} |-> h.meshes[k].shows]]
            x == [y EXCEPT ![server] = IF fails THEN Unprepared ELSE p]
            s == IF fails THEN h.shown ELSE Showing(h, ks)
            g == Staged(h, server, ks, fails)
<1>1. DOMAIN h = {"entries", "meshes", "uploads", "cuts", "shown", "staged"}
  BY DEF Host, Fields
<1>2. g = [h EXCEPT !.staged = x] \/ g = [h EXCEPT !.shown = s]
  BY DEF Staged
<1>. HIDE DEF x, s, g
<1>3. g.meshes = h.meshes
  BY <1>1, <1>2
<1>. QED
  BY <1>3 DEF g

LEMMA StagedWorks ==
  ASSUME NEW h, NEW gone, Hosts(h, gone), NEW server, NEW ks \in SUBSET Chunk, NEW fails \in BOOLEAN,
         \A k \in ks : h.entries[k] # None
  PROVE  /\ Hosts(Staged(h, server, ks, fails), gone)
         /\ Remains(Staged(h, server, ks, fails), h)
         /\ Staged(h, server, ks, fails).entries = h.entries
         /\ Staged(h, server, ks, fails).uploads = h.uploads
<1>. DEFINE g == Staged(h, server, ks, fails)
<1>0. Host(h) /\ Own(h.uploads) /\ IsStaged(h.staged)
  BY DEF Hosts
<1>1. /\ Host(g) /\ g.entries = h.entries /\ g.uploads = h.uploads /\ IsStaged(g.staged)
      /\ g.meshes = h.meshes
  BY <1>0, StagedChanges, StagedMeshes
<1>2. ASSUME NEW k \in Chunk, h.entries[k] = None, Gone(h, k) PROVE Gone(g, k)
  BY <1>0, <1>1, <1>2, StagedTouches
<1>. HIDE DEF g
<1>3. Hosts(g, gone) /\ Remains(g, h)
  BY <1>0, <1>1, <1>2, WorksOn
<1>. QED
  BY <1>1, <1>3 DEF g

LEMMA PublishedWorks ==
  ASSUME NEW h, NEW gone, Hosts(h, gone), NEW cut \in CutType, NEW failing, requests \subseteq RequestType
  PROVE  Hosts(Published(h, cut, failing), gone) /\ Remains(Published(h, cut, failing), h)
<1>. DEFINE current == Only(cut.required,
              {k \in Chunk : h.entries[k] # None /\ k \in DOMAIN cut.required
                           /\ h.entries[k].revision = cut.required[k]})
            ks == DOMAIN current
            fails == ks \cap failing # {}
            without == Without(h.cuts, {cut.server})
            trimmed == [i \in DOMAIN h.cuts |->
              IF h.cuts[i].server = cut.server THEN [cut EXCEPT !.required = current] ELSE h.cuts[i]]
            rest == Only(h.staged, DOMAIN h.staged \ {cut.server})
            begun == Staged(h, cut.server, ks, fails)
            tried == AfterUpload(begun, ks, fails)
            left == IF fails THEN trimmed ELSE without
            g == Published(h, cut, failing)
<1>0. /\ Host(h) /\ Own(h.uploads) /\ IsStaged(h.staged)
      /\ DOMAIN h = {"entries", "meshes", "uploads", "cuts", "shown", "staged"}
  BY DEF Hosts, Host, Fields
<1>1. Host(g)
  BY <1>0, PublishedLeads DEF Leads
<1>2. \/ g = [h EXCEPT !.cuts = without, !.staged = rest]
      \/ g = [h EXCEPT !.cuts = trimmed]
      \/ IsReady(h, current) /\ g = [tried EXCEPT !.cuts = left]
  BY DEF Published
<1>3. /\ ks \in SUBSET Chunk /\ fails \in BOOLEAN
      /\ \A k \in ks : h.entries[k] # None /\ h.entries[k].revision = current[k]
  BY DEF Only
<1>4. IsStaged(rest) /\ \A r \in DOMAIN rest : r \in DOMAIN h.staged /\ rest[r] = h.staged[r]
  <2>1. DOMAIN rest \subseteq DOMAIN h.staged /\ rest = [r \in DOMAIN rest |-> rest[r]]
    BY DEF Only
  <2>2. \A r \in DOMAIN rest : rest[r] = h.staged[r]
    BY DEF Only
  <2>. HIDE DEF rest
  <2>. QED
    BY <1>0, <2>1, <2>2 DEF IsStaged
<1>5. ASSUME IsReady(h, current)
      PROVE  \A k \in ks : h.uploads[k] # None /\ h.uploads[k].revision = h.entries[k].revision
  <2>1. \A k \in ks : Has(h, k, current[k])
    BY <1>5 DEF IsReady
  <2>. HIDE DEF current
  <2>. QED
    BY <1>3, <2>1 DEF Has
<1>. HIDE DEF current, fails, without, trimmed, rest, left, g
<1>6. CASE g = [h EXCEPT !.cuts = without, !.staged = rest]
  <2>1. /\ g.entries = h.entries /\ g.uploads = h.uploads /\ g.meshes = h.meshes
        /\ g.shown = h.shown /\ g.staged = rest
    BY <1>0, <1>6
  <2>2. \A k \in Chunk : Gone(h, k) => Gone(g, k)
    BY <1>4, <2>1 DEF Gone
  <2>. QED
    BY <1>0, <1>1, <1>4, <2>1, <2>2, WorksOn DEF g
<1>7. CASE g = [h EXCEPT !.cuts = trimmed]
  <2>1. /\ g.entries = h.entries /\ g.uploads = h.uploads /\ g.meshes = h.meshes
        /\ g.shown = h.shown /\ g.staged = h.staged
    BY <1>0, <1>7
  <2>2. \A k \in Chunk : Gone(h, k) => Gone(g, k)
    BY <2>1 DEF Gone
  <2>. QED
    BY <1>0, <1>1, <2>1, <2>2, WorksOn DEF g
<1>8. CASE IsReady(h, current) /\ g = [tried EXCEPT !.cuts = left]
  <2>1. Hosts(begun, gone) /\ Remains(begun, h) /\ begun.entries = h.entries /\ begun.uploads = h.uploads
    BY <1>3, StagedWorks
  <2>. HIDE DEF begun
  <2>2. Hosts(tried, gone) /\ Remains(tried, begun)
    <3>1. \A k \in ks : /\ begun.entries[k] # None /\ begun.uploads[k] # None
                        /\ begun.uploads[k].revision = begun.entries[k].revision
      BY <1>3, <1>5, <1>8, <2>1
    <3>. QED
      BY <1>3, <2>1, <3>1, UploadWorks
  <2>. HIDE DEF tried
  <2>3. DOMAIN tried = {"entries", "meshes", "uploads", "cuts", "shown", "staged"}
    BY <2>2 DEF Hosts, Host, Fields
  <2>4. /\ g.entries = tried.entries /\ g.uploads = tried.uploads /\ g.meshes = tried.meshes
        /\ g.shown = tried.shown /\ g.staged = tried.staged
    BY <1>8, <2>3
  <2>5. \A k \in Chunk : Gone(tried, k) => Gone(g, k)
    BY <2>4 DEF Gone
  <2>6. Own(g.uploads) /\ IsStaged(g.staged)
    BY <2>2, <2>4 DEF Hosts
  <2>7. Hosts(g, gone) /\ Remains(g, tried)
    BY <1>1, <2>2, <2>4, <2>5, <2>6, WorksOn
  <2>. QED
    BY <2>1, <2>2, <2>7, RemainsTrans DEF g
<1>. QED
  BY <1>2, <1>6, <1>7, <1>8

LEMMA PublishedAllWorks ==
  ASSUME cuts \in Seq(CutType), requests \subseteq RequestType, NEW h, NEW gone, Hosts(h, gone), NEW failing
  PROVE  Hosts(PublishedAll(h, failing), gone) /\ Remains(PublishedAll(h, failing), h)
<1>1. Len(cuts) \in Nat /\ \A n \in 1..Len(cuts) : cuts[n] \in CutType
  OBVIOUS
<1>2. PICK g : /\ g[0] = h
               /\ \A n \in 1..Len(cuts) : g[n] = Published(g[n - 1], cuts[n], failing)
               /\ PublishedAll(h, failing) = g[Len(cuts)]
  BY <1>1, VisitedExists
<1>. DEFINE Good == {n \in Nat : n <= Len(cuts) => Hosts(g[n], gone) /\ Remains(g[n], h)}
<1>3. 0 \in Good
  BY <1>2, RemainsSame
<1>4. ASSUME NEW n \in Good PROVE n + 1 \in Good
  <2>1. SUFFICES ASSUME n + 1 <= Len(cuts) PROVE Hosts(g[n + 1], gone) /\ Remains(g[n + 1], h)
    OBVIOUS
  <2>2. n \in Nat /\ n + 1 \in 1..Len(cuts) /\ (n + 1) - 1 = n
    BY <1>1, <1>4, <2>1
  <2>3. Hosts(g[n], gone) /\ Remains(g[n], h)
    BY <1>1, <1>4, <2>1, <2>2
  <2>4. g[n + 1] = Published(g[n], cuts[n + 1], failing)
    BY <1>2, <2>2
  <2>. DEFINE cut == cuts[n + 1]
  <2>5. cut \in CutType
    BY <1>1, <2>2
  <2>. HIDE DEF cut
  <2>6. Hosts(Published(g[n], cut, failing), gone) /\ Remains(Published(g[n], cut, failing), g[n])
    BY <2>3, <2>5, PublishedWorks
  <2>. QED
    BY <2>3, <2>4, <2>6, RemainsTrans DEF cut
<1>5. Good = Nat
  <2>. HIDE DEF Good
  <2>1. Good \in SUBSET Nat
    BY DEF Good
  <2>. QED
    BY <1>3, <1>4, <2>1, SetInduction
<1>6. Len(cuts) \in Good /\ Len(cuts) <= Len(cuts)
  <2>. HIDE DEF Good
  <2>. QED
    BY <1>1, <1>5
<1>7. Hosts(g[Len(cuts)], gone) /\ Remains(g[Len(cuts)], h)
  BY <1>6
<1>. QED
  BY <1>2, <1>7

\* After the single uploads, only chunks of a cut are still being uploaded.
LEMMA UploadedAloneWorks ==
  ASSUME NEW h, NEW gone, Hosts(h, gone), NEW failing, requests \subseteq RequestType
  PROVE  /\ Hosts(UploadedAlone(h, failing), gone) /\ Remains(UploadedAlone(h, failing), h)
         /\ Grouped(UploadedAlone(h, failing).entries, UploadedAlone(h, failing).cuts)
<1>. DEFINE own == Individual(h)
            current == {k \in own : h.entries[k] # None
                          /\ h.entries[k].state = "uploading" /\ h.entries[k].revision = h.uploads[k].revision}
            fit == {k \in current : Has(h, k, h.uploads[k].revision)}
            done == fit \ failing
            tries == current \ done
            back == AfterUpload(h, tries, TRUE)
            u == Cleared(back.uploads, own \ done)
            s == Showing(h, done)
            mid == [back EXCEPT !.uploads = u, !.shown = s]
            g == AfterUpload(mid, done, FALSE)
<1>0. /\ Host(h) /\ Own(h.uploads) /\ IsStaged(h.staged) /\ Works(h, gone) /\ h.entries \in Entries
      /\ TRUE \in BOOLEAN /\ FALSE \in BOOLEAN
  BY DEF Hosts, Host
<1>1. UploadedAlone(h, failing) = g
  BY DEF UploadedAlone
<1>2. /\ own \in SUBSET Chunk /\ current \subseteq own /\ done \subseteq current
      /\ \A k \in Chunk : k \in current <=>
           /\ k \in own /\ h.entries[k] # None
           /\ h.entries[k].state = "uploading" /\ h.entries[k].revision = h.uploads[k].revision
      /\ \A k \in own : h.uploads[k] # None
      /\ \A k \in Chunk : k \notin own /\ h.uploads[k] # None =>
           \E i \in DOMAIN h.cuts : k \in DOMAIN h.cuts[i].required
  BY DEF Individual
<1>3. tries \in SUBSET Chunk /\ done \in SUBSET Chunk /\ \A k \in Chunk : k \in tries <=> k \in current /\ k \notin done
  BY <1>2
<1>. HIDE DEF own, current, fit, done, tries
\* A chunk being uploaded has its ticket, and is current if it is in no cut.
<1>4. ASSUME NEW k \in Chunk, h.entries[k] # None, h.entries[k].state = "uploading"
      PROVE  Carries(h, k) /\ (k \in own => k \in current)
  <2>1. h.entries[k] \in Entry /\ h.uploads[k] = Carried(h.entries[k], k)
    BY <1>0, <1>4 DEF Works, Busy, Entries
  <2>2. Carried(h.entries[k], k) \in Ticket /\ Carried(h.entries[k], k).revision = h.entries[k].revision
    BY <1>4, <2>1 DEF Carried, Ticket, Entry
  <2>3. h.uploads[k] # None
    BY <2>1, <2>2, NoneAssumption
  <2>. QED
    BY <1>2, <1>4, <2>1, <2>2, <2>3 DEF Carries
<1>5. Hosts(back, gone) /\ Remains(back, h) /\ Tried(back, h, tries, TRUE)
  <2>. DEFINE x == TRUE
  <2>1. x \in BOOLEAN /\ x
    OBVIOUS
  <2>. HIDE DEF x
  <2>2. Hosts(AfterUpload(h, tries, x), gone) /\ Remains(AfterUpload(h, tries, x), h)
    BY <1>3, <2>1, UploadWorks
  <2>3. Tried(AfterUpload(h, tries, x), h, tries, x)
    BY <1>0, <1>3, <2>1, UploadTried
  <2>. QED
    BY <2>2, <2>3 DEF x
<1>. HIDE DEF back
<1>6. /\ Host(mid) /\ Own(mid.uploads) /\ mid.entries = back.entries /\ mid.meshes = back.meshes
      /\ mid.cuts = h.cuts /\ mid.staged = back.staged /\ mid.uploads = u /\ mid.shown = s
  <2>1. DOMAIN back = {"entries", "meshes", "uploads", "cuts", "shown", "staged"}
    BY <1>5 DEF Hosts, Host, Fields
  <2>2. u \in Uploads /\ Own(u)
    BY <1>5, ClearedUploads, OwnCleared DEF Hosts, Host
  <2>. HIDE DEF u, s
  <2>3. /\ DOMAIN mid = Fields /\ mid.entries = back.entries /\ mid.uploads = u /\ mid.meshes = back.meshes
        /\ mid.cuts = back.cuts /\ mid.staged = back.staged /\ mid.shown = s
    BY <2>1 DEF Fields
  <2>4. back.cuts = h.cuts
    BY <1>5 DEF Tried
  <2>. HIDE DEF mid
  <2>. QED
    BY <1>5, <2>2, <2>3, <2>4 DEF Hosts, Host
<1>7. \A k \in Chunk : u[k] = IF k \in own /\ k \notin done THEN None ELSE back.uploads[k]
  BY DEF Cleared
<1>8. \A k \in Chunk : k \notin done => s[k] = h.shown[k]
  BY DEF Showing
<1>. HIDE DEF mid, u, s
\* What was tried is back in the queue, and the others do not need their tickets.
<1>9. ASSUME NEW k \in Chunk, back.entries[k] # None
      PROVE  Busy(back.entries[k], back.meshes[k], u[k], voxels[k], k)
  <2>1. back.entries[k] \in Entry /\ Busy(back.entries[k], back.meshes[k], back.uploads[k], voxels[k], k)
    BY <1>5, <1>9 DEF Hosts, Works, Host, Entries
  <2>2. CASE k \in own /\ k \notin done
    <3>1. back.entries[k].state # "uploading"
      <4>1. CASE k \in tries
        <5>1. h.entries[k] # None /\ h.entries[k].state = "uploading"
          BY <1>2, <1>3, <4>1
        <5>2. Carries(h, k)
          BY <1>4, <5>1
        <5>. QED
          BY <1>5, <4>1, <5>2 DEF Tried
      <4>2. CASE k \notin tries
        <5>1. back.entries[k] = h.entries[k]
          BY <1>5, <4>2 DEF Tried
        <5>2. k \notin current
          BY <1>3, <2>2, <4>2
        <5>. QED
          BY <1>4, <1>9, <2>2, <5>1, <5>2
      <4>. QED
        BY <4>1, <4>2
    <3>2. u[k] = None
      BY <1>7, <2>2
    <3>3. back.entries[k].state \in {"queued_generation", "generating", "queued_meshing", "queued_upload", "resident"}
      <4>1. back.entries[k].state \in State
        BY <2>1 DEF Entry
      <4>. QED
        BY <2>1, <3>1, <4>1 DEF Busy, State
    <3>4. back.entries[k].state = "queued_upload" =>
            /\ back.meshes[k] # None /\ back.meshes[k].revision = back.entries[k].revision
            /\ back.meshes[k].shows = voxels[k]
      BY <2>1 DEF Busy
    <3>. QED
      BY <3>2, <3>3, <3>4, BusyWithout
  <2>3. CASE ~(k \in own /\ k \notin done)
    BY <1>7, <2>1, <2>3
  <2>. QED
    BY <2>2, <2>3
<1>10. Hosts(mid, gone) /\ Remains(mid, back)
  <2>1. ASSUME NEW k \in Chunk, back.entries[k] = None PROVE k \in gone \/ Gone(mid, k)
    <3>1. k \in gone \/ Gone(back, k)
      BY <1>5, <2>1 DEF Hosts, Works
    <3>2. h.entries[k] = None
      BY <1>5, <2>1 DEF Remains
    <3>3. k \notin done
      BY <1>2, <3>2
    <3>4. ASSUME Gone(back, k) PROVE Gone(mid, k)
      <4>1. /\ mid.meshes[k] = None /\ \A r \in DOMAIN mid.staged : k \notin DOMAIN mid.staged[r].uploads
        BY <1>6, <3>4 DEF Gone
      <4>2. mid.uploads[k] = None
        BY <1>6, <1>7, <3>4 DEF Gone
      <4>3. mid.shown[k] = None
        <5>1. back.shown = h.shown
          BY <1>5 DEF Tried
        <5>. QED
          BY <1>6, <1>8, <3>3, <3>4, <5>1 DEF Gone
      <4>. QED
        BY <4>1, <4>2, <4>3 DEF Gone
    <3>. QED
      BY <3>1, <3>4
  <2>2. Works(mid, gone)
    BY <1>6, <1>9, <2>1 DEF Works
  <2>. QED
    BY <1>5, <1>6, <2>2, RemainsSame DEF Hosts
\* The finished ones are current, with their tickets.
<1>11. ASSUME NEW k \in done
       PROVE  /\ mid.entries[k] # None /\ mid.uploads[k] # None
              /\ mid.uploads[k].revision = mid.entries[k].revision
  <2>1. k \in Chunk /\ k \notin tries /\ k \in current
    BY <1>2, <1>3
  <2>2. back.entries[k] = h.entries[k] /\ back.uploads[k] = h.uploads[k]
    BY <1>5, <2>1 DEF Tried
  <2>3. u[k] = back.uploads[k]
    BY <1>7, <2>1, <1>11
  <2>. QED
    BY <1>2, <1>6, <2>1, <2>2, <2>3
<1>12. Hosts(g, gone) /\ Remains(g, mid) /\ Tried(g, mid, done, FALSE)
  <2>. DEFINE x == FALSE
  <2>1. x \in BOOLEAN /\ ~x
    OBVIOUS
  <2>. HIDE DEF x
  <2>2. Hosts(AfterUpload(mid, done, x), gone) /\ Remains(AfterUpload(mid, done, x), mid)
    BY <1>3, <1>10, <1>11, <2>1, UploadWorks
  <2>3. Tried(AfterUpload(mid, done, x), mid, done, x)
    BY <1>3, <1>6, <2>1, UploadTried
  <2>. QED
    BY <2>2, <2>3 DEF x
<1>. HIDE DEF g
<1>13. Grouped(g.entries, g.cuts)
  <2>1. SUFFICES ASSUME NEW k \in Chunk, g.entries[k] # None, g.entries[k].state = "uploading"
                 PROVE  \E i \in DOMAIN g.cuts : k \in DOMAIN g.cuts[i].required
    BY DEF Grouped
  <2>2. Busy(g.entries[k], g.meshes[k], g.uploads[k], voxels[k], k) /\ g.entries[k] \in Entry
    BY <1>12, <2>1 DEF Hosts, Works, Host, Entries
  <2>3. g.uploads[k] # None
    <3>1. g.uploads[k] = Carried(g.entries[k], k) /\ Carried(g.entries[k], k) \in Ticket
      BY <2>1, <2>2 DEF Busy, Carried, Ticket, Entry
    <3>. QED
      BY <3>1, NoneAssumption
  <2>4. k \notin done /\ g.uploads[k] = mid.uploads[k]
    BY <1>12, <2>3 DEF Tried
  <2>5. k \notin own /\ back.uploads[k] # None
    BY <1>6, <1>7, <2>3, <2>4
  <2>6. back.uploads[k] = h.uploads[k]
    BY <1>5, <1>2, <1>3, <2>5 DEF Tried
  <2>7. g.cuts = h.cuts
    BY <1>6, <1>12 DEF Tried
  <2>. QED
    BY <1>2, <2>5, <2>6, <2>7
<1>. QED
  BY <1>1, <1>5, <1>10, <1>12, <1>13, RemainsTrans

\* What was given up is dropped.
LEMMA DrainedWorks ==
  ASSUME NEW h, NEW gone, Hosts(h, gone), \A k \in gone : h.entries[k] = None
  PROVE  /\ Hosts(Drained(h, gone), {}) /\ Remains(Drained(h, gone), h)
         /\ Drained(h, gone).entries = h.entries /\ Drained(h, gone).cuts = h.cuts
<1>. DEFINE m == Cleared(h.meshes, gone)
            u == Cleared(h.uploads, gone)
            s == Cleared(h.shown, gone)
            st == [r \in DOMAIN h.staged |-> Stripped(h.staged[r], gone)]
            g == Drained(h, gone)
<1>0. /\ Host(h) /\ Own(h.uploads) /\ IsStaged(h.staged) /\ Works(h, gone)
      /\ DOMAIN h = {"entries", "meshes", "uploads", "cuts", "shown", "staged"}
  BY DEF Hosts, Host, Fields
<1>1. Host(g)
  BY <1>0, DrainedLeads DEF Leads
<1>2. /\ g.entries = h.entries /\ g.meshes = m /\ g.uploads = u /\ g.shown = s
      /\ g.staged = st /\ g.cuts = h.cuts
  BY <1>0 DEF Drained
<1>3. \A k \in Chunk : /\ m[k] = IF k \in gone THEN None ELSE h.meshes[k]
                       /\ u[k] = IF k \in gone THEN None ELSE h.uploads[k]
                       /\ s[k] = IF k \in gone THEN None ELSE h.shown[k]
  BY DEF Cleared
<1>4. Own(u)
  BY <1>0, OwnCleared
<1>5. IsStaged(st) /\ \A r \in DOMAIN st : r \in DOMAIN h.staged
                                           /\ DOMAIN st[r].uploads = DOMAIN h.staged[r].uploads \ gone
  <2>1. ASSUME NEW r \in DOMAIN st
        PROVE  r \in DOMAIN h.staged /\ IsChange(st[r]) /\ DOMAIN st[r].uploads = DOMAIN h.staged[r].uploads \ gone
    <3>1. r \in DOMAIN h.staged /\ IsChange(h.staged[r])
      BY <1>0 DEF IsStaged
    <3>2. st[r] = Stripped(h.staged[r], gone)
      BY <3>1
    <3>. HIDE DEF st
    <3>. QED
      BY <3>1, <3>2, StrippedIs, StrippedLess
  <2>2. st = [r \in DOMAIN st |-> st[r]]
    OBVIOUS
  <2>. HIDE DEF st
  <2>. QED
    BY <2>1, <2>2 DEF IsStaged
<1>. HIDE DEF m, u, s, st, g
<1>6. ASSUME NEW k \in Chunk, g.entries[k] = None PROVE Gone(g, k)
  <2>1. k \in gone \/ Gone(h, k)
    BY <1>0, <1>2, <1>6 DEF Works
  <2>2. g.meshes[k] = None /\ g.uploads[k] = None /\ g.shown[k] = None
    BY <1>2, <1>3, <2>1 DEF Gone
  <2>3. \A r \in DOMAIN g.staged : k \notin DOMAIN g.staged[r].uploads
    BY <1>2, <1>5, <2>1 DEF Gone
  <2>. QED
    BY <2>2, <2>3 DEF Gone
<1>7. ASSUME NEW k \in Chunk, g.entries[k] # None
      PROVE  Busy(g.entries[k], g.meshes[k], g.uploads[k], voxels[k], k)
  <2>1. k \notin gone
    BY <1>2, <1>7
  <2>. QED
    BY <1>0, <1>2, <1>3, <1>7, <2>1 DEF Works
<1>8. Works(g, {})
  BY <1>6, <1>7 DEF Works
<1>9. Hosts(g, {}) /\ Remains(g, h)
  BY <1>1, <1>2, <1>4, <1>5, <1>8, RemainsSame DEF Hosts
<1>. QED
  BY <1>2, <1>9 DEF g

-----------------------------------------------------------------------------
(* The frame callback leaves no work without somebody to finish it.        *)

LEMMA BusySame ==
  ASSUME NEW k, NEW e, NEW m, NEW u, NEW v, Busy(e, m, u, v, k),
         NEW b, b.state = e.state, b.revision = e.revision, b.serial = e.serial
  PROVE  Busy(b, m, u, v, k) /\ Carried(b, k) = Carried(e, k)
<1>1. Carried(b, k) = Carried(e, k)
  BY DEF Carried
<1>. QED
  BY <1>1 DEF Busy

LEMMA CarriesIsTicket ==
  ASSUME NEW k \in Chunk, NEW e \in Entry, e.state \in {"generating", "meshing", "uploading"}
  PROVE  Carried(e, k) \in Ticket /\ Carried(e, k) # None
<1>1. Carried(e, k) \in Ticket
  BY DEF Carried, Ticket, Entry
<1>. QED
  BY <1>1, NoneAssumption

\* A chunk of the schedule: its work, and the request if it is being made.
Scheduled(e, k) ==
  /\ e \in Entry /\ Busy(e, meshes[k], uploads[k], voxels[k], k)
  /\ e.state = "generating" => \E q \in requests : q.ticket = Carried(e, k)

LEMMA HereScheduled ==
  ASSUME CurrentInv, HeldInv, NEW k \in Chunk
  PROVE  /\ entries[k] # None => Scheduled(entries[k], k)
         /\ entries[k] = None => /\ voxels[k] = None /\ meshes[k] = None /\ uploads[k] = None /\ shown[k] = None
                                 /\ \A r \in DOMAIN staged : k \notin DOMAIN staged[r].uploads
<1>1. Works(Here, {}) /\ Asked /\ entries \in Entries /\ (entries[k] = None => voxels[k] = None)
  BY DEF HeldInv, CurrentInv, ShapeInv
<1>2. /\ Here.entries = entries /\ Here.meshes = meshes /\ Here.uploads = uploads /\ Here.shown = shown
      /\ Here.staged = staged
  BY DEF Here
<1>3. entries[k] # None => Busy(entries[k], meshes[k], uploads[k], voxels[k], k)
  BY <1>1, <1>2 DEF Works
<1>4. entries[k] = None => Gone(Here, k)
  BY <1>1, <1>2 DEF Works
<1>. QED
  BY <1>1, <1>2, <1>3, <1>4 DEF Scheduled, Asked, Gone, Entries

\* A change of focus keeps the work of what it keeps.
LEMMA RefocusedWorks ==
  ASSUME CurrentInv, HeldInv, NEW f, NEW interest, NEW k \in Chunk, Refocused(f, interest)[k] # None
  PROVE  Scheduled(Refocused(f, interest)[k], k)
<1>. DEFINE wanted == DesiredAt(f, interest)
            kept == Retained(f, wanted)
            b == Refocused(f, interest)[k]
<1>1. b = IF k \in wanted THEN IF k \in Tracked THEN WantedEntry(entries[k], TRUE) ELSE NewEntry
          ELSE IF k \in kept THEN WantedEntry(entries[k], FALSE)
          ELSE None
  BY DEF Refocused, WantedEntry
<1>2. kept \subseteq Tracked
  BY DEF Retained, Nearest
<1>. HIDE DEF wanted, kept, b
<1>3. \/ k \in Tracked /\ \E x \in BOOLEAN : b = WantedEntry(entries[k], x)
      \/ k \notin Tracked /\ b = NewEntry
  BY <1>1, <1>2 DEF b
<1>4. ASSUME k \in Tracked, NEW x \in BOOLEAN, b = WantedEntry(entries[k], x) PROVE Scheduled(b, k)
  <2>1. Scheduled(entries[k], k) /\ entries[k] \in Entry
    BY <1>4, HereScheduled DEF Tracked, Scheduled
  <2>2. /\ b \in Entry /\ b.state = entries[k].state /\ b.revision = entries[k].revision
        /\ b.serial = entries[k].serial
    <3>1. 0 \in Nat
      OBVIOUS
    <3>2. entries[k].state \in State
      BY <2>1 DEF Entry
    <3>. QED
      BY <1>4, <2>1, <3>1, <3>2, EntryChanges
  <2>3. Busy(b, meshes[k], uploads[k], voxels[k], k) /\ Carried(b, k) = Carried(entries[k], k)
    BY <2>1, <2>2, BusySame DEF Scheduled
  <2>. QED
    BY <2>1, <2>2, <2>3 DEF Scheduled
<1>5. ASSUME k \notin Tracked, b = NewEntry PROVE Scheduled(b, k)
  <2>1. uploads[k] = None
    BY <1>5, HereScheduled DEF Tracked
  <2>2. b \in Entry /\ b.state = "queued_generation"
    BY <1>5 DEF NewEntry, Entry, State
  <2>3. Busy(b, meshes[k], uploads[k], voxels[k], k)
    BY <2>1, <2>2, BusyWithout
  <2>. QED
    BY <2>2, <2>3 DEF Scheduled
<1>. QED
  BY <1>3, <1>4, <1>5 DEF b

TicketsFor(ks, base) == {TicketOf(j, base) : j \in ks}

\* Tickets of some chunks are active where the entry has not changed since.
LEMMA TicketsActive ==
  ASSUME NEW base, NEW es, NEW ks, NEW k, NEW ts, ts = TicketsFor(ks, base)
  PROVE  /\ k \in Active(ts, es) => k \in ks
         /\ k \in ks /\ es[k] # None /\ es[k] = base[k] => k \in Active(ts, es)
<1>1. ASSUME k \in Active(ts, es) PROVE k \in ks
  BY <1>1 DEF Active, TicketsFor, TicketOf
<1>2. ASSUME k \in ks, es[k] # None, es[k] = base[k] PROVE k \in Active(ts, es)
  <2>. DEFINE t == TicketOf(k, base)
  <2>1. t \in ts
    BY <1>2 DEF TicketsFor
  <2>2. t.chunk = k
    BY DEF TicketOf
  <2>3. TicketOf(k, es) = t
    BY <1>2 DEF TicketOf
  <2>. HIDE DEF t
  <2>4. IsActive(t, es)
    BY <1>2, <2>2, <2>3 DEF IsActive
  <2>. QED
    BY <2>1, <2>2, <2>4 DEF Active
<1>. QED
  BY <1>1, <1>2

\* The stages start: an entry of each goes to the stage's state.
LEMMA StartedIs ==
  ASSUME NEW es \in Entries, NEW generation \in SUBSET Chunk, NEW meshing \in SUBSET Chunk,
         NEW upload \in SUBSET Chunk,
         \A k \in generation : es[k] # None /\ es[k].state = "queued_generation",
         \A k \in meshing : es[k] # None /\ es[k].state = "queued_meshing",
         \A k \in upload : es[k] # None /\ es[k].state = "queued_upload",
         requests \subseteq RequestType, IsFiniteSet(requests), uploads \in Uploads,
         NEW begin, NEW mesh, NEW load, begin = "generating", mesh = "meshing", load = "uploading",
         NEW started, started = Started(upload, load, Started(meshing, mesh, Started(generation, begin, es))),
         NEW k \in Chunk
  PROVE  /\ k \notin generation /\ k \notin meshing /\ k \notin upload => started[k] = es[k]
         /\ k \in generation \/ k \in meshing \/ k \in upload =>
              started[k] \in Entry /\ started[k] # None /\ started[k].revision = es[k].revision
         /\ k \in generation => started[k].state = "generating"
         /\ k \in meshing => started[k].state = "meshing"
         /\ k \in upload => started[k].state = "uploading"
<1>1. k \notin generation /\ k \notin meshing /\ k \notin upload => started[k] = es[k]
  BY DEF Started
<1>. DEFINE n == Fresh(k)
<1>2. n \in Nat
  BY FreshIsFresh
<1>3. /\ k \in generation => k \notin meshing /\ k \notin upload
      /\ k \in meshing => k \notin upload
  OBVIOUS
<1>4. /\ k \in generation => started[k] = SetEntry(es[k], begin, n)
      /\ k \in meshing => started[k] = SetEntry(es[k], mesh, n)
      /\ k \in upload => started[k] = SetEntry(es[k], load, n)
  <2>1. k \in generation => started[k] = SetEntry(es[k], begin, n)
    BY <1>3 DEF Started, SetEntry
  <2>2. k \in meshing => started[k] = SetEntry(es[k], mesh, n)
    BY <1>3 DEF Started, SetEntry
  <2>3. k \in upload => started[k] = SetEntry(es[k], load, n)
    BY <1>3 DEF Started, SetEntry
  <2>. QED
    BY <2>1, <2>2, <2>3
<1>5. begin \in State /\ mesh \in State /\ load \in State
  BY DEF State
<1>. HIDE DEF n
<1>6. ASSUME es[k] # None, NEW s \in State
      PROVE  /\ SetEntry(es[k], s, n) \in Entry /\ SetEntry(es[k], s, n) # None
             /\ SetEntry(es[k], s, n).revision = es[k].revision /\ SetEntry(es[k], s, n).state = s
  <2>. DEFINE e == es[k]
  <2>1. e \in Entry
    BY <1>6 DEF Entries
  <2>. HIDE DEF e
  <2>2. SetEntry(e, s, n) \in Entry /\ SetEntry(e, s, n).state = s
    BY <1>2, <1>6, <2>1, EntrySet
  <2>3. SetEntry(e, s, n).revision = e.revision
    BY <2>1 DEF SetEntry, Entry
  <2>4. SetEntry(e, s, n) # None
    BY <2>2, NoneAssumption
  <2>. QED
    BY <2>2, <2>3, <2>4 DEF e
<1>7. k \in generation => /\ started[k] \in Entry /\ started[k] # None /\ started[k].revision = es[k].revision
                          /\ started[k].state = begin
  BY <1>4, <1>5, <1>6
<1>8. k \in meshing => /\ started[k] \in Entry /\ started[k] # None /\ started[k].revision = es[k].revision
                       /\ started[k].state = mesh
  BY <1>4, <1>5, <1>6
<1>9. k \in upload => /\ started[k] \in Entry /\ started[k] # None /\ started[k].revision = es[k].revision
                      /\ started[k].state = load
  BY <1>4, <1>5, <1>6
<1>. QED
  BY <1>1, <1>7, <1>8, <1>9

LEMMA BusyMeshed ==
  ASSUME NEW k \in Chunk, NEW e \in Entry, NEW m, NEW u \in UploadTicket \cup {None}, NEW v, Busy(e, m, u, v, k),
         e.state # "uploading",
         NEW b \in Entry, b.revision = e.revision, b.state = "queued_upload",
         NEW n, n # None, n.revision = b.revision, n.shows = v
  PROVE  Busy(b, n, u, v, k)
<1>1. ASSUME u # None PROVE u.revision <= b.revision /\ u.revision # b.revision
  <2>1. u.revision <= e.revision /\ (u.revision = e.revision => u.stage = e.state)
    BY <1>1 DEF Busy, Carried
  <2>2. u.stage = "uploading"
    BY <1>1 DEF UploadTicket
  <2>. QED
    BY <2>1, <2>2
<1>. QED
  BY <1>1 DEF Busy

\* What the stages leave of the entry of one chunk: the batch of the refused
\* goes back, what was meshed is to be uploaded.
LEMMA StagesLeave ==
  ASSUME NEW es \in Entries, NEW generation \in SUBSET Chunk, NEW meshing \in SUBSET Chunk,
         NEW upload \in SUBSET Chunk,
         \A k \in generation : es[k] # None /\ es[k].state = "queued_generation",
         \A k \in meshing : es[k] # None /\ es[k].state = "queued_meshing",
         \A k \in upload : es[k] # None /\ es[k].state = "queued_upload",
         requests \subseteq RequestType, IsFiniteSet(requests), uploads \in Uploads,
         NEW begin, NEW mesh, NEW load, begin = "generating", mesh = "meshing", load = "uploading",
         NEW started \in Entries,
         started = Started(upload, load, Started(meshing, mesh, Started(generation, begin, es))),
         NEW refused \in SUBSET generation, NEW rt \in SUBSET Ticket, rt = TicketsFor(refused, started),
         NEW mt \in SUBSET Ticket, mt = TicketsFor(meshing, started),
         NEW back \in Entries, back = Retried(rt, started), NEW done, done = Completed(mt, back),
         NEW k \in Chunk
  PROVE  /\ k \notin generation /\ k \notin meshing /\ k \notin upload => done[k] = es[k]
         /\ k \in generation \/ k \in meshing \/ k \in upload =>
              done[k] \in Entry /\ done[k] # None /\ done[k].revision = es[k].revision
         /\ k \in refused => done[k].state = "queued_generation"
         /\ k \in generation \ refused => done[k] = started[k] /\ done[k].state = "generating"
         /\ k \in meshing => done[k].state = "queued_upload"
         /\ k \in upload => done[k] = started[k] /\ done[k].state = "uploading"
<1>1. /\ k \notin generation /\ k \notin meshing /\ k \notin upload => started[k] = es[k]
      /\ k \in generation \/ k \in meshing \/ k \in upload =>
           started[k] \in Entry /\ started[k] # None /\ started[k].revision = es[k].revision
      /\ k \in generation => started[k].state = "generating"
      /\ k \in meshing => started[k].state = "meshing"
      /\ k \in upload => started[k].state = "uploading"
  BY StartedIs
<1>2. /\ k \in generation => k \notin meshing /\ k \notin upload
      /\ k \in meshing => k \notin upload
  OBVIOUS
<1>3. /\ k \in Active(rt, started) => k \in refused
      /\ k \in refused /\ started[k] # None => k \in Active(rt, started)
  BY TicketsActive
<1>4. /\ k \in Active(mt, back) => k \in meshing
      /\ k \in meshing /\ back[k] # None /\ back[k] = started[k] => k \in Active(mt, back)
  BY TicketsActive
<1>5. /\ k \notin Active(rt, started) => back[k] = started[k]
      /\ k \in Active(rt, started) =>
           /\ back[k] \in Entry /\ back[k] # None /\ back[k].revision = started[k].revision
           /\ started[k].state = "generating" => back[k].state = "queued_generation"
  BY RetriedIs
<1>6. /\ k \notin Active(mt, back) => done[k] = back[k]
      /\ k \in Active(mt, back) =>
           /\ done[k] \in Entry /\ done[k] # None /\ done[k].revision = back[k].revision
           /\ back[k].state = "meshing" => done[k].state = "queued_upload"
  BY CompletedIs
<1>7. CASE k \in refused
  BY <1>1, <1>2, <1>3, <1>4, <1>5, <1>6, <1>7
<1>8. CASE k \notin refused /\ k \notin meshing
  BY <1>1, <1>2, <1>3, <1>4, <1>5, <1>6, <1>8
<1>9. CASE k \notin refused /\ k \in meshing
  BY <1>1, <1>2, <1>3, <1>4, <1>5, <1>6, <1>9
<1>. QED
  BY <1>2, <1>7, <1>8, <1>9

\* The stages have run: b is what publication starts from.
Ran(es, generation, meshing, upload, refused, started, b) ==
  /\ generation \in SUBSET Chunk /\ meshing \in SUBSET Chunk /\ upload \in SUBSET Chunk
  /\ refused \in SUBSET generation
  /\ \A k \in Chunk : es[k] # None => Scheduled(es[k], k)
  /\ \A k \in generation : es[k] # None /\ es[k].state = "queued_generation"
  /\ \A k \in meshing : es[k] # None /\ es[k].state = "queued_meshing" /\ voxels[k] # None
  /\ \A k \in upload : es[k] # None /\ es[k].state = "queued_upload"
  /\ Host(b) /\ Own(b.uploads) /\ b.shown = shown /\ b.staged = staged
  /\ \A k \in Chunk : b.meshes[k] = IF k \in meshing THEN [revision |-> es[k].revision, shows |-> voxels[k]]
                                                     ELSE meshes[k]
  /\ \A k \in Chunk : b.uploads[k] = IF k \in upload THEN TicketOf(k, started) ELSE uploads[k]
  /\ \A k \in Chunk :
       /\ k \notin generation /\ k \notin meshing /\ k \notin upload => b.entries[k] = es[k]
       /\ k \in generation \/ k \in meshing \/ k \in upload =>
            b.entries[k] \in Entry /\ b.entries[k] # None /\ b.entries[k].revision = es[k].revision
       /\ k \in refused => b.entries[k].state = "queued_generation"
       /\ k \in generation \ refused => b.entries[k] = started[k] /\ b.entries[k].state = "generating"
       /\ k \in meshing => b.entries[k].state = "queued_upload"
       /\ k \in upload => b.entries[k] = started[k] /\ b.entries[k].state = "uploading"

\* The stages' work is in order before anything is published.
LEMMA StagesWork ==
  ASSUME CurrentInv, CutInv, HeldInv,
         NEW es \in Entries, NEW generation, NEW meshing, NEW upload, NEW refused, NEW started, NEW b,
         Ran(es, generation, meshing, upload, refused, started, b),
         NEW gone, gone = {k \in Tracked : es[k] = None}
  PROVE  /\ Hosts(b, gone)
         /\ \A k \in Chunk : b.entries[k] # None /\ b.entries[k].state = "generating" =>
              \/ k \in generation \ refused /\ Carried(b.entries[k], k) = TicketOf(k, started)
              \/ \E q \in requests : q.ticket = Carried(b.entries[k], k)
<1>. DEFINE done == b.entries
<1>. USE DEF Ran
<1>0. /\ uploads \in Uploads /\ IsStaged(staged)
      /\ voxels \in [Chunk -> (SUBSET Revisions) \cup {None}]
  BY DEF CurrentInv, ShapeInv, CutInv
<1>1. ASSUME NEW k \in Chunk, es[k] # None
      PROVE  /\ es[k] \in Entry /\ Busy(es[k], meshes[k], uploads[k], voxels[k], k)
             /\ uploads[k] \in UploadTicket \cup {None}
  BY <1>0, <1>1 DEF Scheduled, Uploads
<1>2. ASSUME NEW k \in Chunk
      PROVE  /\ k \in generation => k \notin meshing /\ k \notin upload
             /\ k \in meshing => k \notin upload
  OBVIOUS
<1>3. ASSUME NEW k \in Chunk, es[k] # None
      PROVE  Busy(done[k], b.meshes[k], b.uploads[k], voxels[k], k)
  <2>1. CASE k \in generation
    <3>1. done[k].state \in {"queued_generation", "generating"}
      BY <2>1
    <3>2. b.uploads[k] = uploads[k] /\ es[k].state # "uploading" /\ done[k] \in Entry
          /\ done[k].revision = es[k].revision
      BY <1>2, <2>1
    <3>. QED
      BY <1>1, <1>3, <3>1, <3>2, BusyStep
  <2>2. CASE k \in meshing
    <3>. DEFINE n == [revision |-> es[k].revision, shows |-> voxels[k]]
    <3>1. n \in Mesh
      <4>1. voxels[k] \in SUBSET Revisions
        BY <1>0, <2>2
      <4>2. Revisions \subseteq 2..MaxEvents + 1
        BY PipelineAssumption DEF CurrentInv, ShapeInv, Revisions, Revision
      <4>3. es[k].revision \in Nat
        BY <1>1, <1>3 DEF Entry
      <4>. QED
        BY <4>1, <4>2, <4>3 DEF Mesh
    <3>2. n # None
      BY <3>1, NoneAssumption
    <3>3. n.revision = es[k].revision /\ n.shows = voxels[k]
      OBVIOUS
    <3>4. b.meshes[k] = n
      BY <2>2
    <3>. HIDE DEF n
    <3>5. /\ b.uploads[k] = uploads[k] /\ es[k].state # "uploading" /\ done[k] \in Entry
          /\ done[k].revision = es[k].revision /\ done[k].state = "queued_upload"
      BY <1>2, <2>2
    <3>. QED
      BY <1>1, <1>3, <3>2, <3>3, <3>4, <3>5, BusyMeshed
  <2>3. CASE k \in upload
    <3>1. /\ b.meshes[k] = meshes[k] /\ b.uploads[k] = TicketOf(k, started)
          /\ done[k] = started[k] /\ done[k].state = "uploading" /\ done[k].revision = es[k].revision
          /\ es[k].state = "queued_upload"
      BY <1>2, <2>3
    <3>2. b.uploads[k] = Carried(done[k], k)
      BY <3>1, CarriedIs
    <3>3. Carried(done[k], k).revision = done[k].revision /\ done[k].revision \in Nat
      BY <2>3 DEF Carried, Entry
    <3>4. meshes[k] # None /\ meshes[k].revision = done[k].revision /\ meshes[k].shows = voxels[k]
      BY <1>1, <1>3, <3>1 DEF Busy
    <3>. QED
      BY <3>1, <3>2, <3>3, <3>4 DEF Busy
  <2>4. CASE k \notin generation /\ k \notin meshing /\ k \notin upload
    BY <1>1, <1>3, <2>4
  <2>. QED
    BY <2>1, <2>2, <2>3, <2>4
<1>4. ASSUME NEW k \in Chunk, es[k] = None PROVE done[k] = None /\ (k \in gone \/ Gone(b, k))
  <2>1. k \notin generation /\ k \notin meshing /\ k \notin upload
    BY <1>4
  <2>2. b.meshes[k] = meshes[k] /\ b.uploads[k] = uploads[k]
    BY <2>1
  <2>3. CASE k \in Tracked
    BY <1>4, <2>1, <2>3
  <2>4. CASE k \notin Tracked
    <3>1. /\ meshes[k] = None /\ uploads[k] = None /\ shown[k] = None
          /\ \A r \in DOMAIN staged : k \notin DOMAIN staged[r].uploads
      BY <2>4, HereScheduled DEF Tracked
    <3>2. Gone(b, k)
      BY <2>2, <3>1 DEF Gone
    <3>. QED
      BY <1>4, <2>1, <3>2
  <2>. QED
    BY <2>3, <2>4
<1>5. ASSUME NEW k \in Chunk, done[k] # None PROVE es[k] # None
  BY <1>4, <1>5
<1>6. ASSUME NEW k \in Chunk, done[k] = None PROVE es[k] = None
  BY <1>6
<1>7. Works(b, gone)
  BY <1>3, <1>4, <1>5, <1>6 DEF Works
<1>8. ASSUME NEW k \in Chunk, done[k] # None, done[k].state = "generating"
      PROVE  \/ k \in generation \ refused /\ Carried(done[k], k) = TicketOf(k, started)
             \/ \E q \in requests : q.ticket = Carried(done[k], k)
  <2>1. k \notin meshing /\ k \notin upload /\ k \notin refused
    BY <1>8
  <2>2. CASE k \in generation
    BY <2>1, <2>2, CarriedIs
  <2>3. CASE k \notin generation
    BY <1>5, <1>8, <2>1, <2>3 DEF Scheduled
  <2>. QED
    BY <2>2, <2>3
<1>. QED
  BY <1>0, <1>7, <1>8 DEF Hosts

\* A chunk that stays keeps its revision and, if in use, its place.
LEMMA RefocusedKeeps ==
  ASSUME entries \in Entries, NEW f, NEW interest, NEW k \in Chunk, entries[k] # None,
         Refocused(f, interest)[k] # None
  PROVE  /\ Refocused(f, interest)[k].revision = entries[k].revision
         /\ Refocused(f, interest)[k].state = entries[k].state
<1>. DEFINE wanted == DesiredAt(f, interest)
            kept == Retained(f, wanted)
            b == Refocused(f, interest)[k]
            x == IF k \in wanted THEN TRUE ELSE FALSE
<1>1. b = WantedEntry(entries[k], x)
  BY DEF Refocused, WantedEntry, Tracked
<1>2. x \in BOOLEAN /\ entries[k] \in Entry
  BY DEF Entries
<1>. HIDE DEF b, x, wanted, kept
<1>3. b.state = entries[k].state /\ b.revision = entries[k].revision
  BY <1>1, <1>2 DEF WantedEntry, Entry
<1>. QED
  BY <1>3 DEF b

\* What a frame's publication starts from: the stages have run, and what is
\* given up is still to be dropped.
Begun(b, gone) ==
  /\ Hosts(b, gone) /\ b.cuts = cuts /\ b.shown = shown /\ b.staged = staged
  /\ gone = {k \in Tracked : b.entries[k] = None}
  /\ \A k \in Chunk : entries[k] # None /\ b.entries[k] # None =>
       b.entries[k].revision = entries[k].revision /\ (Resident(b.entries, k) <=> Resident(entries, k))
  /\ \A k \in Chunk : entries[k] = None => ~Resident(b.entries, k)
  /\ \A k \in Chunk : b.entries[k] # None /\ b.entries[k].state = "generating" =>
       \E q \in requests' : q.ticket = Carried(b.entries[k], k)
  /\ voxels' = Cleared(voxels, gone)

\* The work of the callback after that.
Finished(b, failing, gone) == Drained(UploadedAlone(PublishedAll(b, failing), failing), gone)

LEMMA FrameBegins ==
  ASSUME CurrentInv, CutInv, HeldInv,
         NEW f, NEW interest, NEW failing \in SUBSET Chunk, Frame(f, interest, failing)
  PROVE  \E b, gone :
           /\ Begun(b, gone)
           /\ entries' = Finished(b, failing, gone).entries /\ meshes' = Finished(b, failing, gone).meshes
           /\ uploads' = Finished(b, failing, gone).uploads /\ cuts' = Finished(b, failing, gone).cuts
           /\ shown' = Finished(b, failing, gone).shown /\ staged' = Finished(b, failing, gone).staged
<1>. DEFINE es == IF focus = [at |-> f, interest |-> interest] THEN entries ELSE Refocused(f, interest)
            gone == {k \in Tracked : es[k] = None}
<1>0. /\ entries \in Entries /\ requests \subseteq RequestType /\ IsFiniteSet(requests)
      /\ uploads \in Uploads /\ cuts \in Seq(CutType) /\ Own(uploads)
  BY DEF CurrentInv, ShapeInv, CutInv
<1>1. Follows(es, entries) /\ es \in Entries
  BY <1>0, FollowsRefl, RefocusedFollows DEF Follows
<1>r. \A k \in Chunk : es[k] # None => Scheduled(es[k], k)
  BY HereScheduled, RefocusedWorks
<1>s. \A k \in Chunk :
        /\ entries[k] # None /\ es[k] # None =>
             es[k].revision = entries[k].revision /\ es[k].state = entries[k].state
        /\ entries[k] = None => ~Resident(es, k)
  <2>1. Settles(Refocused(f, interest), entries, {})
    BY <1>0, RefocusedSettles
  <2>2. \A k \in Chunk : Resident(Refocused(f, interest), k) => Resident(entries, k)
    BY <2>1 DEF Settles
  <2>. QED
    BY <1>0, <2>2, RefocusedKeeps DEF Resident
<1>. HIDE DEF es
<1>2. PICK generation \in Starts("queued_generation", es), meshing \in Starts("queued_meshing", es),
           upload \in Starts("queued_upload", es) :
       LET started == Started(upload, "uploading", Started(meshing, "meshing",
                        Started(generation, "generating", es)))
           meshed == {k \in meshing : voxels[k] # None}
           refused == generation \cap failing
           tickets(ks) == {TicketOf(k, started) : k \in ks}
           before == [
             entries |-> Completed(tickets(meshed), Retried(tickets(refused), started)),
             meshes |-> [k \in Chunk |->
               IF k \in meshed THEN [revision |-> es[k].revision, shows |-> voxels[k]] ELSE meshes[k]],
             uploads |-> [k \in Chunk |-> IF k \in upload THEN TicketOf(k, started) ELSE uploads[k]],
             cuts |-> cuts, shown |-> shown, staged |-> staged]
       IN
       /\ failing \subseteq generation \cup {k \in Chunk : before.uploads[k] # None}
       /\ requests' = requests \cup
            {[ticket |-> t, asof |-> Revision] : t \in tickets(generation \ refused)}
       /\ \E after \in {Drained(UploadedAlone(PublishedAll(before, failing), failing), gone)} :
            /\ entries' = after.entries /\ meshes' = after.meshes /\ uploads' = after.uploads
            /\ cuts' = after.cuts /\ shown' = after.shown /\ staged' = after.staged
  BY DEF Frame, es
<1>. DEFINE s1 == Started(generation, "generating", es)
            s2 == Started(meshing, "meshing", s1)
            started == Started(upload, "uploading", s2)
            meshed == {k \in meshing : voxels[k] # None}
            refused == generation \cap failing
            tickets(ks) == {TicketOf(k, started) : k \in ks}
            before == [
              entries |-> Completed(tickets(meshed), Retried(tickets(refused), started)),
              meshes |-> [k \in Chunk |->
                IF k \in meshed THEN [revision |-> es[k].revision, shows |-> voxels[k]] ELSE meshes[k]],
              uploads |-> [k \in Chunk |-> IF k \in upload THEN TicketOf(k, started) ELSE uploads[k]],
              cuts |-> cuts, shown |-> shown, staged |-> staged]
            after == Drained(UploadedAlone(PublishedAll(before, failing), failing), gone)
            asked == {[ticket |-> t, asof |-> Revision] : t \in tickets(generation \ refused)}
<1>3. /\ requests' = requests \cup asked
      /\ entries' = after.entries /\ meshes' = after.meshes /\ uploads' = after.uploads
      /\ cuts' = after.cuts /\ shown' = after.shown /\ staged' = after.staged
  BY <1>2
<1>4. /\ generation \subseteq Chunk /\ meshing \subseteq Chunk /\ upload \subseteq Chunk
      /\ \A k \in generation : es[k] # None /\ es[k].state = "queued_generation"
      /\ \A k \in meshing : es[k] # None /\ es[k].state = "queued_meshing"
      /\ \A k \in upload : es[k] # None /\ es[k].state = "queued_upload"
  BY DEF Starts, Startable
<1>5. voxels' = Cleared(voxels, gone)
  BY DEF Frame, es
<1>. HIDE DEF gone
<1>6. /\ started \in Entries
      /\ \A k \in generation : started[k] \in Entry /\ started[k].state = "generating"
      /\ \A k \in meshing : started[k] \in Entry /\ started[k].state = "meshing"
      /\ \A k \in upload : started[k] \in Entry /\ started[k].state = "uploading"
  BY <1>0, <1>1, <1>4, StagesStart DEF Follows
<1>7. \A k \in meshing : voxels[k] # None
  <2>1. \A k \in meshing : Uses(es, k)
    BY <1>4 DEF Uses, Past
  <2>2. \A k \in meshing : Uses(entries, k)
    BY <1>1, <1>4, <2>1 DEF Follows
  <2>. QED
    BY <1>4, <2>2 DEF CurrentInv, VoxelsAreCurrent, Tracked, StateOf, Uses
<1>8. meshed = meshing
  BY <1>7
<1>9. tickets(meshed) = TicketsFor(meshing, started) /\ tickets(refused) = TicketsFor(refused, started)
  BY <1>8 DEF TicketsFor
<1>. DEFINE rt == tickets(refused)
            mt == tickets(meshed)
            back == Retried(rt, started)
            done == Completed(mt, back)
<1>10. /\ before.entries = done /\ before.cuts = cuts /\ before.shown = shown /\ before.staged = staged
       /\ DOMAIN before = Fields
       /\ \A k \in Chunk : before.meshes[k] = IF k \in meshing THEN [revision |-> es[k].revision, shows |-> voxels[k]]
                                                              ELSE meshes[k]
       /\ \A k \in Chunk : before.uploads[k] = IF k \in upload THEN TicketOf(k, started) ELSE uploads[k]
       /\ before.uploads = [k \in Chunk |-> IF k \in upload THEN TicketOf(k, started) ELSE uploads[k]]
  BY <1>8 DEF Fields
<1>11. \A k \in Chunk : k \in generation \ refused => [ticket |-> TicketOf(k, started), asof |-> Revision] \in asked
  OBVIOUS
<1>12. started = Started(upload, "uploading", Started(meshing, "meshing", Started(generation, "generating", es)))
  OBVIOUS
<1>. HIDE DEF s1, s2, started, before, asked
<1>13. /\ mt \in SUBSET Ticket /\ rt \in SUBSET Ticket
       /\ \A k \in upload : TicketOf(k, started) \in UploadTicket /\ TicketOf(k, started).chunk = k
       /\ \A t \in mt : t.stage # "generating"
  <2>1. \A k \in generation : TicketOf(k, started) \in Ticket
    BY <1>4, <1>6, TicketIs
  <2>2. \A k \in meshing : TicketOf(k, started) \in Ticket /\ TicketOf(k, started).stage = "meshing"
    BY <1>4, <1>6, TicketIs
  <2>3. \A k \in upload : TicketOf(k, started) \in UploadTicket
    BY <1>4, <1>6, TicketIs DEF UploadTicket
  <2>4. \A k \in upload : TicketOf(k, started).chunk = k
    BY DEF TicketOf
  <2>. QED
    BY <2>1, <2>2, <2>3, <2>4
<1>14. /\ rt = TicketsFor(refused, started) /\ mt = TicketsFor(meshing, started)
       /\ refused \in SUBSET generation
  BY <1>9
<1>. HIDE DEF rt, mt, refused, meshed
<1>15. back \in Entries
  BY <1>0, <1>6, <1>13, RetriedFollows DEF Follows
<1>. HIDE DEF back
<1>16. done \in Entries
  BY <1>0, <1>13, <1>15, CompletedFollows DEF Follows
<1>17. \A k \in Chunk :
         /\ k \notin generation /\ k \notin meshing /\ k \notin upload => done[k] = es[k]
         /\ k \in generation \/ k \in meshing \/ k \in upload =>
              done[k] \in Entry /\ done[k] # None /\ done[k].revision = es[k].revision
         /\ k \in refused => done[k].state = "queued_generation"
         /\ k \in generation \ refused => done[k] = started[k] /\ done[k].state = "generating"
         /\ k \in meshing => done[k].state = "queued_upload"
         /\ k \in upload => done[k] = started[k] /\ done[k].state = "uploading"
  BY <1>0, <1>1, <1>4, <1>6, <1>12, <1>13, <1>14, <1>15, StagesLeave DEF back
<1>. HIDE DEF done
<1>18. Host(before) /\ Own(before.uploads)
  BY <1>0, <1>10, <1>13, <1>16 DEF Host, Uploads, Own
<1>19. /\ Hosts(before, gone)
       /\ \A k \in Chunk : done[k] # None /\ done[k].state = "generating" =>
            \/ k \in generation \ refused /\ Carried(done[k], k) = TicketOf(k, started)
            \/ \E q \in requests : q.ticket = Carried(done[k], k)
  <2>1. gone = {k \in Tracked : es[k] = None}
    BY DEF gone
  <2>2. \A k \in meshing : es[k] # None /\ es[k].state = "queued_meshing" /\ voxels[k] # None
    BY <1>4, <1>7
  <2>3. /\ generation \in SUBSET Chunk /\ meshing \in SUBSET Chunk /\ upload \in SUBSET Chunk
        /\ before.entries = done /\ before.shown = shown /\ before.staged = staged
    BY <1>4, <1>10
  <2>4. /\ \A k \in generation : es[k] # None /\ es[k].state = "queued_generation"
        /\ \A k \in upload : es[k] # None /\ es[k].state = "queued_upload"
        /\ refused \in SUBSET generation
    BY <1>4, <1>14
  <2>5. \A k \in Chunk : before.meshes[k] = IF k \in meshing THEN [revision |-> es[k].revision, shows |-> voxels[k]]
                                                              ELSE meshes[k]
    BY <1>10
  <2>6. \A k \in Chunk : before.uploads[k] = IF k \in upload THEN TicketOf(k, started) ELSE uploads[k]
    BY <1>10
  <2>. QED
    <3>1. Ran(es, generation, meshing, upload, refused, started, before)
      BY <1>r, <1>17, <1>18, <2>2, <2>3, <2>4, <2>5, <2>6 DEF Ran
    <3>. QED
      BY <1>1, <2>1, <2>3, <3>1, StagesWork
<1>20. \A k \in Chunk : done[k] = None <=> es[k] = None
  BY <1>4, <1>17
<1>21. gone = {k \in Tracked : before.entries[k] = None}
  BY <1>10, <1>20 DEF gone, Tracked
<1>22. \A k \in Chunk : Resident(done, k) <=> Resident(es, k)
  BY <1>4, <1>17 DEF Resident
<1>23. ASSUME NEW k \in Chunk, entries[k] # None, done[k] # None
       PROVE  done[k].revision = entries[k].revision /\ (Resident(done, k) <=> Resident(entries, k))
  <2>1. es[k] # None
    BY <1>20, <1>23
  <2>2. es[k].revision = entries[k].revision /\ es[k].state = entries[k].state
    BY <1>s, <1>23, <2>1
  <2>3. done[k].revision = es[k].revision
    BY <1>17
  <2>. QED
    BY <1>22, <1>23, <2>1, <2>2, <2>3 DEF Resident
<1>24. \A k \in Chunk : entries[k] = None => ~Resident(done, k)
  BY <1>s, <1>22
<1>25. ASSUME NEW k \in Chunk, done[k] # None, done[k].state = "generating"
       PROVE  \E q \in requests' : q.ticket = Carried(done[k], k)
  <2>1. CASE k \in generation \ refused /\ Carried(done[k], k) = TicketOf(k, started)
    <3>1. [ticket |-> TicketOf(k, started), asof |-> Revision] \in requests'
      BY <1>3, <1>11, <2>1
    <3>2. [ticket |-> TicketOf(k, started), asof |-> Revision].ticket = TicketOf(k, started)
      OBVIOUS
    <3>. QED
      BY <2>1, <3>1, <3>2
  <2>2. CASE \E q \in requests : q.ticket = Carried(done[k], k)
    BY <1>3, <2>2
  <2>. QED
    BY <1>19, <1>25, <2>1, <2>2
<1>26. Begun(before, gone)
  BY <1>5, <1>10, <1>19, <1>21, <1>23, <1>24, <1>25 DEF Begun
<1>27. after = Finished(before, failing, gone)
  BY DEF Finished
<1>. HIDE DEF after
<1>. QED
  BY <1>3, <1>26, <1>27

LEMMA FrameHeld ==
  ASSUME CurrentInv, CutInv, HeldInv,
         NEW f, NEW interest, NEW failing \in SUBSET Chunk, Frame(f, interest, failing)
  PROVE  HeldInv'
<1>1. PICK b, gone :
        /\ Begun(b, gone)
        /\ entries' = Finished(b, failing, gone).entries /\ meshes' = Finished(b, failing, gone).meshes
        /\ uploads' = Finished(b, failing, gone).uploads /\ cuts' = Finished(b, failing, gone).cuts
        /\ shown' = Finished(b, failing, gone).shown /\ staged' = Finished(b, failing, gone).staged
  BY FrameBegins
<1>. DEFINE after == Finished(b, failing, gone)
            grouped == PublishedAll(b, failing)
            alone == UploadedAlone(grouped, failing)
<1>2. requests \subseteq RequestType /\ cuts \in Seq(CutType)
  BY DEF CurrentInv, ShapeInv
<1>3. /\ Hosts(after, {}) /\ Remains(after, b) /\ Grouped(after.entries, after.cuts)
  <2>1. Hosts(grouped, gone) /\ Remains(grouped, b)
    BY <1>1, <1>2, PublishedAllWorks DEF Begun
  <2>. HIDE DEF grouped
  <2>2. Hosts(alone, gone) /\ Remains(alone, grouped) /\ Grouped(alone.entries, alone.cuts)
    BY <1>2, <2>1, UploadedAloneWorks
  <2>. HIDE DEF alone
  <2>3. Remains(alone, b)
    BY <2>1, <2>2, RemainsTrans
  <2>4. \A k \in gone : alone.entries[k] = None
    BY <1>1, <2>3 DEF Remains, Begun, Tracked
  <2>. DEFINE a == Drained(alone, gone)
  <2>5. /\ Hosts(a, {}) /\ Remains(a, alone)
        /\ a.entries = alone.entries /\ a.cuts = alone.cuts
    BY <2>2, <2>4, DrainedWorks
  <2>6. a = after
    BY DEF grouped, alone, Finished
  <2>. HIDE DEF a, after
  <2>. QED
    BY <2>2, <2>3, <2>5, <2>6, RemainsTrans
<1>4. /\ entries' = after.entries /\ meshes' = after.meshes /\ uploads' = after.uploads
      /\ cuts' = after.cuts /\ shown' = after.shown /\ staged' = after.staged
  BY <1>1
<1>. HIDE DEF after
<1>5. \A k \in Chunk : /\ entries'[k] = None <=> b.entries[k] = None
                       /\ entries'[k] # None /\ entries'[k].state = "generating" => entries'[k] = b.entries[k]
  BY <1>3, <1>4 DEF Remains
<1>6. \A k \in Chunk : /\ entries'[k] # None => voxels'[k] = voxels[k]
                       /\ entries'[k] = None => voxels'[k] = None
  <2>1. \A k \in Chunk : b.entries[k] # None => voxels'[k] = voxels[k]
    BY <1>1 DEF Cleared, Begun
  <2>2. ASSUME NEW k \in Chunk, b.entries[k] = None PROVE voxels'[k] = None
    <3>1. CASE k \in Tracked
      BY <1>1, <2>2, <3>1 DEF Cleared, Begun
    <3>2. CASE k \notin Tracked
      BY <1>1, <3>2, HereScheduled DEF Cleared, Tracked, Begun
    <3>. QED
      BY <3>1, <3>2
  <2>. QED
    BY <1>5, <2>1, <2>2
<1>7. Works(Here, {})'
  <2>1. SUFFICES ASSUME NEW k \in Chunk
                 PROVE  IF entries'[k] = None THEN Gone(Here', k)
                        ELSE Busy(entries'[k], meshes'[k], uploads'[k], voxels'[k], k)
    BY DEF Works, Here, Gone, Busy, Carried
  <2>2. IF after.entries[k] = None THEN Gone(after, k)
        ELSE Busy(after.entries[k], after.meshes[k], after.uploads[k], voxels[k], k)
    BY <1>3 DEF Hosts, Works
  <2>3. /\ Here'.meshes = after.meshes /\ Here'.uploads = after.uploads
        /\ Here'.shown = after.shown /\ Here'.staged = after.staged
    BY <1>4 DEF Here
  <2>. QED
    BY <1>4, <1>6, <2>2, <2>3 DEF Gone
<1>8. Asked'
  <2>1. SUFFICES ASSUME NEW k \in Chunk, entries'[k] # None, entries'[k].state = "generating"
                 PROVE  \E q \in requests' : q.ticket = Carried(entries'[k], k)
    BY DEF Asked, Carried
  <2>2. b.entries[k] # None /\ b.entries[k].state = "generating" /\ entries'[k] = b.entries[k]
    BY <1>5, <2>1
  <2>. QED
    BY <1>1, <2>2 DEF Begun
<1>9. Grouped(entries, cuts)'
  BY <1>3, <1>4 DEF Grouped
<1>. QED
  BY <1>6, <1>7, <1>8, <1>9 DEF HeldInv

-----------------------------------------------------------------------------
(* The steps between frames, for the work in flight.                       *)

LEMMA HeldFrom ==
  ASSUME \A k \in Chunk : entries'[k] # None => Busy(entries'[k], meshes'[k], uploads'[k], voxels'[k], k),
         \A k \in Chunk : entries'[k] = None =>
           /\ voxels'[k] = None /\ meshes'[k] = None /\ uploads'[k] = None /\ shown'[k] = None
           /\ \A r \in DOMAIN staged' : k \notin DOMAIN staged'[r].uploads,
         \A k \in Chunk : entries'[k] # None /\ entries'[k].state = "generating" =>
           \E q \in requests' : q.ticket = Carried(entries'[k], k),
         \A k \in Chunk : entries'[k] # None /\ entries'[k].state = "uploading" =>
           \E i \in DOMAIN cuts' : k \in DOMAIN cuts'[i].required
  PROVE  HeldInv'
<1>1. Works(Here, {})'
  <2>1. SUFFICES ASSUME NEW k \in Chunk
                 PROVE  IF entries'[k] = None THEN Gone(Here', k)
                        ELSE Busy(entries'[k], meshes'[k], uploads'[k], voxels'[k], k)
    BY DEF Works, Here, Gone, Busy, Carried
  <2>2. /\ Here'.meshes = meshes' /\ Here'.uploads = uploads'
        /\ Here'.shown = shown' /\ Here'.staged = staged'
    BY DEF Here
  <2>. QED
    BY <2>2 DEF Gone
<1>2. Asked'
  BY DEF Asked, Carried
<1>3. Grouped(entries, cuts)'
  BY DEF Grouped
<1>. QED
  BY <1>1, <1>2, <1>3 DEF HeldInv

\* The answer to a request, or its failure, moves only the entry it is for.
LEMMA AnswerHeld ==
  ASSUME CurrentInv, HeldInv, NEW q \in requests, requests' = requests \ {q},
         UNCHANGED <<meshes, uploads, cuts, shown, staged>>,
         \A k \in Chunk :
           IF k = q.ticket.chunk /\ IsActive(q.ticket, entries)
           THEN /\ entries'[k] \in Entry /\ entries'[k] # None /\ entries'[k].revision = entries[k].revision
                /\ entries'[k].state \in {"queued_generation", "queued_meshing"}
           ELSE entries'[k] = entries[k] /\ voxels'[k] = voxels[k]
  PROVE  HeldInv'
<1>. DEFINE Its(k) == k = q.ticket.chunk /\ IsActive(q.ticket, entries)
<1>0. q.ticket.stage = "generating" /\ uploads \in Uploads /\ entries \in Entries
  BY DEF CurrentInv, ShapeInv, RequestType, GenerationTicket
<1>1. ASSUME NEW k \in Chunk, Its(k)
      PROVE  entries[k] # None /\ entries[k].state = "generating" /\ TicketOf(k, entries) = q.ticket
  BY <1>0, <1>1 DEF IsActive, TicketOf
<1>2. ASSUME NEW k \in Chunk, entries'[k] # None
      PROVE  Busy(entries'[k], meshes'[k], uploads'[k], voxels'[k], k)
  <2>1. entries[k] # None
    BY <1>1, <1>2
  <2>2. Busy(entries[k], meshes[k], uploads[k], voxels[k], k) /\ entries[k] \in Entry
    BY <2>1, HereScheduled DEF Scheduled
  <2>3. CASE Its(k)
    <3>1. entries[k].state # "uploading" /\ uploads[k] \in UploadTicket \cup {None}
      BY <1>0, <1>1, <2>3 DEF Uploads
    <3>2. /\ entries'[k] \in Entry /\ entries'[k].revision = entries[k].revision
          /\ entries'[k].state \in {"queued_generation", "generating", "queued_meshing", "resident"}
      BY <2>3
    <3>3. Busy(entries'[k], meshes'[k], uploads[k], voxels'[k], k)
      BY <2>2, <3>1, <3>2, BusyStep
    <3>. QED
      BY <3>3
  <2>4. CASE ~Its(k)
    BY <2>2, <2>4
  <2>. QED
    BY <2>3, <2>4
<1>3. ASSUME NEW k \in Chunk, entries'[k] = None
      PROVE  /\ voxels'[k] = None /\ meshes'[k] = None /\ uploads'[k] = None /\ shown'[k] = None
             /\ \A r \in DOMAIN staged' : k \notin DOMAIN staged'[r].uploads
  <2>1. entries[k] = None /\ voxels'[k] = voxels[k]
    BY <1>1, <1>3
  <2>. QED
    BY <2>1, HereScheduled
<1>4. ASSUME NEW k \in Chunk, entries'[k] # None, entries'[k].state = "generating"
      PROVE  \E p \in requests' : p.ticket = Carried(entries'[k], k)
  <2>1. ~Its(k) /\ entries'[k] = entries[k]
    BY <1>4
  <2>2. PICK p \in requests : p.ticket = Carried(entries[k], k)
    BY <1>4, <2>1, HereScheduled DEF Scheduled
  <2>3. p # q
    <3>1. p.ticket.chunk = k /\ p.ticket = TicketOf(k, entries)
      BY <2>2, CarriedIs DEF Carried
    <3>. QED
      BY <1>4, <2>1, <3>1 DEF IsActive
  <2>. QED
    BY <2>1, <2>2, <2>3
<1>5. ASSUME NEW k \in Chunk, entries'[k] # None, entries'[k].state = "uploading"
      PROVE  \E i \in DOMAIN cuts' : k \in DOMAIN cuts'[i].required
  <2>1. entries'[k] = entries[k]
    BY <1>5
  <2>. QED
    BY <1>5, <2>1 DEF HeldInv, Grouped
<1>. QED
  BY <1>2, <1>3, <1>4, <1>5, HeldFrom

\* The one ticket of an answer, and its chunk.
LEMMA AnswerIs ==
  ASSUME NEW t \in Ticket, NEW es, NEW k
  PROVE  k \in Active({t}, es) <=> k = t.chunk /\ IsActive(t, es)
BY DEF Active

\* What an answer, or a failure, does to the entries.
LEMMA RequestFailsMoves ==
  ASSUME CurrentInv, NEW q \in requests, RequestFails(q)
  PROVE  \A k \in Chunk :
           IF k = q.ticket.chunk /\ IsActive(q.ticket, entries)
           THEN /\ entries'[k] \in Entry /\ entries'[k] # None /\ entries'[k].revision = entries[k].revision
                /\ entries'[k].state \in {"queued_generation", "queued_meshing"}
           ELSE entries'[k] = entries[k] /\ voxels'[k] = voxels[k]
<1>1. entries' = Retried({q.ticket}, entries) /\ voxels' = voxels
  BY DEF RequestFails, hostVars
<1>2. q.ticket \in Ticket /\ q.ticket.stage = "generating" /\ entries \in Entries
  BY DEF CurrentInv, ShapeInv, RequestType, GenerationTicket
<1>3. ASSUME NEW k \in Chunk
      PROVE  IF k = q.ticket.chunk /\ IsActive(q.ticket, entries)
             THEN /\ entries'[k] \in Entry /\ entries'[k] # None /\ entries'[k].revision = entries[k].revision
                  /\ entries'[k].state \in {"queued_generation", "queued_meshing"}
             ELSE entries'[k] = entries[k] /\ voxels'[k] = voxels[k]
  <2>. DEFINE ts == {q.ticket}
  <2>1. ts \in SUBSET Ticket /\ entries' = Retried(ts, entries)
    BY <1>1, <1>2
  <2>2. k \in Active(ts, entries) <=> k = q.ticket.chunk /\ IsActive(q.ticket, entries)
    BY <1>2, AnswerIs
  <2>. HIDE DEF ts
  <2>3. /\ k \notin Active(ts, entries) => entries'[k] = entries[k]
        /\ k \in Active(ts, entries) =>
             /\ entries'[k] \in Entry /\ entries'[k] # None /\ entries'[k].revision = entries[k].revision
             /\ entries[k].state = "generating" => entries'[k].state = "queued_generation"
    BY <1>2, <2>1, RetriedIs
  <2>4. k = q.ticket.chunk /\ IsActive(q.ticket, entries) => entries[k].state = "generating"
    BY <1>2 DEF IsActive, TicketOf
  <2>. QED
    BY <1>1, <2>2, <2>3, <2>4
<1>. QED
  BY <1>3

LEMMA ReceiveMoves ==
  ASSUME CurrentInv, NEW q \in requests, NEW n, Receive(q, n)
  PROVE  \A k \in Chunk :
           IF k = q.ticket.chunk /\ IsActive(q.ticket, entries)
           THEN /\ entries'[k] \in Entry /\ entries'[k] # None /\ entries'[k].revision = entries[k].revision
                /\ entries'[k].state \in {"queued_generation", "queued_meshing"}
           ELSE entries'[k] = entries[k] /\ voxels'[k] = voxels[k]
<1>. DEFINE kept == q.ticket.chunk
            shows == CommitsOf(kept, 2..n)
            fits == Max({1} \cup shows) >= Floor(kept)
<1>1. /\ entries' = IF fits THEN Completed({q.ticket}, entries) ELSE Retried({q.ticket}, entries)
      /\ voxels' = IF fits /\ IsActive(q.ticket, entries) THEN [voxels EXCEPT ![kept] = shows] ELSE voxels
  BY DEF Receive
<1>2. q.ticket \in Ticket /\ q.ticket.stage = "generating" /\ entries \in Entries
      /\ voxels \in [Chunk -> (SUBSET Revisions) \cup {None}]
  BY DEF CurrentInv, ShapeInv, RequestType, GenerationTicket
<1>. HIDE DEF shows, fits
<1>3. ASSUME NEW k \in Chunk
      PROVE  IF k = q.ticket.chunk /\ IsActive(q.ticket, entries)
             THEN /\ entries'[k] \in Entry /\ entries'[k] # None /\ entries'[k].revision = entries[k].revision
                  /\ entries'[k].state \in {"queued_generation", "queued_meshing"}
             ELSE entries'[k] = entries[k] /\ voxels'[k] = voxels[k]
  <2>. DEFINE ts == {q.ticket}
  <2>1. ts \in SUBSET Ticket /\ entries' = IF fits THEN Completed(ts, entries) ELSE Retried(ts, entries)
    BY <1>1, <1>2
  <2>2. k \in Active(ts, entries) <=> k = q.ticket.chunk /\ IsActive(q.ticket, entries)
    BY <1>2, AnswerIs
  <2>. HIDE DEF ts
  <2>3. CASE fits
    <3>1. entries' = Completed(ts, entries)
      BY <2>1, <2>3
    <3>2. /\ k \notin Active(ts, entries) => entries'[k] = entries[k]
          /\ k \in Active(ts, entries) =>
               /\ entries'[k] \in Entry /\ entries'[k] # None /\ entries'[k].revision = entries[k].revision
               /\ entries[k].state = "generating" => entries'[k].state = "queued_meshing"
      BY <1>2, <2>1, <3>1, CompletedIs
    <3>3. k = q.ticket.chunk /\ IsActive(q.ticket, entries) => entries[k].state = "generating"
      BY <1>2 DEF IsActive, TicketOf
    <3>4. ~(k = q.ticket.chunk /\ IsActive(q.ticket, entries)) => voxels'[k] = voxels[k]
      BY <1>1, <1>2
    <3>. QED
      BY <2>2, <3>2, <3>3, <3>4
  <2>4. CASE ~fits
    <3>1. entries' = Retried(ts, entries) /\ voxels' = voxels
      BY <1>1, <2>1, <2>4
    <3>2. /\ k \notin Active(ts, entries) => entries'[k] = entries[k]
          /\ k \in Active(ts, entries) =>
               /\ entries'[k] \in Entry /\ entries'[k] # None /\ entries'[k].revision = entries[k].revision
               /\ entries[k].state = "generating" => entries'[k].state = "queued_generation"
      BY <1>2, <2>1, <3>1, RetriedIs
    <3>3. k = q.ticket.chunk /\ IsActive(q.ticket, entries) => entries[k].state = "generating"
      BY <1>2 DEF IsActive, TicketOf
    <3>. QED
      BY <2>2, <3>1, <3>2, <3>3
  <2>. QED
    BY <2>3, <2>4
<1>. QED
  BY <1>3

LEMMA RequestFailsHeld == ASSUME CurrentInv, HeldInv, NEW q \in requests, RequestFails(q) PROVE HeldInv'
<1>1. requests' = requests \ {q} /\ UNCHANGED <<meshes, uploads, cuts, shown, staged>>
  BY DEF RequestFails, hostVars, rendererVars, schedulerVars
<1>. QED
  BY <1>1, RequestFailsMoves, AnswerHeld

LEMMA ReceiveHeld == ASSUME CurrentInv, HeldInv, NEW q \in requests, NEW n, Receive(q, n) PROVE HeldInv'
<1>1. requests' = requests \ {q} /\ UNCHANGED <<meshes, uploads, cuts, shown, staged>>
  BY DEF Receive, hostVars, rendererVars, schedulerVars
<1>. QED
  BY <1>1, ReceiveMoves, AnswerHeld

LEMMA IdleHeld ==
  ASSUME HeldInv, UNCHANGED <<entries, requests, voxels, meshes, uploads, cuts, shown, staged>>
  PROVE  HeldInv'
<1>1. Works(Here, {})'
  <2>1. Here' = Here
    BY DEF Here
  <2>. QED
    BY <2>1 DEF HeldInv, Works, Busy, Gone, Carried
<1>. QED
  BY <1>1 DEF HeldInv, Asked, Grouped, Carried

LEMMA CommitHeld == ASSUME HeldInv, NEW ks, Commit(ks) PROVE HeldInv'
BY IdleHeld DEF Commit, schedulerVars, hostVars, rendererVars

LEMMA PresentHeld == ASSUME CurrentInv, HeldInv, NEW pages, Present(pages) PROVE HeldInv'
<1>1. /\ UNCHANGED <<entries, requests, voxels, meshes, uploads, cuts>>
      /\ shown' = [k \in Chunk |-> Upcoming(k)] /\ staged' = <<>>
  BY DEF Present, schedulerVars, hostVars
<1>2. DOMAIN staged' = {}
  BY <1>1
<1>3. ASSUME NEW k \in Chunk, entries'[k] = None
      PROVE  /\ voxels'[k] = None /\ meshes'[k] = None /\ uploads'[k] = None /\ shown'[k] = None
             /\ \A r \in DOMAIN staged' : k \notin DOMAIN staged'[r].uploads
  <2>1. /\ voxels[k] = None /\ meshes[k] = None /\ uploads[k] = None /\ shown[k] = None
        /\ \A r \in DOMAIN staged : k \notin DOMAIN staged[r].uploads
    BY <1>1, <1>3, HereScheduled
  <2>2. Upcoming(k) = shown[k]
    <3>1. {r \in DOMAIN staged : k \in DOMAIN staged[r].uploads} = {}
      BY <2>1
    <3>. QED
      BY <3>1 DEF Upcoming
  <2>. QED
    BY <1>1, <1>2, <2>1, <2>2
<1>4. ASSUME NEW k \in Chunk, entries'[k] # None
      PROVE  /\ Busy(entries'[k], meshes'[k], uploads'[k], voxels'[k], k)
             /\ entries'[k].state = "generating" => \E q \in requests' : q.ticket = Carried(entries'[k], k)
             /\ entries'[k].state = "uploading" => \E i \in DOMAIN cuts' : k \in DOMAIN cuts'[i].required
  <2>1. Scheduled(entries[k], k)
    BY <1>1, <1>4, HereScheduled
  <2>2. Grouped(entries, cuts)
    BY DEF HeldInv
  <2>. QED
    BY <1>1, <1>4, <2>1, <2>2 DEF Scheduled, Grouped
<1>. QED
  BY <1>3, <1>4, HeldFrom

LEMMA ResyncHeld == ASSUME CurrentInv, HeldInv, NEW n, Resync(n) PROVE HeldInv'
<1>1. /\ entries' = Invalidated(entries) /\ UNCHANGED <<requests, voxels, shown>>
      /\ meshes' = Cleared(meshes, Chunk) /\ uploads' = Cleared(uploads, Chunk) /\ staged' = <<>>
  BY DEF Resync
<1>2. entries \in Entries /\ DOMAIN staged' = {}
  BY <1>1 DEF CurrentInv, ShapeInv
<1>3. ASSUME NEW k \in Chunk
      PROVE  /\ meshes'[k] = None /\ uploads'[k] = None
             /\ entries'[k] = None <=> entries[k] = None
             /\ entries'[k] # None => entries'[k].state = "queued_generation"
  <2>1. meshes'[k] = None /\ uploads'[k] = None
    BY <1>1 DEF Cleared
  <2>2. /\ entries[k] = None => entries'[k] = None
        /\ entries[k] # None => entries'[k] = RenewedEntry(entries[k], "queued_generation")
    BY <1>1 DEF Invalidated, TrackedIn, RenewedEntry
  <2>3. ASSUME entries[k] # None
        PROVE  entries'[k] # None /\ entries'[k].state = "queued_generation"
    <3>1. entries[k] \in Entry /\ "queued_generation" \in State
      BY <1>2, <2>3 DEF Entries, State
    <3>2. entries'[k] \in Entry /\ entries'[k].state = "queued_generation"
      BY <2>2, <2>3, <3>1, EntryRenewed
    <3>. QED
      BY <3>2, NoneAssumption
  <2>. QED
    BY <2>1, <2>2, <2>3
<1>4. ASSUME NEW k \in Chunk, entries'[k] # None
      PROVE  Busy(entries'[k], meshes'[k], uploads'[k], voxels'[k], k)
  <2>. DEFINE b == entries'[k]
              m == meshes'[k]
              v == voxels'[k]
  <2>1. b.state = "queued_generation" /\ uploads'[k] = None
    BY <1>3, <1>4
  <2>. HIDE DEF b, m, v
  <2>2. Busy(b, m, None, v, k)
    BY <2>1, BusyWithout
  <2>. QED
    BY <2>1, <2>2 DEF b, m, v
<1>5. ASSUME NEW k \in Chunk, entries'[k] = None
      PROVE  voxels'[k] = None /\ shown'[k] = None
  BY <1>1, <1>3, <1>5, HereScheduled
<1>. QED
  BY <1>2, <1>3, <1>4, <1>5, HeldFrom

\* An edit sets the tracked chunks it touches back, at their next revision.
LEMMA EditedIs ==
  ASSUME NEW es \in Entries, NEW ks, NEW k \in Chunk
  PROVE  /\ k \notin ks \/ es[k] = None => Edited(es, ks)[k] = es[k]
         /\ k \in ks /\ es[k] # None =>
              /\ Edited(es, ks)[k] \in Entry /\ Edited(es, ks)[k] # None
              /\ Edited(es, ks)[k].revision = es[k].revision + 1
              /\ Edited(es, ks)[k].state \in {"queued_generation", "queued_meshing"}
<1>1. k \notin ks \/ es[k] = None => Edited(es, ks)[k] = es[k]
  BY DEF Edited, TrackedIn
<1>2. ASSUME k \in ks, es[k] # None
      PROVE  /\ Edited(es, ks)[k] \in Entry /\ Edited(es, ks)[k] # None
             /\ Edited(es, ks)[k].revision = es[k].revision + 1
             /\ Edited(es, ks)[k].state \in {"queued_generation", "queued_meshing"}
  <2>. DEFINE e == es[k]
              s == IF e.state \in {"queued_generation", "generating"} THEN "queued_generation"
                   ELSE "queued_meshing"
  <2>1. Edited(es, ks)[k] = RenewedEntry(e, s)
    BY <1>2 DEF Edited, TrackedIn, RenewedEntry
  <2>2. s \in State /\ s \in {"queued_generation", "queued_meshing"}
    BY DEF State
  <2>3. e \in Entry
    BY <1>2 DEF Entries
  <2>. HIDE DEF e, s
  <2>4. 0 \in Nat /\ TRUE \in BOOLEAN
    OBVIOUS
  <2>5. RenewedEntry(e, s) \in Entry /\ RenewedEntry(e, s).state = s
    BY <2>2, <2>3, EntryRenewed
  <2>6. RenewedEntry(e, s).revision = e.revision + 1
    BY <2>3 DEF RenewedEntry, Entry
  <2>7. RenewedEntry(e, s) # None
    BY <2>5, NoneAssumption
  <2>. QED
    BY <2>1, <2>2, <2>5, <2>6, <2>7 DEF e
<1>. QED
  BY <1>1, <1>2

LEMMA HearHeld ==
  ASSUME CurrentInv, CutInv, HeldInv, NEW r \in 2..Revision, r \notin known, Hear(r)
  PROVE  HeldInv'
<1>. DEFINE ks == log[r - 1]
            edited == Edited(entries, ks)
            required == [k \in ks \cap Desired |-> edited[k].revision]
            new == [server |-> r, required |-> Merged(required).required]
            q == Append(Without(cuts, Merged(required).servers), new)
<1>0. /\ ShapeInv /\ entries \in Entries /\ cuts \in Seq(CutType) /\ r \in Nat /\ uploads \in Uploads
      /\ Apart(cuts) /\ \A i \in DOMAIN cuts : cuts[i].server \in known
  BY DEF CurrentInv, ShapeInv, CutInv, Revision
<1>1. r > watermark
  BY DEF CurrentInv, ShapeInv, Revision
<1>2. Observe(r) /\ UNCHANGED <<requests, meshes, uploads, shown>>
  BY <1>0, <1>1 DEF Hear, ShapeInv
<1>3. /\ entries' = edited
      /\ cuts' = IF DOMAIN required = {} THEN cuts ELSE q
      /\ voxels' = [k \in Chunk |-> IF k \in ks /\ voxels[k] # None THEN voxels[k] \cup {r} ELSE voxels[k]]
  BY <1>2 DEF Observe
<1>4. \A s \in DOMAIN staged' :
        \/ s \in DOMAIN staged /\ staged'[s] = staged[s]
        \/ DOMAIN staged'[s].uploads = {}
  <2>. DEFINE O == IF fence # None /\ \E p \in {o \in UNION {PagesOf[k] : k \in ks} : r > PageFloor(o)} : fence[p] < r
                   THEN {r} ELSE {}
              S == (DOMAIN staged \cup O) \ Superseded(r, required)
  <2>1. staged' = [s \in S |-> IF s \in DOMAIN staged THEN staged[s] ELSE Unprepared]
    BY <1>2 DEF Observe
  <2>2. DOMAIN Unprepared.uploads = {}
    <3>1. Unprepared.uploads = <<>>
      BY DEF Unprepared
    <3>2. \A x : x = <<>> => DOMAIN x = {}
      OBVIOUS
    <3>. QED
      BY <3>1, <3>2
  <2>. HIDE DEF S
  <2>. QED
    BY <2>1, <2>2
<1>5. required \in Required /\ DOMAIN required \subseteq ks
  BY <1>0, EditedRequired
<1>. HIDE DEF ks, edited, required, new, q
<1>6. ASSUME NEW k \in Chunk
      PROVE  /\ k \notin ks \/ entries[k] = None => entries'[k] = entries[k]
             /\ k \in ks /\ entries[k] # None =>
                  /\ entries'[k] \in Entry /\ entries'[k] # None
                  /\ entries'[k].revision = entries[k].revision + 1
                  /\ entries'[k].state \in {"queued_generation", "queued_meshing"}
  BY <1>0, <1>3, EditedIs DEF edited
<1>7. ASSUME NEW k \in Chunk
      PROVE  /\ k \notin ks => voxels'[k] = voxels[k]
             /\ voxels[k] = None => voxels'[k] = None
  BY <1>3
<1>8. ASSUME NEW k \in Chunk, entries'[k] # None
      PROVE  Busy(entries'[k], meshes'[k], uploads'[k], voxels'[k], k)
  <2>1. entries[k] # None
    BY <1>6, <1>8
  <2>2. Busy(entries[k], meshes[k], uploads[k], voxels[k], k) /\ entries[k] \in Entry
        /\ uploads[k] \in UploadTicket \cup {None}
    BY <1>0, <2>1, HereScheduled DEF Scheduled, Uploads
  <2>3. CASE k \in ks
    <3>1. /\ entries'[k] \in Entry /\ entries'[k].revision = entries[k].revision + 1
          /\ entries'[k].state \in {"queued_generation", "queued_meshing"}
      BY <1>6, <2>1, <2>3
    <3>2. Busy(entries'[k], meshes'[k], uploads[k], voxels'[k], k)
      BY <2>2, <3>1, BusyRenewed
    <3>. QED
      BY <1>2, <3>2
  <2>4. CASE k \notin ks
    BY <1>2, <1>6, <1>7, <2>2, <2>4
  <2>. QED
    BY <2>3, <2>4
<1>9. ASSUME NEW k \in Chunk, entries'[k] = None
      PROVE  /\ voxels'[k] = None /\ meshes'[k] = None /\ uploads'[k] = None /\ shown'[k] = None
             /\ \A s \in DOMAIN staged' : k \notin DOMAIN staged'[s].uploads
  <2>1. entries[k] = None
    BY <1>6, <1>9
  <2>2. /\ voxels[k] = None /\ meshes[k] = None /\ uploads[k] = None /\ shown[k] = None
        /\ \A s \in DOMAIN staged : k \notin DOMAIN staged[s].uploads
    BY <2>1, HereScheduled
  <2>. QED
    BY <1>2, <1>4, <1>7, <2>2
<1>10. ASSUME NEW k \in Chunk, entries'[k] # None, entries'[k].state = "generating"
       PROVE  \E p \in requests' : p.ticket = Carried(entries'[k], k)
  <2>1. entries'[k] = entries[k]
    BY <1>6, <1>10
  <2>. QED
    BY <1>2, <1>10, <2>1, HereScheduled DEF Scheduled
<1>11. ASSUME NEW k \in Chunk, entries'[k] # None, entries'[k].state = "uploading"
       PROVE  \E j \in DOMAIN cuts' : k \in DOMAIN cuts'[j].required
  <2>1. entries'[k] = entries[k]
    BY <1>6, <1>11
  <2>2. PICK i \in DOMAIN cuts : k \in DOMAIN cuts[i].required
    BY <1>11, <2>1 DEF HeldInv, Grouped
  <2>3. CASE DOMAIN required = {}
    BY <1>3, <2>2, <2>3
  <2>4. CASE DOMAIN required # {}
    <3>1. cuts' = q
      BY <1>3, <2>4
    <3>2. /\ \E j \in DOMAIN q : q[j] = new
          /\ \A j \in DOMAIN cuts : cuts[j].server \notin Merged(required).servers => \E m \in DOMAIN q : q[m] = cuts[j]
      <4>1. \A j \in DOMAIN cuts : cuts[j].server \in known
        BY <1>0
      <4>. QED
        BY <1>0, <1>5, <4>1, MergedCuts DEF q, new
    <3>3. CASE cuts[i].server \notin Merged(required).servers
      BY <2>2, <3>1, <3>2, <3>3
    <3>4. CASE cuts[i].server \in Merged(required).servers
      <4>1. PICK j \in DOMAIN cuts : /\ DOMAIN cuts[j].required \cap DOMAIN required # {}
                                     /\ cuts[j].server = cuts[i].server
        BY <3>4 DEF Merged
      <4>2. i = j
        BY <1>0, <4>1 DEF Apart
      <4>3. DOMAIN cuts[i].required \subseteq DOMAIN Merged(required).required
        BY <4>1, <4>2 DEF Merged
      <4>4. k \in DOMAIN new.required
        BY <2>2, <4>3 DEF new
      <4>. QED
        BY <3>1, <3>2, <4>4
    <3>. QED
      BY <3>3, <3>4
  <2>. QED
    BY <2>3, <2>4
<1>. QED
  BY <1>8, <1>9, <1>10, <1>11, HeldFrom

LEMMA HeldInit == ASSUME Init PROVE HeldInv
<1>1. \A k \in Chunk : /\ entries[k] = None /\ voxels[k] = None /\ meshes[k] = None
                       /\ uploads[k] = None /\ shown[k] = None
  BY DEF Init
<1>2. DOMAIN staged = {}
  BY DEF Init
<1>3. Works(Here, {})
  BY <1>1, <1>2 DEF Works, Here, Gone
<1>. QED
  BY <1>1, <1>3 DEF HeldInv, Asked, Grouped

LEMMA HeldNext == ASSUME CurrentInv, CutInv, HeldInv, [Next]_vars PROVE HeldInv'
<1>1. ASSUME NEW f \in FocusPoint, NEW interest \in Interests, NEW failing \in SUBSET Chunk,
             Frame(f, interest, failing)
      PROVE  HeldInv'
  BY <1>1, FrameHeld
<1>2. ASSUME NEW ks \in Cuts, Commit(ks) PROVE HeldInv'
  BY <1>2, CommitHeld
<1>3. ASSUME NEW q \in requests, RequestFails(q) PROVE HeldInv'
  BY <1>3, RequestFailsHeld
<1>4. ASSUME NEW q \in requests, NEW n \in q.asof..Revision, Receive(q, n) PROVE HeldInv'
  BY <1>4, ReceiveHeld
<1>5. ASSUME NEW r \in 2..Revision \ known, Hear(r) PROVE HeldInv'
  BY <1>5, HearHeld
<1>6. ASSUME NEW n \in 2..Revision, Resync(n) PROVE HeldInv'
  BY <1>6, ResyncHeld
<1>7. ASSUME NEW pages \in [Page -> 1..Revision], Present(pages) PROVE HeldInv'
  BY <1>7, PresentHeld
<1>8. CASE UNCHANGED vars
  BY <1>8, IdleHeld DEF vars, authorityVars, schedulerVars, hostVars, rendererVars
<1>. QED
  BY <1>1, <1>2, <1>3, <1>4, <1>5, <1>6, <1>7, <1>8 DEF Next

LEMMA WorkHeld == Spec => []HeldInv
<1>1. Init => HeldInv
  BY HeldInit
<1>2. CurrentInv /\ CutInv /\ HeldInv /\ [Next]_vars => HeldInv'
  BY HeldNext
<1>. QED
  BY <1>1, <1>2, CutsHold, PTL DEF Spec

\* No ticket is lost: a chunk being generated has its request under way, one to
\* be uploaded has the mesh of the voxels held, one being uploaded has its ticket
\* and a cut that waits for it, and drain_evictions and the resync leave nothing
\* of a chunk that was given up, whatever is retried, merged or superseded.
THEOREM WorkStaysHeld == Spec => []WorkIsHeld
<1>1. ASSUME CurrentInv, HeldInv PROVE WorkIsHeld
  <2>1. SUFFICES ASSUME NEW k \in Chunk
        PROVE  /\ StateOf(k) = "generating" => \E q \in requests : q.ticket = TicketOf(k, entries)
               /\ StateOf(k) # "meshing"
               /\ StateOf(k) \in {"queued_upload", "uploading"} =>
                    /\ meshes[k] # None /\ meshes[k].revision = entries[k].revision
                    /\ meshes[k].shows = voxels[k]
               /\ StateOf(k) = "uploading" =>
                    uploads[k] = TicketOf(k, entries) /\ \E i \in DOMAIN cuts : k \in DOMAIN cuts[i].required
               /\ k \notin Tracked =>
                    /\ {voxels[k], meshes[k], uploads[k], shown[k]} = {None}
                    /\ \A r \in DOMAIN staged : k \notin DOMAIN staged[r].uploads
    BY DEF WorkIsHeld
  <2>2. /\ entries[k] # None => Scheduled(entries[k], k)
        /\ entries[k] = None => /\ voxels[k] = None /\ meshes[k] = None /\ uploads[k] = None /\ shown[k] = None
                                /\ \A r \in DOMAIN staged : k \notin DOMAIN staged[r].uploads
    BY <1>1, HereScheduled
  <2>3. TicketOf(k, entries) = Carried(entries[k], k)
    BY CarriedIs
  <2>4. CASE k \in Tracked
    <3>1. entries[k] # None /\ StateOf(k) = entries[k].state
      BY <2>4 DEF Tracked, StateOf
    <3>2. Grouped(entries, cuts)
      BY <1>1 DEF HeldInv
    <3>. QED
      BY <2>2, <2>3, <2>4, <3>1, <3>2 DEF Scheduled, Busy, Grouped
  <2>5. CASE k \notin Tracked
    BY <2>2, <2>5 DEF Tracked, StateOf
  <2>. QED
    BY <2>4, <2>5
<1>. QED
  BY <1>1, CutsHold, WorkHeld, PTL DEF Spec

-----------------------------------------------------------------------------
(* What is shown follows what is held, as long as commits come in order,   *)
(* touch no chunk that is kept but not wanted, and are held back wherever  *)
(* an older mesh of what they change is.                                   *)

InOrder == ~late /\ ~aside /\ ~overlaid

\* The staged changes that hold an upload of chunk k.
Stagings(h, k) == {r \in DOMAIN h.staged : k \in DOMAIN h.staged[r].uploads}
Unstaged(h, k) == Stagings(h, k) = {}
NoneAfter(h, k, r) == \A s \in Stagings(h, k) : s <= r

\* What the renderer will show of chunk k once everything prepared is presented.
Sees(h, k, v) ==
  \/ Unstaged(h, k) /\ h.shown[k] = v
  \/ \E r \in Stagings(h, k) : NoneAfter(h, k, r) /\ h.staged[r].uploads[k] = v

\* The cut will replace whatever is staged of chunk k.
ReplacedBy(h, k, cut) ==
  /\ k \in DOMAIN cut.required /\ cut.required[k] = h.entries[k].revision
  /\ cut.server \in DOMAIN h.staged /\ NoneAfter(h, k, cut.server)
Replaces(h, k) == \E i \in DOMAIN h.cuts : ReplacedBy(h, k, h.cuts[i])

\* A resident chunk is shown with the voxels v; what is staged of another will go.
Settled(h, k, v) ==
  /\ Resident(h.entries, k) => Sees(h, k, v)
  /\ h.entries[k] # None /\ ~Resident(h.entries, k) => Unstaged(h, k) \/ Replaces(h, k)

\* The change of a cut that is still to be prepared holds no uploads.
Empty(h) ==
  \A i \in DOMAIN h.cuts : h.cuts[i].server \in DOMAIN h.staged =>
    DOMAIN h.staged[h.cuts[i].server].uploads = {}

Shows(h) == DOMAIN h.staged \subseteq Nat /\ Empty(h) /\ \A k \in Chunk : Settled(h, k, voxels[k])

\* Only changes that were heard of are staged.
StagedHeard == DOMAIN staged \subseteq known

ShownInv == InOrder => Shows(Here) /\ StagedHeard

-----------------------------------------------------------------------------
(* What a step must leave alone for a chunk to stay settled.               *)

Alike(g, h, k) ==
  /\ Stagings(g, k) = Stagings(h, k)
  /\ \A r \in Stagings(h, k) : g.staged[r].uploads[k] = h.staged[r].uploads[k]

\* The chunk's entry may change, but not whether it is tracked, resident, or its revision.
Still(g, h, k) ==
  /\ g.entries[k] = None <=> h.entries[k] = None
  /\ Resident(g.entries, k) <=> Resident(h.entries, k)
  /\ h.entries[k] # None => g.entries[k].revision = h.entries[k].revision

LEMMA AlikeSees ==
  ASSUME NEW g, NEW h, NEW k, Alike(g, h, k)
  PROVE  /\ Unstaged(g, k) <=> Unstaged(h, k)
         /\ \A r : NoneAfter(g, k, r) <=> NoneAfter(h, k, r)
         /\ \A v : g.shown[k] = h.shown[k] /\ Sees(h, k, v) => Sees(g, k, v)
<1>1. /\ Unstaged(g, k) <=> Unstaged(h, k)
      /\ \A r : NoneAfter(g, k, r) <=> NoneAfter(h, k, r)
  BY DEF Alike, Unstaged, NoneAfter
<1>2. ASSUME NEW v, g.shown[k] = h.shown[k], Sees(h, k, v) PROVE Sees(g, k, v)
  <2>1. CASE Unstaged(h, k) /\ h.shown[k] = v
    BY <1>1, <1>2, <2>1 DEF Sees
  <2>2. CASE \E r \in Stagings(h, k) : NoneAfter(h, k, r) /\ h.staged[r].uploads[k] = v
    BY <1>1, <2>2 DEF Sees, Alike
  <2>. QED
    BY <1>2, <2>1, <2>2 DEF Sees
<1>. QED
  BY <1>1, <1>2

LEMMA SettledOn ==
  ASSUME NEW g, NEW h, NEW k, NEW v, Settled(h, k, v), Alike(g, h, k), g.shown[k] = h.shown[k],
         Still(g, h, k),
         h.entries[k] # None /\ ~Resident(h.entries, k) /\ Replaces(h, k) => Unstaged(g, k) \/ Replaces(g, k)
  PROVE  Settled(g, k, v)
<1>1. Unstaged(g, k) <=> Unstaged(h, k)
  BY AlikeSees
<1>2. Sees(h, k, v) => Sees(g, k, v)
  BY AlikeSees
<1>3. Resident(g.entries, k) => Sees(g, k, v)
  BY <1>2 DEF Settled, Still
<1>4. g.entries[k] # None /\ ~Resident(g.entries, k) => Unstaged(g, k) \/ Replaces(g, k)
  BY <1>1 DEF Settled, Still
<1>. QED
  BY <1>3, <1>4 DEF Settled

LEMMA ReplacedOn ==
  ASSUME NEW g, NEW h, NEW k, NEW cut, ReplacedBy(h, k, cut), Alike(g, h, k),
         g.entries[k].revision = h.entries[k].revision,
         NEW j \in DOMAIN g.cuts, g.cuts[j].server = cut.server, cut.server \in DOMAIN g.staged,
         k \in DOMAIN g.cuts[j].required, g.cuts[j].required[k] = cut.required[k]
  PROVE  Replaces(g, k)
<1>1. NoneAfter(g, k, cut.server)
  BY AlikeSees DEF ReplacedBy
<1>2. ReplacedBy(g, k, g.cuts[j])
  BY <1>1 DEF ReplacedBy
<1>. QED
  BY <1>2 DEF Replaces

\* Nothing but the entries and the work of the host changes.
LEMMA KeptSettled ==
  ASSUME NEW g, NEW h, g.staged = h.staged, g.cuts = h.cuts,
         NEW k, NEW v, Settled(h, k, v), Still(g, h, k), g.shown[k] = h.shown[k]
  PROVE  Settled(g, k, v)
<1>1. Alike(g, h, k)
  BY DEF Alike, Stagings
<1>2. ASSUME h.entries[k] # None, Replaces(h, k) PROVE Replaces(g, k)
  <2>1. PICK i \in DOMAIN h.cuts : ReplacedBy(h, k, h.cuts[i])
    BY <1>2 DEF Replaces
  <2>2. h.cuts[i].server \in DOMAIN h.staged /\ k \in DOMAIN h.cuts[i].required
    BY <2>1 DEF ReplacedBy
  <2>3. g.entries[k].revision = h.entries[k].revision
    BY <1>2 DEF Still
  <2>. QED
    BY <1>1, <2>1, <2>2, <2>3, ReplacedOn
<1>. QED
  BY <1>1, <1>2, SettledOn

LEMMA ShowsOn ==
  ASSUME NEW g, NEW h, Shows(h), g.staged = h.staged, g.cuts = h.cuts,
         \A k \in Chunk : Still(g, h, k) /\ g.shown[k] = h.shown[k]
  PROVE  Shows(g)
<1>1. Empty(g)
  BY DEF Shows, Empty
<1>2. ASSUME NEW k \in Chunk PROVE Settled(g, k, voxels[k])
  BY KeptSettled DEF Shows
<1>. QED
  BY <1>1, <1>2 DEF Shows

-----------------------------------------------------------------------------
(* A cut is visited.                                                       *)

\* The change of the server now holds the meshes of ks in the place of all older ones;
\* with no change to prepare they are shown at once.
Put(g, h, server, ks, fails) ==
  /\ DOMAIN g.staged = DOMAIN h.staged
  /\ \A r \in DOMAIN h.staged : r # server =>
       DOMAIN g.staged[r].uploads \subseteq DOMAIN h.staged[r].uploads
  /\ server \in DOMAIN h.staged =>
       /\ g.shown = h.shown
       /\ \A k : k \notin ks => Alike(g, h, k)
       /\ \A k \in ks :
            /\ fails => Unstaged(g, k)
            /\ ~fails => Stagings(g, k) = {server} /\ g.staged[server].uploads[k] = h.meshes[k].shows
       /\ fails => DOMAIN g.staged[server].uploads = {}
  /\ server \notin DOMAIN h.staged =>
       /\ g.staged = h.staged
       /\ \A k \in Chunk : g.shown[k] = IF ~fails /\ k \in ks THEN h.meshes[k].shows ELSE h.shown[k]

\* Staging a change, when none of its chunks has a newer upload.
LEMMA StagedIs ==
  ASSUME NEW h, Host(h), IsStaged(h.staged), DOMAIN h.staged \subseteq Nat, NEW server \in Nat,
         NEW ks \in SUBSET Chunk, NEW fails \in BOOLEAN, NEW g, g = Staged(h, server, ks, fails),
         server \in DOMAIN h.staged => DOMAIN h.staged[server].uploads = {},
         \A k \in ks : NoneAfter(h, k, server)
  PROVE  Put(g, h, server, ks, fails)
<1>0. DOMAIN h = {"entries", "meshes", "uploads", "cuts", "shown", "staged"}
  BY DEF Host, Fields
<1>. DEFINE kept == {k \in ks : ~HasNewerUpload(k, server, h.staged)}
            put == [ready |-> TRUE, uploads |-> [k \in kept |-> h.meshes[k].shows]]
            last == IF fails THEN Unprepared ELSE put
            older == Superseding(server, kept, h.staged)
<1>1. kept = ks
  <2>1. ASSUME NEW k \in ks, HasNewerUpload(k, server, h.staged) PROVE FALSE
    <3>1. PICK r \in DOMAIN h.staged : r > server /\ k \in DOMAIN h.staged[r].uploads
      BY <2>1 DEF HasNewerUpload
    <3>2. r \in Stagings(h, k) /\ r \in Nat
      BY <3>1 DEF Stagings
    <3>3. r <= server
      BY <3>2 DEF NoneAfter
    <3>. QED
      BY <3>1, <3>2, <3>3
  <2>. QED
    BY <2>1
<1>2. /\ server \in DOMAIN h.staged => g = [h EXCEPT !.staged = [older EXCEPT ![server] = last]]
      /\ server \notin DOMAIN h.staged => g = [h EXCEPT !.shown = IF fails THEN @ ELSE Showing(h, ks)]
  BY DEF Staged
<1>3. /\ DOMAIN older = DOMAIN h.staged
      /\ \A r \in DOMAIN h.staged : older[r] = IF r < server THEN Stripped(h.staged[r], ks) ELSE h.staged[r]
  BY <1>1 DEF Superseding
<1>. HIDE DEF older
<1>4. /\ fails => DOMAIN last.uploads = {}
      /\ ~fails => DOMAIN last.uploads = ks /\ \A k \in ks : last.uploads[k] = h.meshes[k].shows
  BY <1>1 DEF Unprepared
<1>. HIDE DEF kept, last
<1>5. CASE server \in DOMAIN h.staged
  <2>1. g.staged = [older EXCEPT ![server] = last] /\ g.shown = h.shown
    BY <1>0, <1>2, <1>5
  <2>2. /\ DOMAIN g.staged = DOMAIN h.staged /\ g.staged[server] = last
        /\ \A r \in DOMAIN h.staged : r # server => g.staged[r] = older[r]
    BY <1>3, <1>5, <2>1
  <2>3. ASSUME NEW r \in DOMAIN h.staged, r # server
        PROVE  /\ r < server => DOMAIN g.staged[r].uploads = DOMAIN h.staged[r].uploads \ ks
               /\ r < server => \A k \in DOMAIN g.staged[r].uploads :
                                  g.staged[r].uploads[k] = h.staged[r].uploads[k]
               /\ ~(r < server) => g.staged[r] = h.staged[r]
    <3>1. IsChange(h.staged[r])
      BY DEF IsStaged
    <3>2. g.staged[r] = older[r]
      BY <2>2, <2>3
    <3>3. r < server => g.staged[r] = Stripped(h.staged[r], ks)
      BY <1>3, <3>2
    <3>4. Stripped(h.staged[r], ks).uploads = Only(h.staged[r].uploads, DOMAIN h.staged[r].uploads \ ks)
      BY <3>1 DEF Stripped, IsChange
    <3>5. ~(r < server) => g.staged[r] = h.staged[r]
      BY <1>3, <3>2
    <3>. QED
      BY <3>3, <3>4, <3>5 DEF Only
  <2>4. \A r \in DOMAIN h.staged : r # server => DOMAIN g.staged[r].uploads \subseteq DOMAIN h.staged[r].uploads
    BY <2>3
  <2>5. ASSUME NEW k, k \notin ks PROVE Alike(g, h, k)
    <3>1. k \notin DOMAIN g.staged[server].uploads /\ k \notin DOMAIN h.staged[server].uploads
      BY <1>4, <1>5, <2>2, <2>5
    <3>2. \A r \in DOMAIN h.staged : r # server =>
            /\ k \in DOMAIN g.staged[r].uploads <=> k \in DOMAIN h.staged[r].uploads
            /\ k \in DOMAIN h.staged[r].uploads => g.staged[r].uploads[k] = h.staged[r].uploads[k]
      BY <2>3, <2>5
    <3>3. Stagings(g, k) = Stagings(h, k)
      BY <2>2, <3>1, <3>2 DEF Stagings
    <3>4. ASSUME NEW r \in Stagings(h, k) PROVE g.staged[r].uploads[k] = h.staged[r].uploads[k]
      BY <3>1, <3>2 DEF Stagings
    <3>. QED
      BY <3>3, <3>4 DEF Alike
  <2>6. ASSUME NEW k \in ks
        PROVE  /\ fails => Unstaged(g, k)
               /\ ~fails => Stagings(g, k) = {server} /\ g.staged[server].uploads[k] = h.meshes[k].shows
    <3>1. \A r \in DOMAIN h.staged : k \in DOMAIN h.staged[r].uploads => r <= server
      BY DEF NoneAfter, Stagings
    <3>2. \A r \in DOMAIN h.staged : r # server => k \notin DOMAIN g.staged[r].uploads
      <4>. TAKE r \in DOMAIN h.staged
      <4>1. CASE r # server /\ r < server
        BY <2>3, <4>1
      <4>2. CASE r # server /\ ~(r < server)
        <5>1. g.staged[r] = h.staged[r]
          BY <2>3, <4>2
        <5>2. k \notin DOMAIN h.staged[r].uploads
          <6>1. r \in Nat
            OBVIOUS
          <6>. QED
            BY <3>1, <4>2, <6>1
        <5>. QED
          BY <5>1, <5>2
      <4>. QED
        BY <4>1, <4>2
    <3>3. fails => k \notin DOMAIN g.staged[server].uploads
      BY <1>4, <2>2
    <3>4. ~fails => k \in DOMAIN g.staged[server].uploads /\ g.staged[server].uploads[k] = h.meshes[k].shows
      BY <1>4, <2>2
    <3>. QED
      BY <1>5, <2>2, <3>2, <3>3, <3>4 DEF Unstaged, Stagings
  <2>7. fails => DOMAIN g.staged[server].uploads = {}
    BY <1>4, <2>2
  <2>. QED
    BY <1>5, <2>1, <2>2, <2>4, <2>5, <2>6, <2>7 DEF Put
<1>6. CASE server \notin DOMAIN h.staged
  <2>1. g.staged = h.staged /\ g.shown = IF fails THEN h.shown ELSE Showing(h, ks)
    BY <1>0, <1>2, <1>6
  <2>2. \A k \in Chunk : g.shown[k] = IF ~fails /\ k \in ks THEN h.meshes[k].shows ELSE h.shown[k]
    BY <2>1 DEF Showing
  <2>. QED
    BY <1>6, <2>1, <2>2 DEF Put
<1>. QED
  BY <1>5, <1>6 DEF Put

\* The publication has got to cut n, and the later ones are as they were.
Visits(h, n, gone) ==
  /\ Linked(h, n) /\ Hosts(h, gone) /\ Shows(h)
  /\ \A m \in n + 1..Len(cuts) : \E j \in DOMAIN h.cuts : h.cuts[j] = cuts[m]

LEMMA VisitIs ==
  ASSUME cuts \in Seq(CutType), Apart(cuts), NEW n \in 1..Len(cuts), NEW h, NEW gone, Visits(h, n - 1, gone)
  PROVE  /\ cuts[n] \in CutType /\ cuts[n].required \in Required /\ cuts[n].server \in Nat
         /\ h.cuts \in Seq(CutType) /\ Apart(h.cuts)
         /\ \A j \in DOMAIN h.cuts : h.cuts[j].server # cuts[n].server => Disjoint(h.cuts[j], cuts[n])
         /\ \A j \in DOMAIN h.cuts : h.cuts[j].server = cuts[n].server => h.cuts[j] = cuts[n]
         /\ \E j \in DOMAIN h.cuts : h.cuts[j] = cuts[n]
         /\ \A m \in n + 1..Len(cuts) : /\ cuts[m].server # cuts[n].server
                                        /\ \E j \in DOMAIN h.cuts : h.cuts[j] = cuts[m]
<1>1. Linked(h, n - 1)
  BY DEF Visits
<1>2. /\ cuts[n] \in CutType /\ cuts[n].required \in Required
      /\ \A j \in DOMAIN h.cuts : h.cuts[j].server # cuts[n].server => Disjoint(h.cuts[j], cuts[n])
      /\ \A m \in n + 1..Len(cuts) : cuts[m].server # cuts[n].server
  BY <1>1, OthersAreApart
<1>3. n \in (n - 1) + 1..Len(cuts) /\ n + 1..Len(cuts) \subseteq (n - 1) + 1..Len(cuts)
  OBVIOUS
<1>4. PICK j \in DOMAIN h.cuts : h.cuts[j] = cuts[n]
  BY <1>3 DEF Visits
<1>5. \A i \in DOMAIN h.cuts : h.cuts[i].server = cuts[n].server => h.cuts[i] = cuts[n]
  BY <1>1, <1>4 DEF Linked, Apart
<1>6. \A m \in n + 1..Len(cuts) : \E i \in DOMAIN h.cuts : h.cuts[i] = cuts[m]
  BY <1>3 DEF Visits
<1>7. h.cuts \in Seq(CutType) /\ Apart(h.cuts)
  BY <1>1 DEF Linked, Host
<1>8. cuts[n].server \in Nat
  BY <1>2 DEF CutType
<1>. QED
  BY <1>2, <1>4, <1>5, <1>6, <1>7, <1>8

\* Chunks that do not wait for the cut stay settled.
LEMMA OtherSettled ==
  ASSUME cuts \in Seq(CutType), Apart(cuts), NEW n \in 1..Len(cuts), NEW h, NEW gone, Visits(h, n - 1, gone),
         NEW g, NEW k \in Chunk, Alike(g, h, k), g.shown[k] = h.shown[k], Still(g, h, k),
         h.entries[k] # None => ~(k \in DOMAIN cuts[n].required /\ cuts[n].required[k] = h.entries[k].revision),
         \A i \in DOMAIN h.cuts : h.cuts[i].server # cuts[n].server =>
           \E j \in DOMAIN g.cuts : g.cuts[j] = h.cuts[i],
         \A r \in DOMAIN h.staged : r # cuts[n].server => r \in DOMAIN g.staged
  PROVE  Settled(g, k, voxels[k])
<1>1. Settled(h, k, voxels[k])
  BY DEF Visits, Shows
<1>2. ASSUME h.entries[k] # None, Replaces(h, k) PROVE Replaces(g, k)
  <2>1. PICK i \in DOMAIN h.cuts : ReplacedBy(h, k, h.cuts[i])
    BY <1>2 DEF Replaces
  <2>2. /\ k \in DOMAIN h.cuts[i].required /\ h.cuts[i].required[k] = h.entries[k].revision
        /\ h.cuts[i].server \in DOMAIN h.staged
    BY <2>1 DEF ReplacedBy
  <2>3. h.cuts[i].server # cuts[n].server
    <3>1. h.cuts[i].server = cuts[n].server => h.cuts[i] = cuts[n]
      BY VisitIs
    <3>. QED
      BY <1>2, <2>2, <3>1
  <2>4. PICK j \in DOMAIN g.cuts : g.cuts[j] = h.cuts[i]
    BY <2>3
  <2>5. g.entries[k].revision = h.entries[k].revision
    BY <1>2 DEF Still
  <2>. QED
    BY <2>1, <2>2, <2>3, <2>4, <2>5, ReplacedOn
<1>. QED
  BY <1>1, <1>2, SettledOn

LEMMA EmptyOn ==
  ASSUME NEW g, NEW h, NEW s, Empty(h),
         \A j \in DOMAIN g.cuts : \E i \in DOMAIN h.cuts : h.cuts[i].server = g.cuts[j].server,
         \A r \in DOMAIN g.staged :
           r \in DOMAIN h.staged /\ (r # s => DOMAIN g.staged[r].uploads \subseteq DOMAIN h.staged[r].uploads),
         \A j \in DOMAIN g.cuts : g.cuts[j].server = s /\ s \in DOMAIN g.staged => DOMAIN g.staged[s].uploads = {}
  PROVE  Empty(g)
<1>. SUFFICES ASSUME NEW j \in DOMAIN g.cuts, g.cuts[j].server \in DOMAIN g.staged
              PROVE  DOMAIN g.staged[g.cuts[j].server].uploads = {}
  BY DEF Empty
<1>. DEFINE r == g.cuts[j].server
<1>1. PICK i \in DOMAIN h.cuts : h.cuts[i].server = r
  OBVIOUS
<1>2. r \in DOMAIN h.staged
  OBVIOUS
<1>3. DOMAIN h.staged[r].uploads = {}
  BY <1>1, <1>2 DEF Empty
<1>4. CASE r = s
  BY <1>4
<1>5. CASE r # s
  BY <1>3, <1>5
<1>. QED
  BY <1>4, <1>5

\* The cuts of h other than the server's are still there, and no other server's came.
Others(g, h, s) ==
  /\ \A i \in DOMAIN h.cuts : h.cuts[i].server # s => \E j \in DOMAIN g.cuts : g.cuts[j] = h.cuts[i]
  /\ \A j \in DOMAIN g.cuts : \E i \in DOMAIN h.cuts : h.cuts[i].server = g.cuts[j].server

\* w is q without the cuts of the server s.
Lacks(w, q, s) ==
  /\ \A j \in DOMAIN w : \E i \in DOMAIN q : w[j] = q[i] /\ q[i].server # s
  /\ \A i \in DOMAIN q : q[i].server # s => \E j \in DOMAIN w : w[j] = q[i]

LEMMA WithoutLacks ==
  ASSUME NEW q \in Seq(CutType), Apart(q), NEW s
  PROVE  Lacks(Without(q, {s}), q, s)
<1>. DEFINE S == {s}
<1>1. \A x : x \notin S <=> x # s
  OBVIOUS
<1>. HIDE DEF S
<1>2. /\ \A j \in DOMAIN Without(q, S) : \E i \in DOMAIN q :
           Without(q, S)[j] = q[i] /\ q[i].server \notin S
      /\ \A i \in DOMAIN q : q[i].server \notin S =>
           \E j \in DOMAIN Without(q, S) : Without(q, S)[j] = q[i]
  BY WithoutIs
<1>. DEFINE w == Without(q, S)
<1>3. Lacks(w, q, s)
  <2>. HIDE DEF w
  <2>1. \A j \in DOMAIN w : \E i \in DOMAIN q : w[j] = q[i] /\ q[i].server \notin S
    BY <1>2 DEF w
  <2>2. \A i \in DOMAIN q : q[i].server \notin S => \E j \in DOMAIN w : w[j] = q[i]
    BY <1>2 DEF w
  <2>. QED
    BY <1>1, <2>1, <2>2 DEF Lacks
<1>. QED
  BY <1>3 DEF S

LEMMA GoneOthers ==
  ASSUME NEW h, h.cuts \in Seq(CutType), Apart(h.cuts), NEW s, NEW g, g.cuts = Without(h.cuts, {s})
  PROVE  Others(g, h, s) /\ \A j \in DOMAIN g.cuts : g.cuts[j].server # s
<1>1. Lacks(g.cuts, h.cuts, s)
  BY WithoutLacks
<1>. QED
  BY <1>1 DEF Lacks, Others

\* w is q with the server's cut trimmed to what is required of it now.
Trims(w, q, cut, required) ==
  /\ DOMAIN w = DOMAIN q
  /\ \A j \in DOMAIN q :
       /\ q[j].server # cut.server => w[j] = q[j]
       /\ q[j].server = cut.server => w[j].server = cut.server /\ w[j].required = required

LEMMA TrimmedTrims ==
  ASSUME NEW q, NEW cut \in CutType, NEW required
  PROVE  Trims(Trimmed(q, cut, required), q, cut, required)
<1>1. [cut EXCEPT !.required = required].server = cut.server /\ [cut EXCEPT !.required = required].required = required
  BY DEF CutType
<1>. QED
  BY <1>1 DEF Trims, Trimmed

LEMMA TrimsOthers ==
  ASSUME NEW h, NEW g, NEW cut, NEW required, Trims(g.cuts, h.cuts, cut, required)
  PROVE  Others(g, h, cut.server)
BY DEF Trims, Others

LEMMA LaterStay ==
  ASSUME cuts \in Seq(CutType), Apart(cuts), NEW n \in 1..Len(cuts), NEW h, NEW gone, Visits(h, n - 1, gone),
         NEW g, Others(g, h, cuts[n].server)
  PROVE  \A m \in n + 1..Len(cuts) : \E j \in DOMAIN g.cuts : g.cuts[j] = cuts[m]
<1>1. \A m \in n + 1..Len(cuts) : /\ cuts[m].server # cuts[n].server
                                  /\ \E j \in DOMAIN h.cuts : h.cuts[j] = cuts[m]
  BY VisitIs
<1>. QED
  BY <1>1 DEF Others

\* Nothing of the cut is wanted any more: it goes, and so does its change.
LEMMA EmptiedShows ==
  ASSUME cuts \in Seq(CutType), Apart(cuts), NEW n \in 1..Len(cuts), NEW h, NEW gone, Visits(h, n - 1, gone),
         NEW g, g.entries = h.entries, g.shown = h.shown,
         Others(g, h, cuts[n].server), \A j \in DOMAIN g.cuts : g.cuts[j].server # cuts[n].server,
         DOMAIN g.staged = DOMAIN h.staged \ {cuts[n].server},
         \A r \in DOMAIN g.staged : g.staged[r] = h.staged[r],
         \A k \in Chunk : h.entries[k] # None =>
           ~(k \in DOMAIN cuts[n].required /\ cuts[n].required[k] = h.entries[k].revision)
  PROVE  Shows(g)
<1>1. \E j \in DOMAIN h.cuts : h.cuts[j] = cuts[n]
  BY VisitIs
<1>3. Empty(h) /\ DOMAIN h.staged \subseteq Nat
  BY DEF Visits, Shows
<1>4. cuts[n].server \in DOMAIN h.staged => DOMAIN h.staged[cuts[n].server].uploads = {}
  BY <1>1, <1>3 DEF Empty
<1>5. ASSUME NEW k \in Chunk PROVE Settled(g, k, voxels[k])
  <2>1. Stagings(g, k) = Stagings(h, k)
    BY <1>4 DEF Stagings
  <2>2. Alike(g, h, k)
    BY <2>1 DEF Alike, Stagings
  <2>3. Still(g, h, k) /\ g.shown[k] = h.shown[k]
    BY DEF Still
  <2>. QED
    BY <2>2, <2>3, OtherSettled DEF Others
<1>6. Empty(g)
  BY <1>3, EmptyOn DEF Others
<1>. QED
  BY <1>3, <1>5, <1>6 DEF Shows

\* The cut waits for what is left of it.
LEMMA WaitingShows ==
  ASSUME cuts \in Seq(CutType), Apart(cuts), NEW n \in 1..Len(cuts), NEW h, NEW gone, Visits(h, n - 1, gone),
         NEW g, g.entries = h.entries, g.shown = h.shown, g.staged = h.staged,
         NEW current, Others(g, h, cuts[n].server),
         NEW i \in DOMAIN g.cuts, g.cuts[i].server = cuts[n].server, g.cuts[i].required = current,
         \A k \in DOMAIN current : current[k] = cuts[n].required[k],
         \A k \in Chunk : h.entries[k] # None =>
           (k \in DOMAIN cuts[n].required /\ cuts[n].required[k] = h.entries[k].revision <=> k \in DOMAIN current)
  PROVE  Shows(g)
<1>1. \E j \in DOMAIN h.cuts : h.cuts[j] = cuts[n]
  BY VisitIs
<1>3. Empty(h) /\ DOMAIN h.staged \subseteq Nat
  BY DEF Visits, Shows
<1>4. cuts[n].server \in DOMAIN h.staged => DOMAIN h.staged[cuts[n].server].uploads = {}
  BY <1>1, <1>3 DEF Empty
<1>5. ASSUME NEW k \in Chunk PROVE Settled(g, k, voxels[k])
  <2>1. Alike(g, h, k)
    BY DEF Alike, Stagings
  <2>2. Still(g, h, k) /\ g.shown[k] = h.shown[k]
    BY DEF Still
  <2>3. CASE h.entries[k] # None => k \notin DOMAIN current
    BY <2>1, <2>2, <2>3, OtherSettled DEF Others
  <2>4. CASE h.entries[k] # None /\ k \in DOMAIN current
    <3>1. ASSUME Replaces(h, k) PROVE Replaces(g, k)
      <4>1. PICK j \in DOMAIN h.cuts : ReplacedBy(h, k, h.cuts[j])
        BY <3>1 DEF Replaces
      <4>2. k \in DOMAIN h.cuts[j].required /\ h.cuts[j].server \in DOMAIN h.staged
        BY <4>1 DEF ReplacedBy
      <4>3. h.cuts[j] = cuts[n]
        <5>1. h.cuts[j].server # cuts[n].server => Disjoint(h.cuts[j], cuts[n])
          BY VisitIs
        <5>2. h.cuts[j].server = cuts[n].server => h.cuts[j] = cuts[n]
          BY VisitIs
        <5>3. k \in DOMAIN cuts[n].required
          BY <2>4
        <5>. QED
          BY <4>2, <5>1, <5>2, <5>3 DEF Disjoint
      <4>4. i \in DOMAIN g.cuts /\ k \in DOMAIN g.cuts[i].required /\ g.cuts[i].required[k] = h.cuts[j].required[k]
        BY <2>4, <4>3
      <4>. QED
        BY <2>1, <4>1, <4>2, <4>3, <4>4, ReplacedOn
    <3>2. Settled(h, k, voxels[k])
      BY DEF Visits, Shows
    <3>. QED
      BY <2>1, <2>2, <3>1, <3>2, SettledOn
  <2>. QED
    BY <2>3, <2>4
<1>6. Empty(g)
  BY <1>3, <1>4, EmptyOn DEF Others
<1>. QED
  BY <1>3, <1>5, <1>6 DEF Shows

\* A chunk that is ready has the mesh of its voxels, and its cut replaces what is staged of it.
LEMMA ReadyIs ==
  ASSUME cuts \in Seq(CutType), Apart(cuts), NEW n \in 1..Len(cuts), NEW h, NEW gone, Visits(h, n - 1, gone),
         NEW k \in Chunk, h.entries[k] # None, Has(h, k, h.entries[k].revision),
         k \in DOMAIN cuts[n].required
  PROVE  /\ Carries(h, k) /\ h.meshes[k].shows = voxels[k] /\ ~Resident(h.entries, k)
         /\ NoneAfter(h, k, cuts[n].server)
         /\ cuts[n].server \notin DOMAIN h.staged => Unstaged(h, k)
<1>1. /\ h.entries \in Entries /\ h.uploads \in Uploads
      /\ Busy(h.entries[k], h.meshes[k], h.uploads[k], voxels[k], k)
  BY DEF Visits, Hosts, Host, Works
<1>2. h.uploads[k] # None /\ h.uploads[k].revision = h.entries[k].revision
  BY DEF Has
<1>3. h.uploads[k] = Carried(h.entries[k], k)
  BY <1>1, <1>2 DEF Busy
<1>4. h.entries[k].state = "uploading"
  <2>1. h.uploads[k].stage = "uploading"
    BY <1>1, <1>2 DEF Uploads, UploadTicket
  <2>. QED
    BY <1>3, <2>1 DEF Carried
<1>5. h.meshes[k].shows = voxels[k]
  BY <1>1, <1>4 DEF Busy
<1>6. ~Resident(h.entries, k)
  BY <1>4 DEF Resident
<1>7. CASE Unstaged(h, k)
  BY <1>2, <1>3, <1>5, <1>6, <1>7 DEF Carries, NoneAfter, Unstaged
<1>8. CASE Replaces(h, k)
  <2>1. PICK i \in DOMAIN h.cuts : ReplacedBy(h, k, h.cuts[i])
    BY <1>8 DEF Replaces
  <2>2. h.cuts[i].server # cuts[n].server => Disjoint(h.cuts[i], cuts[n])
    BY VisitIs
  <2>3. k \in DOMAIN h.cuts[i].required
    BY <2>1 DEF ReplacedBy
  <2>4. h.cuts[i].server = cuts[n].server
    BY <2>2, <2>3 DEF Disjoint
  <2>5. NoneAfter(h, k, cuts[n].server) /\ cuts[n].server \in DOMAIN h.staged
    BY <2>1, <2>4 DEF ReplacedBy
  <2>. QED
    BY <1>2, <1>3, <1>5, <1>6, <2>5 DEF Carries
<1>9. Unstaged(h, k) \/ Replaces(h, k)
  BY <1>6 DEF Visits, Shows, Settled
<1>. QED
  BY <1>7, <1>8, <1>9

\* The chunks ks of the cut are wanted as it requires, and have what an upload needs.
Chosen(h, required, ks) ==
  /\ \A k \in ks : h.entries[k] # None /\ Has(h, k, h.entries[k].revision) /\ k \in DOMAIN required
  /\ \A k \in Chunk : h.entries[k] # None /\ k \notin ks =>
       ~(k \in DOMAIN required /\ required[k] = h.entries[k].revision)

\* The chunks of the cut are handed to the renderer.
LEMMA UploadedShows ==
  ASSUME cuts \in Seq(CutType), Apart(cuts), NEW n \in 1..Len(cuts), NEW h, NEW gone, Visits(h, n - 1, gone),
         NEW ks \in SUBSET Chunk, NEW fails \in BOOLEAN,
         Chosen(h, cuts[n].required, ks),
         NEW put, put = Staged(h, cuts[n].server, ks, fails),
         put.entries = h.entries, put.uploads = h.uploads,
         NEW tried, Tried(tried, put, ks, fails),
         NEW g, g.entries = tried.entries, g.shown = tried.shown, g.staged = tried.staged,
         Others(g, h, cuts[n].server), ~fails => \A j \in DOMAIN g.cuts : g.cuts[j].server # cuts[n].server
  PROVE  Shows(g)
<1>. DEFINE s == cuts[n].server
<1>1. Empty(h) /\ DOMAIN h.staged \subseteq Nat
  BY DEF Visits, Shows
<1>2. Host(h) /\ IsStaged(h.staged) /\ s \in Nat
  <2>1. s \in Nat
    BY VisitIs
  <2>. QED
    BY <2>1 DEF Visits, Hosts
<1>3. s \in DOMAIN h.staged => DOMAIN h.staged[s].uploads = {}
  <2>1. \E j \in DOMAIN h.cuts : h.cuts[j] = cuts[n]
    BY VisitIs
  <2>. QED
    BY <1>1, <2>1 DEF Empty
<1>4. \A k \in ks : /\ Carries(h, k) /\ h.meshes[k].shows = voxels[k] /\ ~Resident(h.entries, k)
                    /\ NoneAfter(h, k, s) /\ (s \notin DOMAIN h.staged => Unstaged(h, k))
  BY ReadyIs DEF Chosen
<1>5. /\ DOMAIN put.staged = DOMAIN h.staged
      /\ \A r \in DOMAIN h.staged : r # s => DOMAIN put.staged[r].uploads \subseteq DOMAIN h.staged[r].uploads
      /\ s \in DOMAIN h.staged =>
           /\ put.shown = h.shown
           /\ \A k : k \notin ks => Alike(put, h, k)
           /\ \A k \in ks :
                /\ fails => Unstaged(put, k)
                /\ ~fails => Stagings(put, k) = {s} /\ put.staged[s].uploads[k] = h.meshes[k].shows
           /\ fails => DOMAIN put.staged[s].uploads = {}
      /\ s \notin DOMAIN h.staged =>
           /\ put.staged = h.staged
           /\ \A k \in Chunk : put.shown[k] = IF ~fails /\ k \in ks THEN h.meshes[k].shows ELSE h.shown[k]
  <2>. HIDE DEF s
  <2>1. put = Staged(h, s, ks, fails)
    BY DEF s
  <2>2. \A k \in ks : NoneAfter(h, k, s)
    BY <1>4
  <2>3. Put(put, h, s, ks, fails)
    BY <1>1, <1>2, <1>3, <2>1, <2>2, StagedIs
  <2>. QED
    BY <2>3 DEF Put
<1>6. /\ g.staged = put.staged /\ g.shown = put.shown
      /\ \A k \in Chunk : k \notin ks => g.entries[k] = h.entries[k]
      /\ \A k \in ks : /\ g.entries[k] \in Entry /\ g.entries[k] # None
                       /\ g.entries[k].revision = h.entries[k].revision
                       /\ g.entries[k].state = IF fails THEN "queued_upload" ELSE "resident"
  <2>1. \A k \in ks : Carries(put, k)
    BY <1>4 DEF Carries
  <2>. QED
    BY <2>1 DEF Tried
<1>. HIDE DEF s
<1>7. ASSUME NEW k \in ks PROVE Settled(g, k, voxels[k])
  <2>1. Resident(g.entries, k) <=> ~fails
    BY <1>6 DEF Resident
  <2>2. CASE s \in DOMAIN h.staged
    <3>1. fails => Unstaged(g, k)
      BY <1>5, <1>6, <2>2 DEF Unstaged, Stagings
    <3>2. ASSUME ~fails PROVE Sees(g, k, voxels[k])
      <4>1. Stagings(g, k) = {s} /\ g.staged[s].uploads[k] = voxels[k]
        BY <1>4, <1>5, <1>6, <2>2, <3>2 DEF Stagings
      <4>2. NoneAfter(g, k, s)
        BY <1>2, <4>1 DEF NoneAfter
      <4>. QED
        BY <4>1, <4>2 DEF Sees
    <3>. QED
      BY <2>1, <3>1, <3>2 DEF Settled
  <2>3. CASE s \notin DOMAIN h.staged
    <3>1. Unstaged(g, k)
      BY <1>4, <1>5, <1>6, <2>3 DEF Unstaged, Stagings
    <3>2. ~fails => g.shown[k] = voxels[k]
      BY <1>4, <1>5, <1>6, <2>3
    <3>. QED
      BY <2>1, <3>1, <3>2 DEF Settled, Sees
  <2>. QED
    BY <2>2, <2>3
<1>8. ASSUME NEW k \in Chunk, k \notin ks PROVE Settled(g, k, voxels[k])
  <2>1. Alike(g, h, k)
    <3>1. Alike(put, h, k)
      <4>1. CASE s \in DOMAIN h.staged
        BY <1>5, <1>8, <4>1
      <4>2. CASE s \notin DOMAIN h.staged
        BY <1>5, <4>2 DEF Alike, Stagings
      <4>. QED
        BY <4>1, <4>2
    <3>. QED
      BY <1>6, <3>1 DEF Alike, Stagings
  <2>2. g.shown[k] = h.shown[k]
    BY <1>5, <1>6, <1>8
  <2>3. Still(g, h, k)
    BY <1>6, <1>8 DEF Still, Resident
  <2>4. \A r \in DOMAIN h.staged : r \in DOMAIN g.staged
    BY <1>5, <1>6
  <2>5. h.entries[k] # None => ~(k \in DOMAIN cuts[n].required /\ cuts[n].required[k] = h.entries[k].revision)
    BY <1>8 DEF Chosen
  <2>. QED
    BY <2>1, <2>2, <2>3, <2>4, <2>5, OtherSettled DEF Others
<1>9. Empty(g)
  <2>1. /\ \A r \in DOMAIN g.staged : r \in DOMAIN h.staged /\
             (r # s => DOMAIN g.staged[r].uploads \subseteq DOMAIN h.staged[r].uploads)
    BY <1>5, <1>6
  <2>2. \A j \in DOMAIN g.cuts : g.cuts[j].server = s /\ s \in DOMAIN g.staged => DOMAIN g.staged[s].uploads = {}
    BY <1>5, <1>6 DEF s
  <2>. QED
    BY <1>1, <2>1, <2>2, EmptyOn DEF Others
<1>10. DOMAIN g.staged \subseteq Nat
  BY <1>1, <1>5, <1>6
<1>. QED
  BY <1>7, <1>8, <1>9, <1>10 DEF Shows

LEMMA PublishedShows ==
  ASSUME cuts \in Seq(CutType), Apart(cuts), requests \subseteq RequestType,
         NEW n \in 1..Len(cuts), NEW h, NEW gone, Visits(h, n - 1, gone), NEW failing
  PROVE  /\ Visits(Published(h, cuts[n], failing), n, gone)
         /\ DOMAIN Published(h, cuts[n], failing).staged \subseteq DOMAIN h.staged
<1>. DEFINE cut == cuts[n]
            fresh == {k \in Chunk : h.entries[k] # None /\ k \in DOMAIN cut.required
                                  /\ h.entries[k].revision = cut.required[k]}
            current == Only(cut.required, fresh)
            ks == DOMAIN current
            fails == ks \cap failing # {}
            without == Without(h.cuts, {cut.server})
            trimmed == Trimmed(h.cuts, cut, current)
            rest == Only(h.staged, DOMAIN h.staged \ {cut.server})
            put == Staged(h, cut.server, ks, fails)
            tried == AfterUpload(put, ks, fails)
            left == IF fails THEN trimmed ELSE without
            g == Published(h, cut, failing)
<1>0. /\ Linked(h, n - 1) /\ Hosts(h, gone)
      /\ Host(h) /\ Own(h.uploads) /\ IsStaged(h.staged)
      /\ DOMAIN h = {"entries", "meshes", "uploads", "cuts", "shown", "staged"}
  BY DEF Visits, Hosts, Host, Fields
<1>1. cut \in CutType /\ h.cuts \in Seq(CutType) /\ Apart(h.cuts)
  BY VisitIs
<1>2. Linked(g, n)
  BY <1>0, PublishedLinks
<1>3. Hosts(g, gone)
  BY <1>0, <1>1, PublishedWorks
<1>4. /\ \A k \in ks : /\ k \in Chunk /\ h.entries[k] # None /\ k \in DOMAIN cut.required
                       /\ current[k] = cut.required[k] /\ h.entries[k].revision = current[k]
      /\ \A k \in Chunk : h.entries[k] # None =>
           (k \in DOMAIN cut.required /\ cut.required[k] = h.entries[k].revision <=> k \in ks)
      /\ ks \in SUBSET Chunk /\ fails \in BOOLEAN
  BY DEF Only
<1>5. \/ ks = {} /\ g = [h EXCEPT !.cuts = without, !.staged = rest]
      \/ g = [h EXCEPT !.cuts = trimmed]
      \/ IsReady(h, current) /\ g = [tried EXCEPT !.cuts = left]
  BY DEF Published, Trimmed
<1>6. DOMAIN rest = DOMAIN h.staged \ {cut.server} /\ \A r \in DOMAIN rest : rest[r] = h.staged[r]
  BY DEF Only
<1>7. PICK i \in DOMAIN h.cuts : h.cuts[i] = cut
  BY VisitIs
<1>8. \A q : q.cuts = trimmed =>
        /\ Others(q, h, cut.server) /\ i \in DOMAIN q.cuts
        /\ q.cuts[i].server = cut.server /\ q.cuts[i].required = current
  <2>. TAKE q
  <2>. HAVE q.cuts = trimmed
  <2>1. Trims(q.cuts, h.cuts, cut, current)
    <3>. HIDE DEF cut, current
    <3>. QED
      BY <1>1, TrimmedTrims
  <2>2. Others(q, h, cut.server)
    <3>. HIDE DEF cut, current
    <3>. QED
      BY <2>1, TrimsOthers
  <2>. HIDE DEF trimmed, current
  <2>. QED
    BY <1>7, <2>1, <2>2 DEF Trims
<1>9. \A q : q.cuts = without =>
        Others(q, h, cut.server) /\ \A j \in DOMAIN q.cuts : q.cuts[j].server # cut.server
  <2>. TAKE q
  <2>. HAVE q.cuts = without
  <2>. HIDE DEF cut
  <2>. QED
    BY <1>1, GoneOthers
<1>. HIDE DEF fresh, current, ks, fails, without, trimmed, rest, put, tried, left, g
<1>10. CASE ks = {} /\ g = [h EXCEPT !.cuts = without, !.staged = rest]
  <2>1. g.entries = h.entries /\ g.shown = h.shown /\ g.cuts = without /\ g.staged = rest
    BY <1>0, <1>10
  <2>2. Others(g, h, cut.server) /\ \A j \in DOMAIN g.cuts : g.cuts[j].server # cut.server
    BY <1>9, <2>1
  <2>3. \A k \in Chunk : h.entries[k] # None =>
          ~(k \in DOMAIN cut.required /\ cut.required[k] = h.entries[k].revision)
    BY <1>4, <1>10
  <2>4. Shows(g)
    BY <1>6, <2>1, <2>2, <2>3, EmptiedShows
  <2>. QED
    BY <1>2, <1>3, <1>6, <2>1, <2>2, <2>4, LaterStay DEF Visits, g
<1>11. CASE g = [h EXCEPT !.cuts = trimmed]
  <2>1. g.entries = h.entries /\ g.shown = h.shown /\ g.cuts = trimmed /\ g.staged = h.staged
    BY <1>0, <1>11
  <2>2. /\ Others(g, h, cut.server) /\ i \in DOMAIN g.cuts
        /\ g.cuts[i].server = cut.server /\ g.cuts[i].required = current
    BY <1>8, <2>1
  <2>3. Shows(g)
    BY <1>4, <2>1, <2>2, WaitingShows DEF ks
  <2>. QED
    BY <1>2, <1>3, <2>1, <2>2, <2>3, LaterStay DEF Visits, g
<1>12. CASE IsReady(h, current) /\ g = [tried EXCEPT !.cuts = left]
  <2>1. \A k \in ks : Has(h, k, h.entries[k].revision)
    BY <1>4, <1>12 DEF IsReady, ks
  <2>2. /\ Host(put) /\ put.entries = h.entries /\ put.uploads = h.uploads /\ put.cuts = h.cuts
        /\ DOMAIN put.staged = DOMAIN h.staged
    BY <1>0, <1>4, StagedChanges DEF put
  <2>3. Tried(tried, put, ks, fails)
    BY <1>0, <1>4, <2>2, UploadTried DEF tried
  <2>4. g.entries = tried.entries /\ g.shown = tried.shown /\ g.staged = tried.staged /\ g.cuts = left
    <3>1. DOMAIN tried = {"entries", "meshes", "uploads", "cuts", "shown", "staged"}
      BY <2>3 DEF Tried, Host, Fields
    <3>. QED
      BY <1>12, <3>1
  <2>5. Others(g, h, cut.server) /\ (~fails => \A j \in DOMAIN g.cuts : g.cuts[j].server # cut.server)
    BY <1>8, <1>9, <2>4 DEF left
  <2>6. Shows(g)
    <3>1. put = Staged(h, cuts[n].server, ks, fails)
      BY DEF put
    <3>2. Chosen(h, cuts[n].required, ks)
      BY <1>4, <2>1 DEF Chosen
    <3>. QED
      BY <1>4, <2>2, <2>3, <2>4, <2>5, <3>1, <3>2, UploadedShows
  <2>7. DOMAIN g.staged = DOMAIN h.staged
    BY <2>2, <2>3, <2>4 DEF Tried
  <2>. QED
    BY <1>2, <1>3, <2>5, <2>6, <2>7, LaterStay DEF Visits, g
<1>. QED
  BY <1>5, <1>10, <1>11, <1>12

LEMMA PublishedAllShows ==
  ASSUME cuts \in Seq(CutType), Apart(cuts), requests \subseteq RequestType,
         NEW h, NEW gone, Visits(h, 0, gone), NEW failing
  PROVE  /\ Visits(PublishedAll(h, failing), Len(cuts), gone)
         /\ DOMAIN PublishedAll(h, failing).staged \subseteq DOMAIN h.staged
<1>1. Len(cuts) \in Nat /\ \A n \in 1..Len(cuts) : cuts[n] \in CutType
  OBVIOUS
<1>2. PICK g : /\ g[0] = h
               /\ \A n \in 1..Len(cuts) : g[n] = Published(g[n - 1], cuts[n], failing)
               /\ PublishedAll(h, failing) = g[Len(cuts)]
  BY <1>1, VisitedExists
<1>. DEFINE Good == {n \in Nat : n <= Len(cuts) => Visits(g[n], n, gone) /\ DOMAIN g[n].staged \subseteq DOMAIN h.staged}
<1>3. 0 \in Good
  BY <1>2
<1>4. ASSUME NEW n \in Good PROVE n + 1 \in Good
  <2>1. SUFFICES ASSUME n + 1 <= Len(cuts)
                 PROVE  Visits(g[n + 1], n + 1, gone) /\ DOMAIN g[n + 1].staged \subseteq DOMAIN h.staged
    OBVIOUS
  <2>2. n \in Nat /\ n + 1 \in 1..Len(cuts) /\ (n + 1) - 1 = n
    BY <1>1, <1>4, <2>1
  <2>3. Visits(g[n], n, gone) /\ DOMAIN g[n].staged \subseteq DOMAIN h.staged
    BY <1>1, <1>4, <2>1, <2>2
  <2>. DEFINE m == n + 1
              p == g[n]
  <2>4. m \in 1..Len(cuts) /\ Visits(p, m - 1, gone) /\ g[m] = Published(p, cuts[m], failing)
    BY <1>2, <2>2, <2>3
  <2>5. DOMAIN p.staged \subseteq DOMAIN h.staged
    BY <2>3
  <2>. HIDE DEF m, p, Good
  <2>6. /\ Visits(Published(p, cuts[m], failing), m, gone)
        /\ DOMAIN Published(p, cuts[m], failing).staged \subseteq DOMAIN p.staged
    BY <2>4, PublishedShows
  <2>7. Visits(g[m], m, gone) /\ DOMAIN g[m].staged \subseteq DOMAIN h.staged
    BY <2>4, <2>5, <2>6
  <2>. QED
    BY <2>7 DEF m
<1>5. Good = Nat
  <2>. HIDE DEF Good
  <2>1. Good \in SUBSET Nat
    BY DEF Good
  <2>. QED
    BY <1>3, <1>4, <2>1, SetInduction
<1>6. Len(cuts) \in Good /\ Len(cuts) <= Len(cuts)
  <2>. HIDE DEF Good
  <2>. QED
    BY <1>1, <1>5
<1>7. Visits(g[Len(cuts)], Len(cuts), gone) /\ DOMAIN g[Len(cuts)].staged \subseteq DOMAIN h.staged
  BY <1>6
<1>. QED
  BY <1>2, <1>7

\* A chunk of no cut has come into use: its mesh is shown.
Lone(g, h, k) ==
  /\ \A i \in DOMAIN h.cuts : k \notin DOMAIN h.cuts[i].required
  /\ h.entries[k] # None /\ ~Resident(h.entries, k)
  /\ Resident(g.entries, k) /\ g.shown[k] = voxels[k]

LEMMA AloneIs ==
  ASSUME NEW h, NEW gone, Hosts(h, gone), NEW failing, requests \subseteq RequestType
  PROVE  /\ UploadedAlone(h, failing).staged = h.staged /\ UploadedAlone(h, failing).cuts = h.cuts
         /\ \A k \in Chunk : \/ /\ Still(UploadedAlone(h, failing), h, k)
                                /\ UploadedAlone(h, failing).shown[k] = h.shown[k]
                             \/ Lone(UploadedAlone(h, failing), h, k)
<1>. DEFINE own == Individual(h)
            current == {k \in own : h.entries[k] # None
                          /\ h.entries[k].state = "uploading" /\ h.entries[k].revision = h.uploads[k].revision}
            fit == {k \in current : Has(h, k, h.uploads[k].revision)}
            done == fit \ failing
            tries == current \ done
            back == AfterUpload(h, tries, TRUE)
            u == Cleared(back.uploads, own \ done)
            s == Showing(h, done)
            mid == [back EXCEPT !.uploads = u, !.shown = s]
            g == AfterUpload(mid, done, FALSE)
<1>0. /\ Host(h) /\ Own(h.uploads) /\ Works(h, gone) /\ h.entries \in Entries
      /\ TRUE \in BOOLEAN /\ FALSE \in BOOLEAN
  BY DEF Hosts, Host
<1>1. UploadedAlone(h, failing) = g
  BY DEF UploadedAlone
<1>2. /\ own \in SUBSET Chunk /\ current \subseteq own /\ done \subseteq current
      /\ \A k \in current : h.entries[k] # None /\ h.entries[k].state = "uploading"
      /\ \A k \in done : k \in Chunk
      /\ \A k \in own : h.uploads[k] # None /\ \A i \in DOMAIN h.cuts : k \notin DOMAIN h.cuts[i].required
  BY DEF Individual
<1>3. tries \in SUBSET Chunk /\ done \in SUBSET Chunk /\ \A k \in Chunk : k \in tries <=> k \in current /\ k \notin done
  BY <1>2
<1>. HIDE DEF own, current, fit, done, tries
<1>4. ASSUME NEW k \in current
      PROVE  Carries(h, k) /\ h.meshes[k].shows = voxels[k]
  <2>1. h.entries[k] \in Entry /\ h.uploads[k] = Carried(h.entries[k], k) /\ h.meshes[k].shows = voxels[k]
    BY <1>0, <1>2 DEF Works, Busy, Entries
  <2>. QED
    BY <1>2, <2>1 DEF Carries
<1>5. Tried(back, h, tries, TRUE)
  <2>. DEFINE x == TRUE
  <2>1. x \in BOOLEAN
    OBVIOUS
  <2>. HIDE DEF x
  <2>2. Tried(AfterUpload(h, tries, x), h, tries, x)
    BY <1>0, <1>3, <2>1, UploadTried
  <2>. QED
    BY <2>2 DEF x
<1>. HIDE DEF back
<1>6. /\ Host(mid) /\ Own(mid.uploads) /\ mid.entries = back.entries
      /\ mid.cuts = h.cuts /\ mid.staged = h.staged /\ mid.uploads = u /\ mid.shown = s
  <2>1. DOMAIN back = {"entries", "meshes", "uploads", "cuts", "shown", "staged"}
    BY <1>5 DEF Tried, Host, Fields
  <2>2. u \in Uploads /\ Own(u)
    BY <1>5, ClearedUploads, OwnCleared DEF Tried, Host
  <2>. HIDE DEF u, s
  <2>3. /\ DOMAIN mid = Fields /\ mid.entries = back.entries /\ mid.uploads = u
        /\ mid.cuts = back.cuts /\ mid.staged = back.staged /\ mid.shown = s
    BY <2>1 DEF Fields
  <2>4. back.cuts = h.cuts /\ back.staged = h.staged
    BY <1>5 DEF Tried
  <2>. HIDE DEF mid
  <2>. QED
    BY <1>5, <2>2, <2>3, <2>4 DEF Tried, Host
<1>7. \A k \in Chunk : u[k] = IF k \in own /\ k \notin done THEN None ELSE back.uploads[k]
  BY DEF Cleared
<1>8. \A k \in Chunk : s[k] = IF k \in done THEN h.meshes[k].shows ELSE h.shown[k]
  BY DEF Showing
<1>. HIDE DEF mid, u, s
<1>9. Tried(g, mid, done, FALSE)
  <2>. DEFINE x == FALSE
  <2>1. x \in BOOLEAN
    OBVIOUS
  <2>. HIDE DEF x
  <2>2. Tried(AfterUpload(mid, done, x), mid, done, x)
    BY <1>3, <1>6, <2>1, UploadTried
  <2>. QED
    BY <2>2 DEF x
<1>. HIDE DEF g
<1>10. ASSUME NEW k \in Chunk, k \in done PROVE Lone(g, h, k)
  <2>1. k \notin tries /\ k \in current /\ k \in own
    BY <1>2, <1>3, <1>10
  <2>2. Carries(h, k) /\ h.meshes[k].shows = voxels[k] /\ h.entries[k].state = "uploading"
    BY <1>2, <1>4, <2>1
  <2>3. back.entries[k] = h.entries[k] /\ back.uploads[k] = h.uploads[k]
    BY <1>5, <2>1 DEF Tried
  <2>4. Carries(mid, k)
    BY <1>6, <1>7, <1>10, <2>2, <2>3 DEF Carries
  <2>5. g.entries[k] # None /\ g.entries[k].state = "resident" /\ g.shown[k] = voxels[k]
    BY <1>6, <1>8, <1>9, <1>10, <2>2, <2>4 DEF Tried
  <2>. QED
    BY <1>2, <2>1, <2>2, <2>5 DEF Lone, Carries, Resident
<1>11. ASSUME NEW k \in Chunk, k \notin done PROVE Still(g, h, k) /\ g.shown[k] = h.shown[k]
  <2>1. g.entries[k] = back.entries[k] /\ g.shown[k] = h.shown[k]
    BY <1>6, <1>8, <1>9, <1>11 DEF Tried
  <2>2. CASE k \in tries
    <3>1. k \in current /\ Carries(h, k) /\ h.entries[k].state = "uploading"
      BY <1>2, <1>3, <1>4, <2>2
    <3>2. /\ back.entries[k] # None /\ back.entries[k].revision = h.entries[k].revision
          /\ back.entries[k].state = "queued_upload"
      BY <1>5, <2>2, <3>1 DEF Tried
    <3>. QED
      BY <2>1, <3>1, <3>2 DEF Still, Resident, Carries
  <2>3. CASE k \notin tries
    <3>1. back.entries[k] = h.entries[k]
      BY <1>5, <2>3 DEF Tried
    <3>. QED
      BY <2>1, <3>1 DEF Still, Resident
  <2>. QED
    BY <2>2, <2>3
<1>12. g.staged = h.staged /\ g.cuts = h.cuts
  BY <1>6, <1>9 DEF Tried
<1>. QED
  BY <1>1, <1>10, <1>11, <1>12

LEMMA UploadedAloneShows ==
  ASSUME NEW h, NEW gone, Hosts(h, gone), Shows(h), NEW failing, requests \subseteq RequestType
  PROVE  Shows(UploadedAlone(h, failing)) /\ UploadedAlone(h, failing).staged = h.staged
<1>. DEFINE g == UploadedAlone(h, failing)
<1>1. /\ g.staged = h.staged /\ g.cuts = h.cuts
      /\ \A k \in Chunk : (Still(g, h, k) /\ g.shown[k] = h.shown[k]) \/ Lone(g, h, k)
  BY AloneIs
<1>. HIDE DEF g
<1>2. Empty(g)
  BY <1>1 DEF Shows, Empty
<1>3. ASSUME NEW k \in Chunk PROVE Settled(g, k, voxels[k])
  <2>1. Settled(h, k, voxels[k])
    BY DEF Shows
  <2>2. CASE Still(g, h, k) /\ g.shown[k] = h.shown[k]
    BY <1>1, <2>1, <2>2, KeptSettled
  <2>3. CASE Lone(g, h, k)
    <3>1. ~Replaces(h, k)
      BY <2>3 DEF Lone, Replaces, ReplacedBy
    <3>2. Unstaged(h, k)
      BY <2>1, <2>3, <3>1 DEF Settled, Lone
    <3>3. Unstaged(g, k)
      BY <1>1, <3>2 DEF Unstaged, Stagings
    <3>. QED
      BY <2>3, <3>3 DEF Settled, Sees, Lone
  <2>. QED
    BY <1>1, <2>2, <2>3
<1>. QED
  BY <1>1, <1>2, <1>3 DEF g, Shows

LEMMA DrainedShows ==
  ASSUME NEW h, NEW gone, Hosts(h, gone), Shows(h), \A k \in gone : h.entries[k] = None
  PROVE  Shows(Drained(h, gone)) /\ DOMAIN Drained(h, gone).staged = DOMAIN h.staged
<1>. DEFINE s == Cleared(h.shown, gone)
            st == [r \in DOMAIN h.staged |-> Stripped(h.staged[r], gone)]
            g == Drained(h, gone)
<1>0. /\ IsStaged(h.staged)
      /\ DOMAIN h = {"entries", "meshes", "uploads", "cuts", "shown", "staged"}
  BY DEF Hosts, Host, Fields
<1>1. g.entries = h.entries /\ g.shown = s /\ g.staged = st /\ g.cuts = h.cuts
  BY <1>0 DEF Drained
<1>2. \A k \in Chunk : k \notin gone => s[k] = h.shown[k]
  BY DEF Cleared
<1>3. ASSUME NEW r \in DOMAIN h.staged
      PROVE  st[r].uploads = Only(h.staged[r].uploads, DOMAIN h.staged[r].uploads \ gone)
  BY <1>0 DEF IsStaged, IsChange, Stripped
<1>4. DOMAIN st = DOMAIN h.staged
  OBVIOUS
<1>. HIDE DEF s, st, g
<1>5. \A r \in DOMAIN h.staged :
        /\ DOMAIN g.staged[r].uploads = DOMAIN h.staged[r].uploads \ gone
        /\ \A k \in DOMAIN g.staged[r].uploads : g.staged[r].uploads[k] = h.staged[r].uploads[k]
  BY <1>1, <1>3 DEF Only
<1>6. Empty(g)
  BY <1>1, <1>4, <1>5 DEF Shows, Empty
<1>7. ASSUME NEW k \in Chunk PROVE Settled(g, k, voxels[k])
  <2>1. CASE k \in gone
    BY <1>1, <2>1 DEF Settled, Resident
  <2>2. CASE k \notin gone
    <3>1. Stagings(g, k) = Stagings(h, k)
      BY <1>1, <1>4, <1>5, <2>2 DEF Stagings
    <3>2. Alike(g, h, k)
      BY <1>5, <2>2, <3>1 DEF Alike, Stagings
    <3>3. Still(g, h, k) /\ g.shown[k] = h.shown[k] /\ Settled(h, k, voxels[k])
      BY <1>1, <1>2, <2>2 DEF Still, Resident, Shows
    <3>4. ASSUME Replaces(h, k) PROVE Replaces(g, k)
      <4>1. PICK i \in DOMAIN h.cuts : ReplacedBy(h, k, h.cuts[i])
        BY <3>4 DEF Replaces
      <4>2. h.cuts[i].server \in DOMAIN g.staged /\ k \in DOMAIN h.cuts[i].required
        BY <1>1, <1>4, <4>1 DEF ReplacedBy
      <4>3. g.cuts = h.cuts /\ g.entries[k].revision = h.entries[k].revision
        BY <1>1
      <4>. QED
        BY <3>2, <4>1, <4>2, <4>3, ReplacedOn
    <3>. QED
      BY <3>2, <3>3, <3>4, SettledOn
  <2>. QED
    BY <2>1, <2>2
<1>. QED
  BY <1>1, <1>4, <1>6, <1>7 DEF g, Shows

\* What is settled is still so in the state that is reached, if no chunk's place changes.
LEMMA MovedShows ==
  ASSUME NEW h, Shows(h), Here'.cuts = h.cuts, Here'.shown = h.shown, Here'.staged = h.staged,
         \A k \in Chunk : Still(Here', h, k) /\ (Resident(h.entries, k) => voxels'[k] = voxels[k])
  PROVE  Shows(Here)'
<1>1. ASSUME NEW g, g.cuts = h.cuts, g.shown = h.shown, g.staged = h.staged, \A k \in Chunk : Still(g, h, k)
      PROVE  DOMAIN g.staged \subseteq Nat /\ Empty(g) /\ \A k \in Chunk : Settled(g, k, voxels'[k])
  <2>1. DOMAIN g.staged \subseteq Nat /\ Empty(g)
    BY <1>1 DEF Shows, Empty
  <2>2. ASSUME NEW k \in Chunk PROVE Settled(g, k, voxels'[k])
    <3>1. Settled(h, k, voxels'[k])
      BY DEF Shows, Settled
    <3>2. Still(g, h, k) /\ g.shown[k] = h.shown[k]
      BY <1>1
    <3>. QED
      BY <1>1, <3>1, <3>2, KeptSettled
  <2>. QED
    BY <2>1, <2>2
<1>2. DOMAIN Here'.staged \subseteq Nat /\ Empty(Here') /\ \A k \in Chunk : Settled(Here', k, voxels'[k])
  BY <1>1
<1>. QED
  BY <1>2 DEF Shows, Empty, Settled, Sees, Replaces, ReplacedBy, NoneAfter, Stagings, Unstaged, Resident

-----------------------------------------------------------------------------
(* The frame callback keeps what is shown in step with what is held.       *)

LEMMA BegunLinks ==
  ASSUME CurrentInv, CutInv, NEW b, NEW gone, Begun(b, gone)
  PROVE  Linked(b, 0)
<1>1. /\ cuts \in Seq(CutType) /\ Apart(cuts) /\ Whole(entries, cuts) /\ IsStaged(staged) /\ Awaited(staged, cuts)
      /\ Host(b) /\ Own(b.uploads) /\ b.cuts = cuts /\ b.staged = staged
  BY DEF CurrentInv, ShapeInv, CutInv, Begun, Hosts
<1>2. Settles(b.entries, entries, {})
  BY DEF Begun, Settles, Resident
<1>3. Whole(b.entries, cuts)
  BY <1>1, <1>2, WholeOn
<1>4. \A m \in 0 + 1..Len(cuts) : m \in DOMAIN cuts
  BY <1>1
<1>5. \A m \in 0 + 1..Len(cuts) :
        Waits(b.entries, cuts[m].required) /\ \E j \in DOMAIN cuts : cuts[j].server = cuts[m].server
  BY <1>3, <1>4 DEF Whole
<1>6. \A j \in DOMAIN cuts : \E i \in DOMAIN cuts :
        cuts[i].server = cuts[j].server /\ DOMAIN cuts[j].required \subseteq DOMAIN cuts[i].required
  OBVIOUS
<1>. QED
  BY <1>1, <1>3, <1>5, <1>6 DEF Linked

LEMMA BegunShows ==
  ASSUME CurrentInv, HeldInv, Shows(Here), NEW b, NEW gone, Begun(b, gone)
  PROVE  Shows(b)
<1>1. /\ Here.entries = entries /\ Here.cuts = cuts /\ Here.shown = shown /\ Here.staged = staged
  BY DEF Here
<1>2. b.cuts = cuts /\ b.shown = shown /\ b.staged = staged
  BY DEF Begun
<1>3. Empty(b) /\ DOMAIN b.staged \subseteq Nat
  BY <1>1, <1>2 DEF Shows, Empty
<1>4. ASSUME NEW k \in Chunk PROVE Settled(b, k, voxels[k])
  <2>1. Settled(Here, k, voxels[k])
    BY DEF Shows
  <2>. HIDE DEF Here
  <2>2. CASE b.entries[k] = None
    BY <2>2 DEF Settled, Resident
  <2>3. CASE b.entries[k] # None /\ entries[k] # None
    <3>1. Still(b, Here, k)
      BY <1>1, <2>3 DEF Begun, Still
    <3>. QED
      BY <1>1, <1>2, <2>1, <3>1, KeptSettled
  <2>4. CASE entries[k] = None
    <3>1. Unstaged(b, k)
      BY <1>2, <2>4, HereScheduled DEF Unstaged, Stagings
    <3>. QED
      BY <2>4, <3>1 DEF Settled, Begun
  <2>. QED
    BY <2>2, <2>3, <2>4
<1>. QED
  BY <1>3, <1>4 DEF Shows

LEMMA FrameShown ==
  ASSUME CurrentInv, CutInv, HeldInv, ShownInv,
         NEW f, NEW interest, NEW failing \in SUBSET Chunk, Frame(f, interest, failing)
  PROVE  ShownInv'
<1>. SUFFICES ASSUME InOrder'
              PROVE  Shows(Here)' /\ StagedHeard'
  BY DEF ShownInv
<1>1. Shows(Here) /\ StagedHeard
  BY DEF Frame, authorityVars, ShownInv, InOrder
<1>2. PICK b, gone :
        /\ Begun(b, gone)
        /\ entries' = Finished(b, failing, gone).entries /\ meshes' = Finished(b, failing, gone).meshes
        /\ uploads' = Finished(b, failing, gone).uploads /\ cuts' = Finished(b, failing, gone).cuts
        /\ shown' = Finished(b, failing, gone).shown /\ staged' = Finished(b, failing, gone).staged
  BY FrameBegins
<1>3. requests \subseteq RequestType /\ cuts \in Seq(CutType) /\ Apart(cuts)
  BY DEF CurrentInv, ShapeInv, CutInv
<1>. DEFINE after == Finished(b, failing, gone)
            grouped == PublishedAll(b, failing)
            alone == UploadedAlone(grouped, failing)
<1>4. Visits(b, 0, gone)
  <2>1. Linked(b, 0) /\ Shows(b)
    BY <1>1, <1>2, BegunLinks, BegunShows
  <2>2. \A m \in 0 + 1..Len(cuts) : \E j \in DOMAIN b.cuts : b.cuts[j] = cuts[m]
    BY <1>2, <1>3 DEF Begun
  <2>. QED
    BY <1>2, <2>1, <2>2 DEF Visits, Begun
<1>5. /\ Shows(after) /\ DOMAIN after.staged \subseteq DOMAIN staged
      /\ \A k \in Chunk : after.entries[k] # None => voxels'[k] = voxels[k]
  <2>1. /\ Visits(grouped, Len(cuts), gone) /\ DOMAIN grouped.staged \subseteq DOMAIN staged
    BY <1>2, <1>3, <1>4, PublishedAllShows DEF Begun
  <2>2. Hosts(grouped, gone) /\ Remains(grouped, b)
    BY <1>2, <1>3, PublishedAllWorks DEF Begun
  <2>. HIDE DEF grouped
  <2>3. Shows(alone) /\ alone.staged = grouped.staged
    BY <1>3, <2>1, UploadedAloneShows DEF Visits
  <2>4. Hosts(alone, gone) /\ Remains(alone, grouped)
    BY <1>3, <2>2, UploadedAloneWorks
  <2>. HIDE DEF alone
  <2>5. Remains(alone, b)
    BY <2>2, <2>4, RemainsTrans
  <2>6. \A k \in gone : alone.entries[k] = None
    BY <1>2, <2>5 DEF Remains, Begun, Tracked
  <2>. DEFINE a == Drained(alone, gone)
  <2>7. Shows(a) /\ DOMAIN a.staged = DOMAIN alone.staged
    BY <2>3, <2>4, <2>6, DrainedShows
  <2>8. Remains(a, alone) /\ a.entries = alone.entries
    BY <2>4, <2>6, DrainedWorks
  <2>9. a = after
    BY DEF grouped, alone, Finished
  <2>. HIDE DEF a, after
  <2>10. \A k \in Chunk : k \notin gone => voxels'[k] = voxels[k]
    BY <1>2 DEF Begun, Cleared
  <2>. QED
    BY <2>1, <2>3, <2>6, <2>7, <2>8, <2>9, <2>10
<1>6. entries' = after.entries /\ cuts' = after.cuts /\ shown' = after.shown /\ staged' = after.staged
  BY <1>2
<1>. HIDE DEF after
<1>7. StagedHeard'
  BY <1>1, <1>5, <1>6 DEF Frame, authorityVars, StagedHeard
<1>8. Shows(Here)'
  <2>1. /\ Here'.entries = after.entries /\ Here'.cuts = after.cuts /\ Here'.shown = after.shown
        /\ Here'.staged = after.staged
    BY <1>6 DEF Here
  <2>2. \A k \in Chunk : Still(Here', after, k) /\ (Resident(after.entries, k) => voxels'[k] = voxels[k])
    BY <1>5, <2>1 DEF Still, Resident
  <2>. QED
    BY <1>5, <2>1, <2>2, MovedShows
<1>. QED
  BY <1>7, <1>8

-----------------------------------------------------------------------------
(* The steps between frames, for what is shown.                            *)

\* Nothing is shown or staged, and entries move only where nothing is in use.
LEMMA QuietShown ==
  ASSUME ShapeInv, ShownInv, UNCHANGED <<late, aside, overlaid, known, cuts, shown, staged>>,
         \A k \in Chunk : Still(Here', Here, k) /\ (Resident(entries, k) => voxels'[k] = voxels[k])
  PROVE  ShownInv'
<1>. SUFFICES ASSUME InOrder'
              PROVE  Shows(Here)' /\ StagedHeard'
  BY DEF ShownInv
<1>1. Shows(Here) /\ StagedHeard
  BY DEF ShownInv, InOrder
<1>2. StagedHeard'
  BY <1>1 DEF StagedHeard
<1>3. /\ Here'.cuts = Here.cuts /\ Here'.shown = Here.shown /\ Here'.staged = Here.staged
      /\ Here.entries = entries
  BY DEF Here
<1>4. Shows(Here)'
  BY <1>1, <1>3, MovedShows
<1>. QED
  BY <1>2, <1>4

LEMMA AnswerShown ==
  ASSUME CurrentInv, ShownInv, NEW q \in requests,
         UNCHANGED <<late, aside, overlaid, known, cuts, shown, staged>>,
         \A k \in Chunk :
           IF k = q.ticket.chunk /\ IsActive(q.ticket, entries)
           THEN /\ entries'[k] \in Entry /\ entries'[k] # None /\ entries'[k].revision = entries[k].revision
                /\ entries'[k].state \in {"queued_generation", "queued_meshing"}
           ELSE entries'[k] = entries[k] /\ voxels'[k] = voxels[k]
  PROVE  ShownInv'
<1>1. Here'.entries = entries' /\ Here.entries = entries
  BY DEF Here
<1>2. ASSUME NEW k \in Chunk
      PROVE  Still(Here', Here, k) /\ (Resident(entries, k) => voxels'[k] = voxels[k])
  <2>1. CASE k = q.ticket.chunk /\ IsActive(q.ticket, entries)
    <3>1. entries[k] # None /\ entries[k].state = "generating"
      BY <2>1 DEF IsActive, TicketOf, CurrentInv, ShapeInv, RequestType, GenerationTicket
    <3>. QED
      BY <1>1, <2>1, <3>1 DEF Still, Resident
  <2>2. CASE ~(k = q.ticket.chunk /\ IsActive(q.ticket, entries))
    BY <1>1, <2>2 DEF Still, Resident
  <2>. QED
    BY <2>1, <2>2
<1>. QED
  BY <1>2, QuietShown DEF CurrentInv

LEMMA RequestFailsShown ==
  ASSUME CurrentInv, ShownInv, NEW q \in requests, RequestFails(q) PROVE ShownInv'
<1>1. UNCHANGED <<late, aside, overlaid, known, cuts, shown, staged>>
  BY DEF RequestFails, authorityVars, hostVars, rendererVars
<1>. QED
  BY <1>1, RequestFailsMoves, AnswerShown

LEMMA ReceiveShown ==
  ASSUME CurrentInv, ShownInv, NEW q \in requests, NEW n, Receive(q, n) PROVE ShownInv'
<1>1. UNCHANGED <<late, aside, overlaid, known, cuts, shown, staged>>
  BY DEF Receive, authorityVars, rendererVars
<1>. QED
  BY <1>1, ReceiveMoves, AnswerShown

LEMMA CommitShown ==
  ASSUME CurrentInv, ShownInv, NEW ks \in Cuts, Commit(ks) PROVE ShownInv'
<1>. SUFFICES ASSUME InOrder'
              PROVE  Shows(Here)' /\ StagedHeard'
  BY DEF ShownInv
<1>1. UNCHANGED <<late, aside, overlaid, known, entries, voxels, cuts, shown, staged>> /\ Here' = Here
  BY DEF Commit, schedulerVars, hostVars, rendererVars, Here
<1>2. Shows(Here) /\ StagedHeard
  BY <1>1 DEF ShownInv, InOrder
<1>4. StagedHeard'
  BY <1>1, <1>2 DEF StagedHeard
<1>5. Shows(Here)'
  BY <1>1, <1>2, MovedShows DEF Still
<1>. QED
  BY <1>4, <1>5

\* With nothing staged, only what is in use has to be shown.
LEMMA BareShows ==
  ASSUME DOMAIN staged' = {}, \A k \in Chunk : Resident(entries', k) => shown'[k] = voxels'[k]
  PROVE  Shows(Here)'
<1>1. Here'.entries = entries' /\ Here'.shown = shown' /\ Here'.staged = staged' /\ Here'.cuts = cuts'
  BY DEF Here
<1>2. ASSUME NEW g, DOMAIN g.staged = {}, \A k \in Chunk : Resident(g.entries, k) => g.shown[k] = voxels'[k]
      PROVE  DOMAIN g.staged \subseteq Nat /\ Empty(g) /\ \A k \in Chunk : Settled(g, k, voxels'[k])
  BY <1>2 DEF Empty, Settled, Sees, Unstaged, Stagings
<1>3. DOMAIN Here'.staged \subseteq Nat /\ Empty(Here') /\ \A k \in Chunk : Settled(Here', k, voxels'[k])
  BY <1>1, <1>2
<1>. QED
  BY <1>3 DEF Shows, Empty, Settled, Sees, Replaces, ReplacedBy, NoneAfter, Stagings, Unstaged, Resident

LEMMA ResyncShown == ASSUME CurrentInv, NEW n, Resync(n) PROVE ShownInv'
<1>1. entries' = Invalidated(entries) /\ staged' = <<>>
  BY DEF Resync
<1>2. DOMAIN staged' = {}
  BY <1>1
<1>3. ASSUME NEW k \in Chunk, Resident(entries', k) PROVE FALSE
  <2>1. entries[k] # None /\ entries'[k] = RenewedEntry(entries[k], "queued_generation")
    BY <1>1, <1>3 DEF Invalidated, TrackedIn, RenewedEntry, Resident
  <2>2. entries[k] \in Entry /\ "queued_generation" \in State
    BY <2>1 DEF Entries, State, CurrentInv, ShapeInv
  <2>3. entries'[k].state = "queued_generation"
    BY <2>1, <2>2, EntryRenewed
  <2>. QED
    BY <1>3, <2>3 DEF Resident
<1>4. Shows(Here)'
  BY <1>2, <1>3, BareShows
<1>5. StagedHeard'
  BY <1>2 DEF StagedHeard
<1>. QED
  BY <1>4, <1>5 DEF ShownInv

\* What will be shown is what the newest staged change holds.
LEMMA SeenIs ==
  ASSUME NEW k \in Chunk, NEW v, Sees(Here, k, v), DOMAIN staged \subseteq Nat
  PROVE  Upcoming(k) = v
<1>. DEFINE prepared == {r \in DOMAIN staged : k \in DOMAIN staged[r].uploads}
<1>1. Here.staged = staged /\ Here.shown = shown
  BY DEF Here
<1>2. Stagings(Here, k) = prepared
  BY <1>1 DEF Stagings
<1>3. Upcoming(k) = IF prepared = {} THEN shown[k] ELSE staged[Max(prepared)].uploads[k]
  BY DEF Upcoming
<1>4. prepared \subseteq Nat
  OBVIOUS
<1>. HIDE DEF prepared
<1>5. CASE prepared = {} /\ shown[k] = v
  BY <1>3, <1>5
<1>6. ASSUME NEW r \in prepared, \A s \in prepared : s <= r, staged[r].uploads[k] = v
      PROVE  Upcoming(k) = v
  <2>1. \A s \in prepared : r >= s
    BY <1>4, <1>6
  <2>2. Max(prepared) \in prepared /\ \A s \in prepared : Max(prepared) >= s
    BY <2>1 DEF Max
  <2>3. Max(prepared) = r
    <3>. DEFINE m == Max(prepared)
    <3>1. m \in prepared /\ m >= r
      BY <1>6, <2>2
    <3>. HIDE DEF m
    <3>2. m \in Nat /\ r \in Nat /\ r >= m
      BY <1>4, <1>6, <2>1, <3>1
    <3>3. m = r
      BY <3>1, <3>2
    <3>. QED
      BY <3>3 DEF m
  <2>. QED
    BY <1>3, <1>6, <2>3
<1>. QED
  BY <1>1, <1>2, <1>5, <1>6 DEF Sees, Unstaged, NoneAfter

LEMMA PresentShown == ASSUME CurrentInv, ShownInv, NEW pages \in [Page -> 1..Revision], Present(pages) PROVE ShownInv'
<1>. SUFFICES ASSUME InOrder'
              PROVE  Shows(Here)' /\ StagedHeard'
  BY DEF ShownInv
<1>1. /\ UNCHANGED <<late, aside, overlaid, entries, voxels>>
      /\ shown' = [k \in Chunk |-> Upcoming(k)] /\ staged' = <<>>
  BY DEF Present, authorityVars, schedulerVars, hostVars
<1>2. Shows(Here) /\ StagedHeard
  BY <1>1 DEF ShownInv, InOrder
<1>3. DOMAIN staged' = {}
  BY <1>1
<1>4. ASSUME NEW k \in Chunk, Resident(entries', k) PROVE shown'[k] = voxels'[k]
  <2>1. Here.entries = entries /\ Here.staged = staged
    BY DEF Here
  <2>2. Sees(Here, k, voxels[k]) /\ DOMAIN staged \subseteq Nat
    BY <1>1, <1>2, <1>4, <2>1 DEF Shows, Settled, Resident
  <2>3. Upcoming(k) = voxels[k]
    BY <2>2, SeenIs
  <2>. QED
    BY <1>1, <2>3
<1>5. Shows(Here)'
  BY <1>3, <1>4, BareShows
<1>6. StagedHeard'
  BY <1>3 DEF StagedHeard
<1>. QED
  BY <1>5, <1>6

-----------------------------------------------------------------------------
(* A commit that arrives in order opens a change for what it touches.      *)

\* What a merged cut requires: the edit's revisions, and those of the cuts it overlaps.
LEMMA MergedRequires ==
  ASSUME NEW required
  PROVE  /\ \A k \in DOMAIN required : /\ k \in DOMAIN Merged(required).required
                                       /\ Merged(required).required[k] = required[k]
         /\ \A i \in DOMAIN cuts : cuts[i].server \in Merged(required).servers =>
              \E j \in DOMAIN cuts : /\ cuts[j].server = cuts[i].server
                                     /\ DOMAIN cuts[j].required \subseteq DOMAIN Merged(required).required
         /\ \A s \in Merged(required).servers : \E i \in DOMAIN cuts : cuts[i].server = s
<1>. DEFINE overlapping == {i \in DOMAIN cuts : DOMAIN cuts[i].required \cap DOMAIN required # {}}
            older == UNION {DOMAIN cuts[i].required : i \in overlapping}
            holder(k) == CHOOSE j \in overlapping : k \in DOMAIN cuts[j].required
            merged == [k \in older \cup DOMAIN required |->
                        IF k \in DOMAIN required THEN required[k] ELSE cuts[holder(k)].required[k]]
<1>1. Merged(required).required = merged /\ Merged(required).servers = {cuts[i].server : i \in overlapping}
  BY DEF Merged
<1>2. \A k \in DOMAIN required : k \in DOMAIN merged /\ merged[k] = required[k]
  OBVIOUS
<1>3. DOMAIN merged = older \cup DOMAIN required
  OBVIOUS
<1>. HIDE DEF merged
<1>4. ASSUME NEW i \in DOMAIN cuts, cuts[i].server \in Merged(required).servers
      PROVE  \E j \in DOMAIN cuts : /\ cuts[j].server = cuts[i].server
                                    /\ DOMAIN cuts[j].required \subseteq DOMAIN Merged(required).required
  <2>1. PICK j \in overlapping : cuts[j].server = cuts[i].server
    BY <1>1, <1>4
  <2>2. DOMAIN cuts[j].required \subseteq older
    BY <2>1
  <2>. QED
    BY <1>1, <1>3, <2>1, <2>2
<1>. QED
  BY <1>1, <1>2, <1>4

\* The changes that are kept stay as they are; the commit's own is opened with
\* nothing in it, if its edit has wanted chunks and the presented terrain is older.
Opens(r) ==
  fence # None /\ \E p \in {o \in UNION {PagesOf[k] : k \in log[r - 1]} : r > PageFloor(o)} : fence[p] < r

LEMMA ObserveStages ==
  ASSUME NEW r, Observe(r), NEW required,
         required = [k \in log[r - 1] \cap Desired |-> Edited(entries, log[r - 1])[k].revision]
  PROVE  /\ \A s : s \in DOMAIN staged' <=>
              (s \in DOMAIN staged \/ (s = r /\ Opens(r))) /\ s \notin Superseded(r, required)
         /\ \A s \in DOMAIN staged' : s \in DOMAIN staged => staged'[s] = staged[s]
         /\ \A s \in DOMAIN staged' : s \notin DOMAIN staged => DOMAIN staged'[s].uploads = {}
         /\ staged' = [s \in DOMAIN staged' |-> staged'[s]]
<1>. DEFINE O == IF Opens(r) THEN {r} ELSE {}
            gone == Superseded(r, required)
            S == (DOMAIN staged \cup O) \ gone
<1>1. staged' = [s \in S |-> IF s \in DOMAIN staged THEN staged[s] ELSE Unprepared]
  BY DEF Observe, Opens
<1>2. DOMAIN Unprepared.uploads = {}
  <2>1. Unprepared.uploads = <<>>
    BY DEF Unprepared
  <2>2. \A x : x = <<>> => DOMAIN x = {}
    OBVIOUS
  <2>. QED
    BY <2>1, <2>2
<1>3. \A s : s \in S <=> (s \in DOMAIN staged \/ (s = r /\ Opens(r))) /\ s \notin gone
  OBVIOUS
<1>. HIDE DEF S, gone, O
<1>4. DOMAIN staged' = S
  BY <1>1
<1>. QED
  BY <1>1, <1>2, <1>3, <1>4 DEF gone

LEMMA OverlaidStays == ASSUME NEW r, Observe(r), overlaid PROVE overlaid'
BY Zenon DEF Observe

\* A commit that is let past a mesh staged of its cut is not held back.
LEMMA OpensOver ==
  ASSUME NEW r, Observe(r), ~overlaid', NEW required,
         required = [k \in log[r - 1] \cap Desired |-> Edited(entries, log[r - 1])[k].revision],
         NEW s \in DOMAIN staged, NEW k \in DOMAIN staged[s].uploads, k \in DOMAIN Merged(required).required
  PROVE  Opens(r)
<1>1. overlaid' = (\/ overlaid
                   \/ /\ ~Opens(r)
                      /\ \E c \in DOMAIN staged :
                           DOMAIN staged[c].uploads \cap DOMAIN Merged(required).required # {})
  BY DEF Observe, Opens
<1>2. \E c \in DOMAIN staged : DOMAIN staged[c].uploads \cap DOMAIN Merged(required).required # {}
  OBVIOUS
<1>. QED
  BY <1>1, <1>2, Zenon

\* What is staged of the chunks stays; only empty changes go or come.
Restaged(r) ==
  /\ \A s \in DOMAIN staged' : s \in DOMAIN staged => staged'[s] = staged[s]
  /\ \A s \in DOMAIN staged' : s \notin DOMAIN staged => DOMAIN staged'[s].uploads = {}
  /\ \A s \in DOMAIN staged : s \notin DOMAIN staged' => DOMAIN staged[s].uploads = {}

LEMMA RestagedAlike ==
  ASSUME NEW r, Restaged(r), NEW g, g.staged = staged', NEW h, h.staged = staged, NEW k
  PROVE  Alike(g, h, k)
<1>1. Stagings(g, k) = Stagings(h, k)
  BY DEF Restaged, Stagings
<1>. QED
  BY <1>1 DEF Alike, Restaged, Stagings

\* An edit of chunks that are not held moves nothing.
LEMMA UnheldEdit ==
  ASSUME ShapeInv, CutInv, Shows(Here), StagedHeard, NEW r \in 2..Revision, r \notin known, Observe(r),
         \A k \in log[r - 1] : k \notin Tracked, UNCHANGED shown, known' = known \cup {r}
  PROVE  Shows(Here)' /\ StagedHeard'
<1>. DEFINE ks == log[r - 1]
            edited == Edited(entries, ks)
            required == [k \in ks \cap Desired |-> edited[k].revision]
<1>1. ks \cap Desired = {} /\ DOMAIN required = {}
  BY DEF Desired
<1>2. /\ entries' = edited /\ cuts' = cuts
      /\ \A k \in Chunk : k \notin ks => voxels'[k] = voxels[k]
  BY <1>1 DEF Observe
<1>3. entries \in Entries /\ IsStaged(staged) /\ r \notin DOMAIN staged
  BY DEF ShapeInv, CutInv, StagedHeard
<1>4. /\ \A s : s \in DOMAIN staged' <=>
           (s \in DOMAIN staged \/ (s = r /\ Opens(r))) /\ s \notin Superseded(r, required)
      /\ \A s \in DOMAIN staged' : s \in DOMAIN staged => staged'[s] = staged[s]
      /\ staged' = [s \in DOMAIN staged' |-> staged'[s]]
  BY ObserveStages
<1>5. Superseded(r, required) = {r}
  BY <1>1 DEF Superseded
<1>6. DOMAIN staged' = DOMAIN staged
  BY <1>3, <1>4, <1>5
<1>7. staged' = staged
  <2>1. staged = [s \in DOMAIN staged |-> staged[s]]
    BY <1>3 DEF IsStaged
  <2>. QED
    BY <1>4, <1>6, <2>1
<1>. HIDE DEF ks, edited, required
<1>8. ASSUME NEW k \in Chunk
      PROVE  entries'[k] = entries[k] /\ (Resident(entries, k) => voxels'[k] = voxels[k])
  <2>1. k \notin ks \/ entries[k] = None
    BY <1>8 DEF ks, Tracked
  <2>2. entries'[k] = entries[k]
    BY <1>2, <1>3, <2>1, EditedIs DEF edited
  <2>. QED
    BY <1>2, <2>1, <2>2 DEF Resident
<1>9. /\ Here'.entries = entries' /\ Here'.cuts = cuts /\ Here'.shown = shown /\ Here'.staged = staged
      /\ Here.entries = entries /\ Here.cuts = cuts /\ Here.shown = shown /\ Here.staged = staged
  BY <1>2, <1>7 DEF Here
<1>10. \A k \in Chunk : Still(Here', Here, k) /\ (Resident(Here.entries, k) => voxels'[k] = voxels[k])
  BY <1>8, <1>9 DEF Still, Resident
<1>11. Shows(Here)'
  BY <1>9, <1>10, MovedShows
<1>12. StagedHeard'
  BY <1>4 DEF StagedHeard
<1>. QED
  BY <1>11, <1>12

\* An edit of wanted chunks: their cut replaces what is staged of them, and takes
\* the place of the cuts it overlaps.
LEMMA WantedEdit ==
  ASSUME ShapeInv, CutInv, Shows(Here), StagedHeard, NEW r \in 2..Revision, r \notin known, Observe(r),
         \A s \in known : s < r,
         \A k \in log[r - 1] : k \in Tracked => k \in Desired,
         NEW wanted \in Desired, wanted \in log[r - 1],
         ~overlaid', UNCHANGED shown, known' = known \cup {r}
  PROVE  Shows(Here)' /\ StagedHeard'
<1>. DEFINE ks == log[r - 1]
            edited == Edited(entries, ks)
            required == [k \in ks \cap Desired |-> edited[k].revision]
            servers == Merged(required).servers
            new == [server |-> r, required |-> Merged(required).required]
            q == Append(Without(cuts, servers), new)
<1>0. /\ entries \in Entries /\ cuts \in Seq(CutType) /\ r \in Nat /\ r >= 2
      /\ Apart(cuts) /\ \A i \in DOMAIN cuts : cuts[i].server \in known
      /\ \A k \in Desired : k \in Tracked /\ entries[k] # None
      /\ Shows(Here)
  BY DEF ShapeInv, CutInv, Revision, Desired, Tracked
<1>1. /\ DOMAIN required = ks \cap Desired /\ wanted \in DOMAIN required
      /\ \A k \in DOMAIN required : required[k] = edited[k].revision
  OBVIOUS
<1>2. /\ entries' = edited /\ cuts' = q
      /\ \A k \in Chunk : k \notin ks => voxels'[k] = voxels[k]
  BY <1>1 DEF Observe
<1>3. /\ \A s : s \in DOMAIN staged' <=>
           (s \in DOMAIN staged \/ (s = r /\ Opens(r))) /\ s \notin servers
      /\ \A s \in DOMAIN staged' : s \in DOMAIN staged => staged'[s] = staged[s]
      /\ \A s \in DOMAIN staged' : s \notin DOMAIN staged => DOMAIN staged'[s].uploads = {}
  <2>1. Superseded(r, required) = servers
    BY <1>1 DEF Superseded
  <2>2. required = [k \in log[r - 1] \cap Desired |-> Edited(entries, log[r - 1])[k].revision]
    OBVIOUS
  <2>. HIDE DEF ks, edited, required, servers, new, q
  <2>3. /\ \A s : s \in DOMAIN staged' <=>
              (s \in DOMAIN staged \/ (s = r /\ Opens(r))) /\ s \notin Superseded(r, required)
        /\ \A s \in DOMAIN staged' : s \in DOMAIN staged => staged'[s] = staged[s]
        /\ \A s \in DOMAIN staged' : s \notin DOMAIN staged => DOMAIN staged'[s].uploads = {}
    BY <2>2, ObserveStages
  <2>. QED
    BY <2>1, <2>3
<1>4. required \in Required
  BY EditedRequired
<1>5. /\ q \in Seq(CutType) /\ Apart(q)
      /\ \A j \in DOMAIN q : q[j] = new \/ \E i \in DOMAIN cuts : q[j] = cuts[i]
      /\ \E j \in DOMAIN q : q[j] = new
      /\ \A i \in DOMAIN cuts : cuts[i].server \notin servers => \E j \in DOMAIN q : q[j] = cuts[i]
  <2>1. cuts \in Seq(CutType) /\ Apart(cuts) /\ r \in Nat /\ r \notin known /\ required \in Required
    BY <1>0, <1>4
  <2>2. \A i \in DOMAIN cuts : cuts[i].server \in known
    BY <1>0
  <2>. QED
    BY <2>1, <2>2, MergedCuts
<1>6. new.server = r /\ new.required = Merged(required).required
  OBVIOUS
<1>7. \A k \in Chunk :
        /\ k \notin ks \/ entries[k] = None => entries'[k] = entries[k]
        /\ k \in ks /\ entries[k] # None =>
             /\ entries'[k] # None /\ entries'[k].state \in {"queued_generation", "queued_meshing"}
             /\ k \in DOMAIN required /\ entries'[k].revision = required[k]
  <2>. TAKE k \in Chunk
  <2>. HIDE DEF edited, required
  <2>1. /\ k \notin ks \/ entries[k] = None => entries'[k] = entries[k]
        /\ k \in ks /\ entries[k] # None =>
             /\ entries'[k] # None
             /\ entries'[k].state \in {"queued_generation", "queued_meshing"}
    BY <1>0, <1>2, EditedIs DEF edited
  <2>2. k \in ks /\ entries[k] # None => k \in DOMAIN required
    BY <1>1 DEF Tracked
  <2>. QED
    BY <1>1, <1>2, <2>1, <2>2
<1>8. /\ \A k \in DOMAIN required : k \in DOMAIN new.required /\ new.required[k] = required[k]
      /\ \A i \in DOMAIN cuts : cuts[i].server \in servers =>
           \E j \in DOMAIN cuts : /\ cuts[j].server = cuts[i].server
                                  /\ DOMAIN cuts[j].required \subseteq DOMAIN new.required
      /\ \A s \in servers : \E i \in DOMAIN cuts : cuts[i].server = s
  <2>1. servers = Merged(required).servers
    OBVIOUS
  <2>. HIDE DEF ks, edited, required, servers, new, q
  <2>. QED
    BY <1>6, <2>1, MergedRequires
<1>9. \A k \in DOMAIN new.required :
        \/ k \in DOMAIN required
        \/ \E i \in DOMAIN cuts : k \in DOMAIN cuts[i].required /\ new.required[k] = cuts[i].required[k]
  <2>. HIDE DEF required, new
  <2>. QED
    BY <1>6, MergedIs
<1>. HIDE DEF edited, required, servers, new, q
<1>10. Empty(Here) /\ DOMAIN staged \subseteq Nat /\ \A k \in Chunk : Settled(Here, k, voxels[k])
  BY <1>0 DEF Shows, Here
<1>11. \A s \in DOMAIN staged : s < r /\ s \in known
  BY DEF StagedHeard
<1>12. \A s \in servers : s \in DOMAIN staged => DOMAIN staged[s].uploads = {}
  <2>1. Here.cuts = cuts /\ Here.staged = staged
    BY DEF Here
  <2>. QED
    BY <1>8, <1>10, <2>1 DEF Empty
<1>13. Restaged(r)
  BY <1>3, <1>12 DEF Restaged
<1>14. ASSUME NEW k \in DOMAIN new.required, ~Unstaged(Here, k) PROVE r \in DOMAIN staged'
  <2>1. Opens(r)
    <3>1. Here.staged = staged
      BY DEF Here
    <3>. HIDE DEF Here
    <3>2. PICK s \in DOMAIN staged : k \in DOMAIN staged[s].uploads
      BY <1>14, <3>1 DEF Unstaged, Stagings
    <3>3. required = [c \in log[r - 1] \cap Desired |-> Edited(entries, log[r - 1])[c].revision]
      BY DEF required, edited, ks
    <3>4. k \in DOMAIN Merged(required).required
      BY <1>6, <1>14
    <3>. QED
      BY <3>2, <3>3, <3>4, OpensOver
  <2>2. r \notin servers
    BY <1>0, <1>8
  <2>. QED
    BY <1>3, <2>1, <2>2
\* The new cut replaces what is staged of the chunks it requires.
<1>15. ASSUME NEW g, g.entries = entries', g.cuts = cuts', g.shown = shown, g.staged = staged'
       PROVE  DOMAIN g.staged \subseteq Nat /\ Empty(g) /\ \A k \in Chunk : Settled(g, k, voxels'[k])
  <2>0. Here.entries = entries /\ Here.cuts = cuts /\ Here.shown = shown /\ Here.staged = staged
    BY DEF Here
  <2>. HIDE DEF Here
  <2>1. DOMAIN g.staged \subseteq Nat
    BY <1>0, <1>3, <1>10, <1>15
  <2>2. Empty(g)
    <3>. SUFFICES ASSUME NEW j \in DOMAIN g.cuts, g.cuts[j].server \in DOMAIN g.staged
                  PROVE  DOMAIN g.staged[g.cuts[j].server].uploads = {}
      BY DEF Empty
    <3>1. CASE g.cuts[j] = new
      <4>1. g.cuts[j].server = r /\ r \notin DOMAIN staged
        BY <1>6, <1>11, <3>1
      <4>. QED
        BY <1>3, <1>15, <4>1
    <3>2. CASE \E i \in DOMAIN cuts : g.cuts[j] = cuts[i]
      <4>1. PICK i \in DOMAIN cuts : g.cuts[j] = cuts[i]
        BY <3>2
      <4>2. cuts[i].server # r
        BY <1>0
      <4>3. cuts[i].server \in DOMAIN staged /\ staged'[cuts[i].server] = staged[cuts[i].server]
        BY <1>3, <1>15, <4>1, <4>2
      <4>4. DOMAIN staged[cuts[i].server].uploads = {}
        BY <1>10, <2>0, <4>3 DEF Empty
      <4>. QED
        BY <1>15, <4>1, <4>3, <4>4
    <3>. QED
      BY <1>2, <1>5, <1>15, <3>1, <3>2
  <2>3. ASSUME NEW k \in Chunk PROVE Alike(g, Here, k) /\ NoneAfter(g, k, r)
    <3>1. Alike(g, Here, k)
      BY <1>13, <1>15, <2>0, RestagedAlike
    <3>2. NoneAfter(Here, k, r)
      <4>1. \A s \in DOMAIN staged : s \in Nat /\ s < r
        BY <1>10, <1>11
      <4>. QED
        BY <1>0, <2>0, <4>1 DEF NoneAfter, Stagings
    <3>. QED
      BY <3>1, <3>2, AlikeSees
  <2>4. ASSUME NEW k \in Chunk, k \in DOMAIN new.required, new.required[k] = entries'[k].revision,
               ~Unstaged(Here, k)
        PROVE  Replaces(g, k)
    <3>1. PICK j \in DOMAIN g.cuts : g.cuts[j] = new
      BY <1>2, <1>5, <1>15
    <3>2. r \in DOMAIN g.staged /\ NoneAfter(g, k, r)
      BY <1>14, <1>15, <2>3, <2>4
    <3>3. ReplacedBy(g, k, g.cuts[j])
      BY <1>6, <1>15, <2>4, <3>1, <3>2 DEF ReplacedBy
    <3>. QED
      BY <3>3 DEF Replaces
  <2>5. ASSUME NEW k \in Chunk PROVE Settled(g, k, voxels'[k])
    <3>1. Alike(g, Here, k) /\ g.shown[k] = Here.shown[k] /\ Settled(Here, k, voxels[k])
      BY <1>10, <1>15, <2>0, <2>3
    <3>2. CASE k \in ks /\ entries[k] # None
      <4>1. /\ entries'[k] # None /\ ~Resident(entries', k)
            /\ k \in DOMAIN new.required /\ new.required[k] = entries'[k].revision
        BY <1>7, <1>8, <3>2 DEF Resident
      <4>2. CASE Unstaged(Here, k)
        BY <1>15, <3>1, <4>1, <4>2, AlikeSees DEF Settled
      <4>3. CASE ~Unstaged(Here, k)
        BY <1>15, <2>4, <4>1, <4>3 DEF Settled
      <4>. QED
        BY <4>2, <4>3
    <3>3. CASE entries[k] = None
      BY <1>7, <1>15, <3>3 DEF Settled, Resident
    <3>4. CASE k \notin ks /\ entries[k] # None
      <4>1. Still(g, Here, k) /\ entries'[k] = entries[k] /\ voxels'[k] = voxels[k]
        BY <1>2, <1>7, <1>15, <2>0, <3>4 DEF Still, Resident
      <4>2. ASSUME Replaces(Here, k), ~Unstaged(Here, k) PROVE Replaces(g, k)
        <5>1. PICK i \in DOMAIN cuts : ReplacedBy(Here, k, cuts[i])
          BY <2>0, <4>2 DEF Replaces
        <5>2. /\ k \in DOMAIN cuts[i].required /\ cuts[i].required[k] = entries[k].revision
              /\ cuts[i].server \in DOMAIN staged
          BY <2>0, <5>1 DEF ReplacedBy
        <5>3. CASE cuts[i].server \notin servers
          <6>1. PICK j \in DOMAIN g.cuts : g.cuts[j] = cuts[i]
            BY <1>2, <1>5, <1>15, <5>3
          <6>2. cuts[i].server \in DOMAIN g.staged
            BY <1>3, <1>15, <5>2, <5>3
          <6>3. g.entries[k].revision = Here.entries[k].revision
            BY <1>15, <2>0, <4>1
          <6>. QED
            BY <3>1, <5>1, <5>2, <6>1, <6>2, <6>3, ReplacedOn
        <5>4. CASE cuts[i].server \in servers
          <6>1. k \in DOMAIN new.required
            <7>1. PICK j \in DOMAIN cuts : /\ cuts[j].server = cuts[i].server
                                           /\ DOMAIN cuts[j].required \subseteq DOMAIN new.required
              BY <1>8, <5>4
            <7>2. j = i
              BY <1>0, <7>1 DEF Apart
            <7>. QED
              BY <5>2, <7>1, <7>2
          <6>2. k \notin DOMAIN required
            BY <1>1, <3>4
          <6>3. PICK o \in DOMAIN cuts : k \in DOMAIN cuts[o].required /\ new.required[k] = cuts[o].required[k]
            BY <1>9, <6>1, <6>2
          <6>4. o = i
            BY <1>0, <5>2, <6>3 DEF Apart, Disjoint
          <6>5. new.required[k] = entries'[k].revision
            BY <4>1, <5>2, <6>3, <6>4
          <6>. QED
            BY <2>4, <4>2, <6>1, <6>5
        <5>. QED
          BY <5>3, <5>4
      <4>3. CASE Unstaged(Here, k)
        BY <3>1, <4>1, <4>3, AlikeSees, SettledOn
      <4>4. CASE ~Unstaged(Here, k)
        BY <3>1, <4>1, <4>2, <4>4, SettledOn
      <4>. QED
        BY <4>3, <4>4
    <3>. QED
      BY <3>2, <3>3, <3>4
  <2>. QED
    BY <2>1, <2>2, <2>5
<1>16. Here'.entries = entries' /\ Here'.cuts = cuts' /\ Here'.shown = shown /\ Here'.staged = staged'
  BY DEF Here
<1>17. DOMAIN Here'.staged \subseteq Nat /\ Empty(Here') /\ \A k \in Chunk : Settled(Here', k, voxels'[k])
  BY <1>15, <1>16
<1>18. Shows(Here)'
  BY <1>17 DEF Shows, Empty, Settled, Sees, Replaces, ReplacedBy, NoneAfter, Stagings, Unstaged, Resident
<1>19. StagedHeard'
  BY <1>3 DEF StagedHeard
<1>. QED
  BY <1>18, <1>19

LEMMA HearShown ==
  ASSUME CurrentInv, CutInv, ShownInv, NEW r \in 2..Revision, r \notin known, Hear(r)
  PROVE  ShownInv'
<1>. SUFFICES ASSUME InOrder'
              PROVE  Shows(Here)' /\ StagedHeard'
  BY DEF ShownInv
<1>0. ShapeInv /\ r \in Nat
  BY DEF CurrentInv, ShapeInv, Revision
<1>1. r > watermark
  BY DEF CurrentInv, ShapeInv, Revision
<1>2. /\ Observe(r) /\ known' = known \cup {r} /\ UNCHANGED shown /\ ~overlaid'
      /\ InOrder /\ \A s \in known : ~(s > r)
      /\ log[r - 1] \cap (Tracked \ Desired) = {}
  <2>1. watermark \in Int /\ r \in Int
    BY <1>0 DEF ShapeInv
  <2>2. ~(r <= watermark)
    BY <1>1, <2>1
  <2>3. Observe(r) /\ ~overlaid'
    BY <2>2, Zenon DEF Hear, InOrder
  <2>4. ~overlaid
    BY <2>3, OverlaidStays
  <2>. QED
    BY <1>1, <2>3, <2>4, Zenon DEF Hear, InOrder
<1>3. \A s \in known : s < r
  <2>1. \A s \in known : s \in Int /\ s # r
    BY <1>0 DEF ShapeInv, Revisions
  <2>. QED
    BY <1>0, <1>2, <2>1
<1>4. Shows(Here) /\ StagedHeard
  BY <1>2 DEF ShownInv
<1>5. \A k \in log[r - 1] : k \in Tracked => k \in Desired
  BY <1>2
<1>6. CASE \E k \in log[r - 1] : k \in Desired
  BY <1>0, <1>2, <1>3, <1>4, <1>5, <1>6, WantedEdit
<1>7. CASE \A k \in log[r - 1] : k \notin Desired
  BY <1>0, <1>2, <1>4, <1>5, <1>7, UnheldEdit
<1>. QED
  BY <1>6, <1>7

LEMMA ShownInit == ASSUME Init PROVE ShownInv
<1>1. /\ \A k \in Chunk : entries[k] = None
      /\ staged = <<>>
  BY DEF Init
<1>2. DOMAIN staged = {}
  BY <1>1
<1>3. Here.entries = entries /\ Here.staged = staged
  BY DEF Here
<1>4. Shows(Here)
  <2>. HIDE DEF Here
  <2>. QED
    BY <1>1, <1>2, <1>3 DEF Shows, Empty, Settled, Resident
<1>. QED
  BY <1>1, <1>2, <1>4 DEF ShownInv, StagedHeard

LEMMA IdleShown == ASSUME CurrentInv, ShownInv, UNCHANGED vars PROVE ShownInv'
<1>1. UNCHANGED <<late, aside, overlaid, known, entries, voxels, cuts, shown, staged>> /\ Here' = Here
  BY DEF vars, authorityVars, schedulerVars, hostVars, rendererVars, Here
<1>. QED
  BY <1>1, QuietShown DEF Still, CurrentInv

LEMMA ShownNext == ASSUME CurrentInv, CutInv, HeldInv, ShownInv, [Next]_vars PROVE ShownInv'
<1>1. ASSUME NEW f \in FocusPoint, NEW interest \in Interests, NEW failing \in SUBSET Chunk,
             Frame(f, interest, failing)
      PROVE  ShownInv'
  BY <1>1, FrameShown
<1>2. ASSUME NEW ks \in Cuts, Commit(ks) PROVE ShownInv'
  BY <1>2, CommitShown
<1>3. ASSUME NEW q \in requests, RequestFails(q) PROVE ShownInv'
  BY <1>3, RequestFailsShown
<1>4. ASSUME NEW q \in requests, NEW n \in q.asof..Revision, Receive(q, n) PROVE ShownInv'
  BY <1>4, ReceiveShown
<1>5. ASSUME NEW r \in 2..Revision \ known, Hear(r) PROVE ShownInv'
  BY <1>5, HearShown
<1>6. ASSUME NEW n \in 2..Revision, Resync(n) PROVE ShownInv'
  BY <1>6, ResyncShown
<1>7. ASSUME NEW pages \in [Page -> 1..Revision], Present(pages) PROVE ShownInv'
  BY <1>7, PresentShown
<1>8. CASE UNCHANGED vars
  BY <1>8, IdleShown
<1>. QED
  BY <1>1, <1>2, <1>3, <1>4, <1>5, <1>6, <1>7, <1>8 DEF Next

\* While commits are heard in order, edit no chunk that is kept unwanted, and are
\* held back wherever an older mesh of their cut is, a resident chunk shows the
\* voxels held, now or once the renderer's prepared changes are presented: no upload is lost between take_pending_canonical_chunk_uploads,
\* cuts that merge and supersede each other, and the terrain the renderer waits for.
THEOREM ResidentStaysShown == Spec => []ResidentIsShown
<1>1. Init => ShownInv
  BY ShownInit
<1>2. CurrentInv /\ CutInv /\ HeldInv /\ ShownInv /\ [Next]_vars => ShownInv'
  BY ShownNext
<1>3. ShownInv => ResidentIsShown
  <2>1. SUFFICES ASSUME ShownInv, ~late, ~aside, ~overlaid, NEW k \in Tracked, StateOf(k) = "resident"
                 PROVE  Upcoming(k) = voxels[k]
    BY DEF ResidentIsShown
  <2>2. k \in Chunk /\ Resident(entries, k)
    BY <2>1 DEF Tracked, StateOf, Resident
  <2>3. Here.entries = entries /\ Here.staged = staged
    BY DEF Here
  <2>4. Shows(Here)
    BY <2>1 DEF ShownInv, InOrder
  <2>5. Sees(Here, k, voxels[k]) /\ DOMAIN staged \subseteq Nat
    <3>. HIDE DEF Here
    <3>. QED
      BY <2>2, <2>3, <2>4 DEF Shows, Settled, Resident
  <2>. QED
    BY <2>2, <2>5, SeenIs
<1>. QED
  BY <1>1, <1>2, <1>3, CutsHold, WorkHeld, PTL DEF Spec
=============================================================================
