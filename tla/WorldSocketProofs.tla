-------------------------- MODULE WorldSocketProofs --------------------------
(* Proofs about WorldSocket: what the session works on is what the client  *)
(* waits for, and a client that keeps to its window is not refused.        *)
EXTENDS WorldSocket, FiniteSetTheorems, NaturalsInduction, WellFoundedInduction, TLAPS

\* The elements of a sequence.
Members(s) == {s[i] : i \in DOMAIN s}

Message ==
  [kind : {"request"}, id : Id, rank : Rank] \cup [kind : {"cancel"}, id : Id, rank : {None}]
Asks(ts, k) == ts[k].kind = "request"

\* Whom a client with the requests pend waits for.
Waited(pend) == {id \in Id : pend[id] # None}

\* What the session still works on when it has read the first k messages of ts.
Wanted(ts, k) ==
  {id \in Id :
     /\ \/ inflight[id] = "live" /\ releasing # id
        \/ \E j \in 1 .. k : Asks(ts, j) /\ ts[j].id = id
     /\ \A j \in 1 .. k : ts[j] # CancelMsg(id)}

FrameType ==
  [id : Id, total : Nat, offset : Int, transfer : Nat \cup {None}, tracked : BOOLEAN]
WireType ==
  [kind : {"frame", "fragment", "abort"}, id : Id, transfer : Nat \cup {None},
   total : Nat, offset : Int, len : Int]

LaneFrames == UNION {Members(lanes[l]) : l \in Lane}

\* The session has never heard of a request.
Unserved(id) ==
  /\ inflight[id] = "free"
  /\ \A task \in tasks : task.id # id
  /\ \A f \in LaneFrames : f.id # id
  /\ \A m \in Members(toClient) : m.id # id

\* The last piece of an answer.
Answers(m) == m.kind = "frame" \/ (m.kind = "fragment" /\ m.offset + m.len = m.total)

\* The messages ts on the socket, the requests pend waited for and the next id n:
\* a request is the first message about its id.
QueueInv(ts, pend, n) ==
  /\ ts \in Seq(Message) /\ pend \in [Id -> Rank \cup {None}] /\ n \in Nat \ {0}
  /\ \A id \in Waited(pend) : id < n
  /\ \A k \in DOMAIN ts : ts[k].id < n
  /\ \A j, k \in DOMAIN ts : j < k /\ Asks(ts, k) => ts[j].id # ts[k].id

\* Nobody is forgotten: a request on the socket and a live slot are waited for,
\* or a cancel follows; only a slot whose answer is out may outlive the wait.
ToldInv(ts, pend) ==
  /\ \A k \in DOMAIN ts : Asks(ts, k) =>
       /\ Unserved(ts[k].id)
       /\ ts[k].id \in Waited(pend) \/ \E j \in k + 1 .. Len(ts) : ts[j] = CancelMsg(ts[k].id)
  /\ \A id \in Live :
       id \in Waited(pend) \/ (\E k \in DOMAIN ts : ts[k] = CancelMsg(id)) \/ releasing = id

\* The window holds for the client, and for the session when it comes to a request.
RoomInv(ts, pend) ==
  /\ Cardinality(Waited(pend)) <= Window
  /\ \A k \in DOMAIN ts : Asks(ts, k) => Cardinality(Wanted(ts, k)) <= Window

\* The session knows only ids that were given out; refusals and answers that are
\* out belong to no live slot, except while the slot is being released.
SlotInv ==
  /\ inflight \in [Id -> {"free", "live", "cancelled"}]
  /\ releasing \in Id \cup {None}
  /\ lanes \in [Lane -> Seq(FrameType)]
  /\ tasks \subseteq [id : Id, rank : Rank]
  /\ toClient \in Seq(WireType)
  /\ transferId \in Nat /\ pace \in Pace
  /\ \A id \in Held : id < nextId
  /\ \A task \in tasks : task.id < nextId
  /\ \A f \in LaneFrames : f.id < nextId /\ (~f.tracked => inflight[f.id] # "live")
  /\ \A m \in Members(toClient) :
       m.id < nextId /\ (Answers(m) => inflight[m.id] # "live" \/ releasing = m.id)

SocketInv ==
  /\ QueueInv(toServer, pending, nextId) /\ ToldInv(toServer, pending)
  /\ RoomInv(toServer, pending) /\ SlotInv

-----------------------------------------------------------------------------
\* Sequences by their elements.
LEMMA MembersOf ==
  ASSUME NEW T, NEW s \in Seq(T)
  PROVE  /\ Members(s) \subseteq T
         /\ \A x \in T : Append(s, x) \in Seq(T) /\ Members(Append(s, x)) = Members(s) \cup {x}
         /\ s # <<>> => /\ Head(s) \in Members(s) /\ Tail(s) \in Seq(T)
                        /\ Members(Tail(s)) \subseteq Members(s)
<1>1. Members(s) \subseteq T
  BY DEF Members
<1>2. ASSUME NEW x \in T
      PROVE  Append(s, x) \in Seq(T) /\ Members(Append(s, x)) = Members(s) \cup {x}
  <2>1. /\ Append(s, x) \in Seq(T) /\ Len(Append(s, x)) = Len(s) + 1
        /\ \A i \in 1 .. Len(s) : Append(s, x)[i] = s[i]
        /\ Append(s, x)[Len(s) + 1] = x
    OBVIOUS
  <2>2. DOMAIN Append(s, x) = 1 .. Len(s) + 1 /\ DOMAIN s = 1 .. Len(s) /\ Len(s) \in Nat
    BY <2>1
  <2>3. \A i \in 1 .. Len(s) + 1 : i \in 1 .. Len(s) \/ i = Len(s) + 1
    BY <2>2
  <2>4. 1 .. Len(s) \subseteq 1 .. Len(s) + 1 /\ Len(s) + 1 \in 1 .. Len(s) + 1
    BY <2>2
  <2>5. \A y : y \in Members(Append(s, x)) <=> \E i \in 1 .. Len(s) + 1 : y = Append(s, x)[i]
    BY <2>2 DEF Members
  <2>6. \A y : y \in Members(s) <=> \E i \in 1 .. Len(s) : y = s[i]
    BY <2>2 DEF Members
  <2>. QED
    <3>1. ASSUME NEW y PROVE y \in Members(Append(s, x)) <=> y \in Members(s) \cup {x}
      <4>1. ASSUME NEW i \in 1 .. Len(s) + 1, y = Append(s, x)[i] PROVE y \in Members(s) \/ y = x
        BY <2>1, <2>3, <2>6, <4>1
      <4>2. ASSUME NEW i \in 1 .. Len(s), y = s[i] PROVE y \in Members(Append(s, x))
        BY <2>1, <2>4, <2>5, <4>2
      <4>3. x \in Members(Append(s, x))
        BY <2>1, <2>4, <2>5
      <4>. QED
        BY <2>5, <2>6, <4>1, <4>2, <4>3
    <3>. QED
      BY <2>1, <3>1
<1>3. ASSUME s # <<>>
      PROVE  /\ Head(s) \in Members(s) /\ Tail(s) \in Seq(T)
             /\ Members(Tail(s)) \subseteq Members(s)
  <2>1. /\ Len(s) \in Nat /\ Len(s) # 0 /\ Head(s) = s[1]
        /\ Tail(s) \in Seq(T) /\ Len(Tail(s)) = Len(s) - 1
        /\ \A i \in 1 .. Len(s) - 1 : Tail(s)[i] = s[i + 1]
    BY <1>3
  <2>2. 1 \in DOMAIN s /\ \A i \in DOMAIN Tail(s) : i \in 1 .. Len(s) - 1 /\ i + 1 \in DOMAIN s
    BY <2>1
  <2>. QED
    BY <2>1, <2>2 DEF Members
<1>. QED
  BY <1>1, <1>2, <1>3

\* A set of natural numbers has a least element.
LEMMA LeastExists ==
  ASSUME NEW S \in SUBSET Nat, S # {}
  PROVE  \E m \in S : \A n \in S : m <= n
<1>. DEFINE Less == {p \in Nat \X Nat : p[1] < p[2]}
<1>1. IsWellFoundedOn(Less, Nat)
  BY NatLessThanWellFounded DEF OpToRel
<1>2. PICK m \in S : \A n \in S : ~(<<n, m>> \in Less)
  <2>. HIDE DEF Less
  <2>. QED
    BY <1>1, WFMin
<1>3. ASSUME NEW n \in S PROVE m <= n
  <2>1. n \in Nat /\ m \in Nat /\ ~(<<n, m>> \in Less)
    BY <1>2
  <2>2. ~(n < m)
    BY <2>1
  <2>. QED
    BY <2>1, <2>2
<1>. QED
  BY <1>3

LEMMA FloorIsPace == Floor \in Pace
<1>1. \E slow \in Pace : \A other \in Pace : slow <= other
  BY LeastExists, WorldSocketAssumption
<1>. QED
  BY <1>1 DEF Floor

\* Whom a full window gives up is somebody waited for.
LEMMA CandidateIsPending ==
  ASSUME NEW rank \in Rank, pending \in [Id -> Rank \cup {None}], Candidate(rank) # None
  PROVE  Candidate(rank) \in Pending
<1>. DEFINE lower == {id \in Pending : pending[id] > rank}
            weight(id) == (3 - pending[id]) * (MaxRequests + 1) + (MaxRequests - id)
<1>1. lower # {}
  BY DEF Candidate
<1>2. \A id \in lower : /\ id \in 1 .. MaxRequests /\ pending[id] \in 0 .. 3
                        /\ weight(id) \in Nat
  <2>1. ASSUME NEW id \in lower
        PROVE  /\ id \in 1 .. MaxRequests /\ pending[id] \in 0 .. 3
               /\ 3 - pending[id] \in Nat /\ MaxRequests + 1 \in Nat /\ MaxRequests - id \in Nat
    <3>1. id \in Id /\ pending[id] \in Rank \cup {None} /\ pending[id] # None
      BY DEF Pending
    <3>2. pending[id] \in 0 .. 3 /\ MaxRequests \in Nat
      BY <3>1, WorldSocketAssumption
    <3>3. id \in 1 .. MaxRequests
      BY <3>1 DEF Id
    <3>. HIDE DEF lower, weight
    <3>. QED
      BY <3>2, <3>3
  <2>2. ASSUME NEW a \in Nat, NEW b \in Nat, NEW c \in Nat PROVE a * b + c \in Nat
    OBVIOUS
  <2>. QED
    BY <2>1, <2>2
<1>3. PICK best \in lower : \A other \in lower : weight(best) <= weight(other)
  <2>. DEFINE S == {weight(id) : id \in lower}
  <2>1. S \in SUBSET Nat /\ S # {}
    BY <1>1, <1>2
  <2>2. PICK m \in S : \A n \in S : m <= n
    BY <2>1, LeastExists
  <2>. QED
    BY <2>2
<1>4. ASSUME NEW other \in lower
      PROVE  \/ pending[best] > pending[other]
             \/ pending[best] = pending[other] /\ best >= other
  <2>. DEFINE a == pending[best]
              b == pending[other]
              n == MaxRequests
  <2>1. a \in 0 .. 3 /\ b \in 0 .. 3 /\ best \in 1 .. n /\ other \in 1 .. n /\ n \in Nat
    BY <1>2, WorldSocketAssumption
  <2>2. (3 - a) * (n + 1) + (n - best) <= (3 - b) * (n + 1) + (n - other)
    BY <1>3
  <2>. HIDE DEF a, b, n
  <2>3. CASE a < b
    <3>1. \/ (a = 0 /\ b \in {1, 2, 3}) \/ (a = 1 /\ b \in {2, 3}) \/ (a = 2 /\ b = 3)
      BY <2>1, <2>3
    <3>. QED
      BY <2>1, <2>2, <3>1
  <2>4. CASE a = b
    <3>1. a \in {0, 1, 2, 3}
      BY <2>1
    <3>2. n - best <= n - other
      BY <2>1, <2>2, <2>4, <3>1
    <3>. QED
      BY <2>1, <2>4, <3>2 DEF a, b
  <2>. QED
    BY <2>1, <2>3, <2>4 DEF a, b
<1>5. best \in {id \in lower : \A other \in lower :
                   \/ pending[id] > pending[other]
                   \/ pending[id] = pending[other] /\ id >= other}
  BY <1>4
<1>. QED
  BY <1>1, <1>5 DEF Candidate

-----------------------------------------------------------------------------
LEMMA IdsFinite ==
  /\ \A S \in SUBSET Id : IsFiniteSet(S) /\ Cardinality(S) \in Nat
  /\ \A S, T \in SUBSET Id : S \subseteq T => Cardinality(S) <= Cardinality(T)
<1>1. IsFiniteSet(Id)
  BY FS_Interval, WorldSocketAssumption DEF Id
<1>2. \A S \in SUBSET Id : IsFiniteSet(S)
  BY <1>1, FS_Subset
<1>3. \A S \in SUBSET Id : Cardinality(S) \in Nat
  BY <1>2, FS_CardinalityType
<1>. QED
  BY <1>2, <1>3, FS_Subset

LEMMA MessagesTyped ==
  ASSUME NEW ts, NEW pend, NEW n, QueueInv(ts, pend, n), NEW k \in DOMAIN ts
  PROVE  ts[k] \in Message /\ ts[k].id \in Id
<1>1. ts \in Seq(Message)
  BY DEF QueueInv
<1>2. ts[k] \in Message
  BY <1>1
<1>. QED
  BY <1>2 DEF Message

LEMMA FramesTyped ==
  ASSUME SlotInv
  PROVE  /\ LaneFrames \subseteq FrameType /\ Members(toClient) \subseteq WireType
         /\ \A l \in Lane : Members(lanes[l]) \subseteq LaneFrames
<1>1. \A l \in Lane : lanes[l] \in Seq(FrameType)
  BY DEF SlotInv
<1>2. \A l \in Lane : Members(lanes[l]) \subseteq FrameType
  BY <1>1, MembersOf
<1>3. Members(toClient) \subseteq WireType
  BY MembersOf DEF SlotInv
<1>. QED
  BY <1>2, <1>3 DEF LaneFrames

\* One lane gets the frames q, of which only those of S are new.
LEMMA LaneChange ==
  ASSUME SlotInv, NEW l \in Lane, NEW q \in Seq(FrameType), NEW S,
         lanes' = [lanes EXCEPT ![l] = q], Members(q) \subseteq Members(lanes[l]) \cup S
  PROVE  lanes' \in [Lane -> Seq(FrameType)] /\ LaneFrames' \subseteq LaneFrames \cup S
<1>1. lanes \in [Lane -> Seq(FrameType)]
  BY DEF SlotInv
<1>2. \A k \in Lane : lanes'[k] = IF k = l THEN q ELSE lanes[k]
  BY <1>1
<1>3. lanes' \in [Lane -> Seq(FrameType)]
  BY <1>1
<1>4. \A k \in Lane : Members(lanes'[k]) \subseteq Members(lanes[k]) \cup S
  BY <1>2
<1>. QED
  BY <1>3, <1>4 DEF LaneFrames

-----------------------------------------------------------------------------
\* A step of a task, the writer or the wire: nothing becomes live, a slot that is
\* released was not live any more, and an answer goes out only with its slot.
LEMMA SessionStep ==
  ASSUME SocketInv, UNCHANGED <<toServer, pending, nextId>>,
         inflight' \in [Id -> {"free", "live", "cancelled"}],
         \A id \in Id : inflight'[id] = inflight[id] \/ inflight'[id] = "free",
         releasing' \in Id \cup {None},
         \A id \in Id : releasing = id => releasing' = id \/ inflight'[id] # "live",
         tasks' \subseteq tasks,
         lanes' \in [Lane -> Seq(FrameType)],
         \A f \in LaneFrames' :
           \/ \E e \in LaneFrames : f.id = e.id /\ f.tracked = e.tracked
           \/ \E task \in tasks : f.id = task.id /\ f.tracked,
         toClient' \in Seq(WireType),
         \A m \in Members(toClient') :
           \/ m \in Members(toClient)
           \/ /\ \E e \in LaneFrames : m.id = e.id
              /\ Answers(m) => inflight'[m.id] # "live" \/ releasing' = m.id,
         transferId' \in Nat, pace' \in Pace
  PROVE  SocketInv'
<1>. USE DEF SocketInv
<1>1. LaneFrames \subseteq FrameType /\ Members(toClient) \subseteq WireType
  BY FramesTyped
<1>2. QueueInv(toServer, pending, nextId)'
  BY DEF QueueInv, Waited, Asks
<1>3. \A id \in Id : Unserved(id) => Unserved(id)'
  BY DEF Unserved
<1>4. \A id \in Live' : id \in Live /\ (releasing = id => releasing' = id)
  BY DEF Live
<1>5. ToldInv(toServer, pending)'
  <2>1. \A k \in DOMAIN toServer : toServer[k].id \in Id
    BY MessagesTyped
  <2>2. \A k \in DOMAIN toServer : Asks(toServer, k) => Unserved(toServer[k].id)'
    BY <1>3, <2>1 DEF ToldInv
  <2>3. \A id \in Live' :
          id \in Waited(pending) \/ (\E k \in DOMAIN toServer : toServer[k] = CancelMsg(id)) \/ releasing' = id
    BY <1>4 DEF ToldInv
  <2>4. \A k \in DOMAIN toServer : Asks(toServer, k) =>
          \/ toServer[k].id \in Waited(pending)
          \/ \E j \in k + 1 .. Len(toServer) : toServer[j] = CancelMsg(toServer[k].id)
    BY DEF ToldInv
  <2>. QED
    BY <2>2, <2>3, <2>4 DEF ToldInv, Asks, Waited
<1>6. RoomInv(toServer, pending)'
  <2>1. ASSUME NEW k \in DOMAIN toServer
        PROVE  Wanted(toServer, k)' \subseteq Wanted(toServer, k) /\ Wanted(toServer, k) \in SUBSET Id
    BY <1>4 DEF Wanted, Live, Asks
  <2>2. \A k \in DOMAIN toServer : Cardinality(Wanted(toServer, k)') <= Cardinality(Wanted(toServer, k))
    BY <2>1, IdsFinite
  <2>3. ASSUME NEW k \in DOMAIN toServer, Asks(toServer, k)
        PROVE  Cardinality(Wanted(toServer, k)') <= Window
    <3>1. Wanted(toServer, k) \in SUBSET Id /\ Wanted(toServer, k)' \in SUBSET Id
      BY <2>1
    <3>2. Cardinality(Wanted(toServer, k)) \in Nat /\ Cardinality(Wanted(toServer, k)') \in Nat
      BY <3>1, IdsFinite
    <3>3. Cardinality(Wanted(toServer, k)) <= Window
      BY <2>3 DEF RoomInv
    <3>. QED
      BY <2>2, <3>2, <3>3, WorldSocketAssumption
  <2>. QED
    BY <2>3 DEF RoomInv, Waited, Asks
<1>7. SlotInv'
  <2>1. \A id \in Held' : id < nextId
    BY DEF SlotInv, Held
  <2>2. \A task \in tasks' : task.id < nextId
    BY DEF SlotInv
  <2>3. ASSUME NEW f \in LaneFrames'
        PROVE  f.id < nextId /\ (~f.tracked => inflight'[f.id] # "live")
    <3>1. CASE \E e \in LaneFrames : f.id = e.id /\ f.tracked = e.tracked
      BY <1>1, <3>1 DEF SlotInv, FrameType
    <3>2. CASE \E task \in tasks : f.id = task.id /\ f.tracked
      BY <3>2 DEF SlotInv
    <3>. QED
      BY <2>3, <3>1, <3>2
  <2>4. ASSUME NEW m \in Members(toClient')
        PROVE  m.id < nextId /\ (Answers(m) => inflight'[m.id] # "live" \/ releasing' = m.id)
    <3>1. CASE m \in Members(toClient)
      BY <1>1, <3>1 DEF SlotInv, WireType
    <3>2. CASE m \notin Members(toClient)
      BY <3>2 DEF SlotInv
    <3>. QED
      BY <3>1, <3>2
  <2>. QED
    BY <2>1, <2>2, <2>3, <2>4 DEF SlotInv, Members, Held
<1>. QED
  BY <1>2, <1>5, <1>6, <1>7

-----------------------------------------------------------------------------
\* The client takes in messages, and stops waiting for what they answer.
LEMMA HearStep ==
  ASSUME SocketInv, UNCHANGED <<toServer, nextId, session, pace>>,
         toClient' \in Seq(WireType), Members(toClient') \subseteq Members(toClient),
         pending' \in [Id -> Rank \cup {None}],
         \A id \in Id : \/ pending'[id] = pending[id]
                        \/ /\ pending'[id] = None
                           /\ \E m \in Members(toClient) : m.id = id /\ Answers(m)
  PROVE  SocketInv'
<1>. USE DEF SocketInv, session
<1>1. Waited(pending') \subseteq Waited(pending)
  BY DEF Waited
<1>2. QueueInv(toServer, pending, nextId)'
  BY <1>1 DEF QueueInv, Asks
<1>3. \A id \in Id : Unserved(id) => Unserved(id)' /\ (id \in Waited(pending) => id \in Waited(pending'))
  BY DEF Unserved, LaneFrames, Waited
<1>4. ToldInv(toServer, pending)'
  <2>1. \A k \in DOMAIN toServer : toServer[k].id \in Id
    BY MessagesTyped
  <2>2. \A k \in DOMAIN toServer : Asks(toServer, k) =>
          /\ Unserved(toServer[k].id)'
          /\ \/ toServer[k].id \in Waited(pending')
             \/ \E j \in k + 1 .. Len(toServer) : toServer[j] = CancelMsg(toServer[k].id)
    BY <1>3, <2>1 DEF ToldInv
  <2>3. ASSUME NEW id \in Live
        PROVE  id \in Waited(pending') \/ (\E k \in DOMAIN toServer : toServer[k] = CancelMsg(id)) \/ releasing = id
    <3>1. CASE pending'[id] = pending[id]
      BY <3>1 DEF ToldInv, Waited, Live
    <3>2. CASE \E m \in Members(toClient) : m.id = id /\ Answers(m)
      BY <3>2 DEF SlotInv, Live
    <3>. QED
      BY <3>1, <3>2 DEF Live
  <2>. QED
    BY <2>2, <2>3 DEF ToldInv, Asks, Live
<1>5. RoomInv(toServer, pending)'
  <2>1. \A k : Wanted(toServer, k)' = Wanted(toServer, k)
    BY DEF Wanted, Asks
  <2>2. Cardinality(Waited(pending')) <= Window
    <3>1. Waited(pending) \in SUBSET Id /\ Waited(pending') \in SUBSET Id
      BY DEF Waited
    <3>2. /\ Cardinality(Waited(pending)) \in Nat /\ Cardinality(Waited(pending')) \in Nat
          /\ Cardinality(Waited(pending')) <= Cardinality(Waited(pending))
      BY <1>1, <3>1, IdsFinite
    <3>. QED
      BY <3>2, WorldSocketAssumption DEF RoomInv
  <2>. QED
    BY <2>1, <2>2 DEF RoomInv, Asks
<1>6. SlotInv'
  BY DEF SlotInv, LaneFrames, Held
<1>. QED
  BY <1>2, <1>4, <1>5, <1>6

\* A lost socket takes its session along.
LEMMA ResetStep ==
  ASSUME SocketInv, DetachSocket, UNCHANGED nextId,
         \/ UNCHANGED pending
         \/ pending' = [id \in Id |-> None]
  PROVE  SocketInv'
<1>. USE DEF SocketInv, DetachSocket, FreshSession
<1>1. Waited(pending') \subseteq Waited(pending) /\ pending' \in [Id -> Rank \cup {None}]
  BY DEF Waited, QueueInv
<1>2. QueueInv(toServer, pending, nextId)'
  <2>1. <<>> \in Seq(Message) /\ DOMAIN <<>> = {}
    OBVIOUS
  <2>. QED
    BY <1>1, <2>1 DEF QueueInv
<1>3. ToldInv(toServer, pending)'
  BY DEF ToldInv, Live
<1>4. RoomInv(toServer, pending)'
  <2>1. Waited(pending) \in SUBSET Id /\ Waited(pending') \in SUBSET Id
    BY DEF Waited
  <2>2. /\ Cardinality(Waited(pending)) \in Nat /\ Cardinality(Waited(pending')) \in Nat
        /\ Cardinality(Waited(pending')) <= Cardinality(Waited(pending))
    BY <1>1, <2>1, IdsFinite
  <2>3. DOMAIN toServer' = {}
    OBVIOUS
  <2>. QED
    BY <2>2, <2>3, WorldSocketAssumption DEF RoomInv
<1>5. SlotInv'
  <2>1. Members(<<>>) = {}
    BY DEF Members
  <2>2. LaneFrames' = {} /\ Members(toClient') = {} /\ Held' = {}
    BY <2>1 DEF LaneFrames, Held
  <2>. QED
    BY <2>2, FloorIsPace DEF SlotInv
<1>. QED
  BY <1>2, <1>3, <1>4, <1>5

-----------------------------------------------------------------------------
\* The client takes back a request, or stops waiting, and tells the session.
LEMMA TellKeeps ==
  ASSUME SlotInv, NEW ts, NEW pend, NEW n,
         QueueInv(ts, pend, n), ToldInv(ts, pend), RoomInv(ts, pend),
         NEW id \in Id, id < n,
         NEW pend2 \in [Id -> Rank \cup {None}],
         \A x \in Id : pend2[x] = IF x = id THEN None ELSE pend[x],
         NEW ts2, ts2 = Append(ts, CancelMsg(id))
  PROVE  /\ QueueInv(ts2, pend2, n) /\ ToldInv(ts2, pend2) /\ RoomInv(ts2, pend2)
         /\ Waited(pend2) = Waited(pend) \ {id}
<1>1. Waited(pend2) = Waited(pend) \ {id} /\ pend2 \in [Id -> Rank \cup {None}]
  BY DEF Waited, QueueInv
<1>2. CancelMsg(id) \in Message /\ CancelMsg(id).kind = "cancel" /\ CancelMsg(id).id = id
  BY DEF CancelMsg, Message
<1>3. /\ ts \in Seq(Message) /\ ts2 \in Seq(Message) /\ Len(ts) \in Nat /\ Len(ts2) = Len(ts) + 1
      /\ \A k \in 1 .. Len(ts) : ts2[k] = ts[k]
      /\ ts2[Len(ts) + 1] = CancelMsg(id)
      /\ DOMAIN ts = 1 .. Len(ts) /\ DOMAIN ts2 = 1 .. Len(ts) + 1
  BY <1>2 DEF QueueInv
<1>4. \A k \in DOMAIN ts2 : /\ k \in Nat /\ (k \in DOMAIN ts \/ k = Len(ts) + 1)
                            /\ Asks(ts2, k) => k \in DOMAIN ts /\ Asks(ts, k)
  BY <1>2, <1>3 DEF Asks
<1>5. QueueInv(ts2, pend2, n)
  <2>1. \A k \in DOMAIN ts2 : ts2[k].id < n
    BY <1>2, <1>3, <1>4 DEF QueueInv
  <2>2. ASSUME NEW j \in DOMAIN ts2, NEW k \in DOMAIN ts2, j < k, Asks(ts2, k)
        PROVE  ts2[j].id # ts2[k].id
    <3>1. k \in DOMAIN ts /\ Asks(ts, k)
      BY <1>4, <2>2
    <3>2. j \in DOMAIN ts
      BY <1>3, <1>4, <2>2, <3>1
    <3>. QED
      BY <1>3, <2>2, <3>1, <3>2 DEF QueueInv
  <2>3. n \in Nat \ {0} /\ \A x \in Waited(pend2) : x < n
    BY <1>1 DEF QueueInv
  <2>. QED
    BY <1>1, <1>3, <2>1, <2>2, <2>3 DEF QueueInv
<1>6. ToldInv(ts2, pend2)
  <2>1. ASSUME NEW x, x \in Waited(pend)
        PROVE  x \in Waited(pend2) \/ (x = id /\ ts2[Len(ts) + 1] = CancelMsg(x))
    BY <1>1, <1>3, <2>1
  <2>2. ASSUME NEW k \in DOMAIN ts2, Asks(ts2, k)
        PROVE  /\ Unserved(ts2[k].id)
               /\ \/ ts2[k].id \in Waited(pend2)
                  \/ \E j \in k + 1 .. Len(ts2) : ts2[j] = CancelMsg(ts2[k].id)
    <3>1. k \in DOMAIN ts /\ Asks(ts, k) /\ ts2[k] = ts[k]
      BY <1>3, <1>4, <2>2
    <3>2. Len(ts) + 1 \in k + 1 .. Len(ts2) /\ \A j \in k + 1 .. Len(ts) : j \in k + 1 .. Len(ts2) /\ ts2[j] = ts[j]
      BY <1>3, <3>1
    <3>3. /\ Unserved(ts[k].id)
          /\ ts[k].id \in Waited(pend) \/ \E j \in k + 1 .. Len(ts) : ts[j] = CancelMsg(ts[k].id)
      BY <3>1 DEF ToldInv
    <3>. QED
      BY <2>1, <3>1, <3>2, <3>3
  <2>3. ASSUME NEW x \in Live
        PROVE  x \in Waited(pend2) \/ (\E k \in DOMAIN ts2 : ts2[k] = CancelMsg(x)) \/ releasing = x
    <3>1. x \in Waited(pend) \/ (\E k \in DOMAIN ts : ts[k] = CancelMsg(x)) \/ releasing = x
      BY DEF ToldInv
    <3>2. Len(ts) + 1 \in DOMAIN ts2 /\ \A k \in DOMAIN ts : k \in DOMAIN ts2 /\ ts2[k] = ts[k]
      BY <1>3
    <3>. QED
      BY <2>1, <3>1, <3>2
  <2>. QED
    BY <2>2, <2>3 DEF ToldInv
<1>7. RoomInv(ts2, pend2)
  <2>1. ASSUME NEW k \in DOMAIN ts2, Asks(ts2, k)
        PROVE  Cardinality(Wanted(ts2, k)) <= Window
    <3>1. k \in DOMAIN ts /\ Asks(ts, k)
      BY <1>4, <2>1
    <3>2. \A j \in 1 .. k : ts2[j] = ts[j]
      BY <1>3, <3>1
    <3>3. Wanted(ts2, k) = Wanted(ts, k)
      BY <3>2 DEF Wanted, Asks
    <3>. QED
      BY <3>1, <3>3 DEF RoomInv
  <2>2. Cardinality(Waited(pend2)) <= Window
    <3>1. Waited(pend) \in SUBSET Id /\ Waited(pend2) \in SUBSET Id /\ Waited(pend2) \subseteq Waited(pend)
      BY <1>1 DEF Waited
    <3>2. /\ Cardinality(Waited(pend)) \in Nat /\ Cardinality(Waited(pend2)) \in Nat
          /\ Cardinality(Waited(pend2)) <= Cardinality(Waited(pend))
      BY <3>1, IdsFinite
    <3>. QED
      BY <3>2, WorldSocketAssumption DEF RoomInv
  <2>. QED
    BY <2>1, <2>2 DEF RoomInv
<1>. QED
  BY <1>1, <1>5, <1>6, <1>7

\* The client makes a new request while it waits for less than its window: all
\* that the session will work on when it reads it is waited for.
LEMMA AskKeeps ==
  ASSUME SlotInv, NEW ts, NEW pend,
         QueueInv(ts, pend, nextId), ToldInv(ts, pend), RoomInv(ts, pend),
         nextId \in Id, NEW rank \in Rank, Cardinality(Waited(pend)) < Window,
         NEW pend2, pend2 = [pend EXCEPT ![nextId] = rank],
         NEW ts2, ts2 = Append(ts, RequestMsg(nextId, rank))
  PROVE  QueueInv(ts2, pend2, nextId + 1) /\ ToldInv(ts2, pend2) /\ RoomInv(ts2, pend2)
<1>. DEFINE n == nextId
<1>0. n \in Nat /\ rank # None /\ pend \in [Id -> Rank \cup {None}]
  BY WorldSocketAssumption DEF QueueInv
<1>1. Waited(pend2) = Waited(pend) \cup {n} /\ pend2 \in [Id -> Rank \cup {None}] /\ n \notin Waited(pend)
  <2>1. \A x \in Id : pend2[x] = IF x = n THEN rank ELSE pend[x]
    BY <1>0
  <2>2. \A x \in Waited(pend) : x < n
    BY DEF QueueInv
  <2>3. pend2 \in [Id -> Rank \cup {None}]
    BY <1>0
  <2>. QED
    BY <1>0, <2>1, <2>2, <2>3 DEF Waited
<1>2. RequestMsg(n, rank) \in Message /\ RequestMsg(n, rank).kind = "request" /\ RequestMsg(n, rank).id = n
  BY DEF RequestMsg, Message
<1>. HIDE DEF n
<1>3. /\ ts \in Seq(Message) /\ ts2 \in Seq(Message) /\ Len(ts) \in Nat /\ Len(ts2) = Len(ts) + 1
      /\ \A k \in 1 .. Len(ts) : ts2[k] = ts[k]
      /\ ts2[Len(ts) + 1] = RequestMsg(n, rank)
      /\ DOMAIN ts = 1 .. Len(ts) /\ DOMAIN ts2 = 1 .. Len(ts) + 1
  <2>1. ts2 = Append(ts, RequestMsg(n, rank)) /\ ts \in Seq(Message)
    BY DEF n, QueueInv
  <2>. QED
    BY <1>2, <2>1
<1>4. \A k \in DOMAIN ts2 : k \in Nat /\ (k \in DOMAIN ts \/ k = Len(ts) + 1)
  BY <1>3
<1>5. \A k \in DOMAIN ts : k \in DOMAIN ts2 /\ k < Len(ts) + 1 /\ ts2[k] = ts[k] /\ ts[k].id < n /\ ts[k].id \in Id
  <2>1. \A k \in DOMAIN ts : k \in DOMAIN ts2 /\ k < Len(ts) + 1 /\ ts2[k] = ts[k]
    BY <1>3
  <2>2. \A k \in DOMAIN ts : ts[k].id < n
    BY DEF n, QueueInv
  <2>3. \A k \in DOMAIN ts : ts[k].id \in Id
    BY MessagesTyped
  <2>. QED
    BY <2>1, <2>2, <2>3
<1>6. \A k \in DOMAIN ts : /\ Asks(ts2, k) <=> Asks(ts, k)
                           /\ ts2[k] # RequestMsg(n, rank)
  BY <1>0, <1>2, <1>5 DEF Asks, Id
<1>7. QueueInv(ts2, pend2, nextId + 1)
  <2>1. \A k \in DOMAIN ts2 : ts2[k].id < n + 1
    BY <1>0, <1>2, <1>3, <1>4, <1>5, WorldSocketAssumption DEF Id
  <2>2. ASSUME NEW j \in DOMAIN ts2, NEW k \in DOMAIN ts2, j < k, Asks(ts2, k)
        PROVE  ts2[j].id # ts2[k].id
    <3>1. j \in DOMAIN ts
      BY <1>3, <1>4, <2>2
    <3>2. CASE k \in DOMAIN ts
      BY <1>5, <1>6, <2>2, <3>1, <3>2 DEF QueueInv
    <3>3. CASE k = Len(ts) + 1
      BY <1>0, <1>2, <1>3, <1>5, <3>1, <3>3, WorldSocketAssumption DEF Id
    <3>. QED
      BY <1>4, <3>2, <3>3
  <2>3. \A x \in Waited(pend2) : x < n + 1
    <3>1. \A x \in Waited(pend) : x < n /\ x \in Nat
      BY WorldSocketAssumption DEF QueueInv, n, Waited, Id
    <3>. QED
      BY <1>0, <1>1, <3>1
  <2>4. n + 1 \in Nat \ {0}
    BY <1>0
  <2>. QED
    BY <1>1, <1>3, <2>1, <2>2, <2>3, <2>4 DEF QueueInv, n
<1>8. ToldInv(ts2, pend2)
  <2>1. Unserved(n)
    <3>1. n \in Id /\ \A x \in Held : x < n
      BY DEF SlotInv, n
    <3>2. inflight[n] = "free"
      BY <1>0, <3>1 DEF Held
    <3>. QED
      BY <1>0, <3>2 DEF Unserved, SlotInv, n
  <2>2. ASSUME NEW k \in DOMAIN ts2, Asks(ts2, k)
        PROVE  /\ Unserved(ts2[k].id)
               /\ \/ ts2[k].id \in Waited(pend2)
                  \/ \E j \in k + 1 .. Len(ts2) : ts2[j] = CancelMsg(ts2[k].id)
    <3>1. CASE k = Len(ts) + 1
      BY <1>1, <1>2, <1>3, <2>1, <3>1
    <3>2. CASE k \in DOMAIN ts
      <4>1. Asks(ts, k) /\ ts2[k] = ts[k]
        BY <1>5, <1>6, <2>2, <3>2
      <4>2. \A j \in k + 1 .. Len(ts) : j \in k + 1 .. Len(ts2) /\ ts2[j] = ts[j]
        BY <1>3, <3>2
      <4>3. /\ Unserved(ts[k].id)
            /\ ts[k].id \in Waited(pend) \/ \E j \in k + 1 .. Len(ts) : ts[j] = CancelMsg(ts[k].id)
        BY <3>2, <4>1 DEF ToldInv
      <4>. QED
        BY <1>1, <4>1, <4>2, <4>3
    <3>. QED
      BY <1>4, <3>1, <3>2
  <2>3. ASSUME NEW x \in Live
        PROVE  x \in Waited(pend2) \/ (\E k \in DOMAIN ts2 : ts2[k] = CancelMsg(x)) \/ releasing = x
    <3>1. x \in Waited(pend) \/ (\E k \in DOMAIN ts : ts[k] = CancelMsg(x)) \/ releasing = x
      BY DEF ToldInv
    <3>. QED
      BY <1>1, <1>5, <3>1
  <2>. QED
    BY <2>2, <2>3 DEF ToldInv
<1>9. RoomInv(ts2, pend2)
  <2>1. Waited(pend2) \in SUBSET Id /\ Cardinality(Waited(pend2)) <= Window
    <3>1. Waited(pend) \in SUBSET Id /\ Waited(pend2) \in SUBSET Id
      BY DEF Waited
    <3>2. IsFiniteSet(Waited(pend)) /\ Cardinality(Waited(pend)) \in Nat
      BY <3>1, IdsFinite
    <3>3. Cardinality(Waited(pend2)) = Cardinality(Waited(pend)) + 1
      BY <1>1, <3>2, FS_AddElement
    <3>4. Window \in Nat /\ Cardinality(Waited(pend)) < Window
      BY WorldSocketAssumption
    <3>5. \A c, w \in Nat : c < w => c + 1 <= w
      OBVIOUS
    <3>6. Cardinality(Waited(pend)) + 1 <= Window
      BY <3>2, <3>4, <3>5
    <3>. QED
      BY <3>1, <3>3, <3>6
  <2>2. ASSUME NEW k \in DOMAIN ts, Asks(ts, k)
        PROVE  Cardinality(Wanted(ts2, k)) <= Window
    <3>1. \A j \in 1 .. k : ts2[j] = ts[j]
      BY <1>3
    <3>2. Wanted(ts2, k) = Wanted(ts, k)
      BY <3>1 DEF Wanted, Asks
    <3>. QED
      BY <2>2, <3>2 DEF RoomInv
  <2>3. Wanted(ts2, Len(ts) + 1) \subseteq Waited(pend2)
    <3>1. SUFFICES ASSUME NEW x \in Id, x # n,
                          \/ x \in Live /\ releasing # x
                          \/ \E j \in 1 .. Len(ts) + 1 : Asks(ts2, j) /\ ts2[j].id = x,
                          \A j \in 1 .. Len(ts) + 1 : ts2[j] # CancelMsg(x)
                   PROVE  x \in Waited(pend)
      BY <1>1 DEF Wanted, Live
    <3>2. \A j \in DOMAIN ts : ts[j] # CancelMsg(x)
      BY <1>3, <1>5, <3>1
    <3>3. CASE x \in Live /\ releasing # x
      BY <3>2, <3>3 DEF ToldInv
    <3>4. CASE \E j \in 1 .. Len(ts) + 1 : Asks(ts2, j) /\ ts2[j].id = x
      <4>1. PICK j \in DOMAIN ts : Asks(ts, j) /\ ts[j].id = x
        BY <1>2, <1>3, <1>4, <1>5, <1>6, <3>1, <3>4
      <4>2. \A i \in j + 1 .. Len(ts) : i \in DOMAIN ts
        BY <1>3
      <4>. QED
        BY <3>2, <4>1, <4>2 DEF ToldInv
    <3>. QED
      BY <3>1, <3>3, <3>4
  <2>4. Cardinality(Wanted(ts2, Len(ts) + 1)) <= Window
    <3>1. Wanted(ts2, Len(ts) + 1) \in SUBSET Id
      BY DEF Wanted
    <3>2. /\ Cardinality(Wanted(ts2, Len(ts) + 1)) \in Nat /\ Cardinality(Waited(pend2)) \in Nat
          /\ Cardinality(Wanted(ts2, Len(ts) + 1)) <= Cardinality(Waited(pend2))
      BY <2>1, <2>3, <3>1, IdsFinite
    <3>. QED
      BY <2>1, <3>2, WorldSocketAssumption
  <2>. QED
    BY <1>4, <1>6, <2>1, <2>2, <2>4 DEF RoomInv
<1>. QED
  BY <1>7, <1>8, <1>9

-----------------------------------------------------------------------------
\* The client's side has changed to ts, pend and n; the session has not.
LEMMA ClientStep ==
  ASSUME SlotInv, UNCHANGED <<toClient, session, pace>>,
         QueueInv(toServer', pending', nextId'), ToldInv(toServer', pending'),
         RoomInv(toServer', pending'), nextId \in Nat, nextId' \in {nextId, nextId + 1}
  PROVE  SocketInv'
<1>. USE DEF session
<1>1. QueueInv(toServer, pending, nextId)'
  BY DEF QueueInv, Waited, Asks
<1>2. ToldInv(toServer, pending)'
  BY DEF ToldInv, Waited, Asks, Unserved, LaneFrames, Live
<1>3. RoomInv(toServer, pending)'
  BY DEF RoomInv, Waited, Asks, Wanted
<1>4. SlotInv'
  <2>1. \A x \in Id : x < nextId => x < nextId'
    BY WorldSocketAssumption DEF Id
  <2>2. /\ Held \subseteq Id /\ \A task \in tasks : task.id \in Id
        /\ \A f \in LaneFrames : f.id \in Id
        /\ \A m \in Members(toClient) : m.id \in Id
    BY FramesTyped DEF SlotInv, Held, FrameType, WireType
  <2>. QED
    BY <2>1, <2>2 DEF SlotInv, Held, LaneFrames
<1>. QED
  BY <1>1, <1>2, <1>3, <1>4 DEF SocketInv

LEMMA PendingIsWaited == Pending = Waited(pending)
BY DEF Pending, Waited

\* Whatever happens to nothing of the above changes nothing.
LEMMA IdleStep ==
  ASSUME SocketInv, UNCHANGED <<pending, nextId, wires, session, pace>>
  PROVE  SocketInv'
<1>. USE DEF SocketInv, wires, session
<1>1. QueueInv(toServer, pending, nextId)'
  BY DEF QueueInv, Waited, Asks
<1>2. ToldInv(toServer, pending)'
  BY DEF ToldInv, Waited, Asks, Unserved, LaneFrames, Live
<1>3. RoomInv(toServer, pending)'
  BY DEF RoomInv, Waited, Asks, Wanted
<1>4. SlotInv'
  BY DEF SlotInv, Held, LaneFrames
<1>. QED
  BY <1>1, <1>2, <1>3, <1>4

\* ensure_request_window and what follows it.
LEMMA SubmitStep == ASSUME SocketInv, NEW rank \in Rank, Submit(rank) PROVE SocketInv'
<1>. DEFINE full == Cardinality(Pending) >= Window
            victim == Candidate(rank)
            pend == IF full THEN Without({victim}) ELSE pending
            ts == IF full THEN Append(toServer, CancelMsg(victim)) ELSE toServer
            ts2 == Append(ts, RequestMsg(nextId, rank))
            pend2 == [pend EXCEPT ![nextId] = rank]
            ts3 == Append(ts2, CancelMsg(nextId))
            pend3 == [x \in Id |-> IF x = nextId THEN None ELSE pend2[x]]
<1>1. /\ QueueInv(toServer, pending, nextId) /\ ToldInv(toServer, pending)
      /\ RoomInv(toServer, pending) /\ SlotInv
      /\ nextId \in Id /\ nextId' = nextId + 1 /\ UNCHANGED <<toClient, session, pace>>
      /\ toServer \in Seq(Message) /\ pending \in [Id -> Rank \cup {None}] /\ nextId \in Nat \ {0}
  BY WorldSocketAssumption DEF SocketInv, Submit, QueueInv, Id, env
<1>2. full => victim \in Pending /\ victim \in Id /\ victim < nextId
  BY <1>1, CandidateIsPending, PendingIsWaited DEF Submit, Waited, QueueInv
<1>3. /\ QueueInv(ts, pend, nextId) /\ ToldInv(ts, pend) /\ RoomInv(ts, pend)
      /\ Cardinality(Waited(pend)) < Window
  <2>1. Pending \in SUBSET Id /\ IsFiniteSet(Pending) /\ Cardinality(Pending) \in Nat /\ Cardinality(Pending) <= Window
    <3>1. Pending \in SUBSET Id
      BY DEF Pending
    <3>2. Cardinality(Pending) <= Window
      BY <1>1, PendingIsWaited DEF RoomInv
    <3>. QED
      BY <3>1, <3>2, IdsFinite
  <2>2. CASE full
    <3>1. Without({victim}) = [x \in Id |-> IF x = victim THEN None ELSE pending[x]]
      BY DEF Without
    <3>. HIDE DEF full, victim
    <3>2. pend = [x \in Id |-> IF x = victim THEN None ELSE pending[x]] /\ ts = Append(toServer, CancelMsg(victim))
      BY <2>2, <3>1
    <3>. HIDE DEF ts, pend
    <3>3. /\ QueueInv(ts, pend, nextId) /\ ToldInv(ts, pend) /\ RoomInv(ts, pend)
          /\ Waited(pend) = Waited(pending) \ {victim}
      <4>1. /\ victim \in Id /\ victim < nextId /\ pend \in [Id -> Rank \cup {None}]
            /\ \A x \in Id : pend[x] = IF x = victim THEN None ELSE pending[x]
        BY <1>1, <1>2, <2>2, <3>2
      <4>2. ts = Append(toServer, CancelMsg(victim))
        BY <3>2
      <4>3. /\ SlotInv /\ QueueInv(toServer, pending, nextId) /\ ToldInv(toServer, pending)
            /\ RoomInv(toServer, pending)
        BY <1>1
      <4>4. QueueInv(ts, pend, nextId)
        BY ONLY <4>1, <4>2, <4>3, TellKeeps
      <4>5. ToldInv(ts, pend) /\ RoomInv(ts, pend)
        BY ONLY <4>1, <4>2, <4>3, TellKeeps
      <4>6. Waited(pend) = Waited(pending) \ {victim}
        BY <4>1, <4>2, <4>3, TellKeeps
      <4>. QED
        BY <4>4, <4>5, <4>6
    <3>4. Cardinality(Pending \ {victim}) = Cardinality(Pending) - 1
      BY <1>2, <2>1, <2>2, FS_RemoveElement
    <3>5. \A c, w \in Nat : c <= w => c - 1 < w
      OBVIOUS
    <3>6. Cardinality(Pending) - 1 < Window
      BY <2>1, <3>5, WorldSocketAssumption
    <3>. QED
      BY <3>3, <3>4, <3>6, PendingIsWaited
  <2>3. CASE ~full
    <3>1. Cardinality(Pending) < Window
      BY <2>1, <2>3, WorldSocketAssumption
    <3>. HIDE DEF full
    <3>2. pend = pending /\ ts = toServer
      BY <2>3
    <3>. QED
      BY <1>1, <3>1, <3>2, PendingIsWaited
  <2>. QED
    BY <2>2, <2>3
<1>4. \/ toServer' = ts2 /\ pending' = pend2
      \/ toServer' = ts3 /\ pending' = pend3
  <2>. DEFINE ended == IF full THEN {victim} ELSE {}
              cancels == IF full THEN <<CancelMsg(victim)>> ELSE <<>>
  <2>1. \/ /\ pending' = [Without(ended) EXCEPT ![nextId] = rank]
           /\ toServer' = toServer \o cancels \o <<RequestMsg(nextId, rank)>>
        \/ /\ pending' = Without(ended)
           /\ toServer' = toServer \o cancels \o <<RequestMsg(nextId, rank), CancelMsg(nextId)>>
    BY DEF Submit
  <2>2. pend = Without(ended)
    BY <1>1 DEF Without
  <2>3. CancelMsg(nextId) \in Message /\ RequestMsg(nextId, rank) \in Message
        /\ (full => CancelMsg(victim) \in Message)
    BY <1>1, <1>2 DEF CancelMsg, RequestMsg, Message
  <2>4. \A s \in Seq(Message), x, y \in Message :
          /\ s \o <<>> = s /\ s \o <<x>> = Append(s, x)
          /\ s \o <<x, y>> = Append(Append(s, x), y)
    OBVIOUS
  <2>5. ts \in Seq(Message) /\ toServer \o cancels = ts
    BY <1>1, <2>3, <2>4
  <2>6. pend3 = pend
    <3>1. pend \in [Id -> Rank \cup {None}] /\ \A x \in Waited(pend) : x < nextId
      BY <1>3 DEF QueueInv
    <3>2. ~(nextId < nextId)
      BY <1>1
    <3>3. pend[nextId] = None
      BY <1>1, <3>1, <3>2 DEF Waited
    <3>. HIDE DEF pend
    <3>. QED
      BY <1>1, <3>1, <3>3
  <2>7. ts3 = Append(Append(ts, RequestMsg(nextId, rank)), CancelMsg(nextId))
        /\ ts2 = Append(ts, RequestMsg(nextId, rank)) /\ pend2 = [pend EXCEPT ![nextId] = rank]
    OBVIOUS
  <2>. HIDE DEF ended, cancels, pend, ts, pend2, pend3, ts2, ts3
  <2>8. /\ ts \o <<RequestMsg(nextId, rank)>> = ts2
        /\ ts \o <<RequestMsg(nextId, rank), CancelMsg(nextId)>> = ts3
    BY <2>3, <2>4, <2>5, <2>7
  <2>. QED
    BY <2>1, <2>2, <2>5, <2>6, <2>7, <2>8
<1>. HIDE DEF full, victim, pend, ts
<1>5. QueueInv(ts2, pend2, nextId + 1) /\ ToldInv(ts2, pend2) /\ RoomInv(ts2, pend2)
  BY <1>1, <1>3, AskKeeps
<1>. HIDE DEF ts2, pend2
<1>6. QueueInv(ts3, pend3, nextId + 1) /\ ToldInv(ts3, pend3) /\ RoomInv(ts3, pend3)
  <2>1. /\ nextId < nextId + 1 /\ pend3 \in [Id -> Rank \cup {None}]
        /\ \A x \in Id : pend3[x] = IF x = nextId THEN None ELSE pend2[x]
    BY <1>1, <1>5 DEF QueueInv
  <2>. QED
    BY <1>1, <1>5, <2>1, TellKeeps
<1>. HIDE DEF ts3, pend3
<1>7. nextId \in Nat /\ nextId' \in {nextId, nextId + 1}
  BY <1>1
<1>. QED
  BY <1>1, <1>4, <1>5, <1>6, <1>7, ClientStep

\* cancel and timeout_request.
LEMMA CancelStep ==
  ASSUME SocketInv, NEW id \in Pending,
         pending' = Without({id}), toServer' = Append(toServer, CancelMsg(id)),
         UNCHANGED <<nextId, toClient, session, pace>>
  PROVE  SocketInv'
<1>1. /\ QueueInv(toServer, pending, nextId) /\ ToldInv(toServer, pending)
      /\ RoomInv(toServer, pending) /\ SlotInv
  BY DEF SocketInv
<1>2. id \in Id /\ id < nextId
  BY <1>1 DEF QueueInv, Pending, Waited
<1>3. /\ pending' \in [Id -> Rank \cup {None}]
      /\ \A x \in Id : pending'[x] = IF x = id THEN None ELSE pending[x]
  BY <1>1 DEF Without, QueueInv
<1>4. QueueInv(toServer', pending', nextId) /\ ToldInv(toServer', pending') /\ RoomInv(toServer', pending')
  BY <1>1, <1>2, <1>3, TellKeeps
<1>5. nextId \in Nat /\ nextId' \in {nextId, nextId + 1}
  BY <1>1 DEF QueueInv
<1>. QED
  BY <1>1, <1>4, <1>5, ClientStep

-----------------------------------------------------------------------------
\* The session takes the first message off the socket: a request may take its
\* slot, a cancelled slot is not live any more.
LEMMA ReadStep ==
  ASSUME SocketInv, toServer # <<>>, toServer' = Tail(toServer),
         UNCHANGED <<pending, nextId, toClient, transferId, releasing, pace>>,
         NEW m, m = Head(toServer),
         inflight' \in [Id -> {"free", "live", "cancelled"}],
         \A id \in Id : id # m.id => inflight'[id] = inflight[id],
         m.kind = "cancel" => inflight'[m.id] # "live" /\ (inflight[m.id] = "free" => inflight'[m.id] = "free"),
         tasks' \subseteq [id : Id, rank : Rank],
         \A task \in tasks' : task \in tasks \/ (m.kind = "request" /\ task.id = m.id),
         lanes' \in [Lane -> Seq(FrameType)],
         \A f \in LaneFrames' :
           \/ f \in LaneFrames
           \/ m.kind = "request" /\ f.id = m.id /\ inflight'[m.id] # "live"
  PROVE  SocketInv'
<1>. USE DEF SocketInv
<1>1. /\ toServer \in Seq(Message) /\ m = toServer[1] /\ Len(toServer) \in Nat /\ Len(toServer) >= 1
      /\ toServer' \in Seq(Message) /\ Len(toServer') = Len(toServer) - 1
      /\ \A k \in 1 .. Len(toServer) - 1 : toServer'[k] = toServer[k + 1]
      /\ DOMAIN toServer' = 1 .. Len(toServer) - 1 /\ DOMAIN toServer = 1 .. Len(toServer)
  BY DEF QueueInv
<1>2. m \in Message /\ m.id \in Id /\ m.id < nextId /\ 1 \in DOMAIN toServer
  <2>1. 1 \in DOMAIN toServer
    BY <1>1
  <2>. QED
    <3>1. QueueInv(toServer, pending, nextId)
      OBVIOUS
    <3>2. toServer[1] \in Message /\ toServer[1].id \in Id
      BY <2>1, <3>1, MessagesTyped
    <3>3. toServer[1].id < nextId
      BY <2>1 DEF QueueInv
    <3>. QED
      BY <1>1, <2>1, <3>2, <3>3
<1>3. \A k \in DOMAIN toServer' :
        /\ k \in Nat /\ k + 1 \in DOMAIN toServer /\ 1 < k + 1 /\ toServer'[k] = toServer[k + 1]
        /\ Asks(toServer', k) <=> Asks(toServer, k + 1)
  BY <1>1 DEF Asks
<1>4. \A k \in DOMAIN toServer : k # 1 => k - 1 \in DOMAIN toServer' /\ toServer'[k - 1] = toServer[k]
  BY <1>1
<1>5. m.kind = "request" => Asks(toServer, 1) /\ Unserved(m.id)
  BY <1>1, <1>2 DEF Asks, ToldInv
<1>6. ASSUME NEW k, k \in DOMAIN toServer', Asks(toServer', k)
      PROVE  toServer'[k].id \in Id /\ toServer'[k].id # m.id /\ Unserved(toServer'[k].id)
  <2>1. /\ k + 1 \in DOMAIN toServer /\ 1 < k + 1 /\ toServer'[k] = toServer[k + 1]
        /\ Asks(toServer, k + 1)
    BY <1>3, <1>6
  <2>2. toServer[1].id # toServer[k + 1].id
    BY <1>2, <2>1 DEF QueueInv
  <2>3. toServer[k + 1].id \in Id
    BY <2>1, MessagesTyped
  <2>. QED
    BY <1>1, <2>1, <2>2, <2>3 DEF ToldInv
<1>7. QueueInv(toServer, pending, nextId)'
  <2>1. \A k \in DOMAIN toServer' : toServer'[k].id < nextId
    BY <1>3 DEF QueueInv
  <2>2. ASSUME NEW j, j \in DOMAIN toServer', NEW k, k \in DOMAIN toServer', j < k, Asks(toServer', k)
        PROVE  toServer'[j].id # toServer'[k].id
    <3>1. j + 1 < k + 1
      BY <1>3, <2>2
    <3>. QED
      BY <1>3, <2>2, <3>1 DEF QueueInv
  <2>3. /\ pending \in [Id -> Rank \cup {None}] /\ nextId \in Nat \ {0}
        /\ \A id \in Waited(pending) : id < nextId
    BY DEF QueueInv
  <2>. QED
    BY <1>1, <2>1, <2>2, <2>3 DEF QueueInv, Waited, Asks
<1>8. ASSUME NEW id \in Live'
      PROVE  /\ id \in Live \/ (m.kind = "request" /\ id = m.id)
             /\ toServer[1] # CancelMsg(id)
  <2>1. id \in Live \/ id = m.id
    BY DEF Live
  <2>2. m.kind \in {"request", "cancel"}
    BY <1>2 DEF Message
  <2>3. id = m.id => m.kind = "request"
    BY <2>2 DEF Live
  <2>4. m = CancelMsg(id) => m.kind = "cancel" /\ id = m.id
    BY DEF CancelMsg
  <2>. QED
    BY <1>1, <2>1, <2>3, <2>4
<1>9. ToldInv(toServer, pending)'
  <2>1. ASSUME NEW k, k \in DOMAIN toServer', Asks(toServer', k)
        PROVE  /\ Unserved(toServer[k].id)'
               /\ \/ toServer'[k].id \in Waited(pending)
                  \/ \E j \in k + 1 .. Len(toServer') : toServer'[j] = CancelMsg(toServer'[k].id)
    <3>1. toServer'[k].id \in Id /\ toServer'[k].id # m.id /\ Unserved(toServer'[k].id)
      BY <1>6, <2>1
    <3>2. Unserved(toServer[k].id)'
      <4>1. PICK id \in Id : id = toServer'[k].id /\ id # m.id /\ Unserved(id)
        BY <3>1
      <4>2. Unserved(id)'
        BY <4>1 DEF Unserved
      <4>. QED
        BY <4>1, <4>2 DEF Unserved
    <3>3. \/ toServer'[k].id \in Waited(pending)
          \/ \E j \in k + 2 .. Len(toServer) : toServer[j] = CancelMsg(toServer'[k].id)
      <4>1. k + 1 \in DOMAIN toServer /\ toServer'[k] = toServer[k + 1] /\ Asks(toServer, k + 1) /\ (k + 1) + 1 = k + 2
        BY <1>3, <2>1
      <4>2. \/ toServer[k + 1].id \in Waited(pending)
            \/ \E j \in (k + 1) + 1 .. Len(toServer) : toServer[j] = CancelMsg(toServer[k + 1].id)
        BY <4>1 DEF ToldInv
      <4>. QED
        BY <4>1, <4>2
    <3>4. ASSUME NEW j \in k + 2 .. Len(toServer), toServer[j] = CancelMsg(toServer'[k].id)
          PROVE  \E i \in k + 1 .. Len(toServer') : toServer'[i] = CancelMsg(toServer'[k].id)
      <4>1. k \in Nat
        BY <1>3, <2>1
      <4>2. j \in DOMAIN toServer /\ j # 1 /\ j - 1 \in k + 1 .. Len(toServer')
        BY <1>1, <4>1
      <4>3. toServer'[j - 1] = toServer[j]
        BY <1>4, <4>2
      <4>. QED
        BY <3>4, <4>2, <4>3
    <3>. QED
      BY <3>2, <3>3, <3>4
  <2>2. ASSUME NEW id \in Live'
        PROVE  \/ id \in Waited(pending) \/ releasing = id
               \/ \E k \in DOMAIN toServer' : toServer'[k] = CancelMsg(id)
    <3>1. \/ id \in Waited(pending) \/ releasing = id
          \/ \E k \in DOMAIN toServer : k # 1 /\ toServer[k] = CancelMsg(id)
      <4>1. CASE id \in Live
        BY <1>8, <4>1 DEF ToldInv
      <4>2. CASE m.kind = "request" /\ id = m.id
        <5>1. \A j \in 1 + 1 .. Len(toServer) : j \in DOMAIN toServer /\ j # 1
          BY <1>1
        <5>2. \/ m.id \in Waited(pending)
              \/ \E j \in 1 + 1 .. Len(toServer) : toServer[j] = CancelMsg(m.id)
          BY <1>1, <1>2, <1>5, <4>2 DEF ToldInv
        <5>. QED
          BY <4>2, <5>1, <5>2
      <4>. QED
        BY <1>8, <4>1, <4>2
    <3>2. ASSUME NEW k, k \in DOMAIN toServer, k # 1, toServer[k] = CancelMsg(id)
          PROVE  \E i \in DOMAIN toServer' : toServer'[i] = CancelMsg(id)
      <4>1. k - 1 \in DOMAIN toServer' /\ toServer'[k - 1] = CancelMsg(id)
        BY <1>4, <3>2
      <4>. QED
        BY <4>1
    <3>. QED
      BY <3>1, <3>2
  <2>. QED
    BY <2>1, <2>2 DEF ToldInv, Asks, Waited
<1>10. RoomInv(toServer, pending)'
  <2>1. ASSUME NEW k, k \in DOMAIN toServer', Asks(toServer', k)
        PROVE  Wanted(toServer, k)' \subseteq Wanted(toServer, k + 1)
    <3>0. k \in Nat /\ k + 1 \in DOMAIN toServer /\ k + 1 <= Len(toServer)
      BY <1>1, <1>3, <2>1
    <3>1. \A j \in 1 .. k : /\ j \in DOMAIN toServer' /\ j + 1 \in 1 .. k + 1 /\ toServer'[j] = toServer[j + 1]
                            /\ Asks(toServer', j) <=> Asks(toServer, j + 1)
      <4>1. \A j \in 1 .. k : j \in DOMAIN toServer' /\ j + 1 \in 1 .. k + 1
        BY <1>1, <3>0
      <4>. QED
        BY <1>3, <4>1
    <3>2. ASSUME NEW id \in Id, id \in Wanted(toServer, k)'
          PROVE  id \in Wanted(toServer, k + 1)
      <4>1. \/ id \in Live' /\ releasing # id
            \/ \E j \in 1 .. k : Asks(toServer', j) /\ toServer'[j].id = id
        BY <3>2 DEF Wanted, Live, Asks
      <4>2. \A j \in 1 .. k : toServer'[j] # CancelMsg(id)
        BY <3>2 DEF Wanted
      <4>3. \/ inflight[id] = "live" /\ releasing # id
            \/ \E j \in 1 .. k + 1 : Asks(toServer, j) /\ toServer[j].id = id
        <5>1. CASE id \in Live' /\ releasing # id
          <6>1. 1 \in 1 .. k + 1
            BY <3>0
          <6>2. id \in Live \/ (Asks(toServer, 1) /\ toServer[1].id = id)
            BY <1>1, <1>5, <1>8, <5>1
          <6>. QED
            BY <5>1, <6>1, <6>2 DEF Live
        <5>2. CASE \E j \in 1 .. k : Asks(toServer', j) /\ toServer'[j].id = id
          BY <3>1, <5>2
        <5>. QED
          BY <4>1, <5>1, <5>2
      <4>4. toServer[1] # CancelMsg(id)
        <5>1. CASE id \in Live' /\ releasing # id
          BY <1>8, <5>1
        <5>2. CASE \E j \in 1 .. k : Asks(toServer', j) /\ toServer'[j].id = id
          <6>1. id # m.id
            BY <1>6, <3>1, <5>2
          <6>. QED
            BY <1>1, <6>1 DEF CancelMsg
        <5>. QED
          BY <4>1, <5>1, <5>2
      <4>5. \A j \in 1 .. k + 1 : j = 1 \/ (j - 1 \in 1 .. k /\ toServer'[j - 1] = toServer[j])
        BY <1>1, <3>0
      <4>6. \A j \in 1 .. k + 1 : toServer[j] # CancelMsg(id)
        BY <4>2, <4>4, <4>5
      <4>. QED
        BY <4>3, <4>6 DEF Wanted
    <3>3. Wanted(toServer, k)' \subseteq Id
      BY DEF Wanted
    <3>. QED
      BY <3>2, <3>3
  <2>2. ASSUME NEW k, k \in DOMAIN toServer', Asks(toServer', k)
        PROVE  Cardinality(Wanted(toServer, k)') <= Window
    <3>1. Wanted(toServer, k + 1) \in SUBSET Id /\ Wanted(toServer, k)' \in SUBSET Id
      BY DEF Wanted
    <3>2. /\ Cardinality(Wanted(toServer, k + 1)) \in Nat /\ Cardinality(Wanted(toServer, k)') \in Nat
          /\ Cardinality(Wanted(toServer, k)') <= Cardinality(Wanted(toServer, k + 1))
      BY <2>1, <2>2, <3>1, IdsFinite
    <3>3. Cardinality(Wanted(toServer, k + 1)) <= Window
      BY <1>3, <2>2 DEF RoomInv
    <3>. QED
      BY <3>2, <3>3, WorldSocketAssumption
  <2>. QED
    BY <2>2 DEF RoomInv, Waited, Asks
<1>11. SlotInv'
  <2>1. \A id \in Held' : id < nextId
    BY <1>2 DEF SlotInv, Held
  <2>2. \A task \in tasks' : task.id < nextId
    BY <1>2 DEF SlotInv
  <2>3. \A id \in Id : inflight'[id] = "live" => inflight[id] = "live" \/ (id = m.id /\ Unserved(m.id))
    <3>1. m.kind \in {"request", "cancel"}
      BY <1>2 DEF Message
    <3>. QED
      BY <1>5, <3>1
  <2>4. ASSUME NEW f \in LaneFrames'
        PROVE  f.id < nextId /\ (~f.tracked => inflight'[f.id] # "live")
    <3>1. CASE f \in LaneFrames
      BY <2>3, <3>1, FramesTyped DEF SlotInv, FrameType, Unserved
    <3>2. CASE f \notin LaneFrames
      BY <1>2, <2>4, <3>2
    <3>. QED
      BY <3>1, <3>2
  <2>5. ASSUME NEW w \in Members(toClient)
        PROVE  w.id < nextId /\ (Answers(w) => inflight'[w.id] # "live" \/ releasing = w.id)
    BY <2>3, FramesTyped DEF SlotInv, WireType, Unserved
  <2>. QED
    BY <2>1, <2>2, <2>4, <2>5 DEF SlotInv, Held
<1>. QED
  BY <1>7, <1>9, <1>10, <1>11

-----------------------------------------------------------------------------
\* A new frame in a lane.
LEMMA LaneAppend ==
  ASSUME SlotInv, NEW l \in Lane, NEW f \in FrameType,
         lanes' = [lanes EXCEPT ![l] = Append(@, f)]
  PROVE  lanes' \in [Lane -> Seq(FrameType)] /\ LaneFrames' \subseteq LaneFrames \cup {f}
<1>1. lanes[l] \in Seq(FrameType) /\ lanes' = [lanes EXCEPT ![l] = Append(lanes[l], f)]
  BY DEF SlotInv
<1>2. Append(lanes[l], f) \in Seq(FrameType) /\ Members(Append(lanes[l], f)) \subseteq Members(lanes[l]) \cup {f}
  BY <1>1, MembersOf
<1>. QED
  BY <1>1, <1>2, LaneChange

\* A lane without its first frame.
LEMMA LaneTail ==
  ASSUME SlotInv, NEW l \in Lane, lanes[l] # <<>>, lanes' = [lanes EXCEPT ![l] = Tail(@)]
  PROVE  lanes' \in [Lane -> Seq(FrameType)] /\ LaneFrames' \subseteq LaneFrames
<1>1. lanes[l] \in Seq(FrameType) /\ lanes' = [lanes EXCEPT ![l] = Tail(lanes[l])]
  BY DEF SlotInv
<1>2. Tail(lanes[l]) \in Seq(FrameType) /\ Members(Tail(lanes[l])) \subseteq Members(lanes[l]) \cup {}
  BY <1>1, MembersOf
<1>3. lanes' \in [Lane -> Seq(FrameType)] /\ LaneFrames' \subseteq LaneFrames \cup {}
  BY <1>1, <1>2, LaneChange
<1>. QED
  BY <1>3

LEMMA LaneHead ==
  ASSUME SlotInv, NEW l \in Lane, lanes[l] # <<>>
  PROVE  Head(lanes[l]) \in LaneFrames /\ Head(lanes[l]) \in FrameType
<1>1. lanes[l] \in Seq(FrameType)
  BY DEF SlotInv
<1>2. Head(lanes[l]) \in Members(lanes[l])
  BY <1>1, MembersOf
<1>. QED
  BY <1>2, FramesTyped

LEMMA WireAppend ==
  ASSUME SlotInv, NEW w \in WireType, toClient' = Append(toClient, w)
  PROVE  toClient' \in Seq(WireType) /\ Members(toClient') = Members(toClient) \cup {w}
BY MembersOf DEF SlotInv

LEMMA TaskStep ==
  ASSUME SocketInv, NEW task \in tasks, Work(task)
  PROVE  SocketInv'
<1>. USE DEF SocketInv
<1>1. task.id \in Id /\ task.rank \in Rank /\ task \in tasks
  BY DEF SlotInv
<1>2. CASE TaskQuits(task)
  <2>1. /\ inflight' \in [Id -> {"free", "live", "cancelled"}]
        /\ \A id \in Id : inflight'[id] = inflight[id] \/ inflight'[id] = "free"
    BY <1>1, <1>2 DEF TaskQuits, SlotInv
  <2>2. UNCHANGED <<toServer, toClient, pending, nextId, lanes, transferId, releasing, pace>> /\ tasks' \subseteq tasks
    BY <1>2 DEF TaskQuits, client, wires, env
  <2>3. /\ lanes' \in [Lane -> Seq(FrameType)] /\ LaneFrames' = LaneFrames
        /\ toClient' \in Seq(WireType) /\ Members(toClient') = Members(toClient)
        /\ transferId' \in Nat /\ pace' \in Pace /\ releasing' \in Id \cup {None}
    BY <2>2 DEF SlotInv, LaneFrames
  <2>. QED
    BY <2>1, <2>2, <2>3, SessionStep
<1>3. CASE TaskAnswers(task)
  <2>1. UNCHANGED <<toServer, toClient, pending, nextId, inflight, transferId, releasing, pace>> /\ tasks' \subseteq tasks
    BY <1>3 DEF TaskAnswers, client, wires, env
  <2>2. PICK total \in Length :
          lanes' = [lanes EXCEPT ![LaneOf(task.rank)] = Append(@, Frame(task.id, total, TRUE))]
    BY <1>3 DEF TaskAnswers
  <2>3. /\ LaneOf(task.rank) \in Lane
        /\ Frame(task.id, total, TRUE) \in FrameType
        /\ Frame(task.id, total, TRUE).id = task.id /\ Frame(task.id, total, TRUE).tracked = TRUE
    BY <1>1, WorldSocketAssumption DEF LaneOf, Lane, Frame, FrameType
  <2>4. /\ lanes' \in [Lane -> Seq(FrameType)]
        /\ LaneFrames' \subseteq LaneFrames \cup {Frame(task.id, total, TRUE)}
    BY <2>2, <2>3, LaneAppend
  <2>5. \A f \in LaneFrames' :
          \/ \E e \in LaneFrames : f.id = e.id /\ f.tracked = e.tracked
          \/ \E t \in tasks : f.id = t.id /\ f.tracked
    BY <1>1, <2>3, <2>4
  <2>6. /\ inflight' \in [Id -> {"free", "live", "cancelled"}]
        /\ toClient' \in Seq(WireType) /\ Members(toClient') = Members(toClient)
        /\ transferId' \in Nat /\ pace' \in Pace /\ releasing' \in Id \cup {None}
    BY <2>1 DEF SlotInv
  <2>. QED
    BY <2>1, <2>4, <2>5, <2>6, SessionStep
<1>. QED
  BY <1>2, <1>3 DEF Work

LEMMA ReleaseStep == ASSUME SocketInv, Release PROVE SocketInv'
<1>. USE DEF SocketInv
<1>1. releasing \in Id /\ releasing' = None
  BY DEF Release, SlotInv
<1>2. /\ inflight' \in [Id -> {"free", "live", "cancelled"}] /\ inflight'[releasing] = "free"
      /\ \A id \in Id : inflight'[id] = inflight[id] \/ inflight'[id] = "free"
  BY <1>1 DEF Release, SlotInv
<1>3. UNCHANGED <<toServer, toClient, pending, nextId, lanes, transferId, pace>> /\ tasks' \subseteq tasks
  BY DEF Release, client, wires, env
<1>4. /\ lanes' \in [Lane -> Seq(FrameType)] /\ LaneFrames' = LaneFrames
      /\ toClient' \in Seq(WireType) /\ Members(toClient') = Members(toClient)
      /\ transferId' \in Nat /\ pace' \in Pace
  BY <1>3 DEF SlotInv, LaneFrames
<1>5. \A id \in Id : releasing = id => releasing' = id \/ inflight'[id] # "live"
  BY <1>2
<1>. QED
  BY <1>1, <1>2, <1>3, <1>4, <1>5, SessionStep

LEMMA DropStep == ASSUME SocketInv, NEW l \in Lane, DropCancelled(l) PROVE SocketInv'
<1>. USE DEF SocketInv
<1>. DEFINE f == Head(lanes[l])
<1>1. f \in LaneFrames /\ f \in FrameType /\ f.id \in Id /\ (f.transfer # None => f.transfer \in Nat)
  BY LaneHead DEF DropCancelled, FrameType
<1>2. /\ lanes' = [lanes EXCEPT ![l] = Tail(@)] /\ lanes[l] # <<>> /\ releasing = None
      /\ inflight' = [inflight EXCEPT ![f.id] = "free"]
      /\ toClient' = IF f.transfer = None THEN toClient
                     ELSE Append(toClient, Wire("abort", f, f.transfer, 0))
      /\ UNCHANGED <<toServer, pending, nextId, transferId, releasing, pace>> /\ tasks' = tasks
  BY DEF DropCancelled, client, env
<1>. DEFINE w == Wire("abort", f, f.transfer, 0)
<1>3. f.transfer # None => w \in WireType /\ w.id = f.id /\ w.kind = "abort"
  BY <1>1 DEF Wire, WireType, FrameType
<1>. HIDE DEF f, w
<1>4. /\ inflight' \in [Id -> {"free", "live", "cancelled"}]
      /\ \A id \in Id : inflight'[id] = inflight[id] \/ inflight'[id] = "free"
  BY <1>1, <1>2 DEF SlotInv
<1>5. lanes' \in [Lane -> Seq(FrameType)] /\ LaneFrames' \subseteq LaneFrames
  BY <1>2, LaneTail
<1>6. /\ toClient' \in Seq(WireType)
      /\ \A x \in Members(toClient') : x \in Members(toClient) \/ (x.id = f.id /\ ~Answers(x))
  <2>1. CASE f.transfer = None
    BY <1>2, <2>1 DEF SlotInv
  <2>2. CASE f.transfer # None
    <3>1. toClient' = Append(toClient, w) /\ w \in WireType
      BY <1>2, <1>3, <2>2 DEF w
    <3>2. toClient' \in Seq(WireType) /\ Members(toClient') = Members(toClient) \cup {w}
      BY <3>1, WireAppend
    <3>. QED
      BY <1>3, <2>2, <3>2 DEF Answers
  <2>. QED
    BY <2>1, <2>2
<1>7. transferId' \in Nat /\ pace' \in Pace /\ releasing' \in Id \cup {None} /\ tasks' \subseteq tasks
  BY <1>2 DEF SlotInv
<1>. QED
  BY <1>1, <1>2, <1>4, <1>5, <1>6, <1>7, SessionStep


LEMMA SendStep == ASSUME SocketInv, NEW l \in Lane, Send(l) PROVE SocketInv'
<1>. USE DEF SocketInv
<1>. DEFINE f == Head(lanes[l])
<1>1. /\ f \in LaneFrames /\ f \in FrameType /\ f.id \in Id /\ f.total \in Nat /\ f.offset \in Int
      /\ f.transfer \in Nat \cup {None} /\ f.tracked \in BOOLEAN
      /\ ~f.tracked => inflight[f.id] # "live"
  <2>1. f \in LaneFrames /\ f \in FrameType
    BY LaneHead DEF Send
  <2>2. ~f.tracked => inflight[f.id] # "live"
    BY <2>1 DEF SlotInv
  <2>. HIDE DEF f
  <2>. QED
    BY <2>1, <2>2 DEF FrameType
<1>2. /\ releasing = None /\ lanes[l] # <<>>
      /\ IF f.total > pace THEN SendFragment(l, f) ELSE SendWhole(l, f)
      /\ UNCHANGED <<toServer, pending, nextId, inflight, tasks, pace>>
  BY DEF Send, client, env
<1>3. /\ inflight' \in [Id -> {"free", "live", "cancelled"}] /\ pace' \in Pace /\ tasks' \subseteq tasks
      /\ None \notin Id /\ pace \in Nat /\ transferId \in Nat
      /\ lanes[l] \in Seq(FrameType) /\ Tail(lanes[l]) \in Seq(FrameType)
      /\ Members(Tail(lanes[l])) \subseteq Members(lanes[l])
  <2>1. lanes[l] \in Seq(FrameType)
    BY DEF SlotInv
  <2>2. Tail(lanes[l]) \in Seq(FrameType) /\ Members(Tail(lanes[l])) \subseteq Members(lanes[l])
    BY <1>2, <2>1, MembersOf
  <2>. QED
    BY <1>2, <2>1, <2>2, WorldSocketAssumption DEF SlotInv
<1>. HIDE DEF f
\* What both ways of sending come to.
<1>4. ASSUME NEW w \in WireType, NEW e \in FrameType, w.id = f.id, e.id = f.id, e.tracked = f.tracked,
             toClient' = Append(toClient, w), transferId' \in Nat,
             \/ lanes' = [lanes EXCEPT ![l] = Tail(@)]
             \/ lanes' = [lanes EXCEPT ![l] = <<e>> \o Tail(@)],
             releasing' \in {None, f.id}, Answers(w) /\ f.tracked => releasing' = f.id
      PROVE  SocketInv'
  <2>1. toClient' \in Seq(WireType) /\ Members(toClient') = Members(toClient) \cup {w}
    BY <1>4, WireAppend
  <2>2. lanes' \in [Lane -> Seq(FrameType)] /\ LaneFrames' \subseteq LaneFrames \cup {e}
    <3>1. CASE lanes' = [lanes EXCEPT ![l] = Tail(@)]
      BY <1>2, <3>1, LaneTail
    <3>2. CASE lanes' = [lanes EXCEPT ![l] = <<e>> \o Tail(@)]
      <4>1. <<e>> \o Tail(lanes[l]) \in Seq(FrameType)
            /\ Members(<<e>> \o Tail(lanes[l])) \subseteq Members(lanes[l]) \cup {e}
        <5>1. \A s \in Seq(FrameType) : /\ <<e>> \o s \in Seq(FrameType)
                                        /\ Len(<<e>> \o s) = Len(s) + 1 /\ (<<e>> \o s)[1] = e
                                        /\ \A i \in 1 .. Len(s) + 1 : i = 1 \/ (<<e>> \o s)[i] = s[i - 1]
          OBVIOUS
        <5>2. \A s \in Seq(FrameType) : \A i \in 1 .. Len(s) + 1 : i = 1 \/ i - 1 \in 1 .. Len(s)
          OBVIOUS
        <5>. QED
          BY <1>3, <5>1, <5>2 DEF Members
      <4>2. lanes' = [lanes EXCEPT ![l] = <<e>> \o Tail(lanes[l])]
        BY <3>2
      <4>. QED
        BY <4>1, <4>2, LaneChange
    <3>. QED
      BY <1>4, <3>1, <3>2
  <2>3. \A x \in LaneFrames' : \E y \in LaneFrames : x.id = y.id /\ x.tracked = y.tracked
    BY <1>1, <1>4, <2>2
  <2>4. \A x \in Members(toClient') :
          \/ x \in Members(toClient)
          \/ /\ \E y \in LaneFrames : x.id = y.id
             /\ Answers(x) => inflight'[x.id] # "live" \/ releasing' = x.id
    BY <1>1, <1>2, <1>4, <2>1
  <2>5. /\ releasing' \in Id \cup {None} /\ \A id \in Id : releasing # id
        /\ \A id \in Id : inflight'[id] = inflight[id]
    BY <1>1, <1>2, <1>3, <1>4
  <2>. QED
    BY <1>2, <1>3, <1>4, <2>1, <2>2, <2>3, <2>4, <2>5, SessionStep
<1>5. CASE f.total > pace
  <2>. DEFINE transfer == IF f.transfer = None THEN transferId ELSE f.transfer
              len == IF f.total - f.offset < pace THEN f.total - f.offset ELSE pace
              rest == [f EXCEPT !.offset = f.offset + len, !.transfer = transfer]
              complete == f.offset + len = f.total
              w == Wire("fragment", f, transfer, len)
  <2>1. /\ toClient' = Append(toClient, w)
        /\ transferId' = IF f.transfer = None THEN transferId + 1 ELSE transferId
        /\ lanes' = [lanes EXCEPT ![l] = (IF complete THEN <<>> ELSE <<rest>>) \o Tail(@)]
        /\ releasing' = IF complete /\ f.tracked THEN f.id ELSE None
    BY <1>2, <1>5 DEF SendFragment
  <2>2. transfer \in Nat /\ len \in Int /\ f.offset + len \in Int
    BY <1>1, <1>3
  <2>3. rest \in FrameType /\ rest.id = f.id /\ rest.tracked = f.tracked
    <3>. HIDE DEF transfer, len
    <3>. QED
      BY <1>1, <2>2 DEF FrameType
  <2>4. w \in WireType /\ w.id = f.id /\ (Answers(w) <=> complete)
    <3>. HIDE DEF transfer, len
    <3>1. w = [kind |-> "fragment", id |-> f.id, transfer |-> transfer, total |-> f.total,
               offset |-> f.offset, len |-> len]
      BY DEF Wire
    <3>. HIDE DEF w
    <3>. QED
      BY <1>1, <2>2, <3>1 DEF WireType, Answers
  <2>. HIDE DEF rest, w, complete
  <2>5. \/ lanes' = [lanes EXCEPT ![l] = Tail(@)]
        \/ lanes' = [lanes EXCEPT ![l] = <<rest>> \o Tail(@)]
    <3>1. <<>> \o Tail(lanes[l]) = Tail(lanes[l])
      BY <1>3
    <3>. QED
      BY <2>1, <3>1
  <2>6. transferId' \in Nat /\ releasing' \in {None, f.id} /\ (complete /\ f.tracked => releasing' = f.id)
    BY <1>3, <2>1
  <2>. QED
    BY <1>4, <2>1, <2>3, <2>4, <2>5, <2>6
<1>6. CASE ~(f.total > pace)
  <2>. DEFINE w == Wire("frame", f, None, f.total)
  <2>1. /\ toClient' = Append(toClient, w)
        /\ lanes' = [lanes EXCEPT ![l] = Tail(@)]
        /\ releasing' = (IF f.tracked THEN f.id ELSE None) /\ transferId' = transferId
    BY <1>2, <1>6 DEF SendWhole
  <2>2. w \in WireType /\ w.id = f.id
    BY <1>1 DEF Wire, WireType
  <2>. HIDE DEF w
  <2>3. releasing' \in {None, f.id} /\ (f.tracked => releasing' = f.id)
    BY <2>1
  <2>. QED
    BY <1>1, <1>3, <1>4, <2>1, <2>2, <2>3
<1>. QED
  BY <1>5, <1>6

LEMMA WriteStep == ASSUME SocketInv, Write PROVE SocketInv'
BY ReleaseStep, DropStep, SendStep DEF Write

-----------------------------------------------------------------------------
LEMMA HearKeeps == ASSUME SocketInv, Hear PROVE SocketInv'
<1>. USE DEF SocketInv
<1>. DEFINE m == Head(toClient)
<1>1. toClient # <<>> /\ toClient \in Seq(WireType)
  BY DEF Hear, HearFrame, HearFragment, HearAbort, SlotInv
<1>2. m \in Members(toClient) /\ Tail(toClient) \in Seq(WireType) /\ Members(Tail(toClient)) \subseteq Members(toClient)
  BY <1>1, MembersOf
<1>3. pending \in [Id -> Rank \cup {None}]
  BY DEF QueueInv
<1>. HIDE DEF m
<1>4. ASSUME toClient' = Tail(toClient), UNCHANGED <<toServer, nextId, session, pace>>,
             pending' = pending \/ (pending' = Without({m.id}) /\ Answers(m))
      PROVE  SocketInv'
  <2>1. /\ pending' \in [Id -> Rank \cup {None}]
        /\ \A id \in Id : \/ pending'[id] = pending[id]
                          \/ /\ pending'[id] = None
                             /\ \E x \in Members(toClient) : x.id = id /\ Answers(x)
    <3>1. CASE pending' = pending
      BY <1>3, <3>1
    <3>2. CASE pending' = Without({m.id}) /\ Answers(m)
      BY <1>2, <1>3, <3>2 DEF Without
    <3>. QED
      BY <1>4, <3>1, <3>2
  <2>. QED
    BY <1>2, <1>4, <2>1, HearStep
<1>5. CASE HearFrame
  BY <1>4, <1>5 DEF HearFrame, Answered, Answers, m, env
<1>6. CASE HearAbort
  BY <1>4, <1>6 DEF HearAbort, m, env
<1>7. CASE HearFragment
  <2>1. CASE ~Accepts(m)
    <3>1. Disconnect(attempts, timers)
      BY <1>7, <2>1 DEF HearFragment, m
    <3>. QED
      BY <3>1, ResetStep DEF Disconnect
  <2>2. CASE Accepts(m)
    <3>1. /\ toClient' = Tail(toClient) /\ UNCHANGED <<toServer, session, pace, nextId>>
          /\ pending' = pending \/ (pending' = Without({m.id}) /\ m.offset + m.len = m.total)
      BY <1>7, <2>2 DEF HearFragment, Answered, m
    <3>2. m.kind = "fragment"
      BY <1>7 DEF HearFragment, m
    <3>. QED
      BY <1>4, <3>1, <3>2 DEF Answers
  <2>. QED
    BY <2>1, <2>2
<1>. QED
  BY <1>5, <1>6, <1>7 DEF Hear

LEMMA ReadKeeps == ASSUME SocketInv, Read PROVE SocketInv'
<1>. USE DEF SocketInv
<1>. DEFINE m == Head(toServer)
<1>1. toServer # <<>> /\ toServer' = Tail(toServer)
      /\ UNCHANGED <<pending, nextId, toClient, transferId, releasing, pace>>
  BY DEF Read, ReadRequest, ReadCancel, client, env
<1>2. m \in Message /\ m.id \in Id
  <2>1. m \in Message
    BY <1>1 DEF QueueInv
  <2>. HIDE DEF m
  <2>. QED
    BY <2>1 DEF Message
<1>3. /\ inflight \in [Id -> {"free", "live", "cancelled"}] /\ tasks \subseteq [id : Id, rank : Rank]
      /\ lanes \in [Lane -> Seq(FrameType)]
  BY DEF SlotInv
<1>4. CASE ReadCancel
  <2>1. /\ m.kind = "cancel" /\ UNCHANGED <<tasks, lanes>>
        /\ inflight' = [inflight EXCEPT ![m.id] = IF @ = "live" THEN "cancelled" ELSE @]
    BY <1>4 DEF ReadCancel
  <2>. HIDE DEF m
  <2>2. /\ inflight' \in [Id -> {"free", "live", "cancelled"}]
        /\ \A id \in Id : id # m.id => inflight'[id] = inflight[id]
        /\ inflight'[m.id] # "live" /\ (inflight[m.id] = "free" => inflight'[m.id] = "free")
    BY <1>2, <1>3, <2>1
  <2>3. LaneFrames' = LaneFrames
    BY <2>1 DEF LaneFrames
  <2>4. m = Head(toServer)
    BY DEF m
  <2>. QED
    BY <1>1, <1>3, <2>1, <2>2, <2>3, <2>4, ReadStep
<1>5. CASE ReadRequest
  <2>1. m.kind = "request"
    BY <1>5 DEF ReadRequest
  <2>2. CASE /\ inflight' = [inflight EXCEPT ![m.id] = "live"]
             /\ tasks' = tasks \cup {[id |-> m.id, rank |-> m.rank]}
             /\ UNCHANGED lanes /\ Admission(m.id) = "admitted"
    <3>0. m = Head(toServer)
      OBVIOUS
    <3>. HIDE DEF m
    <3>1. LaneFrames' = LaneFrames
      BY <2>2 DEF LaneFrames
    <3>2. /\ inflight' \in [Id -> {"free", "live", "cancelled"}]
          /\ \A id \in Id : id # m.id => inflight'[id] = inflight[id]
      BY <1>2, <1>3, <2>2
    <3>3. m.rank \in Rank
      BY <1>2, <2>1 DEF Message
    <3>4. /\ tasks' \subseteq [id : Id, rank : Rank]
          /\ \A task \in tasks' : task \in tasks \/ (m.kind = "request" /\ task.id = m.id)
      BY <1>2, <1>3, <2>1, <2>2, <3>3
    <3>5. lanes' \in [Lane -> Seq(FrameType)] /\ \A f \in LaneFrames' : f \in LaneFrames
      BY <1>3, <2>2, <3>1
    <3>. QED
      BY <1>1, <2>1, <3>0, <3>2, <3>4, <3>5, ReadStep
  <2>3. CASE Refuse(m.id) /\ UNCHANGED <<inflight, tasks>>
    <3>0. m = Head(toServer)
      OBVIOUS
    <3>. HIDE DEF m
    <3>1. Frame(m.id, 1, FALSE) \in FrameType /\ Frame(m.id, 1, FALSE).id = m.id
      BY <1>2 DEF Frame, FrameType
    <3>2. lanes' \in [Lane -> Seq(FrameType)] /\ LaneFrames' \subseteq LaneFrames \cup {Frame(m.id, 1, FALSE)}
      BY <2>3, <3>1, LaneAppend DEF Refuse, Lane
    <3>3. inflight'[m.id] # "live"
      <4>1. Asks(toServer, 1) /\ 1 \in DOMAIN toServer /\ toServer[1] = m
        BY <1>1, <2>1, <3>0 DEF Asks, QueueInv
      <4>. QED
        BY <2>3, <4>1 DEF ToldInv, Unserved
    <3>. QED
      BY <1>1, <1>2, <1>3, <2>1, <2>3, <3>0, <3>1, <3>2, <3>3, ReadStep
  <2>. QED
    BY <1>5, <2>2, <2>3 DEF ReadRequest
<1>. QED
  BY <1>4, <1>5 DEF Read


LEMMA RequestsKeep == ASSUME SocketInv, Requests PROVE SocketInv'
<1>1. CASE \E rank \in Rank : Submit(rank)
  BY <1>1, SubmitStep
<1>2. ASSUME NEW id \in Id, Cancel(id) PROVE SocketInv'
  BY <1>2, CancelStep DEF Cancel, env
<1>. QED
  BY <1>1, <1>2 DEF Requests

LEMMA ConnectionKeeps == ASSUME SocketInv, Connection PROVE SocketInv'
<1>1. CASE HandleOpen \/ HandleWorldOpened
  BY <1>1, IdleStep DEF HandleOpen, HandleWorldOpened, env
<1>2. CASE HandleOtherWorld \/ SocketFails \/ Close
  BY <1>2, ResetStep DEF HandleOtherWorld, SocketFails, Close, Disconnect
<1>. QED
  BY <1>1, <1>2 DEF Connection

LEMMA TimersKeep == ASSUME SocketInv, NEW t \in timers, Fire(t) PROVE SocketInv'
<1>1. CASE TimeoutRequest(t)
  <2>1. CASE t.key \in Pending
    BY <1>1, <2>1, CancelStep DEF TimeoutRequest, env
  <2>2. CASE t.key \notin Pending
    BY <1>1, <2>2, IdleStep DEF TimeoutRequest, wires, env
  <2>. QED
    BY <2>1, <2>2
<1>2. CASE TimeoutDial(t)
  BY <1>2, IdleStep, ResetStep DEF TimeoutDial, Disconnect
<1>3. CASE Reconnect(t)
  BY <1>3, IdleStep, ResetStep DEF Reconnect
<1>. QED
  BY <1>1, <1>2, <1>3 DEF Fire

LEMMA InitSocket == Init => SocketInv
<1> SUFFICES ASSUME Init PROVE SocketInv
  OBVIOUS
<1>. USE DEF Init
<1>1. Waited(pending) = {} /\ <<>> \in Seq(Message) /\ <<>> \in Seq(WireType) /\ <<>> \in Seq(FrameType)
      /\ DOMAIN <<>> = {}
  BY DEF Waited
<1>2. QueueInv(toServer, pending, nextId)
  BY <1>1 DEF QueueInv
<1>3. ToldInv(toServer, pending)
  BY <1>1 DEF ToldInv, Live
<1>4. RoomInv(toServer, pending)
  <2>1. Cardinality(Waited(pending)) = 0
    BY <1>1, FS_EmptySet
  <2>2. DOMAIN toServer = {} /\ 0 <= Window
    BY WorldSocketAssumption
  <2>. QED
    BY <2>1, <2>2 DEF RoomInv
<1>5. SlotInv
  <2>1. LaneFrames = {} /\ Members(toClient) = {} /\ Held = {}
    BY DEF LaneFrames, Held, Members
  <2>. QED
    BY <1>1, <2>1, FloorIsPace DEF SlotInv
<1>. QED
  BY <1>2, <1>3, <1>4, <1>5 DEF SocketInv

LEMMA SocketNext == ASSUME SocketInv, [Next]_vars PROVE SocketInv'
<1>1. CASE PaceChanges
  <2>1. /\ UNCHANGED <<toServer, toClient, pending, nextId, inflight, tasks, lanes, transferId, releasing>>
        /\ pace' \in Pace
    BY <1>1 DEF PaceChanges, client, wires, session
  <2>2. /\ LaneFrames' = LaneFrames /\ inflight' \in [Id -> {"free", "live", "cancelled"}]
        /\ releasing' \in Id \cup {None} /\ transferId' \in Nat
        /\ lanes' \in [Lane -> Seq(FrameType)] /\ toClient' \in Seq(WireType)
    BY <2>1 DEF SocketInv, SlotInv, LaneFrames
  <2>. QED
    BY <2>1, <2>2, SessionStep
<1>2. CASE UNCHANGED vars
  BY <1>2, IdleStep DEF vars, client, env
<1>. QED
  BY <1>1, <1>2, ConnectionKeeps, RequestsKeep, TimersKeep, ReadKeeps, TaskStep, WriteStep, HearKeeps DEF Next

LEMMA SocketInvariant == Spec => []SocketInv
BY InitSocket, SocketNext, PTL DEF Spec

-----------------------------------------------------------------------------
\* Whatever preempts, cancels, times out or breaks the connection, the session
\* never works for nobody: every request given up is followed by its cancel on the
\* same ordered socket.
THEOREM NobodyWorksInVain == Spec => []WorkIsWanted
<1>1. SocketInv => WorkIsWanted
  <2>. SUFFICES ASSUME SocketInv, NEW id \in Live PROVE id \in Pending \/ Told(id) \/ releasing = id
    BY DEF WorkIsWanted
  <2>1. id \in Waited(pending) \/ (\E k \in DOMAIN toServer : toServer[k] = CancelMsg(id)) \/ releasing = id
    BY DEF SocketInv, ToldInv
  <2>2. DOMAIN toServer = 1 .. Len(toServer)
    BY DEF SocketInv, QueueInv
  <2>. QED
    BY <2>1, <2>2, PendingIsWaited DEF Told
<1>. QED
  BY <1>1, SocketInvariant, PTL

\* The session's window and the client's agree: a request that reaches the session
\* is a new one, and is refused for want of room only in the moment between the
\* last byte of an answer and the release of its slot, or by the backlog of
\* cancelled requests.
THEOREM RefusalsAreRaces == Spec => []RefusedOnlyByARace
<1>1. SocketInv => RefusedOnlyByARace
  <2>. SUFFICES ASSUME SocketInv, toServer # <<>>, Head(toServer).kind = "request"
                PROVE  /\ Admission(Head(toServer).id) # "duplicate"
                       /\ Admission(Head(toServer).id) = "full" => releasing # None
    BY DEF RefusedOnlyByARace
  <2>. DEFINE id == Head(toServer).id
  <2>1. 1 \in DOMAIN toServer /\ Asks(toServer, 1) /\ toServer[1].id = id /\ toServer[1].kind = "request"
    BY DEF SocketInv, QueueInv, Asks
  <2>2. id \in Id
    <3>1. QueueInv(toServer, pending, nextId)
      BY DEF SocketInv
    <3>. QED
      BY <2>1, <3>1, MessagesTyped
  <2>3. inflight[id] = "free"
    BY <2>1 DEF SocketInv, ToldInv, Unserved
  <2>. HIDE DEF id
  <2>4. Admission(id) # "duplicate"
    BY <2>3 DEF Admission
  <2>5. ASSUME Admission(id) = "full", releasing = None PROVE FALSE
    <3>1. Cardinality(Live) >= Window
      BY <2>3, <2>5 DEF Admission
    <3>2. Live \in SUBSET Id /\ Live \cup {id} \in SUBSET Id /\ id \notin Live
      BY <2>2, <2>3 DEF Live
    <3>3. IsFiniteSet(Live) /\ Cardinality(Live) \in Nat /\ Cardinality(Live \cup {id}) = Cardinality(Live) + 1
      BY <3>2, IdsFinite, FS_AddElement
    <3>4. Live \cup {id} \subseteq Wanted(toServer, 1)
      <4>1. \A x \in Id : toServer[1] # CancelMsg(x)
        BY <2>1 DEF CancelMsg
      <4>2. \A j \in 1 .. 1 : j = 1
        OBVIOUS
      <4>3. None \notin Id /\ 1 \in 1 .. 1
        BY WorldSocketAssumption
      <4>. QED
        BY <2>1, <2>5, <3>2, <4>1, <4>2, <4>3 DEF Wanted, Live
    <3>5. Cardinality(Live \cup {id}) <= Cardinality(Wanted(toServer, 1)) /\ Cardinality(Wanted(toServer, 1)) \in Nat
      <4>1. Wanted(toServer, 1) \in SUBSET Id
        BY DEF Wanted
      <4>. QED
        BY <3>2, <3>4, <4>1, IdsFinite
    <3>6. Cardinality(Wanted(toServer, 1)) <= Window
      BY <2>1 DEF SocketInv, RoomInv
    <3>. QED
      BY <3>1, <3>3, <3>5, <3>6, WorldSocketAssumption
  <2>. QED
    BY <2>4, <2>5 DEF id
<1>. QED
  BY <1>1, SocketInvariant, PTL

-----------------------------------------------------------------------------
\* A client without an open connection has nothing on the socket, and the session
\* of the old socket is gone with it.
Quiet ==
  /\ toServer = <<>> /\ toClient = <<>> /\ tasks = {} /\ releasing = None
  /\ \A l \in Lane : lanes[l] = <<>>

\* A request timer that still finds its request was armed under this socket, the
\* dial timer carries its own socket, and a client that waits has armed the one
\* reconnect timer it waits for.
TimerInv ==
  /\ generation \in Nat /\ attempts \in Nat
  /\ state # "open" => Quiet /\ Pending = {}
  /\ \A t \in timers :
       /\ t = Timer(t.kind, t.key, t.born) /\ t.key \in Nat
       /\ t.kind = "request" => t.key < nextId /\ (t.key \in Pending => t.born = generation)
       /\ t.kind = "dial" => t.key = t.born
       /\ t.kind = "reconnect" =>
            \/ state = "closed"
            \/ state = "waiting" /\ t.born = generation /\ t.key = attempts

LEMMA InitTimers == Init => TimerInv
<1> SUFFICES ASSUME Init PROVE TimerInv
  OBVIOUS
<1>1. Quiet /\ Pending = {}
  BY DEF Init, Quiet, Pending
<1>. QED
  BY <1>1 DEF Init, TimerInv, Timer

\* The client stays where it is, or opens.
LEMMA ClientStays ==
  ASSUME TimerInv, UNCHANGED <<generation, attempts, timers, nextId>>,
         state' = state \/ (state \in {"connecting", "handshaking"} /\ state' \in {"handshaking", "open"}),
         Pending' \subseteq Pending, state # "open" /\ state' # "open" => Quiet'
  PROVE  TimerInv'
BY DEF TimerInv

\* The connection is let go in the state s.
LEMMA TimersAfterReset ==
  ASSUME TimerInv, DetachSocket, pending' = [id \in Id |-> None], nextId' = nextId,
         attempts' \in Nat, generation' \in Nat,
         \A t \in timers' :
           \/ t \in timers /\ (t.kind = "reconnect" => state' = "closed")
           \/ t = Timer("dial", generation', generation')
           \/ t = Timer("reconnect", attempts', generation') /\ state' = "waiting"
  PROVE  TimerInv'
<1>1. Pending' = {} /\ Quiet'
  BY DEF Pending, Quiet, DetachSocket, FreshSession
<1>2. ASSUME NEW t, t \in timers'
      PROVE  /\ t = Timer(t.kind, t.key, t.born) /\ t.key \in Nat
             /\ t.kind = "request" => t.key < nextId'
             /\ t.kind = "dial" => t.key = t.born
             /\ t.kind = "reconnect" =>
                  \/ state' = "closed"
                  \/ state' = "waiting" /\ t.born = generation' /\ t.key = attempts'
  BY <1>2 DEF TimerInv, Timer
<1>. QED
  BY <1>1, <1>2 DEF TimerInv

LEMMA DisconnectTimers ==
  ASSUME TimerInv, state \in {"connecting", "handshaking", "open"},
         NEW tried \in Nat, NEW armed \in SUBSET timers, Disconnect(tried, armed)
  PROVE  TimerInv'
<1>1. \A t \in armed : t.kind # "reconnect"
  BY DEF TimerInv
<1>2. /\ DetachSocket /\ pending' = [id \in Id |-> None] /\ nextId' = nextId
      /\ generation' = generation /\ generation \in Nat
      /\ attempts' \in Nat
  BY DEF Disconnect, TimerInv
<1>3. \A t \in timers' :
         \/ t \in armed
         \/ t = Timer("reconnect", attempts', generation') /\ state' = "waiting"
  BY <1>2 DEF Disconnect
<1>4. \A t \in timers' :
         \/ t \in timers /\ (t.kind = "reconnect" => state' = "closed")
         \/ t = Timer("dial", generation', generation')
         \/ t = Timer("reconnect", attempts', generation') /\ state' = "waiting"
  BY <1>1, <1>3
<1>. QED
  BY <1>2, <1>4, TimersAfterReset

LEMMA ConnectionTimers == ASSUME SocketInv, TimerInv, Connection PROVE TimerInv'
<1>1. CASE HandleOpen \/ HandleWorldOpened
  BY <1>1 DEF HandleOpen, HandleWorldOpened, TimerInv, Pending, Quiet, wires, session
<1>2. CASE HandleOtherWorld \/ SocketFails
  <2>1. state \in {"connecting", "handshaking", "open"} /\ AttemptLimit \in Nat /\ attempts \in Nat
    BY <1>2, WorldSocketAssumption DEF HandleOtherWorld, SocketFails, TimerInv
  <2>2. Disconnect(AttemptLimit, timers) \/ Disconnect(attempts, timers)
    BY <1>2 DEF HandleOtherWorld, SocketFails
  <2>. QED
    BY <2>1, <2>2, DisconnectTimers
<1>3. CASE Close
  <2>1. /\ DetachSocket /\ pending' = [id \in Id |-> None] /\ nextId' = nextId
        /\ attempts' = attempts /\ generation' = generation + 1 /\ timers' = timers /\ state' = "closed"
    BY <1>3 DEF Close
  <2>2. attempts' \in Nat /\ generation' \in Nat
    BY <2>1 DEF TimerInv
  <2>. QED
    BY <2>1, <2>2, TimersAfterReset
<1>. QED
  BY <1>1, <1>2, <1>3 DEF Connection

LEMMA SubmitTimers ==
  ASSUME SocketInv, TimerInv, NEW rank \in Rank, Submit(rank) PROVE TimerInv'
<1>1. nextId \in Nat /\ pending \in [Id -> Rank \cup {None}]
  BY DEF SocketInv, QueueInv
<1>2. state = "open" /\ UNCHANGED <<state, generation, attempts>> /\ nextId' = nextId + 1
  BY DEF Submit
<1>3. \A id \in Pending' : id \in Pending \/ (id = nextId /\ timers' = timers \cup {Timer("request", nextId, generation)})
  BY <1>1, <1>2 DEF Submit, Without, Pending
<1>4. timers' \subseteq timers \cup {Timer("request", nextId, generation)}
  BY DEF Submit
<1>5. ASSUME NEW t, t \in timers'
      PROVE  /\ t = Timer(t.kind, t.key, t.born) /\ t.key \in Nat
             /\ t.kind = "request" => t.key < nextId' /\ (t.key \in Pending' => t.born = generation')
             /\ t.kind = "dial" => t.key = t.born
             /\ t.kind # "reconnect"
  <2>1. CASE t \in timers
    BY <1>1, <1>2, <1>3, <2>1 DEF TimerInv
  <2>2. CASE t = Timer("request", nextId, generation)
    BY <1>1, <1>2, <2>2 DEF Timer
  <2>. QED
    BY <1>4, <1>5, <2>1, <2>2
<1>. QED
  BY <1>2, <1>5 DEF TimerInv

LEMMA FireTimers ==
  ASSUME SocketInv, TimerInv, NEW t \in timers, Fire(t) PROVE TimerInv'
<1>1. pending \in [Id -> Rank \cup {None}] /\ nextId \in Nat
  BY DEF SocketInv, QueueInv
<1>2. CASE TimeoutRequest(t)
  <2>1. /\ UNCHANGED <<state, generation, attempts, nextId>> /\ timers' \subseteq timers
        /\ Pending' \subseteq Pending
        /\ state # "open" => UNCHANGED <<toServer, toClient, tasks, lanes, releasing>>
    BY <1>2 DEF TimeoutRequest, Without, Pending, TimerInv, session
  <2>2. state # "open" => Quiet' /\ Pending' = {}
    BY <2>1 DEF TimerInv, Quiet
  <2>. QED
    BY <2>1, <2>2 DEF TimerInv
<1>3. CASE TimeoutDial(t)
  <2>1. CASE DialIsLate(t)
    <3>1. Disconnect(attempts, timers \ {t}) /\ state \in {"connecting", "handshaking", "open"}
          /\ timers \ {t} \in SUBSET timers /\ attempts \in Nat
      BY <1>3, <2>1 DEF TimeoutDial, DialIsLate, TimerInv
    <3>. QED
      BY <3>1, DisconnectTimers
  <2>2. CASE ~DialIsLate(t)
    BY <1>3, <2>2 DEF TimeoutDial, TimerInv, Pending, Quiet, wires, session
  <2>. QED
    BY <2>1, <2>2
<1>4. CASE Reconnect(t)
  <2>1. CASE ReconnectIsDue(t)
    <3>1. /\ DetachSocket /\ nextId' = nextId /\ attempts' = attempts /\ generation' = generation + 1
          /\ timers' = (timers \ {t}) \cup {Timer("dial", generation', generation')}
          /\ state = "waiting" /\ t.kind = "reconnect" /\ attempts = t.key /\ pending' = pending
      BY <1>4, <2>1 DEF Reconnect, ReconnectIsDue
    <3>2. attempts' \in Nat /\ generation' \in Nat /\ Pending' = {}
      BY <3>1 DEF TimerInv, Pending
    <3>3. \A u \in timers : u.kind = "reconnect" => u = Timer("reconnect", attempts, generation)
      BY <3>1 DEF TimerInv
    <3>4. pending' = [id \in Id |-> None]
      BY <1>1, <3>1 DEF TimerInv, Pending
    <3>5. \A u \in timers' :
             (u \in timers /\ u.kind # "reconnect") \/ u = Timer("dial", generation', generation')
      BY <3>1, <3>3
    <3>. QED
      BY <3>1, <3>2, <3>4, <3>5, TimersAfterReset
  <2>2. CASE ~ReconnectIsDue(t)
    BY <1>4, <2>2 DEF Reconnect, TimerInv, Pending, Quiet, wires, session
  <2>. QED
    BY <2>1, <2>2
<1>. QED
  BY <1>2, <1>3, <1>4 DEF Fire

LEMMA TimersNext == ASSUME SocketInv, TimerInv, [Next]_vars PROVE TimerInv'
<1>1. CASE Connection
  BY <1>1, ConnectionTimers
<1>2. CASE Requests
  <2>1. ASSUME NEW id \in Id, Cancel(id) PROVE TimerInv'
    <3>1. pending \in [Id -> Rank \cup {None}]
      BY DEF SocketInv, QueueInv
    <3>2. Pending' \subseteq Pending /\ state = "open" /\ UNCHANGED <<state, generation, attempts, timers, nextId>>
      BY <2>1, <3>1 DEF Cancel, Without, Pending
    <3>. QED
      BY <3>2, ClientStays
  <2>. QED
    BY <1>2, <2>1, SubmitTimers DEF Requests
<1>3. CASE \E t \in timers : Fire(t)
  BY <1>3, FireTimers
\* Whatever the session, its writer or the wire does, it does on an open socket.
<1>4. CASE Read \/ Write \/ \E task \in tasks : Work(task)
  <2>1. state = "open"
    BY <1>4 DEF Read, ReadRequest, ReadCancel, Write, Release, DropCancelled, Send, TimerInv, Quiet
  <2>2. UNCHANGED client
    BY <1>4 DEF Read, ReadRequest, ReadCancel, Write, Release, DropCancelled, Send, Work, TaskQuits, TaskAnswers
  <2>. QED
    BY <2>1, <2>2, ClientStays DEF client, Pending
<1>5. CASE Hear
  <2>1. state = "open"
    BY <1>5 DEF Hear, HearFrame, HearFragment, HearAbort, TimerInv, Quiet
  <2>2. CASE Disconnect(attempts, timers)
    BY <2>1, <2>2, DisconnectTimers DEF TimerInv
  <2>3. CASE ~Disconnect(attempts, timers)
    <3>1. UNCHANGED <<state, generation, attempts, timers, nextId>>
          /\ (pending' = pending \/ \E id \in {Head(toClient).id} : pending' = Without({id}))
      BY <1>5, <2>3 DEF Hear, HearFrame, HearFragment, HearAbort, Answered
    <3>2. pending \in [Id -> Rank \cup {None}]
      BY DEF SocketInv, QueueInv
    <3>3. Pending' \subseteq Pending
      BY <3>1, <3>2 DEF Without, Pending
    <3>. QED
      BY <2>1, <3>1, <3>3, ClientStays
  <2>. QED
    BY <2>2, <2>3
<1>6. CASE PaceChanges \/ UNCHANGED vars
  BY <1>6, ClientStays DEF PaceChanges, vars, client, wires, session, TimerInv, Pending, Quiet
<1>. QED
  BY <1>1, <1>2, <1>3, <1>4, <1>5, <1>6 DEF Next

\* Nothing disarms a timer of the socket, and nothing has to: one that was armed
\* under an earlier socket finds nothing of its own when it fires, and none ends a
\* connection that has opened.
THEOREM TimersAreHarmless == Spec => TimersKeepToTheirTime
<1>1. ASSUME TimerInv, Next, NEW t, t \in timers, t \notin timers'
      PROVE  /\ t.born # generation => UNCHANGED <<state, generation, pending>>
             /\ state = "open" => UNCHANGED <<state, generation>>
  <2>1. Fire(t)
    <3>1. \A tried, armed : Disconnect(tried, armed) => armed \subseteq timers'
      BY DEF Disconnect
    <3>2. ~Connection
      BY <1>1, <3>1 DEF Connection, HandleOpen, HandleWorldOpened, HandleOtherWorld, SocketFails, Close
    <3>3. ~Requests
      BY <1>1 DEF Requests, Submit, Cancel
    <3>4. ~Read /\ ~Write /\ ~(\E task \in tasks : Work(task)) /\ ~PaceChanges
      BY <1>1 DEF Read, ReadRequest, ReadCancel, Write, Release, DropCancelled, Send, Work, TaskQuits,
                  TaskAnswers, PaceChanges, client
    <3>5. ~Hear
      BY <1>1, <3>1 DEF Hear, HearFrame, HearFragment, HearAbort, Answered
    <3>6. ASSUME NEW u \in timers, Fire(u) PROVE u = t
      <4>1. timers \ {u} \subseteq timers'
        BY <3>1, <3>6 DEF Fire, TimeoutRequest, TimeoutDial, Reconnect
      <4>. QED
        BY <1>1, <4>1
    <3>. QED
      BY <1>1, <3>2, <3>3, <3>4, <3>5, <3>6 DEF Next
  <2>2. CASE TimeoutRequest(t)
    BY <1>1, <2>2 DEF TimeoutRequest, TimerInv
  <2>3. CASE TimeoutDial(t)
    BY <1>1, <2>3 DEF TimeoutDial, DialIsLate, TimerInv
  <2>4. CASE Reconnect(t)
    BY <1>1, <2>4 DEF Reconnect, ReconnectIsDue, TimerInv
  <2>. QED
    BY <2>1, <2>2, <2>3, <2>4 DEF Fire
<1>2. TimerInv /\ [Next]_vars =>
        [\A t \in timers \ timers' :
           /\ t.born # generation => UNCHANGED <<state, generation, pending>>
           /\ state = "open" => UNCHANGED <<state, generation>>]_vars
  BY <1>1
<1>. QED
  BY <1>2, InitSocket, SocketNext, InitTimers, TimersNext, PTL DEF Spec, TimersKeepToTheirTime
=============================================================================
