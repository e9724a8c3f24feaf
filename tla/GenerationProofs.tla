-------------------------- MODULE GenerationProofs --------------------------
(***************************************************************************)
(* What TLAPS proves of world generation on the service.                   *)
(*                                                                         *)
(* Chunk requests and product flights, for any sessions, requests,         *)
(* products, priorities and limits; and the limiter, whose counters are    *)
(* exact and bounded for every number of callers, every capacity and every *)
(* turn limit, with immediate work passing a waiting ordinary task at most *)
(* MaxImmediate times per turn.                                            *)
(***************************************************************************)
EXTENDS GenerationFlights, GenerationLimiter, Integers, WellFoundedInduction,
        FiniteSetTheorems, SequenceTheorems, TLAPS

-----------------------------------------------------------------------------
(* The closing sweep of a session is final.                                *)

\* A swept or sweeping session is closed, and a swept one has no uncancelled
\* request.
SweepInv == swept \cup sweeping \subseteq closed /\ SweptStaysSwept

\* Cancelling more, tracking less and sweeping nobody keeps the invariant.
LEMMA SweepQuiet ==
  ASSUME SweepInv, tracked' \subseteq tracked, cancelled \subseteq cancelled',
         UNCHANGED <<closed, sweeping, swept>>
  PROVE  SweepInv'
BY DEF SweepInv, SweptStaysSwept, Of

\* insert admits nothing to a closed session, so to no swept one: the second
\* look at the flag happens under the lock the sweep takes.
LEMMA SweepInsert ==
  ASSUME SweepInv, NEW r \in Request, Insert(r)
  PROVE  SweepInv'
<1>1. CASE tracked' = tracked
  BY <1>1, SweepQuiet DEF Insert
<1>2. CASE Admissible(r) /\ tracked' = tracked \cup {r}
  <2>1. \A s \in swept : r \notin Of(s)
    BY <1>2 DEF Admissible, SweepInv, Of
  <2>. QED
    BY <1>2, <2>1 DEF Insert, SweepInv, SweptStaysSwept, Of
<1>. QED
  BY <1>1, <1>2 DEF Insert

\* Every step keeps the invariant.
LEMMA SweepNext == SweepInv /\ [Next]_vars => SweepInv'
<1>. SUFFICES ASSUME SweepInv, [Next]_vars PROVE SweepInv'
  OBVIOUS
<1>1. CASE Dispatch
  BY <1>1, SweepQuiet
     DEF Dispatch, Prune, ReceiveCompletion, DropJob, StartJob, Finish, sessionVars
<1>2. ASSUME NEW r \in Request, CheckOpen(r) PROVE SweepInv'
  BY <1>2, SweepQuiet DEF CheckOpen, sessionVars
<1>3. ASSUME NEW r \in Request, Enqueue(r) PROVE SweepInv'
  BY <1>3, SweepQuiet DEF Enqueue, Finish
<1>4. ASSUME NEW r \in Request, CancelRequest(r) PROVE SweepInv'
  BY <1>4, SweepQuiet DEF CancelRequest
<1>5. ASSUME NEW r \in Request, Produce(r) PROVE SweepInv'
  BY <1>5, SweepQuiet
     DEF Produce, Generate, GiveUp, Fail, Emit, Send, SendError, Return, WorkUnchanged, sessionVars
<1>6. ASSUME NEW r \in Request, Deliver(r) PROVE SweepInv'
  BY <1>6, SweepQuiet DEF Deliver, Finish
<1>7. ASSUME NEW s \in Session, Close(s) PROVE SweepInv'
  BY <1>7 DEF Close, SweepInv, SweptStaysSwept, Of
<1>8. ASSUME NEW s \in Session, Sweep(s) PROVE SweepInv'
  <2>1. tracked \cap Of(s) \subseteq cancelled'
    BY <1>8 DEF Sweep, Of
  <2>2. tracked' = tracked /\ cancelled \subseteq cancelled'
    BY <1>8 DEF Sweep
  <2>3. \A u \in swept' : tracked' \cap Of(u)' \subseteq cancelled'
    BY <1>8, <2>1, <2>2 DEF Sweep, SweepInv, SweptStaysSwept, Of
  <2>. QED
    BY <1>8, <2>3 DEF Sweep, SweepInv, SweptStaysSwept
<1>9. ASSUME NEW s \in Session, Nudge(s) PROVE SweepInv'
  BY <1>9, SweepQuiet DEF Nudge
<1>10. CASE UNCHANGED vars
  BY <1>10, SweepQuiet DEF vars, sessionVars
<1>. QED
  BY <1>1, <1>2, <1>3, <1>4, <1>5, <1>6, <1>7, <1>8, <1>9, <1>10, SweepInsert
     DEF Next, Admit, Stopped

\* After the closing sweep of cancel_all no request of the session is in
\* flight without being cancelled, whatever insert was doing meanwhile.
THEOREM ClosingIsFinal == Spec => []SweptStaysSwept
<1>1. Init => SweepInv
  BY DEF Init, SweepInv, SweptStaysSwept
<1>2. SweepInv => SweptStaysSwept
  BY DEF SweepInv
<1>. QED
  BY <1>1, <1>2, SweepNext, PTL DEF Spec
-----------------------------------------------------------------------------
(* Kept, the selection of products from a request.                         *)

\* Induction over the natural numbers, for a set.
LEMMA SetInduction ==
  ASSUME NEW S \in SUBSET Nat, 0 \in S, \A n \in S : n + 1 \in S
  PROVE  S = Nat
<1>. DEFINE Less == {p \in Nat \X Nat : p[1] < p[2]}
<1>1. SUFFICES ASSUME Nat \ S # {} PROVE FALSE
  OBVIOUS
<1>2. IsWellFoundedOn(Less, Nat)
  BY NatLessThanWellFounded DEF OpToRel
<1>3. PICK m \in Nat \ S : \A x \in Nat \ S : ~(<<x, m>> \in Less)
  <2>. HIDE DEF Less
  <2>. QED
    BY <1>1, <1>2, WFMin
<1>4. m # 0 /\ m - 1 \in Nat /\ m - 1 < m
  BY <1>3
<1>5. m - 1 \in S
  BY <1>3, <1>4
<1>6. (m - 1) + 1 \in S
  BY <1>5
<1>. QED
  BY <1>3, <1>4, <1>6

\* The recursion that Kept is defined by has a solution.
LEMMA KeptExists ==
  ASSUME NEW T, NEW q \in Seq(T), NEW S
  PROVE  \E g : /\ g = [n \in 0..Len(q) |-> IF n = 0 THEN <<>>
                                            ELSE IF q[n] \in S THEN Append(g[n - 1], q[n])
                                            ELSE g[n - 1]]
                /\ Kept(q, S) = g[Len(q)]
<1>. DEFINE Step(g, n) == IF q[n] \in S THEN Append(g[n - 1], q[n]) ELSE g[n - 1]
            IsKept(g, m) == g = [n \in 0..m |-> IF n = 0 THEN <<>> ELSE Step(g, n)]
            Solved == {m \in Nat : m <= Len(q) => \E g : IsKept(g, m)}
<1>1. 0 \in Solved
  <2>. DEFINE g == [n \in 0..0 |-> <<>>]
  <2>1. IsKept(g, 0)
    OBVIOUS
  <2>. QED
    BY <2>1
<1>2. ASSUME NEW m \in Solved PROVE m + 1 \in Solved
  <2>1. SUFFICES ASSUME m + 1 <= Len(q) PROVE \E g : IsKept(g, m + 1)
    <3>. HIDE DEF IsKept
    <3>. QED
      OBVIOUS
  <2>2. PICK g : IsKept(g, m)
    <3>. HIDE DEF IsKept
    <3>1. m <= Len(q)
      BY <1>2, <2>1
    <3>. QED
      BY <1>2, <3>1
  <2>. DEFINE last == IF q[m + 1] \in S THEN Append(g[m], q[m + 1]) ELSE g[m]
              h == [n \in 0..m + 1 |-> IF n = m + 1 THEN last ELSE g[n]]
  <2>3. ASSUME NEW n \in 0..m + 1 PROVE h[n] = IF n = 0 THEN <<>> ELSE Step(h, n)
    <3>1. CASE n = m + 1
      <4>1. n # 0 /\ n - 1 = m /\ m \in 0..m + 1 /\ m # m + 1
        BY <3>1
      <4>2. h[n] = last /\ h[n - 1] = g[m]
        BY <3>1, <4>1
      <4>. QED
        BY <3>1, <4>1, <4>2
    <3>2. CASE n # m + 1
      <4>1. n \in 0..m
        BY <3>2
      <4>2. h[n] = g[n] /\ (n # 0 => h[n - 1] = g[n - 1])
        BY <3>2, <4>1
      <4>3. g[n] = IF n = 0 THEN <<>> ELSE Step(g, n)
        BY <2>2, <4>1
      <4>. QED
        BY <4>2, <4>3
    <3>. QED
      BY <3>1, <3>2
  <2>4. IsKept(h, m + 1)
    <3>1. h = [n \in 0..m + 1 |-> h[n]]
      OBVIOUS
    <3>. HIDE DEF h
    <3>. QED
      BY <2>3, <3>1
  <2>. QED
    BY <2>4
<1>3. Solved = Nat
  <2>. HIDE DEF Solved
  <2>1. Solved \in SUBSET Nat
    BY DEF Solved
  <2>. QED
    BY <1>1, <1>2, <2>1, SetInduction
<1>4. \E g : IsKept(g, Len(q))
  <2>1. Len(q) \in Solved
    BY <1>3
  <2>. QED
    BY <2>1
<1>. DEFINE f == CHOOSE g : IsKept(g, Len(q))
<1>5. IsKept(f, Len(q))
  BY <1>4
<1>6. Kept(q, S) = f[Len(q)]
  BY DEF Kept
<1>. QED
  BY <1>5, <1>6

\* Kept returns the members of S among the elements of q, once each if they are
\* in q once each.
LEMMA KeptIs ==
  ASSUME NEW T, NEW q \in Seq(T), NEW S
  PROVE  /\ Kept(q, S) \in Seq(T)
         /\ SetOf(Kept(q, S)) = SetOf(q) \cap S
         /\ (\A i, j \in DOMAIN q : q[i] = q[j] => i = j) =>
              \A i, j \in DOMAIN Kept(q, S) : Kept(q, S)[i] = Kept(q, S)[j] => i = j
<1>. DEFINE Once(s) == \A i, j \in DOMAIN s : s[i] = s[j] => i = j
            Front(n) == {q[i] : i \in 1..n}
            Right(s, n) == s \in Seq(T) /\ SetOf(s) = Front(n) \cap S /\ (Once(q) => Once(s))
<1>0. Len(q) \in Nat /\ DOMAIN q = 1..Len(q) /\ \A n \in 1..Len(q) : q[n] \in T
  OBVIOUS
<1>1. PICK g : /\ g = [n \in 0..Len(q) |-> IF n = 0 THEN <<>>
                                          ELSE IF q[n] \in S THEN Append(g[n - 1], q[n])
                                          ELSE g[n - 1]]
               /\ Kept(q, S) = g[Len(q)]
  BY KeptExists
<1>2. g[0] = <<>>
  BY <1>0, <1>1
<1>3. ASSUME NEW n \in Nat, n + 1 <= Len(q)
      PROVE  g[n + 1] = IF q[n + 1] \in S THEN Append(g[n], q[n + 1]) ELSE g[n]
  <2>1. n + 1 \in 0..Len(q) /\ n + 1 # 0 /\ (n + 1) - 1 = n
    BY <1>0, <1>3
  <2>2. g[n + 1] = IF n + 1 = 0 THEN <<>>
                   ELSE IF q[n + 1] \in S THEN Append(g[(n + 1) - 1], q[n + 1])
                   ELSE g[(n + 1) - 1]
    BY <1>1, <2>1
  <2>. QED
    BY <2>1, <2>2
<1>. DEFINE Good == {n \in Nat : n <= Len(q) => Right(g[n], n)}
<1>4. 0 \in Good
  <2>1. /\ <<>> \in Seq(T) /\ SetOf(<<>>) = {} /\ Once(<<>>)
    BY DEF SetOf
  <2>2. Front(0) = {}
    OBVIOUS
  <2>3. Right(<<>>, 0)
    BY <2>1, <2>2
  <2>. QED
    BY <1>2, <2>3
<1>5. ASSUME NEW n \in Good PROVE n + 1 \in Good
  <2>1. SUFFICES ASSUME n + 1 <= Len(q) PROVE Right(g[n + 1], n + 1)
    OBVIOUS
  <2>2. n \in Nat /\ n + 1 \in 1..Len(q) /\ Right(g[n], n)
    BY <1>0, <1>5, <2>1
  <2>3. Front(n + 1) = Front(n) \cup {q[n + 1]}
    BY <2>2
  <2>4. CASE q[n + 1] \notin S
    BY <1>3, <2>1, <2>2, <2>3, <2>4
  <2>5. CASE q[n + 1] \in S
    <3>. DEFINE s == g[n]
                x == q[n + 1]
    <3>1. g[n + 1] = Append(s, x)
      BY <1>3, <2>1, <2>2, <2>5
    <3>2. s \in Seq(T) /\ x \in T /\ SetOf(s) = Front(n) \cap S
      BY <1>0, <2>2
    <3>3. /\ Append(s, x) \in Seq(T) /\ Len(s) \in Nat
          /\ DOMAIN Append(s, x) = 1..Len(s) + 1 /\ DOMAIN s = 1..Len(s)
          /\ Append(s, x)[Len(s) + 1] = x
          /\ \A i \in 1..Len(s) : Append(s, x)[i] = s[i]
      <4>. HIDE DEF s, x
      <4>. QED
        BY <3>2
    <3>4. SetOf(Append(s, x)) = SetOf(s) \cup {x}
      <4>. HIDE DEF s, x
      <4>. QED
        BY <3>3 DEF SetOf
    <3>5. Once(q) => Once(Append(s, x))
      <4>1. SUFFICES ASSUME Once(q) PROVE Once(Append(s, x))
        OBVIOUS
      <4>2. Once(s)
        BY <2>2, <4>1
      <4>3. x \notin Front(n)
        BY <1>0, <2>2, <4>1
      <4>4. x \notin SetOf(s)
        BY <3>2, <4>3
      <4>. HIDE DEF s, x
      <4>. QED
        BY <3>3, <4>2, <4>4 DEF SetOf
    <3>6. SetOf(Append(s, x)) = Front(n + 1) \cap S
      BY <2>3, <2>5, <3>2, <3>4
    <3>7. Right(Append(s, x), n + 1)
      <4>. HIDE DEF s, x, Front, Once
      <4>. QED
        BY <3>3, <3>5, <3>6
    <3>. QED
      BY <3>1, <3>7
  <2>. QED
    BY <2>4, <2>5
<1>6. Good = Nat
  <2>. HIDE DEF Good
  <2>1. Good \in SUBSET Nat
    BY DEF Good
  <2>. QED
    BY <1>4, <1>5, <2>1, SetInduction
<1>7. Right(g[Len(q)], Len(q))
  <2>. HIDE DEF Right
  <2>1. Len(q) \in Good
    BY <1>0, <1>6
  <2>. QED
    BY <1>0, <2>1
<1>8. Front(Len(q)) = SetOf(q)
  BY <1>0 DEF SetOf
<1>. QED
  BY <1>1, <1>7, <1>8
-----------------------------------------------------------------------------
(* The inductive invariant of the dispatcher.                              *)

Early == {"new", "checked", "admitted", "queued"}
Stage == Early \cup {"pending", "assembling", "settled", "refused"}
Task ==
  [step : {"none", "waiting", "running", "sending", "failing", "done"}, keys : Seq(Product),
   emitted : Nat, unsettled : Int, error : Outcome]
Report == [generation : Request, flight : Flight, outcome : Outcome]

TypeInv ==
  /\ jobs \in Seq(Request)
  /\ stage \in [Request -> Stage]
  /\ DOMAIN result = Request
  /\ \A r \in Request : result[r] \in [SetOf(Wanted[r]) -> Outcome \cup {Missing}]
  /\ waiters \in [Flight -> SUBSET Request]
  /\ producer \in [Flight -> Request \cup {Nobody}]
  /\ work \in [Request -> Task]
  /\ channel \in Seq(Report)
  /\ DOMAIN answer = Request

\* The job queue holds the requests that are queued, each once.
QueueInv ==
  /\ \A i \in DOMAIN jobs : stage[jobs[i]] = "queued"
  /\ \A i, j \in DOMAIN jobs : jobs[i] = jobs[j] => i = j

\* A generation has something to send while it sends.
TaskInv ==
  \A r \in Request :
    /\ work[r].emitted <= Len(work[r].keys)
    /\ work[r].step = "sending" => work[r].emitted < Len(work[r].keys)

\* A request that was not started has left no trace in the dispatcher.
FreshInv ==
  \A r \in Request : stage[r] \in Early =>
    /\ work[r] = NoWork
    /\ \A f \in Flight : producer[f] # r
    /\ \A i \in DOMAIN channel : channel[i].generation # r

\* The flights of a generation, and what it counts of them.
FlightsBy(r) == {f \in Flight : producer[f] = r}

CountInv ==
  \A r \in Request :
    /\ IsFiniteSet(FlightsBy(r))
    /\ work[r].unsettled = Cardinality(FlightsBy(r))

Cancellation == "world generation cancelled"

\* A generation that reports cancellation has no flight any more.
SpentInv ==
  /\ \A r \in Request : work[r].error = Cancellation => FlightsBy(r) = {}
  /\ \A i \in DOMAIN channel :
       channel[i].outcome = Cancellation => FlightsBy(channel[i].generation) = {}

\* So the cancellation reaches no batch and no answer.
OutcomeInv ==
  \A r \in Request :
    /\ \A p \in DOMAIN result[r] : result[r][p] # Cancellation
    /\ answer[r] # Cancellation

\* A batch is listed in the flight of every product it lacks.
Lists(r, p) == r \in waiters[FlightOf(r, p)] /\ producer[FlightOf(r, p)] # Nobody
ListedInv ==
  \A r \in Request : stage[r] = "pending" =>
    \A p \in DOMAIN result[r] : result[r][p] = Missing => Lists(r, p)

\* And every flight is still to be reported on.
PromiseInv == \A f \in Flight : producer[f] # Nobody => Promised(f)

IInv ==
  /\ TypeInv /\ QueueInv /\ TaskInv /\ FreshInv /\ CountInv /\ SpentInv /\ OutcomeInv
  /\ ListedInv /\ PromiseInv

\* The flight of a wanted product is a flight.
LEMMA FlightType ==
  ASSUME NEW r \in Request
  PROVE  /\ \A p \in Product : FlightOf(r, p) \in Flight
         /\ SetOf(Wanted[r]) \subseteq Product
<1>1. Wanted[r] \in Seq(Product)
  BY FlightAssumption
<1>2. SetOf(Wanted[r]) \subseteq Product
  BY <1>1 DEF SetOf
<1>. QED
  BY <1>2, FlightAssumption DEF FlightOf, Flight

LEMMA FlightsInit == Init => IInv
<1>. SUFFICES ASSUME Init PROVE IInv
  OBVIOUS
<1>1. NoWork \in Task /\ NoWork.emitted <= Len(NoWork.keys) /\ NoWork.step # "sending"
      /\ NoWork.unsettled = 0 /\ NoWork.error # Cancellation
  BY DEF NoWork, Task, Outcome, Cancellation
<1>2. \A f \in Flight : producer[f] = Nobody
  BY DEF Init
<1>3. \A r \in Request : FlightsBy(r) = {} /\ work[r] = NoWork
  BY <1>2, FlightAssumption DEF Init, FlightsBy
<1>4. TypeInv
  BY <1>1 DEF Init, TypeInv, Early, Stage
<1>5. QueueInv /\ TaskInv /\ SpentInv
  BY <1>1, <1>3 DEF Init, QueueInv, TaskInv, SpentInv
<1>6. FreshInv
  BY <1>2, <1>3, FlightAssumption DEF Init, FreshInv
<1>7. CountInv
  BY <1>1, <1>3, FS_EmptySet DEF CountInv
<1>8. OutcomeInv /\ ListedInv
  BY DEF Init, OutcomeInv, ListedInv, Missing, Cancellation
<1>9. PromiseInv
  BY <1>2 DEF PromiseInv
<1>. QED
  BY <1>4, <1>5, <1>6, <1>7, <1>8, <1>9 DEF IInv

\* A step that leaves flights, generations and completions alone, and starts nobody.
LEMMA FlightsQuiet ==
  ASSUME IInv, UNCHANGED <<result, flightVars, work, channel>>,
         stage' \in [Request -> Stage], jobs' \in Seq(Request), QueueInv',
         \A r \in Request : /\ stage'[r] = "pending" => stage[r] = "pending"
                            /\ stage'[r] \in Early => stage[r] \in Early,
         DOMAIN answer' = Request, \A r \in Request : answer'[r] # Cancellation
  PROVE  IInv'
<1>. USE DEF IInv, flightVars
<1>1. TypeInv' /\ TaskInv'
  BY DEF TypeInv, TaskInv
<1>2. FreshInv'
  BY DEF FreshInv
<1>3. \A r : FlightsBy(r)' = FlightsBy(r)
  BY DEF FlightsBy
<1>4. CountInv' /\ SpentInv'
  BY <1>3 DEF CountInv, SpentInv
<1>5. OutcomeInv'
  BY DEF OutcomeInv
<1>6. ListedInv'
  BY DEF ListedInv, Lists
<1>7. PromiseInv'
  BY DEF PromiseInv, Promised
<1>. QED
  BY <1>1, <1>2, <1>4, <1>5, <1>6, <1>7

\* Admission: CheckOpen, Insert and Enqueue.
LEMMA FlightsAdmit ==
  ASSUME IInv, NEW r \in Request, CheckOpen(r) \/ Insert(r) \/ Enqueue(r)
  PROVE  IInv'
<1>0. /\ TypeInv /\ QueueInv
      /\ \A u \in Request : answer[u] # Cancellation
  BY DEF IInv, OutcomeInv
<1>1. UNCHANGED <<result, flightVars, work, channel, answer>>
  BY DEF CheckOpen, Insert, Enqueue
<1>2. PICK s \in {"refused", "checked", "admitted", "queued"} :
        stage' = [stage EXCEPT ![r] = s] /\ stage[r] \in Early \ {"queued"}
        /\ (jobs' = jobs \/ (s = "queued" /\ jobs' = Append(jobs, r)))
  BY DEF CheckOpen, Insert, Enqueue, Move, Early
<1>3. /\ stage' \in [Request -> Stage]
      /\ \A u \in Request : /\ stage'[u] = "pending" => stage[u] = "pending"
                            /\ stage'[u] \in Early => stage[u] \in Early
      /\ \A u \in Request : stage[u] = "queued" => stage'[u] = "queued"
  BY <1>0, <1>2 DEF TypeInv, Stage, Early
<1>4. jobs' \in Seq(Request) /\ QueueInv'
  <2>1. CASE jobs' = jobs
    BY <1>0, <1>3, <2>1 DEF TypeInv, QueueInv
  <2>2. CASE s = "queued" /\ jobs' = Append(jobs, r)
    <3>1. jobs \in Seq(Request) /\ \A i \in DOMAIN jobs : jobs[i] # r /\ jobs[i] \in Request
      BY <1>0, <1>2 DEF TypeInv, QueueInv
    <3>2. /\ Len(jobs) \in Nat /\ DOMAIN jobs = 1..Len(jobs)
          /\ jobs' \in Seq(Request) /\ DOMAIN jobs' = 1..Len(jobs) + 1
          /\ jobs'[Len(jobs) + 1] = r
          /\ \A i \in 1..Len(jobs) : jobs'[i] = jobs[i]
      BY <2>2, <3>1
    <3>3. stage'[r] = "queued"
      BY <1>0, <1>2, <2>2 DEF TypeInv
    <3>4. \A i \in DOMAIN jobs' : stage'[jobs'[i]] = "queued"
      BY <1>0, <1>3, <3>1, <3>2, <3>3 DEF QueueInv
    <3>5. \A i, j \in DOMAIN jobs' : jobs'[i] = jobs'[j] => i = j
      BY <1>0, <3>1, <3>2 DEF QueueInv
    <3>. QED
      BY <3>2, <3>4, <3>5 DEF QueueInv
  <2>. QED
    BY <1>2, <2>1, <2>2
<1>5. DOMAIN answer' = Request /\ \A u \in Request : answer'[u] # Cancellation
  BY <1>0, <1>1 DEF TypeInv
<1>. QED
  BY <1>1, <1>3, <1>4, <1>5, FlightsQuiet

\* What is left of the job queue after the first job was taken.
LEMMA FirstJob ==
  ASSUME TypeInv, QueueInv, jobs # <<>>
  PROVE  /\ Head(jobs) \in Request /\ stage[Head(jobs)] = "queued" /\ Tail(jobs) \in Seq(Request)
         /\ \A i \in DOMAIN Tail(jobs) :
              /\ Tail(jobs)[i] # Head(jobs) /\ Tail(jobs)[i] \in Request
              /\ stage[Tail(jobs)[i]] = "queued"
         /\ \A i, j \in DOMAIN Tail(jobs) : Tail(jobs)[i] = Tail(jobs)[j] => i = j
<1>1. jobs \in Seq(Request)
  BY DEF TypeInv
<1>2. /\ Len(jobs) \in Nat \ {0} /\ DOMAIN jobs = 1..Len(jobs)
      /\ Head(jobs) = jobs[1] /\ Head(jobs) \in Request
      /\ Tail(jobs) \in Seq(Request) /\ DOMAIN Tail(jobs) = 1..Len(jobs) - 1
      /\ \A i \in 1..Len(jobs) - 1 : Tail(jobs)[i] = jobs[i + 1]
  BY <1>1
<1>3. \A i \in 1..Len(jobs) - 1 : i + 1 \in DOMAIN jobs /\ i + 1 # 1
  BY <1>2
<1>4. \A i \in DOMAIN jobs : jobs[i] \in Request /\ stage[jobs[i]] = "queued"
  BY <1>1 DEF QueueInv
<1>5. \A i \in 1..Len(jobs) - 1 : jobs[i + 1] # jobs[1]
  BY <1>2, <1>3 DEF QueueInv
<1>6. \A i, j \in 1..Len(jobs) - 1 : jobs[i + 1] = jobs[j + 1] => i = j
  <2>1. \A i, j \in 1..Len(jobs) - 1 : jobs[i + 1] = jobs[j + 1] => i + 1 = j + 1
    BY <1>3 DEF QueueInv
  <2>. QED
    BY <2>1, <1>2
<1>. QED
  BY <1>2, <1>3, <1>4, <1>5, <1>6

\* A job that was cancelled in the queue.
LEMMA FlightsDrop ==
  ASSUME IInv, DropJob
  PROVE  IInv'
<1>0. TypeInv /\ QueueInv /\ (\A u \in Request : answer[u] # Cancellation) /\ jobs # <<>>
  BY DEF IInv, OutcomeInv, DropJob
<1>. DEFINE r == Head(jobs)
<1>1. UNCHANGED <<result, flightVars, work, channel, answer>>
  BY DEF DropJob
<1>2. jobs' = Tail(jobs) /\ stage' = [stage EXCEPT ![r] = "settled"]
  BY DEF DropJob, Move
<1>3. r \in Request
  BY <1>0, FirstJob
<1>. HIDE DEF r
<1>4. /\ stage' \in [Request -> Stage]
      /\ \A u \in Request : /\ stage'[u] = "pending" => stage[u] = "pending"
                            /\ stage'[u] \in Early => stage[u] \in Early
                            /\ u # r => stage'[u] = stage[u]
  BY <1>0, <1>2, <1>3 DEF TypeInv, Stage, Early
<1>5. jobs' \in Seq(Request) /\ QueueInv'
  <2>1. /\ jobs' \in Seq(Request)
        /\ \A i \in DOMAIN jobs' : jobs'[i] # r /\ jobs'[i] \in Request /\ stage[jobs'[i]] = "queued"
        /\ \A i, j \in DOMAIN jobs' : jobs'[i] = jobs'[j] => i = j
    BY <1>0, <1>2, FirstJob DEF r
  <2>. QED
    BY <1>4, <2>1 DEF QueueInv
<1>6. DOMAIN answer' = Request /\ \A u \in Request : answer'[u] # Cancellation
  BY <1>0, <1>1 DEF TypeInv
<1>. QED
  BY <1>1, <1>4, <1>5, <1>6, FlightsQuiet

\* Delivery hands on what the products of the batch say.
LEMMA FlightsDeliver ==
  ASSUME IInv, NEW r \in Request, Deliver(r)
  PROVE  IInv'
<1>0. TypeInv /\ QueueInv /\ OutcomeInv
  BY DEF IInv
<1>1. UNCHANGED <<result, flightVars, work, channel, jobs>>
  BY DEF Deliver
<1>2. stage[r] = "assembling" /\ stage' = [stage EXCEPT ![r] = "settled"]
  BY DEF Deliver, Move
<1>3. /\ stage' \in [Request -> Stage]
      /\ \A u \in Request : /\ stage'[u] = "pending" => stage[u] = "pending"
                            /\ stage'[u] \in Early => stage[u] \in Early
                            /\ stage[u] = "queued" => stage'[u] = "queued"
  BY <1>0, <1>2 DEF TypeInv, Stage, Early
<1>4. jobs' \in Seq(Request) /\ QueueInv'
  BY <1>0, <1>1, <1>3 DEF TypeInv, QueueInv
<1>5. \/ answer' = answer
      \/ \E o \in Outcome \ {Cancellation} : answer' = [answer EXCEPT ![r] = o]
  BY <1>0 DEF Deliver, OutcomeInv, Cancellation
<1>6. DOMAIN answer' = Request /\ \A u \in Request : answer'[u] # Cancellation
  BY <1>0, <1>5 DEF TypeInv, OutcomeInv
<1>. QED
  BY <1>1, <1>3, <1>4, <1>6, FlightsQuiet

\* Completions say who generated what, and how it went.
LEMMA ReportType ==
  ASSUME TypeInv
  PROVE  \A i \in DOMAIN channel :
           /\ channel[i] \in Report /\ channel[i].generation \in Request
           /\ channel[i].flight \in Flight /\ channel[i].outcome \in Outcome
<1>1. channel \in Seq(Report)
  BY DEF TypeInv
<1>2. \A i \in DOMAIN channel : channel[i] \in Report
  BY <1>1
<1>. QED
  BY <1>2 DEF Report

\* Pruning takes the cancelled batches out of the flights that stay, and the
\* flights that stay without one count as settled.
LEMMA FlightsPrune ==
  ASSUME IInv, Prune
  PROVE  IInv'
<1>. DEFINE gone == Pending \cap cancelled
            orphaned == {f \in Flight : producer[f] # Nobody /\ waiters[f] \subseteq gone}
<1>0. TypeInv /\ QueueInv
  BY DEF IInv
<1>1. /\ UNCHANGED <<jobs, result, channel, answer>>
      /\ stage' = [r \in Request |-> IF r \in gone THEN "settled" ELSE stage[r]]
      /\ waiters' = [f \in Flight |-> waiters[f] \ gone]
      /\ producer' = [f \in Flight |-> IF f \in orphaned THEN Nobody ELSE producer[f]]
      /\ work' = [r \in Request |-> [work[r] EXCEPT !.unsettled = @ - SettledBy(r, orphaned)]]
  BY DEF Prune
<1>2. \A r \in gone : r \in Request /\ stage[r] = "pending"
  BY DEF Pending
<1>3. \A f \in orphaned : f \in Flight /\ waiters[f] \subseteq gone
  OBVIOUS
<1>4. \A r \in Request : FlightsBy(r)' = FlightsBy(r) \ {f \in orphaned : producer[f] = r}
  BY <1>1, <1>3, FlightAssumption DEF FlightsBy
<1>5. \A r \in Request : {f \in orphaned : producer[f] = r} = FlightsBy(r) \cap orphaned
  BY <1>3 DEF FlightsBy
<1>6. ASSUME NEW r \in Request
      PROVE  /\ IsFiniteSet(FlightsBy(r)') /\ Cardinality(FlightsBy(r)') \in Nat
             /\ Cardinality(FlightsBy(r)') = work[r].unsettled - SettledBy(r, orphaned)
  <2>1. IsFiniteSet(FlightsBy(r)) /\ work[r].unsettled = Cardinality(FlightsBy(r))
    BY DEF IInv, CountInv
  <2>2. FlightsBy(r)' = FlightsBy(r) \ orphaned
    BY <1>4, <1>5
  <2>3. SettledBy(r, orphaned) = Cardinality(FlightsBy(r) \cap orphaned)
    BY <1>5 DEF SettledBy
  <2>. HIDE DEF orphaned
  <2>4. IsFiniteSet(FlightsBy(r) \ orphaned)
        /\ Cardinality(FlightsBy(r) \ orphaned)
             = Cardinality(FlightsBy(r)) - Cardinality(FlightsBy(r) \cap orphaned)
    BY <2>1, FS_Difference
  <2>. QED
    BY <2>1, <2>2, <2>3, <2>4, FS_CardinalityType
<1>. HIDE DEF gone, orphaned
<1>7. \A r \in Request : /\ work'[r] \in Task /\ work'[r].step = work[r].step
                         /\ work'[r].keys = work[r].keys /\ work'[r].emitted = work[r].emitted
                         /\ work'[r].error = work[r].error
                         /\ work'[r].unsettled = Cardinality(FlightsBy(r)')
  <2>. SUFFICES ASSUME NEW r \in Request
                PROVE  /\ work'[r] \in Task /\ work'[r].step = work[r].step
                       /\ work'[r].keys = work[r].keys /\ work'[r].emitted = work[r].emitted
                       /\ work'[r].error = work[r].error
                       /\ work'[r].unsettled = Cardinality(FlightsBy(r)')
    OBVIOUS
  <2>1. work[r] \in Task
    BY <1>0 DEF TypeInv
  <2>2. PICK n \in Nat : n = Cardinality(FlightsBy(r)')
    BY <1>6
  <2>3. work'[r] = [work[r] EXCEPT !.unsettled = n]
    BY <1>1, <1>6, <2>1, <2>2 DEF Task
  <2>4. work'[r].unsettled = n
    BY <2>1, <2>3 DEF Task
  <2>. QED
    BY <2>1, <2>2, <2>3, <2>4 DEF Task
<1>8. \A r \in Request : /\ stage'[r] = "pending" => stage[r] = "pending" /\ r \notin gone
                         /\ stage'[r] \in Early => stage[r] \in Early
                         /\ stage[r] = "queued" => stage'[r] = "queued"
  BY <1>1, <1>2 DEF Early
<1>9. \A f \in Flight : /\ producer'[f] # Nobody => producer'[f] = producer[f] /\ f \notin orphaned
                        /\ waiters'[f] = waiters[f] \ gone
  BY <1>1
<1>10. TypeInv'
  <2>1. stage' \in [Request -> Stage]
    BY <1>0, <1>1 DEF TypeInv, Stage
  <2>2. waiters' \in [Flight -> SUBSET Request]
    BY <1>0, <1>1 DEF TypeInv
  <2>3. producer' \in [Flight -> Request \cup {Nobody}]
    BY <1>0, <1>1 DEF TypeInv
  <2>4. work' \in [Request -> Task]
    <3>1. work' = [r \in Request |-> work'[r]]
      BY <1>1
    <3>. QED
      BY <1>7, <3>1
  <2>. QED
    BY <1>0, <1>1, <2>1, <2>2, <2>3, <2>4 DEF TypeInv
<1>11. QueueInv'
  BY <1>0, <1>1, <1>8 DEF TypeInv, QueueInv
<1>12. TaskInv'
  BY <1>7 DEF IInv, TaskInv
<1>13. FreshInv'
  <2>. SUFFICES ASSUME NEW r \in Request, stage'[r] \in Early
                PROVE  /\ work'[r] = NoWork
                       /\ \A f \in Flight : producer'[f] # r
                       /\ \A i \in DOMAIN channel' : channel'[i].generation # r
    BY DEF FreshInv
  <2>1. /\ work[r] = NoWork /\ \A f \in Flight : producer[f] # r
        /\ \A i \in DOMAIN channel : channel[i].generation # r
    BY <1>8 DEF IInv, FreshInv
  <2>2. \A f \in Flight : producer'[f] # r
    BY <1>9, <2>1, FlightAssumption
  <2>3. FlightsBy(r)' = {}
    BY <2>2 DEF FlightsBy
  <2>4. work'[r].unsettled = 0
    BY <1>7, <2>3, FS_EmptySet
  <2>5. work'[r] = NoWork
    BY <1>7, <2>1, <2>4 DEF Task, NoWork
  <2>. QED
    BY <1>1, <2>1, <2>2, <2>5
<1>14. CountInv'
  BY <1>6, <1>7 DEF CountInv
<1>15. SpentInv'
  <2>1. \A r \in Request : FlightsBy(r) = {} => FlightsBy(r)' = {}
    BY <1>4
  <2>2. \A i \in DOMAIN channel : channel[i].generation \in Request
    BY <1>0, ReportType
  <2>. QED
    BY <1>1, <1>7, <2>1, <2>2 DEF IInv, SpentInv
<1>16. OutcomeInv'
  BY <1>1 DEF IInv, OutcomeInv
<1>17. ListedInv'
  <2>. SUFFICES ASSUME NEW r \in Request, stage'[r] = "pending",
                       NEW p \in DOMAIN result[r], result[r][p] = Missing
                PROVE  Lists(r, p)'
    BY <1>1 DEF ListedInv
  <2>1. stage[r] = "pending" /\ r \notin gone
    BY <1>8
  <2>2. r \in waiters[FlightOf(r, p)] /\ producer[FlightOf(r, p)] # Nobody
    BY <2>1 DEF IInv, ListedInv, Lists
  <2>3. p \in SetOf(Wanted[r])
    BY <1>0 DEF TypeInv
  <2>4. FlightOf(r, p) \in Flight
    BY <2>3, FlightType
  <2>5. FlightOf(r, p) \notin orphaned
    BY <2>1, <2>2 DEF orphaned
  <2>. QED
    BY <1>1, <2>1, <2>2, <2>4, <2>5 DEF Lists
<1>18. PromiseInv'
  <2>. SUFFICES ASSUME NEW f \in Flight, producer'[f] # Nobody PROVE Promised(f)'
    BY DEF PromiseInv
  <2>1. producer'[f] = producer[f] /\ producer[f] \in Request
    BY <1>0, <1>9 DEF TypeInv
  <2>2. Promised(f)
    BY <2>1 DEF IInv, PromiseInv
  <2>. QED
    BY <1>1, <1>7, <2>1, <2>2 DEF Promised
<1>. QED
  BY <1>10, <1>11, <1>12, <1>13, <1>14, <1>15, <1>16, <1>17, <1>18 DEF IInv

\* A completion of the generation that its flight waits for settles the flight;
\* any other is dropped.  No such completion says "cancelled", because a
\* generation that says so has no flight.
LEMMA FlightsReceive ==
  ASSUME IInv, ReceiveCompletion
  PROVE  IInv'
<1>. DEFINE c == Head(channel)
            p == c.flight[1]
            g == producer[c.flight]
            fed == waiters[c.flight] \cap Pending
<1>0. TypeInv /\ QueueInv
  BY DEF IInv
<1>1. /\ channel # <<>> /\ channel' = Tail(channel) /\ UNCHANGED <<jobs, answer>>
      /\ \/ ~Matches(c) /\ UNCHANGED <<waiters, producer, work, result, stage>>
         \/ /\ Matches(c)
            /\ waiters' = [waiters EXCEPT ![c.flight] = {}]
            /\ producer' = [producer EXCEPT ![c.flight] = Nobody]
            /\ work' = [work EXCEPT ![g].unsettled = @ - 1]
            /\ result' = [r \in Request |-> IF r \in fed THEN Filled(r, p, c.outcome) ELSE result[r]]
            /\ stage' = [r \in Request |->
                 IF r \in fed /\ Complete(Filled(r, p, c.outcome)) THEN "assembling" ELSE stage[r]]
  BY DEF ReceiveCompletion
<1>2. /\ channel' \in Seq(Report) /\ Len(channel) \in Nat \ {0}
      /\ DOMAIN channel = 1..Len(channel) /\ DOMAIN channel' = 1..Len(channel) - 1
      /\ \A i \in DOMAIN channel' : channel'[i] = channel[i + 1] /\ i + 1 \in DOMAIN channel
      /\ c = channel[1] /\ 1 \in DOMAIN channel
  <2>1. channel \in Seq(Report)
    BY <1>0 DEF TypeInv
  <2>. QED
    BY <1>1, <2>1
<1>3. /\ c \in Report /\ c.generation \in Request /\ c.flight \in Flight /\ c.outcome \in Outcome
      /\ \A i \in DOMAIN channel : channel[i].generation \in Request
  BY <1>0, <1>2, ReportType
<1>4. ASSUME NEW f \in Flight, producer[f] \in Request, Promised(f),
             \A r \in Request : /\ work'[r].step = work[r].step /\ work'[r].keys = work[r].keys
                                /\ work'[r].emitted = work[r].emitted,
             producer'[f] = producer[f], c.flight # f \/ c.generation # producer[f]
      PROVE  Promised(f)'
  <2>1. CASE \E i \in DOMAIN channel :
               channel[i].generation = producer[f] /\ channel[i].flight = f
    <3>1. PICK i \in DOMAIN channel : channel[i].generation = producer[f] /\ channel[i].flight = f
      BY <2>1
    <3>2. i # 1
      BY <1>2, <1>4, <3>1
    <3>3. i - 1 \in DOMAIN channel' /\ (i - 1) + 1 = i
      BY <1>2, <3>2
    <3>4. channel'[i - 1] = channel[i]
      BY <1>2, <3>3
    <3>. QED
      BY <1>4, <3>1, <3>3, <3>4 DEF Promised
  <2>. QED
    BY <1>4, <2>1 DEF Promised
<1>. HIDE DEF c, p, g, fed
<1>5. CASE ~Matches(c) /\ UNCHANGED <<waiters, producer, work, result, stage>>
  <2>1. TypeInv' /\ QueueInv' /\ TaskInv'
    BY <1>0, <1>1, <1>2, <1>5 DEF IInv, TypeInv, QueueInv, TaskInv
  <2>2. FreshInv'
    BY <1>2, <1>5 DEF IInv, FreshInv
  <2>3. \A r : FlightsBy(r)' = FlightsBy(r)
    BY <1>5 DEF FlightsBy
  <2>4. CountInv' /\ SpentInv'
    BY <1>2, <1>5, <2>3 DEF IInv, CountInv, SpentInv
  <2>5. OutcomeInv' /\ ListedInv'
    BY <1>1, <1>5 DEF IInv, OutcomeInv, ListedInv, Lists
  <2>6. ASSUME NEW f \in Flight, producer'[f] # Nobody PROVE Promised(f)'
    <3>1. producer[f] \in Request /\ producer'[f] = producer[f] /\ Promised(f)
      BY <1>0, <1>5, <2>6 DEF IInv, TypeInv, PromiseInv
    <3>2. c.flight # f \/ c.generation # producer[f]
      BY <1>5 DEF Matches
    <3>. QED
      BY <1>4, <1>5, <3>1, <3>2
  <2>. QED
    BY <2>1, <2>2, <2>4, <2>5, <2>6 DEF IInv, PromiseInv
<1>6. CASE /\ Matches(c)
           /\ waiters' = [waiters EXCEPT ![c.flight] = {}]
           /\ producer' = [producer EXCEPT ![c.flight] = Nobody]
           /\ work' = [work EXCEPT ![g].unsettled = @ - 1]
           /\ result' = [r \in Request |-> IF r \in fed THEN Filled(r, p, c.outcome) ELSE result[r]]
           /\ stage' = [r \in Request |->
                IF r \in fed /\ Complete(Filled(r, p, c.outcome)) THEN "assembling" ELSE stage[r]]
  <2>1. g = c.generation /\ g \in Request /\ c.flight \in FlightsBy(g)
    BY <1>3, <1>6 DEF Matches, g, FlightsBy
  <2>2. c.outcome # Cancellation
    BY <1>2, <1>3, <2>1 DEF IInv, SpentInv
  <2>3. ASSUME NEW r \in Request
        PROVE  /\ IsFiniteSet(FlightsBy(r)')
               /\ Cardinality(FlightsBy(r)') = IF r = g THEN work[r].unsettled - 1 ELSE work[r].unsettled
               /\ FlightsBy(r)' \subseteq FlightsBy(r) /\ Cardinality(FlightsBy(r)') \in Nat
    <3>1. IsFiniteSet(FlightsBy(r)) /\ work[r].unsettled = Cardinality(FlightsBy(r))
      BY DEF IInv, CountInv
    <3>2. producer' = [f \in Flight |-> IF f = c.flight THEN Nobody ELSE producer[f]]
      BY <1>0, <1>6 DEF TypeInv
    <3>3. CASE r = g
      <4>1. FlightsBy(r)' = FlightsBy(r) \ {c.flight}
        BY <3>2, FlightAssumption DEF FlightsBy
      <4>2. c.flight \in FlightsBy(r)
        BY <2>1, <3>3
      <4>. QED
        BY <3>1, <3>3, <4>1, <4>2, FS_RemoveElement, FS_CardinalityType
    <3>4. CASE r # g
      <4>1. FlightsBy(r)' = FlightsBy(r)
        BY <2>1, <3>2, <3>4, FlightAssumption DEF FlightsBy
      <4>. QED
        BY <3>1, <3>4, <4>1, FS_CardinalityType
    <3>. QED
      BY <3>3, <3>4
  <2>4. \A r \in Request :
          /\ work'[r] \in Task /\ work'[r].step = work[r].step /\ work'[r].keys = work[r].keys
          /\ work'[r].emitted = work[r].emitted /\ work'[r].error = work[r].error
          /\ work'[r].unsettled = Cardinality(FlightsBy(r)')
          /\ r # g => work'[r] = work[r]
    <3>1. work \in [Request -> Task]
      BY <1>0 DEF TypeInv
    <3>2. \A r \in Request : r # g => work'[r] = work[r]
      BY <1>6, <3>1
    <3>3. work[g] \in Task /\ work'[g] = [work[g] EXCEPT !.unsettled = @ - 1]
      BY <1>6, <2>1, <3>1
    <3>4. /\ work'[g] \in Task /\ work'[g].step = work[g].step /\ work'[g].keys = work[g].keys
          /\ work'[g].emitted = work[g].emitted /\ work'[g].error = work[g].error
          /\ work'[g].unsettled = work[g].unsettled - 1
      BY <3>3 DEF Task
    <3>. QED
      BY <2>1, <2>3, <3>1, <3>2, <3>4
  <2>5. ASSUME NEW r \in Request
        PROVE  /\ result'[r] \in [SetOf(Wanted[r]) -> Outcome \cup {Missing}]
               /\ \A q \in SetOf(Wanted[r]) :
                    \/ result'[r][q] = result[r][q]
                    \/ r \in fed /\ q = p /\ result'[r][q] = c.outcome
               /\ r \in fed /\ p \in SetOf(Wanted[r]) => result'[r][p] # Missing
    <3>1. result[r] \in [SetOf(Wanted[r]) -> Outcome \cup {Missing}]
      BY <1>0 DEF TypeInv
    <3>2. Missing \notin Outcome
      BY DEF Missing, Outcome
    <3>3. CASE r \in fed
      <4>1. result'[r] = [result[r] EXCEPT ![p] = IF @ = Missing THEN c.outcome ELSE @]
        BY <1>6, <3>3 DEF Filled
      <4>. QED
        BY <1>3, <3>1, <3>2, <3>3, <4>1
    <3>4. CASE r \notin fed
      BY <1>6, <3>1, <3>4
    <3>. QED
      BY <3>3, <3>4
  <2>6. \A r \in Request : /\ stage'[r] = "pending" => stage[r] = "pending"
                           /\ stage'[r] \in Early => stage[r] \in Early
                           /\ stage[r] = "queued" => stage'[r] = "queued"
    BY <1>6 DEF Early, fed, Pending
  <2>7. TypeInv'
    <3>1. stage' \in [Request -> Stage]
      BY <1>0, <1>6 DEF TypeInv, Stage
    <3>2. DOMAIN result' = Request
      BY <1>6
    <3>3. waiters' \in [Flight -> SUBSET Request] /\ producer' \in [Flight -> Request \cup {Nobody}]
      BY <1>0, <1>6 DEF TypeInv
    <3>4. work' \in [Request -> Task]
      <4>1. work' = [r \in Request |-> work'[r]]
        BY <1>0, <1>6 DEF TypeInv
      <4>. QED
        BY <2>4, <4>1
    <3>. QED
      BY <1>0, <1>1, <1>2, <2>5, <3>1, <3>2, <3>3, <3>4 DEF TypeInv
  <2>8. QueueInv'
    BY <1>0, <1>1, <2>6 DEF TypeInv, QueueInv
  <2>9. TaskInv'
    BY <2>4 DEF IInv, TaskInv
  <2>10. ASSUME NEW r \in Request, stage'[r] \in Early
         PROVE  /\ work'[r] = NoWork
                /\ \A f \in Flight : producer'[f] # r
                /\ \A i \in DOMAIN channel' : channel'[i].generation # r
    <3>1. /\ work[r] = NoWork /\ \A f \in Flight : producer[f] # r
          /\ \A i \in DOMAIN channel : channel[i].generation # r
      BY <2>6, <2>10 DEF IInv, FreshInv
    <3>2. r # g
      BY <1>2, <2>1, <3>1
    <3>3. work'[r] = NoWork
      BY <2>4, <3>1, <3>2
    <3>4. \A f \in Flight : producer'[f] # r
      BY <1>0, <1>6, <3>1, FlightAssumption DEF TypeInv
    <3>5. \A i \in DOMAIN channel' : channel'[i].generation # r
      BY <1>2, <3>1
    <3>. QED
      BY <3>3, <3>4, <3>5
  <2>11. CountInv'
    BY <2>3, <2>4 DEF CountInv
  <2>12. SpentInv'
    <3>1. \A r \in Request : FlightsBy(r) = {} => FlightsBy(r)' = {}
      BY <2>3
    <3>2. \A r \in Request : work'[r].error = Cancellation => FlightsBy(r)' = {}
      BY <2>4, <3>1 DEF IInv, SpentInv
    <3>3. ASSUME NEW i \in DOMAIN channel', channel'[i].outcome = Cancellation
          PROVE  FlightsBy(channel[i].generation)' = {}
      <4>1. PICK r \in Request : r = channel'[i].generation
        BY <1>2, <1>3
      <4>2. FlightsBy(r) = {}
        BY <1>2, <3>3, <4>1 DEF IInv, SpentInv
      <4>3. FlightsBy(r)' = {}
        BY <3>1, <4>2
      <4>. QED
        BY <4>1, <4>3 DEF FlightsBy
    <3>. QED
      BY <3>2, <3>3 DEF SpentInv
  <2>13. OutcomeInv'
    <3>1. \A r \in Request : DOMAIN result'[r] = SetOf(Wanted[r]) /\ DOMAIN result[r] = SetOf(Wanted[r])
      BY <1>0, <2>5 DEF TypeInv
    <3>. QED
      BY <1>1, <2>2, <2>5, <3>1 DEF IInv, OutcomeInv
  <2>14. ListedInv'
    <3>. SUFFICES ASSUME NEW r \in Request, stage'[r] = "pending",
                         NEW q \in DOMAIN result'[r], result'[r][q] = Missing
                  PROVE  Lists(r, q)'
      BY DEF ListedInv
    <3>1. q \in SetOf(Wanted[r]) /\ q \in DOMAIN result[r]
      BY <1>0, <2>5 DEF TypeInv
    <3>2. result[r][q] = Missing
      BY <1>3, <2>5, <3>1 DEF Missing, Outcome
    <3>3. r \in waiters[FlightOf(r, q)] /\ producer[FlightOf(r, q)] # Nobody /\ stage[r] = "pending"
      BY <2>6, <3>1, <3>2 DEF IInv, ListedInv, Lists
    <3>4. FlightOf(r, q) \in Flight
      BY <3>1, FlightType
    <3>5. FlightOf(r, q) # c.flight
      <4>1. SUFFICES ASSUME FlightOf(r, q) = c.flight PROVE FALSE
        OBVIOUS
      <4>2. p = q /\ r \in fed
        BY <3>3, <4>1 DEF p, fed, Pending, FlightOf
      <4>. QED
        BY <2>5, <3>1, <4>2
    <3>. QED
      BY <1>0, <1>6, <3>3, <3>4, <3>5 DEF Lists, TypeInv
  <2>15. ASSUME NEW f \in Flight, producer'[f] # Nobody PROVE Promised(f)'
    <3>1. f # c.flight /\ producer'[f] = producer[f]
      BY <1>0, <1>3, <1>6, <2>15 DEF TypeInv
    <3>2. producer[f] \in Request /\ Promised(f)
      BY <1>0, <2>15, <3>1 DEF IInv, TypeInv, PromiseInv
    <3>. QED
      BY <1>4, <2>4, <3>1, <3>2
  <2>. QED
    BY <2>7, <2>8, <2>9, <2>10, <2>11, <2>12, <2>13, <2>14, <2>15
       DEF IInv, FreshInv, PromiseInv
<1>. QED
  BY <1>1, <1>5, <1>6

\* A job brings its products from the cache, from the flights of others, or on
\* flights of a new generation that counts exactly the products it starts.
LEMMA FlightsStart ==
  ASSUME IInv, StartJob
  PROVE  IInv'
<1>0. TypeInv /\ QueueInv /\ jobs # <<>>
  BY DEF IInv, StartJob
<1>r. PICK r \in Request : r = Head(jobs) /\ stage[r] = "queued"
  BY <1>0, FirstJob
<1>. DEFINE hits == SetOf(Kept(Wanted[r], Cached))
            idle == {p \in SetOf(Wanted[r]) \ hits : ~(producer[FlightOf(r, p)] # Nobody)}
            misses == Kept(Wanted[r], idle)
            joined == {FlightOf(r, p) : p \in SetOf(Wanted[r]) \ hits}
            started == {FlightOf(r, p) : p \in SetOf(misses)}
            task == [step |-> "waiting", keys |-> misses, emitted |-> 0,
                     unsettled |-> Len(misses), error |-> "failed"]
            next == IF joined = {} THEN "assembling" ELSE "pending"
<1>1. /\ jobs # <<>> /\ jobs' = Tail(jobs) /\ UNCHANGED <<channel, answer>>
      /\ result' = [result EXCEPT ![r] = [p \in DOMAIN @ |-> IF p \in hits THEN "ok" ELSE @[p]]]
      /\ stage' = [stage EXCEPT ![r] = next]
      /\ waiters' = [f \in Flight |-> IF f \in joined THEN waiters[f] \cup {r} ELSE waiters[f]]
      /\ producer' = [f \in Flight |-> IF f \in started THEN r ELSE producer[f]]
      /\ work' = IF misses = <<>> THEN work ELSE [work EXCEPT ![r] = task]
  BY <1>r DEF StartJob, Move
<1>2. r \in Request /\ stage[r] = "queued"
  BY <1>r
<1>3. /\ work[r] = NoWork /\ \A f \in Flight : producer[f] # r
      /\ \A i \in DOMAIN channel : channel[i].generation # r
  BY <1>2 DEF IInv, FreshInv, Early
<1>4. /\ misses \in Seq(Product) /\ SetOf(misses) = idle
      /\ \A i, j \in DOMAIN misses : misses[i] = misses[j] => i = j
  <2>1. Wanted[r] \in Seq(Product)
    BY <1>2, FlightAssumption
  <2>2. \A i, j \in DOMAIN Wanted[r] : Wanted[r][i] = Wanted[r][j] => i = j
    BY <1>2, FlightAssumption
  <2>3. SetOf(misses) = SetOf(Wanted[r]) \cap idle
    BY <2>1, KeptIs
  <2>4. misses \in Seq(Product)
    BY <2>1, KeptIs
  <2>5. \A i, j \in DOMAIN misses : misses[i] = misses[j] => i = j
    BY <2>1, <2>2, KeptIs
  <2>. QED
    BY <2>3, <2>4, <2>5
<1>5. SetOf(Wanted[r]) \subseteq Product /\ \A p \in Product : FlightOf(r, p) \in Flight
  BY <1>2, FlightType
<1>6. /\ IsFiniteSet(started) /\ Cardinality(started) = Len(misses) /\ Len(misses) \in Nat
      /\ started \subseteq Flight
  <2>. DEFINE n == Len(misses)
              b == [i \in 1..n |-> FlightOf(r, misses[i])]
  <2>1. n \in Nat /\ DOMAIN misses = 1..n /\ \A i \in 1..n : misses[i] \in Product
    <3>. HIDE DEF misses
    <3>. QED
      BY <1>4
  <2>2. started = {FlightOf(r, misses[i]) : i \in 1..n}
    BY <2>1 DEF SetOf
  <2>3. \A i, j \in 1..n : b[i] = b[j] => i = j
    BY <1>4, <2>1 DEF FlightOf
  <2>4. b \in [1..n -> started] /\ \A f \in started : \E i \in 1..n : b[i] = f
    BY <2>2
  <2>5. b \in Bijection(1..n, started)
    <3>. HIDE DEF b, n, started
    <3>1. b \in Injection(1..n, started)
      BY <2>3, <2>4 DEF Injection, IsInjective
    <3>2. b \in Surjection(1..n, started)
      BY <2>4 DEF Surjection
    <3>. QED
      BY <3>1, <3>2 DEF Bijection
  <2>6. ExistsBijection(1..n, started)
    <3>. HIDE DEF b, n, started
    <3>. QED
      BY <2>5 DEF ExistsBijection
  <2>7. IsFiniteSet(started) /\ Cardinality(started) = n
    <3>. HIDE DEF n, started
    <3>. QED
      BY <2>1, <2>6, FS_NatBijection, FS_CountingElements
  <2>. QED
    BY <1>5, <2>1, <2>2, <2>7
<1>7. misses = <<>> => started = {}
  BY DEF SetOf
<1>8. \A f \in started : producer[f] = Nobody
  BY <1>4
<1>9. task \in Task /\ 0 <= Len(misses)
  BY <1>4, <1>6 DEF Task, Outcome
<1>10. \A f \in joined : f \in Flight
  BY <1>5
<1>11. \A p \in SetOf(Wanted[r]) \ hits :
         /\ FlightOf(r, p) \in joined
         /\ FlightOf(r, p) \in started \/ producer[FlightOf(r, p)] # Nobody
  BY <1>4
<1>. HIDE DEF started, misses, joined, hits, idle
<1>12. \A u \in Request :
         /\ u # r => work'[u] = work[u]
         /\ work'[u] \in Task
         /\ work'[u].error = Cancellation => work[u].error = Cancellation /\ u # r
  <2>1. work \in [Request -> Task]
    BY <1>0 DEF TypeInv
  <2>2. task.error # Cancellation /\ NoWork.error # Cancellation
    BY DEF NoWork, Cancellation
  <2>3. work' = work \/ work' = [work EXCEPT ![r] = task]
    BY <1>1
  <2>. HIDE DEF task
  <2>. QED
    BY <1>2, <1>3, <1>9, <2>1, <2>2, <2>3
<1>13. /\ misses # <<>> => work'[r] = task
       /\ misses = <<>> => work'[r] = NoWork
  BY <1>0, <1>1, <1>2, <1>3 DEF TypeInv
<1>14. \A u \in Request : u # r => stage'[u] = stage[u] /\ result'[u] = result[u]
  BY <1>0, <1>1 DEF TypeInv
<1>15. stage'[r] \in {"assembling", "pending"} /\ stage' \in [Request -> Stage]
  <2>1. next \in {"assembling", "pending"}
    OBVIOUS
  <2>. HIDE DEF next
  <2>. QED
    BY <1>0, <1>1, <1>2, <2>1 DEF TypeInv, Stage
<1>16. \A f \in Flight : /\ f \in started => producer'[f] = r
                         /\ f \notin started => producer'[f] = producer[f]
                         /\ waiters[f] \subseteq waiters'[f]
                         /\ f \in joined => r \in waiters'[f]
  BY <1>1
<1>17. result'[r] = [p \in SetOf(Wanted[r]) |-> IF p \in hits THEN "ok" ELSE result[r][p]]
  <2>1. DOMAIN result[r] = SetOf(Wanted[r])
    BY <1>0, <1>2 DEF TypeInv
  <2>. QED
    BY <1>0, <1>1, <1>2, <2>1 DEF TypeInv
<1>. HIDE DEF next, task
<1>18. FlightsBy(r)' = started /\ FlightsBy(r) = {}
  BY <1>3, <1>6, <1>16 DEF FlightsBy
<1>19. \A u \in Request : u # r => FlightsBy(u)' = FlightsBy(u)
  <2>1. ASSUME NEW u \in Request, u # r, NEW f \in Flight
        PROVE  producer'[f] = u <=> producer[f] = u
    BY <1>8, <1>16, <2>1, FlightAssumption
  <2>. QED
    BY <2>1 DEF FlightsBy
<1>20. TypeInv'
  <2>1. jobs' \in Seq(Request)
    BY <1>0, <1>1, FirstJob
  <2>2. DOMAIN result' = Request
    BY <1>0, <1>1 DEF TypeInv
  <2>3. \A u \in Request : result'[u] \in [SetOf(Wanted[u]) -> Outcome \cup {Missing}]
    <3>1. result[r] \in [SetOf(Wanted[r]) -> Outcome \cup {Missing}]
      BY <1>0, <1>2 DEF TypeInv
    <3>2. result'[r] \in [SetOf(Wanted[r]) -> Outcome \cup {Missing}]
      BY <1>17, <3>1 DEF Outcome
    <3>. QED
      BY <1>0, <1>14, <3>2 DEF TypeInv
  <2>4. waiters' \in [Flight -> SUBSET Request] /\ producer' \in [Flight -> Request \cup {Nobody}]
    BY <1>0, <1>1, <1>2 DEF TypeInv
  <2>5. work' \in [Request -> Task]
    <3>1. work' = [u \in Request |-> work'[u]]
      BY <1>0, <1>1 DEF TypeInv
    <3>. QED
      BY <1>12, <3>1
  <2>. QED
    BY <1>0, <1>1, <1>15, <2>1, <2>2, <2>3, <2>4, <2>5 DEF TypeInv
<1>21. QueueInv'
  <2>1. /\ \A i \in DOMAIN jobs' : jobs'[i] # r /\ jobs'[i] \in Request /\ stage[jobs'[i]] = "queued"
        /\ \A i, j \in DOMAIN jobs' : jobs'[i] = jobs'[j] => i = j
    BY <1>0, <1>1, <1>r, FirstJob
  <2>. QED
    BY <1>14, <2>1 DEF QueueInv
<1>22. TaskInv'
  <2>1. task.emitted <= Len(task.keys) /\ task.step # "sending"
    BY <1>9 DEF task
  <2>. QED
    BY <1>12, <1>13, <1>3, <2>1 DEF IInv, TaskInv
<1>23. FreshInv'
  <2>. SUFFICES ASSUME NEW u \in Request, stage'[u] \in Early
                PROVE  /\ work'[u] = NoWork
                       /\ \A f \in Flight : producer'[f] # u
                       /\ \A i \in DOMAIN channel' : channel'[i].generation # u
    BY DEF FreshInv
  <2>1. u # r
    BY <1>15 DEF Early
  <2>2. /\ work[u] = NoWork /\ \A f \in Flight : producer[f] # u
        /\ \A i \in DOMAIN channel : channel[i].generation # u
    BY <1>14, <2>1 DEF IInv, FreshInv
  <2>. QED
    BY <1>1, <1>12, <1>16, <2>1, <2>2
<1>24. CountInv'
  <2>1. IsFiniteSet(FlightsBy(r)') /\ work'[r].unsettled = Cardinality(FlightsBy(r)')
    <3>1. CASE misses = <<>>
      <4>1. FlightsBy(r)' = {} /\ work'[r].unsettled = 0
        BY <1>7, <1>13, <1>18, <3>1 DEF NoWork
      <4>2. IsFiniteSet({}) /\ Cardinality({}) = 0
        BY FS_EmptySet
      <4>. QED
        BY <4>1, <4>2
    <3>2. CASE misses # <<>>
      BY <1>6, <1>13, <1>18, <3>2 DEF task
    <3>. QED
      BY <3>1, <3>2
  <2>. QED
    BY <1>12, <1>19, <2>1 DEF IInv, CountInv
<1>25. SpentInv'
  <2>1. \A u \in Request : work'[u].error = Cancellation => FlightsBy(u)' = {}
    BY <1>12, <1>19 DEF IInv, SpentInv
  <2>2. ASSUME NEW i \in DOMAIN channel', channel'[i].outcome = Cancellation
        PROVE  FlightsBy(channel[i].generation)' = {}
    <3>1. PICK u \in Request : u = channel'[i].generation
      BY <1>0, <1>1, ReportType
    <3>2. FlightsBy(u) = {} /\ u # r
      BY <1>1, <1>3, <2>2, <3>1 DEF IInv, SpentInv
    <3>3. FlightsBy(u)' = {}
      BY <1>19, <3>2
    <3>. QED
      BY <3>1, <3>3 DEF FlightsBy
  <2>. QED
    BY <2>1, <2>2 DEF SpentInv
<1>26. OutcomeInv'
  <2>1. DOMAIN result[r] = SetOf(Wanted[r])
    BY <1>0, <1>2 DEF TypeInv
  <2>2. \A p \in DOMAIN result'[r] : result'[r][p] # Cancellation
    BY <1>2, <1>17, <2>1 DEF IInv, OutcomeInv, Cancellation
  <2>3. \A u \in Request : u # r => \A p \in DOMAIN result'[u] : result'[u][p] # Cancellation
    BY <1>14 DEF IInv, OutcomeInv
  <2>4. \A u \in Request : answer'[u] # Cancellation
    BY <1>1 DEF IInv, OutcomeInv
  <2>. QED
    BY <2>2, <2>3, <2>4 DEF OutcomeInv
<1>27. ListedInv'
  <2>. SUFFICES ASSUME NEW u \in Request, stage'[u] = "pending",
                       NEW p \in DOMAIN result'[u], result'[u][p] = Missing
                PROVE  Lists(u, p)'
    BY DEF ListedInv
  <2>1. CASE u # r
    <3>1. Lists(u, p) /\ FlightOf(u, p) \in Flight
      <4>1. stage[u] = "pending" /\ result'[u] = result[u]
        BY <1>14, <2>1
      <4>2. p \in SetOf(Wanted[u])
        BY <1>0, <4>1 DEF TypeInv
      <4>. QED
        BY <4>1, <4>2, FlightType DEF IInv, ListedInv
    <3>. QED
      BY <1>2, <1>16, <3>1, FlightAssumption DEF Lists
  <2>2. CASE u = r
    <3>1. p \in SetOf(Wanted[r]) \ hits
      BY <1>17, <2>2 DEF Missing
    <3>2. FlightOf(r, p) \in Flight
      BY <1>5, <3>1
    <3>. QED
      BY <1>2, <1>11, <1>16, <2>2, <3>1, <3>2, FlightAssumption DEF Lists
  <2>. QED
    BY <2>1, <2>2
<1>28. ASSUME NEW f \in Flight, producer'[f] # Nobody PROVE Promised(f)'
  <2>1. CASE f \in started
    <3>1. misses # <<>> /\ producer'[f] = r
      BY <1>7, <1>16, <2>1
    <3>2. PICK i \in DOMAIN misses : FlightOf(r, misses[i]) = f
      BY <2>1 DEF started, SetOf
    <3>3. DOMAIN misses = 1..Len(misses) /\ i \in 1..Len(misses)
      BY <1>4, <3>2
    <3>4. /\ work'[r].step = "waiting" /\ work'[r].emitted = 0 /\ work'[r].keys = misses
      BY <1>13, <3>1 DEF task
    <3>5. i \in 0 + 1..Len(misses)
      BY <3>3
    <3>. QED
      BY <3>1, <3>2, <3>4, <3>5 DEF Promised
  <2>2. CASE f \notin started
    <3>1. producer'[f] = producer[f] /\ producer[f] # r /\ producer[f] \in Request
      BY <1>0, <1>3, <1>16, <1>28, <2>2 DEF TypeInv
    <3>2. Promised(f) /\ work'[producer[f]] = work[producer[f]]
      BY <1>12, <1>28, <3>1 DEF IInv, PromiseInv
    <3>. QED
      BY <1>1, <3>1, <3>2 DEF Promised
  <2>. QED
    BY <2>1, <2>2
<1>. QED
  BY <1>20, <1>21, <1>22, <1>23, <1>24, <1>25, <1>26, <1>27, <1>28 DEF IInv, PromiseInv

Active == {"waiting", "running", "sending", "failing"}

\* A generation goes on: what it counts and what it has to send stays, and each
\* product it is done with is reported.
LEMMA FlightsWork ==
  ASSUME IInv, NEW r \in Request, NEW t \in Task,
         UNCHANGED <<stage, jobs, result, waiters, producer, answer>>,
         work' = [work EXCEPT ![r] = t], work[r].step # "none",
         t.keys = work[r].keys, t.unsettled = work[r].unsettled, t.emitted <= Len(t.keys),
         t.step = "sending" => t.emitted < Len(t.keys),
         t.error = Cancellation => FlightsBy(r) = {},
         channel' \in Seq(Report),
         \A i \in DOMAIN channel : i \in DOMAIN channel' /\ channel'[i] = channel[i],
         \A i \in DOMAIN channel' :
           \/ i \in DOMAIN channel /\ channel'[i] = channel[i]
           \/ /\ channel'[i].generation = r
              /\ channel'[i].outcome = Cancellation => FlightsBy(r) = {},
         \A i \in work[r].emitted + 1 .. Len(t.keys) :
           \/ t.step \in Active /\ i \in t.emitted + 1 .. Len(t.keys)
           \/ \E j \in DOMAIN channel' :
                channel'[j].generation = r /\ channel'[j].flight = FlightOf(r, t.keys[i])
  PROVE  IInv'
<1>0. TypeInv /\ QueueInv
  BY DEF IInv
<1>1. work' \in [Request -> Task] /\ work'[r] = t /\ \A u \in Request : u # r => work'[u] = work[u]
  BY <1>0 DEF TypeInv
<1>2. \A u : FlightsBy(u)' = FlightsBy(u)
  BY DEF FlightsBy
<1>3. stage[r] \notin Early
  BY DEF IInv, FreshInv, NoWork
<1>4. TypeInv'
  BY <1>0, <1>1 DEF TypeInv
<1>5. QueueInv'
  BY <1>0 DEF QueueInv
<1>6. TaskInv'
  BY <1>1 DEF IInv, TaskInv
<1>7. FreshInv'
  <2>. SUFFICES ASSUME NEW u \in Request, stage[u] \in Early
                PROVE  /\ work'[u] = NoWork
                       /\ \A f \in Flight : producer'[f] # u
                       /\ \A i \in DOMAIN channel' : channel'[i].generation # u
    BY DEF FreshInv
  <2>1. /\ work[u] = NoWork /\ (\A f \in Flight : producer[f] # u) /\ u # r
        /\ \A i \in DOMAIN channel : channel[i].generation # u
    BY <1>3 DEF IInv, FreshInv
  <2>. QED
    BY <1>1, <2>1
<1>8. CountInv'
  BY <1>1, <1>2 DEF IInv, CountInv
<1>9. SpentInv'
  <2>1. \A u \in Request : work'[u].error = Cancellation => FlightsBy(u)' = {}
    BY <1>1, <1>2 DEF IInv, SpentInv
  <2>2. ASSUME NEW i \in DOMAIN channel', channel'[i].outcome = Cancellation
        PROVE  FlightsBy(channel[i].generation)' = {}
    <3>1. FlightsBy(channel'[i].generation) = {}
      BY <2>2 DEF IInv, SpentInv
    <3>. QED
      BY <3>1 DEF FlightsBy
  <2>. QED
    BY <2>1, <2>2 DEF SpentInv
<1>10. OutcomeInv' /\ ListedInv'
  BY DEF IInv, OutcomeInv, ListedInv, Lists
<1>11. ASSUME NEW f \in Flight, producer'[f] # Nobody PROVE Promised(f)'
  <2>1. Promised(f) /\ producer[f] \in Request
    BY <1>0, <1>11 DEF IInv, PromiseInv, TypeInv
  <2>2. CASE \E i \in DOMAIN channel : channel[i].generation = producer[f] /\ channel[i].flight = f
    BY <2>2 DEF Promised
  <2>3. CASE producer[f] # r /\ ~(\E i \in DOMAIN channel :
               channel[i].generation = producer[f] /\ channel[i].flight = f)
    BY <1>1, <2>1, <2>3 DEF Promised
  <2>4. CASE producer[f] = r /\ ~(\E i \in DOMAIN channel :
               channel[i].generation = producer[f] /\ channel[i].flight = f)
    <3>1. PICK i \in work[r].emitted + 1 .. Len(t.keys) : FlightOf(r, t.keys[i]) = f
      BY <2>1, <2>4 DEF Promised
    <3>2. CASE t.step \in Active /\ i \in t.emitted + 1 .. Len(t.keys)
      BY <1>1, <2>4, <3>1, <3>2 DEF Promised, Active
    <3>3. CASE \E j \in DOMAIN channel' : channel'[j].generation = r /\ channel'[j].flight = f
      BY <2>4, <3>3 DEF Promised
    <3>. QED
      BY <3>1, <3>2, <3>3
  <2>. QED
    BY <2>2, <2>3, <2>4
<1>. QED
  BY <1>4, <1>5, <1>6, <1>7, <1>8, <1>9, <1>10, <1>11 DEF IInv, PromiseInv

\* Permits, cancellation, failure, the check before a product, and the end.
LEMMA FlightsSilent ==
  ASSUME IInv, NEW r \in Request, Generate(r) \/ GiveUp(r) \/ Fail(r) \/ Emit(r) \/ Return(r)
  PROVE  IInv'
<1>. DEFINE w == work[r]
<1>0. /\ w \in Task /\ w.emitted <= Len(w.keys) /\ Len(w.keys) \in Nat /\ work \in [Request -> Task]
      /\ w.error = Cancellation => FlightsBy(r) = {}
      /\ IsFiniteSet(FlightsBy(r)) /\ w.unsettled = Cardinality(FlightsBy(r))
  BY DEF IInv, TypeInv, TaskInv, SpentInv, CountInv, Task
<1>1. UNCHANGED <<stage, jobs, result, waiters, producer, answer, channel>> /\ w.step # "none"
  BY DEF Generate, GiveUp, Fail, Emit, Return, WorkUnchanged, sessionVars, flightVars
<1>2. PICK s \in {"running", "failing", "sending", "done"}, e \in Outcome :
        /\ work' = [work EXCEPT ![r] = [w EXCEPT !.step = s, !.error = e]]
        /\ s = "sending" => w.emitted < Len(w.keys)
        /\ s = "done" => w.emitted = Len(w.keys)
        /\ e = w.error \/ w.unsettled = 0
  <2>1. w.error \in Outcome /\ w = [w EXCEPT !.error = w.error]
    BY <1>0 DEF Task
  <2>2. ASSUME NEW s PROVE [w EXCEPT !.step = s] = [w EXCEPT !.step = s, !.error = w.error]
    BY <1>0 DEF Task
  <2>3. CASE GiveUp(r)
    BY <1>0, <2>3 DEF GiveUp, Outcome, Abandoned
  <2>4. CASE ~GiveUp(r)
    <3>1. PICK s \in {"running", "failing", "sending", "done"} :
            /\ work' = [work EXCEPT ![r] = [w EXCEPT !.step = s]]
            /\ s = "sending" => w.emitted < Len(w.keys)
            /\ s = "done" => w.emitted = Len(w.keys)
      BY <1>0, <2>4 DEF Generate, Fail, Emit, Return
    <3>. QED
      BY <2>1, <2>2, <3>1
  <2>. QED
    BY <2>3, <2>4
<1>. DEFINE t == [w EXCEPT !.step = s, !.error = e]
<1>3. /\ t \in Task /\ t.step = s /\ t.error = e /\ t.keys = w.keys /\ t.unsettled = w.unsettled
      /\ t.emitted = w.emitted
  BY <1>0, <1>2 DEF Task
<1>4. e = Cancellation => FlightsBy(r) = {}
  <2>1. w.unsettled = 0 => FlightsBy(r) = {}
    BY <1>0, FS_EmptySet
  <2>. QED
    BY <1>0, <1>2, <2>1
<1>5. channel' \in Seq(Report)
  BY <1>1 DEF IInv, TypeInv
<1>6. \A i \in w.emitted + 1 .. Len(t.keys) : t.step \in Active /\ i \in t.emitted + 1 .. Len(t.keys)
  <2>1. s = "done" => w.emitted + 1 .. Len(w.keys) = {}
    BY <1>0, <1>2 DEF Task
  <2>. QED
    BY <1>2, <1>3, <2>1 DEF Active
<1>7. work' = [work EXCEPT ![r] = t]
  BY <1>2
<1>. HIDE DEF t
<1>. QED
  BY <1>0, <1>1, <1>2, <1>3, <1>4, <1>5, <1>6, <1>7, FlightsWork

\* The report of a product: its success, or the failure of the generation.
LEMMA FlightsReport ==
  ASSUME IInv, NEW r \in Request, Send(r) \/ SendError(r)
  PROVE  IInv'
<1>. DEFINE w == work[r]
<1>0. /\ w \in Task /\ w.emitted <= Len(w.keys) /\ Len(w.keys) \in Nat /\ work \in [Request -> Task]
      /\ w.error = Cancellation => FlightsBy(r) = {}
      /\ w.step = "sending" => w.emitted < Len(w.keys)
      /\ channel \in Seq(Report)
  BY DEF IInv, TypeInv, TaskInv, SpentInv, Task
<1>1. /\ UNCHANGED <<stage, jobs, result, waiters, producer, answer>> /\ w.step # "none"
      /\ w.emitted < Len(w.keys)
  BY <1>0 DEF Send, SendError, WorkUnchanged, sessionVars, flightVars
<1>2. PICK s \in {"running", "failing"}, o \in Outcome :
        /\ work' = [work EXCEPT ![r] = [w EXCEPT !.step = s, !.emitted = w.emitted + 1]]
        /\ channel' = Append(channel, Completion(r, o))
        /\ o = Cancellation => w.error = Cancellation
  <2>1. CASE Send(r)
    BY <1>0, <2>1 DEF Send, Outcome, Cancellation
  <2>2. CASE SendError(r)
    <3>1. w = [w EXCEPT !.step = "failing"]
      BY <1>0, <2>2 DEF SendError, Task
    <3>2. [w EXCEPT !.emitted = w.emitted + 1] = [w EXCEPT !.step = "failing", !.emitted = w.emitted + 1]
      BY <1>0, <2>2 DEF SendError, Task
    <3>3. w.error \in Outcome
      BY <1>0 DEF Task
    <3>. QED
      BY <1>0, <2>2, <3>2, <3>3 DEF SendError
  <2>. QED
    BY <2>1, <2>2
<1>. DEFINE t == [w EXCEPT !.step = s, !.emitted = w.emitted + 1]
            c == Completion(r, o)
            n == Len(channel)
<1>3. /\ t \in Task /\ t.step = s /\ t.error = w.error /\ t.keys = w.keys
      /\ t.unsettled = w.unsettled /\ t.emitted = w.emitted + 1 /\ w.emitted \in Nat
  <2>1. w \in Task /\ w.emitted \in Nat /\ w.emitted + 1 \in Nat
    BY <1>0 DEF Task
  <2>. HIDE DEF w
  <2>. QED
    BY <2>1 DEF Task
<1>4. /\ c \in Report /\ c.generation = r /\ c.outcome = o
      /\ c.flight = FlightOf(r, w.keys[w.emitted + 1])
  <2>1. w.keys \in Seq(Product) /\ w.emitted + 1 \in 1..Len(w.keys)
    BY <1>0, <1>1 DEF Task
  <2>2. w.keys[w.emitted + 1] \in Product
    BY <2>1
  <2>. QED
    BY <2>2, FlightType DEF Completion, Report
<1>. HIDE DEF c
<1>5. /\ channel' \in Seq(Report) /\ n \in Nat /\ DOMAIN channel = 1..n /\ DOMAIN channel' = 1..n + 1
      /\ channel'[n + 1] = c /\ \A i \in 1..n : channel'[i] = channel[i]
  BY <1>0, <1>2, <1>4 DEF c
<1>6. \A i \in DOMAIN channel' :
        \/ i \in DOMAIN channel /\ channel'[i] = channel[i]
        \/ /\ channel'[i].generation = r
           /\ channel'[i].outcome = Cancellation => FlightsBy(r) = {}
  BY <1>0, <1>2, <1>4, <1>5
<1>7. ASSUME NEW i \in w.emitted + 1 .. Len(t.keys)
      PROVE  \/ t.step \in Active /\ i \in t.emitted + 1 .. Len(t.keys)
             \/ \E j \in DOMAIN channel' :
                  channel'[j].generation = r /\ channel'[j].flight = FlightOf(r, t.keys[i])
  <2>1. CASE i = w.emitted + 1
    BY <1>3, <1>4, <1>5, <2>1
  <2>2. CASE i # w.emitted + 1
    <3>1. i \in Int /\ w.emitted + 1 <= i /\ i <= Len(t.keys) /\ i # w.emitted + 1
      BY <1>0, <1>3, <1>7, <2>2
    <3>2. t.step \in Active
      BY <1>3 DEF Active
    <3>. HIDE DEF t, w
    <3>. QED
      BY <1>3, <3>1, <3>2
  <2>. QED
    BY <2>1, <2>2
<1>8. work' = [work EXCEPT ![r] = t] /\ t.emitted <= Len(t.keys) /\ t.step # "sending"
  BY <1>0, <1>1, <1>2, <1>3
<1>9. \A i \in DOMAIN channel : i \in DOMAIN channel' /\ channel'[i] = channel[i]
  BY <1>5
<1>10. t.error = Cancellation => FlightsBy(r) = {}
  BY <1>0, <1>3
<1>11. \A i \in w.emitted + 1 .. Len(t.keys) :
         \/ t.step \in Active /\ i \in t.emitted + 1 .. Len(t.keys)
         \/ \E j \in DOMAIN channel' :
              channel'[j].generation = r /\ channel'[j].flight = FlightOf(r, t.keys[i])
  BY <1>7
<1>. HIDE DEF t, n
<1>. QED
  BY <1>1, <1>3, <1>5, <1>6, <1>8, <1>9, <1>10, <1>11, FlightsWork

\* Every step keeps the invariant.
LEMMA FlightsNext == IInv /\ [Next]_vars => IInv'
<1>. SUFFICES ASSUME IInv, [Next]_vars PROVE IInv'
  OBVIOUS
<1>1. CASE Dispatch
  BY <1>1, FlightsPrune, FlightsReceive, FlightsDrop, FlightsStart DEF Dispatch
<1>2. ASSUME NEW r \in Request, CheckOpen(r) \/ Admit(r) PROVE IInv'
  BY <1>2, FlightsAdmit DEF Admit
<1>3. ASSUME NEW r \in Request, Produce(r) PROVE IInv'
  BY <1>3, FlightsSilent, FlightsReport DEF Produce
<1>4. ASSUME NEW r \in Request, Deliver(r) PROVE IInv'
  BY <1>4, FlightsDeliver
<1>5. ASSUME UNCHANGED <<stage, jobs, result, flightVars, work, channel, answer>> PROVE IInv'
  <2>1. /\ stage \in [Request -> Stage] /\ jobs \in Seq(Request) /\ QueueInv
        /\ DOMAIN answer = Request /\ \A r \in Request : answer[r] # Cancellation
    BY DEF IInv, TypeInv, OutcomeInv
  <2>2. QueueInv'
    BY <1>5, <2>1 DEF QueueInv
  <2>. QED
    BY <1>5, <2>1, <2>2, FlightsQuiet
<1>6. ASSUME NEW r \in Request, CancelRequest(r) PROVE IInv'
  BY <1>5, <1>6 DEF CancelRequest
<1>7. ASSUME NEW s \in Session, Close(s) \/ Sweep(s) \/ Nudge(s) PROVE IInv'
  BY <1>5, <1>7 DEF Close, Sweep, Nudge
<1>8. CASE Stopped \/ UNCHANGED vars
  BY <1>5, <1>8 DEF Stopped, vars
<1>. QED
  BY <1>1, <1>2, <1>3, <1>4, <1>6, <1>7, <1>8 DEF Next

LEMMA FlightsInvariant == Spec => []IInv
BY FlightsInit, FlightsNext, PTL DEF Spec

\* The dispatcher's tables keep their types, and a generation counts its
\* unsettled products without underflow.
THEOREM FlightsTypeCorrect == Spec => [](TypeInv /\ \A r \in Request : work[r].unsettled \in Nat)
<1>1. IInv => TypeInv /\ \A r \in Request : work[r].unsettled \in Nat
  BY FS_CardinalityType DEF IInv, CountInv
<1>. QED
  BY <1>1, FlightsInvariant, PTL

\* prune_cancelled_generation_batches, the completions and the joining of flights
\* leave no batch without a flight, no flight without a generation that reports
\* on it, and no generation running for nobody.
THEOREM FlightsAreServed == Spec => []FlightsServeTheirWaiters
<1>1. IInv => NobodyWaitsInVain
  <2>. SUFFICES ASSUME IInv, NEW r \in Pending, NEW p \in DOMAIN result[r], result[r][p] = Missing
                PROVE  LET f == FlightOf(r, p)
                       IN r \in waiters[f] /\ producer[f] # Nobody /\ Promised(f)
    BY DEF NobodyWaitsInVain
  <2>1. r \in Request /\ stage[r] = "pending"
    BY DEF Pending
  <2>2. Lists(r, p)
    BY <2>1 DEF IInv, ListedInv
  <2>3. p \in SetOf(Wanted[r])
    BY <2>1 DEF IInv, TypeInv
  <2>4. FlightOf(r, p) \in Flight
    BY <2>1, <2>3, FlightType
  <2>. QED
    BY <2>2, <2>4 DEF Lists, IInv, PromiseInv
<1>2. IInv => CancelledOnlyWhenOrphaned
  BY DEF IInv, CountInv, CancelledOnlyWhenOrphaned, FlightsBy
<1>. QED
  BY <1>1, <1>2, FlightsInvariant, PTL DEF FlightsServeTheirWaiters

\* Nobody is told that generation was cancelled: the error of an abandoned
\* generation fits no flight, whoever has started the same product again.
THEOREM CancellationStaysAtHome == Spec => []NoForeignCancellation
<1>1. IInv => NoForeignCancellation
  BY DEF IInv, OutcomeInv, NoForeignCancellation, Cancellation
<1>. QED
  BY <1>1, FlightsInvariant, PTL
-----------------------------------------------------------------------------
(* PriorityGenerationLimiter.                                              *)

\* The types of everything but the counters' ranges.
ShapeInv ==
  /\ available \in Nat
  /\ laneWaiters \in [Lane -> Int]
  /\ consecutive \in 0..MaxImmediate
  /\ queue \in [Lane -> Seq(Caller)]
  /\ stored \in [Lane -> BOOLEAN]
  /\ notified \subseteq Caller
  /\ place \in [Caller -> Registered \cup Unregistered]
  /\ lane \in [Caller -> Lane]
  /\ wake \in [Caller -> Lane \cup {"undecided", "none"}]
  /\ overtaken \in [Caller -> Nat]

\* A waiting ordinary task has been passed no more often than the turn
\* counter says.
BypassInv == \A t \in WaitingIn("ordinary") : overtaken[t] <= consecutive

LimiterInv == ShapeInv /\ CountersAreExact /\ BypassInv
-----------------------------------------------------------------------------
\* The sets the counters count are finite, so they have a natural size.
LEMMA FiniteCounts ==
  ASSUME LimiterInv
  PROVE  /\ IsFiniteSet(Holders) /\ Cardinality(Holders) \in Nat
         /\ \A l \in Lane : IsFiniteSet(WaitingIn(l)) /\ Cardinality(WaitingIn(l)) \in Nat
<1>1. Holders \subseteq Caller /\ \A l \in Lane : WaitingIn(l) \subseteq Caller
  BY DEF Holders, WaitingIn
<1>. QED
  BY <1>1, LimiterAssumption, FS_Subset, FS_CardinalityType

\* A lane somebody waits in has a positive counter.
LEMMA CountedWhenWaiting ==
  ASSUME LimiterInv, NEW l \in Lane, NEW t \in WaitingIn(l)
  PROVE  laneWaiters[l] \in Nat \ {0}
<1>1. IsFiniteSet(WaitingIn(l)) /\ WaitingIn(l) # {}
  BY FiniteCounts
<1>2. Cardinality(WaitingIn(l)) \in Nat \ {0}
  BY <1>1, FiniteCounts, FS_EmptySet
<1>. QED
  BY <1>2 DEF LimiterInv, CountersAreExact

\* notify_one keeps the queues of each lane sequences of tasks.
LEMMA NotifyType ==
  ASSUME ShapeInv, NEW l \in Lane, NEW rest \in SUBSET Caller, NotifyOne(l, rest)
  PROVE  /\ queue' \in [Lane -> Seq(Caller)]
         /\ stored' \in [Lane -> BOOLEAN]
         /\ notified' \subseteq Caller
<1>1. CASE queue[l] # <<>>
  <2>1. queue[l] \in Seq(Caller)
    BY DEF ShapeInv
  <2>2. Head(queue[l]) \in Caller /\ Tail(queue[l]) \in Seq(Caller)
    BY <1>1, <2>1, HeadTailProperties
  <2>3. notified' \subseteq Caller
    BY <1>1, <2>2 DEF NotifyOne
  <2>4. queue' \in [Lane -> Seq(Caller)]
    BY <1>1, <2>2 DEF NotifyOne, ShapeInv
  <2>. QED
    BY <1>1, <2>3, <2>4 DEF NotifyOne, ShapeInv
<1>2. CASE queue[l] = <<>>
  BY <1>2 DEF NotifyOne, ShapeInv
<1>. QED
  BY <1>1, <1>2

\* Dropping a Notified keeps the queues sequences of tasks.
LEMMA DropType ==
  ASSUME ShapeInv, NEW t \in Caller, DropNotified(t)
  PROVE  /\ queue' \in [Lane -> Seq(Caller)]
         /\ stored' \in [Lane -> BOOLEAN]
         /\ notified' \subseteq Caller
<1>1. lane[t] \in Lane /\ queue[lane[t]] \in Seq(Caller)
  BY DEF ShapeInv
<1>2. CASE t \in notified
  <2>1. notified \ {t} \in SUBSET Caller
    BY DEF ShapeInv
  <2>. QED
    BY <1>1, <1>2, <2>1, NotifyType DEF DropNotified
<1>3. CASE ~InQueue(t) /\ UNCHANGED notify
  BY <1>3 DEF notify, ShapeInv
<1>4. ASSUME NEW i \in DOMAIN queue[lane[t]],
             queue' = [queue EXCEPT ![lane[t]] = Without(@, i)],
             UNCHANGED <<stored, notified>>
      PROVE  /\ queue' \in [Lane -> Seq(Caller)]
             /\ stored' \in [Lane -> BOOLEAN]
             /\ notified' \subseteq Caller
  <2>. DEFINE q == queue[lane[t]]
  <2>1. q \in Seq(Caller) /\ Len(q) \in Nat /\ i \in 1..Len(q)
    BY <1>1, <1>4, LenProperties
  <2>2. \A j \in 1..Len(q) : q[j] \in Caller
    BY <2>1, ElementOfSeq
  <2>3. SubSeq(q, 1, i - 1) \in Seq(Caller)
    BY <2>1, <2>2, SubSeqProperties
  <2>4. SubSeq(q, i + 1, Len(q)) \in Seq(Caller)
    BY <2>1, <2>2, SubSeqProperties
  <2>5. Without(q, i) \in Seq(Caller)
    BY <2>3, <2>4, ConcatProperties DEF Without
  <2>. QED
    BY <1>1, <1>4, <2>5 DEF ShapeInv
<1>. QED
  BY <1>2, <1>3, <1>4 DEF DropNotified
-----------------------------------------------------------------------------
\* The limiter starts with every permit available and nobody waiting.
LEMMA LimiterStarts == LimiterInit => LimiterInv
<1>. SUFFICES ASSUME LimiterInit PROVE LimiterInv
  OBVIOUS
<1>1. Holders = {} /\ \A l \in Lane : WaitingIn(l) = {}
  BY DEF LimiterInit, Holders, WaitingIn, Registered
<1>2. CountersAreExact
  <2>1. Cardinality({}) = 0
    BY FS_EmptySet
  <2>2. available + Cardinality(Holders) = Capacity
    <3>1. Cardinality(Holders) = 0
      BY <1>1, <2>1
    <3>. QED
      BY <3>1, LimiterAssumption DEF LimiterInit
  <2>3. ASSUME NEW l \in Lane PROVE laneWaiters[l] = Cardinality(WaitingIn(l))
    <3>1. Cardinality(WaitingIn(l)) = 0
      BY <1>1, <2>1
    <3>. QED
      BY <3>1 DEF LimiterInit
  <2>. QED
    BY <2>2, <2>3 DEF CountersAreExact
<1>3. ShapeInv
  BY LimiterAssumption, EmptySeq
     DEF LimiterInit, ShapeInv, Lane, Registered, Unregistered
<1>. QED
  BY <1>1, <1>2, <1>3 DEF LimiterInv, BypassInv, Lane

\* Each task waits after the step if it waited before, and holds a permit
\* if it held one.
SameRoles ==
  \A t \in Caller :
    /\ place'[t] \in Registered <=> place[t] \in Registered
    /\ place'[t] \in {"acquired", "settling", "holding"}
         <=> place[t] \in {"acquired", "settling", "holding"}

\* A step that changes no counter and moves a task neither into nor out of
\* the waiters or the holders keeps the counters exact.
LEMMA QuietCounts ==
  ASSUME LimiterInv, ShapeInv', SameRoles,
         UNCHANGED <<available, laneWaiters, consecutive, lane, overtaken>>
  PROVE  LimiterInv'
<1>1. Holders' = Holders /\ \A l \in Lane : WaitingIn(l)' = WaitingIn(l)
  BY DEF SameRoles, Holders, WaitingIn
<1>. QED
  BY <1>1 DEF LimiterInv, CountersAreExact, BypassInv, Lane

\* Waiter::new counts the caller in.
LEMMA ArriveCounts ==
  ASSUME LimiterInv, NEW t \in Caller, NEW k \in Lane, Arrive(t, k)
  PROVE  LimiterInv'
<1>. USE DEF LimiterInv
<1>1. ShapeInv'
  BY DEF Arrive, GoTo, ShapeInv, Registered, Unregistered, notify
<1>2. Holders' = Holders
  BY DEF Arrive, GoTo, ShapeInv, Holders
<1>3. WaitingIn(k)' = WaitingIn(k) \cup {t} /\ t \notin WaitingIn(k)
  BY DEF Arrive, GoTo, ShapeInv, WaitingIn, Registered
<1>4. \A l \in Lane \ {k} : WaitingIn(l)' = WaitingIn(l)
  BY DEF Arrive, GoTo, ShapeInv, WaitingIn, Registered
<1>5. Cardinality(WaitingIn(k)') = Cardinality(WaitingIn(k)) + 1
  BY <1>3, FiniteCounts, FS_AddElement
<1>6. CountersAreExact'
  <2>1. available' + Cardinality(Holders') = Capacity
    BY <1>2 DEF Arrive, CountersAreExact
  <2>2. ASSUME NEW l \in Lane PROVE laneWaiters'[l] = Cardinality(WaitingIn(l)')
    BY <1>4, <1>5 DEF Arrive, CountersAreExact, ShapeInv
  <2>. QED
    BY <2>1, <2>2 DEF CountersAreExact
<1>7. BypassInv'
  <2>. SUFFICES ASSUME NEW u \in WaitingIn("ordinary")' PROVE overtaken'[u] <= consecutive'
    BY DEF BypassInv
  <2>1. CASE u = t
    BY <2>1, LimiterAssumption DEF Arrive, ShapeInv
  <2>2. CASE u # t
    <3>1. u \in WaitingIn("ordinary")
      BY <2>2 DEF Arrive, GoTo, ShapeInv, WaitingIn
    <3>. QED
      BY <2>2, <3>1 DEF Arrive, BypassInv, ShapeInv, WaitingIn
  <2>. QED
    BY <2>1, <2>2
<1>. QED
  BY <1>1, <1>6, <1>7

\* A grant moves one task from the waiters to the holders and respects the
\* turn of the ordinary lane.
LEMMA GrantCounts ==
  ASSUME LimiterInv, NEW t \in Caller, Grant(t)
  PROVE  LimiterInv'
<1>. USE DEF LimiterInv
<1>. DEFINE k == lane[t]
<1>0. k \in Lane /\ t \in WaitingIn(k)
  BY DEF Grant, ShapeInv, WaitingIn, Registered
<1>1. ShapeInv'
  <2>1. consecutive' \in 0..MaxImmediate
    BY <1>0, LimiterAssumption DEF Grant, ConsecutiveAfter, ShapeInv, Lane
  <2>. QED
    BY <2>1 DEF Grant, Eligible, GoTo, ShapeInv, Registered, Unregistered, notify
<1>2. Holders' = Holders \cup {t} /\ t \notin Holders
  BY DEF Grant, GoTo, ShapeInv, Holders
<1>3. WaitingIn(k)' = WaitingIn(k) \ {t}
  BY DEF Grant, GoTo, ShapeInv, WaitingIn, Registered
<1>4. \A l \in Lane \ {k} : WaitingIn(l)' = WaitingIn(l)
  BY DEF Grant, GoTo, ShapeInv, WaitingIn, Registered
<1>5. Cardinality(WaitingIn(k)') = Cardinality(WaitingIn(k)) - 1
  BY <1>0, <1>3, FiniteCounts, FS_RemoveElement
<1>6. Cardinality(Holders') = Cardinality(Holders) + 1
  BY <1>2, FiniteCounts, FS_AddElement
<1>7. CountersAreExact'
  <2>1. available' + Cardinality(Holders') = Capacity
    BY <1>6, FiniteCounts DEF Grant, CountersAreExact, ShapeInv
  <2>2. ASSUME NEW l \in Lane PROVE laneWaiters'[l] = Cardinality(WaitingIn(l)')
    BY <1>4, <1>5 DEF Grant, CountersAreExact, ShapeInv
  <2>. QED
    BY <2>1, <2>2 DEF CountersAreExact
<1>8. BypassInv'
  <2>. SUFFICES ASSUME NEW u \in WaitingIn("ordinary")' PROVE overtaken'[u] <= consecutive'
    BY DEF BypassInv
  <2>0. u \in WaitingIn("ordinary") /\ u \in Caller
    BY DEF Grant, GoTo, ShapeInv, WaitingIn, Registered
  <2>1. CASE k = "ordinary"
    BY <2>0, <2>1, <1>1 DEF Grant, ConsecutiveAfter, ShapeInv
  <2>2. CASE k = "immediate"
    <3>1. laneWaiters["ordinary"] \in Nat \ {0}
      BY <2>0, CountedWhenWaiting DEF Lane
    <3>2. consecutive < MaxImmediate
      BY <2>2, <3>1 DEF Grant, Eligible
    <3>3. consecutive' = consecutive + 1
      BY <2>2, <3>1, <3>2 DEF Grant, ConsecutiveAfter
    <3>4. overtaken'[u] = overtaken[u] + 1
      BY <2>0, <2>2 DEF Grant
    <3>. QED
      BY <2>0, <3>3, <3>4, LimiterAssumption DEF BypassInv, ShapeInv
  <2>3. CASE k = "collision"
    BY <2>0, <2>3 DEF Grant, ConsecutiveAfter, BypassInv
  <2>. QED
    BY <1>0, <2>1, <2>2, <2>3 DEF Lane
<1>. QED
  BY <1>1, <1>7, <1>8

\* Dropping a registered Waiter counts the caller out.
LEMMA LeaveCounts ==
  ASSUME LimiterInv, NEW t \in Caller, Leave(t)
  PROVE  LimiterInv'
<1>. USE DEF LimiterInv
<1>. DEFINE k == lane[t]
<1>0. k \in Lane /\ t \in WaitingIn(k)
  BY DEF Leave, ShapeInv, WaitingIn, Registered
<1>1. ShapeInv'
  BY DEF Leave, GoTo, ShapeInv, Registered, Unregistered, notify
<1>2. Holders' = Holders
  BY DEF Leave, GoTo, ShapeInv, Holders
<1>3. WaitingIn(k)' = WaitingIn(k) \ {t}
  BY DEF Leave, GoTo, ShapeInv, WaitingIn, Registered
<1>4. \A l \in Lane \ {k} : WaitingIn(l)' = WaitingIn(l)
  BY DEF Leave, GoTo, ShapeInv, WaitingIn, Registered
<1>5. Cardinality(WaitingIn(k)') = Cardinality(WaitingIn(k)) - 1
  BY <1>0, <1>3, FiniteCounts, FS_RemoveElement
<1>6. CountersAreExact'
  <2>1. available' + Cardinality(Holders') = Capacity
    BY <1>2 DEF Leave, CountersAreExact
  <2>2. ASSUME NEW l \in Lane PROVE laneWaiters'[l] = Cardinality(WaitingIn(l)')
    BY <1>4, <1>5 DEF Leave, CountersAreExact, ShapeInv
  <2>. QED
    BY <2>1, <2>2 DEF CountersAreExact
<1>7. BypassInv'
  <2>1. WaitingIn("ordinary")' \subseteq WaitingIn("ordinary")
    BY DEF Leave, GoTo, ShapeInv, WaitingIn, Registered
  <2>. QED
    BY <2>1 DEF Leave, BypassInv
<1>. QED
  BY <1>1, <1>6, <1>7

\* Dropping a permit counts the holder out.
LEMMA ReleaseCounts ==
  ASSUME LimiterInv, NEW t \in Caller, Release(t)
  PROVE  LimiterInv'
<1>. USE DEF LimiterInv
<1>1. ShapeInv'
  BY DEF Release, GoTo, ShapeInv, Registered, Unregistered, notify
<1>2. Holders' = Holders \ {t} /\ t \in Holders
  BY DEF Release, GoTo, ShapeInv, Holders
<1>3. \A l \in Lane : WaitingIn(l)' = WaitingIn(l)
  BY DEF Release, GoTo, ShapeInv, WaitingIn, Registered
<1>4. Cardinality(Holders') = Cardinality(Holders) - 1
  BY <1>2, FiniteCounts, FS_RemoveElement
<1>5. CountersAreExact'
  BY <1>3, <1>4, FiniteCounts DEF Release, CountersAreExact, ShapeInv
<1>6. BypassInv'
  BY <1>3 DEF Release, BypassInv, Lane
<1>. QED
  BY <1>1, <1>5, <1>6

\* Every step keeps the invariant; the steps on the wait lists and the two
\* halves of signal touch no counter.
LEMMA LimiterSteps == LimiterInv /\ [LimiterNext]_limiterVars => LimiterInv'
<1>. SUFFICES ASSUME LimiterInv, [LimiterNext]_limiterVars PROVE LimiterInv'
  OBVIOUS
<1>. USE DEF LimiterInv
<1>1. ASSUME NEW t \in Caller, Enable(t) PROVE LimiterInv'
  <2>1. queue[lane[t]] \in Seq(Caller) /\ lane[t] \in Lane
    BY DEF ShapeInv
  <2>2. Append(queue[lane[t]], t) \in Seq(Caller)
    BY <2>1, AppendProperties
  <2>3. ShapeInv'
    <3>1. queue' \in [Lane -> Seq(Caller)] /\ stored' \in [Lane -> BOOLEAN]
      <4>1. CASE stored[lane[t]]
        BY <1>1, <2>1, <4>1 DEF Enable, ShapeInv
      <4>2. CASE ~stored[lane[t]]
        <5>1. UNCHANGED stored
          BY <1>1, <4>2 DEF Enable
        <5>2. queue' = [queue EXCEPT ![lane[t]] = Append(queue[lane[t]], t)]
          BY <1>1, <4>2 DEF Enable
        <5>. QED
          BY <2>1, <2>2, <5>1, <5>2 DEF ShapeInv
      <4>. QED
        BY <4>1, <4>2
    <3>. QED
      BY <1>1, <3>1 DEF Enable, GoTo, ShapeInv, Registered, Unregistered, state
  <2>4. SameRoles
    BY <1>1 DEF SameRoles, Enable, GoTo, ShapeInv, Registered
  <2>. QED
    BY <1>1, <2>3, <2>4, QuietCounts DEF Enable, state
<1>2. ASSUME NEW t \in Caller, Decline(t) PROVE LimiterInv'
  <2>1. ShapeInv'
    BY <1>2 DEF Decline, GoTo, ShapeInv, Registered, Unregistered, state, notify
  <2>2. SameRoles
    BY <1>2 DEF SameRoles, Decline, GoTo, ShapeInv, Registered
  <2>. QED
    BY <1>2, <2>1, <2>2, QuietCounts DEF Decline, state
<1>3. ASSUME NEW t \in Caller, Wake(t) PROVE LimiterInv'
  <2>1. ShapeInv'
    BY <1>3 DEF Wake, GoTo, ShapeInv, Registered, Unregistered, state
  <2>2. SameRoles
    BY <1>3 DEF SameRoles, Wake, GoTo, ShapeInv, Registered
  <2>. QED
    BY <1>3, <2>1, <2>2, QuietCounts DEF Wake, state
<1>4. ASSUME NEW t \in Caller, Settle(t) PROVE LimiterInv'
  <2>1. ShapeInv'
    BY <1>4, DropType DEF Settle, GoTo, ShapeInv, Registered, Unregistered, state
  <2>2. SameRoles
    BY <1>4 DEF SameRoles, Settle, GoTo, ShapeInv, Registered
  <2>. QED
    BY <1>4, <2>1, <2>2, QuietCounts DEF Settle, state
<1>5. ASSUME NEW t \in Caller, Cancel(t) PROVE LimiterInv'
  <2>1. ShapeInv'
    BY <1>5, DropType DEF Cancel, GoTo, ShapeInv, Registered, Unregistered, state
  <2>2. SameRoles
    BY <1>5 DEF SameRoles, Cancel, GoTo, ShapeInv, Registered
  <2>. QED
    BY <1>5, <2>1, <2>2, QuietCounts DEF Cancel, state
<1>6. ASSUME NEW t \in Caller, Decide(t) PROVE LimiterInv'
  <2>1. ShapeInv'
    BY <1>6 DEF Decide, ShapeInv, state, notify
  <2>2. SameRoles
    BY <1>6 DEF SameRoles, Decide
  <2>. QED
    BY <1>6, <2>1, <2>2, QuietCounts DEF Decide, state
<1>7. ASSUME NEW t \in Caller, NotifyLane(t) PROVE LimiterInv'
  <2>1. /\ queue' \in [Lane -> Seq(Caller)]
        /\ stored' \in [Lane -> BOOLEAN]
        /\ notified' \subseteq Caller
    <3>1. CASE wake[t] \in Lane /\ NotifyOne(wake[t], notified)
      BY <3>1, NotifyType DEF ShapeInv
    <3>2. CASE UNCHANGED notify
      BY <3>2 DEF ShapeInv, notify
    <3>. QED
      BY <1>7, <3>1, <3>2 DEF NotifyLane
  <2>2. ShapeInv'
    BY <1>7, <2>1 DEF NotifyLane, GoTo, ShapeInv, Registered, Unregistered, state
  <2>3. SameRoles
    BY <1>7 DEF SameRoles, NotifyLane, GoTo, ShapeInv, Registered, Signalling
  <2>. QED
    BY <1>7, <2>2, <2>3, QuietCounts DEF NotifyLane, state
<1>8. CASE UNCHANGED limiterVars
  <2>1. ShapeInv'
    BY <1>8 DEF limiterVars, ShapeInv, state, notify
  <2>2. SameRoles
    BY <1>8 DEF SameRoles, limiterVars
  <2>. QED
    BY <1>8, <2>1, <2>2, QuietCounts DEF limiterVars, state
<1>. QED
  BY <1>1, <1>2, <1>3, <1>4, <1>5, <1>6, <1>7, <1>8,
     ArriveCounts, GrantCounts, LeaveCounts, ReleaseCounts DEF LimiterNext, Progress

\* The invariant holds in every reachable state.
LEMMA LimiterInvariant == LimiterSpec => []LimiterInv
  BY LimiterStarts, LimiterSteps, PTL DEF LimiterSpec
-----------------------------------------------------------------------------
\* The limiter counts its waiters and permits exactly, whoever gives up or
\* finishes in whatever order, so at most Capacity generations run at once
\* (Waiter::new, try_acquire, both Drop implementations).
THEOREM PermitsAreCounted == LimiterSpec => []CountersAreExact
<1>1. LimiterInv => CountersAreExact
  BY DEF LimiterInv
<1>. QED
  BY <1>1, LimiterInvariant, PTL

\* No counter of the limiter leaves its range, and its wait lists hold tasks
\* only (State, Notify).
THEOREM LimiterTypeCorrect == LimiterSpec => []LimiterTypeOK
<1>1. LimiterInv => LimiterTypeOK
  <2>. SUFFICES ASSUME LimiterInv PROVE LimiterTypeOK
    OBVIOUS
  <2>1. available \in 0..Capacity
    <3>1. available \in Nat /\ Cardinality(Holders) \in Nat
          /\ available + Cardinality(Holders) = Capacity
      BY FiniteCounts DEF LimiterInv, ShapeInv, CountersAreExact
    <3>. QED
      BY <3>1, LimiterAssumption
  <2>2. laneWaiters \in [Lane -> Nat]
    BY FiniteCounts DEF LimiterInv, ShapeInv, CountersAreExact
  <2>. QED
    BY <2>1, <2>2 DEF LimiterInv, ShapeInv, LimiterTypeOK
<1>. QED
  BY <1>1, LimiterInvariant, PTL

\* Immediate work passes a waiting ordinary task at most MaxImmediate times
\* before the ordinary lane is served (signal, try_acquire).
THEOREM BypassIsBounded == LimiterSpec => []BoundedBypass
<1>1. LimiterInv => BoundedBypass
  <2>. SUFFICES ASSUME LimiterInv, NEW t \in WaitingIn("ordinary")
                PROVE  overtaken[t] <= MaxImmediate
    BY DEF BoundedBypass
  <2>1. t \in Caller /\ overtaken[t] <= consecutive
    BY DEF LimiterInv, BypassInv, WaitingIn
  <2>. QED
    BY <2>1, LimiterAssumption DEF LimiterInv, ShapeInv
<1>. QED
  BY <1>1, LimiterInvariant, PTL
=============================================================================
