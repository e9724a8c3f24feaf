------------------------- MODULE GenerationFlights -------------------------
(***************************************************************************)
(* Chunk requests of a world session from admission to answer:             *)
(* SessionRequests, CancellationSignal, run_generation_dispatcher and      *)
(* generate_single_flight_products of world-service/src/server.rs.         *)
(*                                                                         *)
(* Actors: each session's frame loop (admits and cancels), each session's  *)
(* socket writer (closes the session), the one dispatcher task, one        *)
(* generation task per batch with cache misses, one delivery task per      *)
(* complete batch.  A request stands for its batch and for the generation  *)
(* its misses start: the dispatcher numbers both once per request, so the  *)
(* request is as good an id.                                               *)
(***************************************************************************)
EXTENDS Naturals, Sequences, FiniteSets

CONSTANTS
  Session, Request, Product, Priority,
  SessionOf,       \* the session a request arrives on
  Wanted,          \* product_keys: the products of a request, in order
  PriorityOf,      \* the request's priority
  Window,          \* max_in_flight of a session
  SettlingWindows, \* MAX_SETTLING_WINDOWS
  QueueLimit,      \* capacity of the job queue
  ChannelLimit,    \* completion_queue_capacity
  Workers,         \* generations that run at once (GenerationLimiter)
  CacheLimit,      \* products the byte-bounded product cache holds
  Nobody

SetOf(q) == {q[i] : i \in DOMAIN q}

ASSUME FlightAssumption ==
  /\ SessionOf \in [Request -> Session]
  /\ Wanted \in [Request -> Seq(Product) \ {<<>>}]
  \* decode_chunk_batch rejects a coordinate that is named twice
  /\ \A r \in Request : \A i, j \in DOMAIN Wanted[r] : Wanted[r][i] = Wanted[r][j] => i = j
  /\ PriorityOf \in [Request -> Priority]
  /\ {Window, SettlingWindows, QueueLimit, ChannelLimit, Workers} \subseteq Nat \ {0}
  /\ CacheLimit \in Nat
  /\ Nobody \notin Request

Flight == Product \X Priority          \* ProductFlightKey
FlightOf(r, p) == <<p, PriorityOf[r]>>

VARIABLES
  closed,      \* SessionRequests.closed
  sweeping,    \* sessions between the store and the sweep of cancel_all
  swept,       \* sessions whose closing sweep is done
  stage,       \* where each request is
  tracked,     \* SessionRequests.in_flight of all sessions
  cancelled,   \* CancellationSignal of each request
  nudging,     \* callers of cancel and cancel_all that still have to notify
  nudged,      \* generation_cancellations holds a notification
  jobs,        \* the job queue
  result,      \* PendingGenerationBatch.items
  waiters,     \* in_flight: the batches waiting for each flight
  producer,    \* in_flight: the generation of each flight, or Nobody
  work,        \* the generation task a request started
  channel,     \* completions on their way to the dispatcher
  cache,       \* ProductCache, least recently used first
  answer       \* history: what a request was answered

sessionVars == <<closed, sweeping, swept, tracked, cancelled, nudging>>
flightVars == <<waiters, producer>>
vars == <<sessionVars, nudged, stage, jobs, result, flightVars, work, channel, cache, answer>>

Missing == "missing"
Outcome == {"ok", "failed", "world generation cancelled"}
NoWork == [step |-> "none", keys |-> <<>>, emitted |-> 0, unsettled |-> 0, error |-> "failed"]

Init ==
  /\ closed = {} /\ sweeping = {} /\ swept = {}
  /\ stage = [r \in Request |-> "new"]
  /\ tracked = {}
  /\ cancelled = {}
  /\ nudging = {}
  /\ nudged = FALSE
  /\ jobs = <<>>
  /\ result = [r \in Request |-> [p \in SetOf(Wanted[r]) |-> Missing]]
  /\ waiters = [f \in Flight |-> {}]
  /\ producer = [f \in Flight |-> Nobody]
  /\ work = [r \in Request |-> NoWork]
  /\ channel = <<>>
  /\ cache = <<>>
  /\ answer = [r \in Request |-> Missing]

Move(r, s) == stage' = [stage EXCEPT ![r] = s]
Of(s) == {r \in Request : SessionOf[r] = s}

\* finish: the request leaves the window; its signal stays with its owners.
Finish(rs) == tracked' = tracked \ rs
-----------------------------------------------------------------------------
(* The session's frame loop.  It handles one frame at a time.              *)

LoopFree(s) == \A r \in Of(s) : stage[r] \notin {"checked", "admitted"}

\* insert, before the lock.
CheckOpen(r) ==
  /\ stage[r] = "new" /\ LoopFree(SessionOf[r])
  /\ Move(r, IF SessionOf[r] \in closed THEN "refused" ELSE "checked")
  /\ UNCHANGED <<sessionVars, nudged, jobs, result, flightVars, work, channel, cache, answer>>

\* Mutant: the closed flag is not looked at again under the lock.
Admissible_Unchecked(r) ==
  LET mine == tracked \cap Of(SessionOf[r])
  IN /\ Cardinality(mine) < Window * SettlingWindows
     /\ Cardinality(mine \ cancelled) < Window

\* insert, under the lock.
Admissible(r) ==
  LET mine == tracked \cap Of(SessionOf[r])
  IN /\ SessionOf[r] \notin closed
     /\ Cardinality(mine) < Window * SettlingWindows
     /\ Cardinality(mine \ cancelled) < Window

Insert(r) ==
  /\ stage[r] = "checked"
  /\ \/ /\ Admissible(r)
        /\ tracked' = tracked \cup {r}
        /\ Move(r, "admitted")
     \/ /\ ~Admissible(r)
        /\ Move(r, "refused")
        /\ UNCHANGED tracked
  /\ UNCHANGED <<closed, sweeping, swept, cancelled, nudging, nudged, jobs, result, flightVars,
                 work, channel, cache, answer>>

\* try_send of the job; a full queue is answered "world generator is busy".
Enqueue(r) ==
  /\ stage[r] = "admitted"
  /\ \/ /\ Len(jobs) < QueueLimit
        /\ jobs' = Append(jobs, r)
        /\ Move(r, "queued")
        /\ UNCHANGED tracked
     \/ /\ Len(jobs) >= QueueLimit
        /\ Finish({r})
        /\ Move(r, "refused")
        /\ UNCHANGED jobs
  /\ UNCHANGED <<closed, sweeping, swept, cancelled, nudging, nudged, result, flightVars, work,
                 channel, cache, answer>>

\* A cancel frame: set the signal, then (Nudge) notify the dispatcher.
CancelRequest(r) ==
  /\ LoopFree(SessionOf[r])
  /\ r \in tracked \ cancelled
  /\ cancelled' = cancelled \cup {r}
  /\ nudging' = nudging \cup {SessionOf[r]}
  /\ UNCHANGED <<closed, sweeping, swept, tracked, nudged, stage, jobs, result, flightVars, work,
                 channel, cache, answer>>

\* cancel_all, by the socket writer when the connection fails: close ...
Close(s) ==
  /\ s \notin closed
  /\ closed' = closed \cup {s}
  /\ sweeping' = sweeping \cup {s}
  /\ UNCHANGED <<swept, tracked, cancelled, nudging, nudged, stage, jobs, result, flightVars, work,
                 channel, cache, answer>>

\* ... then cancel what is in flight, under the lock.
Sweep(s) ==
  /\ s \in sweeping
  /\ sweeping' = sweeping \ {s}
  /\ swept' = swept \cup {s}
  /\ LET live == (tracked \cap Of(s)) \ cancelled
     IN /\ cancelled' = cancelled \cup live
        /\ nudging' = IF live = {} THEN nudging ELSE nudging \cup {s}
  /\ UNCHANGED <<closed, tracked, nudged, stage, jobs, result, flightVars, work, channel, cache,
                 answer>>

Nudge(s) ==
  /\ s \in nudging
  /\ nudging' = nudging \ {s}
  /\ nudged' = TRUE
  /\ UNCHANGED <<closed, sweeping, swept, tracked, cancelled, stage, jobs, result, flightVars,
                 work, channel, cache, answer>>
-----------------------------------------------------------------------------
(* The product cache: every product counts alike, the oldest access goes.  *)

Cached == SetOf(cache)

\* What of q is in S, in the order of q: SelectSeq, by recursion on the prefixes
\* of q.
Kept(q, S) ==
  LET kept[n \in 0..Len(q)] ==
        IF n = 0 THEN <<>>
        ELSE IF q[n] \in S THEN Append(kept[n - 1], q[n])
        ELSE kept[n - 1]
  IN kept[Len(q)]

\* get: the products found become the newest, in the order of the request.
Touched(q, hits) == Kept(q, SetOf(q) \ SetOf(hits)) \o hits

\* insert: replace, then evict down to the limit.
Inserted(q, p) ==
  LET grown == Append(Kept(q, SetOf(q) \ {p}), p)
  IN SubSeq(grown, IF Len(grown) > CacheLimit THEN Len(grown) - CacheLimit + 1 ELSE 1, Len(grown))
-----------------------------------------------------------------------------
(* run_generation_dispatcher.  The branches are taken in any order: the    *)
(* biased select polls them one after another while the others change.     *)

\* Mutant: a pruned flight is not settled.
SettledBy_Not(r, fs) == 0

\* The flights of fs that lose their last waiter leave the table, and each
\* counts as settled for its generation.
SettledBy(r, fs) == Cardinality({f \in fs : producer[f] = r})

Pending == {r \in Request : stage[r] = "pending"}

Prune ==
  /\ nudged
  /\ nudged' = FALSE
  /\ LET gone == Pending \cap cancelled
         orphaned == {f \in Flight : producer[f] # Nobody /\ waiters[f] \subseteq gone}
     IN /\ stage' = [r \in Request |-> IF r \in gone THEN "settled" ELSE stage[r]]
        /\ Finish(gone)
        /\ waiters' = [f \in Flight |-> waiters[f] \ gone]
        /\ producer' = [f \in Flight |-> IF f \in orphaned THEN Nobody ELSE producer[f]]
        /\ work' = [r \in Request |-> [work[r] EXCEPT !.unsettled = @ - SettledBy(r, orphaned)]]
  /\ UNCHANGED <<closed, sweeping, swept, cancelled, nudging, jobs, result, channel, cache, answer>>

\* Mutant: a completion is matched by its product alone.
Matches_ByProduct(c) == producer[c.flight] # Nobody

\* Is this completion from the generation the flight waits for?
Matches(c) == producer[c.flight] = c.generation

Filled(r, p, o) == [result[r] EXCEPT ![p] = IF @ = Missing THEN o ELSE @]
Complete(items) == \A p \in DOMAIN items : items[p] # Missing

ReceiveCompletion ==
  /\ channel # <<>>
  /\ channel' = Tail(channel)
  /\ LET c == Head(channel)
         p == c.flight[1]
         g == producer[c.flight]
         fed == waiters[c.flight] \cap Pending
     IN \/ /\ ~Matches(c)
           /\ UNCHANGED <<waiters, producer, work, cache, result, stage>>
        \/ /\ Matches(c)
           /\ waiters' = [waiters EXCEPT ![c.flight] = {}]
           /\ producer' = [producer EXCEPT ![c.flight] = Nobody]
           /\ work' = [work EXCEPT ![g].unsettled = @ - 1]
           /\ cache' = IF c.outcome = "ok" THEN Inserted(cache, p) ELSE cache
           /\ result' = [r \in Request |-> IF r \in fed THEN Filled(r, p, c.outcome) ELSE result[r]]
           /\ stage' = [r \in Request |->
                IF r \in fed /\ Complete(Filled(r, p, c.outcome)) THEN "assembling" ELSE stage[r]]
  /\ UNCHANGED <<sessionVars, nudged, jobs, answer>>

\* A job cancelled before the dispatcher saw it.
DropJob ==
  /\ jobs # <<>> /\ Head(jobs) \in cancelled
  /\ jobs' = Tail(jobs)
  /\ Finish({Head(jobs)})
  /\ Move(Head(jobs), "settled")
  /\ UNCHANGED <<closed, sweeping, swept, cancelled, nudging, nudged, result, flightVars, work,
                 channel, cache, answer>>

\* Products come from the cache, from a flight that another batch started, or
\* from a new generation of what is left.
StartJob ==
  /\ jobs # <<>> /\ Head(jobs) \notin cancelled
  /\ jobs' = Tail(jobs)
  /\ LET r == Head(jobs)
         found == Kept(Wanted[r], Cached)
         hits == SetOf(found)
         Flying(p) == producer[FlightOf(r, p)] # Nobody
         misses == Kept(Wanted[r], {p \in SetOf(Wanted[r]) \ hits : ~Flying(p)})
         joined == {FlightOf(r, p) : p \in SetOf(Wanted[r]) \ hits}
         started == {FlightOf(r, p) : p \in SetOf(misses)}
     IN /\ result' = [result EXCEPT ![r] = [p \in DOMAIN @ |-> IF p \in hits THEN "ok" ELSE @[p]]]
        /\ cache' = Touched(cache, found)
        /\ Move(r, IF joined = {} THEN "assembling" ELSE "pending")
        /\ waiters' = [f \in Flight |-> IF f \in joined THEN waiters[f] \cup {r} ELSE waiters[f]]
        /\ producer' = [f \in Flight |-> IF f \in started THEN r ELSE producer[f]]
        /\ work' = IF misses = <<>> THEN work
                   ELSE [work EXCEPT ![r] = [step |-> "waiting", keys |-> misses, emitted |-> 0,
                                             unsettled |-> Len(misses), error |-> "failed"]]
  /\ UNCHANGED <<sessionVars, nudged, channel, answer>>
-----------------------------------------------------------------------------
(* generate_single_flight_products.  settle_product cancels a generation   *)
(* with its last unsettled product.                                        *)

Abandoned(r) == work[r].unsettled = 0
Running == {r \in Request : work[r].step \in {"running", "sending"}}
WorkUnchanged == UNCHANGED <<sessionVars, nudged, stage, jobs, result, flightVars, cache, answer>>

\* The permits arrive.
Generate(r) ==
  /\ work[r].step = "waiting" /\ ~Abandoned(r)
  /\ Cardinality(Running) < Workers
  /\ work' = [work EXCEPT ![r].step = "running"]
  /\ UNCHANGED channel /\ WorkUnchanged

\* Cancelled while it waits for permits, or between two products.
GiveUp(r) ==
  /\ work[r].step \in {"waiting", "running"} /\ work[r].emitted < Len(work[r].keys)
  /\ Abandoned(r)
  /\ work' = [work EXCEPT ![r].step = "failing", ![r].error = "world generation cancelled"]
  /\ UNCHANGED channel /\ WorkUnchanged

\* The source fails before the first product is emitted.
Fail(r) ==
  /\ work[r].step = "running" /\ work[r].emitted = 0
  /\ work' = [work EXCEPT ![r].step = "failing"]
  /\ UNCHANGED channel /\ WorkUnchanged

\* emit, first half: the cancellation check.
Emit(r) ==
  /\ work[r].step = "running" /\ ~Abandoned(r)
  /\ work[r].emitted < Len(work[r].keys)
  /\ work' = [work EXCEPT ![r].step = "sending"]
  /\ UNCHANGED channel /\ WorkUnchanged

Completion(r, o) ==
  [generation |-> r, flight |-> FlightOf(r, work[r].keys[work[r].emitted + 1]), outcome |-> o]

\* emit, second half: blocking_send waits for room.
Send(r) ==
  /\ work[r].step = "sending"
  /\ Len(channel) < ChannelLimit
  /\ channel' = Append(channel, Completion(r, "ok"))
  /\ work' = [work EXCEPT ![r].step = "running", ![r].emitted = @ + 1]
  /\ WorkUnchanged

\* Mutant: a failed generation reports nothing.
SendError_Silent(r) ==
  /\ work[r].step = "failing"
  /\ work[r].emitted < Len(work[r].keys)
  /\ work' = [work EXCEPT ![r].emitted = @ + 1]
  /\ UNCHANGED channel /\ WorkUnchanged

\* send_generation_errors, for the products not emitted.
SendError(r) ==
  /\ work[r].step = "failing"
  /\ work[r].emitted < Len(work[r].keys)
  /\ Len(channel) < ChannelLimit
  /\ channel' = Append(channel, Completion(r, work[r].error))
  /\ work' = [work EXCEPT ![r].emitted = @ + 1]
  /\ WorkUnchanged

Return(r) ==
  /\ work[r].step \in {"running", "failing"}
  /\ work[r].emitted = Len(work[r].keys)
  /\ work' = [work EXCEPT ![r].step = "done"]
  /\ UNCHANGED channel /\ WorkUnchanged
-----------------------------------------------------------------------------
(* assemble_and_deliver_generation_batch: the first failure, or the batch. *)
(* The socket writer finishes the request with its last frame.             *)

Deliver(r) ==
  /\ stage[r] = "assembling"
  /\ \/ /\ r \in cancelled
        /\ UNCHANGED answer
     \/ /\ r \notin cancelled
        /\ \E o \in Outcome :
             /\ IF o = "ok" THEN \A p \in DOMAIN result[r] : result[r][p] = "ok"
                ELSE \E p \in DOMAIN result[r] : result[r][p] = o
             /\ answer' = [answer EXCEPT ![r] = o]
  /\ Finish({r})
  /\ Move(r, "settled")
  /\ UNCHANGED <<closed, sweeping, swept, cancelled, nudging, nudged, jobs, result, flightVars,
                 work, channel, cache>>
-----------------------------------------------------------------------------
Dispatch == Prune \/ ReceiveCompletion \/ DropJob \/ StartJob
Produce(r) == Generate(r) \/ GiveUp(r) \/ Fail(r) \/ Emit(r) \/ Send(r) \/ SendError(r) \/ Return(r)
Admit(r) == Insert(r) \/ Enqueue(r)

Stopped ==
  /\ \A r \in Request : stage[r] \in {"refused", "settled"} /\ work[r].step \in {"none", "done"}
  /\ channel = <<>>
  /\ UNCHANGED vars

Next ==
  \/ Dispatch
  \/ \E r \in Request : CheckOpen(r) \/ Admit(r) \/ CancelRequest(r) \/ Produce(r) \/ Deliver(r)
  \/ \E s \in Session : Close(s) \/ Sweep(s) \/ Nudge(s)
  \/ Stopped

Spec == Init /\ [][Next]_vars

\* Tasks that can run do run: generation ends, permits come round
\* (GenerationLimiter), and the dispatcher takes each ready branch in turn.
\* Nothing makes a client send, cancel or disconnect.
FairSpec ==
  /\ Spec
  /\ WF_vars(Prune) /\ WF_vars(ReceiveCompletion) /\ WF_vars(DropJob \/ StartJob)
  /\ \A r \in Request : WF_vars(Admit(r)) /\ WF_vars(Produce(r)) /\ WF_vars(Deliver(r))
  /\ \A s \in Session : WF_vars(Sweep(s)) /\ WF_vars(Nudge(s))
-----------------------------------------------------------------------------
(* Properties                                                              *)

\* What flight f's generation has yet to report about it.
Promised(f) ==
  LET g == producer[f]
  IN \/ \E i \in DOMAIN channel : channel[i].generation = g /\ channel[i].flight = f
     \/ /\ work[g].step \in {"waiting", "running", "sending", "failing"}
        /\ \E i \in work[g].emitted + 1 .. Len(work[g].keys) : FlightOf(g, work[g].keys[i]) = f

\* Every product a batch still lacks is on a flight that lists the batch, and
\* the flight's generation will still report it: sharing, pruning and failing
\* leave no batch waiting for a completion that nobody sends.
NobodyWaitsInVain ==
  \A r \in Pending : \A p \in DOMAIN result[r] : result[r][p] = Missing =>
    LET f == FlightOf(r, p)
    IN r \in waiters[f] /\ producer[f] # Nobody /\ Promised(f)

\* A generation is cancelled exactly when none of its flights is left: never
\* under a batch that joined it, and at once when the last one leaves.
CancelledOnlyWhenOrphaned ==
  \A r \in Request : work[r].unsettled = Cardinality({f \in Flight : producer[f] = r})

\* Both: a flight and its generation are there for exactly those who wait.
FlightsServeTheirWaiters == NobodyWaitsInVain /\ CancelledOnlyWhenOrphaned

\* Nobody who still wants an answer is told that generation was cancelled,
\* whoever else cancelled whatever it shared a flight with.
NoForeignCancellation ==
  \A r \in Request : answer[r] # "world generation cancelled"

\* The comment in insert: no uncancelled request appears after the closing
\* sweep.
SweptStaysSwept ==
  \A s \in swept : tracked \cap Of(s) \subseteq cancelled

\* Every admitted request leaves the window in the end, answered or cancelled.
EveryRequestSettles ==
  \A r \in Request : r \in tracked ~> r \notin tracked
=============================================================================
