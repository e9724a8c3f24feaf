------------------------- MODULE GenerationLimiter -------------------------
(***************************************************************************)
(* Admission of blocking world generation: PriorityGenerationLimiter of    *)
(* world-service/src/generation_limiter.rs.                                *)
(*                                                                         *)
(* A caller is one call of acquire and its permit.  The limiter's          *)
(* mutex and the wait list of each lane's Notify are taken one after       *)
(* another, never together, so every critical section is an action of its  *)
(* own and any other caller may run between two of them.  Callers drop the *)
(* acquire future when their request is cancelled (server.rs, select!),    *)
(* which can happen wherever the future awaits.                            *)
(***************************************************************************)
EXTENDS Naturals, Sequences, FiniteSets

CONSTANTS
  Caller,        \* concurrent callers of acquire
  Capacity,      \* generation_workers
  MaxImmediate,  \* MAX_CONSECUTIVE_IMMEDIATE_GRANTS
  Calls          \* which caller asks for which lane

Lane == {"collision", "immediate", "ordinary"}

ASSUME LimiterAssumption ==
  /\ IsFiniteSet(Caller)
  /\ Capacity \in Nat \ {0}
  /\ MaxImmediate \in Nat
  /\ Calls \subseteq Caller \X Lane

VARIABLES
  available,     \* State: permits not handed out
  laneWaiters,   \* State: registered waiters of each lane
  consecutive,   \* State: consecutive_immediate_grants
  queue,         \* Notify of each lane: callers waiting, oldest first
  stored,        \* Notify of each lane: a notification kept for the next waiter
  notified,      \* callers removed from a queue whose future was not polled since
  place,         \* where each caller is
  lane,          \* GenerationLane of each caller
  wake,          \* what a caller's call of signal decided
  overtaken      \* history: immediate grants a waiting ordinary caller has seen
                 \* since it came or since its lane was served

state == <<available, laneWaiters, consecutive>>
notify == <<queue, stored, notified>>
limiterVars == <<state, notify, place, lane, wake, overtaken>>

Unregistered == {"idle", "acquired", "settling", "holding", "released", "left"}
Registered == {"counted", "enabled", "parked", "cancelled"}
Signalling == {"acquired", "released", "left"}

WaitingIn(l) == {t \in Caller : place[t] \in Registered /\ lane[t] = l}
Holders == {t \in Caller : place[t] \in {"acquired", "settling", "holding"}}

GoTo(t, s) == place' = [place EXCEPT ![t] = s]

LimiterInit ==
  /\ available = Capacity
  /\ laneWaiters = [l \in Lane |-> 0]
  /\ consecutive = 0
  /\ queue = [l \in Lane |-> <<>>]
  /\ stored = [l \in Lane |-> FALSE]
  /\ notified = {}
  /\ place = [t \in Caller |-> "idle"]
  /\ lane = [t \in Caller |-> "ordinary"]
  /\ wake = [t \in Caller |-> "undecided"]
  /\ overtaken = [t \in Caller |-> 0]
-----------------------------------------------------------------------------
(* tokio's Notify.                                                         *)

\* notify_one: the oldest waiter, or a notification kept for the next one.
\* The callers in rest stay notified.
NotifyOne(l, rest) ==
  \/ /\ queue[l] # <<>>
     /\ notified' = rest \cup {Head(queue[l])}
     /\ queue' = [queue EXCEPT ![l] = Tail(@)]
     /\ UNCHANGED stored
  \/ /\ queue[l] = <<>>
     /\ notified' = rest
     /\ stored' = [stored EXCEPT ![l] = TRUE]
     /\ UNCHANGED queue

InQueue(t) == \E i \in DOMAIN queue[lane[t]] : queue[lane[t]][i] = t

Without(q, i) == SubSeq(q, 1, i - 1) \o SubSeq(q, i + 1, Len(q))

\* Dropping a Notified: it leaves the queue, and a notification it was given
\* and did not take passes to the next waiter.
DropNotified(t) ==
  \/ /\ t \in notified
     /\ NotifyOne(lane[t], notified \ {t})
  \/ /\ t \notin notified
     /\ \E i \in DOMAIN queue[lane[t]] :
          /\ queue[lane[t]][i] = t
          /\ queue' = [queue EXCEPT ![lane[t]] = Without(@, i)]
     /\ UNCHANGED <<stored, notified>>
  \/ /\ t \notin notified /\ ~InQueue(t)
     /\ UNCHANGED notify
-----------------------------------------------------------------------------
(* The decisions taken under the limiter's mutex.                          *)

\* Mutant: the immediate lane never has to let ordinary work pass.
Eligible_NoTurn(l) ==
  /\ available > 0
  /\ l # "collision" => laneWaiters["collision"] = 0
  /\ l = "ordinary" => laneWaiters["immediate"] = 0 \/ consecutive >= MaxImmediate

\* try_acquire: may a waiter of the lane take a permit?
Eligible(l) ==
  /\ available > 0
  /\ l # "collision" => laneWaiters["collision"] = 0
  /\ l = "immediate" => laneWaiters["ordinary"] = 0 \/ consecutive < MaxImmediate
  /\ l = "ordinary" => laneWaiters["immediate"] = 0 \/ consecutive >= MaxImmediate

\* Mutant: signal wakes immediate work as long as there is any.
LaneToWake_NoTurn(l) ==
  /\ available > 0
  /\ laneWaiters[l] > 0
  /\ l # "collision" => laneWaiters["collision"] = 0
  /\ l = "ordinary" => laneWaiters["immediate"] = 0

\* signal: the lane that is woken, if any.
LaneToWake(l) ==
  /\ available > 0
  /\ laneWaiters[l] > 0
  /\ l # "collision" => laneWaiters["collision"] = 0
  /\ l = "immediate" => laneWaiters["ordinary"] = 0 \/ consecutive < MaxImmediate
  /\ l = "ordinary" => laneWaiters["immediate"] = 0 \/ consecutive >= MaxImmediate

\* The turn counter after a grant to lane l.
ConsecutiveAfter(l) ==
  CASE l = "collision" -> consecutive
    [] l = "ordinary" -> 0
    [] l = "immediate" -> IF laneWaiters["ordinary"] = 0 THEN 0
                          ELSE IF consecutive < MaxImmediate THEN consecutive + 1
                               ELSE MaxImmediate
-----------------------------------------------------------------------------
(* acquire                                                                 *)

\* Waiter::new.
Arrive(t, l) ==
  /\ place[t] = "idle"
  /\ <<t, l>> \in Calls
  /\ lane' = [lane EXCEPT ![t] = l]
  /\ laneWaiters' = [laneWaiters EXCEPT ![l] = @ + 1]
  /\ overtaken' = [overtaken EXCEPT ![t] = 0]
  /\ GoTo(t, "counted")
  /\ UNCHANGED <<available, consecutive, notify, wake>>

\* ready.enable(): take a kept notification, or join the queue.
Enable(t) ==
  /\ place[t] = "counted"
  /\ \/ /\ stored[lane[t]]
        /\ stored' = [stored EXCEPT ![lane[t]] = FALSE]
        /\ UNCHANGED queue
     \/ /\ ~stored[lane[t]]
        /\ queue' = [queue EXCEPT ![lane[t]] = Append(@, t)]
        /\ UNCHANGED stored
  /\ GoTo(t, "enabled")
  /\ UNCHANGED <<state, notified, lane, wake, overtaken>>

Grant(t) ==
  /\ place[t] = "enabled"
  /\ Eligible(lane[t])
  /\ available' = available - 1
  /\ laneWaiters' = [laneWaiters EXCEPT ![lane[t]] = @ - 1]
  /\ consecutive' = ConsecutiveAfter(lane[t])
  /\ overtaken' = [u \in Caller |->
       CASE lane[t] = "ordinary" -> 0
         [] lane[t] = "immediate" /\ u \in WaitingIn("ordinary") -> overtaken[u] + 1
         [] OTHER -> overtaken[u]]
  /\ GoTo(t, "acquired")
  /\ UNCHANGED <<notify, lane, wake>>

\* try_acquire failed; a future that took a kept notification is ready at
\* once and the loop starts over, any other one waits in its queue.
Decline(t) ==
  /\ place[t] = "enabled"
  /\ ~Eligible(lane[t])
  /\ GoTo(t, IF t \in notified \/ InQueue(t) THEN "parked" ELSE "counted")
  /\ UNCHANGED <<state, notify, lane, wake, overtaken>>

\* The awaited future completes and the loop starts over.
Wake(t) ==
  /\ place[t] = "parked"
  /\ t \in notified
  /\ notified' = notified \ {t}
  /\ GoTo(t, "counted")
  /\ UNCHANGED <<state, queue, stored, lane, wake, overtaken>>

\* The permit is returned: the loop's future is dropped after the signal.
Settle(t) ==
  /\ place[t] = "settling"
  /\ DropNotified(t)
  /\ GoTo(t, "holding")
  /\ UNCHANGED <<state, lane, wake, overtaken>>

\* Mutant: a cancelled waiter stays registered (no Drop for Waiter).
Cancel_StaysRegistered(t) ==
  /\ place[t] = "parked"
  /\ DropNotified(t)
  /\ GoTo(t, "idle")
  /\ UNCHANGED <<state, lane, wake, overtaken>>

\* The acquire future is dropped while it awaits: first its Notified ...
Cancel(t) ==
  /\ place[t] = "parked"
  /\ DropNotified(t)
  /\ GoTo(t, "cancelled")
  /\ UNCHANGED <<state, lane, wake, overtaken>>

\* Mutant: a cancelled waiter does not signal.
Leave_Silent(t) ==
  /\ place[t] = "cancelled"
  /\ laneWaiters' = [laneWaiters EXCEPT ![lane[t]] = @ - 1]
  /\ GoTo(t, "idle")
  /\ UNCHANGED <<available, consecutive, notify, lane, wake, overtaken>>

\* ... then its Waiter.
Leave(t) ==
  /\ place[t] = "cancelled"
  /\ laneWaiters' = [laneWaiters EXCEPT ![lane[t]] = @ - 1]
  /\ GoTo(t, "left")
  /\ UNCHANGED <<available, consecutive, notify, lane, wake, overtaken>>

\* Dropping a PriorityGenerationPermit.
Release(t) ==
  /\ place[t] = "holding"
  /\ available' = available + 1
  /\ GoTo(t, "released")
  /\ UNCHANGED <<laneWaiters, consecutive, notify, lane, wake, overtaken>>

\* signal, first half: decide under the mutex, then let it go.
Decide(t) ==
  /\ place[t] \in Signalling
  /\ wake[t] = "undecided"
  /\ \/ \E l \in Lane : LaneToWake(l) /\ wake' = [wake EXCEPT ![t] = l]
     \/ /\ \A l \in Lane : ~LaneToWake(l)
        /\ wake' = [wake EXCEPT ![t] = "none"]
  /\ UNCHANGED <<state, notify, place, lane, overtaken>>

\* signal, second half: notify what was decided.
NotifyLane(t) ==
  /\ place[t] \in Signalling
  /\ wake[t] # "undecided"
  /\ \/ wake[t] \in Lane /\ NotifyOne(wake[t], notified)
     \/ wake[t] = "none" /\ UNCHANGED notify
  /\ wake' = [wake EXCEPT ![t] = "undecided"]
  /\ GoTo(t, IF place[t] = "acquired" THEN "settling" ELSE "idle")
  /\ UNCHANGED <<state, lane, overtaken>>

\* What a caller does by itself once it has called acquire.
Progress(t) ==
  \/ Enable(t) \/ Grant(t) \/ Decline(t) \/ Wake(t) \/ Settle(t)
  \/ Leave(t) \/ Release(t) \/ Decide(t) \/ NotifyLane(t)

LimiterNext ==
  \E t \in Caller : \/ \E l \in Lane : Arrive(t, l)
                  \/ Cancel(t)
                  \/ Progress(t)

LimiterSpec == LimiterInit /\ [][LimiterNext]_limiterVars

\* The runtime polls every ready task and generation terminates; nothing
\* makes a caller arrive or give up.
FairLimiterSpec == LimiterSpec /\ \A t \in Caller : WF_limiterVars(Progress(t))
-----------------------------------------------------------------------------
(* Properties                                                              *)

\* Every variable has its type; the counters of State never underflow.
LimiterTypeOK ==
  /\ available \in 0..Capacity
  /\ laneWaiters \in [Lane -> Nat]
  /\ consecutive \in 0..MaxImmediate
  /\ queue \in [Lane -> Seq(Caller)]
  /\ stored \in [Lane -> BOOLEAN]
  /\ notified \subseteq Caller
  /\ place \in [Caller -> Registered \cup Unregistered]
  /\ lane \in [Caller -> Lane]
  /\ wake \in [Caller -> Lane \cup {"undecided", "none"}]
  /\ overtaken \in [Caller -> Nat]

\* The counters a waiter or permit adjusts on each of its exits, cancelled or
\* not, count exactly the registered waiters and the permits in use, so no
\* more than Capacity generations ever run (the debug_assert of Drop).
CountersAreExact ==
  /\ available + Cardinality(Holders) = Capacity
  /\ \A l \in Lane : laneWaiters[l] = Cardinality(WaitingIn(l))

\* MAX_CONSECUTIVE_IMMEDIATE_GRANTS bounds how often immediate work passes a
\* waiting ordinary task before the ordinary lane gets its turn, also when
\* the turn counter is left over from earlier waiters.
BoundedBypass ==
  \A t \in WaitingIn("ordinary") : overtaken[t] <= MaxImmediate

NoArrival(L) == <>[][\A t \in Caller, l \in L : ~Arrive(t, l)]_limiterVars

\* Immediate work that never stops arriving does not starve the ordinary lane
\* (the comment above MAX_CONSECUTIVE_IMMEDIATE_GRANTS).
OrdinaryLaneIsServed ==
  NoArrival({"collision"}) =>
    (laneWaiters["ordinary"] > 0 ~>
       \/ laneWaiters["ordinary"] = 0
       \/ \E t \in Caller : place[t] = "acquired" /\ lane[t] = "ordinary")

\* No wake-up is lost (the comment in acquire): every call of acquire ends
\* with a permit or is cancelled once callers stop coming, and the ordinary
\* lane is served even if immediate work never stops.
EveryWaiterIsServed ==
  /\ OrdinaryLaneIsServed
  /\ NoArrival(Lane) => \A t \in Caller : place[t] \in Registered ~> place[t] \notin Registered
=============================================================================
