----------------------------- MODULE WorldSocket -----------------------------
(***************************************************************************)
(* The world socket from end to end: the browser's bounded window of       *)
(* pending product requests with its timers and reconnects, the session's  *)
(* admission of requests, the tasks that answer them, the writer that      *)
(* paces answers in fragments, and the browser's reassembler.              *)
(*                                                                         *)
(* One player, one tab.  A request is its id and its rank, an answer its   *)
(* length in pacing quanta; what is computed is not modelled.  The session *)
(* and its socket live and die together: when the client lets a socket go, *)
(* nothing its session still does can reach anybody.                       *)
(***************************************************************************)
EXTENDS Integers, Sequences, FiniteSets

CONSTANTS
  None,
  Rank,            \* the request_window_rank of the requests made, within 0 .. 3
  Window,          \* the negotiated max_in_flight_batches
  SettlingWindows, \* MAX_SETTLING_WINDOWS
  MaxTransfers,    \* MAX_ACTIVE_TRANSFERS
  Length,          \* the lengths of an answer
  Pace,            \* the fragment sizes the traffic shaper may choose
  AttemptLimit,    \* reconnect_attempt_limit
  MaxRequests,     \* bound on the requests of the client
  MaxDrops,        \* bound on the failures of the socket
  MaxPaces         \* bound on the changes of pace

Id == 1 .. MaxRequests
Lane == {"critical", "collision", "visible", "background"}
ConnectionState == {"connecting", "handshaking", "open", "waiting", "failed", "closed"}

ASSUME WorldSocketAssumption ==
  /\ Rank \subseteq 0 .. 3
  /\ None \notin Rank \cup Id \cup Nat
  /\ Window \in Nat \ {0} /\ SettlingWindows \in Nat \ {0} /\ MaxTransfers \in Nat
  /\ Length \subseteq Nat \ {0} /\ Pace \subseteq Nat \ {0} /\ Pace # {}
  /\ AttemptLimit \in Nat /\ MaxRequests \in Nat /\ MaxDrops \in Nat /\ MaxPaces \in Nat

VARIABLES
  state,       \* ConnectionState of the client
  generation,  \* how many sockets it has opened
  attempts,    \* reconnect_attempts
  timers,      \* armed timers: what they are for, of which id, armed under which generation
  pending,     \* [Id -> the rank of a request the client waits for, or None]
  nextId,      \* next_request_id
  partial,     \* the frame reassembler: transfers under way
  toServer,    \* requests and cancels on the socket, oldest first
  toClient,    \* frames, fragments and aborts on the socket, oldest first
  inflight,    \* [Id -> "free", "live" or "cancelled"], SessionRequests::in_flight
  tasks,       \* [id, rank] of the tasks that have not queued their answer
  lanes,       \* [Lane -> frames waiting for the writer, oldest first]
  transferId,  \* next_fragment_transfer_id
  releasing,   \* the id whose answer the writer has sent and not yet finished, or None
  pace,        \* the fragment size the shaper allows now
  drops,       \* failures of the socket so far
  paces        \* changes of pace so far

client == <<state, generation, attempts, timers, pending, nextId, partial>>
wires == <<toServer, toClient>>
session == <<inflight, tasks, lanes, transferId, releasing>>
env == <<pace, drops, paces>>
vars == <<client, wires, session, env>>

------------------------------------------------------------------------------
Pending == {id \in Id : pending[id] # None}
Live == {id \in Id : inflight[id] = "live"}
Held == {id \in Id : inflight[id] # "free"}

\* traffic_priority: the lane of an answer.
LaneOf(rank) ==
  CASE rank = 0 -> "collision" [] rank = 3 -> "background" [] OTHER -> "visible"

RequestMsg(id, rank) == [kind |-> "request", id |-> id, rank |-> rank]
CancelMsg(id) == [kind |-> "cancel", id |-> id, rank |-> None]

\* Only answers hold a slot of the window and can be cancelled.
Frame(id, total, tracked) ==
  [id |-> id, total |-> total, offset |-> 0, transfer |-> None, tracked |-> tracked]

Wire(kind, f, transfer, len) ==
  [kind |-> kind, id |-> f.id, transfer |-> transfer, total |-> f.total,
   offset |-> f.offset, len |-> len]

Timer(kind, key, born) == [kind |-> kind, key |-> key, born |-> born]

\* The shaper of a new connection starts at the floor of its rate.
Floor == CHOOSE slow \in Pace : \A other \in Pace : slow <= other

FreshSession ==
  /\ pace' = Floor
  /\ inflight' = [id \in Id |-> "free"]
  /\ tasks' = {}
  /\ lanes' = [l \in Lane |-> <<>>]
  /\ transferId' = 1
  /\ releasing' = None

Init ==
  /\ state = "connecting" /\ generation = 1 /\ attempts = 0
  /\ timers = {Timer("dial", 1, 1)}
  /\ pending = [id \in Id |-> None] /\ nextId = 1 /\ partial = {}
  /\ toServer = <<>> /\ toClient = <<>>
  /\ inflight = [id \in Id |-> "free"] /\ tasks = {}
  /\ lanes = [l \in Lane |-> <<>>] /\ transferId = 1 /\ releasing = None
  /\ pace = Floor /\ drops = 0 /\ paces = 0

------------------------------------------------------------------------------
(* The client's connection.                                                *)

\* detach_socket: nothing of the old socket is heard any more.
DetachSocket ==
  /\ partial' = {}
  /\ toServer' = <<>> /\ toClient' = <<>>
  /\ FreshSession

\* disconnect(generation, error), with `tried` failed attempts behind it: every
\* request fails, and the client waits for another attempt or gives up.
Disconnect(tried, armed) ==
  /\ DetachSocket
  /\ pending' = [id \in Id |-> None]
  /\ IF tried + 1 > AttemptLimit
     THEN /\ state' = "failed"
          /\ attempts' = tried
          /\ timers' = armed
     ELSE /\ state' = "waiting"
          /\ attempts' = tried + 1
          /\ timers' = armed \cup {Timer("reconnect", tried + 1, generation)}
  /\ UNCHANGED <<generation, nextId>>

\* handle_open: the OpenWorld goes out.
HandleOpen ==
  /\ state = "connecting"
  /\ state' = "handshaking"
  /\ UNCHANGED <<generation, attempts, timers, pending, nextId, partial, wires, session, env>>

\* handle_world_opened.
HandleWorldOpened ==
  /\ state = "handshaking"
  /\ state' = "open"
  /\ attempts' = 0
  /\ UNCHANGED <<generation, timers, pending, nextId, partial, wires, session, env>>

\* The world behind the endpoint is not the one this client first opened.
HandleOtherWorld ==
  /\ state = "handshaking"
  /\ generation > 1
  /\ Disconnect(AttemptLimit, timers)
  /\ UNCHANGED <<drops, paces>>

SocketFails ==
  /\ drops < MaxDrops
  /\ state \in {"connecting", "handshaking", "open"}
  /\ drops' = drops + 1
  /\ Disconnect(attempts, timers)
  /\ UNCHANGED paces

\* close(): the client is dropped by its owner.
Close ==
  /\ state # "closed"
  /\ state' = "closed"
  /\ generation' = generation + 1
  /\ DetachSocket
  /\ pending' = [id \in Id |-> None]
  /\ UNCHANGED <<attempts, timers, nextId, drops, paces>>

------------------------------------------------------------------------------
(* Requests and their cancellation.                                        *)

\* priority_preemption_candidate: the newest request of the least valuable class
\* below the incoming one, or None.
Candidate(rank) ==
  LET lower == {id \in Pending : pending[id] > rank}
      newest == {id \in lower : \A other \in lower :
                    \/ pending[id] > pending[other]
                    \/ pending[id] = pending[other] /\ id >= other}
  IN IF lower = {} THEN None ELSE CHOOSE id \in newest : TRUE

Without(ids) == [id \in Id |-> IF id \in ids THEN None ELSE pending[id]]

\* Mutant: the preempted request is cancelled after its replacement is sent.
Submit_RequestFirst(rank) ==
  LET full == Cardinality(Pending) >= Window
      victim == Candidate(rank)
  IN /\ state = "open"
     /\ nextId <= MaxRequests
     /\ full => victim # None
     /\ nextId' = nextId + 1
     /\ pending' = [Without(IF full THEN {victim} ELSE {}) EXCEPT ![nextId] = rank]
     /\ timers' = timers \cup {Timer("request", nextId, generation)}
     /\ toServer' = toServer \o <<RequestMsg(nextId, rank)>>
                      \o (IF full THEN <<CancelMsg(victim)>> ELSE <<>>)
     /\ UNCHANGED <<state, generation, attempts, partial, toClient, session, env>>

\* send_*_request with ensure_request_window: a full window makes room by
\* cancelling the candidate first, on the same ordered socket.
Submit(rank) ==
  LET full == Cardinality(Pending) >= Window
      victim == Candidate(rank)
      ended == IF full THEN {victim} ELSE {}
      cancels == IF full THEN <<CancelMsg(victim)>> ELSE <<>>
  IN /\ state = "open"
     /\ nextId <= MaxRequests
     /\ full => victim # None
     /\ nextId' = nextId + 1
     /\ \/ /\ pending' = [Without(ended) EXCEPT ![nextId] = rank]
           /\ timers' = timers \cup {Timer("request", nextId, generation)}
           /\ toServer' = toServer \o cancels \o <<RequestMsg(nextId, rank)>>
        \* no timer could be armed: the request is taken back
        \/ /\ pending' = Without(ended)
           /\ timers' = timers
           /\ toServer' = toServer \o cancels \o <<RequestMsg(nextId, rank), CancelMsg(nextId)>>
     /\ UNCHANGED <<state, generation, attempts, partial, toClient, session, env>>

\* cancel, cancel_chunk_batches_outside, cancel_terrain_page_batches_outside.
Cancel(id) ==
  /\ state = "open"
  /\ id \in Pending
  /\ pending' = Without({id})
  /\ toServer' = Append(toServer, CancelMsg(id))
  /\ UNCHANGED <<state, generation, attempts, timers, nextId, partial, toClient, session, env>>

------------------------------------------------------------------------------
(* Timers.  Nothing disarms one: it fires, and finds out whether its time  *)
(* has passed.                                                             *)

\* Mutant: the server is not told.
TimeoutRequest_Silent(t) ==
  /\ t.kind = "request"
  /\ timers' = timers \ {t}
  /\ pending' = Without({t.key})
  /\ UNCHANGED <<state, generation, attempts, nextId, partial, wires, session, env>>

TimeoutRequest(t) ==
  /\ t.kind = "request"
  /\ timers' = timers \ {t}
  /\ IF t.key \in Pending
     THEN /\ pending' = Without({t.key})
          /\ toServer' = Append(toServer, CancelMsg(t.key))
     ELSE UNCHANGED <<pending, toServer>>
  /\ UNCHANGED <<state, generation, attempts, nextId, partial, toClient, session, env>>

\* The timer of open_socket: the handshake took too long.
DialIsLate(t) == generation = t.key /\ state \in {"connecting", "handshaking"}

TimeoutDial(t) ==
  /\ t.kind = "dial"
  /\ IF DialIsLate(t)
     THEN Disconnect(attempts, timers \ {t})
     ELSE /\ timers' = timers \ {t}
          /\ UNCHANGED <<state, generation, attempts, pending, nextId, partial, wires, session, pace>>
  /\ UNCHANGED <<drops, paces>>

\* The timer of disconnect: open_socket again.
ReconnectIsDue(t) == state = "waiting" /\ attempts = t.key

Reconnect(t) ==
  /\ t.kind = "reconnect"
  /\ IF ReconnectIsDue(t)
     THEN /\ state' = "connecting"
          /\ generation' = generation + 1
          /\ timers' = (timers \ {t}) \cup {Timer("dial", generation + 1, generation + 1)}
          /\ DetachSocket
     ELSE /\ timers' = timers \ {t}
          /\ UNCHANGED <<state, generation, partial, wires, session, pace>>
  /\ UNCHANGED <<attempts, pending, nextId, drops, paces>>

------------------------------------------------------------------------------
(* The session reads the socket in order and admits requests.              *)

Admission(id) ==
  IF inflight[id] # "free" THEN "duplicate"
  ELSE IF Cardinality(Held) >= Window * SettlingWindows THEN "backlog"
  ELSE IF Cardinality(Live) >= Window THEN "full"
  ELSE "admitted"

Refuse(id) == lanes' = [lanes EXCEPT !["critical"] = Append(@, Frame(id, 1, FALSE))]

ReadRequest ==
  LET m == Head(toServer)
  IN /\ toServer # <<>> /\ m.kind = "request"
     /\ toServer' = Tail(toServer)
     /\ \/ /\ Admission(m.id) = "admitted"
           /\ inflight' = [inflight EXCEPT ![m.id] = "live"]
           /\ tasks' = tasks \cup {[id |-> m.id, rank |-> m.rank]}
           /\ UNCHANGED lanes
        \* refused, or the queue of the generator is full and the slot is given back
        \/ /\ Refuse(m.id)
           /\ UNCHANGED <<inflight, tasks>>
     /\ UNCHANGED <<client, toClient, transferId, releasing, env>>

ReadCancel ==
  LET m == Head(toServer)
  IN /\ toServer # <<>> /\ m.kind = "cancel"
     /\ toServer' = Tail(toServer)
     /\ inflight' = [inflight EXCEPT ![m.id] = IF @ = "live" THEN "cancelled" ELSE @]
     /\ UNCHANGED <<client, toClient, tasks, lanes, transferId, releasing, env>>

\* A task sees the cancellation wherever it waits, and drops its request.
TaskQuits(task) ==
  /\ task \in tasks
  /\ inflight[task.id] = "cancelled"
  /\ tasks' = tasks \ {task}
  /\ inflight' = [inflight EXCEPT ![task.id] = "free"]
  /\ UNCHANGED <<client, wires, lanes, transferId, releasing, env>>

\* GenerationFrameDelivery::send, the terminal frame.
TaskAnswers(task) ==
  /\ task \in tasks
  /\ inflight[task.id] = "live"
  /\ tasks' = tasks \ {task}
  /\ \E total \in Length :
       lanes' = [lanes EXCEPT ![LaneOf(task.rank)] = Append(@, Frame(task.id, total, TRUE))]
  /\ UNCHANGED <<client, wires, inflight, transferId, releasing, env>>

------------------------------------------------------------------------------
(* The writer.  The shaper decides which lane goes next; any lane may.     *)

Cancelled(f) == f.tracked /\ inflight[f.id] = "cancelled"

\* Mutant: the dropped frame keeps its slot.
DropCancelled_Held(l) ==
  LET f == Head(lanes[l])
  IN /\ releasing = None
     /\ lanes[l] # <<>> /\ Cancelled(f)
     /\ lanes' = [lanes EXCEPT ![l] = Tail(@)]
     /\ toClient' = IF f.transfer = None THEN toClient
                    ELSE Append(toClient, Wire("abort", f, f.transfer, 0))
     /\ UNCHANGED <<client, toServer, inflight, tasks, transferId, releasing, env>>

\* A cancelled frame at the head of a lane is dropped, its transfer aborted.
DropCancelled(l) ==
  LET f == Head(lanes[l])
  IN /\ releasing = None
     /\ lanes[l] # <<>> /\ Cancelled(f)
     /\ lanes' = [lanes EXCEPT ![l] = Tail(@)]
     /\ toClient' = IF f.transfer = None THEN toClient
                    ELSE Append(toClient, Wire("abort", f, f.transfer, 0))
     /\ inflight' = [inflight EXCEPT ![f.id] = "free"]
     /\ UNCHANGED <<client, toServer, tasks, transferId, releasing, env>>

\* take_next_wire without fragments: the whole frame.
SendWhole(l, f) ==
  /\ toClient' = Append(toClient, Wire("frame", f, None, f.total))
  /\ lanes' = [lanes EXCEPT ![l] = Tail(@)]
  /\ releasing' = IF f.tracked THEN f.id ELSE None
  /\ UNCHANGED transferId

\* take_next_wire: the next fragment; an unfinished frame keeps its turn.
SendFragment(l, f) ==
  LET transfer == IF f.transfer = None THEN transferId ELSE f.transfer
      len == IF f.total - f.offset < pace THEN f.total - f.offset ELSE pace
      rest == [f EXCEPT !.offset = f.offset + len, !.transfer = transfer]
      complete == f.offset + len = f.total
  IN /\ toClient' = Append(toClient, Wire("fragment", f, transfer, len))
     /\ transferId' = IF f.transfer = None THEN transferId + 1 ELSE transferId
     /\ lanes' = [lanes EXCEPT ![l] = (IF complete THEN <<>> ELSE <<rest>>) \o Tail(@)]
     /\ releasing' = IF complete /\ f.tracked THEN f.id ELSE None

Send(l) ==
  LET f == Head(lanes[l])
  IN /\ releasing = None
     /\ lanes[l] # <<>> /\ ~Cancelled(f)
     /\ IF f.total > pace THEN SendFragment(l, f) ELSE SendWhole(l, f)
     /\ UNCHANGED <<client, toServer, inflight, tasks, env>>

\* The slot is released only after the socket took the last byte.
Release ==
  /\ releasing # None
  /\ inflight' = [inflight EXCEPT ![releasing] = "free"]
  /\ releasing' = None
  /\ UNCHANGED <<client, wires, tasks, lanes, transferId, env>>

PaceChanges ==
  /\ paces < MaxPaces
  /\ paces' = paces + 1
  /\ pace' \in Pace \ {pace}
  /\ UNCHANGED <<client, wires, session, drops>>

------------------------------------------------------------------------------
(* The client hears the socket.                                            *)

\* handle_chunk_result, handle_terrain_*_result, handle_server_error: an answer
\* of a request nobody waits for is dropped.
Answered(id) ==
  /\ pending' = Without({id})
  /\ UNCHANGED <<state, generation, attempts, timers, nextId>>

Unstarted(m) == \A p \in partial : p.transfer # m.transfer

\* FrameReassembler::accept takes the fragment.
Accepts(m) ==
  IF m.offset = 0
  THEN Unstarted(m) /\ Cardinality(partial) < MaxTransfers
  ELSE \E p \in partial : p.transfer = m.transfer /\ p.total = m.total /\ p.got = m.offset

HearFrame ==
  LET m == Head(toClient)
  IN /\ toClient # <<>> /\ m.kind = "frame"
     /\ toClient' = Tail(toClient)
     /\ Answered(m.id)
     /\ UNCHANGED <<partial, toServer, session, env>>

HearFragment ==
  LET m == Head(toClient)
      others == {p \in partial : p.transfer # m.transfer}
      grown == [transfer |-> m.transfer, id |-> m.id, total |-> m.total, got |-> m.offset + m.len]
  IN /\ toClient # <<>> /\ m.kind = "fragment"
     /\ IF ~Accepts(m)
        THEN Disconnect(attempts, timers)
        ELSE /\ toClient' = Tail(toClient)
             /\ IF grown.got = m.total
                THEN partial' = others /\ Answered(m.id)
                ELSE /\ partial' = others \cup {grown}
                     /\ UNCHANGED <<state, generation, attempts, timers, pending, nextId>>
             /\ UNCHANGED <<toServer, session, pace>>
     /\ UNCHANGED <<drops, paces>>

HearAbort ==
  LET m == Head(toClient)
  IN /\ toClient # <<>> /\ m.kind = "abort"
     /\ toClient' = Tail(toClient)
     /\ partial' = {p \in partial : p.transfer # m.transfer}
     /\ UNCHANGED <<state, generation, attempts, timers, pending, nextId, toServer, session, env>>

------------------------------------------------------------------------------
Connection == HandleOpen \/ HandleWorldOpened \/ HandleOtherWorld \/ SocketFails \/ Close
Requests == (\E rank \in Rank : Submit(rank)) \/ (\E id \in Id : Cancel(id))
Fire(t) == TimeoutRequest(t) \/ TimeoutDial(t) \/ Reconnect(t)
Read == ReadRequest \/ ReadCancel
Work(task) == TaskQuits(task) \/ TaskAnswers(task)
Write == Release \/ \E l \in Lane : DropCancelled(l) \/ Send(l)
Hear == HearFrame \/ HearFragment \/ HearAbort

Next ==
  \/ Connection
  \/ Requests
  \/ \E t \in timers : Fire(t)
  \/ Read
  \/ \E task \in tasks : Work(task)
  \/ Write
  \/ PaceChanges
  \/ Hear

Spec == Init /\ [][Next]_vars

\* The session's reader, tasks and writer are tokio tasks that never block for
\* good; the traffic shaper serves every lane.
Fairness ==
  /\ WF_vars(Read) /\ WF_vars(Write)
  /\ WF_vars(\E task \in tasks : Work(task))

FairSpec == Spec /\ Fairness

------------------------------------------------------------------------------
(* Properties.                                                             *)

\* A client that keeps to its window is never refused for want of room, except
\* while the writer has put an answer on the wire and not yet released its slot,
\* or while cancelled requests fill the settling backlog (SessionRequests::insert
\* against ensure_request_window): cancels always overtake their replacements.
RefusedOnlyByARace ==
  toServer # <<>> /\ Head(toServer).kind = "request" =>
    CASE Admission(Head(toServer).id) = "duplicate" -> FALSE
      [] Admission(Head(toServer).id) = "full" -> releasing # None
      [] OTHER -> TRUE

Told(id) == \E k \in 1 .. Len(toServer) : toServer[k] = CancelMsg(id)
\* The session never works for nobody: a live slot belongs to a request the client
\* waits for, or its cancel is on the way, or its answer is already out
\* (timeout_request, cancel, Preempted and disconnect all tell the server).
WorkIsWanted ==
  \A id \in Live : id \in Pending \/ Told(id) \/ releasing = id

\* Whatever the pace does and whichever frames are cancelled halfway, the next
\* fragment continues the transfer the client has, of the same frame: it is only
\* ever refused for want of a reassembly slot (take_next_wire against
\* FrameReassembler::accept).
FragmentsFit ==
  toClient # <<>> /\ Head(toClient).kind = "fragment" =>
    LET m == Head(toClient)
    IN IF m.offset = 0
       THEN Unstarted(m)
       ELSE \E p \in partial : /\ p.transfer = m.transfer /\ p.id = m.id
                               /\ p.total = m.total /\ p.got = m.offset

\* A timer armed under an earlier socket changes nothing when it fires, and no
\* timer ends an open connection (schedule_after in open_socket, disconnect and
\* send_*_request).
TimersKeepToTheirTime ==
  [][\A t \in timers \ timers' :
       /\ t.born # generation => UNCHANGED <<state, generation, pending>>
       /\ state = "open" => UNCHANGED <<state, generation>>]_vars

\* Every admitted request gives its slot back, however it ends (TrackedRequest::finish
\* on every path of task and writer).
EverySlotIsReleased == \A id \in Id : id \in Held ~> id \notin Held

\* A transfer the client holds is still being sent, or its end is on the wire: "they
\* cannot ... strand partial reassembly state" (docs/native-world-streaming.md:80-81).
\* take_next_wire breaks it when the pace rises in the middle of a frame.
NoStrandedTransfer ==
  \A p \in partial :
    \/ \E l \in Lane, k \in 1 .. MaxRequests :
         k <= Len(lanes[l]) /\ lanes[l][k].transfer = p.transfer
           /\ lanes[l][k].offset < lanes[l][k].total
    \/ \E k \in 1 .. Len(toClient) : toClient[k].transfer = p.transfer
==============================================================================
