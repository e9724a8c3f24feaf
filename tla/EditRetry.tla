------------------------------ MODULE EditRetry ------------------------------
(***************************************************************************)
(* A browser's world transport (shell/src/remote.rs) against the world     *)
(* session of the service (run_session in world-service/src/server.rs),    *)
(* on top of the edit ledger.  The transport keeps every edit it has no    *)
(* answer for, resends all of them whenever a new WorldOpened arrives, and *)
(* reissues an edit under the new edit session when the service answers    *)
(* that the old session is no longer current.  Connections break at any    *)
(* moment; frames in flight to the client are lost with them, frames the   *)
(* service has already buffered may still be served.                       *)
(*                                                                         *)
(* The authority is taken as EditLedger (EditAuthority implements it).     *)
(***************************************************************************)
EXTENDS EditLedger

CONSTANTS
  Intent,       \* edits users make, each submitted once
  Window,       \* bound: edits one transport leaves unanswered at a time
  AttemptLimit, \* reconnect_attempt_limit
  MaxOp         \* bound on operation ids

ASSUME WindowAssumption == Window \in Nat \ {0} /\ AttemptLimit \in Nat
ASSUME OpBoundAssumption == OpId = 1..MaxOp
ASSUME IntentAssumption == IsFiniteSet(Intent)

VARIABLES
  \* The transport of each player's browser tab.
  link,       \* RemoteConnectionState: waiting, handshaking, open, failed
  opened,     \* edit session of the last WorldOpened on this connection
  nextOp,     \* next_request_id
  pending,    \* pending_edits, a set of commands with distinct operation ids
  attempts,   \* reconnect_attempts
  \* The connection and the service's side of it.
  up, down,   \* frames to the service and to the transport, in order
  claim,      \* presence claim of run_session: none, live, orphan
  \* History.
  outcome,    \* [Intent -> what the player was told]
  executed    \* [Intent -> how often the ledger executed it]

clientVars == <<link, opened, nextOp, pending, attempts>>
wireVars == <<up, down, claim>>
historyVars == <<outcome, executed>>
vars == <<ledgerVars, clientVars, wireVars, historyVars>>

EditCommand == [op : OpId, session : Session, action : Action, intent : Intent]
ServerMessage ==
  [kind : {"opened"}, session : Session]
    \cup [kind : {"commit", "stale", "rejected"}, op : OpId, session : Session, intent : Intent]

RetryInit ==
  /\ LedgerInit
  /\ link = [p \in Player |-> "waiting"]
  /\ opened = [p \in Player |-> None]
  /\ nextOp = [p \in Player |-> 1]
  /\ pending = [p \in Player |-> {}]
  /\ attempts = [p \in Player |-> 0]
  /\ up = [p \in Player |-> <<>>]
  /\ down = [p \in Player |-> <<>>]
  /\ claim = [p \in Player |-> "none"]
  /\ outcome = [i \in Intent |-> "none"]
  /\ executed = [i \in Intent |-> 0]

-----------------------------------------------------------------------------
(* Opening and losing a connection.                                        *)

\* What the player hears of the edits a transport gives up on.
Abandoned(p) ==
  [i \in Intent |-> IF \E c \in pending[p] : c.intent = i THEN "lost" ELSE outcome[i]]

\* disconnect: what was in flight is gone; after too many attempts in a row the
\* transport fails for good and drops its pending edits.
Reconnecting(p) ==
  /\ opened' = [opened EXCEPT ![p] = None]
  /\ down' = [down EXCEPT ![p] = <<>>]
  /\ IF attempts[p] + 1 > AttemptLimit
     THEN /\ link' = [link EXCEPT ![p] = "failed"]
          /\ pending' = [pending EXCEPT ![p] = {}]
          /\ outcome' = Abandoned(p)
          /\ UNCHANGED attempts
     ELSE /\ link' = [link EXCEPT ![p] = "waiting"]
          /\ attempts' = [attempts EXCEPT ![p] = @ + 1]
          /\ UNCHANGED <<pending, outcome>>

\* A new connection does not get through, or the service refuses it because the
\* claim of the previous one is still held.
DialFails(p) ==
  /\ link[p] = "waiting"
  /\ Reconnecting(p)
  /\ UNCHANGED <<ledgerVars, nextOp, up, claim, executed>>

\* run_session up to WorldOpened: load_player, join, begin_player_session.
Visit(p) ==
  /\ link[p] = "waiting"
  /\ Admit(p)
  /\ UNCHANGED <<clientVars, wireVars, historyVars>>

Dial(p, s) ==
  /\ link[p] = "waiting" /\ claim[p] = "none"
  /\ Rotate(p, s)
  /\ claim' = [claim EXCEPT ![p] = "live"]
  /\ up' = [up EXCEPT ![p] = <<>>]
  /\ down' = [down EXCEPT ![p] = <<[kind |-> "opened", session |-> s]>>]
  /\ link' = [link EXCEPT ![p] = "handshaking"]
  /\ UNCHANGED <<opened, nextOp, pending, attempts, historyVars>>

\* The socket closes under the transport; the service finds out later.
Disconnect(p) ==
  /\ link[p] \in {"handshaking", "open"}
  /\ Reconnecting(p)
  /\ claim' = [claim EXCEPT ![p] = IF @ = "live" THEN "orphan" ELSE @]
  /\ UNCHANGED <<ledgerVars, nextOp, up, executed>>

\* run_session returns, or the service stops: unserved frames and the claim go.
\* Answers already sent may still arrive.
EndSession(p) ==
  /\ claim[p] # "none"
  /\ claim' = [claim EXCEPT ![p] = "none"]
  /\ up' = [up EXCEPT ![p] = <<>>]
  /\ UNCHANGED <<ledgerVars, clientVars, down, historyVars>>

\* The player reloads the page: a new transport that knows nothing.
Reload(p) ==
  /\ link' = [link EXCEPT ![p] = "waiting"]
  /\ opened' = [opened EXCEPT ![p] = None]
  /\ nextOp' = [nextOp EXCEPT ![p] = 1]
  /\ pending' = [pending EXCEPT ![p] = {}]
  /\ attempts' = [attempts EXCEPT ![p] = 0]
  /\ down' = [down EXCEPT ![p] = <<>>]
  /\ claim' = [claim EXCEPT ![p] = IF @ = "live" THEN "orphan" ELSE @]
  /\ outcome' = Abandoned(p)
  /\ UNCHANGED <<ledgerVars, up, executed>>

-----------------------------------------------------------------------------
(* The transport's messages.                                               *)

\* Frames sent while the service's end is gone are lost.
Sent(p, commands) == IF claim[p] = "live" THEN up[p] \o commands ELSE up[p]

\* handle_world_opened resends every pending edit in operation-id order.
InOrder(commands) ==
  CHOOSE s \in [1..Cardinality(commands) -> commands] :
    /\ \A c \in commands : \E k \in DOMAIN s : s[k] = c
    /\ \A j, k \in DOMAIN s : j < k => s[j].op < s[k].op

Resent_Nothing(p) == <<>>

Resent(p) == InOrder(pending[p])

ReceiveOpened(p) ==
  /\ link[p] = "handshaking" /\ down[p] # <<>> /\ Head(down[p]).kind = "opened"
  /\ link' = [link EXCEPT ![p] = "open"]
  /\ opened' = [opened EXCEPT ![p] = Head(down[p]).session]
  /\ attempts' = [attempts EXCEPT ![p] = 0]
  /\ up' = [up EXCEPT ![p] = Sent(p, Resent(p))]
  /\ down' = [down EXCEPT ![p] = Tail(@)]
  /\ UNCHANGED <<ledgerVars, nextOp, pending, claim, historyVars>>

\* send_edit.
Submit(p, i, a) ==
  LET c == [op |-> nextOp[p], session |-> opened[p], action |-> a, intent |-> i]
  IN /\ link[p] = "open" /\ outcome[i] = "none"
     /\ Cardinality(pending[p]) < Window /\ nextOp[p] \in OpId
     /\ pending' = [pending EXCEPT ![p] = @ \cup {c}]
     /\ nextOp' = [nextOp EXCEPT ![p] = @ + 1]
     /\ up' = [up EXCEPT ![p] = Sent(p, <<c>>)]
     /\ outcome' = [outcome EXCEPT ![i] = "pending"]
     /\ UNCHANGED <<ledgerVars, link, opened, attempts, down, claim, executed>>

\* handle_edit_commit: the answer clears the pending command it names.
Answered(p, m) == {c \in pending[p] : c.op = m.op /\ c.session = m.session}

ReceiveCommit(p) ==
  LET m == Head(down[p])
  IN /\ link[p] = "open" /\ down[p] # <<>> /\ m.kind = "commit"
     /\ pending' = [pending EXCEPT ![p] = @ \ Answered(p, m)]
     /\ outcome' = [i \in Intent |->
                      IF \E c \in Answered(p, m) : c.intent = i THEN "committed" ELSE outcome[i]]
     /\ down' = [down EXCEPT ![p] = Tail(@)]
     /\ UNCHANGED <<ledgerVars, link, opened, nextOp, attempts, up, claim, executed>>

\* reissue_edit_after_session_rotation: a fresh id under the current session.
ReissueId_Same(p, c) == c.op

ReissueId(p, c) == nextOp[p]

\* handle_server_error for an edit the service has no receipt of, from a session
\* that is not current any more.
ReceiveStale(p) ==
  LET m == Head(down[p])
  IN /\ link[p] = "open" /\ down[p] # <<>> /\ m.kind = "stale"
     /\ \E c \in pending[p] :
          LET r == [c EXCEPT !.op = ReissueId(p, c), !.session = opened[p]]
          IN /\ c.op = m.op /\ c.session # opened[p]
             /\ pending' = [pending EXCEPT ![p] = (@ \ {c}) \cup {r}]
             /\ up' = [up EXCEPT ![p] = Sent(p, <<r>>)]
     /\ nextOp' = [nextOp EXCEPT ![p] = @ + 1]
     /\ down' = [down EXCEPT ![p] = Tail(@)]
     /\ UNCHANGED <<ledgerVars, link, opened, attempts, claim, historyVars>>

\* handle_server_error with any other text, or with nothing to reissue: the
\* player is told the edit was rejected.
ReceiveRejected(p) ==
  LET m == Head(down[p])
      refused == {c \in pending[p] : c.op = m.op}
  IN /\ link[p] = "open" /\ down[p] # <<>>
     /\ \/ m.kind = "rejected"
        \/ m.kind = "stale" /\ \A c \in refused : c.session = opened[p]
     /\ pending' = [pending EXCEPT ![p] = @ \ refused]
     /\ outcome' = [i \in Intent |->
                      IF \E c \in refused : c.intent = i THEN "rejected" ELSE outcome[i]]
     /\ down' = [down EXCEPT ![p] = Tail(@)]
     /\ UNCHANGED <<ledgerVars, link, opened, nextOp, attempts, up, claim, executed>>

-----------------------------------------------------------------------------
(* The service serves one command of a connection at a time.               *)

\* Take the oldest frame and answer it, if anybody is listening.
Reply(p, kind) ==
  LET c == Head(up[p])
      m == [kind |-> kind, op |-> c.op, session |-> c.session, intent |-> c.intent]
  IN /\ claim[p] # "none" /\ up[p] # <<>>
     /\ up' = [up EXCEPT ![p] = Tail(@)]
     /\ down' = [down EXCEPT ![p] = IF claim[p] = "live" THEN Append(@, m) ELSE @]
     /\ UNCHANGED <<clientVars, claim, outcome>>

\* A stored receipt is found before the session is looked at.
Stored_OfCurrentSession(p, c) ==
  c.session = session[p] /\ HasReceipt(receipts[p], c.session, c.op)

Stored(p, c) == HasReceipt(receipts[p], c.session, c.op)

ServeReplay(p) ==
  /\ Reply(p, "commit")
  /\ Stored(p, Head(up[p]))
  /\ UNCHANGED <<ledgerVars, executed>>

ServeStale(p) ==
  /\ Reply(p, "stale")
  /\ ~Stored(p, Head(up[p])) /\ Head(up[p]).session # session[p]
  /\ UNCHANGED <<ledgerVars, executed>>

ServeExecute(p) ==
  LET c == Head(up[p])
  IN /\ Reply(p, "commit")
     /\ ~Stored(p, c) /\ c.session = session[p]
     /\ Execute(p, c.op, c.action)
     /\ executed' = [executed EXCEPT ![c.intent] = @ + 1]

\* Presence refuses any command whose author is not attached, out of reach or
\* has sent no pose for a while - whatever the ledger knows of it - and the
\* authority refuses protected, obstructed, unaffordable and failing edits.
ServeRejected(p) ==
  /\ Reply(p, "rejected")
  /\ UNCHANGED <<ledgerVars, executed>>

-----------------------------------------------------------------------------

Serve(p) == ServeReplay(p) \/ ServeStale(p) \/ ServeExecute(p) \/ ServeRejected(p)

Receive(p) == ReceiveOpened(p) \/ ReceiveCommit(p) \/ ReceiveStale(p) \/ ReceiveRejected(p)

Reconnect(p) == DialFails(p) \/ Visit(p) \/ \E s \in Session : Dial(p, s)

RetryNext ==
  \E p \in Player :
    \/ Reconnect(p)
    \/ Disconnect(p)
    \/ EndSession(p)
    \/ Reload(p)
    \/ \E i \in Intent, a \in Action : Submit(p, i, a)
    \/ Receive(p)
    \/ Serve(p)

RetrySpec == RetryInit /\ [][RetryNext]_vars

\* Timers fire, delivered frames are handled, a session serves what it read,
\* and each end eventually notices that the other one is gone.
Gone(p) == (claim[p] = "orphan" /\ EndSession(p))
             \/ (link[p] # "waiting" /\ claim[p] # "live" /\ down[p] = <<>> /\ Disconnect(p))

FairRetrySpec ==
  RetrySpec /\ \A p \in Player :
    WF_vars(Serve(p)) /\ WF_vars(Receive(p)) /\ WF_vars(Reconnect(p)) /\ WF_vars(Gone(p))

-----------------------------------------------------------------------------
(* Properties.                                                             *)

\* However often connections break, an edit a player made once changes the world
\* at most once.  (As long as a player never has more unanswered edits than the
\* service keeps receipts for: see StaleAnswersProveAbsence.)
ExecutedAtMostOnce == \A i \in Intent : executed[i] <= 1

\* An edit reported as committed was executed: the receipt that answered it was
\* its own and not that of an earlier page load's operation with the same id.
CommittedWasExecuted == \A i \in Intent : outcome[i] = "committed" => executed[i] = 1

\* Both: an edit takes effect once, and that once is what the player is told of.
EditsTakeEffectOnce == ExecutedAtMostOnce /\ CommittedWasExecuted

\* The watermark never bites an honest client: a command of the current session
\* that has no receipt carries a newer id than everything executed before it,
\* retries, reissues and new edits interleaved.
CurrentCommandsArriveInOrder ==
  \A p \in Player :
    (claim[p] # "none" /\ up[p] # <<>>) =>
      LET c == Head(up[p])
      IN (c.session = session[p] /\ ~HasReceipt(receipts[p], c.session, c.op)) => c.op > maxOp[p]

\* Once the network holds and the page stays open, the player hears about every
\* edit: committed, rejected, or given up by a failed transport.
Up(state) == state \in {"handshaking", "open"}
Break == \E p \in Player :
  claim[p] = "live" /\ ((Up(link[p]) /\ ~Up(link'[p])) \/ claim'[p] = "none")

EveryEditIsAnswered ==
  <>[][~Break]_vars => \A i \in Intent : (outcome[i] = "pending" ~> outcome[i] # "pending")

\* The answer "edit session is no longer current" proves that the edit was never
\* executed (protocol.rs, reissue_after_session_rotation).
StaleAnswersProveAbsence ==
  \A p \in Player : \A k \in DOMAIN down[p] :
    down[p][k].kind = "stale" => executed[down[p][k].intent] = 0
=============================================================================
