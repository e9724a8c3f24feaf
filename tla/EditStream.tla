----------------------------- MODULE EditStream -----------------------------
(***************************************************************************)
(* How a client keeps up with the edits of others: publication of commits  *)
(* by other sessions and the client's bounded subscriber queue (publish,   *)
(* EditSubscription of world-service/src/edits.rs), its session's select   *)
(* loop (server.rs), the frames on their way, and the client's floors,     *)
(* resident chunks and work tickets (runtime/src/lib.rs, shell/src/lib.rs).*)
(*                                                                         *)
(* One client is modelled in full.  The other players are only their       *)
(* sessions, which apply an edit, work out the recipients and publish.     *)
(* Applying is one step here; EditAuthority says why it may be.  A voxel's *)
(* content is the revision of the commit that wrote it, so staleness shows.*)
(***************************************************************************)
EXTENDS Naturals, Sequences, FiniteSets, FiniteSetsExt

CONSTANTS
  Editor,        \* sessions of the other players
  Voxel, Chunk,
  Volumes,       \* the voxels an edit may write
  Sampled,       \* voxels of a chunk's product: its core and its meshing halo
  Affected,      \* EditMap::affected_chunks of a voxel
  QueueCapacity, \* change_queue_capacity
  MaxRevision,   \* bound: the last revision of the exploration
  MaxBreaks,     \* bound: lost connections
  Nobody

ASSUME StreamAssumption ==
  /\ Volumes \subseteq (SUBSET Voxel) \ {{}}
  /\ Sampled \in [Chunk -> SUBSET Voxel]
  /\ Affected \in [Voxel -> SUBSET Chunk]
  /\ \A k \in Chunk : \A v \in Sampled[k] : k \in Affected[v]
  /\ QueueCapacity \in Nat \ {0}
  /\ MaxRevision \in Nat /\ MaxBreaks \in Nat
  /\ Nobody \notin Editor

VARIABLES
  log,         \* the authority: the volume of each commit, from revision 2 on
  pc,          \* stage of each editor's session
  commit,      \* revision each editor's session has applied and not yet published
  aimed,       \* editors whose recipients include the client's connection
  publisher,   \* who holds the subscribers mutex
  listening,   \* the client's presence has a pose near the edits
  queue,       \* the client's subscriber queue: revisions
  overflowed,  \* its flag
  session,     \* stage of the client's select loop
  hand,        \* the revision the loop works on
  replays,     \* own commits whose answer was lost, resent after a reconnect
  wire,        \* frames for the client, in the order they were queued
  requests,    \* chunk requests on their way to the session
  watermark,   \* resync_watermark; 0 is None
  voxelFloor,  \* voxels; 0 is absent
  chunkFloor,  \* chunks; 1 when absent
  stage,       \* scheduler entry of each chunk; "loaded" is from meshing on
  ticket,      \* its revision
  content,     \* chunks and chunk_halos: the write each voxel shows, 0 before the first product
  breaks,      \* history: connections lost
  owed,        \* history: revisions published to this connection
  missed,      \* history: revisions published while a reconnect was not complete
  told         \* history: revisions the client has handled, or a resync stood for

authorityVars == <<log, pc, commit, aimed, publisher>>
sessionVars == <<queue, overflowed, session, hand>>
chunkVars == <<requests, stage, ticket, content>>
floorVars == <<watermark, voxelFloor, chunkFloor>>
historyVars == <<breaks, owed, missed, told>>
vars == <<authorityVars, listening, sessionVars, replays, wire, chunkVars, floorVars, historyVars>>

Revision == Len(log) + 1
Volume(r) == log[r - 1]

AffectedBy(r) == UNION {Affected[v] : v \in Volume(r)}

\* The newest of the revisions rs that wrote voxel v, 1 for the generated voxel.
LastWrite(v, rs) == Max({1} \cup {r \in rs : v \in Volume(r)})
ChunkRevision(k) == Max({1} \cup {r \in 2..Revision : k \in AffectedBy(r)})

Init ==
  /\ log = <<>>
  /\ pc = [e \in Editor |-> "idle"] /\ commit = [e \in Editor |-> 1]
  /\ aimed = {} /\ publisher = Nobody
  /\ listening = FALSE
  /\ queue = <<>> /\ overflowed = FALSE /\ session = "idle" /\ hand = 1
  /\ replays = {} /\ wire = <<>>
  /\ requests = {}
  /\ watermark = 0
  /\ voxelFloor = [v \in Voxel |-> 0] /\ chunkFloor = [k \in Chunk |-> 1]
  /\ stage = [k \in Chunk |-> "queued"] /\ ticket = [k \in Chunk |-> 1]
  /\ content = [k \in Chunk |-> [v \in Sampled[k] |-> 0]]
  /\ breaks = 0 /\ owed = {} /\ missed = {} /\ told = {}
-----------------------------------------------------------------------------
(* Another player's session.                                               *)

\* apply returns.
Apply(e, volume) ==
  /\ pc[e] = "idle"
  /\ Revision < MaxRevision
  /\ log' = Append(log, volume)
  /\ commit' = [commit EXCEPT ![e] = Revision + 1]
  /\ pc' = [pc EXCEPT ![e] = "applied"]
  /\ UNCHANGED <<aimed, publisher, listening, sessionVars, replays, wire, chunkVars, floorVars,
                 historyVars>>

\* connections_near_voxels.
Aim(e) ==
  /\ pc[e] = "applied"
  /\ pc' = [pc EXCEPT ![e] = "aimed"]
  /\ aimed' = IF listening THEN aimed \cup {e} ELSE aimed
  /\ missed' = IF listening \/ breaks = 0 THEN missed ELSE missed \cup {commit[e]}
  /\ UNCHANGED <<log, commit, publisher, listening, sessionVars, replays, wire, chunkVars, floorVars,
                 breaks, owed, told>>

\* publish takes the subscribers mutex and reserves a place in the queue.
Reserve(e) ==
  /\ pc[e] = "aimed" /\ publisher = Nobody
  /\ \/ /\ e \in aimed /\ Len(queue) < QueueCapacity
        /\ queue' = Append(queue, commit[e])
        /\ owed' = owed \cup {commit[e]}
        /\ aimed' = aimed \ {e}
        /\ pc' = [pc EXCEPT ![e] = "idle"]
        /\ UNCHANGED publisher
     \/ /\ e \in aimed /\ Len(queue) >= QueueCapacity
        /\ publisher' = e
        /\ owed' = owed \cup {commit[e]}
        /\ pc' = [pc EXCEPT ![e] = "full"]
        /\ UNCHANGED <<queue, aimed>>
     \/ /\ e \notin aimed
        /\ pc' = [pc EXCEPT ![e] = "idle"]
        /\ UNCHANGED <<queue, owed, aimed, publisher>>
  /\ UNCHANGED <<log, commit, listening, overflowed, session, hand, replays, wire, chunkVars,
                 floorVars, breaks, missed, told>>

\* Mutant: a full queue drops the commit and says nothing.
MarkOverflow_Not(e) ==
  /\ pc[e] = "full"
  /\ publisher' = Nobody
  /\ aimed' = aimed \ {e}
  /\ pc' = [pc EXCEPT ![e] = "idle"]
  /\ UNCHANGED <<log, commit, listening, sessionVars, replays, wire, chunkVars, floorVars, historyVars>>

\* try_reserve failed: the flag is stored, of the subscription that was full.
MarkOverflow(e) ==
  /\ pc[e] = "full"
  /\ overflowed' = (overflowed \/ e \in aimed)
  /\ publisher' = Nobody
  /\ aimed' = aimed \ {e}
  /\ pc' = [pc EXCEPT ![e] = "idle"]
  /\ UNCHANGED <<log, commit, listening, queue, session, hand, replays, wire, chunkVars, floorVars,
                 historyVars>>
-----------------------------------------------------------------------------
(* The client's session: run_session's select loop.                        *)

SessionMoves(s, r) == session' = s /\ hand' = r
Send(frames) == wire' = wire \o frames
OnlySession == UNCHANGED <<authorityVars, listening, chunkVars, floorVars, historyVars>>

CommitFrame(r, class) == [kind |-> "commit", revision |-> r, class |-> class]
ResyncFrame(r) == [kind |-> "resync", revision |-> r, class |-> "critical"]
ProductFrame(q) ==
  [kind |-> "product", revision |-> ChunkRevision(q.chunk), class |-> "product",
   chunk |-> q.chunk, ticket |-> q.ticket,
   content |-> [v \in Sampled[q.chunk] |-> LastWrite(v, 2..Revision)]]

Pop ==
  /\ session = "idle" /\ queue # <<>>
  /\ SessionMoves("popped", Head(queue))
  /\ queue' = Tail(queue)
  /\ UNCHANGED <<overflowed, replays, wire>> /\ OnlySession

Forward ==
  /\ session = "popped" /\ ~overflowed
  /\ Send(<<CommitFrame(hand, "world change")>>)
  /\ SessionMoves("idle", hand)
  /\ UNCHANGED <<queue, overflowed, replays>> /\ OnlySession

\* discard_stale_after_overflow: the flag is taken ...
Discard ==
  /\ session = "popped" /\ overflowed
  /\ overflowed' = FALSE
  /\ SessionMoves("draining", hand)
  /\ UNCHANGED <<queue, replays, wire>> /\ OnlySession

\* ... the queue is emptied, one try_recv at a time ...
Drain ==
  /\ session = "draining"
  /\ \/ /\ queue # <<>>
        /\ queue' = Tail(queue)
        /\ UNCHANGED <<session, hand>>
     \/ /\ queue = <<>>
        /\ SessionMoves("drained", hand)
        /\ UNCHANGED queue
  /\ UNCHANGED <<overflowed, replays, wire>> /\ OnlySession

\* ... and again, if more overflowed meanwhile.
Recheck ==
  /\ session = "drained"
  /\ overflowed' = FALSE
  /\ SessionMoves(IF overflowed THEN "draining" ELSE "resync", hand)
  /\ UNCHANGED <<queue, replays, wire>> /\ OnlySession

\* Mutant: the resync names the commit that was popped.
Resync_AtPopped ==
  /\ session = "resync"
  /\ Send(<<ResyncFrame(hand)>>)
  /\ SessionMoves("idle", hand)
  /\ UNCHANGED <<queue, overflowed, replays>> /\ OnlySession

Resync ==
  /\ session = "resync"
  /\ Send(<<ResyncFrame(Revision)>>)
  /\ SessionMoves("idle", hand)
  /\ UNCHANGED <<queue, overflowed, replays>> /\ OnlySession

\* The client edits: its own session awaits apply, and answers after publish.
ApplyOwn(volume) ==
  /\ session = "idle" /\ listening
  /\ Revision < MaxRevision
  /\ log' = Append(log, volume)
  /\ SessionMoves("applied", Revision + 1)
  /\ UNCHANGED <<pc, commit, aimed, publisher, listening, queue, overflowed, replays, wire,
                 chunkVars, floorVars, historyVars>>

Answer ==
  /\ session = "applied"
  /\ Send(<<CommitFrame(hand, "critical")>>)
  /\ SessionMoves("idle", hand)
  /\ UNCHANGED <<queue, overflowed, replays>> /\ OnlySession

\* A resent edit: the stored commit, or a refusal by presence.
Replay(r) ==
  /\ session = "idle" /\ r \in replays
  /\ replays' = replays \ {r}
  /\ \/ Send(<<CommitFrame(r, "critical")>>)
     \/ UNCHANGED wire
  /\ UNCHANGED sessionVars /\ OnlySession

\* A chunk request is admitted: its product is fixed by this snapshot.  It
\* may be sent at any time from now on, so it joins the frames here.
Serve(q) ==
  /\ session = "idle" /\ replays = {}
  /\ q \in requests
  /\ requests' = requests \ {q}
  /\ Send(<<ProductFrame(q)>>)
  /\ UNCHANGED <<authorityVars, listening, sessionVars, replays, stage, ticket, content,
                 floorVars, historyVars>>
-----------------------------------------------------------------------------
(* The client.                                                             *)

\* The presence socket attaches and the first pose is accepted.
Attach ==
  /\ ~listening
  /\ listening' = TRUE
  /\ UNCHANGED <<authorityVars, sessionVars, replays, wire, chunkVars, floorVars, historyVars>>

\* The frames the writer may send next.  A critical one waits only for earlier
\* critical ones and nothing queued after it passes it; the weighted classes
\* keep their own order, but not each other's; products are sent in any order.
Sendable(i) ==
  /\ \A j \in 1..i - 1 : wire[j].class # "critical"
  /\ wire[i].class = "world change" => \A j \in 1..i - 1 : wire[j].class # "world change"

Removed(q, i) == SubSeq(q, 1, i - 1) \o SubSeq(q, i + 1, Len(q))

\* Mutant: every commit is taken for a new one.
IsAfterResync_Always(r) == TRUE

\* commit_is_after_resync.
IsAfterResync(r) == r > watermark

\* Mutant: whatever arrives is applied.
Accepted_Any(r) == Volume(r)

\* The values of commit r that are newer than what the floors say.
Accepted(r) == {v \in Volume(r) : r > voxelFloor[v]}

\* Mutant: an edit invalidates the ticket but queues no generation.
AfterEdit_Resumed(k) == stage[k]

\* mark_chunks_edited: generation in flight starts over.
AfterEdit(k) == IF stage[k] = "generating" THEN "queued" ELSE stage[k]

\* apply_durable_edits and apply_resident_mutations.
HandleCommit(r) ==
  \/ /\ IsAfterResync(r)
     /\ voxelFloor' = [v \in Voxel |-> IF v \in Accepted(r) THEN r ELSE voxelFloor[v]]
     /\ chunkFloor' = [k \in Chunk |->
          IF k \in AffectedBy(r) /\ r > chunkFloor[k] THEN r ELSE chunkFloor[k]]
     /\ content' = [k \in Chunk |-> [v \in Sampled[k] |->
          IF v \in Accepted(r) /\ content[k][v] # 0 THEN r ELSE content[k][v]]]
     /\ stage' = [k \in Chunk |-> IF k \in AffectedBy(r) THEN AfterEdit(k) ELSE stage[k]]
     /\ ticket' = [k \in Chunk |-> IF k \in AffectedBy(r) THEN ticket[k] + 1 ELSE ticket[k]]
     /\ told' = told \cup {r}
     /\ UNCHANGED <<watermark, requests>>
  \/ /\ ~IsAfterResync(r)
     /\ UNCHANGED <<floorVars, chunkVars, told>>

\* resynchronize_world_products: all generation starts over.
HandleResync(r) ==
  \/ /\ IsAfterResync(r)
     /\ watermark' = r
     /\ voxelFloor' = [v \in Voxel |-> 0]
     /\ chunkFloor' = [k \in Chunk |-> 1]
     /\ stage' = [k \in Chunk |-> "queued"]
     /\ ticket' = [k \in Chunk |-> ticket[k] + 1]
     /\ told' = told \cup 2..r
     /\ UNCHANGED <<requests, content>>
  \/ /\ ~IsAfterResync(r)
     /\ UNCHANGED <<floorVars, chunkVars, told>>

OnlyChunks == UNCHANGED <<authorityVars, listening, sessionVars, replays, floorVars, historyVars>>

\* The scheduler hands out a generation ticket.
Request(k) ==
  /\ stage[k] = "queued"
  /\ stage' = [stage EXCEPT ![k] = "generating"]
  /\ requests' = requests \cup {[chunk |-> k, ticket |-> ticket[k]]}
  /\ UNCHANGED <<wire, ticket, content>> /\ OnlyChunks

\* Mutant: any ticket will do.
IsCurrent_AnyTicket(q) == stage[q.chunk] = "generating"

\* The ticket of a request or product is the one its chunk waits for.
IsCurrent(q) == stage[q.chunk] = "generating" /\ ticket[q.chunk] = q.ticket

Retried(q) == IF IsCurrent(q) THEN [stage EXCEPT ![q.chunk] = "queued"] ELSE stage

\* accept_generated_chunk.
HandleProduct(p) ==
  /\ \/ /\ p.revision < chunkFloor[p.chunk]
        /\ stage' = Retried(p)
        /\ UNCHANGED content
     \/ /\ p.revision >= chunkFloor[p.chunk] /\ IsCurrent(p)
        /\ stage' = [stage EXCEPT ![p.chunk] = "loaded"]
        /\ content' = [content EXCEPT ![p.chunk] = p.content]
     \/ /\ p.revision >= chunkFloor[p.chunk] /\ ~IsCurrent(p)
        /\ UNCHANGED <<stage, content>>
  /\ UNCHANGED <<floorVars, requests, ticket, told>>

Receive(i) ==
  /\ i \in DOMAIN wire /\ Sendable(i)
  /\ wire' = Removed(wire, i)
  /\ \/ wire[i].kind = "commit" /\ HandleCommit(wire[i].revision)
     \/ wire[i].kind = "resync" /\ HandleResync(wire[i].revision)
     \/ wire[i].kind = "product" /\ HandleProduct(wire[i])
  /\ UNCHANGED <<authorityVars, listening, sessionVars, replays, breaks, owed, missed>>

\* A batch times out, or the service answers it with an error.
RequestFails(q) ==
  /\ \/ /\ q \in requests
        /\ requests' = requests \ {q}
        /\ UNCHANGED wire
     \/ \E i \in DOMAIN wire :
          /\ wire[i].kind = "product" /\ wire[i].chunk = q.chunk /\ wire[i].ticket = q.ticket
          /\ wire' = Removed(wire, i)
          /\ UNCHANGED requests
  /\ stage' = Retried(q)
  /\ UNCHANGED <<ticket, content>> /\ OnlyChunks

\* The connection is lost and a new one opened: a new subscription, a presence
\* that has yet to attach, and pending batches fail.  Floors, tickets and
\* chunks stay; unanswered edits are resent.
Break ==
  /\ breaks < MaxBreaks
  /\ session = "idle"
  /\ breaks' = breaks + 1
  /\ listening' = FALSE
  /\ queue' = <<>> /\ overflowed' = FALSE /\ aimed' = {}
  /\ replays' = replays \cup
       {wire[i].revision : i \in {j \in DOMAIN wire : wire[j].kind = "commit"
                                                    /\ wire[j].class = "critical"}}
  /\ wire' = <<>>
  /\ stage' = [k \in Chunk |-> IF stage[k] = "generating" THEN "queued" ELSE stage[k]]
  /\ requests' = {}
  /\ owed' = {}
  /\ UNCHANGED <<log, pc, commit, publisher, session, hand, ticket, content, floorVars, missed,
                 told>>
-----------------------------------------------------------------------------
Outstanding == {[chunk |-> k, ticket |-> ticket[k]] : k \in {c \in Chunk : stage[c] = "generating"}}
Publish(e) == Aim(e) \/ Reserve(e) \/ MarkOverflow(e)
Loop == Pop \/ Forward \/ Discard \/ Drain \/ Recheck \/ Resync \/ Answer

Next ==
  \/ \E e \in Editor : Publish(e) \/ \E volume \in Volumes : Apply(e, volume)
  \/ Loop
  \/ \E volume \in Volumes : ApplyOwn(volume)
  \/ \E r \in replays : Replay(r)
  \/ \E q \in requests : Serve(q)
  \/ Attach
  \/ \E i \in DOMAIN wire : Receive(i)
  \/ \E k \in Chunk : Request(k)
  \/ \E q \in Outstanding : RequestFails(q)
  \/ Break

Spec == Init /\ [][Next]_vars

\* Sessions, the writer and the client's frame loop go on; nobody has to edit,
\* and nothing has to fail.
FairSpec ==
  /\ Spec
  /\ \A e \in Editor : WF_vars(Publish(e))
  /\ WF_vars(Loop)
  /\ WF_vars(\E r \in replays : Replay(r))
  /\ WF_vars(\E q \in requests : Serve(q))
  /\ WF_vars(Attach)
  /\ WF_vars(\E i \in DOMAIN wire : Receive(i))
  /\ \A k \in Chunk : WF_vars(Request(k))
-----------------------------------------------------------------------------
(* Properties                                                              *)

\* A chunk in use shows every voxel at least as new as the newest commit the
\* client was told of, in a commit or by a resync: neither a late commit nor a
\* late product nor the clearing of the floors takes back what was shown.
NeverBehindWhatItWasTold ==
  \A k \in Chunk : stage[k] = "loaded" =>
    \A v \in Sampled[k] : content[k][v] >= LastWrite(v, told)

\* Nothing of the edit stream is on its way to the client.
Quiet ==
  /\ \A e \in aimed : pc[e] # "full"
  /\ queue = <<>> /\ session = "idle" /\ ~overflowed
  /\ \A i \in DOMAIN wire : wire[i].kind = "product"

\* Overflow leaves no silent gap: when nothing is under way, the client has
\* handled every commit published to its connection, or a resync that covers it.
NoSilentGap == Quiet => owed \subseteq told

\* A chunk the scheduler wants is loaded in the end, whatever edits, resyncs
\* and breaks made of its tickets, once batches stop failing.
ChunksLoad ==
  <>[][\A q \in Outstanding : ~RequestFails(q)]_vars =>
    \A k \in Chunk : stage[k] # "loaded" ~> stage[k] = "loaded"

\* "Bounded per-client queues fail into an explicit full-product resync instead
\* of silently dropping state" (docs/multiplayer-scaling.md:191): a commit
\* dropped because the queue was full reaches the client with a resync.
OverflowIsResynced == overflowed ~> ~overflowed

\* "Disconnect/reconnect the browser and resume changes from its last revision"
\* (docs/20260713-local-world-service-plan.md:514): a chunk the client kept over
\* a lost connection shows what was published while it was away.
ReconnectResumes ==
  Quiet /\ listening =>
    \A k \in Chunk : stage[k] = "loaded" =>
      \A v \in Sampled[k] : content[k][v] >= LastWrite(v, missed)
=============================================================================
