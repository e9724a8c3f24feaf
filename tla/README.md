# Verification of the voxels world service and its clients

This directory is a TLA+ development beside the code of `voxels`: a browser game in a
deterministic, generated voxel world whose edits, inventories and players live in one
authoritative world service. It models the parts of the program in which order,
interleaving, retries and crashes decide whether the world stays correct. TLC checks small
instances; TLAPS proves the central invariants for every value of the constants.

All paths below are relative to the repository root.

## 1. The system

| Component | State it keeps | Operations | Hard behaviour | What makes it correct |
|---|---|---|---|---|
| Edit authority (`world-service/src/edits.rs`) | SQLite: sparse edits, world and chunk revisions, players, inventories, edit sessions, bounded receipts. Memory: durable and effective override maps, revisions, a column index, keyed locks, subscriber queues | `apply`, `load_player`, `begin_player_session`, `save_player_resume`, `snapshot_*`, `subscribe`, `publish`, start-up | blocking threads, locks taken in order, planning outside the mutex, transaction failure after the in-memory write, crash, retries | every operation is atomic and executed once; memory is what a restart loads; materials are conserved; a product key identifies its content |
| World session (`world-service/src/server.rs`, `run_session`) | player claim, request table, outbound lanes | open, edits, batches, cancel, write, exit | a select loop over commits and frames, cancellation, fragments, shutdown | one answer per command; every slot comes back; no request survives the closing sweep |
| Presence (`presence.rs`, `shell/src/presence_remote.rs`) | claims, attachments, poses, interest cells, streams; the observer's timeline | join, attach, pose, tick, detach, leave | two sockets per player, late detach, coalesced poses, reconnects | one socket per attachment; a view follows its stream; no track across a gap |
| Generation (`generation_limiter.rs`, dispatcher and flights in `server.rs`) | permits, waiters per lane, product flights, caches | acquire, release, cancel, join flight, publish | lost wake-ups, cancelled owners | capacity, progress, bounded turns |
| Virtual terrain authority (`virtual_terrain.rs`) | region cache, single-flight locks, permits | ensure region, build, abandon, serve pages | edits during a build, callers that time out | a region is published only under the revision it was built from |
| Traffic shaper (`traffic.rs`) | token bucket, weighted virtual time, rate | acquire, feedback, fragment size | pre-emption, debts, a rate that changes under a frame | no class starves for ever below capacity |
| Browser transport (`shell/src/remote.rs`) | connection state, timers, pending batches and edits, request ids, attempts, reassembler | connect, submit, receive, time out, preempt, reconnect | stale callbacks, lost answers, rotated sessions | every edit is answered and takes effect at most once; a late timer changes nothing |
| Client loop (`shell/src/lib.rs`, `runtime/src/lib.rs`) | edit revision floors, scheduler entries and tickets, voxels, meshes, uploads, canonical cuts | apply commits, resync, schedule, mesh, upload, evict | reordered commits, stale tickets, several chunks per edit | the client converges to the authority; an edit appears as a whole |
| Renderer (`render/src`) | staged world changes, terrain hierarchy and cut, frozen and committed publication, GPU residency | stage, select, admit, publish, commit, reset | staged changes of several revisions; balance, eviction and commit that follow each other | chunks and terrain of one revision are presented together; the ground always has one owner; refinement ends |
| World (`world/src`) | none (pure) | generation, meshing, codecs, terrain pages | numerics | deterministic output |
| Movement, web shell, edge worker, bots, automation | poses, UI | | | |

How they interact: a browser opens a WebSocket; `run_session` loads the player, takes the
exclusive presence claim, rotates the edit session and sends `WorldOpened`. The transport
then resends every unanswered edit. An edit is authorised by presence, applied by the
authority on a blocking thread, published to the sessions of nearby players and answered on
its own connection. Chunk and terrain products are requested through a bounded window,
generated from a snapshot of the overrides, cached under the revision of what they depend on,
written in paced fragments, and taken in against revision floors; the client's scheduler
meshes and uploads them, and the renderer presents the chunks of an edit together with the
terrain of its revision.

## 2. Modules

| Module | Models | Kind |
|---|---|---|
| `EditRules` | planning and persistence rules: overlay, plan of a dig or a place, inventory, affected chunks, regions, receipts, revision bookkeeping | operators, constants and their assumptions |
| `EditLedger` | what the authority promises: `Admit`, `Rotate`, `Execute`, each atomic | abstract specification |
| `EditAuthority` | how it works: locks, unlocked planning, memory first, one transaction, rollback, crash | detailed specification, implements `EditLedger` |
| `EditRetry` | the browser transport's edits against `run_session`, over `EditLedger` | composition |
| `WorldSocket` | the world socket end to end: window, preemption, timers, reconnects, admission, tasks, writer, fragments, reassembly | composition of transport and session |
| `GenerationLimiter` | admission of blocking generation: permits, three lanes, wake-ups, cancellation | detailed specification |
| `GenerationFlights` | chunk requests from admission to answer: windows, cancellation, shared product flights, completions | detailed specification |
| `TerrainRegions` | the region cache of the virtual terrain authority: flights, permits, builds against snapshots | detailed specification |
| `Presence` | claims, attachments, poses and resumes of players, and what an observer is shown of them | composition of hub, session and observer |
| `EditStream` | how a client follows the edits of others: publication, overflow, resync, frames, floors, tickets, products, reconnects | composition of session and client loop |
| `ChunkPipeline` | the client's chunks from the scheduler to the screen: focus, tickets, meshes, canonical cuts, staged world changes | composition of scheduler, client loop and renderer |
| `TerrainCut` | the cut builder of the virtual terrain: visiting the quadtree, balancing levels, blockers, handoffs | operators, constants and their assumptions |
| `VirtualTerrain` | the terrain frames of the client: directories, cached pages, admission and eviction, publication, certification, commit, movement, edits | composition of client loop and renderer |
| `MC...` | small instances for TLC, one per module above that has constants to define | model checking |
| `...Proofs` | theorems about the module they are named for; `GenerationProofs` about both generation modules, `TerrainProofs` about `TerrainRegions` and `VirtualTerrain` | proofs |

### EditAuthority and the code

`Begin` is the call of `apply` up to the protected-spawn test. `LockPlayer` and `LockRegion`
are the two `KeyedLocks` acquisitions; regions are locked smallest first because
`edit_regions` returns a `BTreeSet` (`NextRegion`). `Replay`, `Refuse` and `Plan` are the
three outcomes of the first critical section with the planning behind it. Planning runs
without the state mutex, but reads only the snapshot taken under it, so it is one step with
that section; what the model keeps is that any number of other steps may come between
`Plan` and `WriteMemory`. `WriteMemory` and `Commit`/`Rollback` are the second critical
section, split in two because a crash or a failed transaction can fall between them; `inner`
records that the mutex is held meanwhile. `Commit` is `persist_action` (one SQLite
transaction, hence one step) followed by the revision bookkeeping. `Refuse` may happen
whatever the command is: unknown player, stale session, old id, occupied or unaffordable
placement and any database or generator error end the same way. `Restart` is a crash at any
moment followed by `from_connection` and `install_protected_spawn`. SQLite runs in WAL mode
with `synchronous=NORMAL`: a committed transaction survives the process, which is the crash
modelled; power loss is not.

`Sampled` and `Affected` are constants. `ProductKeyIdentifiesContent` depends on their
relation, `SampledAssumption`: a voxel a chunk's product is built from counts the chunk among
those it affects. `EditRules` states the geometry of `EditMap::affected_chunks` (`AxisChunks`) and
of the mesher's one-voxel shell (`InShell`) for any chunk edge; the lemma `ShellIsAffected` of
`EditAuthorityProofs` shows that with the edge of 32 the geometry satisfies the assumption on each axis, and
`MCEditAuthority` computes both constants from it with an edge of 3, so TLC checks the assumption too.

### EditRetry and the code

Each player has one transport (`link`, `opened`, `nextOp`, `pending`, `attempts`), two frame
queues and a presence claim. `Dial` is `run_session` from `join` to the queued `WorldOpened`;
it needs the claim to be free, so a half-open old connection makes the reconnect fail
(`DialFails`) until `EndSession`. `ReceiveOpened` resends all pending edits in operation-id
order. `ReceiveStale` is the reissue after a rotation. `Serve*` are the edit branch of the
select loop, one command at a time; `ServeRejected` stands for presence and for every refusal
of the authority, and may hit a command that has a receipt, because presence is asked first.
`Reload` is a page reload: a new transport that starts counting at 1.

### GenerationLimiter and the code

A caller is one call of `acquire` with the permit it returns. `available`, `laneWaiters` (`waiters`) and
`consecutive` are the fields of `State`; `queue`, `stored` and `notified` are the three
`tokio::sync::Notify`, a library modelled from its documented contract (first come first
served, one kept notification, a dropped `Notified` passes its notification on). The code
never holds the limiter's mutex while it touches a `Notify`, so each of the two is a step of
its own: `Enable` before `Grant`/`Decline`, and `signal` as `Decide` (under the mutex) and
`NotifyLane` (`notify_one` after it was let go). A cancelled `acquire` is a dropped future:
`Cancel` drops its `Notified` and `Leave` its `Waiter`, in that order, and the latter
signals. `Release` is `Drop` of the permit. `overtaken` is history for `BoundedBypass` and
guards nothing.

### GenerationFlights and the code

`CheckOpen` and `Insert` are the two looks at `closed` in `SessionRequests::insert`, the second
under the lock that `Sweep` takes after `Close`; `Enqueue` is `try_send` on the job queue, which
refuses when it is full. `CancelRequest` sets the request's signal and `Nudge` notifies the
dispatcher later. `Prune`, `ReceiveCompletion`, `DropJob` and `StartJob` are the branches of
`run_generation_dispatcher`; its `select!` is biased, but conditions change between two polls,
so the model takes the branches in any order, which allows more behaviours than the code has.
A generation is `Generate` (the permits arrive; a count here, `GenerationLimiter` in full),
`Emit`/`Send` (the cancellation check of the callback, then `blocking_send`, which can block in
between), `Fail`, `GiveUp`, `SendError` and `Return`. A request's id also stands for its batch
and for the generation its misses start: the dispatcher hands out both ids once per request.
`Deliver` is the delivery task with the socket writer: it takes the first failed product or
the whole batch; assembling bytes, the response cache and the framing are not modelled. The
product cache counts products where the code counts bytes. `Kept` picks the elements of a sequence in order,
which is how the dispatcher divides a batch into hits, shared flights and misses.

### EditStream and the code

One client is modelled in full; the other players are only their sessions (`Editor`). The
authority is reduced to `log`, the volume of each commit, and `Apply` is one step because
`EditAuthority` refines `EditLedger`. A voxel's content is the revision of the commit that wrote
it, so that "older" and "newer" can be told apart.

`Aim` is `connections_near_voxels`, worked out before `publish`. `Reserve` is `try_reserve` under
the subscribers mutex and `MarkOverflow` the store of the flag under the same mutex; they are two
steps because the receiving session takes that mutex for neither its queue nor its flag.
`Pop`, `Forward`, `Discard`, `Drain`, `Recheck` and `Resync` are the commit branch of the
session's select loop with `discard_stale_after_overflow`; `ApplyOwn`, `Answer` and `Replay` are its
edit branch, `Serve` its chunk branch. While an `apply` of the client is awaited the loop does
nothing else.

`wire` holds what was queued and not yet handled. `Sendable` is the order the outbound queue
and the traffic shaper keep: answers, errors and resyncs are critical and are neither overtaken
nor held up; commits of others keep their own order; products come in any order. A product is
put on the wire in the step that takes its snapshot, since it may be sent at any time from then
on. This is where a product and the commits it contains race: accepting
a product records no floor for its voxels, so a commit published late can take back a newer write
until that one arrives too. `NeverBehindWhatItWasTold` is therefore relative to what the client was
told.

`HandleCommit` is `apply_durable_edits` with `apply_resident_mutations` and `mark_chunks_edited`,
`HandleResync` is `resynchronize_world_products`, `HandleProduct` is `accept_generated_chunk`,
`Request` the scheduler's generation stage and `RequestFails` a batch that timed out or was refused.
The stage "loaded" covers every scheduler state from meshing on. `Break` is a lost connection
together with the new one: the queue, the frames and the pending batches go, and floors, tickets
and chunks stay. Answers still under way become `replays`.

Left out: eviction and walking out of the interest radius (`ChunkPipeline` has them), the meshing and
upload stages behind "loaded", terrain pages, which have floors of their own, and revisions that wrap
around.

### WorldSocket and the code

One tab and its sessions. `Submit` is any of the four `send_*_request`: a full window cancels
`Candidate` first, on the same ordered socket, and a timer that cannot be armed takes the request
back. Timers are never disarmed; each of them fires once and finds out whether its time has passed
(`TimeoutRequest`, `DialIsLate`, `ReconnectIsDue`). `Disconnect`, `DetachSocket` and `Close` are the
functions of these names. The session reads the socket in order (`ReadRequest`, `ReadCancel`) and
keeps the slots of `SessionRequests` in `inflight`; a task ends in `TaskQuits` or `TaskAnswers`; the
writer takes any lane next (`Send`), drops cancelled frames at the head (`DropCancelled`) and gives
a slot back only after the last byte was sent (`Release`, a step of its own because the socket is
awaited in between). `pace` is the fragment size the shaper allows: it changes with the measured
rate, between two pieces of one frame too. A request has one terminal frame; the per-product frames
before it are of the same kind. A socket and its session end together, because nothing the session
does afterwards reaches the client; what closing leaves to clean up on the service is in
`GenerationFlights`. `Pace` is not empty: the shaper always allows some fragment size.

### TerrainRegions and the code

`Ask` to `Return` are the awaits of `ensure_region`: cache hit, flight lock (`Join`), the second look
at the revision (`Recheck`), the permits, the spawned build, its answer. A build is `Snapshot`, one
`ReadPageRevision` per page of a coverage root (the edit authority is asked again for each), and
`Verify`, which compares revisions and tries again up to the attempt limit. `Cancel` drops a caller at
any await while the build goes on and owns lock and permits, until `End`. `Finish`/`Forgotten` and
`Abandon`/`Abandoned` are the two ways a flight is forgotten; the reference count of the lock is
`InUse`. `Lock` is a finite set of lock identities, so `Join` takes one that nobody uses, which bounds
the locks alive at once (the instance has three for its two callers). `Bytes` adds up the cache, the value
`retained_bytes` ought to have. `content` is history: the columns a region shows, by last commit. Sampling,
simplification and page encoding are data.

### Presence and the code

`Load`, `Join`, `SaveResume` and `LeaveWorld` are the session's part, `Attach`, `AcceptPose` and
`DropAttachment` the presence socket's, `Tick` one pass of a stream: who is near, who left, whose
poses changed, as far as the record limit allows. `Open`, `Disconnect` and `Receive` are the
observer's `presence_remote.rs` and `RemotePresenceTimeline`. Poses carry the sequence at which the
body last jumped; a track (`Track`) is what the observer interpolates, `Known` what a stream remembers to have
sent of a player. Movement budgets are reduced to moving
between neighbouring places, the clock to the order of events. Not modelled: a final pose read in the
same poll as the socket's close, which the biased select of the socket loop drops.

### ChunkPipeline and the code

`Frame` is `stream_frame`: the focus moves (`Refocused`, with the retention margin and the budget),
each stage starts up to its budget (`Started`), requests go out, meshes are built, canonical cuts
whose chunks are all meshed are staged (`Published`), the other uploads go alone (`UploadedAlone`), and
what was evicted is dropped everywhere (`Drained`). `failing` are the chunks whose upload or request
is refused. `Hear` and `Observe` are `apply_durable_edits` with `register_canonical_publication`
(`Merged`, `Superseded`), `Resync` is `resynchronize_world_products`, `Receive` and `RequestFails` the
completions. `staged` is the renderer's list of pending world changes; `Present` is
`commit_virtual_client_view`, which needs current terrain pages and every staged change prepared.
`fence` is the page revisions last presented; the rest of the virtual terrain is abstracted to it. Each page
is presented at a revision of its own (`PageRevisions`): the publication records the revision of every selected
page (`render/src/renderer.rs:7731-7749`), and pages come from directories built from different snapshots of the
server, so the fence may mix old pages with pages that show commits the client has yet to hear of.
Chunks are places on a line; a voxel is shown by the set of commits it holds. Left out: halos,
surfaces and edit envelopes, which are stored and dropped with the chunk; a product whose source
coverage is unavailable, whose ticket the code leaves in flight on purpose. `late`, `aside` and `overlaid` are
history, read by no action: a commit was heard after a later one; a commit touched a chunk that is kept but no
longer wanted; a commit was not held back, because the presented pages show it already, while an older mesh of a
chunk of its cut was staged.

### TerrainCut, VirtualTerrain and the code

`SelectCut` is `select_cut_internal`: `Visit`, `Balanced` (`balance_surface_lod`), `Closed`
(`close_surface_handoffs`), then the partition test and what makes a cut renderable. Pages keep one of
their two axes: two children and two neighbours instead of four; that a cut is a partition, that two
neighbours are at most one level apart and that blockers belong to edges is the same in one dimension.
Which pages projected error wants refined is data (`refine`, `coarsen` of a view, for pages that are not
and that are refined); `Incoherent` and `Unproven` say which pages fail the geometric tests. Passes are
counted as in the code, and a pass too many sets `overflow`: a loop of passes is its pass `Iterated`, and a
builder that has `settled` is left as it is.

`VirtualTerrain!Frame` is `stream_virtual_terrain` up to its selection, with the commit it begins with
(`try_commit_client_view_attempt`, `commit_virtual_client_view`), `Hydrate` one turn of the loop of
`hydrate_virtual_terrain_from_cache` and `FinishFrame` the rest: `prepare_virtual_terrain_publication`, the
demand, and a second attempt to commit, which succeeds at once when the bank on display already holds the
cut. `h` is `VirtualTerrainHierarchy`; `h.used` is the order that `last_selected_frame` gives, in place of the
numbers. `cut` is the renderer's plan, `Nothing` after `invalidate_virtual_terrain_desired_plan`. `Arrive` and
`Register` are the completions of pages and directories, `Certify` the GPU's feedback, `Move` a new
presentation envelope and `Invalidate` an accepted edit in both the shell and the renderer. `Trimmed`, `Reclaims`
and `Protected` are what a commit drops and what an admission evicts.

Left out: two leaves that meet with different source fingerprints at their edge
(`render/src/virtual_terrain.rs:2359-2371`), which keep a cut from being drawn without asking for a refinement
(`Mismatched` has the edges at which a coarser page can be refined, and fingerprints are data); the handle banks of
the GPU (a candidate is certified or not), seams, byte and primitive
capacities (the page count stands for them), the solver that scales the screen error, retiring of distant
roots, reproduction of screenshots, request windows, retry delays and the ranking of groups.

## 3. Runs

| Run | Question | Instance |
|---|---|---|
| `authority` | at most once, atomicity (`RefinesLedger`), memory = database, product keys; every `apply` returns | 2 players, 2 threads, 2 sessions, operation ids {1, 2}, digs and a place around one hole, over a region border and a chunk corner; few commands per player (`Sends`); 1 retained receipt, with fairness |
| `retry` | at most once end to end; every edit is answered | 1 player, 3 sessions, 2 edits, ids to 6, at most 2 unanswered, 2 retained receipts, one failed reconnect, with fairness |
| `limiter` | exact counters, bounded bypass, turns and progress | 3 tasks, one that comes to the ordinary lane, one to the immediate, one to the ordinary or the collision lane; 1 permit, a turn after 1 immediate grant, with fairness |
| `flights` | nobody waits for a completion that is not coming; no foreign cancellation; the closing sweep is final; every request settles | 2 sessions, 2 requests that share a product, every queue, cache and worker count 1, window 1, with fairness |
| `stream` | no chunk behind what the client was told; no silent gap after an overflow; the chunk loads | 2 editors and the client, 1 chunk, a queue of 1, 3 commits, 1 lost connection, with fairness |
| `regions` | regions are snapshots; permits, bytes and flights are accounted for; answers are fresh; calls return | 2 callers (one impatient), a coverage root and an exact region that share a column, a cache that holds one of them when both are edited, 2 commits, 1 failed build, with fairness |
| `presence` | attachments, views, tracks; everyone near is seen | 1 player that joins twice, 3 sockets, 3 poses, 1 observer that loses its socket once, 1 record per delta, with fairness |
| `world_socket` | the window, cancellation, slots | 2 requests, a window of 1, 2 settling windows, answers of 2 or 3 quanta, fragments of 1 or 2, one lost socket, one change of pace, with fairness |
| `chunk_pipeline` | current voxels, held work, whole cuts, resident is shown, nothing blocked | 3 chunks on a line, 2 of them tracked, one wanted only some of the time, budget 1, 2 events (commits or mishaps) |
| `virtual_terrain` | cuts are legal and stable, proofs are current, owners stay, the view is completed | 2 roots of 4 leaves, 3 views, 2 moves, 1 edit, 12 pages, 2 groups per frame, one unproven handoff, with fairness |
| `stream_gap` | the claim of `docs/multiplayer-scaling.md:191` | 3 commits, no lost connection: violated |
| `socket_strand` | the claim of `docs/native-world-streaming.md:80-81` | as `world_socket`, no lost socket: violated |

More configurations are kept beside the runs. TLC finds seven of them violated: `EditRetry_pruned.cfg`,
`EditStream_reconnect.cfg`, `Presence_resume.cfg`, `ChunkPipeline_late.cfg`, `ChunkPipeline_kept.cfg`,
`ChunkPipeline_mixed.cfg` and `VirtualTerrain_oscillation.cfg` (see the findings). Three pass: `EditAuthority_retry.cfg` (one player who may
send anything; `RevisionsNeverReused`, `Conservation`), `WorldSocket_order.cfg` (`FragmentsFit`,
`TimersKeepToTheirTime`) and `VirtualTerrain_deep.cfg` (roots of eight leaves).

Why the bounds are enough: two threads and two regions make the smallest lock cycle; two
players contend for voxels, one player on two threads contends for an inventory; one retained
receipt makes every second operation prune; two sessions make one rotation with an operation
in flight and three make a reissue of a reissue; a chunk corner makes one voxel affect four
chunks. `Sends` says which commands a player sends, so that there are few but
conflicting ones. The number of operations is bounded by `Session` and `OpId`, since an id is executed
once per session, so no other bound is needed. In `EditRetry`, `MaxOp` bounds reissues and
`Window` the unanswered edits; `Window <= Retained` in the passing runs is a real limit of
the program, not a convenience: see the finding.

In the limiter, one permit makes every second task wait, and its three tasks can be the holder, the
waiter that was notified and one that gives up at that moment; tasks come back after they
leave, so the number of calls is not bounded. A turn limit of 1 in place of the code's constant
makes the turn change hands at every second grant. In the flights, with every limit at 1 all
channels are full in reach: a generation blocks on the completion channel, a request meets a
full job queue, the cache evicts. The two requests overlap in one product: one starts it, the other
shares its flight or starts it again while the old completion is under way.
`Window`, `SettlingWindows`, `QueueLimit`, `ChannelLimit`, `Workers` and `CacheLimit` stand for
constants of the program, not for bounds of the exploration; requests are finitely many, each
sent once.

In `EditStream`, `MaxRevision` and `MaxBreaks` bound the exploration; the queue of one commit is the
code's `change_queue_capacity` made small enough to overflow. Three commits are one that fills the
queue, one that finds it full and one after the resync, or two published in the opposite order of
their revisions around a product.

In `WorldSocket`, two requests fill a window of one, preempt, are refused in the race, and leave one
fragmented answer cancelled under way; `MaxTransfers = 1` makes a second open transfer an error. The
backlog limit of cancelled requests is not reached with two. The safety properties were also
checked once with three requests (3.6 million states). In `TerrainRegions`, two commits make a build
start again and meet the attempt limit; in `Presence`, two connections and three sockets are a late
socket of the first connection beside two of the second. In `ChunkPipeline`, `MaxEvents` counts
commits and mishaps together; two are a cut and a resync, or two overlapping cuts, or one and a failed
upload. Two tracked chunks of three make the focus evict, and an interest that comes and goes leaves a chunk that is
kept and not wanted. On the two chunks of `ChunkPipeline_kept.cfg` the safety properties were also checked
with three events (237,601 states). Two of its three chunks share a page and one has its own, so an edit of two chunks
changes a page that an edit of one does not: enough for presented pages to be older than one staged edit and newer
than the next.

In `VirtualTerrain`, roots of level 2 are the lowest that can be two levels above a leaf of the
neighbouring root, so that balancing has something to do. Twelve pages are more than one cut with its
ancestors needs and fewer than two views need: admissions evict. With ten or eleven the pages of the cut
on display and those of the next one do not fit together and a move is never completed, which is a
question of capacity, not of order. Several unproven level-one pages in a row can use up the passes of
`close_surface_handoffs` (root level plus one); the run has one, and the code's root level of 10 allows ten in a row.

Runs of modules whose instance ends (last revision reached, every frame handled, sockets used up)
do not check for deadlock: the system has nothing left to do there.

Symmetry is used for sessions and threads in `EditAuthority_retry.cfg` only, which has no liveness.

### Fairness

`EditAuthority!FairSpec` gives each thread weak fairness of its next step as a whole. That is
all a `std::sync::Mutex` promises: a lock that is released over and over may be taken by
others for ever, so `EveryApplyFinishes` is stated for executions in which commands
eventually stop arriving. `EditRetry!FairRetrySpec` lets timers fire, sessions serve what
they read, delivered frames be handled, and each end notice that the other is gone (socket
close or keep-alive). The network is not assumed to be fair: `EveryEditIsAnswered` is stated
for executions in which connections eventually stop breaking.

`GenerationLimiter!FairLimiterSpec` lets every caller go on where it does not wait for another
(the runtime polls ready tasks, generation terminates, so permits come back); nobody has to
arrive or to give up. `EveryWaiterIsServed` has two halves: `OrdinaryLaneIsServed` supposes that collision work eventually stops,
which outranks everything for ever; the other supposes that callers stop coming.
`GenerationFlights!FairSpec` lets the dispatcher take each branch that stays ready, generations
and deliveries advance, and a sweep that was started finish; no client has to send, cancel or
disconnect. A socket writer either drains its queue or fails its connection, so `Deliver` is fair.

`EditStream!FairSpec` lets publications, the session loop, the writer and the client's frame loop
go on; nobody has to edit, and nothing has to fail. `ChunksLoad` supposes that batches eventually
stop failing; edits and lost connections are finitely many by the bounds.

`TerrainRegions!FairSpec` lets callers and builds go on, and gives a caller strong fairness of taking
the region permit, because tokio's semaphore is first come first served; no edit, failure or impatience
is forced. `Presence!FairSpec` lets every stream tick, a lost observer socket be noticed, and the
observer open its socket again and read it; nobody has to move or to speak. `WorldSocket!FairSpec`
lets the session read, the tasks work and the writer write; neither the client nor the network has to do
anything. `ChunkPipeline` states no fairness: its safety properties `WorkIsHeld` and
`NothingBlocksTheTerrain` say that whatever is under way has somebody to finish it, and a frame
always comes. `VirtualTerrain!FairTerrainSpec` lets frames begin and end (stated on `streaming` alone: whatever
they do), what is asked for arrive, canonical chunks be uploaded and candidates be certified; a directory
needs strong fairness because a frame in progress holds it back. Nobody has to move or to edit.

### Findings

`EditRetry_pruned.cfg` refutes a comment: `world/src/protocol.rs:522-523` says a command is reissued
only when the server "explicitly proved" it absent, and that a stored old-session operation
"must never call this". Receipts are pruned (64 per player) while the transport's
`pending_edits` is unbounded. When more edits are unanswered than receipts are kept and the
connection breaks, the oldest executed edit no longer has a receipt; its retry under the
rotated session is answered "edit session is no longer current", and the transport reissues
it. The edit is then executed a second time. Inside one session the watermark prevents this
(`AtMostOnce`).

`stream_gap`: `publish` stores the overflow flag after the failed reservation, and the session looks
at the flag only after it has popped a commit (`edits.rs:575`). If the session empties the queue in
between, the dropped commit is followed by no resync until another commit happens to be published
to the same connection. `docs/multiplayer-scaling.md:191` promises an explicit resync "instead of
silently dropping state". `NoSilentGap` states what does hold: with the flag down and nothing
under way, nothing was dropped unannounced.

`EditStream_reconnect.cfg`: nothing tells the client which commits were published while it was away.
`OpenWorld` carries no revision, the new subscription starts empty, and the shell keeps its chunks.
`docs/20260713-local-world-service-plan.md:514` lists resuming "changes from its last revision" as a
correctness gate. Kept chunks stay without those edits until they are evicted or edited again.

`socket_strand`: `take_next_wire` decides for every piece whether the frame is to be split. When the rate
has risen since the first fragment, the whole frame is sent after all
(`world-service/src/server.rs:1188`), and the transfer begun before is neither completed nor aborted.
`docs/native-world-streaming.md:80-81` says such state is not stranded. The client keeps one of 32
reassembly slots until the socket closes; the 33rd transfer is a protocol error. `FragmentsFit`
states what holds: within the limit every fragment is the one the reassembler expects.

`Presence_resume.cfg`: `docs/native-world-streaming.md:94-95` says the last accepted pose becomes the
reconnect resume point. `run_session` saves the resume once (`server.rs:2022`) and lets go of the claim
only after its writer has ended; poses accepted in between are never saved. A session that loads the
resume before the old one has saved it joins with the older one too (`server.rs:1674`).

`ChunkPipeline_late.cfg`: "The newest scheduler capability wins for overlapping chunks"
(`shell/src/lib.rs:3843`). Commits of different connections can arrive out of order; an older
revision's cut that is staged last is prepared from the newer mesh or presented over it:
`stage_canonical_world_change` (`render/src/renderer.rs:8361`) uploads at once when its revision has no
pending change, without looking for an older staged upload of the chunk, which is then presented last.

`ChunkPipeline_kept.cfg`: order alone does not save it. A chunk whose interest has passed stays resident until
something nearer needs its place. If its last change is prepared but not yet presented and it is edited
again, the new edit opens no cut for it (only wanted chunks are joined), it is remeshed and uploaded alone,
`upload_chunk` puts the mesh in use at once (`render/src/renderer.rs:8474`), and the next
`commit_virtual_client_view` presents the older staged mesh over it (`renderer.rs:7911-7918`). The chunk stays
on display without the newer edit until it is remeshed.

`ChunkPipeline_mixed.cfg`: nor do order and wanted chunks save it, because every page of the presented terrain has
its own revision. Let commit 2 edit chunks 1 and 2 and commit 3 chunk 2 alone, and let the page of chunk 1 be
presented from before both, the page of chunk 2 from after both, while the client has heard of neither. Commit 2
opens a pending change, since one of its pages is older, and its mesh of chunk 2 is prepared in it. Commit 3 opens
none, since its page shows it already; its mesh is uploaded at once (`render/src/renderer.rs:8357-8362`), and
`commit_virtual_client_view` then presents the older one over it. The three configurations differ in the condition
they leave out (`ShownIfOnTime`, `ShownIfWanted`, `ShownIfHeldBack`), so each of the three is needed.
`ResidentIsShown` holds while commits arrive in order, no edit touches a chunk that is kept but not wanted, and no
edit is let past an older mesh staged of a chunk of its cut.

`VirtualTerrain_oscillation.cfg`: "Logical pages are retained while a replacement/balance component is
unresolved so sibling groups cannot oscillate" (`render/src/renderer.rs:8205`). But preparing a cut that is
already on display commits it in the same frame, and `discard_unselected_virtual_terrain_logical_pages`
drops every page that cut does not select, unresolved or not (`renderer.rs:8214`). When a refinement needs two
groups and a frame gets to install only one of them (hydration stops after 2 ms,
`shell/src/lib.rs:5137`), each frame installs a group and drops it again, and the detail never
comes. With two groups per frame `ViewIsCompleted` holds.

## 4. Proofs

### EditAuthority

`EditAuthorityProofs` proves, from the assumptions named in `EditRules` and `EditAuthority`
(finite sets of players and voxels, positive ids, the spawn geometry inside the protected
disc, volumes that are not empty):

| Theorem | Property | Argument |
|---|---|---|
| `TypeCorrect` | `TypeOK` | `TypeInv` = `TypeOK` and `WorkerInv`: a thread past a stage has a command, a plan, and the undo record of the voxels it wrote. A place is planned only with enough units and the inventory it was planned on is the one debited, so counts stay natural numbers. |
| `ExecutedOnce` | `AtMostOnce` | `LockInv` (whoever is past the player lock holds it, so a player has one operation between plan and commit) and `SessionInv` (every logged operation of the current session is at or below the watermark, and a planned one is above it, and no logged session is unissued). |
| `RevisionsIncrease` | `RevisionsNeverReused` | `RevisionInv`: the logged revisions are bounded by the world revision, which every change advances, and memory is never behind the database. |
| `DatabaseOpens` | `RestartAccepts` | from the same invariant |
| `ProductsAreCurrent` | `ProductKeyIdentifiesContent` | `ProductInv`: the revision a product carries is one its chunk has had; if it is still the chunk's revision, then no commit affected the chunk since, hence, by `SampledAssumption`, none wrote a voxel the product is built from. |
| `MemoryIsDurable` | `MemoryMatchesDatabase` | `MemoryInv`: while the mutex is held for a write, memory is the database with exactly the plan of the holder written over it (`Ahead`), and the undo record holds what was there before. Needs that the written voxels are not protected, so that writing commutes with the spawn overlay (`WrittenBelowOverlay`). |

None of these properties is inductive alone; the invariants above are what the steps
preserve. Each proof has one lemma per group of actions and a step per conjunct that the
action disturbs; facts about the operators of `EditRules` are lemmas of their own.

The refinement comes last in that module. `ImplementsLedger` (`RefinesLedger`) says that an
edit planned without the state mutex takes effect as if it were planned and executed at once, with its
commit. The refinement mapping is the database. What it needs beyond the invariants above is `PlanInv`: between
`Plan` and `Commit` a worker's plan stays what `EditLedger` would compute now, because a plan reads only the
volume of its action (`PlanReadsVolume`) and the inventory of its player, and another worker that commits
meanwhile holds neither a region of that volume nor the player's lock. `Commit` is then `Execute`, `BeginSession`
is `Rotate`, and every other step stutters, crashes and rollbacks included.

### EditRetry

For any players, sessions, edits, window and attempt limit, `EditRetryProofs` proves:

| Theorem | Property | Argument |
|---|---|---|
| `RetriesStayInOrder` | `CurrentCommandsArriveInOrder` | `UpInv`: commands on their way have increasing ids, and those of the current session are above the watermark |
| `RetriesTakeEffectOnce` | `EditsTakeEffectOnce` | `RetainedInv`: an unanswered edit was executed exactly if its receipt is there; `AnswerInv`: what an answer says of an unanswered edit is so |

The first rests on `ShapeInv` (`RetryShape`): of the two ends of a connection (`LinkInv`), of ids and sessions of unanswered
edits (`PendingInv`), and of the flow of commands and answers (`FlowInv`: answers come in the order of the ids, before
what is still to be served, so an answer always settles the oldest unanswered edit). Old-session edits have smaller ids than those
of the current session because a reissue takes a fresh one, and resending sorts by id (`InOrderIs`: finitely many commands
with distinct ids have exactly that order).

The second needs the hypothesis `Window <= Retained`, and the proof shows where: every receipt younger than that of an
unanswered edit belongs to a younger unanswered edit (`RetainedInv`), so the receipts from it on are at most `Window`
(`FewReceipts`, an injection) and pruning spares it (`ExecuteOnce`). Without the hypothesis `EditRetry_pruned.cfg` is a counterexample.

### GenerationLimiter

From finitely many callers, a positive capacity and any turn limit, `GenerationProofs`
proves with the invariant `LimiterInv` = `ShapeInv` (types, counters as integers),
`CountersAreExact` and `BypassInv`:

| Theorem | Property | Argument |
|---|---|---|
| `PermitsAreCounted` | `CountersAreExact` | each step moves one caller between the counted places and adjusts the counter by one with it |
| `LimiterTypeCorrect` | `LimiterTypeOK` | a counter that equals the size of a finite set is a natural number, so no subtraction of the code underflows; the permits in use bound `available` |
| `BypassIsBounded` | `BoundedBypass` | `BypassInv`: what a waiting ordinary caller was overtaken by is at most `consecutive`, because an immediate grant while one waits counts one up and is refused at the limit |

### GenerationFlights

In the same module, for any sessions, requests, products, priorities and limits (`FlightAssumption`; requests name no product
twice, as the decoder makes sure):

| Theorem | Property | Argument |
|---|---|---|
| `ClosingIsFinal` | `SweptStaysSwept` | `SweepInv`: a session being swept or swept is closed; the second look at `closed` makes it inductive |
| `FlightsTypeCorrect` | types | no product is settled twice: `CountInv`, a generation counts exactly the flights that name it as their producer |
| `FlightsAreServed` | `FlightsServeTheirWaiters` | `ListedInv`: a pending batch is listed in the flight of every product it lacks, and that flight has a producer; `PromiseInv`: whoever produces a flight will still report on it, from its task or in the channel |
| `CancellationStaysAtHome` | `NoForeignCancellation` | `SpentInv`: a generation that reports cancellation has no flight any more, so the report finds nobody listed; it stops only when `CountInv` says its flights are gone, and a product started again belongs to another generation |

`FreshInv` (a request not started has left no trace), `TaskInv` and `QueueInv` are what these rest on.

### EditStream

For any editors, voxels, chunks, volumes, queue capacity and number of lost connections, `EditStreamProofs`
proves `TypeCorrect` and:

| Theorem | Property | Argument |
|---|---|---|
| `GapIsNeverSilent` | `NoSilentGap` | `GapInv`: a commit published to the connection is in the queue, in a hand, behind the overflow flag or a resync, on the wire, or told (`Conveyed`) |
| `ClientIsNeverBehind` | `NeverBehindWhatItWasTold` | `FloorInv`: floors and watermark speak exactly for what the client was told; `ProductInv`: a product whose ticket is still current shows what was told; `ContentInv`: so does a chunk in use |

The step that is not obvious is the resync, which clears all floors and keeps one watermark. It loses nothing because no
floor is newer than that watermark, which is `OrderInv`: nothing the client was told, and no commit on the wire
before a resync, is newer than the resync. It holds because a resync is of the critical class, like the client's own answers, and
is queued after them on one ordered lane. Put a resync in a lane that others overtake, and the proof fails where
a floor is cleared that was newer.

### TerrainRegions

For any roots, pages, columns, commits, budgets and workers, with `Shape` (types, and that callers, locks and builds
are where their stages say: `TypeCorrect`):

| Theorem | Property | Argument |
|---|---|---|
| `NobodyStaysDetached` | `NobodyIsDetached` | who waits for a lock is in its queue, and the flight of a root is forgotten only by the last one who shares it |
| `CallersGetFreshRegions` | `AnswersAreFresh` | `FreshInv`: the revision a caller read when it asked is at most the root's now, and at most the one its build started from |
| `ResourcesStayAccounted` | `ResourcesAreAccounted` | `PermitInv`: free permits, callers and builds that hold one add up to the workers; `CacheInv`: the byte count is the sum over the regions kept, one per root, after replacing and evicting |
| `RegionsStaySnapshots` | `RegionsAreSnapshots` | `SnapshotInv`: a region being built was copied after some first n commits (`Copied`), and `Verify` lets it pass only if its columns have not changed since; one that passed is `Settled`, and no later commit contradicts it |

### Presence

For any players, places, sockets, connections and record limit:

| Theorem | Property | Argument |
|---|---|---|
| `OneSocketPerAttachment` | `AttachmentsHaveOneSocket` | every live attachment is related to its socket, and no socket serves twice |
| `ResumesAdvance` | `ResumeNeverGoesBack` | the database compares revisions in the statement that writes |
| `ViewIsTold` | `ViewFollowsStream` | `SightInv`: the stream's memory is the view of the tracks as they will be when the one frame on its way has arrived (`Told`) |
| `TracksSpanNoGap` | `NoTrackSpansAGap` | `Sound` of the tracks now and of `Told`: a track belongs to one connection, is not ahead of the claim, and has no gap inside (`Gapless`); `ClaimInv` and `GapInv`: a claim's last jump is not behind any recorded gap of its connection |

### WorldSocket

For any window, settling windows, ranks, answer lengths, fragment sizes, attempt limit and number of failures,
`WorldSocketProofs` proves with `SocketInv`:

| Theorem | Property | Argument |
|---|---|---|
| `NobodyWorksInVain` | `WorkIsWanted` | `ToldInv`: a live slot, and a request still on the socket, is waited for or its cancel follows; only a slot whose answer is out may outlive the wait (`SlotInv` says of every last piece on the wire that its slot is not live or is the one being released) |
| `RefusalsAreRaces` | `RefusedOnlyByARace` | `QueueInv`: a request is the first message about its id, so it is new to the session; `RoomInv`: whatever request the session comes to, at most `Window` requests are wanted by then (`Wanted`), because a preempted one's cancel comes before its replacement |
| `TimersAreHarmless` | `TimersKeepToTheirTime` | `TimerInv`: a request timer whose request is still waited for was armed under this socket; a dial timer carries its socket; a waiting client has armed exactly the one reconnect timer it waits for; without an open connection nothing is on the wires |

That `Candidate` names a pending request of a lower class (the newest of the least valuable) is a lemma over any
set of ids (`CandidateIsPending`), from the least-number principle.

### ChunkPipeline

For any finite set of chunks, places, interests, cuts and pages, and any radius, margin, limit, budget and
number of events (`PipelineAssumption`; `NoneAssumption` says that `None` is none of the
values it stands in for: a set of commits, an entry, a ticket, a mesh).

| Theorem | Property | Argument |
|---|---|---|
| `VoxelsStayCurrent` | `VoxelsAreCurrent` | `CurrentInv`: a request whose ticket is still active was asked for after the last resync, so its product holds every commit up to the watermark, and the floor kept for the chunk holds the later ones (`TicketInv`); serials of entries are `Fresh`, so no ticket of an earlier life of the chunk is active |
| `CutsStayWhole` | `CutsAreWhole` | `CutInv`: cuts have servers and chunks of their own (`Apart`), and no chunk of a cut is resident at the revision the cut waits for (`Whole`); a new edit's cut replaces those it overlaps |
| `TerrainIsNotBlocked` | `NothingBlocksTheTerrain` | `Awaited`, another part of `CutInv`: a change that is not prepared has a cut with chunks to wait for |
| `WorkStaysHeld` | `WorkIsHeld` | `HeldInv`: the upload ticket of the entry's revision is the active one (`Busy`), so whatever is completed or sent back was under way and the rest can be dropped; `Gone` of every chunk that was given up, `Works` of a frame that has yet to drop some; a chunk being uploaded is in a cut (`Grouped`), also after the cut is merged |
| `ResidentStaysShown` | `ResidentIsShown` | `ShownInv`: a resident chunk `Sees` its voxels (the newest staged upload of it holds them, or none is staged and they are shown), and what is staged of a chunk that is not resident will go, because a cut stands that replaces it and is staged no older (`Settled`, `Replaces`). Why the order holds: an edit heard in order is newer than whatever is staged (`StagedHeard`), and if something is staged of its chunks it opens a change of its own (`OpensOver`), which is presented last. This is claimed only while `InOrder`; the three findings of section 3 are the other cases. Nothing is assumed of the revisions the pages are presented at |

Each part of a frame has one lemma that says what it may do to the entries (`Follows`: no chunk comes into use and
no void request counts again; `Settles`: which chunks become resident; `Remains`: none is given up and no generation is begun), and the frame is their chain. Publication
visits the cuts one after the other by recursion over their number; that the recursive function exists is proved from
the least number at which it would fail (see below), and `Linked` carries `CutInv` from one visit to the next.

### TerrainCut and VirtualTerrain

In `TerrainProofs`, where `Init`, `Next` and `Spec` belong to `TerrainRegions` and `TerrainInit`, `TerrainNext` and
`TerrainSpec` to `VirtualTerrain`. For a page tree of any depth and number of roots, any incoherent and unproven pages,
views, edited leaves, capacity and frame budget (`TreeAssumption`, `VirtualTerrainAssumption`):

| Theorem | Property | Argument |
|---|---|---|
| `ProofsStayCurrent` | `ProofsAreCurrent` | `Stands`: a page that becomes coherent is new or the parent of a new page, so the two places `install_page` looks at are enough; a page that stops being coherent is gone or the parent of one that is, which `remove_page` takes out |
| `OwnersKeepTheirPages` | `OwnersStayResident` | `Owns`: a cut on display or frozen is `Grounded` (resident up to the roots) while it is current. Admission spares the cut on display, and no group is admitted while another is frozen; trimming keeps what the new owner needs; an edit outdates every cut, because each owns the edited leaf |
| `GroundIsOwnedOnce` | `GroundHasOneOwner` (in `TerrainProofs`) | the selected pages are `Apart` (none under another) and, once drawable, `Complete` (no leaf without a page); two ancestors of one leaf are always one above the other |
| `SelectionsPartition` | `SelectionIsAPartition` (in `TerrainProofs`) | the same for every plan: where no root is without an owner the partition test succeeds |

The cut builder is proved about pass by pass. `Legal` is what `Visit` establishes and every refining, asking and
coarsening keeps, hence also any number of passes (`IteratedStays`): selected pages are grounded and apart, and none
is both forced coarse and refined. So two of the three guards behind `CutNeverTrips`, the partition test and the
disjointness of `next_balanced_refined` and `next_balanced_selected`, cannot fire for any tree; that the passes suffice is
only model-checked. The tree itself (`Key`, `Ancestry`) is reasoned about through `Iterated`, a function applied n times,
whose facts (`IteratedIs`, `IteratedTwice`) are proved by induction over a set of naturals.

### Only model-checked

- Liveness, and everything else under fairness: out of the prover's reach.
- `Conservation`: a sum over all voxels and players, still to be reformulated.
- `CutNeverTrips` as a whole and `SelectionIsStable` of `VirtualTerrain`: that balancing ends within `2 * (level + 1)`
  passes, and that selecting again from the frontier and blockers of a selection gives the same pages, are claims
  about what the iteration arrives at for every mixture of resident pages; no invariant of a single pass gives them.
- `FragmentsFit` and `NoStrandedTransfer` of `WorldSocket`.

Induction over the natural numbers is available in the form of the least-number principle for a set of naturals (`LeastNat`,
`LeastExists`, from the well-foundedness of `<`), so recursive functions over `Nat` (`Bytes`, `Kept`) are reasoned about;
the library's induction theorems with an operator as a parameter and `RECURSIVE` operators are not.

## 5. Not modelled, and the plan

Not modelled because there is nothing for a model checker to find: generation and meshing
(pure numerical functions of the seed), codecs, configuration parsing, drawing and
movement arithmetic, tooling. Their results appear as constants where needed (`Generated`).
The traffic shaper's estimator and token bucket are floating point; what the rest of the system
sees of them, a fragment size that changes and an order of lanes that may be any, is in
`WorldSocket`. Web shell, edge worker and bots keep little state of their own.

Next, in this order: the GPU handle banks behind `Certify` (`render/src/virtual_terrain_gpu.rs`), the demand
scheduler of `world/src/terrain_stream.rs`, the response cache of the dispatcher, the bots' and the web shell's small state machines. Theorems to add:
`FragmentsFit` of `WorldSocket`, `Conservation`.

## 6. Running

    tlc -workers 2 -config EditAuthority.cfg MCEditAuthority
    tlapm EditAuthorityProofs.tla

The longest proofs (`ChunkPipelineProofs`, `TerrainProofs`, `WorldSocketProofs`) take several minutes from nothing.

`PROJECT.json` lists the runs, the mutated definitions that show each property can fail, the
source lines behind every definition, the hazards and the theorems.
