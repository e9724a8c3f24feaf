----------------------------- MODULE EditAuthority ---------------------------
(***************************************************************************)
(* The durable edit authority of the world service                         *)
(* (world-service/src/edits.rs).  One SQLite database holds the sparse     *)
(* edits, revisions, players, inventories and retry receipts; an in-memory *)
(* copy of edits and revisions serves readers.  EditAuthority::apply runs  *)
(* on a blocking thread (a Worker) and holds, in this order, the editor's  *)
(* player lock, the lock of every horizontal region its stencil touches in *)
(* sorted order, and twice for a short while the mutex of the state:       *)
(*                                                                         *)
(*   Begin -> LockPlayer -> LockRegion* -> Plan | Replay | Refuse          *)
(*                          Plan -> WriteMemory -> Commit | Rollback       *)
(*                                                                         *)
(* Planning samples the generator without the state mutex.  The process    *)
(* may stop at any step; only the database survives.                       *)
(***************************************************************************)
EXTENDS EditRules

CONSTANTS
  Worker,       \* blocking threads that run apply
  Free,         \* the holder of a lock nobody holds
  Sends,        \* the sessions, ids and actions each player's clients send
  Sampled       \* [Chunk -> SUBSET Voxel], voxels a chunk product is built from

ASSUME WorkerAssumption == Free \notin Worker
ASSUME SendsAssumption == Sends \in [Player -> SUBSET (Session \X OpId \X Action)]
ASSUME SampledAssumption ==
  /\ Sampled \in [Chunk -> SUBSET Voxel]
  /\ \A c \in Chunk : \A v \in Sampled[c] : c \in Affected[v]

VARIABLES
  \* The database (the variables of EditLedger).
  overrides, revision, chunkRev, players, inventory, invRevision,
  session, maxOp, receipts,
  \* Memory of the running process.
  durable,      \* EditState::durable_edits
  edits,        \* EditState::edits, with the protected spawn on top
  memRevision,  \* EditState::revision
  memChunkRev,  \* EditState::chunk_revisions
  surface,      \* EditState::surface_revisions
  undo,         \* previous overrides of the edit being persisted, or None
  product,      \* one cached chunk product (chunk, key, content), or None
  \* Locks.
  inner,        \* holder of EditAuthority::inner between two steps
  playerLock,   \* [Player -> holder]
  regionLock,   \* [Region -> holder]
  \* Threads inside apply.
  pc,           \* [Worker -> stage]
  cmd,          \* [Worker -> Command or None]
  plan,         \* [Worker -> Plan or None]
  \* History, for the properties only.
  issued,       \* edit sessions handed out so far
  log           \* operations executed so far, in order

database == <<overrides, revision, chunkRev, players, inventory, invRevision,
              session, maxOp, receipts>>
memory == <<durable, edits, memRevision, memChunkRev, surface, undo>>
locks == <<inner, playerLock, regionLock>>
threads == <<pc, cmd, plan>>
history == <<issued, log>>
vars == <<database, memory, product, locks, threads, history>>

Command == [player : Player, session : Session, op : OpId, action : Action]
PlanRecord == [voxels : SUBSET Voxel, before : Counts, after : Counts, invRevision : Nat]
LogEntry == [player : Player, session : Session, op : OpId,
             changed : BOOLEAN, revision : Nat]
Product == UNION {[chunk : {c}, key : Nat, content : [Sampled[c] -> Override]] : c \in Chunk}
Stage == {"idle", "player", "regions", "planned", "writing"}

-----------------------------------------------------------------------------
(* What a thread sees and holds.                                           *)

Wanted(w) == RegionsOf(cmd[w].action)
Held(w) == {r \in Region : regionLock[r] = w}

\* The BTreeSet of regions is locked smallest first.
NextRegion_AnyOrder(w) == Wanted(w) \ Held(w)

NextRegion(w) == {r \in Wanted(w) \ Held(w) : \A q \in Wanted(w) \ Held(w) : r <= q}

AllLocked(w) == pc[w] = "regions" /\ Wanted(w) \subseteq Held(w)

Known(w) == HasReceipt(receipts[cmd[w].player], cmd[w].session, cmd[w].op)

\* The durable player must exist, the session be current, the id be new.
Admissible_NoWatermark(w) ==
  cmd[w].player \in players /\ session[cmd[w].player] = cmd[w].session

Admissible(w) ==
  /\ cmd[w].player \in players
  /\ session[cmd[w].player] = cmd[w].session
  /\ cmd[w].op > maxOp[cmd[w].player]

\* Returning from apply drops the guards and the thread's local state.
Release(w) ==
  /\ playerLock' = [p \in Player |-> IF playerLock[p] = w THEN Free ELSE playerLock[p]]
  /\ regionLock' = [r \in Region |-> IF regionLock[r] = w THEN Free ELSE regionLock[r]]
  /\ pc' = [pc EXCEPT ![w] = "idle"]
  /\ cmd' = [cmd EXCEPT ![w] = None]
  /\ plan' = [plan EXCEPT ![w] = None]

-----------------------------------------------------------------------------
(* EditAuthority::apply, step by step.                                     *)

\* A command arrives on a blocking thread; the protected spawn refuses it at
\* once.  The session is one the service handed out before.
Begin(w, p, s, o, a) ==
  /\ pc[w] = "idle"
  /\ s \in issued
  /\ ~IntersectsSpawn(a)
  /\ cmd' = [cmd EXCEPT ![w] = [player |-> p, session |-> s, op |-> o, action |-> a]]
  /\ pc' = [pc EXCEPT ![w] = "player"]
  /\ UNCHANGED <<database, memory, product, locks, plan, history>>

LockPlayer(w) ==
  /\ pc[w] = "player"
  /\ playerLock[cmd[w].player] = Free
  /\ playerLock' = [playerLock EXCEPT ![cmd[w].player] = w]
  /\ pc' = [pc EXCEPT ![w] = "regions"]
  /\ UNCHANGED <<database, memory, product, inner, regionLock, cmd, plan, history>>

LockRegion(w, r) ==
  /\ pc[w] = "regions"
  /\ r \in NextRegion(w)
  /\ regionLock[r] = Free
  /\ regionLock' = [regionLock EXCEPT ![r] = w]
  /\ UNCHANGED <<database, memory, product, inner, playerLock, threads, history>>

\* The operation has a receipt: answer it again (or refuse a different action).
Replay(w) ==
  /\ AllLocked(w) /\ inner = Free
  /\ Known(w)
  /\ Release(w)
  /\ UNCHANGED <<database, memory, product, inner, history>>

\* Unknown player, stale session, old id, obstructed or unaffordable placement,
\* a failed database read or source sample.
Refuse(w) ==
  /\ AllLocked(w) /\ inner = Free
  /\ ~Known(w)
  /\ Release(w)
  /\ UNCHANGED <<database, memory, product, inner, history>>

\* First critical section and the unlocked planning behind it: the outcome is
\* a function of the overrides and the inventory read here.
Plan(w) ==
  /\ AllLocked(w) /\ inner = Free
  /\ ~Known(w) /\ Admissible(w)
  /\ LET a == cmd[w].action
         before == inventory[cmd[w].player]
     IN /\ Plannable(edits, before, a)
        /\ plan' = [plan EXCEPT ![w] =
                      [voxels |-> Mutated(edits, a), before |-> before,
                       after |-> CountsAfter(edits, before, a),
                       invRevision |-> invRevision[cmd[w].player]]]
  /\ pc' = [pc EXCEPT ![w] = "planned"]
  /\ UNCHANGED <<database, memory, product, locks, cmd, history>>

\* Second critical section: both override maps are changed in memory first.
WriteMemory(w) ==
  /\ pc[w] = "planned" /\ inner = Free
  /\ LET S == plan[w].voxels
         m == Outcome(cmd[w].action)
     IN /\ undo' = [durable |-> [v \in S |-> durable[v]], edits |-> [v \in S |-> edits[v]]]
        /\ durable' = Written(durable, S, m)
        /\ edits' = Written(edits, S, m)
  /\ inner' = w
  /\ pc' = [pc EXCEPT ![w] = "writing"]
  /\ UNCHANGED <<database, memRevision, memChunkRev, surface, product,
                 playerLock, regionLock, cmd, plan, history>>

\* persist_inventory_delta rewrites only the slots the plan changed.
InventoryDelta(counts, before, after) ==
  [m \in Material |-> IF before[m] = after[m] THEN counts[m] ELSE after[m]]

\* The edit_chunks rows of the mutated voxels are written from the in-memory map.
Persisted(S) == [v \in Voxel |-> IF v \in S THEN durable[v] ELSE overrides[v]]

\* The metadata row follows when the action changed the world.
PersistedRevision(S, now) == IF S # {} THEN now ELSE revision

\* persist_action: one transaction; then the in-memory revisions follow and
\* apply returns.
Commit(w) ==
  LET p == cmd[w].player
      S == plan[w].voxels
      changed == S # {}
      now == IF changed THEN memRevision + 1 ELSE memRevision
      chunks == AffectedBy(S)
      receipt == [session |-> cmd[w].session, op |-> cmd[w].op,
                  action |-> cmd[w].action, voxels |-> S, revision |-> now]
  IN /\ pc[w] = "writing" /\ inner = w
     /\ overrides' = Persisted(S)
     /\ revision' = PersistedRevision(S, now)
     /\ chunkRev' = Bumped(chunkRev, chunks, now)
     /\ inventory' = [inventory EXCEPT ![p] = InventoryDelta(@, plan[w].before, plan[w].after)]
     /\ invRevision' = [invRevision EXCEPT ![p] =
                                IF changed THEN plan[w].invRevision + 1 ELSE @]
     /\ maxOp' = [maxOp EXCEPT ![p] = cmd[w].op]
     /\ receipts' = [receipts EXCEPT ![p] = Newest(Append(@, receipt))]
     /\ memRevision' = now
     /\ memChunkRev' = Bumped(memChunkRev, chunks, now)
     /\ surface' = SurfaceBumped(surface, chunks, now)
     /\ undo' = None
     /\ inner' = Free
     /\ Release(w)
     /\ log' = Append(log, [player |-> p, session |-> cmd[w].session, op |-> cmd[w].op,
                            changed |-> changed, revision |-> now])
     /\ UNCHANGED <<players, session, durable, edits, product, issued>>

\* restore_overrides puts the previous overrides of the mutated voxels back.
Restored_Kept(current, previous) == current

Restored(current, previous) ==
  [v \in Voxel |-> IF v \in DOMAIN previous THEN previous[v] ELSE current[v]]

\* The transaction failed: nothing durable happened, memory is rolled back.
Rollback(w) ==
  /\ pc[w] = "writing" /\ inner = w
  /\ durable' = Restored(durable, undo.durable)
  /\ edits' = Restored(edits, undo.edits)
  /\ undo' = None
  /\ inner' = Free
  /\ Release(w)
  /\ UNCHANGED <<database, memRevision, memChunkRev, surface, product, history>>

-----------------------------------------------------------------------------
(* The other operations of the authority.                                  *)

\* load_player inserts a first-time player with an empty inventory.
LoadPlayer(p) ==
  /\ inner = Free
  /\ p \notin players
  /\ players' = players \cup {p}
  /\ UNCHANGED <<overrides, revision, chunkRev, inventory, invRevision, session,
                 maxOp, receipts, memory, product, locks, threads, history>>

\* begin_player_session: under the player lock, so never between the plan and
\* the commit of that player's operation.
NoApplyOf_Unlocked(p) == TRUE

NoApplyOf(p) == playerLock[p] = Free

BeginSession(p, s) ==
  /\ NoApplyOf(p) /\ inner = Free
  /\ p \in players
  /\ s \notin issued
  /\ session' = [session EXCEPT ![p] = s]
  /\ maxOp' = [maxOp EXCEPT ![p] = 0]
  /\ issued' = issued \cup {s}
  /\ UNCHANGED <<overrides, revision, chunkRev, players, inventory, invRevision,
                 receipts, memory, product, locks, threads, log>>

\* What a chunk product is built from: snapshot_chunks.
Content(c) == [v \in Sampled[c] |-> edits[v]]

\* A chunk product enters the server's cache under (chunk, edit revision).
SnapshotChunk(c) ==
  /\ inner = Free
  /\ product' = [chunk |-> c, key |-> memChunkRev[c], content |-> Content(c)]
  /\ UNCHANGED <<database, memory, locks, threads, history>>

\* The process stops and is started again: from_connection, then
\* install_protected_spawn.
Restart ==
  /\ durable' = overrides
  /\ edits' = Overlay(overrides)
  /\ memRevision' = revision
  /\ memChunkRev' = chunkRev
  /\ surface' = SurfaceIndex(chunkRev)
  /\ undo' = None
  /\ product' = None
  /\ inner' = Free
  /\ playerLock' = [p \in Player |-> Free]
  /\ regionLock' = [r \in Region |-> Free]
  /\ pc' = [w \in Worker |-> "idle"]
  /\ cmd' = [w \in Worker |-> None]
  /\ plan' = [w \in Worker |-> None]
  /\ UNCHANGED <<database, history>>

-----------------------------------------------------------------------------

Init ==
  /\ overrides = [v \in Voxel |-> None]
  /\ revision = InitialRevision
  /\ chunkRev = [c \in Chunk |-> InitialRevision]
  /\ players = {}
  /\ inventory = [p \in Player |-> [m \in Material |-> 0]]
  /\ invRevision = [p \in Player |-> InitialRevision]
  /\ session = [p \in Player |-> None]
  /\ maxOp = [p \in Player |-> 0]
  /\ receipts = [p \in Player |-> <<>>]
  /\ durable = [v \in Voxel |-> None]
  /\ edits = Overlay([v \in Voxel |-> None])
  /\ memRevision = InitialRevision
  /\ memChunkRev = [c \in Chunk |-> InitialRevision]
  /\ surface = [k \in Column |-> InitialRevision]
  /\ undo = None
  /\ product = None
  /\ inner = Free
  /\ playerLock = [p \in Player |-> Free]
  /\ regionLock = [r \in Region |-> Free]
  /\ pc = [w \in Worker |-> "idle"]
  /\ cmd = [w \in Worker |-> None]
  /\ plan = [w \in Worker |-> None]
  /\ issued = {}
  /\ log = <<>>

Step(w) ==
  \/ LockPlayer(w)
  \/ \E r \in Region : LockRegion(w, r)
  \/ Replay(w)
  \/ Refuse(w)
  \/ Plan(w)
  \/ WriteMemory(w)
  \/ Commit(w)
  \/ Rollback(w)

Next ==
  \/ \E w \in Worker, p \in Player, s \in Session, o \in OpId, a \in Action :
       <<s, o, a>> \in Sends[p] /\ Begin(w, p, s, o, a)
  \/ \E w \in Worker : Step(w)
  \/ \E p \in Player : LoadPlayer(p)
  \/ \E p \in Player, s \in Session : BeginSession(p, s)
  \/ \E c \in Chunk : SnapshotChunk(c)
  \/ Restart

Spec == Init /\ [][Next]_vars

\* A blocking thread that can move is scheduled; nothing else is promised.
FairSpec == Spec /\ \A w \in Worker : WF_vars(Step(w))

-----------------------------------------------------------------------------
(* Properties.                                                             *)

\* The type of every variable; an inventory is never driven below zero.
TypeOK ==
  /\ overrides \in Overrides /\ durable \in Overrides /\ edits \in Overrides
  /\ revision \in Nat /\ memRevision \in Nat
  /\ chunkRev \in [Chunk -> Nat] /\ memChunkRev \in [Chunk -> Nat]
  /\ DOMAIN surface = Column
  /\ players \subseteq Player /\ issued \subseteq Session
  /\ inventory \in [Player -> Counts] /\ invRevision \in [Player -> Nat]
  /\ session \in [Player -> Session \cup {None}] /\ maxOp \in [Player -> Nat]
  /\ receipts \in [Player -> Seq(Receipt)] /\ log \in Seq(LogEntry)
  /\ inner \in Worker \cup {Free}
  /\ playerLock \in [Player -> Worker \cup {Free}]
  /\ regionLock \in [Region -> Worker \cup {Free}]
  /\ pc \in [Worker -> Stage]
  /\ cmd \in [Worker -> Command \cup {None}]
  /\ plan \in [Worker -> PlanRecord \cup {None}]

\* Whenever the state mutex is free the in-memory maps a reader sees are
\* exactly what a restart would load: overrides with the spawn on top, the
\* world revision, the chunk revisions and the column index of surface
\* revisions, which commits maintain by maxima and start-up recomputes.
\* Several steps of a commit, a rollback or a restart could break one and not
\* the others.
MemoryMatchesDatabase ==
  inner = Free =>
    /\ durable = overrides
    /\ edits = Overlay(overrides)
    /\ memRevision = revision
    /\ memChunkRev = chunkRev
    /\ surface = SurfaceIndex(chunkRev)

\* One (player, session, operation id) is executed at most once, however often
\* it is retried, also after its receipt was pruned and after a restart.
AtMostOnce ==
  \A i, j \in DOMAIN log :
    /\ log[i].player = log[j].player
    /\ log[i].session = log[j].session
    /\ log[i].op = log[j].op
    => i = j

\* Every unit of a material is either in the world or in one inventory: edits
\* that overlap, fail halfway or are replayed neither create nor destroy any.
Conservation ==
  \A m \in Material :
    LET placed(world) == Cardinality({v \in Voxel : At(world, v) = m})
    IN placed(Overlay(overrides)) + MapThenSumSet(LAMBDA p : inventory[p][m], Player)
         = placed(Overlay([v \in Voxel |-> None]))

\* Every change of the world has a revision of its own, larger than all before
\* it, and the revisions survive a restart: a client orders commits by them.
RevisionsNeverReused ==
  \A i, j \in DOMAIN log : i < j /\ log[j].changed => log[i].revision < log[j].revision

\* load_product_revisions refuses a database in which a chunk is newer than the
\* world: no sequence of commits may leave one behind that cannot be opened.
RestartAccepts == \A c \in Chunk : chunkRev[c] <= revision

\* A product cached under (chunk, edit revision) is what the chunk would be
\* built from now, as long as the chunk still has that revision: every edit of
\* a voxel the product samples, halo included, gives the chunk a new revision.
ProductKeyIdentifiesContent ==
  (product # None /\ inner = Free) =>
    (product.key = memChunkRev[product.chunk] =>
       product.content = Content(product.chunk))

\* The authority keeps the promises of EditLedger: an operation planned outside
\* the state mutex still takes effect as if planned and executed at once.
Ledger == INSTANCE EditLedger WITH
  overrides <- overrides, revision <- revision, chunkRev <- chunkRev,
  players <- players, inventory <- inventory, invRevision <- invRevision,
  session <- session, maxOp <- maxOp, receipts <- receipts, issued <- issued
RefinesLedger == Ledger!LedgerSpec

\* Once commands stop arriving, every apply returns: no cycle of player lock,
\* region locks and state mutex, and no lock left behind by one that returned.
Arrival == \E w \in Worker : pc[w] = "idle" /\ pc'[w] = "player"

EveryApplyFinishes == <>[][~Arrival]_vars => \A w \in Worker : []<>(pc[w] = "idle")
=============================================================================
