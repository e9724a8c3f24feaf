-------------------------- MODULE EditAuthorityProofs -------------------------
(***************************************************************************)
(* What TLAPS proves of the edit authority, for every set of players,      *)
(* sessions, workers, voxels, chunks, regions and actions that satisfies   *)
(* the assumptions of EditRules and EditAuthority: its types, that a       *)
(* product key identifies its content, and that it implements EditLedger.  *)
(***************************************************************************)
EXTENDS EditAuthority, FiniteSetTheorems, SequenceTheorems, TLAPS

-----------------------------------------------------------------------------
(* Facts about the operators.                                              *)

\* The spawn overlay maps overrides to overrides (install_protected_spawn).
LEMMA OverlayType == ASSUME NEW d \in Overrides PROVE Overlay(d) \in Overrides
BY SpawnAssumption DEF Overlay, Overrides

\* What a planned action leaves behind is a solid value (plan_action).
LEMMA OutcomeType == ASSUME NEW a \in Action PROVE Outcome(a) \in Solid
BY ActionAssumption DEF Outcome, Solid

\* Writing an outcome yields overrides again (replace_durable_overrides).
LEMMA WrittenType ==
  ASSUME NEW e \in Overrides, NEW S, NEW m \in Solid
  PROVE  Written(e, S, m) \in Overrides
BY DEF Written, Overrides, Override

\* Only voxels of the command's volume are mutated (plan_action).
LEMMA MutatedInVolume ==
  ASSUME NEW e, NEW a \in Action
  PROVE  Mutated(e, a) \subseteq a.volume /\ Mutated(e, a) \in SUBSET Voxel
BY ActionAssumption DEF Mutated

\* A plannable action never takes more units than the player holds.
LEMMA CountsAfterType ==
  ASSUME NEW e, NEW counts \in Counts, NEW a \in Action, Plannable(e, counts, a)
  PROVE  CountsAfter(e, counts, a) \in Counts
<1>1. SUFFICES ASSUME NEW m \in Material
               PROVE  CountsAfter(e, counts, a)[m] \in Nat
  BY DEF Counts, CountsAfter
<1>2. counts[m] \in Nat
  BY DEF Counts
<1>3. IsFiniteSet(a.volume) /\ IsFiniteSet({v \in a.volume : At(e, v) = m})
  BY VoxelAssumption, ActionAssumption, FS_Subset
<1>4. Cardinality(a.volume) \in Nat /\ Cardinality({v \in a.volume : At(e, v) = m}) \in Nat
  BY <1>3, FS_CardinalityType
<1>5. CASE a.kind = "dig"
  BY <1>2, <1>4, <1>5 DEF CountsAfter
<1>6. CASE a.kind # "dig"
  <2>1. a.kind = "place"
    BY <1>6, ActionAssumption
  <2>2. Cardinality(a.volume) <= counts[a.material]
    BY <2>1 DEF Plannable
  <2>. QED
    BY <1>2, <1>4, <1>6, <2>2 DEF CountsAfter
<1>. QED
  BY <1>5, <1>6

\* Pruning keeps a sequence of receipts (persist_operation).
LEMMA NewestType ==
  ASSUME NEW T, NEW q \in Seq(T)
  PROVE  Newest(q) \in Seq(T)
<1>1. CASE Len(q) <= Retained
  BY <1>1 DEF Newest
<1>2. CASE ~(Len(q) <= Retained)
  <2>1. Len(q) \in Nat /\ Retained \in Nat \ {0}
    BY RetainedAssumption, LenProperties
  <2>2. \A i \in (Len(q) - Retained + 1)..Len(q) : q[i] \in T
    BY <1>2, <2>1, ElementOfSeq
  <2>3. SubSeq(q, Len(q) - Retained + 1, Len(q)) \in Seq(T)
    BY <1>2, <2>1, <2>2, SubSeqProperties
  <2>. QED
    BY <1>2, <2>3 DEF Newest
<1>. QED
  BY <1>1, <1>2

-----------------------------------------------------------------------------
(* Type correctness.  A worker past Begin has a command, a worker past its *)
(* plan has a plan, the thread that writes holds the state mutex, and what *)
(* it would have to restore is kept in undo.                               *)

WorkerInv ==
  /\ \A w \in Worker : pc[w] # "idle" => cmd[w] \in Command
  /\ \A w \in Worker : pc[w] \in {"planned", "writing"} => plan[w] \in PlanRecord
  /\ \A w \in Worker : pc[w] = "writing" => inner = w
  /\ inner # Free =>
       /\ \A v \in DOMAIN undo.durable : undo.durable[v] \in Override
       /\ \A v \in DOMAIN undo.edits : undo.edits[v] \in Override

TypeInv == TypeOK /\ WorkerInv

\* The schema initialisation and the reload of an empty database give every variable its type.
LEMMA InitType == Init => TypeInv
<1>. SUFFICES ASSUME Init PROVE TypeInv
  OBVIOUS
<1>1. [v \in Voxel |-> None] \in Overrides
  BY DEF Overrides, Override
<1>2. edits \in Overrides
  BY <1>1, OverlayType DEF Init
<1>3. InitialRevision \in Nat
  BY DEF InitialRevision
<1>4. inventory \in [Player -> Counts]
  BY DEF Init, Counts
<1>5. receipts \in [Player -> Seq(Receipt)] /\ log \in Seq(LogEntry)
  BY EmptySeq DEF Init
<1>. QED
  BY <1>1, <1>2, <1>3, <1>4, <1>5, WorkerAssumption
     DEF Init, TypeInv, TypeOK, WorkerInv, Stage

\* Returning from apply keeps the type of everything it releases.
LEMMA ReleaseType ==
  ASSUME TypeInv, NEW w \in Worker, Release(w)
  PROVE  /\ playerLock' \in [Player -> Worker \cup {Free}]
         /\ regionLock' \in [Region -> Worker \cup {Free}]
         /\ pc' \in [Worker -> Stage]
         /\ cmd' \in [Worker -> Command \cup {None}]
         /\ plan' \in [Worker -> PlanRecord \cup {None}]
         /\ pc'[w] = "idle"
         /\ \A u \in Worker \ {w} : pc'[u] = pc[u] /\ cmd'[u] = cmd[u] /\ plan'[u] = plan[u]
BY DEF TypeInv, TypeOK, Release, Stage

\* No handler step writes a value of another type (edits.rs apply, load_player, begin_player_session, restart).
LEMMA NextType == TypeInv /\ [Next]_vars => TypeInv'
<1>. SUFFICES ASSUME TypeInv, [Next]_vars PROVE TypeInv'
  OBVIOUS
<1>. USE DEF TypeInv
<1>1. ASSUME NEW w \in Worker, NEW p \in Player, NEW s \in Session, NEW o \in OpId,
             NEW a \in Action, Begin(w, p, s, o, a)
      PROVE  TypeInv'
  <2>1. [player |-> p, session |-> s, op |-> o, action |-> a] \in Command
    BY DEF Command
  <2>. QED
    BY <1>1, <2>1 DEF Begin, TypeOK, WorkerInv, database, memory, locks, history, Stage
<1>2. ASSUME NEW w \in Worker, LockPlayer(w) PROVE TypeInv'
  BY <1>2 DEF LockPlayer, TypeOK, WorkerInv, database, memory, history, Stage
<1>3. ASSUME NEW w \in Worker, NEW r \in Region, LockRegion(w, r) PROVE TypeInv'
  BY <1>3 DEF LockRegion, TypeOK, WorkerInv, database, memory, history, threads
<1>4. ASSUME NEW w \in Worker, Replay(w) PROVE TypeInv'
  <2>1. Release(w)
    BY <1>4 DEF Replay
  <2>. QED
    BY <1>4, <2>1, ReleaseType DEF Replay, TypeOK, WorkerInv, database, memory, history
<1>5. ASSUME NEW w \in Worker, Refuse(w) PROVE TypeInv'
  <2>1. Release(w)
    BY <1>5 DEF Refuse
  <2>. QED
    BY <1>5, <2>1, ReleaseType DEF Refuse, TypeOK, WorkerInv, database, memory, history
<1>6. ASSUME NEW w \in Worker, Plan(w) PROVE TypeInv'
  <2>. DEFINE a == cmd[w].action
              before == inventory[cmd[w].player]
              record == [voxels |-> Mutated(edits, a), before |-> before,
                         after |-> CountsAfter(edits, before, a),
                         invRevision |-> invRevision[cmd[w].player]]
  <2>1. cmd[w] \in Command
    BY <1>6 DEF Plan, AllLocked, WorkerInv
  <2>2. a \in Action /\ before \in Counts /\ invRevision[cmd[w].player] \in Nat
    BY <2>1 DEF Command, TypeOK
  <2>3. Mutated(edits, a) \in SUBSET Voxel
    BY <2>2, MutatedInVolume
  <2>4. CountsAfter(edits, before, a) \in Counts
    BY <1>6, <2>2, CountsAfterType DEF Plan
  <2>5. record \in PlanRecord
    BY <2>2, <2>3, <2>4 DEF PlanRecord
  <2>6. plan' = [plan EXCEPT ![w] = record] /\ pc' = [pc EXCEPT ![w] = "planned"]
    BY <1>6 DEF Plan
  <2>. HIDE DEF record
  <2>. QED
    BY <1>6, <2>1, <2>5, <2>6
       DEF Plan, AllLocked, TypeOK, WorkerInv, database, memory, locks, history, Stage
<1>7. ASSUME NEW w \in Worker, WriteMemory(w) PROVE TypeInv'
  <2>1. cmd[w] \in Command /\ plan[w] \in PlanRecord
    BY <1>7 DEF WriteMemory, WorkerInv
  <2>2. Outcome(cmd[w].action) \in Solid /\ plan[w].voxels \subseteq Voxel
    BY <2>1, OutcomeType DEF Command, PlanRecord
  <2>3. durable' \in Overrides /\ edits' \in Overrides
    BY <1>7, <2>2, WrittenType DEF WriteMemory, TypeOK
  <2>4. /\ \A v \in DOMAIN undo'.durable : undo'.durable[v] \in Override
        /\ \A v \in DOMAIN undo'.edits : undo'.edits[v] \in Override
    BY <1>7, <2>2 DEF WriteMemory, TypeOK, Overrides
  <2>5. pc' = [pc EXCEPT ![w] = "writing"] /\ inner' = w /\ inner = Free
        /\ UNCHANGED <<cmd, plan>>
    BY <1>7 DEF WriteMemory
  <2>6. WorkerInv'
    BY <2>1, <2>4, <2>5, WorkerAssumption DEF WorkerInv, TypeOK
  <2>7. TypeOK'
    BY <1>7, <2>3, <2>5 DEF WriteMemory, TypeOK, database, history, Stage
  <2>. QED
    BY <2>6, <2>7
<1>8. ASSUME NEW w \in Worker, Commit(w) PROVE TypeInv'
  <2>. DEFINE S == plan[w].voxels
              now == IF S # {} THEN memRevision + 1 ELSE memRevision
              receipt == [session |-> cmd[w].session, op |-> cmd[w].op,
                          action |-> cmd[w].action, voxels |-> S, revision |-> now]
              entry == [player |-> cmd[w].player, session |-> cmd[w].session,
                        op |-> cmd[w].op, changed |-> S # {}, revision |-> now]
  <2>1. cmd[w] \in Command /\ plan[w] \in PlanRecord
    BY <1>8 DEF Commit, WorkerInv
  <2>2. now \in Nat /\ revision' \in Nat /\ memRevision' \in Nat
    BY <1>8 DEF Commit, TypeOK, PersistedRevision
  <2>3. chunkRev' \in [Chunk -> Nat] /\ memChunkRev' \in [Chunk -> Nat]
    BY <1>8, <2>2 DEF Commit, Bumped, TypeOK
  <2>4. DOMAIN surface' = Column
    BY <1>8 DEF Commit, SurfaceBumped
  <2>5. overrides' \in Overrides
    BY <1>8 DEF Commit, Persisted, TypeOK, Overrides
  <2>6. inventory' \in [Player -> Counts] /\ invRevision' \in [Player -> Nat]
    <3>1. InventoryDelta(inventory[cmd[w].player], plan[w].before, plan[w].after) \in Counts
      BY <2>1 DEF InventoryDelta, Command, PlanRecord, TypeOK, Counts
    <3>2. plan[w].invRevision + 1 \in Nat
      BY <2>1 DEF PlanRecord
    <3>. QED
      BY <1>8, <2>1, <3>1, <3>2 DEF Commit, TypeOK, Command
  <2>7. maxOp' \in [Player -> Nat]
    BY <1>8, <2>1, OpIdAssumption DEF Commit, TypeOK, Command
  <2>8. receipt \in Receipt /\ entry \in LogEntry
    BY <2>1, <2>2 DEF Receipt, LogEntry, Command, PlanRecord
  <2>9. receipts' \in [Player -> Seq(Receipt)]
    <3>1. receipts' = [receipts EXCEPT ![cmd[w].player] =
                         Newest(Append(receipts[cmd[w].player], receipt))]
      BY <1>8 DEF Commit
    <3>2. receipts[cmd[w].player] \in Seq(Receipt)
      BY <2>1 DEF Command, TypeOK
    <3>3. Newest(Append(receipts[cmd[w].player], receipt)) \in Seq(Receipt)
      BY <2>8, <3>2, AppendProperties, NewestType
    <3>. QED
      BY <3>1, <3>3 DEF TypeOK
  <2>10. log' \in Seq(LogEntry)
    BY <1>8, <2>8, AppendProperties DEF Commit, TypeOK
  <2>11. Release(w) /\ inner' = Free /\ inner = w
    BY <1>8 DEF Commit
  <2>. QED
    BY <1>8, <2>2, <2>3, <2>4, <2>5, <2>6, <2>7, <2>9, <2>10, <2>11, ReleaseType,
       WorkerAssumption DEF Commit, TypeOK, WorkerInv
<1>9. ASSUME NEW w \in Worker, Rollback(w) PROVE TypeInv'
  <2>1. Release(w) /\ inner' = Free /\ inner = w
    BY <1>9 DEF Rollback
  <2>2. durable' \in Overrides /\ edits' \in Overrides
    BY <1>9, <2>1, WorkerAssumption DEF Rollback, Restored, TypeOK, WorkerInv, Overrides
  <2>. QED
    BY <1>9, <2>1, <2>2, ReleaseType, WorkerAssumption
       DEF Rollback, TypeOK, WorkerInv, database, history
<1>10. ASSUME NEW p \in Player, LoadPlayer(p) PROVE TypeInv'
  BY <1>10 DEF LoadPlayer, TypeOK, WorkerInv, memory, locks, threads, history
<1>11. ASSUME NEW p \in Player, NEW s \in Session, BeginSession(p, s) PROVE TypeInv'
  BY <1>11 DEF BeginSession, TypeOK, WorkerInv, memory, locks, threads
<1>12. ASSUME NEW c \in Chunk, SnapshotChunk(c) PROVE TypeInv'
  BY <1>12 DEF SnapshotChunk, TypeOK, WorkerInv, database, memory, locks, threads, history
<1>13. ASSUME Restart PROVE TypeInv'
  <2>1. durable' \in Overrides /\ edits' \in Overrides
    BY <1>13, OverlayType DEF Restart, TypeOK
  <2>2. DOMAIN surface' = Column
    BY <1>13 DEF Restart, SurfaceIndex
  <2>. QED
    BY <1>13, <2>1, <2>2 DEF Restart, TypeOK, WorkerInv, database, history, Stage
<1>14. ASSUME UNCHANGED vars PROVE TypeInv'
  BY <1>14 DEF vars, database, memory, locks, threads, history, TypeOK, WorkerInv
<1>. QED
  BY <1>1, <1>2, <1>3, <1>4, <1>5, <1>6, <1>7, <1>8, <1>9, <1>10, <1>11, <1>12, <1>13, <1>14
     DEF Next, Step

\* Every variable keeps its type; in particular no sequence of edits, however
\* interleaved, drives an inventory below zero (plan_action, persist_action).
THEOREM TypeCorrect == Spec => []TypeOK
<1>1. Spec => []TypeInv
  BY InitType, NextType, PTL DEF Spec
<1>2. TypeInv => TypeOK
  BY DEF TypeInv
<1>. QED
  BY <1>1, <1>2, PTL

-----------------------------------------------------------------------------
(* Locks.  From its first region on a worker holds the editor's player     *)
(* lock, and from its plan on every region its stencil reaches.            *)

LockInv ==
  /\ \A w \in Worker :
       pc[w] \in {"regions", "planned", "writing"} => playerLock[cmd[w].player] = w
  /\ \A w \in Worker : pc[w] \in {"planned", "writing"} => Wanted(w) \subseteq Held(w)

\* The steps that touch neither locks nor threads.
LEMMA QuietLock ==
  ASSUME LockInv, UNCHANGED <<playerLock, regionLock, pc, cmd>>
  PROVE  LockInv'
BY DEF LockInv, Wanted, Held

\* Whoever returns releases only what it held.
LEMMA ReleaseLock ==
  ASSUME TypeInv, LockInv, NEW w \in Worker, Release(w)
  PROVE  LockInv'
<1>1. pc'[w] = "idle" /\ \A u \in Worker \ {w} : pc'[u] = pc[u] /\ cmd'[u] = cmd[u]
  BY ReleaseType
<1>2. ASSUME NEW u \in Worker, pc'[u] \in {"regions", "planned", "writing"}
      PROVE  playerLock'[cmd'[u].player] = u
  <2>1. u # w /\ pc'[u] = pc[u] /\ cmd'[u] = cmd[u]
    BY <1>1, <1>2
  <2>2. cmd[u].player \in Player /\ playerLock[cmd[u].player] = u
    BY <1>2, <2>1 DEF LockInv, TypeInv, WorkerInv, Command
  <2>. QED
    BY <2>1, <2>2 DEF Release
<1>3. ASSUME NEW u \in Worker, pc'[u] \in {"planned", "writing"}
      PROVE  Wanted(u)' \subseteq Held(u)'
  <2>1. u # w /\ pc'[u] = pc[u] /\ cmd'[u] = cmd[u]
    BY <1>1, <1>3
  <2>2. Wanted(u)' = Wanted(u) /\ Held(u) \subseteq Held(u)'
    BY <2>1 DEF Wanted, Held, Release, TypeInv, TypeOK
  <2>. QED
    BY <1>3, <2>1, <2>2 DEF LockInv
<1>. QED
  BY <1>2, <1>3 DEF LockInv

\* Every step hands the player and region locks on as apply takes and releases them.
LEMMA NextLock == TypeInv /\ LockInv /\ [Next]_vars => LockInv'
<1>. SUFFICES ASSUME TypeInv, LockInv, [Next]_vars PROVE LockInv'
  OBVIOUS
<1>1. ASSUME NEW w \in Worker, NEW p \in Player, NEW s \in Session, NEW o \in OpId,
             NEW a \in Action, Begin(w, p, s, o, a)
      PROVE  LockInv'
  BY <1>1 DEF Begin, TypeInv, TypeOK, LockInv, Wanted, Held, locks
<1>2. ASSUME NEW w \in Worker, LockPlayer(w) PROVE LockInv'
  <2>1. cmd[w].player \in Player /\ playerLock[cmd[w].player] = Free
    BY <1>2 DEF LockPlayer, TypeInv, WorkerInv, Command
  <2>. QED
    BY <1>2, <2>1, WorkerAssumption DEF LockPlayer, TypeInv, TypeOK, LockInv, Wanted, Held
<1>3. ASSUME NEW w \in Worker, NEW r \in Region, LockRegion(w, r) PROVE LockInv'
  <2>1. \A u \in Worker : Held(u) \subseteq Held(u)' /\ Wanted(u)' = Wanted(u)
    BY <1>3, WorkerAssumption
       DEF LockRegion, TypeInv, TypeOK, Held, Wanted, threads
  <2>. QED
    BY <1>3, <2>1 DEF LockRegion, LockInv, threads
<1>4. ASSUME NEW w \in Worker, Replay(w) \/ Refuse(w) \/ Commit(w) \/ Rollback(w)
      PROVE  LockInv'
  BY <1>4, ReleaseLock DEF Replay, Refuse, Commit, Rollback
<1>5. ASSUME NEW w \in Worker, Plan(w) PROVE LockInv'
  BY <1>5 DEF Plan, AllLocked, TypeInv, TypeOK, LockInv, Wanted, Held, locks
<1>6. ASSUME NEW w \in Worker, WriteMemory(w) PROVE LockInv'
  BY <1>6 DEF WriteMemory, TypeInv, TypeOK, LockInv, Wanted, Held
<1>7. ASSUME NEW p \in Player, NEW s \in Session, BeginSession(p, s) PROVE LockInv'
  BY <1>7, QuietLock DEF BeginSession, locks, threads
<1>8. ASSUME NEW p \in Player, LoadPlayer(p) PROVE LockInv'
  BY <1>8, QuietLock DEF LoadPlayer, locks, threads
<1>9. ASSUME NEW c \in Chunk, SnapshotChunk(c) PROVE LockInv'
  BY <1>9, QuietLock DEF SnapshotChunk, locks, threads
<1>10. ASSUME Restart PROVE LockInv'
  BY <1>10 DEF Restart, LockInv
<1>11. ASSUME UNCHANGED vars PROVE LockInv'
  BY <1>11, QuietLock DEF vars, locks, threads
<1>. QED
  BY <1>1, <1>2, <1>3, <1>4, <1>5, <1>6, <1>7, <1>8, <1>9, <1>10, <1>11 DEF Next, Step

\* In every reachable state the lock tables and the workers holding them agree.
LEMMA InvLock == Spec => [](TypeInv /\ LockInv)
<1>1. Init => LockInv
  BY DEF Init, LockInv
<1>. QED
  BY <1>1, InitType, NextType, NextLock, PTL DEF Spec

-----------------------------------------------------------------------------
(* At most once.  The log alone does not say why an operation is not       *)
(* executed again: its session must have been issued (so a later session   *)
(* differs from it), the watermark of a current session covers everything  *)
(* logged under it, and what a worker found admissible stays so until it   *)
(* commits, because it holds the player lock.                              *)

SessionInv ==
  /\ \A i \in DOMAIN log : log[i].session \in issued
  /\ \A w \in Worker : pc[w] # "idle" => cmd[w].session \in issued
  /\ \A i \in DOMAIN log : log[i].session = session[log[i].player]
                            => log[i].op <= maxOp[log[i].player]
  /\ \A w \in Worker : pc[w] \in {"planned", "writing"} => Admissible(w)
  /\ AtMostOnce

\* Appending one entry to the log.
LEMMA LogAppend ==
  ASSUME NEW q \in Seq(LogEntry), NEW e \in LogEntry
  PROVE  /\ DOMAIN q = 1..Len(q) /\ Len(q) \in Nat
         /\ DOMAIN Append(q, e) = 1..(Len(q) + 1)
         /\ \A i \in DOMAIN q : Append(q, e)[i] = q[i]
         /\ Append(q, e)[Len(q) + 1] = e
BY AppendProperties, LenProperties

\* The steps that keep the log, sessions, watermarks and plans.
LEMMA QuietSession ==
  ASSUME SessionInv, UNCHANGED <<log, issued, session, maxOp, cmd>>,
         players \subseteq players',
         \A w \in Worker : pc'[w] # "idle" => pc[w] # "idle",
         \A w \in Worker : pc'[w] \in {"planned", "writing"} => pc[w] \in {"planned", "writing"}
  PROVE  SessionInv'
BY DEF SessionInv, AtMostOnce, Admissible

\* A worker that returns without committing.
LEMMA ReleaseSession ==
  ASSUME TypeInv, SessionInv, NEW w \in Worker, Release(w),
         UNCHANGED <<log, issued, session, maxOp, players>>
  PROVE  SessionInv'
<1>1. \A u \in Worker : pc'[u] # "idle" => pc[u] = pc'[u] /\ cmd[u] = cmd'[u]
  BY ReleaseType
<1>. QED
  BY <1>1 DEF SessionInv, AtMostOnce, Admissible

\* Sessions, watermarks and receipts advance together in the one persist_action transaction.
LEMMA NextSession == TypeInv /\ LockInv /\ SessionInv /\ [Next]_vars => SessionInv'
<1>. SUFFICES ASSUME TypeInv, LockInv, SessionInv, [Next]_vars PROVE SessionInv'
  OBVIOUS
<1>1. ASSUME NEW w \in Worker, NEW p \in Player, NEW s \in Session, NEW o \in OpId,
             NEW a \in Action, Begin(w, p, s, o, a)
      PROVE  SessionInv'
  BY <1>1 DEF Begin, TypeInv, TypeOK, SessionInv, AtMostOnce, Admissible, database, history
<1>2. ASSUME NEW w \in Worker, LockPlayer(w) PROVE SessionInv'
  <2>1. pc[w] = "player" /\ pc' = [pc EXCEPT ![w] = "regions"]
    BY <1>2 DEF LockPlayer
  <2>2. \A u \in Worker : /\ pc'[u] # "idle" => pc[u] # "idle"
                         /\ pc'[u] \in {"planned", "writing"} => pc[u] \in {"planned", "writing"}
    BY <2>1 DEF TypeInv, TypeOK
  <2>. QED
    BY <1>2, <2>2, QuietSession DEF LockPlayer, database, history
<1>3. ASSUME NEW w \in Worker, NEW r \in Region, LockRegion(w, r) PROVE SessionInv'
  BY <1>3, QuietSession DEF LockRegion, database, history, threads
<1>4. ASSUME NEW w \in Worker, Replay(w) \/ Refuse(w) \/ Rollback(w) PROVE SessionInv'
  BY <1>4, ReleaseSession DEF Replay, Refuse, Rollback, database, history
<1>5. ASSUME NEW w \in Worker, Plan(w) PROVE SessionInv'
  BY <1>5 DEF Plan, AllLocked, TypeInv, TypeOK, SessionInv, AtMostOnce, Admissible,
                database, history
<1>6. ASSUME NEW w \in Worker, WriteMemory(w) PROVE SessionInv'
  <2>1. pc[w] = "planned" /\ pc' = [pc EXCEPT ![w] = "writing"]
    BY <1>6 DEF WriteMemory
  <2>2. \A u \in Worker : /\ pc'[u] # "idle" => pc[u] # "idle"
                         /\ pc'[u] \in {"planned", "writing"} => pc[u] \in {"planned", "writing"}
    BY <2>1 DEF TypeInv, TypeOK
  <2>. QED
    BY <1>6, <2>2, QuietSession DEF WriteMemory, database, history
<1>7. ASSUME NEW w \in Worker, Commit(w) PROVE SessionInv'
  <2>. DEFINE p == cmd[w].player
              S == plan[w].voxels
              now == IF S # {} THEN memRevision + 1 ELSE memRevision
              e == [player |-> p, session |-> cmd[w].session, op |-> cmd[w].op,
                    changed |-> S # {}, revision |-> now]
  <2>1. cmd[w] \in Command /\ pc[w] = "writing" /\ Admissible(w) /\ playerLock[p] = w
    BY <1>7 DEF Commit, TypeInv, WorkerInv, SessionInv, LockInv
  <2>2. p \in Player /\ cmd[w].op \in Nat /\ maxOp[p] \in Nat
        /\ session[p] = cmd[w].session /\ cmd[w].op > maxOp[p] /\ p \in players
    BY <2>1, OpIdAssumption DEF Command, Admissible, TypeInv, TypeOK
  <2>3. e \in LogEntry
    BY <1>7, <2>1 DEF LogEntry, Command, Commit, TypeInv, TypeOK
  <2>4. log' = Append(log, e) /\ Release(w) /\ UNCHANGED <<issued, session, players>>
        /\ maxOp' = [maxOp EXCEPT ![p] = cmd[w].op]
    BY <1>7 DEF Commit
  <2>. HIDE DEF e
  <2>5. /\ DOMAIN log = 1..Len(log) /\ Len(log) \in Nat
        /\ DOMAIN log' = 1..(Len(log) + 1)
        /\ \A i \in DOMAIN log : log'[i] = log[i] /\ log[i] \in LogEntry
        /\ log'[Len(log) + 1] = e
    BY <2>3, <2>4, LogAppend, ElementOfSeq DEF TypeInv, TypeOK
  <2>6. e.player = p /\ e.session = cmd[w].session /\ e.op = cmd[w].op
    BY DEF e
  <2>7. \A i \in DOMAIN log : log[i].player = p /\ log[i].session = cmd[w].session
                              => log[i].op <= maxOp[p] /\ log[i].op \in Nat
    BY <2>2, <2>5, OpIdAssumption DEF SessionInv, LogEntry
  <2>8. cmd[w].session \in issued
    BY <2>1 DEF SessionInv
  <2>13. \A u \in Worker : pc'[u] # "idle" => cmd'[u].session \in issued'
    BY <2>4, ReleaseType DEF SessionInv
  <2>9. \A i \in DOMAIN log' : log'[i].session \in issued'
    BY <2>4, <2>5, <2>6, <2>8 DEF SessionInv
  <2>10. AtMostOnce'
    BY <2>2, <2>5, <2>6, <2>7 DEF SessionInv, AtMostOnce
  <2>11. ASSUME NEW i \in DOMAIN log', log'[i].session = session'[log'[i].player]
         PROVE  log'[i].op <= maxOp'[log'[i].player]
    <3>1. CASE i = Len(log) + 1
      BY <2>2, <2>4, <2>5, <2>6, <3>1 DEF TypeInv, TypeOK
    <3>2. CASE i \in DOMAIN log
      <4>1. log[i].player \in Player /\ log[i].op \in Nat /\ maxOp[log[i].player] \in Nat
            /\ log[i].op <= maxOp[log[i].player]
        BY <2>4, <2>5, <2>11, <3>2, OpIdAssumption DEF SessionInv, LogEntry, TypeInv, TypeOK
      <4>. QED
        BY <2>2, <2>4, <2>5, <3>2, <4>1 DEF TypeInv, TypeOK
    <3>. QED
      BY <2>5, <3>1, <3>2
  <2>12. ASSUME NEW u \in Worker, pc'[u] \in {"planned", "writing"}
         PROVE  Admissible(u)'
    <3>1. u # w /\ pc[u] = pc'[u] /\ cmd[u] = cmd'[u]
      BY <2>4, <2>12, ReleaseType
    <3>2. playerLock[cmd[u].player] = u
      BY <2>12, <3>1 DEF LockInv
    <3>3. cmd[u].player # p
      BY <2>1, <3>1, <3>2
    <3>. QED
      BY <2>4, <2>12, <3>1, <3>3 DEF SessionInv, Admissible, TypeInv, TypeOK
  <2>. QED
    BY <2>9, <2>10, <2>11, <2>12, <2>13 DEF SessionInv
<1>8. ASSUME NEW p \in Player, LoadPlayer(p) PROVE SessionInv'
  BY <1>8, QuietSession DEF LoadPlayer, threads, history
<1>9. ASSUME NEW p \in Player, NEW s \in Session, BeginSession(p, s) PROVE SessionInv'
  <2>1. s \notin issued /\ playerLock[p] = Free /\ issued' = issued \cup {s}
        /\ session' = [session EXCEPT ![p] = s] /\ maxOp' = [maxOp EXCEPT ![p] = 0]
        /\ UNCHANGED <<log, pc, cmd, players>>
    BY <1>9 DEF BeginSession, NoApplyOf, threads
  <2>2. \A i \in DOMAIN log : log[i] \in LogEntry
    BY ElementOfSeq, LenProperties DEF TypeInv, TypeOK
  <2>3. ASSUME NEW u \in Worker, pc[u] \in {"planned", "writing"} PROVE Admissible(u)'
    <3>1. playerLock[cmd[u].player] = u
      BY <2>3 DEF LockInv
    <3>2. cmd[u].player # p
      BY <2>1, <3>1, WorkerAssumption
    <3>. QED
      BY <2>1, <2>3, <3>2 DEF SessionInv, Admissible, TypeInv, TypeOK
  <2>4. ASSUME NEW i \in DOMAIN log, log[i].session = session'[log[i].player]
        PROVE  log[i].op <= maxOp'[log[i].player]
    BY <2>1, <2>2, <2>4 DEF SessionInv, LogEntry, TypeInv, TypeOK
  <2>. QED
    BY <2>1, <2>3, <2>4 DEF SessionInv, AtMostOnce
<1>10. ASSUME NEW c \in Chunk, SnapshotChunk(c) PROVE SessionInv'
  BY <1>10, QuietSession DEF SnapshotChunk, database, threads, history
<1>11. ASSUME Restart PROVE SessionInv'
  BY <1>11 DEF Restart, SessionInv, AtMostOnce, database, history
<1>12. ASSUME UNCHANGED vars PROVE SessionInv'
  BY <1>12, QuietSession DEF vars, database, threads, history
<1>. QED
  BY <1>1, <1>2, <1>3, <1>4, <1>5, <1>6, <1>7, <1>8, <1>9, <1>10, <1>11, <1>12 DEF Next, Step

\* No operation of a player is executed twice, whatever clients resend, however
\* many receipts were pruned and wherever the process stopped (apply,
\* persist_operation, begin_player_session).
THEOREM ExecutedOnce == Spec => []AtMostOnce
<1>1. Init => SessionInv
  BY DEF Init, SessionInv, AtMostOnce
<1>2. SessionInv => AtMostOnce
  BY DEF SessionInv
<1>3. Spec => []SessionInv
  BY <1>1, InvLock, NextSession, PTL DEF Spec
<1>. QED
  BY <1>2, <1>3, PTL

-----------------------------------------------------------------------------
(* Revisions.  Memory and database agree on the world revision at every    *)
(* step, so a commit after a restart continues above everything logged.    *)

RevisionInv ==
  /\ memRevision = revision /\ memChunkRev = chunkRev
  /\ RestartAccepts
  /\ \A i \in DOMAIN log : log[i].revision <= revision
  /\ RevisionsNeverReused

\* A step that leaves the database and the history alone keeps the revision facts.
LEMMA QuietRevision ==
  ASSUME RevisionInv,
         UNCHANGED <<revision, chunkRev, memRevision, memChunkRev, log>>
  PROVE  RevisionInv'
BY DEF RevisionInv, RestartAccepts, RevisionsNeverReused

\* persist_action stamps the next world revision, above every one used before.
LEMMA CommitRevision ==
  ASSUME TypeInv, RevisionInv, NEW w \in Worker, Commit(w)
  PROVE  RevisionInv'
<1>. DEFINE S == plan[w].voxels
            now == IF S # {} THEN memRevision + 1 ELSE memRevision
            e == [player |-> cmd[w].player, session |-> cmd[w].session,
                  op |-> cmd[w].op, changed |-> S # {}, revision |-> now]
<1>1. cmd[w] \in Command /\ revision \in Nat /\ now \in Nat /\ now >= revision
      /\ (S # {} => now > revision)
  BY DEF Commit, TypeInv, TypeOK, WorkerInv, RevisionInv
<1>2. revision' = now /\ memRevision' = now
  BY DEF Commit, PersistedRevision, RevisionInv
<1>3. memChunkRev' = chunkRev'
  BY DEF Commit, RevisionInv
<1>4. \A c \in Chunk : chunkRev'[c] <= now
  BY <1>1 DEF Commit, Bumped, RevisionInv, RestartAccepts, TypeInv, TypeOK
<1>5. e \in LogEntry /\ log' = Append(log, e)
  BY <1>1 DEF Commit, LogEntry, Command
<1>6. e.revision = now /\ (e.changed => now > revision)
  BY <1>1
<1>. HIDE DEF e, now, S
<1>7. /\ DOMAIN log = 1..Len(log) /\ Len(log) \in Nat
      /\ DOMAIN log' = 1..(Len(log) + 1)
      /\ \A i \in DOMAIN log : log'[i] = log[i] /\ log[i] \in LogEntry
      /\ log'[Len(log) + 1] = e
  BY <1>5, LogAppend, ElementOfSeq DEF TypeInv, TypeOK
<1>8. \A i \in DOMAIN log : log[i].revision \in Nat /\ log[i].revision <= revision
  BY <1>7 DEF LogEntry, RevisionInv
<1>9. \A i \in DOMAIN log' : log'[i].revision <= revision'
  BY <1>1, <1>2, <1>6, <1>7, <1>8
<1>10. RevisionsNeverReused'
  <2>. SUFFICES ASSUME NEW i \in DOMAIN log', NEW j \in DOMAIN log',
                       i < j, log'[j].changed
                PROVE  log'[i].revision < log'[j].revision
    BY DEF RevisionsNeverReused
  <2>1. i \in DOMAIN log
    BY <1>7
  <2>2. CASE j \in DOMAIN log
    BY <1>7, <2>1, <2>2 DEF RevisionInv, RevisionsNeverReused
  <2>3. CASE j = Len(log) + 1
    BY <1>1, <1>6, <1>7, <1>8, <2>1, <2>3
  <2>. QED
    BY <1>7, <2>2, <2>3
<1>. QED
  BY <1>2, <1>3, <1>4, <1>9, <1>10 DEF RevisionInv, RestartAccepts

\* Every step keeps the revision facts; only Commit uses a new revision.
LEMMA NextRevision == TypeInv /\ RevisionInv /\ [Next]_vars => RevisionInv'
<1>. SUFFICES ASSUME TypeInv, RevisionInv, [Next]_vars PROVE RevisionInv'
  OBVIOUS
<1>. USE DEF database, memory, history
<1>1. ASSUME NEW w \in Worker, NEW p \in Player, NEW s \in Session, NEW o \in OpId,
             NEW a \in Action, Begin(w, p, s, o, a)
      PROVE  RevisionInv'
  BY <1>1, QuietRevision DEF Begin
<1>2. ASSUME NEW w \in Worker, NEW r \in Region, LockRegion(w, r) PROVE RevisionInv'
  BY <1>2, QuietRevision DEF LockRegion
<1>3. ASSUME NEW w \in Worker, LockPlayer(w) PROVE RevisionInv'
  BY <1>3, QuietRevision DEF LockPlayer
<1>4. ASSUME NEW w \in Worker, Replay(w) \/ Refuse(w) \/ Rollback(w) PROVE RevisionInv'
  BY <1>4, QuietRevision DEF Replay, Refuse, Rollback
<1>5. ASSUME NEW w \in Worker, Plan(w) \/ WriteMemory(w) PROVE RevisionInv'
  BY <1>5, QuietRevision DEF Plan, WriteMemory
<1>6. ASSUME NEW w \in Worker, Commit(w) PROVE RevisionInv'
  BY <1>6, CommitRevision
<1>7. ASSUME NEW p \in Player, LoadPlayer(p) PROVE RevisionInv'
  BY <1>7, QuietRevision DEF LoadPlayer
<1>8. ASSUME NEW p \in Player, NEW s \in Session, BeginSession(p, s) PROVE RevisionInv'
  BY <1>8, QuietRevision DEF BeginSession
<1>9. ASSUME NEW c \in Chunk, SnapshotChunk(c) PROVE RevisionInv'
  BY <1>9, QuietRevision DEF SnapshotChunk
<1>10. ASSUME Restart PROVE RevisionInv'
  BY <1>10 DEF Restart, RevisionInv, RestartAccepts, RevisionsNeverReused
<1>11. ASSUME UNCHANGED vars PROVE RevisionInv'
  BY <1>11, QuietRevision DEF vars
<1>. QED
  BY <1>1, <1>2, <1>3, <1>4, <1>5, <1>6, <1>7, <1>8, <1>9, <1>10, <1>11 DEF Next, Step

\* In every reachable state the stored revision bounds every revision handed out.
LEMMA InvRevision == Spec => []RevisionInv
<1>1. Init => RevisionInv
  BY DEF Init, RevisionInv, RestartAccepts, RevisionsNeverReused, InitialRevision
<1>. QED
  BY <1>1, InitType, NextType, NextRevision, PTL DEF Spec

\* Every change of the world gets a revision above all earlier ones, restarts
\* included (apply, load_edits).
THEOREM RevisionsIncrease == Spec => []RevisionsNeverReused
<1>1. RevisionInv => RevisionsNeverReused
  BY DEF RevisionInv
<1>. QED
  BY <1>1, InvRevision, PTL

\* The database can always be opened again: no chunk revision is newer than the
\* world revision (load_product_revisions).
THEOREM DatabaseOpens == Spec => []RestartAccepts
<1>1. RevisionInv => RestartAccepts
  BY DEF RevisionInv
<1>. QED
  BY <1>1, InvRevision, PTL

-----------------------------------------------------------------------------
(* Memory and database.  Between WriteMemory and the end of the transaction*)
(* the maps in memory are one write ahead of the database, undo holds what *)
(* the write replaced, and the spawn disc is out of its reach.             *)

Ahead(w) ==
  LET S == plan[w].voxels
      m == Outcome(cmd[w].action)
      world == Overlay(overrides)
  IN /\ durable = Written(overrides, S, m)
     /\ edits = Written(world, S, m)
     /\ undo = [durable |-> [v \in S |-> overrides[v]], edits |-> [v \in S |-> world[v]]]

MemoryInv ==
  /\ inner = Free => durable = overrides /\ edits = Overlay(overrides)
  /\ \A w \in Worker : pc[w] # "idle" => ~IntersectsSpawn(cmd[w].action)
  /\ \A w \in Worker : pc[w] \in {"planned", "writing"} =>
                          plan[w].voxels \subseteq cmd[w].action.volume
  /\ \A w \in Worker : pc[w] = "writing" => Ahead(w)

\* Writing outside the spawn disc commutes with the spawn overlay
\* (install_protected_spawn against apply).
LEMMA WrittenBelowOverlay ==
  ASSUME NEW d \in Overrides, NEW S, S \cap Protected = {}, NEW m
  PROVE  Written(Overlay(d), S, m) = Overlay(Written(d, S, m))
BY SpawnAssumption DEF Written, Overlay, Overrides

\* Persisting the written voxels makes the database equal to memory
\* (encode_durable_chunks, persist_action).
LEMMA PersistedIsWritten ==
  ASSUME NEW S, NEW m, overrides \in Overrides, durable = Written(overrides, S, m)
  PROVE  Persisted(S) = Written(overrides, S, m)
BY DEF Persisted, Written, Overrides

\* Restoring what a write replaced undoes it (restore_overrides).
LEMMA RestoredIsPrevious ==
  ASSUME NEW d \in Overrides, NEW S \in SUBSET Voxel, NEW m
  PROVE  Restored(Written(d, S, m), [v \in S |-> d[v]]) = d
BY DEF Restored, Written, Overrides

\* A step that leaves memory, database and lock holders alone keeps memory equal to its durable source.
LEMMA QuietMemory ==
  ASSUME MemoryInv, UNCHANGED <<overrides, durable, edits, undo, inner, cmd, plan>>,
         \A w \in Worker : pc'[w] # "idle" => pc[w] # "idle",
         \A w \in Worker : pc'[w] \in {"planned", "writing"} => pc'[w] = pc[w]
  PROVE  MemoryInv'
BY DEF MemoryInv, Ahead

\* Ending an apply that never wrote memory keeps memory equal to its durable source.
LEMMA ReleaseMemory ==
  ASSUME TypeInv, MemoryInv, NEW w \in Worker, Release(w),
         inner' = Free, inner \in {Free, w},
         durable' = overrides', edits' = Overlay(overrides')
  PROVE  MemoryInv'
<1>1. \A u \in Worker : pc'[u] # "idle" =>
         u # w /\ pc'[u] = pc[u] /\ cmd'[u] = cmd[u] /\ plan'[u] = plan[u]
  BY ReleaseType
<1>2. \A u \in Worker : pc'[u] # "writing"
  BY <1>1, WorkerAssumption DEF TypeInv, WorkerInv
<1>. QED
  BY <1>1, <1>2 DEF MemoryInv

\* Every step keeps memory restorable: what apply overwrote is in its undo until commit or rollback.
LEMMA NextMemory == TypeInv /\ MemoryInv /\ [Next]_vars => MemoryInv'
<1>. SUFFICES ASSUME TypeInv, MemoryInv, [Next]_vars PROVE MemoryInv'
  OBVIOUS
<1>1. ASSUME NEW w \in Worker, NEW p \in Player, NEW s \in Session, NEW o \in OpId,
             NEW a \in Action, Begin(w, p, s, o, a)
      PROVE  MemoryInv'
  <2>1. /\ pc[w] = "idle" /\ pc' = [pc EXCEPT ![w] = "player"]
        /\ cmd' = [cmd EXCEPT ![w] = [player |-> p, session |-> s, op |-> o, action |-> a]]
        /\ ~IntersectsSpawn(a)
        /\ UNCHANGED <<overrides, durable, edits, undo, inner, plan>>
    BY <1>1 DEF Begin, database, memory, locks
  <2>. QED
    BY <2>1 DEF MemoryInv, Ahead, TypeInv, TypeOK
<1>2. ASSUME NEW w \in Worker, LockPlayer(w) PROVE MemoryInv'
  <2>1. /\ pc[w] = "player" /\ pc' = [pc EXCEPT ![w] = "regions"]
        /\ UNCHANGED <<overrides, durable, edits, undo, inner, cmd, plan>>
    BY <1>2 DEF LockPlayer, database, memory
  <2>. QED
    BY <2>1, QuietMemory DEF TypeInv, TypeOK
<1>3. ASSUME NEW w \in Worker, NEW r \in Region, LockRegion(w, r) PROVE MemoryInv'
  BY <1>3, QuietMemory DEF LockRegion, database, memory, threads
<1>4. ASSUME NEW w \in Worker, Replay(w) \/ Refuse(w) PROVE MemoryInv'
  <2>1. Release(w) /\ inner = Free /\ UNCHANGED <<overrides, durable, edits, inner>>
    BY <1>4 DEF Replay, Refuse, database, memory
  <2>. QED
    BY <2>1, ReleaseMemory DEF MemoryInv
<1>5. ASSUME NEW w \in Worker, Plan(w) PROVE MemoryInv'
  <2>1. /\ pc[w] = "regions" /\ pc' = [pc EXCEPT ![w] = "planned"] /\ inner = Free
        /\ UNCHANGED <<overrides, durable, edits, undo, inner, cmd>>
    BY <1>5 DEF Plan, AllLocked, database, memory, locks
  <2>2. cmd[w].action \in Action
    BY <2>1 DEF TypeInv, WorkerInv, Command
  <2>3. \A u \in Worker \ {w} : plan'[u] = plan[u]
    BY <1>5 DEF Plan, TypeInv, TypeOK
  <2>4. plan'[w].voxels = Mutated(edits, cmd[w].action)
    BY <1>5 DEF Plan, TypeInv, TypeOK
  <2>5. plan'[w].voxels \subseteq cmd[w].action.volume
    BY <2>2, <2>4, MutatedInVolume
  <2>. QED
    BY <2>1, <2>3, <2>5 DEF MemoryInv, Ahead, TypeInv, TypeOK
<1>6. ASSUME NEW w \in Worker, WriteMemory(w) PROVE MemoryInv'
  <2>1. /\ pc[w] = "planned" /\ pc' = [pc EXCEPT ![w] = "writing"]
        /\ inner = Free /\ inner' = w /\ UNCHANGED <<overrides, cmd, plan>>
    BY <1>6 DEF WriteMemory, database
  <2>2. Ahead(w)'
    BY <1>6, <2>1 DEF WriteMemory, Ahead, MemoryInv
  <2>3. \A u \in Worker \ {w} : pc'[u] # "writing"
    BY <2>1, WorkerAssumption DEF TypeInv, TypeOK, WorkerInv
  <2>. QED
    BY <2>1, <2>2, <2>3, WorkerAssumption DEF MemoryInv, TypeInv, TypeOK
<1>7. ASSUME NEW w \in Worker, Commit(w) PROVE MemoryInv'
  <2>. DEFINE S == plan[w].voxels
              m == Outcome(cmd[w].action)
  <2>1. /\ pc[w] = "writing" /\ inner = w /\ inner' = Free /\ Release(w)
        /\ overrides' = Persisted(S) /\ UNCHANGED <<durable, edits>>
    BY <1>7 DEF Commit
  <2>2. S \cap Protected = {}
    BY <2>1 DEF MemoryInv, IntersectsSpawn
  <2>3. durable = Written(overrides, S, m) /\ edits = Written(Overlay(overrides), S, m)
    BY <2>1 DEF MemoryInv, Ahead
  <2>4. overrides' = Written(overrides, S, m)
    BY <2>1, <2>3, PersistedIsWritten DEF TypeInv, TypeOK
  <2>5. edits = Overlay(Written(overrides, S, m))
    BY <2>2, <2>3, WrittenBelowOverlay DEF TypeInv, TypeOK
  <2>. QED
    BY <2>1, <2>3, <2>4, <2>5, ReleaseMemory
<1>8. ASSUME NEW w \in Worker, Rollback(w) PROVE MemoryInv'
  <2>. DEFINE S == plan[w].voxels
              m == Outcome(cmd[w].action)
              world == Overlay(overrides)
  <2>1. /\ pc[w] = "writing" /\ inner = w /\ inner' = Free /\ Release(w)
        /\ durable' = Restored(durable, undo.durable)
        /\ edits' = Restored(edits, undo.edits) /\ UNCHANGED overrides
    BY <1>8 DEF Rollback, database
  <2>2. /\ durable = Written(overrides, S, m) /\ edits = Written(world, S, m)
        /\ undo.durable = [v \in S |-> overrides[v]] /\ undo.edits = [v \in S |-> world[v]]
    BY <2>1 DEF MemoryInv, Ahead
  <2>3. S \in SUBSET Voxel /\ overrides \in Overrides /\ world \in Overrides
    BY <2>1, OverlayType DEF TypeInv, TypeOK, WorkerInv, PlanRecord
  <2>. HIDE DEF S, m, world
  <2>4. durable' = overrides /\ edits' = world
    BY <2>1, <2>2, <2>3, RestoredIsPrevious
  <2>. QED
    BY <2>1, <2>4, ReleaseMemory DEF world
<1>9. ASSUME NEW p \in Player, LoadPlayer(p) PROVE MemoryInv'
  BY <1>9, QuietMemory DEF LoadPlayer, memory, locks, threads
<1>10. ASSUME NEW p \in Player, NEW s \in Session, BeginSession(p, s) PROVE MemoryInv'
  BY <1>10, QuietMemory DEF BeginSession, memory, locks, threads
<1>11. ASSUME NEW c \in Chunk, SnapshotChunk(c) PROVE MemoryInv'
  BY <1>11, QuietMemory DEF SnapshotChunk, database, memory, locks, threads
<1>12. ASSUME Restart PROVE MemoryInv'
  BY <1>12 DEF Restart, MemoryInv, database
<1>13. ASSUME UNCHANGED vars PROVE MemoryInv'
  BY <1>13, QuietMemory DEF vars, database, memory, locks, threads
<1>. QED
  BY <1>1, <1>2, <1>3, <1>4, <1>5, <1>6, <1>7, <1>8, <1>9, <1>10, <1>11, <1>12, <1>13
     DEF Next, Step

\* In every reachable state memory differs from the database only under an unfinished write.
LEMMA InvMemory == Spec => []MemoryInv
<1>1. Init => MemoryInv
  BY DEF Init, MemoryInv
<1>. QED
  BY <1>1, InitType, NextType, NextMemory, PTL DEF Spec

-----------------------------------------------------------------------------
(* The column index.  A commit stamps a revision at least as new as any     *)
(* chunk's, so raising the columns it touched keeps every column at the     *)
(* newest revision of its chunks.                                           *)

RevisionsOf(k) == {InitialRevision} \cup {chunkRev[c] : c \in {d \in Chunk : ColumnOf[d] = k}}

SurfaceInv ==
  /\ DOMAIN surface = Column
  /\ surface = [k \in Column |-> surface[k]]
  /\ \A k \in Column : surface[k] \in RevisionsOf(k)
  /\ \A k \in Column : \A x \in RevisionsOf(k) : x <= surface[k]

\* A largest member of a set of revisions is its maximum (build_surface_revision_index).
LEMMA MaxIs ==
  ASSUME NEW S \in SUBSET Nat, NEW m \in S, \A x \in S : x <= m
  PROVE  Max(S) = m
<1>1. \A y \in S : (\A x \in S : y >= x) <=> y = m
  OBVIOUS
<1>. QED
  BY <1>1 DEF Max

\* The invariant says that the index is the one a start-up would build.
LEMMA SurfaceIsIndex == TypeInv /\ SurfaceInv => surface = SurfaceIndex(chunkRev)
<1>. SUFFICES ASSUME TypeInv, SurfaceInv PROVE surface = SurfaceIndex(chunkRev)
  OBVIOUS
<1>1. ASSUME NEW k \in Column PROVE Max(RevisionsOf(k)) = surface[k]
  <2>1. RevisionsOf(k) \in SUBSET Nat
    BY DEF RevisionsOf, InitialRevision, TypeInv, TypeOK
  <2>. QED
    BY <2>1, MaxIs DEF SurfaceInv
<1>. QED
  BY <1>1 DEF SurfaceIndex, SurfaceInv, RevisionsOf

\* persist_product_revisions and record_surface_revision keep the index.
LEMMA CommitSurface ==
  ASSUME TypeInv, RevisionInv, SurfaceInv, NEW w \in Worker, Commit(w)
  PROVE  SurfaceInv'
<1>. DEFINE S == plan[w].voxels
            now == IF S # {} THEN memRevision + 1 ELSE memRevision
            chunks == AffectedBy(S)
<1>1. S \subseteq Voxel /\ chunks \subseteq Chunk
  BY VoxelAssumption DEF Commit, TypeInv, WorkerInv, PlanRecord, AffectedBy
<1>2. now \in Nat /\ \A c \in Chunk : chunkRev[c] \in Nat /\ chunkRev[c] <= now
  BY DEF TypeInv, TypeOK, RevisionInv, RestartAccepts
<1>3. chunkRev' = Bumped(chunkRev, chunks, now) /\ surface' = SurfaceBumped(surface, chunks, now)
  BY DEF Commit
<1>. HIDE DEF S, now, chunks
<1>4. \A c \in Chunk : chunkRev'[c] = IF c \in chunks THEN now ELSE chunkRev[c]
  BY <1>3 DEF Bumped
<1>5. ASSUME NEW k \in Column
      PROVE  /\ surface'[k] \in RevisionsOf(k)'
             /\ \A x \in RevisionsOf(k)' : x <= surface'[k]
  <2>1. surface[k] \in RevisionsOf(k) /\ \A x \in RevisionsOf(k) : x <= surface[k]
    BY DEF SurfaceInv
  <2>2. surface[k] \in Nat /\ 1 <= surface[k]
    BY <1>2, <2>1 DEF RevisionsOf, InitialRevision
  <2>3. surface'[k] = IF k \in {ColumnOf[c] : c \in chunks} /\ surface[k] < now
                     THEN now ELSE surface[k]
    BY <1>3 DEF SurfaceBumped
  <2>4. CASE k \in {ColumnOf[c] : c \in chunks}
    <3>1. PICK c \in chunks : ColumnOf[c] = k
      BY <2>4
    <3>2. now \in RevisionsOf(k)'
      BY <1>1, <1>4, <3>1 DEF RevisionsOf
    <3>3. \A x \in RevisionsOf(k) : x <= now \/ x = 1
      BY <1>2 DEF RevisionsOf, InitialRevision
    <3>4. \A x \in RevisionsOf(k)' : x = now \/ x \in RevisionsOf(k)
      BY <1>4 DEF RevisionsOf
    <3>5. surface'[k] = now \/ (surface'[k] = 1 /\ ~(1 < now))
          \/ (surface'[k] = surface[k] /\ now <= surface[k])
      BY <1>2, <2>2, <2>3, <2>4
    <3>6. surface[k] <= now \/ surface[k] = 1
      BY <2>1, <3>3
    <3>7. surface'[k] = now \/ surface'[k] = 1
      BY <1>2, <2>2, <3>5, <3>6
    <3>8. 1 \in RevisionsOf(k)'
      BY DEF RevisionsOf, InitialRevision
    <3>9. \A x \in RevisionsOf(k) : x <= surface'[k]
      BY <1>2, <2>1, <2>2, <2>3, <2>4, <3>3 DEF RevisionsOf, InitialRevision
    <3>10. now <= surface'[k]
      BY <1>2, <2>2, <2>3, <2>4
    <3>. QED
      BY <3>2, <3>4, <3>7, <3>8, <3>9, <3>10
  <2>5. CASE k \notin {ColumnOf[c] : c \in chunks}
    <3>1. \A c \in Chunk : ColumnOf[c] = k => chunkRev'[c] = chunkRev[c]
      BY <1>4, <2>5
    <3>2. RevisionsOf(k)' = RevisionsOf(k)
      BY <3>1 DEF RevisionsOf
    <3>. QED
      BY <2>1, <2>3, <2>5, <3>2
  <2>. QED
    BY <2>4, <2>5
<1>. QED
  BY <1>3, <1>5 DEF SurfaceInv, SurfaceBumped

\* Every step keeps the index; only Commit and Restart write it.
LEMMA NextSurface == TypeInv /\ RevisionInv /\ SurfaceInv /\ [Next]_vars => SurfaceInv'
<1>. SUFFICES ASSUME TypeInv, RevisionInv, SurfaceInv, [Next]_vars PROVE SurfaceInv'
  OBVIOUS
<1>1. ASSUME NEW w \in Worker, Commit(w) PROVE SurfaceInv'
  BY <1>1, CommitSurface
<1>2. ASSUME Restart PROVE SurfaceInv'
  <2>1. surface' = surface /\ chunkRev' = chunkRev
    BY <1>2, SurfaceIsIndex DEF Restart, database
  <2>. QED
    BY <2>1 DEF SurfaceInv, RevisionsOf
<1>3. ASSUME UNCHANGED <<surface, chunkRev>> PROVE SurfaceInv'
  BY <1>3 DEF SurfaceInv, RevisionsOf
<1>4. ASSUME NEW w \in Worker, Step(w), ~Commit(w) PROVE UNCHANGED <<surface, chunkRev>>
  BY <1>4 DEF Step, LockPlayer, LockRegion, Replay, Refuse, Plan, WriteMemory, Rollback,
              database, memory
<1>5. ASSUME NEW w \in Worker, NEW p \in Player, NEW s \in Session, NEW o \in OpId,
             NEW a \in Action, Begin(w, p, s, o, a)
      PROVE  UNCHANGED <<surface, chunkRev>>
  BY <1>5 DEF Begin, database, memory
<1>6. ASSUME NEW p \in Player, LoadPlayer(p) \/ \E s \in Session : BeginSession(p, s)
      PROVE  UNCHANGED <<surface, chunkRev>>
  BY <1>6 DEF LoadPlayer, BeginSession, memory
<1>7. ASSUME NEW c \in Chunk, SnapshotChunk(c) PROVE UNCHANGED <<surface, chunkRev>>
  BY <1>7 DEF SnapshotChunk, database, memory
<1>8. ASSUME UNCHANGED vars PROVE UNCHANGED <<surface, chunkRev>>
  BY <1>8 DEF vars, database, memory
<1>. QED
  BY <1>1, <1>2, <1>3, <1>4, <1>5, <1>6, <1>7, <1>8 DEF Next

\* In every reachable state the index is the newest revision of each column's chunks.
LEMMA InvSurface == Spec => []SurfaceInv
<1>1. Init => SurfaceInv
  BY DEF Init, SurfaceInv, RevisionsOf, InitialRevision
<1>. QED
  BY <1>1, InitType, NextType, InvRevision, NextSurface, PTL DEF Spec

\* Readers never see an edit that was not persisted, and a restart loads what
\* they saw: memory and database agree whenever the state mutex is free, after
\* commits, failed transactions and crashes (apply, persist_action,
\* restore_overrides, from_connection, install_protected_spawn).
THEOREM MemoryIsDurable == Spec => []MemoryMatchesDatabase
<1>1. TypeInv /\ MemoryInv /\ RevisionInv /\ SurfaceInv => MemoryMatchesDatabase
  BY SurfaceIsIndex DEF MemoryInv, RevisionInv, MemoryMatchesDatabase
<1>. QED
  BY <1>1, InitType, NextType, InvMemory, InvRevision, InvSurface, PTL DEF Spec

-----------------------------------------------------------------------------
(* Products.  A cached product carries a revision its chunk had once.  The *)
(* revision is still the same only if no commit affected the chunk since,  *)
(* and every voxel the product is built from affects the chunk.            *)

ProductInv ==
  product # None =>
    /\ product.chunk \in Chunk /\ product.key \in Nat
    /\ product.key <= chunkRev[product.chunk]
    /\ product.key = chunkRev[product.chunk] =>
         product.content = [v \in Sampled[product.chunk] |-> Overlay(overrides)[v]]

\* With the chunk edge of the code, a voxel of a chunk's shell counts the chunk
\* among those it affects (affected_chunks against MeshingHalo): what
\* SampledAssumption asks of the constants, on each axis.
LEMMA ShellIsAffected ==
  ASSUME NEW x \in Int, NEW base \in Int, InShell(32, x, base)
  PROVE  base \in AxisChunks(32, x)
<1>1. 32 * base - 1 <= x /\ x <= 32 * base + 32
  BY DEF InShell
<1>2. CASE x = 32 * base - 1
  BY <1>2 DEF AxisChunks
<1>3. CASE x = 32 * base + 32
  BY <1>3 DEF AxisChunks
<1>4. CASE 32 * base <= x /\ x < 32 * base + 32
  BY <1>4 DEF AxisChunks
<1>. QED
  BY <1>1, <1>2, <1>3, <1>4

\* Another product, world or chunk revision is written by Commit and SnapshotChunk alone.
LEMMA QuietProduct ==
  ASSUME ProductInv, UNCHANGED <<overrides, chunkRev>>, product' = product \/ product' = None
  PROVE  ProductInv'
BY DEF ProductInv

\* A commit that writes a sampled voxel gives the chunk a newer revision
\* (from_mutations, persist_product_revisions).
LEMMA CommitProduct ==
  ASSUME TypeInv, MemoryInv, RevisionInv, ProductInv, NEW w \in Worker, Commit(w)
  PROVE  ProductInv'
<1>. DEFINE S == plan[w].voxels
            now == IF S # {} THEN memRevision + 1 ELSE memRevision
            c == product.chunk
<1>. SUFFICES ASSUME product # None PROVE ProductInv'
  BY DEF ProductInv, Commit
<1>1. /\ product' = product /\ overrides' = Persisted(S)
      /\ chunkRev' = Bumped(chunkRev, AffectedBy(S), now)
  BY DEF Commit
<1>2. /\ c \in Chunk /\ product.key \in Nat /\ product.key <= chunkRev[c]
      /\ product.key = chunkRev[c] =>
           product.content = [v \in Sampled[c] |-> Overlay(overrides)[v]]
  BY DEF ProductInv
<1>3. chunkRev[c] \in Nat /\ chunkRev[c] <= now /\ now \in Nat
      /\ (S # {} => chunkRev[c] < now)
  BY <1>2 DEF RevisionInv, RestartAccepts, TypeInv, TypeOK
<1>4. plan[w] \in PlanRecord
  BY DEF Commit, TypeInv, WorkerInv
<1>. HIDE DEF S, now, c
<1>5. CASE c \in AffectedBy(S)
  <2>1. S # {}
    BY <1>5 DEF AffectedBy
  <2>2. chunkRev'[c] = now
    BY <1>1, <1>2, <1>5 DEF Bumped
  <2>. QED
    BY <1>1, <1>2, <1>3, <2>1, <2>2 DEF ProductInv, c
<1>6. CASE c \notin AffectedBy(S)
  <2>1. chunkRev'[c] = chunkRev[c]
    BY <1>1, <1>2, <1>6 DEF Bumped
  <2>2. \A v \in Sampled[c] : v \in Voxel /\ v \notin S
    BY <1>2, <1>6, SampledAssumption DEF AffectedBy
  <2>3. \A v \in Sampled[c] : overrides'[v] = overrides[v]
    BY <1>1, <2>2 DEF Persisted
  <2>4. \A v \in Sampled[c] : Overlay(overrides')[v] = Overlay(overrides)[v]
    BY <2>2, <2>3 DEF Overlay
  <2>5. [v \in Sampled[c] |-> Overlay(overrides')[v]]
          = [v \in Sampled[c] |-> Overlay(overrides)[v]]
    BY <2>4
  <2>. QED
    BY <1>1, <1>2, <2>1, <2>5 DEF ProductInv, c
<1>. QED
  BY <1>5, <1>6

\* Every step keeps what the cached product promises.
LEMMA NextProduct ==
  TypeInv /\ MemoryInv /\ RevisionInv /\ ProductInv /\ [Next]_vars => ProductInv'
<1>. SUFFICES ASSUME TypeInv, MemoryInv, RevisionInv, ProductInv, [Next]_vars
              PROVE  ProductInv'
  OBVIOUS
<1>. USE DEF database
<1>1. ASSUME NEW w \in Worker, NEW p \in Player, NEW s \in Session, NEW o \in OpId,
             NEW a \in Action, Begin(w, p, s, o, a)
      PROVE  ProductInv'
  BY <1>1, QuietProduct DEF Begin
<1>2. ASSUME NEW w \in Worker, Step(w), ~Commit(w) PROVE ProductInv'
  BY <1>2, QuietProduct
     DEF Step, LockPlayer, LockRegion, Replay, Refuse, Plan, WriteMemory, Rollback
<1>3. ASSUME NEW w \in Worker, Commit(w) PROVE ProductInv'
  BY <1>3, CommitProduct
<1>4. ASSUME NEW p \in Player, LoadPlayer(p) PROVE ProductInv'
  BY <1>4, QuietProduct DEF LoadPlayer
<1>5. ASSUME NEW p \in Player, NEW s \in Session, BeginSession(p, s) PROVE ProductInv'
  BY <1>5, QuietProduct DEF BeginSession
<1>6. ASSUME NEW c \in Chunk, SnapshotChunk(c) PROVE ProductInv'
  <2>1. /\ product' = [chunk |-> c, key |-> chunkRev[c],
                       content |-> [v \in Sampled[c] |-> Overlay(overrides)[v]]]
        /\ UNCHANGED <<overrides, chunkRev>>
    BY <1>6 DEF SnapshotChunk, Content, MemoryInv, RevisionInv
  <2>2. chunkRev[c] \in Nat
    BY DEF TypeInv, TypeOK
  <2>. QED
    BY <2>1, <2>2 DEF ProductInv
<1>7. ASSUME Restart PROVE ProductInv'
  BY <1>7, QuietProduct DEF Restart
<1>8. ASSUME UNCHANGED vars PROVE ProductInv'
  BY <1>8, QuietProduct DEF vars
<1>. QED
  BY <1>1, <1>2, <1>3, <1>4, <1>5, <1>6, <1>7, <1>8 DEF Next

\* A product that was cached under the edit revision its chunk still has is what
\* would be built now, for any geometry in which sampled voxels affect the
\* chunk that samples them (affected_chunks, snapshot_chunks).
THEOREM ProductsAreCurrent == Spec => []ProductKeyIdentifiesContent
<1>1. Init => ProductInv
  BY DEF Init, ProductInv
<1>2. TypeInv /\ MemoryInv /\ RevisionInv /\ ProductInv => ProductKeyIdentifiesContent
  BY DEF MemoryInv, RevisionInv, ProductInv, ProductKeyIdentifiesContent, Content
<1>. QED
  BY <1>1, <1>2, InitType, NextType, InvMemory, InvRevision, NextProduct, PTL DEF Spec

-----------------------------------------------------------------------------
(* EditAuthority implements EditLedger: an edit that is planned without    *)
(* the state mutex takes effect as if it were planned and executed at      *)
(* once, with its commit.                                                  *)
(*                                                                         *)
(* The plan of a worker is what EditLedger would compute from the durable  *)
(* world and inventory now: other editors' commits cannot touch its volume *)
(* (they hold no region of it) nor its inventory (they do not hold the     *)
(* editor's player lock).                                                  *)

PlanIsCurrent(w) ==
  LET world == Overlay(overrides)
      a == cmd[w].action
      p == cmd[w].player
  IN /\ plan[w].voxels = Mutated(world, a)
     /\ plan[w].before = inventory[p]
     /\ plan[w].after = CountsAfter(world, inventory[p], a)
     /\ plan[w].invRevision = invRevision[p]
     /\ Plannable(world, inventory[p], a)

PlanInv == \A w \in Worker : pc[w] \in {"planned", "writing"} => PlanIsCurrent(w)

\* Planning looks at the volume of the action only (plan_action).
LEMMA PlanReadsVolume ==
  ASSUME NEW d, NEW e, NEW counts, NEW a \in Action,
         \A v \in a.volume : At(d, v) = At(e, v)
  PROVE  /\ Mutated(d, a) = Mutated(e, a)
         /\ CountsAfter(d, counts, a) = CountsAfter(e, counts, a)
         /\ Plannable(d, counts, a) <=> Plannable(e, counts, a)
<1>1. Mutated(d, a) = Mutated(e, a)
  BY DEF Mutated
<1>2. \A m : {v \in a.volume : At(d, v) = m} = {v \in a.volume : At(e, v) = m}
  OBVIOUS
<1>3. CountsAfter(d, counts, a) = CountsAfter(e, counts, a)
  BY <1>2 DEF CountsAfter
<1>4. Plannable(d, counts, a) <=> Plannable(e, counts, a)
  BY DEF Plannable
<1>. QED
  BY <1>1, <1>3, <1>4

\* Two editors between plan and commit work on disjoint volumes and different
\* players: each holds all its regions and its player lock (KeyedLocks).
LEMMA PlannedAreApart ==
  ASSUME TypeInv, LockInv, NEW w \in Worker, NEW u \in Worker, u # w,
         pc[w] \in {"planned", "writing"}, pc[u] \in {"planned", "writing"}
  PROVE  /\ cmd[u].player # cmd[w].player
         /\ cmd[u].action.volume \cap cmd[w].action.volume = {}
<1>1. cmd[u].player # cmd[w].player
  BY DEF LockInv
<1>2. Wanted(u) \cap Wanted(w) = {}
  BY DEF LockInv, Held
<1>. QED
  BY <1>1, <1>2 DEF Wanted, RegionsOf

\* A step that leaves the durable world, the inventories and the plans alone.
LEMMA QuietPlan ==
  ASSUME PlanInv, UNCHANGED <<overrides, inventory, invRevision, cmd, plan>>,
         \A w \in Worker : pc'[w] \in {"planned", "writing"} => pc[w] \in {"planned", "writing"}
  PROVE  PlanInv'
BY DEF PlanInv, PlanIsCurrent

\* A worker that returns without committing.
LEMMA ReleasePlan ==
  ASSUME TypeInv, PlanInv, NEW w \in Worker, Release(w),
         UNCHANGED <<overrides, inventory, invRevision>>
  PROVE  PlanInv'
<1>1. \A u \in Worker : pc'[u] # "idle" =>
         pc[u] = pc'[u] /\ cmd[u] = cmd'[u] /\ plan[u] = plan'[u]
  BY ReleaseType
<1>. QED
  BY <1>1 DEF PlanInv, PlanIsCurrent

\* What a commit makes durable (persist_action).
LEMMA CommitWrites ==
  ASSUME TypeInv, MemoryInv, NEW w \in Worker, Commit(w)
  PROVE  /\ overrides' = Written(overrides, plan[w].voxels, Outcome(cmd[w].action))
         /\ pc[w] = "writing" /\ cmd[w] \in Command /\ plan[w] \in PlanRecord
         /\ plan[w].voxels \subseteq cmd[w].action.volume
         /\ Release(w)
<1>1. pc[w] = "writing" /\ Release(w) /\ overrides' = Persisted(plan[w].voxels)
  BY DEF Commit
<1>2. Ahead(w) /\ plan[w].voxels \subseteq cmd[w].action.volume
  BY <1>1 DEF MemoryInv
<1>3. cmd[w] \in Command /\ plan[w] \in PlanRecord
  BY <1>1 DEF TypeInv, WorkerInv
<1>4. overrides' = Written(overrides, plan[w].voxels, Outcome(cmd[w].action))
  BY <1>1, <1>2, PersistedIsWritten DEF Ahead, TypeInv, TypeOK
<1>. QED
  BY <1>1, <1>2, <1>3, <1>4

\* A commit leaves the plans of all other editors current.
LEMMA CommitPlan ==
  ASSUME TypeInv, LockInv, MemoryInv, PlanInv, NEW w \in Worker, Commit(w)
  PROVE  PlanInv'
<1>. SUFFICES ASSUME NEW u \in Worker, pc'[u] \in {"planned", "writing"}
              PROVE  PlanIsCurrent(u)'
  BY DEF PlanInv
<1>1. /\ u # w /\ pc[u] = pc'[u] /\ cmd'[u] = cmd[u] /\ plan'[u] = plan[u]
      /\ pc[w] = "writing"
  BY CommitWrites, ReleaseType
<1>2. /\ cmd[u].player # cmd[w].player
      /\ cmd[u].action.volume \cap cmd[w].action.volume = {}
  BY <1>1, PlannedAreApart
<1>3. PlanIsCurrent(u) /\ cmd[u] \in Command
  BY <1>1 DEF PlanInv, TypeInv, WorkerInv
<1>4. cmd[u].action \in Action /\ cmd[u].player \in Player /\ cmd[u].action.volume \subseteq Voxel
  BY <1>3, ActionAssumption DEF Command
<1>5. inventory'[cmd[u].player] = inventory[cmd[u].player]
      /\ invRevision'[cmd[u].player] = invRevision[cmd[u].player]
  BY <1>2, <1>4 DEF Commit, TypeInv, TypeOK
<1>6. \A v \in cmd[u].action.volume : v \notin plan[w].voxels
  BY <1>2, CommitWrites
<1>7. \A v \in cmd[u].action.volume : overrides'[v] = overrides[v]
  BY <1>4, <1>6, CommitWrites DEF Written
<1>8. \A v \in cmd[u].action.volume : At(Overlay(overrides'), v) = At(Overlay(overrides), v)
  BY <1>4, <1>7 DEF At, Overlay
<1>. DEFINE world == Overlay(overrides)
            next == Overlay(overrides')
            a == cmd[u].action
            counts == inventory[cmd[u].player]
<1>9. /\ Mutated(next, a) = Mutated(world, a)
      /\ CountsAfter(next, counts, a) = CountsAfter(world, counts, a)
      /\ Plannable(next, counts, a) <=> Plannable(world, counts, a)
  <2>. HIDE DEF world, next
  <2>1. \A v \in a.volume : At(next, v) = At(world, v)
    BY <1>8 DEF world, next
  <2>. QED
    BY <1>4, <2>1, PlanReadsVolume
<1>. QED
  BY <1>1, <1>3, <1>5, <1>9 DEF PlanIsCurrent

\* Every step keeps what was planned current until it is committed.
LEMMA NextPlan == TypeInv /\ LockInv /\ MemoryInv /\ PlanInv /\ [Next]_vars => PlanInv'
<1>. SUFFICES ASSUME TypeInv, LockInv, MemoryInv, PlanInv, [Next]_vars PROVE PlanInv'
  OBVIOUS
<1>1. ASSUME NEW w \in Worker, NEW p \in Player, NEW s \in Session, NEW o \in OpId,
             NEW a \in Action, Begin(w, p, s, o, a)
      PROVE  PlanInv'
  BY <1>1 DEF Begin, TypeInv, TypeOK, PlanInv, PlanIsCurrent, database
<1>2. ASSUME NEW w \in Worker, LockPlayer(w) PROVE PlanInv'
  <2>1. pc[w] = "player" /\ pc' = [pc EXCEPT ![w] = "regions"]
        /\ UNCHANGED <<overrides, inventory, invRevision, cmd, plan>>
    BY <1>2 DEF LockPlayer, database
  <2>. QED
    BY <2>1, QuietPlan DEF TypeInv, TypeOK
<1>3. ASSUME NEW w \in Worker, NEW r \in Region, LockRegion(w, r) PROVE PlanInv'
  BY <1>3, QuietPlan DEF LockRegion, database, threads
<1>4. ASSUME NEW w \in Worker, Replay(w) \/ Refuse(w) \/ Rollback(w) PROVE PlanInv'
  BY <1>4, ReleasePlan DEF Replay, Refuse, Rollback, database
<1>5. ASSUME NEW w \in Worker, Plan(w) PROVE PlanInv'
  <2>1. /\ inner = Free /\ pc[w] = "regions" /\ pc' = [pc EXCEPT ![w] = "planned"]
        /\ UNCHANGED <<overrides, inventory, invRevision, cmd>>
    BY <1>5 DEF Plan, AllLocked, database
  <2>2. edits = Overlay(overrides)
    BY <2>1 DEF MemoryInv
  <2>3. PlanIsCurrent(w)'
    BY <1>5, <2>1, <2>2 DEF Plan, PlanIsCurrent, TypeInv, TypeOK
  <2>4. \A u \in Worker \ {w} : plan'[u] = plan[u] /\ pc'[u] = pc[u]
    BY <1>5, <2>1 DEF Plan, TypeInv, TypeOK
  <2>. QED
    BY <2>1, <2>3, <2>4 DEF PlanInv, PlanIsCurrent
<1>6. ASSUME NEW w \in Worker, WriteMemory(w) PROVE PlanInv'
  <2>1. pc[w] = "planned" /\ pc' = [pc EXCEPT ![w] = "writing"]
        /\ UNCHANGED <<overrides, inventory, invRevision, cmd, plan>>
    BY <1>6 DEF WriteMemory, database
  <2>. QED
    BY <2>1, QuietPlan DEF TypeInv, TypeOK
<1>7. ASSUME NEW w \in Worker, Commit(w) PROVE PlanInv'
  BY <1>7, CommitPlan
<1>8. ASSUME NEW p \in Player, LoadPlayer(p) PROVE PlanInv'
  BY <1>8, QuietPlan DEF LoadPlayer, threads
<1>9. ASSUME NEW p \in Player, NEW s \in Session, BeginSession(p, s) PROVE PlanInv'
  BY <1>9, QuietPlan DEF BeginSession, threads
<1>10. ASSUME NEW c \in Chunk, SnapshotChunk(c) PROVE PlanInv'
  BY <1>10, QuietPlan DEF SnapshotChunk, database, threads
<1>11. ASSUME Restart PROVE PlanInv'
  BY <1>11 DEF Restart, PlanInv
<1>12. ASSUME UNCHANGED vars PROVE PlanInv'
  BY <1>12, QuietPlan DEF vars, database, threads
<1>. QED
  BY <1>1, <1>2, <1>3, <1>4, <1>5, <1>6, <1>7, <1>8, <1>9, <1>10, <1>11, <1>12 DEF Next, Step

\* In every reachable state a plan is what would be planned now.
LEMMA InvPlan == Spec => []PlanInv
<1>1. Init => PlanInv
  BY DEF Init, PlanInv
<1>. QED
  BY <1>1, InvLock, InvMemory, NextPlan, PTL DEF Spec

-----------------------------------------------------------------------------
(* The refinement.                                                         *)

\* Sessions of planned operations are current ones.
LEMMA InvSession == Spec => []SessionInv
<1>1. Init => SessionInv
  BY DEF Init, SessionInv, AtMostOnce
<1>. QED
  BY <1>1, InvLock, NextSession, PTL DEF Spec

\* The database is created with the initial ledger (initialize_schema).
LEMMA InitLedger == Init => Ledger!LedgerInit
BY DEF Init, Ledger!LedgerInit, InitialRevision, Ledger!InitialRevision

\* The ledger counts as the authority does.
LEMMA SameCardinality == ASSUME NEW T PROVE Ledger!Cardinality(T) = Cardinality(T)
BY DEF Cardinality, Ledger!Cardinality

\* A commit executes the operation at once (persist_action).
LEMMA CommitExecutes ==
  ASSUME TypeInv, MemoryInv, RevisionInv, SessionInv, PlanInv, NEW w \in Worker, Commit(w)
  PROVE  Ledger!Execute(cmd[w].player, cmd[w].op, cmd[w].action)
<1>. DEFINE p == cmd[w].player
            a == cmd[w].action
            S == plan[w].voxels
            world == Overlay(overrides)
            now == IF S # {} THEN revision + 1 ELSE revision
            receipt == [session |-> session[p], op |-> cmd[w].op, action |-> a,
                        voxels |-> S, revision |-> now]
<1>1. /\ overrides' = Written(overrides, S, Outcome(a))
      /\ pc[w] = "writing" /\ cmd[w] \in Command /\ plan[w] \in PlanRecord
  BY CommitWrites
<1>2. p \in Player /\ a \in Action /\ cmd[w].session \in Session
  BY <1>1 DEF Command
<1>3. p \in players /\ session[p] = cmd[w].session /\ cmd[w].op > maxOp[p]
  BY <1>1 DEF SessionInv, Admissible
<1>4. session[p] # None
  BY <1>2, <1>3, SessionAssumption
<1>5. ~IntersectsSpawn(a)
  BY <1>1 DEF MemoryInv
<1>6. PlanIsCurrent(w)
  BY <1>1 DEF PlanInv
<1>7. S = Mutated(world, a) /\ Plannable(world, inventory[p], a)
  BY <1>6 DEF PlanIsCurrent
<1>8. revision' = now /\ chunkRev' = Bumped(chunkRev, AffectedBy(S), now)
  BY DEF Commit, PersistedRevision, RevisionInv
<1>9. inventory' = [inventory EXCEPT ![p] = CountsAfter(world, inventory[p], a)]
  <2>1. inventory[p] \in Counts /\ plan[w].after \in Counts
    BY <1>1, <1>2 DEF TypeInv, TypeOK, PlanRecord
  <2>2. InventoryDelta(inventory[p], plan[w].before, plan[w].after) = plan[w].after
    BY <1>6, <2>1 DEF InventoryDelta, PlanIsCurrent, Counts
  <2>. QED
    BY <1>6, <2>2 DEF Commit, PlanIsCurrent
<1>10. invRevision' = [invRevision EXCEPT ![p] =
                         IF S # {} THEN invRevision[p] + 1 ELSE invRevision[p]]
  BY <1>6 DEF Commit, PlanIsCurrent
<1>11. maxOp' = [maxOp EXCEPT ![p] = cmd[w].op] /\ UNCHANGED <<players, session, issued>>
  BY DEF Commit
<1>12. receipts' = [receipts EXCEPT ![p] = Newest(Append(receipts[p], receipt))]
  BY <1>3 DEF Commit, RevisionInv
<1>. HIDE DEF p, a, S, world, now
<1>13. Ledger!Overlay(overrides) = world
  BY DEF world, Overlay, Ledger!Overlay
<1>14. S = Ledger!Mutated(world, a)
  BY <1>7 DEF Mutated, Ledger!Mutated, At, Ledger!At
<1>15. Ledger!Plannable(world, inventory[p], a) /\ ~Ledger!IntersectsSpawn(a)
  BY <1>5, <1>7, SameCardinality
     DEF Plannable, Ledger!Plannable, IntersectsSpawn, Ledger!IntersectsSpawn,
                    At, Ledger!At
<1>16. overrides' = Ledger!Written(overrides, S, Ledger!Outcome(a))
  BY <1>1 DEF Written, Ledger!Written, Outcome, Ledger!Outcome, S, a
<1>17. chunkRev' = Ledger!Bumped(chunkRev, Ledger!AffectedBy(S), now)
  BY <1>8 DEF Bumped, Ledger!Bumped, AffectedBy, Ledger!AffectedBy
<1>18. Ledger!CountsAfter(world, inventory[p], a) = CountsAfter(world, inventory[p], a)
  BY SameCardinality DEF CountsAfter, Ledger!CountsAfter, At, Ledger!At
<1>19. receipts' = [receipts EXCEPT ![p] = Ledger!Newest(Append(receipts[p], receipt))]
  BY <1>12 DEF Newest, Ledger!Newest
<1>. QED
  BY <1>2, <1>3, <1>4, <1>8, <1>9, <1>10, <1>11, <1>13, <1>14, <1>15, <1>16, <1>17, <1>18,
     <1>19
     DEF Ledger!Execute, p, a, S, world, now

\* Every step of the authority is one of the ledger or leaves it alone.
LEMMA StepLedger ==
  TypeInv /\ MemoryInv /\ RevisionInv /\ SessionInv /\ PlanInv /\ [Next]_vars
    => [Ledger!LedgerNext]_(Ledger!ledgerVars)
<1>. SUFFICES ASSUME TypeInv, MemoryInv, RevisionInv, SessionInv, PlanInv, [Next]_vars
              PROVE  Ledger!LedgerNext \/ UNCHANGED Ledger!ledgerVars
  OBVIOUS
<1>. USE DEF Ledger!ledgerVars, database, history
<1>1. ASSUME NEW w \in Worker, NEW p \in Player, NEW s \in Session, NEW o \in OpId,
             NEW a \in Action, Begin(w, p, s, o, a)
      PROVE  UNCHANGED Ledger!ledgerVars
  BY <1>1 DEF Begin
<1>2. ASSUME NEW w \in Worker, Step(w), ~Commit(w)
      PROVE  UNCHANGED Ledger!ledgerVars
  BY <1>2 DEF Step, LockPlayer, LockRegion, Replay, Refuse, Plan, WriteMemory, Rollback
<1>3. ASSUME NEW w \in Worker, Commit(w) PROVE Ledger!LedgerNext
  <2>1. cmd[w] \in Command
    BY <1>3, CommitWrites
  <2>. QED
    BY <1>3, <2>1, CommitExecutes DEF Ledger!LedgerNext, Command
<1>4. ASSUME NEW p \in Player, LoadPlayer(p) PROVE Ledger!LedgerNext
  BY <1>4 DEF LoadPlayer, Ledger!Admit, Ledger!LedgerNext
<1>5. ASSUME NEW p \in Player, NEW s \in Session, BeginSession(p, s) PROVE Ledger!LedgerNext
  BY <1>5 DEF BeginSession, Ledger!Rotate, Ledger!LedgerNext
<1>6. ASSUME NEW c \in Chunk, SnapshotChunk(c) PROVE UNCHANGED Ledger!ledgerVars
  BY <1>6 DEF SnapshotChunk
<1>7. ASSUME Restart PROVE UNCHANGED Ledger!ledgerVars
  BY <1>7 DEF Restart
<1>8. ASSUME UNCHANGED vars PROVE UNCHANGED Ledger!ledgerVars
  BY <1>8 DEF vars
<1>. QED
  BY <1>1, <1>2, <1>3, <1>4, <1>5, <1>6, <1>7, <1>8 DEF Next

\* The edit authority implements the ledger: however operations are interleaved,
\* retried, rolled back or cut off by a crash, its database goes through the
\* states of an authority that executes one operation at a time (apply,
\* persist_action, begin_player_session, load_player).
THEOREM ImplementsLedger == Spec => RefinesLedger
BY InitLedger, InvLock, InvMemory, InvRevision, InvSession, InvPlan, StepLedger, PTL
   DEF Spec, RefinesLedger, Ledger!LedgerSpec
=============================================================================
