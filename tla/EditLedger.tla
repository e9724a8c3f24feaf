------------------------------ MODULE EditLedger -----------------------------
(***************************************************************************)
(* What the edit authority promises its callers: a ledger in which every   *)
(* operation takes effect at once and completely - the world, the editor's *)
(* inventory, the product revisions and the retry receipt together - and   *)
(* is judged against the world as it is at that moment.  Everything else   *)
(* the authority does (refusing a command, answering a retry, losing a     *)
(* transaction, crashing and starting again) leaves the ledger alone.      *)
(*                                                                         *)
(* The detailed EditAuthority, with its locks, its in-memory copy and its  *)
(* unlocked planning phase, is checked to implement this module.           *)
(***************************************************************************)
EXTENDS EditRules

VARIABLES
  overrides,    \* durable sparse player edits
  revision,     \* revision of the last operation that changed the world
  chunkRev,     \* [Chunk -> revision] of the last commit that affected it
  players,      \* players with a durable row
  inventory,    \* [Player -> Counts]
  invRevision,  \* [Player -> Nat], bumped with every change of the inventory
  session,      \* [Player -> current edit session or None]
  maxOp,        \* [Player -> newest operation id of that session, 0 if none]
  receipts,     \* [Player -> Seq(Receipt)], the bounded retry window
  issued        \* edit sessions handed out so far

ledgerVars == <<overrides, revision, chunkRev, players, inventory, invRevision,
                session, maxOp, receipts, issued>>

LedgerInit ==
  /\ overrides = [v \in Voxel |-> None]
  /\ revision = InitialRevision
  /\ chunkRev = [c \in Chunk |-> InitialRevision]
  /\ players = {}
  /\ inventory = [p \in Player |-> [m \in Material |-> 0]]
  /\ invRevision = [p \in Player |-> InitialRevision]
  /\ session = [p \in Player |-> None]
  /\ maxOp = [p \in Player |-> 0]
  /\ receipts = [p \in Player |-> <<>>]
  /\ issued = {}

(* The first visit of a player creates an empty inventory and no session.  *)
Admit(p) ==
  /\ p \notin players
  /\ players' = players \cup {p}
  /\ UNCHANGED <<overrides, revision, chunkRev, inventory, invRevision,
                 session, maxOp, receipts, issued>>

(* A new connection rotates the session and with it the operation ids.     *)
Rotate(p, s) ==
  /\ p \in players
  /\ s \notin issued
  /\ issued' = issued \cup {s}
  /\ session' = [session EXCEPT ![p] = s]
  /\ maxOp' = [maxOp EXCEPT ![p] = 0]
  /\ UNCHANGED <<overrides, revision, chunkRev, players, inventory,
                 invRevision, receipts>>

(* The operation is executed against the current world, once.              *)
Execute(p, o, a) ==
  LET world   == Overlay(overrides)
      S       == Mutated(world, a)
      changed == S # {}
      now     == IF changed THEN revision + 1 ELSE revision
      receipt == [session |-> session[p], op |-> o, action |-> a,
                  voxels |-> S, revision |-> now]
  IN /\ p \in players
     /\ session[p] # None
     /\ o > maxOp[p]
     /\ ~IntersectsSpawn(a)
     /\ Plannable(world, inventory[p], a)
     /\ overrides' = Written(overrides, S, Outcome(a))
     /\ revision' = now
     /\ chunkRev' = Bumped(chunkRev, AffectedBy(S), now)
     /\ inventory' = [inventory EXCEPT ![p] = CountsAfter(world, @, a)]
     /\ invRevision' = [invRevision EXCEPT ![p] = IF changed THEN @ + 1 ELSE @]
     /\ maxOp' = [maxOp EXCEPT ![p] = o]
     /\ receipts' = [receipts EXCEPT ![p] = Newest(Append(@, receipt))]
     /\ UNCHANGED <<players, session, issued>>

LedgerNext ==
  \/ \E p \in Player : Admit(p)
  \/ \E p \in Player, s \in Session : Rotate(p, s)
  \/ \E p \in Player, o \in OpId, a \in Action : Execute(p, o, a)

LedgerSpec == LedgerInit /\ [][LedgerNext]_ledgerVars
=============================================================================
