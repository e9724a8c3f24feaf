--------------------------- MODULE EditRetryProofs ---------------------------
(***************************************************************************)
(* What TLAPS proves of the edits of a browser: however its connections    *)
(* break and its page is reloaded, an edit takes effect once.              *)
(***************************************************************************)
EXTENDS EditRetry, FiniteSetTheorems, SequenceTheorems, NaturalsInduction, WellFoundedInduction, TLAPS

-----------------------------------------------------------------------------
(* The inductive invariant.                                                *)

\* Commands, answers and receipts; a reissued edit may have any operation id.
Command == [op : Nat, session : Session, action : Action, intent : Intent]
Message ==
  [kind : {"opened"}, session : Session]
    \cup [kind : {"commit", "stale", "rejected"}, op : Nat, session : Session, intent : Intent]

Kept == [session : Session, op : Nat, action : Action, voxels : SUBSET Voxel, revision : Nat]

TypeInv ==
  /\ session \in [Player -> Session \cup {None}]
  /\ maxOp \in [Player -> Nat]
  /\ receipts \in [Player -> Seq(Kept)]
  /\ issued \subseteq Session
  /\ revision \in Nat
  /\ link \in [Player -> {"waiting", "handshaking", "open", "failed"}]
  /\ opened \in [Player -> Session \cup {None}]
  /\ nextOp \in [Player -> Nat \ {0}]
  /\ pending \in [Player -> SUBSET Command]
  /\ up \in [Player -> Seq(Command)]
  /\ down \in [Player -> Seq(Message)]
  /\ claim \in [Player -> {"none", "live", "orphan"}]
  /\ DOMAIN outcome = Intent
  /\ executed \in [Intent -> Nat]

\* The two ends of a connection.
LinkInv(p) ==
  /\ session[p] \in issued \cup {None}
  /\ claim[p] = "none" => up[p] = <<>>
  /\ link[p] \in {"waiting", "failed"} => claim[p] # "live" /\ down[p] = <<>>
  /\ link[p] = "failed" => pending[p] = {}
  /\ link[p] = "handshaking" =>
       /\ claim[p] # "orphan" /\ up[p] = <<>>
       /\ session[p] # None /\ down[p] = <<[kind |-> "opened", session |-> session[p]]>>
       /\ \A c \in pending[p] : c.session # session[p]
       /\ maxOp[p] = 0
  /\ link[p] = "open" =>
       /\ claim[p] # "orphan"
       /\ opened[p] = session[p] /\ session[p] # None
       /\ \A k \in DOMAIN down[p] : down[p][k].kind # "opened"
       /\ maxOp[p] < nextOp[p]

\* Unanswered edits have ids and intents of their own, and those of the current
\* session are newer than the others.
PendingInv(p) ==
  /\ IsFiniteSet(pending[p]) /\ Cardinality(pending[p]) <= Window
  /\ \A c \in pending[p] : c.op < nextOp[p] /\ c.session \in issued
  /\ \A c, d \in pending[p] :
       /\ c.op = d.op \/ c.intent = d.intent => c = d
       /\ c.session # session[p] /\ d.session = session[p] => c.op < d.op

\* The commands on their way, of this transport or of one that was given up.
UpInv(p) ==
  /\ \/ \A k \in DOMAIN up[p] : up[p][k] \in pending[p]
     \/ pending[p] = {} /\ link[p] \in {"waiting", "failed"}
  /\ \A j, k \in DOMAIN up[p] : j < k =>
       up[p][j].op < up[p][k].op /\ up[p][j].intent # up[p][k].intent
  /\ \A k \in DOMAIN up[p] : up[p][k].session = session[p] => up[p][k].op > maxOp[p]

\* Answers come in the order of the commands, before those not yet served.  While
\* the session lives an unanswered edit has one or the other; afterwards it may
\* have neither, and then nor has any newer one.
HasAnswer(answers, op) == \E j \in DOMAIN answers : answers[j].op = op
Flow(n, answers, unanswered, commands, live) ==
  /\ \A j, k \in DOMAIN answers : j < k => answers[j].op < answers[k].op
  /\ \A k \in DOMAIN answers :
       /\ answers[k].op \in Nat /\ answers[k].op < n
       /\ \A j \in DOMAIN commands : answers[k].op < commands[j].op
       /\ \A c \in unanswered :
            /\ c.op <= answers[k].op => HasAnswer(answers, c.op)
            /\ c.op = answers[k].op => c.session = answers[k].session
  /\ live => \A c \in unanswered :
       HasAnswer(answers, c.op) \/ \E k \in DOMAIN commands : commands[k] = c

FlowInv(p) ==
  link[p] = "open" => Flow(nextOp[p], down[p], pending[p], up[p], claim[p] = "live")

\* An edit is made once, by one player.
Intents(p) == {c.intent : c \in pending[p]} \cup {up[p][k].intent : k \in DOMAIN up[p]}
IntentInv ==
  /\ \A p, q \in Player : p # q => Intents(p) \cap Intents(q) = {}
  /\ \A i \in Intent : outcome[i] = "none" => executed[i] = 0 /\ \A p \in Player : i \notin Intents(p)

ShapeInv ==
  /\ TypeInv /\ IntentInv
  /\ \A p \in Player : LinkInv(p) /\ PendingInv(p) /\ UpInv(p) /\ FlowInv(p)

-----------------------------------------------------------------------------
Matches(receipt, c) == receipt.session = c.session /\ receipt.op = c.op

\* Receipts of one operation each, none of the current session beyond its watermark.
ReceiptInv(p) ==
  /\ \A i \in DOMAIN receipts[p] :
       /\ receipts[p][i].session \in issued
       /\ receipts[p][i].session = session[p] => receipts[p][i].op <= maxOp[p]
  /\ \A i, j \in DOMAIN receipts[p] : i # j => ~Matches(receipts[p][i], receipts[p][j])

\* An unanswered edit that was executed still has its receipt: every later
\* receipt belongs to a later unanswered edit, and there are not that many.
RetainedInv(p) ==
  /\ \A c \in pending[p] : executed[c.intent] # 0 <=> HasReceipt(receipts[p], c.session, c.op)
  /\ \A c \in pending[p] : \A i, j \in DOMAIN receipts[p] :
       i < j /\ Matches(receipts[p][i], c) =>
         \E d \in pending[p] : Matches(receipts[p][j], d) /\ c.op < d.op

\* What is served for the first time was not executed; what is answered was, or was not.
AnswerInv(p) ==
  /\ \A k \in DOMAIN up[p] : up[p][k].session = session[p] => executed[up[p][k].intent] = 0
  /\ link[p] = "open" => \A k \in DOMAIN down[p] : \A c \in pending[p] : c.op = down[p][k].op =>
       /\ down[p][k].kind = "commit" => executed[c.intent] = 1
       /\ down[p][k].kind = "stale" => executed[c.intent] = 0

OnceInv ==
  /\ EditsTakeEffectOnce
  /\ \A p \in Player : ReceiptInv(p) /\ RetainedInv(p) /\ AnswerInv(p)


-----------------------------------------------------------------------------
(* Sequences and sets.                                                     *)

LEMMA HeadTail ==
  ASSUME NEW S, NEW s \in Seq(S), s # <<>>
  PROVE  /\ DOMAIN s = 1..Len(s) /\ 1 \in DOMAIN s /\ Head(s) = s[1] /\ Head(s) \in S
         /\ Tail(s) \in Seq(S) /\ Len(Tail(s)) = Len(s) - 1 /\ DOMAIN Tail(s) = 1..Len(s) - 1
         /\ \A k \in DOMAIN Tail(s) : k + 1 \in DOMAIN s /\ Tail(s)[k] = s[k + 1]
         /\ \A k \in DOMAIN s : k # 1 => k - 1 \in DOMAIN Tail(s) /\ Tail(s)[k - 1] = s[k]
OBVIOUS

LEMMA Appended ==
  ASSUME NEW S, NEW s \in Seq(S), NEW e \in S
  PROVE  /\ Append(s, e) \in Seq(S) /\ DOMAIN s = 1..Len(s)
         /\ Len(Append(s, e)) = Len(s) + 1 /\ DOMAIN Append(s, e) = 1..Len(s) + 1
         /\ \A k \in DOMAIN s : k \in DOMAIN Append(s, e) /\ Append(s, e)[k] = s[k]
         /\ Append(s, e)[Len(s) + 1] = e
         /\ \A k \in DOMAIN Append(s, e) : k # Len(s) + 1 => k \in DOMAIN s
OBVIOUS

LEMMA OneMore ==
  ASSUME NEW S, NEW s \in Seq(S), NEW e \in S
  PROVE  s \o <<e>> = Append(s, e)
OBVIOUS

\* A set of numbers that is not empty has a least one.
LEMMA LeastNat ==
  ASSUME NEW S \in SUBSET Nat, S # {}
  PROVE  \E m \in S : \A x \in S : m <= x
<1>. DEFINE Less == {x \in Nat \X Nat : x[1] < x[2]}
<1>1. IsWellFoundedOn(Less, Nat)
  BY NatLessThanWellFounded DEF OpToRel
<1>2. PICK m \in S : \A x \in S : ~(<<x, m>> \in Less)
  <2>. HIDE DEF Less
  <2>. QED
    BY <1>1, WFMin
<1>3. \A x \in S : <<x, m>> \in Nat \X Nat
  OBVIOUS
<1>4. \A x \in S : ~(x < m)
  BY <1>2, <1>3
<1>. QED
  BY <1>4

LEMMA SetInduction ==
  ASSUME NEW S \in SUBSET Nat, 0 \in S, \A n \in S : n + 1 \in S
  PROVE  S = Nat
<1>1. SUFFICES ASSUME Nat \ S # {} PROVE FALSE
  OBVIOUS
<1>2. PICK m \in Nat \ S : \A x \in Nat \ S : m <= x
  BY <1>1, LeastNat
<1>3. m - 1 \in Nat /\ m - 1 \in S
  BY <1>2
<1>4. (m - 1) + 1 \in S
  BY <1>3
<1>. QED
  BY <1>2, <1>4

-----------------------------------------------------------------------------
(* The resent commands: a finite set of commands with distinct ids can be  *)
(* put in the order of the ids.                                            *)

Ordering(commands, s) ==
  /\ \A c \in commands : \E k \in DOMAIN s : s[k] = c
  /\ \A j, k \in DOMAIN s : j < k => s[j].op < s[k].op

\* Of finitely many commands one has the largest id.
LEMMA LastCommand ==
  ASSUME NEW X, IsFiniteSet(X), X # {}, \A c \in X : c.op \in Nat
  PROVE  \E c \in X : \A d \in X : d.op <= c.op
<1>. DEFINE Larger(c) == {d \in X : d.op > c.op}
            Sizes == {Cardinality(Larger(c)) : c \in X}
<1>1. ASSUME NEW c \in X PROVE IsFiniteSet(Larger(c)) /\ Cardinality(Larger(c)) \in Nat
  BY FS_Subset, FS_CardinalityType
<1>2. Sizes \in SUBSET Nat /\ Sizes # {}
  BY <1>1
<1>3. PICK n \in Sizes : \A m \in Sizes : n <= m
  <2>. HIDE DEF Sizes
  <2>. QED
    BY <1>2, LeastNat
<1>4. PICK c \in X : n = Cardinality(Larger(c))
  BY <1>3
<1>5. ASSUME NEW d \in X, ~(d.op <= c.op) PROVE FALSE
  <2>1. Larger(d) \subseteq Larger(c) /\ d \in Larger(c) /\ d \notin Larger(d)
    BY <1>5
  <2>2. Larger(d) # Larger(c) /\ IsFiniteSet(Larger(c)) /\ Cardinality(Larger(d)) \in Nat
    BY <1>1, <2>1
  <2>. HIDE DEF Larger, Sizes
  <2>3. Cardinality(Larger(d)) < Cardinality(Larger(c))
    BY <2>1, <2>2, FS_Subset, FS_CardinalityType
  <2>4. Cardinality(Larger(d)) \in Sizes /\ Cardinality(Larger(c)) \in Nat
    BY <1>1, <1>5 DEF Sizes
  <2>. QED
    BY <1>3, <1>4, <2>2, <2>3, <2>4
<1>. QED
  BY <1>5

LEMMA OrderingExists ==
  ASSUME NEW X, IsFiniteSet(X), \A c \in X : c.op \in Nat,
         \A c, d \in X : c.op = d.op => c = d
  PROVE  \E s \in [1..Cardinality(X) -> X] : Ordering(X, s)
<1>. DEFINE Good == {n \in Nat : \A Y \in SUBSET X : Cardinality(Y) = n =>
                       \E s \in [1..n -> Y] : Ordering(Y, s)}
<1>1. 0 \in Good
  <2>1. ASSUME NEW Y \in SUBSET X, Cardinality(Y) = 0 PROVE \E s \in [1..0 -> Y] : Ordering(Y, s)
    <3>1. Y = {}
      BY <2>1, FS_Subset, FS_EmptySet
    <3>2. <<>> \in [1..0 -> Y] /\ DOMAIN <<>> = {}
      OBVIOUS
    <3>. QED
      BY <3>1, <3>2 DEF Ordering
  <2>. QED
    BY <2>1
<1>2. ASSUME NEW n \in Good PROVE n + 1 \in Good
  <2>0. n \in Nat
    OBVIOUS
  <2>1. ASSUME NEW Y \in SUBSET X, Cardinality(Y) = n + 1
        PROVE  \E s \in [1..n + 1 -> Y] : Ordering(Y, s)
    <3>1. IsFiniteSet(Y) /\ Y # {}
      BY <2>0, <2>1, FS_Subset, FS_EmptySet
    <3>2. PICK c \in Y : \A d \in Y : d.op <= c.op
      BY <3>1, LastCommand
    <3>3. Y \ {c} \in SUBSET X /\ Cardinality(Y \ {c}) = n
      <4>1. c \in Y
        BY <3>2
      <4>2. Cardinality(Y \ {c}) = Cardinality(Y) - 1
        BY <3>1, <4>1, FS_RemoveElement
      <4>. QED
        BY <2>0, <2>1, <4>2
    <3>4. PICK s \in [1..n -> Y \ {c}] : Ordering(Y \ {c}, s)
      BY <3>3
    <3>. DEFINE t == [k \in 1..n + 1 |-> IF k = n + 1 THEN c ELSE s[k]]
    <3>5. t \in [1..n + 1 -> Y]
      BY <2>0
    <3>6. \A d \in Y : \E k \in DOMAIN t : t[k] = d
      <4>1. ASSUME NEW d \in Y, d # c PROVE \E k \in DOMAIN t : t[k] = d
        <5>1. PICK k \in 1..n : s[k] = d
          BY <3>4, <4>1 DEF Ordering
        <5>. QED
          BY <2>0, <5>1
      <4>2. t[n + 1] = c /\ n + 1 \in DOMAIN t
        BY <2>0
      <4>. QED
        BY <4>1, <4>2
    <3>7. ASSUME NEW j \in DOMAIN t, NEW k \in DOMAIN t, j < k PROVE t[j].op < t[k].op
      <4>1. j \in 1..n /\ t[j] = s[j] /\ s[j] \in Y \ {c}
        BY <2>0, <3>7
      <4>2. CASE k = n + 1
        BY <2>0, <3>2, <4>1, <4>2
      <4>3. CASE k # n + 1
        BY <2>0, <3>4, <3>7, <4>1, <4>3 DEF Ordering
      <4>. QED
        BY <4>2, <4>3
    <3>. QED
      <4>. HIDE DEF t
      <4>. QED
        BY <3>5, <3>6, <3>7 DEF Ordering
  <2>. QED
    BY <2>0, <2>1
<1>3. Good = Nat
  <2>. HIDE DEF Good
  <2>1. Good \in SUBSET Nat
    BY DEF Good
  <2>. QED
    BY <1>1, <1>2, <2>1, SetInduction
<1>4. Cardinality(X) \in Nat
  BY FS_CardinalityType
<1>. QED
  BY <1>3, <1>4

LEMMA InOrderIs ==
  ASSUME NEW X, IsFiniteSet(X), \A c \in X : c.op \in Nat,
         \A c, d \in X : c.op = d.op => c = d
  PROVE  InOrder(X) \in Seq(X) /\ Ordering(X, InOrder(X))
<1>1. InOrder(X) \in [1..Cardinality(X) -> X] /\ Ordering(X, InOrder(X))
  <2>. DEFINE Sorted(s) == /\ \A c \in X : \E k \in DOMAIN s : s[k] = c
                           /\ \A j, k \in DOMAIN s : j < k => s[j].op < s[k].op
  <2>1. \E s \in [1..Cardinality(X) -> X] : Sorted(s)
    BY OrderingExists DEF Ordering
  <2>2. InOrder(X) = CHOOSE s \in [1..Cardinality(X) -> X] : Sorted(s)
    BY DEF InOrder
  <2>. HIDE DEF Sorted
  <2>3. InOrder(X) \in [1..Cardinality(X) -> X] /\ Sorted(InOrder(X))
    BY <2>1, <2>2
  <2>. QED
    BY <2>3 DEF Ordering, Sorted
<1>2. Cardinality(X) \in Nat
  BY FS_CardinalityType
<1>. QED
  BY <1>1, <1>2

-----------------------------------------------------------------------------
(* A step concerns one player.                                             *)

Untouched(q) ==
  UNCHANGED <<session[q], maxOp[q], receipts[q], link[q], opened[q], nextOp[q],
              pending[q], up[q], down[q], claim[q]>>

Shape(p) == LinkInv(p) /\ PendingInv(p) /\ UpInv(p) /\ FlowInv(p)

LEMMA ElsewhereShape ==
  ASSUME ShapeInv, NEW q \in Player, Untouched(q), issued \subseteq issued'
  PROVE  Shape(q)' /\ Intents(q)' = Intents(q)
<1>1. Shape(q)
  BY DEF ShapeInv, Shape
<1>2. LinkInv(q)'
  BY <1>1 DEF Shape, LinkInv, Untouched
<1>3. PendingInv(q)'
  BY <1>1 DEF Shape, PendingInv, Untouched
<1>4. UpInv(q)'
  BY <1>1 DEF Shape, UpInv, Untouched
<1>5. FlowInv(q)'
  BY <1>1 DEF Shape, FlowInv, Untouched
<1>6. Intents(q)' = Intents(q)
  BY DEF Intents, Untouched
<1>. QED
  BY <1>2, <1>3, <1>4, <1>5, <1>6 DEF Shape

\* A step of player p that knows its own edits, and takes up one nobody has made.
LEMMA ShapeStep ==
  ASSUME ShapeInv, NEW p \in Player, TypeInv', issued \subseteq issued',
         \A q \in Player : q # p => Untouched(q),
         Shape(p)',
         \A i \in Intents(p)' : i \in Intents(p) \/ (i \in Intent /\ outcome[i] = "none" /\ outcome'[i] # "none"),
         \A i \in Intent : outcome'[i] = "none" =>
           outcome[i] = "none" /\ (executed'[i] = executed[i] \/ i \in Intents(p))
  PROVE  ShapeInv'
<1>1. \A q \in Player : q # p => Shape(q)' /\ Intents(q)' = Intents(q)
  BY ElsewhereShape
<1>2. IntentInv
  BY DEF ShapeInv
<1>3. ASSUME NEW q \in Player, NEW r \in Player, q # r PROVE (Intents(q) \cap Intents(r))' = {}
  <2>1. CASE q = p
    BY <1>1, <1>2, <1>3, <2>1 DEF IntentInv
  <2>2. CASE r = p
    BY <1>1, <1>2, <1>3, <2>2 DEF IntentInv
  <2>3. CASE q # p /\ r # p
    BY <1>1, <1>2, <1>3, <2>3 DEF IntentInv
  <2>. QED
    BY <2>1, <2>2, <2>3
<1>4. ASSUME NEW i \in Intent, outcome'[i] = "none"
      PROVE  executed'[i] = 0 /\ \A q \in Player : i \notin Intents(q)'
  <2>1. outcome[i] = "none" /\ executed[i] = 0 /\ \A q \in Player : i \notin Intents(q)
    BY <1>2, <1>4 DEF IntentInv
  <2>2. executed'[i] = 0
    BY <1>4, <2>1
  <2>3. i \notin Intents(p)'
    BY <1>4, <2>1
  <2>. QED
    BY <1>1, <2>1, <2>2, <2>3
<1>5. IntentInv'
  BY <1>3, <1>4 DEF IntentInv
<1>. QED
  BY <1>1, <1>5 DEF ShapeInv, Shape

\* Nothing of the edits changes: the intents are those of pending and up.
LEMMA IntentsFrom ==
  ASSUME NEW p \in Player,
         \A c \in pending'[p] : \E d \in pending[p] : c.intent = d.intent,
         \A k \in DOMAIN up'[p] : (\E j \in DOMAIN up[p] : up'[p][k] = up[p][j])
                                  \/ (\E d \in pending[p] : up'[p][k].intent = d.intent)
  PROVE  \A i \in Intents(p)' : i \in Intents(p)
BY DEF Intents

-----------------------------------------------------------------------------
(* Connections.                                                            *)

\* The connection is lost, with the transport or without.
LEMMA LostShape ==
  ASSUME ShapeInv, NEW p \in Player, TypeInv',
         UNCHANGED <<issued, executed>>, \A q \in Player : q # p => Untouched(q),
         UNCHANGED <<session[p], maxOp[p], up[p]>>,
         link'[p] \in {"waiting", "failed"}, down'[p] = <<>>, claim'[p] # "live",
         claim'[p] = "none" => claim[p] = "none",
         pending'[p] = {} \/ (pending'[p] = pending[p] /\ nextOp'[p] = nextOp[p]),
         link'[p] = "failed" => pending'[p] = {},
         \A i \in Intent : outcome'[i] = "none" => outcome[i] = "none"
  PROVE  ShapeInv'
<1>1. LinkInv(p) /\ PendingInv(p) /\ UpInv(p)
  BY DEF ShapeInv
<1>2. LinkInv(p)'
  BY <1>1 DEF LinkInv
<1>3. PendingInv(p)'
  <2>1. CASE pending'[p] = {}
    BY <2>1, FS_EmptySet, WindowAssumption DEF PendingInv
  <2>2. CASE pending'[p] # {}
    BY <1>1, <2>2 DEF PendingInv
  <2>. QED
    BY <2>1, <2>2
<1>4. UpInv(p)'
  BY <1>1 DEF UpInv
<1>5. FlowInv(p)'
  BY DEF FlowInv
<1>6. \A i \in Intents(p)' : i \in Intents(p)
  BY IntentsFrom
<1>. QED
  BY <1>2, <1>3, <1>4, <1>5, <1>6, ShapeStep DEF Shape

\* What a step does for p, it does for nobody else.
LEMMA ReconnectingShape ==
  ASSUME ShapeInv, NEW p \in Player, Reconnecting(p), UNCHANGED <<ledgerVars, nextOp, up, executed>>,
         (claim' = claim /\ link[p] = "waiting")
           \/ claim' = [claim EXCEPT ![p] = IF @ = "live" THEN "orphan" ELSE @]
  PROVE  ShapeInv'
<1>. USE DEF TypeInv
<1>0. TypeInv /\ LinkInv(p)
  BY DEF ShapeInv
<1>1. TypeInv'
  <2>1. UNCHANGED <<session, maxOp, receipts, issued, revision, nextOp, up, executed>>
    BY DEF ledgerVars
  <2>2. link' \in [Player -> {"waiting", "handshaking", "open", "failed"}]
    <3>1. /\ \/ link' = [link EXCEPT ![p] = "failed"]
             \/ link' = [link EXCEPT ![p] = "waiting"]
          /\ link \in [Player -> {"waiting", "handshaking", "open", "failed"}]
      BY <1>0 DEF Reconnecting
    <3>. QED
      BY <3>1
  <2>7. opened' \in [Player -> Session \cup {None}]
    BY <1>0 DEF Reconnecting
  <2>5. pending' \in [Player -> SUBSET Command]
    BY <1>0 DEF Reconnecting
  <2>6. DOMAIN outcome' = Intent
    BY <1>0 DEF Reconnecting, Abandoned
  <2>3. down' \in [Player -> Seq(Message)]
    BY <1>0 DEF Reconnecting
  <2>4. claim' \in [Player -> {"none", "live", "orphan"}]
    BY <1>0
  <2>. QED
    BY <1>0, <2>1, <2>2, <2>3, <2>4, <2>5, <2>6, <2>7
<1>2. \A q \in Player : q # p => Untouched(q)
  BY <1>0 DEF Untouched, Reconnecting, ledgerVars
<1>3. /\ UNCHANGED <<issued, executed>> /\ UNCHANGED <<session[p], maxOp[p], up[p]>>
      /\ link'[p] \in {"waiting", "failed"} /\ down'[p] = <<>>
      /\ pending'[p] = {} \/ (pending'[p] = pending[p] /\ nextOp'[p] = nextOp[p])
      /\ link'[p] = "failed" => pending'[p] = {}
  BY <1>0 DEF Reconnecting, ledgerVars
<1>4. claim'[p] # "live" /\ (claim'[p] = "none" => claim[p] = "none")
  BY <1>0 DEF LinkInv
<1>5. \A i \in Intent : outcome'[i] = "none" => outcome[i] = "none"
  BY DEF Reconnecting, Abandoned
<1>. QED
  BY <1>1, <1>2, <1>3, <1>4, <1>5, LostShape

LEMMA DialFailsShape == ASSUME ShapeInv, NEW p \in Player, DialFails(p) PROVE ShapeInv'
BY ReconnectingShape DEF DialFails

LEMMA DisconnectShape == ASSUME ShapeInv, NEW p \in Player, Disconnect(p) PROVE ShapeInv'
BY ReconnectingShape DEF Disconnect

LEMMA ReloadShape == ASSUME ShapeInv, NEW p \in Player, Reload(p) PROVE ShapeInv'
<1>. USE DEF TypeInv
<1>0. TypeInv /\ LinkInv(p)
  BY DEF ShapeInv
<1>1. TypeInv'
  <2>1. UNCHANGED <<session, maxOp, receipts, issued, revision, up, executed>>
    BY DEF Reload, ledgerVars
  <2>2. /\ link' \in [Player -> {"waiting", "handshaking", "open", "failed"}]
        /\ opened' \in [Player -> Session \cup {None}]
        /\ nextOp' \in [Player -> Nat \ {0}]
        /\ pending' \in [Player -> SUBSET Command]
        /\ DOMAIN outcome' = Intent
        /\ claim' \in [Player -> {"none", "live", "orphan"}]
    BY <1>0 DEF Reload, Abandoned
  <2>3. down' \in [Player -> Seq(Message)]
    BY <1>0 DEF Reload
  <2>. QED
    BY <1>0, <2>1, <2>2, <2>3
<1>2. \A q \in Player : q # p => Untouched(q)
  BY <1>0 DEF Untouched, Reload, ledgerVars
<1>3. /\ UNCHANGED <<issued, executed>> /\ UNCHANGED <<session[p], maxOp[p], up[p]>>
      /\ link'[p] = "waiting" /\ down'[p] = <<>> /\ pending'[p] = {}
      /\ claim'[p] # "live" /\ (claim'[p] = "none" => claim[p] = "none")
  BY <1>0 DEF Reload, ledgerVars
<1>4. \A i \in Intent : outcome'[i] = "none" => outcome[i] = "none"
  BY DEF Reload, Abandoned
<1>. QED
  BY <1>1, <1>2, <1>3, <1>4, LostShape

LEMMA VisitShape == ASSUME ShapeInv, NEW p \in Player, Visit(p) PROVE ShapeInv'
<1>1. /\ UNCHANGED <<session, maxOp, receipts, issued, revision, link, opened, nextOp, pending, up, down,
                     claim, outcome, executed>>
  BY DEF Visit, Admit, clientVars, wireVars, historyVars
<1>2. TypeInv'
  BY <1>1 DEF ShapeInv, TypeInv
<1>3. \A q \in Player : Untouched(q)
  BY <1>1 DEF Untouched
<1>4. Shape(p)' /\ Intents(p)' = Intents(p)
  BY <1>1, <1>3, ElsewhereShape
<1>. QED
  BY <1>1, <1>2, <1>3, <1>4, ShapeStep

LEMMA EndSessionShape == ASSUME ShapeInv, NEW p \in Player, EndSession(p) PROVE ShapeInv'
<1>0. TypeInv /\ Shape(p)
  BY DEF ShapeInv, Shape
<1>1. /\ UNCHANGED <<session, maxOp, receipts, issued, revision, link, opened, nextOp, pending, down,
                     outcome, executed>>
      /\ up'[p] = <<>> /\ claim'[p] = "none"
  BY <1>0 DEF EndSession, ledgerVars, clientVars, historyVars, TypeInv
<1>2. TypeInv'
  <2>1. up' \in [Player -> Seq(Command)] /\ claim' \in [Player -> {"none", "live", "orphan"}]
    BY <1>0 DEF EndSession, TypeInv
  <2>. QED
    BY <1>0, <1>1, <2>1 DEF TypeInv
<1>3. \A q \in Player : q # p => Untouched(q)
  BY <1>0, <1>1 DEF EndSession, Untouched, TypeInv
<1>4. LinkInv(p)'
  BY <1>0, <1>1 DEF LinkInv, Shape
<1>5. PendingInv(p)'
  BY <1>0, <1>1 DEF PendingInv, Shape
<1>6. UpInv(p)'
  BY <1>0, <1>1 DEF UpInv, Shape
<1>7. FlowInv(p)'
  BY <1>0, <1>1 DEF FlowInv, Flow, Shape
<1>8. \A i \in Intents(p)' : i \in Intents(p)
  BY <1>1, IntentsFrom
<1>. QED
  BY <1>1, <1>2, <1>3, <1>4, <1>5, <1>6, <1>7, <1>8, ShapeStep DEF Shape

LEMMA DialShape ==
  ASSUME ShapeInv, NEW p \in Player, NEW s \in Session, Dial(p, s) PROVE ShapeInv'
<1>0. TypeInv /\ Shape(p)
  BY DEF ShapeInv, Shape
<1>1. /\ UNCHANGED <<receipts, revision, opened, nextOp, pending, outcome, executed>>
      /\ s \notin issued /\ issued' = issued \cup {s}
      /\ session'[p] = s /\ maxOp'[p] = 0 /\ claim'[p] = "live" /\ link'[p] = "handshaking"
      /\ up'[p] = <<>> /\ down'[p] = <<[kind |-> "opened", session |-> s]>>
  BY <1>0 DEF Dial, Rotate, historyVars, TypeInv
<1>2. TypeInv'
  <2>1. /\ session' \in [Player -> Session \cup {None}] /\ maxOp' \in [Player -> Nat]
        /\ issued' \subseteq Session
        /\ link' \in [Player -> {"waiting", "handshaking", "open", "failed"}]
        /\ claim' \in [Player -> {"none", "live", "orphan"}]
        /\ up' \in [Player -> Seq(Command)]
    BY <1>0 DEF Dial, Rotate, TypeInv
  <2>2. <<[kind |-> "opened", session |-> s]>> \in Seq(Message)
    BY DEF Message
  <2>3. down' \in [Player -> Seq(Message)]
    BY <1>0, <2>2 DEF Dial, TypeInv
  <2>. QED
    BY <1>0, <1>1, <2>1, <2>3 DEF TypeInv
<1>3. \A q \in Player : q # p => Untouched(q)
  BY <1>0 DEF Dial, Rotate, historyVars, Untouched, TypeInv
<1>4. LinkInv(p)'
  BY <1>0, <1>1, SessionAssumption DEF LinkInv, PendingInv, Shape
<1>5. PendingInv(p)'
  BY <1>0, <1>1 DEF PendingInv, Shape
<1>6. UpInv(p)'
  BY <1>1 DEF UpInv
<1>7. FlowInv(p)'
  BY <1>1 DEF FlowInv
<1>8. \A i \in Intents(p)' : i \in Intents(p)
  BY <1>1, IntentsFrom
<1>. QED
  BY <1>1, <1>2, <1>3, <1>4, <1>5, <1>6, <1>7, <1>8, ShapeStep DEF Shape

-----------------------------------------------------------------------------
(* The order of commands and answers.                                      *)

\* The oldest answer is handled: it clears the oldest unanswered edit or none.
LEMMA AnswerFlow ==
  ASSUME NEW n, NEW answers \in Seq(Message), NEW unanswered, NEW rest \in SUBSET unanswered,
         NEW commands, NEW live,
         Flow(n, answers, unanswered, commands, live), answers # <<>>,
         \A c \in rest : c.op \in Nat /\ c.op # Head(answers).op
  PROVE  /\ Flow(n, Tail(answers), rest, commands, live)
         /\ \A c \in rest : c.op > Head(answers).op
<1>1. /\ 1 \in DOMAIN answers /\ Head(answers) = answers[1]
      /\ \A k \in DOMAIN Tail(answers) : k \in Nat /\ k + 1 \in DOMAIN answers /\ Tail(answers)[k] = answers[k + 1]
      /\ \A k \in DOMAIN answers : k # 1 => k - 1 \in DOMAIN Tail(answers) /\ Tail(answers)[k - 1] = answers[k]
      /\ \A k \in DOMAIN answers : k \in Nat /\ k >= 1
  BY HeadTail
<1>2. \A k \in DOMAIN answers : answers[k].op \in Nat /\ answers[1].op <= answers[k].op
  BY <1>1 DEF Flow
<1>3. ASSUME NEW c \in rest, HasAnswer(answers, c.op) PROVE HasAnswer(Tail(answers), c.op)
  BY <1>1, <1>3 DEF HasAnswer
<1>4. ASSUME NEW c \in rest PROVE c.op > Head(answers).op
  <2>1. CASE c.op <= answers[1].op
    <3>1. HasAnswer(answers, c.op)
      BY <1>1, <2>1 DEF Flow
    <3>. QED
      BY <1>1, <1>2, <2>1, <3>1 DEF HasAnswer
  <2>2. CASE ~(c.op <= answers[1].op)
    BY <1>1, <1>2, <2>2
  <2>. QED
    BY <2>1, <2>2
<1>5. \A j, k \in DOMAIN Tail(answers) : j < k => Tail(answers)[j].op < Tail(answers)[k].op
  BY <1>1 DEF Flow
<1>6. ASSUME NEW k \in DOMAIN Tail(answers)
      PROVE  /\ Tail(answers)[k].op \in Nat /\ Tail(answers)[k].op < n
             /\ \A j \in DOMAIN commands : Tail(answers)[k].op < commands[j].op
             /\ \A c \in rest :
                  /\ c.op <= Tail(answers)[k].op => HasAnswer(Tail(answers), c.op)
                  /\ c.op = Tail(answers)[k].op => c.session = Tail(answers)[k].session
  BY <1>1, <1>3 DEF Flow
<1>7. live => \A c \in rest : HasAnswer(Tail(answers), c.op) \/ \E k \in DOMAIN commands : commands[k] = c
  BY <1>3 DEF Flow
<1>. QED
  BY <1>4, <1>5, <1>6, <1>7 DEF Flow

\* A new command is sent.
LEMMA SendFlow ==
  ASSUME NEW n \in Nat, NEW answers, NEW unanswered, NEW commands \in Seq(Command), NEW live \in BOOLEAN,
         Flow(n, answers, unanswered, commands, live), NEW r \in Command, r.op = n
  PROVE  Flow(n + 1, answers, unanswered \cup {r}, IF live THEN Append(commands, r) ELSE commands, live)
<1>. DEFINE sent == IF live THEN Append(commands, r) ELSE commands
<1>1. /\ \A j \in DOMAIN sent : (j \in DOMAIN commands /\ sent[j] = commands[j]) \/ sent[j] = r
      /\ \A j \in DOMAIN commands : j \in DOMAIN sent /\ sent[j] = commands[j]
      /\ live => \E j \in DOMAIN sent : sent[j] = r
  <2>1. CASE live
    <3>1. Len(commands) + 1 \in DOMAIN Append(commands, r)
      BY Appended
    <3>. QED
      BY <2>1, <3>1, Appended
  <2>2. CASE ~live
    BY <2>2
  <2>. QED
    BY <2>1, <2>2
<1>. HIDE DEF sent
<1>2. ASSUME NEW k \in DOMAIN answers
      PROVE  /\ answers[k].op \in Nat /\ answers[k].op < n + 1
             /\ \A j \in DOMAIN sent : answers[k].op < sent[j].op
             /\ \A c \in unanswered \cup {r} :
                  /\ c.op <= answers[k].op => HasAnswer(answers, c.op)
                  /\ c.op = answers[k].op => c.session = answers[k].session
  BY <1>1 DEF Flow
<1>3. live => \A c \in unanswered \cup {r} : HasAnswer(answers, c.op) \/ \E k \in DOMAIN sent : sent[k] = c
  BY <1>1 DEF Flow
<1>4. Flow(n + 1, answers, unanswered \cup {r}, sent, live)
  BY <1>2, <1>3 DEF Flow
<1>. QED
  BY <1>4 DEF sent

\* The oldest command is served and answered.
LEMMA ServeFlow ==
  ASSUME NEW n \in Nat, NEW answers \in Seq(Message), NEW unanswered, NEW commands \in Seq(Command),
         Flow(n, answers, unanswered, commands, TRUE), commands # <<>>,
         \A k \in DOMAIN commands : commands[k] \in unanswered /\ commands[k].op < n,
         \A j, k \in DOMAIN commands : j < k => commands[j].op < commands[k].op,
         \A c, d \in unanswered : c.op = d.op => c = d,
         \A c \in unanswered : c.op \in Nat,
         NEW m \in Message, m.op = Head(commands).op, m.session = Head(commands).session
  PROVE  Flow(n, Append(answers, m), unanswered, Tail(commands), TRUE)
<1>. DEFINE told == Append(answers, m)
<1>1. /\ 1 \in DOMAIN commands /\ Head(commands) = commands[1]
      /\ \A k \in DOMAIN Tail(commands) : k \in Nat /\ k >= 1 /\ k + 1 \in DOMAIN commands
                                          /\ Tail(commands)[k] = commands[k + 1]
      /\ \A k \in DOMAIN commands : k # 1 => k - 1 \in DOMAIN Tail(commands) /\ Tail(commands)[k - 1] = commands[k]
      /\ \A k \in DOMAIN commands : k \in Nat /\ k >= 1
  BY HeadTail
<1>2. /\ \A k \in DOMAIN told : k \in Nat /\ ((k \in DOMAIN answers /\ told[k] = answers[k]) \/ told[k] = m)
      /\ \A j, k \in DOMAIN told : j < k => j \in DOMAIN answers /\ told[j] = answers[j]
      /\ \A k \in DOMAIN answers : k \in DOMAIN told /\ told[k] = answers[k]
      /\ \E k \in DOMAIN told : told[k] = m
  BY Appended
<1>. HIDE DEF told
<1>3. m.op \in Nat /\ m.op = commands[1].op /\ m.session = commands[1].session /\ m.op < n /\ commands[1] \in unanswered
  BY <1>1
<1>4. \A k \in DOMAIN answers : answers[k].op \in Nat /\ answers[k].op < m.op
  BY <1>1, <1>3 DEF Flow
<1>5. \A j, k \in DOMAIN told : j < k => told[j].op < told[k].op
  BY <1>2, <1>4 DEF Flow
<1>6. \A k \in DOMAIN Tail(commands) : m.op < Tail(commands)[k].op
  BY <1>1, <1>3
<1>7. \A c \in unanswered : HasAnswer(told, c.op) \/ \E k \in DOMAIN Tail(commands) : Tail(commands)[k] = c
  <2>1. ASSUME NEW c \in unanswered, HasAnswer(answers, c.op) PROVE HasAnswer(told, c.op)
    BY <1>2, <2>1 DEF HasAnswer
  <2>2. HasAnswer(told, m.op)
    BY <1>2 DEF HasAnswer
  <2>3. ASSUME NEW c \in unanswered, NEW k \in DOMAIN commands, commands[k] = c
        PROVE  HasAnswer(told, c.op) \/ \E j \in DOMAIN Tail(commands) : Tail(commands)[j] = c
    BY <1>1, <1>3, <2>2, <2>3
  <2>. QED
    BY <2>1, <2>3 DEF Flow
<1>8. ASSUME NEW k \in DOMAIN told, NEW c \in unanswered, c.op <= told[k].op PROVE HasAnswer(told, c.op)
  <2>1. told[k].op <= m.op
    BY <1>2, <1>3, <1>4
  <2>2. c.op <= m.op /\ c.op \in Nat
    BY <1>3, <1>4, <1>8, <1>2, <2>1
  <2>. QED
    BY <1>3, <1>6, <1>7, <2>2
<1>9. ASSUME NEW k \in DOMAIN told, NEW c \in unanswered, c.op = told[k].op PROVE c.session = told[k].session
  BY <1>2, <1>3, <1>9 DEF Flow
<1>10. ASSUME NEW k \in DOMAIN told
       PROVE  /\ told[k].op \in Nat /\ told[k].op < n
              /\ \A j \in DOMAIN Tail(commands) : told[k].op < Tail(commands)[j].op
  <2>1. CASE told[k] = m
    BY <1>3, <1>6, <2>1
  <2>2. CASE k \in DOMAIN answers /\ told[k] = answers[k]
    BY <1>1, <2>2 DEF Flow
  <2>. QED
    BY <1>2, <2>1, <2>2
<1>11. Flow(n, told, unanswered, Tail(commands), TRUE)
  BY <1>5, <1>7, <1>8, <1>9, <1>10 DEF Flow
<1>. QED
  BY <1>11 DEF told

-----------------------------------------------------------------------------
(* The transport.                                                          *)

\* Resent edits are under older sessions.
LEMMA ReceiveOpenedShape == ASSUME ShapeInv, NEW p \in Player, ReceiveOpened(p) PROVE ShapeInv'
<1>0. TypeInv /\ Shape(p)
  BY DEF ShapeInv, Shape
<1>1. /\ UNCHANGED <<session, maxOp, receipts, issued, revision, nextOp, pending, claim, outcome, executed>>
      /\ link[p] = "handshaking" /\ link'[p] = "open" /\ opened'[p] = session[p] /\ session[p] # None
      /\ up'[p] = Sent(p, Resent(p)) /\ up[p] = <<>> /\ maxOp[p] = 0 /\ claim[p] # "orphan"
      /\ \A c \in pending[p] : c.session # session[p]
  BY <1>0 DEF ReceiveOpened, ledgerVars, historyVars, TypeInv, Shape, LinkInv
<1>2. down'[p] = <<>>
  <2>1. down[p] = <<[kind |-> "opened", session |-> session[p]]>>
    BY <1>0, <1>1 DEF Shape, LinkInv
  <2>2. \A m : Tail(<<m>>) = <<>>
    OBVIOUS
  <2>3. down'[p] = Tail(down[p])
    BY <1>0 DEF ReceiveOpened, TypeInv
  <2>. QED
    BY <2>1, <2>2, <2>3
<1>. DEFINE resent == InOrder(pending[p])
<1>3. resent \in Seq(pending[p]) /\ Ordering(pending[p], resent)
  <2>1. /\ IsFiniteSet(pending[p]) /\ \A c \in pending[p] : c.op \in Nat
        /\ \A c, d \in pending[p] : c.op = d.op => c = d
    BY <1>0 DEF Shape, PendingInv, TypeInv, Command
  <2>. QED
    BY <2>1, InOrderIs
<1>. HIDE DEF resent
<1>4. /\ \A k \in DOMAIN resent : resent[k] \in pending[p]
      /\ \A j, k \in DOMAIN resent : j < k => resent[j].op < resent[k].op
      /\ \A c \in pending[p] : \E k \in DOMAIN resent : resent[k] = c
  BY <1>3 DEF Ordering
<1>5. resent \in Seq(Command)
  BY <1>0, <1>3 DEF TypeInv
<1>6. up'[p] = (IF claim[p] = "live" THEN resent ELSE <<>>)
  BY <1>1, <1>5 DEF Sent, Resent, resent
<1>7. TypeInv'
  <2>1. up' \in [Player -> Seq(Command)]
    BY <1>0, <1>1, <1>5, <1>6 DEF ReceiveOpened, TypeInv
  <2>2. down' \in [Player -> Seq(Message)]
    BY <1>0, <1>2 DEF ReceiveOpened, TypeInv
  <2>3. link' \in [Player -> {"waiting", "handshaking", "open", "failed"}]
    BY <1>0 DEF ReceiveOpened, TypeInv
  <2>4. opened' \in [Player -> Session \cup {None}]
    BY <1>0, <1>1 DEF ReceiveOpened, TypeInv
  <2>. QED
    BY <1>0, <1>1, <2>1, <2>2, <2>3, <2>4 DEF TypeInv
<1>8. \A q \in Player : q # p => Untouched(q)
  BY <1>0, <1>1 DEF ReceiveOpened, Untouched, TypeInv
<1>9. LinkInv(p)'
  <2>1. nextOp[p] \in Nat \ {0}
    BY <1>0 DEF TypeInv
  <2>. QED
    BY <1>0, <1>1, <1>2, <1>6, <2>1 DEF LinkInv, Shape
<1>10. PendingInv(p)'
  BY <1>0, <1>1 DEF PendingInv, Shape
<1>11. UpInv(p)'
  <2>1. \A k \in DOMAIN up'[p] : up'[p][k] \in pending[p] /\ up'[p] = resent
    BY <1>4, <1>6
  <2>2. \A j, k \in DOMAIN up'[p] : j < k =>
          up'[p][j].op < up'[p][k].op /\ up'[p][j].intent # up'[p][k].intent
    <3>1. SUFFICES ASSUME NEW j, NEW k, j \in DOMAIN up'[p], k \in DOMAIN up'[p], j < k
                   PROVE  up'[p][j].op < up'[p][k].op /\ up'[p][j].intent # up'[p][k].intent
      OBVIOUS
    <3>2. up'[p][j].op < up'[p][k].op
      BY <1>4, <2>1, <3>1
    <3>3. up'[p][j].op \in Nat /\ up'[p][j] # up'[p][k]
      BY <1>0, <2>1, <3>1, <3>2 DEF TypeInv, Command
    <3>. QED
      BY <1>0, <2>1, <3>1, <3>2, <3>3 DEF Shape, PendingInv
  <2>. QED
    BY <1>1, <2>1, <2>2 DEF UpInv
<1>12. FlowInv(p)'
  BY <1>1, <1>2, <1>4, <1>6 DEF FlowInv, Flow
<1>13. \A i \in Intents(p)' : i \in Intents(p)
  <2>1. \A k \in DOMAIN up'[p] : up'[p][k] \in pending[p]
    BY <1>4, <1>6
  <2>. QED
    BY <1>1, <2>1, IntentsFrom
<1>. QED
  BY <1>1, <1>7, <1>8, <1>9, <1>10, <1>11, <1>12, <1>13, ShapeStep DEF Shape

\* The command r goes out in place of the edits that were answered.
LEMMA SendShape ==
  ASSUME ShapeInv, NEW p \in Player, TypeInv', UNCHANGED <<issued, executed>>,
         \A q \in Player : q # p => Untouched(q),
         UNCHANGED <<session[p], maxOp[p], opened[p], link[p], claim[p]>>, link[p] = "open",
         NEW r \in Command, r.op = nextOp[p], r.session = opened[p], nextOp'[p] = nextOp[p] + 1,
         NEW rest \in SUBSET pending[p], pending'[p] = rest \cup {r}, Cardinality(rest) < Window,
         \A d \in rest : d.intent # r.intent,
         \A k \in DOMAIN up[p] : up[p][k] \in rest,
         up'[p] = IF claim[p] = "live" THEN Append(up[p], r) ELSE up[p],
         \A k \in DOMAIN down'[p] : down'[p][k].kind # "opened",
         Flow(nextOp[p], down'[p], rest, up[p], claim[p] = "live"),
         r.intent \in Intents(p) \/ (outcome[r.intent] = "none" /\ outcome'[r.intent] # "none"),
         \A i \in Intent : outcome'[i] = "none" => outcome[i] = "none"
  PROVE  ShapeInv'
<1>0. TypeInv /\ Shape(p) /\ nextOp[p] \in Nat /\ up[p] \in Seq(Command) /\ maxOp[p] \in Nat
  BY DEF ShapeInv, Shape, TypeInv
<1>1. /\ claim[p] # "orphan" /\ opened[p] = session[p] /\ session[p] # None /\ maxOp[p] < nextOp[p]
      /\ session[p] \in issued /\ (claim[p] = "none" => up[p] = <<>>)
  BY <1>0 DEF Shape, LinkInv
<1>2. /\ \A j \in DOMAIN up'[p] : (j \in DOMAIN up[p] /\ up'[p][j] = up[p][j]) \/ up'[p][j] = r
      /\ \A j, k \in DOMAIN up'[p] : j < k => j \in DOMAIN up[p] /\ up'[p][j] = up[p][j]
  <2>1. CASE claim[p] = "live"
    BY <1>0, <2>1, Appended
  <2>2. CASE claim[p] # "live"
    BY <1>0, <2>2
  <2>. QED
    BY <2>1, <2>2
<1>3. LinkInv(p)'
  BY <1>0, <1>1 DEF LinkInv, Shape
<1>4. \A d \in rest : d \in Command /\ d.op \in Nat /\ d.op < r.op /\ d.session \in issued
  BY <1>0 DEF Shape, PendingInv, TypeInv, Command
<1>5. PendingInv(p)'
  <2>1. IsFiniteSet(rest \cup {r}) /\ Cardinality(rest \cup {r}) <= Window
    <3>1. IsFiniteSet(rest) /\ r \notin rest
      BY <1>0, <1>4, FS_Subset DEF Shape, PendingInv
    <3>2. IsFiniteSet(rest \cup {r}) /\ Cardinality(rest \cup {r}) = Cardinality(rest) + 1 /\ Cardinality(rest) \in Nat
      BY <3>1, FS_AddElement, FS_CardinalityType
    <3>. QED
      BY <3>2, WindowAssumption
  <2>2. \A c \in rest \cup {r} : c.op < nextOp[p] + 1 /\ c.session \in issued
    BY <1>0, <1>1, <1>4
  <2>3. \A c, d \in rest \cup {r} :
          /\ c.op = d.op \/ c.intent = d.intent => c = d
          /\ c.session # session[p] /\ d.session = session[p] => c.op < d.op
    <3>1. \A c, d \in rest :
          /\ c.op = d.op \/ c.intent = d.intent => c = d
          /\ c.session # session[p] /\ d.session = session[p] => c.op < d.op
      BY <1>0 DEF Shape, PendingInv
    <3>. QED
      BY <1>0, <1>1, <1>4, <3>1
  <2>. QED
    BY <2>1, <2>2, <2>3 DEF PendingInv
<1>6. UpInv(p)'
  <2>1. \A k \in DOMAIN up'[p] : up'[p][k] \in pending'[p]
    BY <1>2
  <2>2. \A j, k \in DOMAIN up'[p] : j < k =>
          up'[p][j].op < up'[p][k].op /\ up'[p][j].intent # up'[p][k].intent
    <3>1. \A j, k \in DOMAIN up[p] : j < k =>
            up[p][j].op < up[p][k].op /\ up[p][j].intent # up[p][k].intent
      BY <1>0 DEF Shape, UpInv
    <3>2. ASSUME NEW j, NEW k, j \in DOMAIN up'[p], k \in DOMAIN up'[p], j < k
          PROVE  up'[p][j].op < up'[p][k].op /\ up'[p][j].intent # up'[p][k].intent
      <4>1. j \in DOMAIN up[p] /\ up'[p][j] = up[p][j] /\ up[p][j] \in rest
        BY <1>2, <3>2
      <4>2. CASE k \in DOMAIN up[p] /\ up'[p][k] = up[p][k]
        BY <3>1, <3>2, <4>1, <4>2
      <4>3. CASE up'[p][k] = r
        BY <1>4, <4>1, <4>3
      <4>. QED
        BY <1>2, <3>2, <4>2, <4>3
    <3>. QED
      BY <3>2
  <2>3. \A k \in DOMAIN up'[p] : up'[p][k].session = session'[p] => up'[p][k].op > maxOp'[p]
    <3>1. \A k \in DOMAIN up[p] : up[p][k].session = session[p] => up[p][k].op > maxOp[p]
      BY <1>0 DEF Shape, UpInv
    <3>. QED
      BY <1>0, <1>1, <1>2, <3>1
  <2>. QED
    BY <2>1, <2>2, <2>3 DEF UpInv
<1>7. FlowInv(p)'
  <2>1. (claim[p] = "live") \in BOOLEAN
    OBVIOUS
  <2>2. Flow(nextOp[p] + 1, down'[p], rest \cup {r}, IF claim[p] = "live" THEN Append(up[p], r) ELSE up[p], claim[p] = "live")
    BY <1>0, <2>1, SendFlow
  <2>. QED
    BY <2>2 DEF FlowInv
<1>8. \A i \in Intents(p)' : i \in Intents(p) \/ i = r.intent
  BY <1>2 DEF Intents
<1>9. r.intent \in Intent
  BY DEF Command
<1>. QED
  BY <1>3, <1>5, <1>6, <1>7, <1>8, <1>9, ShapeStep DEF Shape

LEMMA SentIs ==
  ASSUME TypeInv, NEW p \in Player, NEW c \in Command
  PROVE  Sent(p, <<c>>) = IF claim[p] = "live" THEN Append(up[p], c) ELSE up[p]
<1>1. up[p] \in Seq(Command)
  BY DEF TypeInv
<1>. QED
  BY <1>1, OneMore DEF Sent

LEMMA SubmitShape ==
  ASSUME ShapeInv, NEW p \in Player, NEW i \in Intent, NEW a \in Action, Submit(p, i, a)
  PROVE  ShapeInv'
<1>0. TypeInv /\ Shape(p)
  BY DEF ShapeInv, Shape
<1>. DEFINE c == [op |-> nextOp[p], session |-> opened[p], action |-> a, intent |-> i]
<1>1. /\ UNCHANGED <<session, maxOp, receipts, issued, revision, link, opened, down, claim, executed>>
      /\ link[p] = "open" /\ outcome[i] = "none" /\ Cardinality(pending[p]) < Window
      /\ pending'[p] = pending[p] \cup {c} /\ nextOp'[p] = nextOp[p] + 1
      /\ up'[p] = Sent(p, <<c>>)
      /\ outcome' = [outcome EXCEPT ![i] = "pending"]
  BY <1>0 DEF Submit, ledgerVars, TypeInv
<1>2. c \in Command /\ opened[p] \in Session
  BY <1>0, <1>1 DEF Shape, LinkInv, TypeInv, Command
<1>3. up'[p] = IF claim[p] = "live" THEN Append(up[p], c) ELSE up[p]
  BY <1>0, <1>1, <1>2, SentIs
<1>4. c.op = nextOp[p] /\ c.session = opened[p] /\ c.intent = i
  OBVIOUS
<1>5. /\ pending' = [pending EXCEPT ![p] = @ \cup {c}]
      /\ up' = [up EXCEPT ![p] = Sent(p, <<c>>)]
      /\ nextOp' = [nextOp EXCEPT ![p] = @ + 1]
  BY DEF Submit
<1>. HIDE DEF c
<1>6. TypeInv'
  <2>1. Sent(p, <<c>>) \in Seq(Command)
    <3>1. up[p] \in Seq(Command)
      BY <1>0 DEF TypeInv
    <3>2. Append(up[p], c) \in Seq(Command)
      BY <1>2, <3>1, Appended
    <3>. QED
      BY <1>1, <1>3, <3>1, <3>2
  <2>2. up' \in [Player -> Seq(Command)]
    BY <1>0, <1>5, <2>1 DEF TypeInv
  <2>3. pending' \in [Player -> SUBSET Command]
    BY <1>0, <1>2, <1>5 DEF TypeInv
  <2>4. nextOp' \in [Player -> Nat \ {0}] /\ DOMAIN outcome' = Intent
    BY <1>0, <1>1, <1>5 DEF TypeInv
  <2>. QED
    BY <1>0, <1>1, <2>2, <2>3, <2>4 DEF TypeInv
<1>7. \A q \in Player : q # p => Untouched(q)
  BY <1>0, <1>1, <1>5 DEF Untouched, TypeInv
<1>8. i \notin Intents(p)
  BY <1>1 DEF ShapeInv, IntentInv
<1>9. (\A d \in pending[p] : d.intent # c.intent) /\ (\A k \in DOMAIN up[p] : up[p][k] \in pending[p])
  BY <1>0, <1>1, <1>4, <1>8 DEF Intents, Shape, UpInv
<1>10. /\ \A k \in DOMAIN down'[p] : down'[p][k].kind # "opened"
       /\ Flow(nextOp[p], down'[p], pending[p], up[p], claim[p] = "live")
  BY <1>0, <1>1 DEF Shape, LinkInv, FlowInv
<1>11. /\ outcome[c.intent] = "none" /\ outcome'[c.intent] # "none"
       /\ \A j \in Intent : outcome'[j] = "none" => outcome[j] = "none"
  BY <1>0, <1>1, <1>4 DEF TypeInv
<1>12. pending[p] \in SUBSET pending[p]
  OBVIOUS
<1>. QED
  BY <1>1, <1>2, <1>3, <1>4, <1>6, <1>7, <1>9, <1>10, <1>11, <1>12, SendShape

\* An edit is answered for good, and forgotten.
LEMMA SettleShape ==
  ASSUME ShapeInv, NEW p \in Player, down[p] # <<>>, link[p] = "open",
         UNCHANGED <<session, maxOp, receipts, issued, revision, link, opened, nextOp, up, claim, executed>>,
         NEW rest \in SUBSET pending[p], pending' = [pending EXCEPT ![p] = rest],
         \A c \in pending[p] : c \in rest <=> c.op # Head(down[p]).op,
         down' = [down EXCEPT ![p] = Tail(@)],
         DOMAIN outcome' = Intent,
         \A i \in Intent : outcome'[i] = "none" => outcome[i] = "none"
  PROVE  ShapeInv'
<1>0. TypeInv /\ Shape(p)
  BY DEF ShapeInv, Shape
<1>1. /\ down[p] \in Seq(Message) /\ up[p] \in Seq(Command) /\ pending[p] \subseteq Command
      /\ pending'[p] = rest /\ down'[p] = Tail(down[p])
      /\ Flow(nextOp[p], down[p], pending[p], up[p], claim[p] = "live")
  BY <1>0 DEF TypeInv, Shape, FlowInv
<1>2. \A c \in rest : c.op \in Nat /\ c.op # Head(down[p]).op
  BY <1>1 DEF Command
<1>3. Flow(nextOp[p], Tail(down[p]), rest, up[p], claim[p] = "live")
  BY <1>1, <1>2, AnswerFlow
<1>4. TypeInv'
  <2>1. down' \in [Player -> Seq(Message)]
    <3>1. Tail(down[p]) \in Seq(Message)
      BY <1>1, HeadTail
    <3>. QED
      BY <1>0, <3>1 DEF TypeInv
  <2>2. pending' \in [Player -> SUBSET Command]
    BY <1>0, <1>1 DEF TypeInv
  <2>. QED
    BY <1>0, <2>1, <2>2 DEF TypeInv
<1>5. \A q \in Player : q # p => Untouched(q)
  BY <1>0 DEF Untouched, TypeInv
<1>6. LinkInv(p)'
  <2>1. \A k \in DOMAIN Tail(down[p]) : Tail(down[p])[k].kind # "opened"
    <3>1. \A k \in DOMAIN Tail(down[p]) : k + 1 \in DOMAIN down[p] /\ Tail(down[p])[k] = down[p][k + 1]
      BY <1>1, HeadTail
    <3>. QED
      BY <1>0, <3>1 DEF Shape, LinkInv
  <2>. QED
    BY <1>0, <1>1, <2>1 DEF LinkInv, Shape
<1>7. PendingInv(p)'
  <2>1. IsFiniteSet(rest) /\ Cardinality(rest) <= Window
    <3>1. IsFiniteSet(rest) /\ Cardinality(rest) <= Cardinality(pending[p]) /\ Cardinality(rest) \in Nat
          /\ Cardinality(pending[p]) \in Nat /\ Cardinality(pending[p]) <= Window
      BY <1>0, FS_Subset, FS_CardinalityType DEF Shape, PendingInv
    <3>. QED
      BY <3>1, WindowAssumption
  <2>. QED
    BY <1>0, <1>1, <2>1 DEF PendingInv, Shape
<1>8. UpInv(p)'
  <2>1. \A k \in DOMAIN up[p] : up[p][k] \in rest
    <3>1. 1 \in DOMAIN down[p] /\ Head(down[p]) = down[p][1]
      BY <1>1, HeadTail
    <3>2. \A k \in DOMAIN up[p] : up[p][k] \in pending[p] /\ down[p][1].op < up[p][k].op
      BY <1>0, <1>1, <3>1 DEF Shape, UpInv, Flow
    <3>3. down[p][1].op \in Nat
      BY <1>1, <3>1 DEF Flow
    <3>4. ASSUME NEW k \in DOMAIN up[p] PROVE up[p][k] \in rest
      <4>1. up[p][k] \in pending[p] /\ up[p][k].op # Head(down[p]).op
        BY <3>1, <3>2, <3>3
      <4>. QED
        BY <4>1
    <3>. QED
      BY <3>4
  <2>. QED
    BY <1>0, <1>1, <2>1 DEF UpInv, Shape
<1>9. FlowInv(p)'
  BY <1>1, <1>3 DEF FlowInv
<1>10. \A i \in Intents(p)' : i \in Intents(p)
  BY <1>1 DEF Intents
<1>. QED
  BY <1>4, <1>5, <1>6, <1>7, <1>8, <1>9, <1>10, ShapeStep DEF Shape

\* An answer names the session of the command it answers.
LEMMA AnswerSession ==
  ASSUME ShapeInv, NEW p \in Player, link[p] = "open", down[p] # <<>>,
         NEW c \in pending[p], c.op = Head(down[p]).op
  PROVE  c.session = Head(down[p]).session
<1>1. 1 \in DOMAIN down[p] /\ Head(down[p]) = down[p][1]
  <2>1. down[p] \in Seq(Message)
    BY DEF ShapeInv, TypeInv
  <2>. QED
    BY <2>1, HeadTail
<1>2. c.op \in Nat
  BY DEF ShapeInv, TypeInv, Command
<1>. QED
  BY <1>1, <1>2 DEF ShapeInv, FlowInv, Flow

LEMMA ReceiveCommitShape == ASSUME ShapeInv, NEW p \in Player, ReceiveCommit(p) PROVE ShapeInv'
<1>. DEFINE rest == pending[p] \ Answered(p, Head(down[p]))
<1>1. /\ down[p] # <<>> /\ link[p] = "open"
      /\ UNCHANGED <<session, maxOp, receipts, issued, revision, link, opened, nextOp, up, claim, executed>>
      /\ pending' = [pending EXCEPT ![p] = rest]
      /\ down' = [down EXCEPT ![p] = Tail(@)]
      /\ DOMAIN outcome' = Intent
      /\ \A i \in Intent : outcome'[i] = "none" => outcome[i] = "none"
  BY DEF ReceiveCommit, ledgerVars, ShapeInv, TypeInv
<1>2. \A c \in pending[p] : c \in rest <=> c.op # Head(down[p]).op
  BY <1>1, AnswerSession DEF Answered
<1>3. rest \in SUBSET pending[p]
  OBVIOUS
<1>. HIDE DEF rest
<1>. QED
  BY <1>1, <1>2, <1>3, SettleShape

LEMMA ReceiveRejectedShape == ASSUME ShapeInv, NEW p \in Player, ReceiveRejected(p) PROVE ShapeInv'
<1>. DEFINE rest == pending[p] \ {c \in pending[p] : c.op = Head(down[p]).op}
<1>1. /\ down[p] # <<>> /\ link[p] = "open"
      /\ UNCHANGED <<session, maxOp, receipts, issued, revision, link, opened, nextOp, up, claim, executed>>
      /\ pending' = [pending EXCEPT ![p] = rest]
      /\ down' = [down EXCEPT ![p] = Tail(@)]
      /\ DOMAIN outcome' = Intent
      /\ \A i \in Intent : outcome'[i] = "none" => outcome[i] = "none"
  BY DEF ReceiveRejected, ledgerVars, ShapeInv, TypeInv
<1>2. (\A c \in pending[p] : c \in rest <=> c.op # Head(down[p]).op) /\ rest \in SUBSET pending[p]
  OBVIOUS
<1>. HIDE DEF rest
<1>. QED
  BY <1>1, <1>2, SettleShape

\* The command c that ReceiveStale takes back, and r that replaces it.
Reissues(p, c, r) ==
  /\ c \in pending[p] /\ r = [c EXCEPT !.op = nextOp[p], !.session = opened[p]]
  /\ c.op = Head(down[p]).op /\ c.session # opened[p]
  /\ down[p] # <<>> /\ link[p] = "open" /\ Head(down[p]).kind = "stale"
  /\ UNCHANGED <<session, maxOp, receipts, issued, revision, link, opened, claim, outcome, executed>>
  /\ pending' = [pending EXCEPT ![p] = (@ \ {c}) \cup {r}]
  /\ nextOp' = [nextOp EXCEPT ![p] = @ + 1]
  /\ up' = [up EXCEPT ![p] = Sent(p, <<r>>)]
  /\ down' = [down EXCEPT ![p] = Tail(@)]

LEMMA ReceiveStaleIs ==
  ASSUME NEW p \in Player, ReceiveStale(p) PROVE \E c, r : Reissues(p, c, r)
BY DEF ReceiveStale, Reissues, ReissueId, ledgerVars, historyVars

LEMMA ReissueType ==
  ASSUME ShapeInv, NEW p \in Player, NEW c, NEW r, Reissues(p, c, r)
  PROVE  /\ c \in Command /\ r \in Command /\ r.op = nextOp[p] /\ r.session = opened[p] /\ r.intent = c.intent
         /\ opened[p] = session[p]
<1>1. c \in Command /\ nextOp[p] \in Nat /\ opened[p] = session[p] /\ opened[p] # None /\ opened[p] \in Session
  BY DEF Reissues, ShapeInv, TypeInv, LinkInv
<1>2. r = [c EXCEPT !.op = nextOp[p], !.session = opened[p]]
  BY DEF Reissues
<1>. QED
  BY <1>1, <1>2 DEF Command

LEMMA ReceiveStaleShape == ASSUME ShapeInv, NEW p \in Player, ReceiveStale(p) PROVE ShapeInv'
<1>0. TypeInv /\ Shape(p)
  BY DEF ShapeInv, Shape
<1>1. PICK c, r : Reissues(p, c, r)
  BY ReceiveStaleIs
<1>2. c \in Command /\ r \in Command /\ r.op = nextOp[p] /\ r.session = opened[p] /\ r.intent = c.intent
  BY <1>1, ReissueType
<1>. DEFINE rest == pending[p] \ {c}
<1>3. /\ pending'[p] = rest \cup {r} /\ nextOp'[p] = nextOp[p] + 1 /\ down'[p] = Tail(down[p])
      /\ up'[p] = Sent(p, <<r>>)
  BY <1>0, <1>1 DEF Reissues, TypeInv
<1>4. up'[p] = IF claim[p] = "live" THEN Append(up[p], r) ELSE up[p]
  BY <1>0, <1>2, <1>3, SentIs
<1>5. /\ down[p] \in Seq(Message) /\ up[p] \in Seq(Command) /\ pending[p] \subseteq Command
      /\ down[p] # <<>> /\ link[p] = "open"
      /\ Flow(nextOp[p], down[p], pending[p], up[p], claim[p] = "live")
  BY <1>0, <1>1 DEF TypeInv, Shape, FlowInv, Reissues
<1>6. \A d \in rest : d.op \in Nat /\ d.op # Head(down[p]).op /\ d.intent # r.intent
  BY <1>0, <1>1, <1>2, <1>5 DEF Shape, PendingInv, Reissues, Command
<1>7. rest \in SUBSET pending[p] /\ c \in pending[p]
  BY <1>1 DEF Reissues
<1>8. Cardinality(rest) < Window
  <2>1. Cardinality(rest) = Cardinality(pending[p]) - 1 /\ Cardinality(pending[p]) \in Nat
        /\ Cardinality(pending[p]) <= Window
    BY <1>0, <1>7, FS_RemoveElement, FS_CardinalityType DEF Shape, PendingInv
  <2>. QED
    BY <2>1, WindowAssumption
<1>. HIDE DEF rest
<1>9. Flow(nextOp[p], Tail(down[p]), rest, up[p], claim[p] = "live")
  BY <1>5, <1>6, <1>7, AnswerFlow
<1>10. \A k \in DOMAIN up[p] : up[p][k] \in rest
  <2>1. 1 \in DOMAIN down[p] /\ Head(down[p]) = down[p][1]
    BY <1>5, HeadTail
  <2>2. \A k \in DOMAIN up[p] : up[p][k] \in pending[p] /\ down[p][1].op < up[p][k].op /\ down[p][1].op \in Nat
    BY <1>0, <1>5, <2>1 DEF Shape, UpInv, Flow
  <2>3. c.op = down[p][1].op
    BY <1>1, <2>1 DEF Reissues
  <2>. QED
    BY <2>2, <2>3 DEF rest
<1>11. \A k \in DOMAIN down'[p] : down'[p][k].kind # "opened"
  <2>1. \A k \in DOMAIN Tail(down[p]) : k + 1 \in DOMAIN down[p] /\ Tail(down[p])[k] = down[p][k + 1]
    BY <1>5, HeadTail
  <2>. QED
    BY <1>0, <1>3, <1>5, <2>1 DEF Shape, LinkInv
<1>12. TypeInv'
  <2>1. down' \in [Player -> Seq(Message)]
    <3>1. Tail(down[p]) \in Seq(Message)
      BY <1>5, HeadTail
    <3>. QED
      BY <1>0, <1>1, <3>1 DEF TypeInv, Reissues
  <2>2. pending' \in [Player -> SUBSET Command]
    BY <1>0, <1>1, <1>2 DEF TypeInv, Reissues
  <2>3. up' \in [Player -> Seq(Command)]
    <3>1. Append(up[p], r) \in Seq(Command)
      BY <1>2, <1>5, Appended
    <3>2. up'[p] \in Seq(Command)
      BY <1>4, <1>5, <3>1
    <3>. QED
      BY <1>0, <1>1, <1>3, <3>2 DEF TypeInv, Reissues
  <2>4. nextOp' \in [Player -> Nat \ {0}]
    BY <1>0, <1>1 DEF TypeInv, Reissues
  <2>. QED
    BY <1>0, <1>1, <2>1, <2>2, <2>3, <2>4 DEF TypeInv, Reissues
<1>13. \A q \in Player : q # p => Untouched(q)
  BY <1>0, <1>1 DEF Untouched, TypeInv, Reissues
<1>14. /\ UNCHANGED <<issued, executed>> /\ UNCHANGED <<session[p], maxOp[p], opened[p], link[p], claim[p]>>
       /\ r.intent \in Intents(p) /\ \A i \in Intent : outcome'[i] = "none" => outcome[i] = "none"
  BY <1>1, <1>2, <1>7 DEF Reissues, Intents
<1>15. Flow(nextOp[p], down'[p], rest, up[p], claim[p] = "live")
  BY <1>3, <1>9
<1>. QED
  BY <1>2, <1>3, <1>4, <1>5, <1>6, <1>7, <1>8, <1>10, <1>11, <1>12, <1>13, <1>14, <1>15, SendShape

-----------------------------------------------------------------------------
(* The service.                                                            *)

\* One command is served; its execution moves the watermark up to it.
LEMMA ReplyShape ==
  ASSUME ShapeInv, NEW p \in Player, NEW kind \in {"commit", "stale", "rejected"}, Reply(p, kind),
         UNCHANGED <<session, issued>>, revision' \in Nat,
         receipts' \in [Player -> Seq(Kept)], \A q \in Player : q # p => receipts'[q] = receipts[q],
         maxOp' = maxOp \/ (maxOp' = [maxOp EXCEPT ![p] = Head(up[p]).op] /\ Head(up[p]).session = session[p]),
         executed' \in [Intent -> Nat],
         \A i \in Intent : i # Head(up[p]).intent => executed'[i] = executed[i]
  PROVE  ShapeInv'
<1>0. TypeInv /\ Shape(p)
  BY DEF ShapeInv, Shape
<1>. DEFINE c == Head(up[p])
            m == [kind |-> kind, op |-> c.op, session |-> c.session, intent |-> c.intent]
<1>1. /\ UNCHANGED <<link, opened, nextOp, pending, claim, outcome>>
      /\ claim[p] # "none" /\ up[p] # <<>>
      /\ up' = [up EXCEPT ![p] = Tail(@)]
      /\ down' = [down EXCEPT ![p] = IF claim[p] = "live" THEN Append(@, m) ELSE @]
  BY DEF Reply, clientVars
<1>2. /\ up[p] \in Seq(Command) /\ down[p] \in Seq(Message) /\ pending[p] \subseteq Command
      /\ nextOp[p] \in Nat /\ maxOp[p] \in Nat
      /\ up'[p] = Tail(up[p]) /\ down'[p] = IF claim[p] = "live" THEN Append(down[p], m) ELSE down[p]
      /\ claim[p] \in {"live", "orphan"}
      /\ link[p] \in {"waiting", "handshaking", "open", "failed"}
  BY <1>0, <1>1 DEF TypeInv
<1>3. c \in Command
  BY <1>1, <1>2, HeadTail
<1>4. m \in Message /\ m.op = c.op /\ m.session = c.session /\ m.kind # "opened"
  BY <1>3 DEF Message, Command
<1>5. /\ 1 \in DOMAIN up[p] /\ c = up[p][1]
      /\ \A k \in DOMAIN Tail(up[p]) : k \in Nat /\ k >= 1 /\ k + 1 \in DOMAIN up[p] /\ Tail(up[p])[k] = up[p][k + 1]
      /\ Tail(up[p]) \in Seq(Command)
  BY <1>1, <1>2, HeadTail
<1>6. maxOp'[p] = maxOp[p] \/ (maxOp'[p] = c.op /\ c.session = session[p])
  BY <1>0 DEF TypeInv
<1>. HIDE DEF c, m
<1>7. TypeInv'
  <2>1. up' \in [Player -> Seq(Command)]
    BY <1>0, <1>1, <1>5 DEF TypeInv
  <2>2. down' \in [Player -> Seq(Message)]
    <3>1. down'[p] \in Seq(Message)
      BY <1>2, <1>4, Appended
    <3>. QED
      BY <1>0, <1>1, <1>2, <3>1 DEF TypeInv
  <2>3. maxOp' \in [Player -> Nat]
    BY <1>0, <1>3 DEF TypeInv, Command, c
  <2>. QED
    BY <1>0, <1>1, <2>1, <2>2, <2>3 DEF TypeInv
<1>8. \A q \in Player : q # p => Untouched(q)
  BY <1>0, <1>1 DEF Untouched, TypeInv
<1>9. link[p] # "handshaking"
  BY <1>0, <1>1 DEF Shape, LinkInv
<1>10. link[p] \in {"waiting", "failed"} => down'[p] = <<>> /\ claim[p] # "live"
  BY <1>0, <1>2 DEF Shape, LinkInv
<1>11. link[p] = "open" => claim[p] = "live" /\ \A k \in DOMAIN up[p] : up[p][k] \in pending[p] /\ up[p][k].op < nextOp[p]
  BY <1>0, <1>1, <1>2 DEF Shape, LinkInv, UpInv, PendingInv
<1>12. LinkInv(p)'
  <2>1. link[p] = "open" => \A k \in DOMAIN down'[p] : down'[p][k].kind # "opened"
    <3>1. SUFFICES ASSUME link[p] = "open", NEW k, k \in DOMAIN down'[p] PROVE down'[p][k].kind # "opened"
      OBVIOUS
    <3>2. down'[p] = Append(down[p], m)
      BY <1>2, <1>11, <3>1
    <3>3. (k \in DOMAIN down[p] /\ down'[p][k] = down[p][k]) \/ down'[p][k] = m
      BY <1>2, <1>4, <3>1, <3>2, Appended
    <3>. QED
      BY <1>0, <1>4, <3>1, <3>3 DEF Shape, LinkInv
  <2>2. link[p] = "open" => maxOp'[p] < nextOp[p]
    BY <1>0, <1>5, <1>6, <1>11 DEF Shape, LinkInv
  <2>. QED
    BY <1>0, <1>1, <1>9, <1>10, <2>1, <2>2 DEF LinkInv, Shape
<1>13. PendingInv(p)'
  BY <1>0, <1>1 DEF PendingInv, Shape
<1>14. UpInv(p)'
  <2>1. \/ \A k \in DOMAIN up'[p] : up'[p][k] \in pending[p]
        \/ pending[p] = {} /\ link[p] \in {"waiting", "failed"}
    BY <1>0, <1>2, <1>5 DEF Shape, UpInv
  <2>2. \A j, k \in DOMAIN up'[p] : j < k =>
          up'[p][j].op < up'[p][k].op /\ up'[p][j].intent # up'[p][k].intent
    <3>1. SUFFICES ASSUME NEW j, NEW k, j \in DOMAIN up'[p], k \in DOMAIN up'[p], j < k
                   PROVE  up'[p][j].op < up'[p][k].op /\ up'[p][j].intent # up'[p][k].intent
      OBVIOUS
    <3>2. /\ j + 1 \in DOMAIN up[p] /\ k + 1 \in DOMAIN up[p] /\ j + 1 < k + 1
          /\ up'[p][j] = up[p][j + 1] /\ up'[p][k] = up[p][k + 1]
      BY <1>2, <1>5, <3>1
    <3>3. up[p][j + 1].op < up[p][k + 1].op /\ up[p][j + 1].intent # up[p][k + 1].intent
      BY <1>0, <3>2 DEF Shape, UpInv
    <3>. QED
      BY <3>2, <3>3
  <2>3. \A k \in DOMAIN up'[p] : up'[p][k].session = session'[p] => up'[p][k].op > maxOp'[p]
    <3>1. SUFFICES ASSUME NEW k, k \in DOMAIN up'[p], up'[p][k].session = session[p]
                   PROVE  up'[p][k].op > maxOp'[p]
      OBVIOUS
    <3>2. up'[p][k] = up[p][k + 1] /\ k + 1 \in DOMAIN up[p] /\ 1 < k + 1
      BY <1>2, <1>5, <3>1
    <3>3. up[p][k + 1].op > maxOp[p] /\ up[p][1].op < up[p][k + 1].op
      BY <1>0, <1>5, <3>1, <3>2 DEF Shape, UpInv
    <3>4. up[p][k + 1].op \in Nat /\ c.op \in Nat
      <4>1. \A e \in Command : e.op \in Nat
        BY DEF Command
      <4>2. up[p][k + 1] \in Command
        BY <1>2, <3>2
      <4>. QED
        BY <1>3, <4>1, <4>2
    <3>. QED
      BY <1>2, <1>5, <1>6, <3>2, <3>3, <3>4
  <2>. QED
    BY <1>1, <2>1, <2>2, <2>3 DEF UpInv
<1>15. FlowInv(p)'
  <2>1. SUFFICES ASSUME link[p] = "open"
                 PROVE  Flow(nextOp[p], down'[p], pending[p], up'[p], claim[p] = "live")
    BY <1>1 DEF FlowInv
  <2>2. Flow(nextOp[p], down[p], pending[p], up[p], TRUE)
    BY <1>0, <1>11, <2>1 DEF Shape, FlowInv
  <2>3. \A j, k \in DOMAIN up[p] : j < k => up[p][j].op < up[p][k].op
    BY <1>0 DEF Shape, UpInv
  <2>4. (\A d, e \in pending[p] : d.op = e.op => d = e) /\ (\A d \in pending[p] : d.op \in Nat)
    BY <1>0, <1>2 DEF Shape, PendingInv, Command
  <2>5. m.op = Head(up[p]).op /\ m.session = Head(up[p]).session
    BY <1>4 DEF c
  <2>6. Flow(nextOp[p], Append(down[p], m), pending[p], Tail(up[p]), TRUE)
    BY <1>1, <1>2, <1>4, <1>11, <2>1, <2>2, <2>3, <2>4, <2>5, ServeFlow
  <2>. QED
    BY <1>2, <1>11, <2>1, <2>6
<1>16. \A i \in Intents(p)' : i \in Intents(p)
  BY <1>1, <1>2, <1>5 DEF Intents
<1>17. c.intent \in Intents(p)
  BY <1>5 DEF Intents
<1>18. \A i \in Intent : outcome'[i] = "none" =>
         outcome[i] = "none" /\ (executed'[i] = executed[i] \/ i \in Intents(p))
  BY <1>1, <1>17 DEF c
<1>. QED
  BY <1>7, <1>8, <1>12, <1>13, <1>14, <1>15, <1>16, <1>18, ShapeStep DEF Shape

\* The receipts that stay keep their order.
LEMMA NewestIs ==
  ASSUME NEW T, NEW s \in Seq(T)
  PROVE  \E n \in Nat :
           /\ n = IF Len(s) <= Retained THEN 0 ELSE Len(s) - Retained
           /\ Newest(s) \in Seq(T) /\ DOMAIN Newest(s) = 1..Len(s) - n
           /\ \A i \in DOMAIN Newest(s) : i + n \in DOMAIN s /\ Newest(s)[i] = s[i + n]
<1>0. Len(s) \in Nat /\ Retained \in Nat \ {0} /\ DOMAIN s = 1..Len(s)
  BY RetainedAssumption, LenProperties
<1>1. CASE Len(s) <= Retained
  <2>1. Newest(s) = s
    BY <1>1 DEF Newest
  <2>2. \A i \in DOMAIN s : i + 0 \in DOMAIN s /\ s[i] = s[i + 0]
    BY <1>0
  <2>3. DOMAIN s = 1..Len(s) - 0 /\ 0 \in Nat
    BY <1>0
  <2>. QED
    BY <1>1, <2>1, <2>2, <2>3
<1>2. CASE ~(Len(s) <= Retained)
  <2>. DEFINE n == Len(s) - Retained
  <2>1. Newest(s) = SubSeq(s, n + 1, Len(s)) /\ n \in Nat
    BY <1>0, <1>2 DEF Newest
  <2>2. \A i \in n + 1..Len(s) : s[i] \in T
    BY <1>0, <2>1, ElementOfSeq
  <2>3. /\ SubSeq(s, n + 1, Len(s)) \in Seq(T)
        /\ Len(SubSeq(s, n + 1, Len(s))) = Len(s) - n
        /\ \A i \in 1..Len(s) - n : SubSeq(s, n + 1, Len(s))[i] = s[n + 1 + i - 1]
    BY <1>0, <1>2, <2>1, <2>2, SubSeqProperties
  <2>4. DOMAIN Newest(s) = 1..Len(s) - n
    BY <2>1, <2>3, LenProperties
  <2>5. \A i \in DOMAIN Newest(s) : i + n \in DOMAIN s /\ Newest(s)[i] = s[i + n]
    BY <1>0, <2>1, <2>3, <2>4
  <2>. QED
    BY <1>2, <2>1, <2>3, <2>4, <2>5
<1>. QED
  BY <1>1, <1>2

\* What Execute does to the session, the watermark and the receipts.
LEMMA ExecuteIs ==
  ASSUME TypeInv, NEW p \in Player, NEW o \in Nat, NEW a \in Action, Execute(p, o, a)
  PROVE  \E r \in Kept :
           /\ r.session = session[p] /\ r.op = o
           /\ receipts' = [receipts EXCEPT ![p] = Newest(Append(@, r))]
           /\ receipts'[p] \in Seq(Kept)
           /\ maxOp' = [maxOp EXCEPT ![p] = o]
           /\ UNCHANGED <<session, issued>> /\ revision' \in Nat
<1>. DEFINE S == Mutated(Overlay(overrides), a)
            now == IF S # {} THEN revision + 1 ELSE revision
            r == [session |-> session[p], op |-> o, action |-> a, voxels |-> S, revision |-> now]
<1>1. S \in SUBSET Voxel
  BY ActionAssumption DEF Mutated
<1>2. now \in Nat /\ session[p] \in Session
  BY DEF TypeInv, Execute
<1>3. /\ receipts' = [receipts EXCEPT ![p] = Newest(Append(@, r))] /\ revision' = now
      /\ maxOp' = [maxOp EXCEPT ![p] = o] /\ UNCHANGED <<session, issued>>
  BY DEF Execute
<1>. HIDE DEF S, now
<1>4. r \in Kept /\ r.session = session[p] /\ r.op = o
  BY <1>1, <1>2 DEF Kept
<1>. HIDE DEF r
<1>5. receipts[p] \in Seq(Kept) /\ receipts \in [Player -> Seq(Kept)]
  BY DEF TypeInv
<1>6. Append(receipts[p], r) \in Seq(Kept)
  BY <1>4, <1>5, AppendProperties
<1>7. Newest(Append(receipts[p], r)) \in Seq(Kept)
  BY <1>6, NewestIs
<1>8. receipts'[p] \in Seq(Kept)
  BY <1>3, <1>5, <1>7
<1>. QED
  BY <1>2, <1>3, <1>4, <1>8

LEMMA ServeShape == ASSUME ShapeInv, NEW p \in Player, Serve(p) PROVE ShapeInv'
<1>0. TypeInv
  BY DEF ShapeInv
<1>1. ASSUME NEW kind \in {"commit", "stale", "rejected"}, Reply(p, kind), UNCHANGED <<ledgerVars, executed>>
      PROVE  ShapeInv'
  <2>1. /\ UNCHANGED <<session, issued>> /\ revision' \in Nat /\ receipts' = receipts /\ maxOp' = maxOp
        /\ receipts' \in [Player -> Seq(Kept)]
        /\ executed' \in [Intent -> Nat] /\ executed' = executed
    BY <1>0, <1>1 DEF ledgerVars, TypeInv
  <2>. QED
    BY <1>1, <2>1, ReplyShape
<1>2. ASSUME ServeExecute(p) PROVE ShapeInv'
  <2>. DEFINE c == Head(up[p])
  <2>1. /\ Reply(p, "commit") /\ c.session = session[p] /\ Execute(p, c.op, c.action) /\ up[p] # <<>>
        /\ executed' = [executed EXCEPT ![c.intent] = @ + 1]
    BY <1>2 DEF ServeExecute, Reply
  <2>2. c \in Command
    <3>1. up[p] \in Seq(Command)
      BY <1>0 DEF TypeInv
    <3>. QED
      BY <2>1, <3>1, HeadTail
  <2>3. c.op \in Nat /\ c.action \in Action /\ c.intent \in Intent
    BY <2>2 DEF Command
  <2>. HIDE DEF c
  <2>4. PICK r \in Kept :
           /\ receipts' = [receipts EXCEPT ![p] = Newest(Append(@, r))]
           /\ receipts'[p] \in Seq(Kept)
           /\ maxOp' = [maxOp EXCEPT ![p] = c.op]
           /\ UNCHANGED <<session, issued>> /\ revision' \in Nat
    BY <1>0, <2>1, <2>3, ExecuteIs
  <2>5. receipts' \in [Player -> Seq(Kept)] /\ \A q \in Player : q # p => receipts'[q] = receipts[q]
    BY <1>0, <2>4 DEF TypeInv
  <2>6. executed' \in [Intent -> Nat] /\ \A i \in Intent : i # c.intent => executed'[i] = executed[i]
    BY <1>0, <2>1, <2>3 DEF TypeInv
  <2>. QED
    BY <2>1, <2>4, <2>5, <2>6, ReplyShape DEF c
<1>. QED
  BY <1>1, <1>2 DEF Serve, ServeReplay, ServeStale, ServeRejected

-----------------------------------------------------------------------------
LEMMA ShapeInit == RetryInit => ShapeInv
<1>. SUFFICES ASSUME RetryInit PROVE ShapeInv
  OBVIOUS
<1>. USE DEF RetryInit, LedgerInit
<1>1. TypeInv
  BY DEF TypeInv, InitialRevision
<1>2. IntentInv
  BY DEF IntentInv, Intents
<1>3. ASSUME NEW p \in Player PROVE LinkInv(p) /\ PendingInv(p) /\ UpInv(p) /\ FlowInv(p)
  <2>1. PendingInv(p)
    BY FS_EmptySet, WindowAssumption DEF PendingInv
  <2>. QED
    BY <2>1 DEF LinkInv, UpInv, FlowInv
<1>. QED
  BY <1>1, <1>2, <1>3 DEF ShapeInv

LEMMA ShapeNext == ShapeInv /\ [RetryNext]_vars => ShapeInv'
<1>. SUFFICES ASSUME ShapeInv, [RetryNext]_vars PROVE ShapeInv'
  OBVIOUS
<1>1. CASE UNCHANGED vars
  <2>1. /\ UNCHANGED <<session, maxOp, receipts, issued, revision, link, opened, nextOp, pending, up, down>>
        /\ UNCHANGED <<claim, outcome, executed>>
    BY <1>1 DEF vars, ledgerVars, clientVars, wireVars, historyVars
  <2>2. TypeInv'
    BY <2>1 DEF ShapeInv, TypeInv
  <2>3. \A q \in Player : Shape(q)' /\ Intents(q)' = Intents(q)
    <3>1. \A q \in Player : Untouched(q)
      BY <2>1 DEF Untouched
    <3>. QED
      BY <2>1, <3>1, ElsewhereShape
  <2>4. IntentInv'
    BY <2>1, <2>3 DEF ShapeInv, IntentInv
  <2>. QED
    BY <2>2, <2>3, <2>4 DEF ShapeInv, Shape
<1>2. ASSUME NEW p \in Player, Reconnect(p) PROVE ShapeInv'
  BY <1>2, DialFailsShape, VisitShape, DialShape DEF Reconnect
<1>3. ASSUME NEW p \in Player, Receive(p) PROVE ShapeInv'
  BY <1>3, ReceiveOpenedShape, ReceiveCommitShape, ReceiveStaleShape, ReceiveRejectedShape DEF Receive
<1>. QED
  BY <1>1, <1>2, <1>3, DisconnectShape, EndSessionShape, ReloadShape, SubmitShape, ServeShape DEF RetryNext

\* However connections break, pages reload and late frames are served, commands
\* and answers keep the order of their operation ids and edits the one they
\* were made in.
THEOREM RetryShape == RetrySpec => []ShapeInv
<1>1. RetryInit => ShapeInv
  BY ShapeInit
<1>2. ShapeInv /\ [RetryNext]_vars => ShapeInv'
  BY ShapeNext
<1>. QED
  BY <1>1, <1>2, PTL DEF RetrySpec

\* The operation watermark (EditAuthority::apply refuses what is not newer than
\* max_operation_id) never bites a command of the transport that has no receipt.
THEOREM RetriesStayInOrder == RetrySpec => []CurrentCommandsArriveInOrder
<1>1. ShapeInv => CurrentCommandsArriveInOrder
  <2>1. ASSUME ShapeInv, NEW p \in Player, up[p] # <<>>, Head(up[p]).session = session[p]
        PROVE  Head(up[p]).op > maxOp[p]
    <3>1. up[p] \in Seq(Command)
      BY <2>1 DEF ShapeInv, TypeInv
    <3>2. 1 \in DOMAIN up[p] /\ Head(up[p]) = up[p][1]
      BY <2>1, <3>1, HeadTail
    <3>. QED
      BY <2>1, <3>2 DEF ShapeInv, UpInv
  <2>. QED
    BY <2>1 DEF CurrentCommandsArriveInOrder
<1>. QED
  BY <1>1, RetryShape, PTL

-----------------------------------------------------------------------------
(* An edit takes effect once.                                              *)

Once(p) == ReceiptInv(p) /\ RetainedInv(p) /\ AnswerInv(p)

\* The executions of p's edits say nothing of another player's.
LEMMA ElsewhereOnce ==
  ASSUME ShapeInv, OnceInv, NEW p \in Player, NEW q \in Player, q # p,
         Untouched(q), issued \subseteq issued',
         \A i \in Intent : executed'[i] = executed[i] \/ i \in Intents(p)
  PROVE  Once(q)'
<1>0. TypeInv /\ Once(q)
  BY DEF ShapeInv, OnceInv, Once
<1>1. pending[q] \subseteq Command /\ up[q] \in Seq(Command)
  BY <1>0 DEF TypeInv
<1>2. \A i \in Intents(q) : i \in Intent /\ i \notin Intents(p)
  <2>1. \A k \in DOMAIN up[q] : up[q][k] \in Command
    BY <1>1
  <2>2. Intents(q) \subseteq Intent
    BY <1>1, <2>1 DEF Intents, Command
  <2>. QED
    BY <2>2 DEF ShapeInv, IntentInv
<1>3. /\ \A c \in pending[q] : executed'[c.intent] = executed[c.intent]
      /\ \A k \in DOMAIN up[q] : executed'[up[q][k].intent] = executed[up[q][k].intent]
  BY <1>2 DEF Intents
<1>4. UNCHANGED <<session[q], maxOp[q], receipts[q], link[q], pending[q], up[q], down[q]>>
  BY DEF Untouched
<1>5. ReceiptInv(q)'
  BY <1>0, <1>4 DEF Once, ReceiptInv, Matches
<1>6. RetainedInv(q)'
  BY <1>0, <1>3, <1>4 DEF Once, RetainedInv, HasReceipt, Matches
<1>7. AnswerInv(q)'
  BY <1>0, <1>3, <1>4 DEF Once, AnswerInv
<1>. QED
  BY <1>5, <1>6, <1>7 DEF Once

LEMMA OnceStep ==
  ASSUME ShapeInv, OnceInv, NEW p \in Player,
         \A q \in Player : q # p => Untouched(q), issued \subseteq issued',
         \A i \in Intent : executed'[i] = executed[i] \/ i \in Intents(p),
         EditsTakeEffectOnce', Once(p)'
  PROVE  OnceInv'
<1>1. \A q \in Player : Once(q)'
  BY ElsewhereOnce
<1>. QED
  BY <1>1 DEF OnceInv, Once

\* Nothing is executed and no edit is taken up; what is forgotten is older than
\* what is kept.
LEMMA QuietOnce ==
  ASSUME ShapeInv, OnceInv, NEW p \in Player,
         \A q \in Player : q # p => Untouched(q),
         UNCHANGED <<issued, executed>>, UNCHANGED <<session[p], maxOp[p], receipts[p]>>,
         pending'[p] \subseteq pending[p],
         \A c \in pending'[p], d \in pending[p] : c.op < d.op => d \in pending'[p],
         \A k \in DOMAIN up'[p] : up'[p][k].session = session[p] => executed[up'[p][k].intent] = 0,
         link'[p] = "open" => \A k \in DOMAIN down'[p] : \A c \in pending[p] : c.op = down'[p][k].op =>
           /\ down'[p][k].kind = "commit" => executed[c.intent] = 1
           /\ down'[p][k].kind = "stale" => executed[c.intent] = 0,
         \A i \in Intent : outcome'[i] = "committed" => outcome[i] = "committed" \/ executed[i] = 1
  PROVE  OnceInv'
<1>0. Once(p) /\ EditsTakeEffectOnce
  BY DEF OnceInv, Once
<1>1. EditsTakeEffectOnce'
  BY <1>0 DEF EditsTakeEffectOnce, ExecutedAtMostOnce, CommittedWasExecuted
<1>2. ReceiptInv(p)'
  BY <1>0 DEF Once, ReceiptInv, Matches
<1>3. RetainedInv(p)'
  BY <1>0 DEF Once, RetainedInv, HasReceipt, Matches
<1>4. AnswerInv(p)'
  BY DEF AnswerInv
<1>. QED
  BY <1>1, <1>2, <1>3, <1>4, OnceStep DEF Once

\* The transport loses its connection.
LEMMA LostOnce ==
  ASSUME ShapeInv, OnceInv, NEW p \in Player,
         \A q \in Player : q # p => Untouched(q),
         UNCHANGED <<issued, executed>>, UNCHANGED <<session[p], maxOp[p], receipts[p], up[p]>>,
         pending'[p] = pending[p] \/ pending'[p] = {}, link'[p] # "open",
         \A i \in Intent : outcome'[i] = "committed" => outcome[i] = "committed"
  PROVE  OnceInv'
<1>1. \A k \in DOMAIN up[p] : up[p][k].session = session[p] => executed[up[p][k].intent] = 0
  BY DEF OnceInv, AnswerInv
<1>2. pending'[p] \subseteq pending[p] /\ \A c \in pending'[p], d \in pending[p] : c.op < d.op => d \in pending'[p]
  OBVIOUS
<1>. QED
  BY <1>1, <1>2, QuietOnce

LEMMA ReconnectingOnce ==
  ASSUME ShapeInv, OnceInv, NEW p \in Player, Reconnecting(p) \/ Reload(p),
         UNCHANGED <<ledgerVars, up, executed>>, nextOp' = nextOp \/ Reload(p),
         claim' = claim \/ claim' = [claim EXCEPT ![p] = IF @ = "live" THEN "orphan" ELSE @]
  PROVE  OnceInv'
<1>0. TypeInv
  BY DEF ShapeInv
<1>1. UNCHANGED <<session, maxOp, receipts, issued, up, executed>>
  BY DEF ledgerVars
<1>2. \A q \in Player : q # p => Untouched(q)
  BY <1>0, <1>1 DEF Untouched, Reconnecting, Reload, TypeInv
<1>3. (pending'[p] = pending[p] \/ pending'[p] = {}) /\ link'[p] # "open"
  BY <1>0 DEF Reconnecting, Reload, TypeInv
<1>4. \A i \in Intent : outcome'[i] = "committed" => outcome[i] = "committed"
  BY DEF Reconnecting, Reload, Abandoned
<1>. QED
  BY <1>1, <1>2, <1>3, <1>4, LostOnce

LEMMA VisitOnce == ASSUME ShapeInv, OnceInv, NEW p \in Player, Visit(p) PROVE OnceInv'
<1>1. /\ UNCHANGED <<session, maxOp, receipts, issued, link, opened, nextOp, pending, up, down,
                     claim, outcome, executed>>
  BY DEF Visit, Admit, clientVars, wireVars, historyVars
<1>2. \A q \in Player : Untouched(q)
  BY <1>1 DEF Untouched
<1>3. AnswerInv(p)
  BY DEF OnceInv
<1>. QED
  BY <1>1, <1>2, <1>3, QuietOnce DEF AnswerInv

LEMMA EndSessionOnce == ASSUME ShapeInv, OnceInv, NEW p \in Player, EndSession(p) PROVE OnceInv'
<1>0. TypeInv /\ AnswerInv(p)
  BY DEF ShapeInv, OnceInv
<1>1. /\ UNCHANGED <<session, maxOp, receipts, issued, link, opened, nextOp, pending, down,
                     outcome, executed>>
      /\ up'[p] = <<>>
  BY <1>0 DEF EndSession, ledgerVars, clientVars, historyVars, TypeInv
<1>2. \A q \in Player : q # p => Untouched(q)
  BY <1>0, <1>1 DEF EndSession, Untouched, TypeInv
<1>. QED
  BY <1>0, <1>1, <1>2, QuietOnce DEF AnswerInv

\* A fresh session has no receipts yet.
LEMMA DialOnce ==
  ASSUME ShapeInv, OnceInv, NEW p \in Player, NEW s \in Session, Dial(p, s) PROVE OnceInv'
<1>0. TypeInv /\ Once(p) /\ EditsTakeEffectOnce
  BY DEF ShapeInv, OnceInv, Once
<1>1. /\ UNCHANGED <<receipts, opened, nextOp, pending, outcome, executed>>
      /\ s \notin issued /\ issued' = issued \cup {s} /\ session'[p] = s
      /\ up'[p] = <<>> /\ link'[p] = "handshaking"
  BY <1>0 DEF Dial, Rotate, historyVars, TypeInv
<1>2. \A q \in Player : q # p => Untouched(q)
  BY <1>0 DEF Dial, Rotate, historyVars, Untouched, TypeInv
<1>3. EditsTakeEffectOnce'
  BY <1>0, <1>1 DEF EditsTakeEffectOnce, ExecutedAtMostOnce, CommittedWasExecuted
<1>4. ReceiptInv(p)'
  BY <1>0, <1>1 DEF Once, ReceiptInv, Matches
<1>5. RetainedInv(p)'
  BY <1>0, <1>1 DEF Once, RetainedInv, HasReceipt, Matches
<1>6. AnswerInv(p)'
  BY <1>1 DEF AnswerInv
<1>. QED
  BY <1>1, <1>2, <1>3, <1>4, <1>5, <1>6, OnceStep DEF Once

LEMMA ReceiveOpenedOnce == ASSUME ShapeInv, OnceInv, NEW p \in Player, ReceiveOpened(p) PROVE OnceInv'
<1>0. TypeInv /\ Shape(p)
  BY DEF ShapeInv, Shape
<1>1. /\ UNCHANGED <<session, maxOp, receipts, issued, nextOp, pending, claim, outcome, executed>>
      /\ up'[p] = Sent(p, Resent(p)) /\ up[p] = <<>>
      /\ \A c \in pending[p] : c.session # session[p]
  BY <1>0 DEF ReceiveOpened, ledgerVars, historyVars, TypeInv, Shape, LinkInv
<1>2. down'[p] = <<>>
  <2>1. down[p] = <<[kind |-> "opened", session |-> session[p]]>>
    BY <1>0 DEF ReceiveOpened, Shape, LinkInv
  <2>2. \A m : Tail(<<m>>) = <<>>
    OBVIOUS
  <2>3. down'[p] = Tail(down[p])
    BY <1>0 DEF ReceiveOpened, TypeInv
  <2>. QED
    BY <2>1, <2>2, <2>3
<1>3. \A q \in Player : q # p => Untouched(q)
  BY <1>0, <1>1 DEF ReceiveOpened, Untouched, TypeInv
<1>. DEFINE resent == InOrder(pending[p])
<1>4. resent \in Seq(pending[p])
  <2>1. /\ IsFiniteSet(pending[p]) /\ \A c \in pending[p] : c.op \in Nat
        /\ \A c, d \in pending[p] : c.op = d.op => c = d
    BY <1>0 DEF Shape, PendingInv, TypeInv, Command
  <2>. QED
    BY <2>1, InOrderIs
<1>5. up'[p] = (IF claim[p] = "live" THEN resent ELSE <<>>)
  <2>1. \A t \in Seq(pending[p]) : <<>> \o t = t
    OBVIOUS
  <2>. HIDE DEF resent
  <2>. QED
    BY <1>1, <1>4, <2>1 DEF Sent, Resent, resent
<1>. HIDE DEF resent
<1>6. \A k \in DOMAIN up'[p] : up'[p][k] \in pending[p]
  BY <1>4, <1>5
<1>. QED
  BY <1>1, <1>2, <1>3, <1>6, QuietOnce

\* The answered edit is the oldest one.
LEMMA SettleOnce ==
  ASSUME ShapeInv, OnceInv, NEW p \in Player, down[p] # <<>>, link[p] = "open",
         UNCHANGED <<session, maxOp, receipts, issued, link, opened, nextOp, up, claim, executed>>,
         NEW rest \in SUBSET pending[p], pending' = [pending EXCEPT ![p] = rest],
         \A c \in pending[p] : c \in rest <=> c.op # Head(down[p]).op,
         down' = [down EXCEPT ![p] = Tail(@)],
         \A i \in Intent : outcome'[i] = "committed" => outcome[i] = "committed" \/ executed[i] = 1
  PROVE  OnceInv'
<1>0. TypeInv /\ Shape(p) /\ AnswerInv(p)
  BY DEF ShapeInv, Shape, OnceInv
<1>1. /\ down[p] \in Seq(Message) /\ pending[p] \subseteq Command
      /\ pending'[p] = rest /\ down'[p] = Tail(down[p])
      /\ Flow(nextOp[p], down[p], pending[p], up[p], claim[p] = "live")
  BY <1>0 DEF TypeInv, Shape, FlowInv
<1>2. \A c \in rest : c.op \in Nat /\ c.op # Head(down[p]).op
  BY <1>1 DEF Command
<1>3. \A c \in rest : c.op > Head(down[p]).op
  BY <1>1, <1>2, AnswerFlow
<1>4. \A q \in Player : q # p => Untouched(q)
  BY <1>0 DEF Untouched, TypeInv
<1>5. ASSUME NEW c \in rest, NEW d \in pending[p], c.op < d.op PROVE d \in rest
  <2>1. c.op \in Nat /\ d.op \in Nat /\ c.op > Head(down[p]).op
    BY <1>1, <1>3 DEF Command
  <2>2. Head(down[p]).op \in Nat
    <3>1. 1 \in DOMAIN down[p] /\ Head(down[p]) = down[p][1]
      BY <1>1, HeadTail
    <3>. QED
      BY <1>1, <3>1 DEF Flow
  <2>. QED
    BY <1>5, <2>1, <2>2
<1>6. \A k \in DOMAIN Tail(down[p]) : k + 1 \in DOMAIN down[p] /\ Tail(down[p])[k] = down[p][k + 1]
  BY <1>1, HeadTail
<1>7. \A k \in DOMAIN down'[p] : \A c \in pending[p] : c.op = down'[p][k].op =>
        /\ down'[p][k].kind = "commit" => executed[c.intent] = 1
        /\ down'[p][k].kind = "stale" => executed[c.intent] = 0
  BY <1>0, <1>1, <1>6 DEF AnswerInv
<1>. QED
  BY <1>0, <1>1, <1>4, <1>5, <1>7, QuietOnce DEF AnswerInv

\* What the oldest answer says is so.
LEMMA AnswerTrue ==
  ASSUME ShapeInv, OnceInv, NEW p \in Player, link[p] = "open", down[p] # <<>>,
         NEW c \in pending[p], c.op = Head(down[p]).op
  PROVE  /\ Head(down[p]).kind = "commit" => executed[c.intent] = 1
         /\ Head(down[p]).kind = "stale" => executed[c.intent] = 0
<1>1. 1 \in DOMAIN down[p] /\ Head(down[p]) = down[p][1]
  <2>1. down[p] \in Seq(Message)
    BY DEF ShapeInv, TypeInv
  <2>. QED
    BY <2>1, HeadTail
<1>. QED
  BY <1>1 DEF OnceInv, AnswerInv

LEMMA ReceiveCommitOnce == ASSUME ShapeInv, OnceInv, NEW p \in Player, ReceiveCommit(p) PROVE OnceInv'
<1>. DEFINE rest == pending[p] \ Answered(p, Head(down[p]))
<1>1. /\ down[p] # <<>> /\ link[p] = "open" /\ Head(down[p]).kind = "commit"
      /\ UNCHANGED <<session, maxOp, receipts, issued, link, opened, nextOp, up, claim, executed>>
      /\ pending' = [pending EXCEPT ![p] = rest]
      /\ down' = [down EXCEPT ![p] = Tail(@)]
      /\ outcome' = [i \in Intent |->
           IF \E c \in Answered(p, Head(down[p])) : c.intent = i THEN "committed" ELSE outcome[i]]
  BY DEF ReceiveCommit, ledgerVars
<1>2. \A c \in pending[p] : c \in rest <=> c.op # Head(down[p]).op
  BY <1>1, AnswerSession DEF Answered
<1>3. \A c \in Answered(p, Head(down[p])) : executed[c.intent] = 1
  BY <1>1, AnswerTrue DEF Answered
<1>4. \A i \in Intent : outcome'[i] = "committed" => outcome[i] = "committed" \/ executed[i] = 1
  BY <1>1, <1>3
<1>5. rest \in SUBSET pending[p]
  OBVIOUS
<1>. HIDE DEF rest
<1>. QED
  BY <1>1, <1>2, <1>4, <1>5, SettleOnce

LEMMA ReceiveRejectedOnce == ASSUME ShapeInv, OnceInv, NEW p \in Player, ReceiveRejected(p) PROVE OnceInv'
<1>. DEFINE rest == pending[p] \ {c \in pending[p] : c.op = Head(down[p]).op}
<1>1. /\ down[p] # <<>> /\ link[p] = "open"
      /\ UNCHANGED <<session, maxOp, receipts, issued, link, opened, nextOp, up, claim, executed>>
      /\ pending' = [pending EXCEPT ![p] = rest]
      /\ down' = [down EXCEPT ![p] = Tail(@)]
      /\ \A i \in Intent : outcome'[i] = "committed" => outcome[i] = "committed" \/ executed[i] = 1
  BY DEF ReceiveRejected, ledgerVars
<1>2. (\A c \in pending[p] : c \in rest <=> c.op # Head(down[p]).op) /\ rest \in SUBSET pending[p]
  OBVIOUS
<1>. HIDE DEF rest
<1>. QED
  BY <1>1, <1>2, SettleOnce

\* A command under the current session and a new id has no receipt and is new.
LEMMA SendOnce ==
  ASSUME ShapeInv, OnceInv, NEW p \in Player, \A q \in Player : q # p => Untouched(q),
         UNCHANGED <<issued, executed>>, UNCHANGED <<session[p], maxOp[p], receipts[p], link[p]>>,
         link[p] = "open", NEW r \in Command, r.op = nextOp[p], r.session = session[p],
         executed[r.intent] = 0,
         NEW rest \in SUBSET pending[p], pending'[p] = rest \cup {r},
         \A c \in rest, d \in pending[p] : c.op < d.op => d \in rest,
         up'[p] = IF claim[p] = "live" THEN Append(up[p], r) ELSE up[p],
         \A k \in DOMAIN down'[p] : \E j \in DOMAIN down[p] : down'[p][k] = down[p][j],
         \A i \in Intent : outcome'[i] = "committed" => outcome[i] = "committed"
  PROVE  OnceInv'
<1>0. TypeInv /\ Shape(p) /\ Once(p) /\ EditsTakeEffectOnce
  BY DEF ShapeInv, Shape, OnceInv, Once
<1>1. /\ maxOp[p] < nextOp[p] /\ maxOp[p] \in Nat /\ nextOp[p] \in Nat
      /\ Flow(nextOp[p], down[p], pending[p], up[p], claim[p] = "live")
      /\ up[p] \in Seq(Command) /\ receipts[p] \in Seq(Kept)
  BY <1>0 DEF Shape, LinkInv, FlowInv, TypeInv
<1>2. EditsTakeEffectOnce'
  BY <1>0 DEF EditsTakeEffectOnce, ExecutedAtMostOnce, CommittedWasExecuted
<1>3. ReceiptInv(p)'
  BY <1>0 DEF Once, ReceiptInv, Matches
<1>4. \A i \in DOMAIN receipts[p] : ~Matches(receipts[p][i], r)
  <2>1. \A i \in DOMAIN receipts[p] : receipts[p][i].session = session[p] => receipts[p][i].op <= maxOp[p]
    BY <1>0 DEF Once, ReceiptInv
  <2>2. \A i \in DOMAIN receipts[p] : receipts[p][i].op \in Nat
    <3>1. \A i \in DOMAIN receipts[p] : receipts[p][i] \in Kept
      BY <1>1
    <3>. QED
      BY <3>1 DEF Kept
  <2>. QED
    BY <1>1, <2>1, <2>2 DEF Matches
<1>5. RetainedInv(p)'
  BY <1>0, <1>4 DEF Once, RetainedInv, HasReceipt, Matches
<1>6. AnswerInv(p)'
  <2>1. \A k \in DOMAIN up'[p] : (k \in DOMAIN up[p] /\ up'[p][k] = up[p][k]) \/ up'[p][k] = r
    BY <1>1, Appended
  <2>2. \A k \in DOMAIN up'[p] : up'[p][k].session = session[p] => executed[up'[p][k].intent] = 0
    BY <1>0, <2>1 DEF Once, AnswerInv
  <2>3. ASSUME NEW k, k \in DOMAIN down'[p], NEW c \in rest \cup {r}, c.op = down'[p][k].op
        PROVE  /\ down'[p][k].kind = "commit" => executed[c.intent] = 1
               /\ down'[p][k].kind = "stale" => executed[c.intent] = 0
    <3>1. PICK j \in DOMAIN down[p] : down'[p][k] = down[p][j]
      BY <2>3
    <3>2. down[p][j].op < nextOp[p] /\ down[p][j].op \in Nat
      BY <1>1 DEF Flow
    <3>3. c \in rest
      BY <1>1, <2>3, <3>1, <3>2
    <3>. QED
      BY <1>0, <2>3, <3>1, <3>3 DEF Once, AnswerInv
  <2>. QED
    BY <2>2, <2>3 DEF AnswerInv
<1>. QED
  BY <1>2, <1>3, <1>5, <1>6, OnceStep DEF Once

LEMMA SubmitOnce ==
  ASSUME ShapeInv, OnceInv, NEW p \in Player, NEW i \in Intent, NEW a \in Action, Submit(p, i, a)
  PROVE  OnceInv'
<1>0. TypeInv /\ Shape(p)
  BY DEF ShapeInv, Shape
<1>. DEFINE c == [op |-> nextOp[p], session |-> opened[p], action |-> a, intent |-> i]
<1>1. /\ UNCHANGED <<session, maxOp, receipts, issued, link, opened, down, claim, executed>>
      /\ link[p] = "open" /\ outcome[i] = "none"
      /\ pending'[p] = pending[p] \cup {c} /\ up'[p] = Sent(p, <<c>>)
      /\ outcome' = [outcome EXCEPT ![i] = "pending"]
  BY <1>0 DEF Submit, ledgerVars, TypeInv
<1>2. c \in Command /\ opened[p] = session[p]
  BY <1>0, <1>1 DEF Shape, LinkInv, TypeInv, Command
<1>3. up'[p] = IF claim[p] = "live" THEN Append(up[p], c) ELSE up[p]
  BY <1>0, <1>1, <1>2, SentIs
<1>4. c.op = nextOp[p] /\ c.session = session[p] /\ c.intent = i
  BY <1>2
<1>5. \A q \in Player : q # p => Untouched(q)
  BY <1>0, <1>1 DEF Submit, Untouched, TypeInv
<1>. HIDE DEF c
<1>6. executed[c.intent] = 0
  BY <1>1, <1>4 DEF ShapeInv, IntentInv
<1>7. \A j \in Intent : outcome'[j] = "committed" => outcome[j] = "committed"
  BY <1>0, <1>1 DEF TypeInv
<1>8. (\A k \in DOMAIN down'[p] : \E j \in DOMAIN down[p] : down'[p][k] = down[p][j]) /\ pending[p] \in SUBSET pending[p]
  BY <1>1
<1>. QED
  BY <1>1, <1>2, <1>3, <1>4, <1>5, <1>6, <1>7, <1>8, SendOnce

LEMMA ReceiveStaleOnce == ASSUME ShapeInv, OnceInv, NEW p \in Player, ReceiveStale(p) PROVE OnceInv'
<1>0. TypeInv /\ Shape(p)
  BY DEF ShapeInv, Shape
<1>1. PICK c, r : Reissues(p, c, r)
  BY ReceiveStaleIs
<1>2. /\ c \in Command /\ r \in Command /\ r.op = nextOp[p] /\ r.session = session[p] /\ r.intent = c.intent
      /\ c \in pending[p] /\ link[p] = "open" /\ down[p] # <<>> /\ c.op = Head(down[p]).op
      /\ Head(down[p]).kind = "stale"
  BY <1>1, ReissueType DEF Reissues
<1>. DEFINE rest == pending[p] \ {c}
<1>3. /\ pending'[p] = rest \cup {r} /\ down'[p] = Tail(down[p]) /\ up'[p] = Sent(p, <<r>>)
      /\ UNCHANGED <<issued, executed>> /\ UNCHANGED <<session[p], maxOp[p], receipts[p], link[p]>>
      /\ outcome' = outcome
  BY <1>0, <1>1 DEF Reissues, TypeInv
<1>4. up'[p] = IF claim[p] = "live" THEN Append(up[p], r) ELSE up[p]
  BY <1>0, <1>2, <1>3, SentIs
<1>5. executed[r.intent] = 0
  BY <1>2, AnswerTrue
<1>6. /\ down[p] \in Seq(Message) /\ pending[p] \subseteq Command
      /\ Flow(nextOp[p], down[p], pending[p], up[p], claim[p] = "live")
  BY <1>0, <1>2 DEF TypeInv, Shape, FlowInv
<1>7. \A d \in rest : d.op \in Nat /\ d.op # Head(down[p]).op
  BY <1>0, <1>2, <1>6 DEF Shape, PendingInv, Command
<1>8. rest \in SUBSET pending[p] /\ (\A d \in pending[p] : d.op # c.op => d \in rest)
  OBVIOUS
<1>. HIDE DEF rest
<1>9. \A d \in rest : d.op > c.op
  BY <1>2, <1>6, <1>7, <1>8, AnswerFlow
<1>10. \A d \in rest, e \in pending[p] : d.op < e.op => e \in rest
  <2>1. c.op \in Nat /\ \A e \in pending[p] : e.op \in Nat
    BY <1>2, <1>6 DEF Command
  <2>. QED
    BY <1>8, <1>9, <2>1
<1>11. \A k \in DOMAIN down'[p] : \E j \in DOMAIN down[p] : down'[p][k] = down[p][j]
  BY <1>2, <1>3, <1>6, HeadTail
<1>12. \A q \in Player : q # p => Untouched(q)
  BY <1>0, <1>1 DEF Untouched, TypeInv, Reissues
<1>. QED
  BY <1>2, <1>3, <1>4, <1>5, <1>8, <1>10, <1>11, <1>12, SendOnce

-----------------------------------------------------------------------------
(* The service, with enough receipts.                                      *)

\* The head of a connection whose transport still listens is unanswered.
LEMMA ServedCommand ==
  ASSUME ShapeInv, NEW p \in Player, up[p] # <<>>
  PROVE  /\ Head(up[p]) \in Command /\ 1 \in DOMAIN up[p] /\ Head(up[p]) = up[p][1]
         /\ \A k \in DOMAIN Tail(up[p]) : /\ k + 1 \in DOMAIN up[p] /\ Tail(up[p])[k] = up[p][k + 1]
                                          /\ up[p][k + 1].intent # Head(up[p]).intent
         /\ Head(up[p]) \in pending[p] \/ (pending[p] = {} /\ link[p] # "open")
         /\ Head(up[p]).intent \in Intents(p)
         /\ link[p] = "open" => \A k \in DOMAIN down[p] :
              down[p][k].op < Head(up[p]).op /\ down[p][k].op \in Nat
<1>1. up[p] \in Seq(Command) /\ UpInv(p) /\ FlowInv(p)
  BY DEF ShapeInv, TypeInv
<1>2. /\ Head(up[p]) \in Command /\ 1 \in DOMAIN up[p] /\ Head(up[p]) = up[p][1]
      /\ \A k \in DOMAIN Tail(up[p]) : k \in Nat /\ k >= 1 /\ k + 1 \in DOMAIN up[p] /\ Tail(up[p])[k] = up[p][k + 1]
  BY <1>1, HeadTail
<1>3. \A k \in DOMAIN Tail(up[p]) : up[p][k + 1].intent # up[p][1].intent
  BY <1>1, <1>2 DEF UpInv
<1>4. Head(up[p]) \in pending[p] \/ (pending[p] = {} /\ link[p] # "open")
  BY <1>1, <1>2 DEF UpInv
<1>5. Head(up[p]).intent \in Intents(p)
  BY <1>2 DEF Intents
<1>6. link[p] = "open" => \A k \in DOMAIN down[p] : down[p][k].op < Head(up[p]).op /\ down[p][k].op \in Nat
  BY <1>1, <1>2 DEF FlowInv, Flow
<1>. QED
  BY <1>2, <1>3, <1>4, <1>5, <1>6

\* A command is answered from what the ledger already knows.
LEMMA AnswerOnce ==
  ASSUME ShapeInv, OnceInv, NEW p \in Player, NEW kind \in {"commit", "stale", "rejected"}, Reply(p, kind),
         UNCHANGED <<ledgerVars, executed>>,
         kind = "commit" => Stored(p, Head(up[p])), kind = "stale" => ~Stored(p, Head(up[p]))
  PROVE  OnceInv'
<1>0. TypeInv /\ Shape(p) /\ Once(p) /\ EditsTakeEffectOnce
  BY DEF ShapeInv, Shape, OnceInv, Once
<1>. DEFINE c == Head(up[p])
            m == [kind |-> kind, op |-> c.op, session |-> c.session, intent |-> c.intent]
<1>1. /\ UNCHANGED <<link, opened, nextOp, pending, claim, outcome, session, maxOp, receipts, issued, executed>>
      /\ up[p] # <<>>
      /\ up' = [up EXCEPT ![p] = Tail(@)]
      /\ down' = [down EXCEPT ![p] = IF claim[p] = "live" THEN Append(@, m) ELSE @]
  BY DEF Reply, clientVars, ledgerVars
<1>2. /\ up'[p] = Tail(up[p]) /\ down'[p] = IF claim[p] = "live" THEN Append(down[p], m) ELSE down[p]
      /\ down[p] \in Seq(Message)
  BY <1>0, <1>1 DEF TypeInv
<1>3. /\ c \in Command
      /\ c \in pending[p] \/ link[p] # "open"
      /\ \A k \in DOMAIN Tail(up[p]) : k + 1 \in DOMAIN up[p] /\ Tail(up[p])[k] = up[p][k + 1]
  BY <1>1, ServedCommand
<1>4. m.kind = kind /\ m.op = c.op /\ m \in Message
  BY <1>3 DEF Message, Command
<1>. HIDE DEF c, m
<1>5. \A q \in Player : q # p => Untouched(q)
  BY <1>0, <1>1 DEF Untouched, TypeInv
<1>6. \A k \in DOMAIN up'[p] : up'[p][k].session = session[p] => executed[up'[p][k].intent] = 0
  BY <1>0, <1>2, <1>3 DEF Once, AnswerInv
<1>7. ASSUME link[p] = "open", NEW k, k \in DOMAIN down'[p], NEW d \in pending[p], d.op = down'[p][k].op
      PROVE  /\ down'[p][k].kind = "commit" => executed[d.intent] = 1
             /\ down'[p][k].kind = "stale" => executed[d.intent] = 0
  <2>1. CASE k \in DOMAIN down[p] /\ down'[p][k] = down[p][k]
    BY <1>0, <1>7, <2>1 DEF Once, AnswerInv
  <2>2. CASE down'[p][k] = m
    <3>1. c \in pending[p] /\ d = c
      BY <1>0, <1>3, <1>4, <1>7, <2>2 DEF Shape, PendingInv
    <3>2. executed[d.intent] # 0 <=> Stored(p, d)
      BY <1>0 DEF Once, RetainedInv, Stored
    <3>3. executed[d.intent] \in Nat /\ executed[d.intent] <= 1
      BY <1>0 DEF TypeInv, Command, EditsTakeEffectOnce, ExecutedAtMostOnce
    <3>. QED
      BY <1>4, <2>2, <3>1, <3>2, <3>3 DEF c
  <2>3. (k \in DOMAIN down[p] /\ down'[p][k] = down[p][k]) \/ down'[p][k] = m
    <3>1. CASE claim[p] = "live"
      BY <1>2, <1>4, <1>7, <3>1, Appended
    <3>2. CASE claim[p] # "live"
      BY <1>2, <1>7, <3>2
    <3>. QED
      BY <3>1, <3>2
  <2>. QED
    BY <2>1, <2>2, <2>3
<1>. QED
  BY <1>1, <1>5, <1>6, <1>7, QuietOnce

\* Receipts of different unanswered edits are not more than those.
LEMMA FewReceipts ==
  ASSUME NEW t \in Seq(Kept), NEW i \in DOMAIN t, NEW X, IsFiniteSet(X),
         \A j, k \in DOMAIN t : j # k => ~Matches(t[j], t[k]),
         \A j \in DOMAIN t : i <= j => \E d \in X : Matches(t[j], d)
  PROVE  Len(t) - i + 1 <= Cardinality(X)
<1>0. i \in Nat /\ Len(t) \in Nat /\ i >= 1 /\ i <= Len(t) /\ DOMAIN t = 1..Len(t)
  OBVIOUS
<1>. DEFINE I == i..Len(t)
            f == [j \in I |-> CHOOSE d \in X : Matches(t[j], d)]
<1>1. \A j \in I : f[j] \in X /\ Matches(t[j], f[j])
  BY <1>0
<1>2. f \in Injection(I, X)
  <2>1. f \in [I -> X]
    BY <1>1
  <2>. HIDE DEF f
  <2>2. ASSUME NEW j \in I, NEW k \in I, f[j] = f[k] PROVE j = k
    <3>1. Matches(t[j], t[k])
      BY <1>1, <2>2 DEF Matches
    <3>. QED
      BY <1>0, <3>1
  <2>. QED
    BY <2>1, <2>2 DEF Injection, IsInjective
<1>3. IsFiniteSet(I) /\ Cardinality(I) = Len(t) - i + 1
  BY <1>0, FS_Interval
<1>. HIDE DEF I, f
<1>4. Cardinality(I) <= Cardinality(X)
  BY <1>2, <1>3, FS_Injection
<1>. QED
  BY <1>3, <1>4

\* The first execution of a command of the current session.
LEMMA ExecuteOnce ==
  ASSUME ShapeInv, OnceInv, Window <= Retained, NEW p \in Player, ServeExecute(p)
  PROVE  OnceInv'
<1>0. TypeInv /\ Shape(p) /\ Once(p) /\ EditsTakeEffectOnce
  BY DEF ShapeInv, Shape, OnceInv, Once
<1>. DEFINE c == Head(up[p])
            m == [kind |-> "commit", op |-> c.op, session |-> c.session, intent |-> c.intent]
<1>1. /\ UNCHANGED <<link, opened, nextOp, pending, claim, outcome>>
      /\ up[p] # <<>>
      /\ up' = [up EXCEPT ![p] = Tail(@)]
      /\ down' = [down EXCEPT ![p] = IF claim[p] = "live" THEN Append(@, m) ELSE @]
      /\ ~HasReceipt(receipts[p], c.session, c.op) /\ c.session = session[p]
      /\ Execute(p, c.op, c.action) /\ session[p] # None
      /\ executed' = [executed EXCEPT ![c.intent] = @ + 1]
  BY DEF ServeExecute, Reply, clientVars, Stored, Execute
<1>2. /\ up'[p] = Tail(up[p]) /\ down'[p] = IF claim[p] = "live" THEN Append(down[p], m) ELSE down[p]
      /\ down[p] \in Seq(Message) /\ receipts[p] \in Seq(Kept) /\ pending[p] \subseteq Command
      /\ maxOp[p] \in Nat
  BY <1>0, <1>1 DEF TypeInv
<1>3. /\ c \in Command /\ 1 \in DOMAIN up[p] /\ c = up[p][1]
      /\ \A k \in DOMAIN Tail(up[p]) : /\ k + 1 \in DOMAIN up[p] /\ Tail(up[p])[k] = up[p][k + 1]
                                       /\ up[p][k + 1].intent # c.intent
      /\ c \in pending[p] \/ (pending[p] = {} /\ link[p] # "open")
      /\ c.intent \in Intents(p)
      /\ link[p] = "open" => \A k \in DOMAIN down[p] : down[p][k].op < c.op /\ down[p][k].op \in Nat
  BY <1>1, ServedCommand
<1>4. c.op \in Nat /\ c.action \in Action /\ c.intent \in Intent /\ c.session \in Session
  BY <1>3 DEF Command
<1>5. m.op = c.op /\ m \in Message
  BY <1>4 DEF Message
<1>. HIDE DEF c, m
<1>6. PICK r \in Kept :
        /\ r.session = session[p] /\ r.op = c.op
        /\ receipts' = [receipts EXCEPT ![p] = Newest(Append(@, r))]
        /\ maxOp' = [maxOp EXCEPT ![p] = c.op]
        /\ UNCHANGED <<session, issued>>
  BY <1>0, <1>1, <1>4, ExecuteIs
<1>7. maxOp'[p] = c.op /\ receipts'[p] = Newest(Append(receipts[p], r))
  BY <1>0, <1>6 DEF TypeInv
<1>8. \A q \in Player : q # p => Untouched(q)
  BY <1>0, <1>1, <1>6 DEF Untouched, TypeInv
<1>9. c.op > maxOp[p] /\ executed[c.intent] = 0 /\ session[p] \in issued
  BY <1>0, <1>1, <1>3 DEF Shape, UpInv, LinkInv, Once, AnswerInv
<1>10. executed'[c.intent] = 1 /\ \A i \in Intent : i # c.intent => executed'[i] = executed[i]
  BY <1>0, <1>1, <1>4, <1>9 DEF TypeInv
<1>11. EditsTakeEffectOnce'
  BY <1>0, <1>1, <1>10 DEF EditsTakeEffectOnce, ExecutedAtMostOnce, CommittedWasExecuted
<1>12. \A d \in pending[p] : d # c => executed'[d.intent] = executed[d.intent] /\ d.op # c.op
  <2>1. \A d \in pending[p] : d # c => d.intent # c.intent /\ d.op # c.op /\ d.intent \in Intent
    BY <1>0, <1>2, <1>3 DEF Shape, PendingInv, Command
  <2>. QED
    BY <1>10, <2>1
\* The receipts before they are pruned.
<1>. DEFINE t == Append(receipts[p], r)
            l == Len(receipts[p])
<1>13. /\ t \in Seq(Kept) /\ DOMAIN receipts[p] = 1..l /\ l \in Nat /\ Len(t) = l + 1 /\ DOMAIN t = 1..l + 1
       /\ \A i \in DOMAIN receipts[p] : i \in DOMAIN t /\ t[i] = receipts[p][i]
       /\ t[l + 1] = r /\ \A i \in DOMAIN t : i # l + 1 => i \in DOMAIN receipts[p]
  BY <1>2, Appended
<1>. HIDE DEF t, l
<1>14. /\ \A i \in DOMAIN receipts[p] :
            /\ ~Matches(receipts[p][i], c)
            /\ receipts[p][i].session \in issued
            /\ receipts[p][i].session = session[p] => receipts[p][i].op < c.op
            /\ receipts[p][i].op \in Nat
       /\ \A i, j \in DOMAIN receipts[p] : i # j => ~Matches(receipts[p][i], receipts[p][j])
  <2>1. \A i \in DOMAIN receipts[p] : receipts[p][i] \in Kept /\ receipts[p][i].op \in Nat
    <3>1. \A i \in DOMAIN receipts[p] : receipts[p][i] \in Kept
      BY <1>2
    <3>. QED
      BY <3>1 DEF Kept
  <2>2. \A i \in DOMAIN receipts[p] : ~Matches(receipts[p][i], c)
    BY <1>1 DEF HasReceipt, Matches
  <2>. QED
    BY <1>0, <1>2, <1>4, <1>9, <2>1, <2>2 DEF Once, ReceiptInv
<1>15. /\ \A i \in DOMAIN t : t[i].session \in issued /\ (t[i].session = session[p] => t[i].op <= c.op)
       /\ \A i, j \in DOMAIN t : i # j => ~Matches(t[i], t[j])
  <2>1. Matches(r, c)
    BY <1>1, <1>6 DEF Matches
  <2>2. \A i \in DOMAIN t : t[i].session \in issued /\ (t[i].session = session[p] => t[i].op <= c.op)
    BY <1>4, <1>6, <1>9, <1>13, <1>14
  <2>3. ASSUME NEW i \in DOMAIN t, NEW j \in DOMAIN t, i # j PROVE ~Matches(t[i], t[j])
    <3>1. CASE i # l + 1 /\ j # l + 1
      BY <1>13, <1>14, <2>3, <3>1
    <3>2. CASE i = l + 1
      BY <1>13, <1>14, <2>1, <2>3, <3>2 DEF Matches
    <3>3. CASE j = l + 1
      BY <1>13, <1>14, <2>1, <2>3, <3>3 DEF Matches
    <3>. QED
      BY <3>1, <3>2, <3>3
  <2>. QED
    BY <2>2, <2>3
<1>16. \A d \in pending[p] : executed'[d.intent] # 0 <=> \E i \in DOMAIN t : Matches(t[i], d)
  <2>1. ASSUME NEW d \in pending[p], d # c
        PROVE  executed'[d.intent] # 0 <=> \E i \in DOMAIN t : Matches(t[i], d)
    <3>1. executed[d.intent] # 0 <=> \E i \in DOMAIN receipts[p] : Matches(receipts[p][i], d)
      BY <1>0 DEF Once, RetainedInv, HasReceipt, Matches
    <3>2. ~Matches(r, d)
      BY <1>6, <1>12, <2>1 DEF Matches
    <3>. QED
      BY <1>12, <1>13, <2>1, <3>1, <3>2
  <2>2. Matches(t[l + 1], c) /\ l + 1 \in DOMAIN t
    BY <1>1, <1>6, <1>13 DEF Matches
  <2>. QED
    BY <1>10, <2>1, <2>2
<1>17. ASSUME NEW d \in pending[p], NEW i \in DOMAIN t, NEW j \in DOMAIN t, i < j, Matches(t[i], d)
       PROVE  \E e \in pending[p] : Matches(t[j], e) /\ d.op < e.op
  <2>1. i \in DOMAIN receipts[p] /\ t[i] = receipts[p][i]
    BY <1>13, <1>17
  <2>2. CASE j # l + 1
    BY <1>0, <1>13, <1>17, <2>1, <2>2 DEF Once, RetainedInv
  <2>3. CASE j = l + 1
    <3>1. Matches(t[j], c) /\ c \in pending[p]
      BY <1>1, <1>3, <1>6, <1>13, <2>3 DEF Matches
    <3>2. CASE d.session = session[p]
      BY <1>14, <1>17, <2>1, <3>1, <3>2 DEF Matches
    <3>3. CASE d.session # session[p]
      BY <1>0, <1>1, <3>1, <3>3 DEF Shape, PendingInv
    <3>. QED
      BY <3>1, <3>2, <3>3
  <2>. QED
    BY <2>2, <2>3
\* None of them that is still asked for is pruned.
<1>18. PICK n \in Nat :
         /\ n = IF Len(t) <= Retained THEN 0 ELSE Len(t) - Retained
         /\ DOMAIN Newest(t) = 1..Len(t) - n
         /\ \A i \in DOMAIN Newest(t) : i + n \in DOMAIN t /\ Newest(t)[i] = t[i + n]
  BY <1>13, NewestIs
<1>19. ASSUME NEW d \in pending[p], NEW i \in DOMAIN t, Matches(t[i], d)
       PROVE  i - n \in DOMAIN Newest(t) /\ Newest(t)[i - n] = t[i]
  <2>1. \A j \in DOMAIN t : i <= j => \E e \in pending[p] : Matches(t[j], e)
    <3>1. \A j \in DOMAIN t : i <= j => i < j \/ i = j
      BY <1>13
    <3>. QED
      BY <1>17, <1>19, <3>1
  <2>2. IsFiniteSet(pending[p]) /\ Cardinality(pending[p]) <= Window /\ Cardinality(pending[p]) \in Nat
    BY <1>0, FS_CardinalityType DEF Shape, PendingInv
  <2>3. Len(t) - i + 1 <= Cardinality(pending[p])
    BY <1>13, <1>15, <2>1, <2>2, FewReceipts
  <2>4. Window \in Nat /\ Retained \in Nat
    BY WindowAssumption, RetainedAssumption
  <2>5. i > n /\ i \in Nat
    BY <1>13, <1>18, <2>2, <2>3, <2>4
  <2>6. i - n \in DOMAIN Newest(t) /\ i - n + n = i
    BY <1>13, <1>18, <2>5
  <2>. QED
    BY <1>18, <2>6
<1>. DEFINE kept == Newest(t)
<1>20. receipts'[p] = kept
  BY <1>7 DEF t
<1>21. /\ \A i \in DOMAIN kept : i \in Nat /\ i + n \in DOMAIN t /\ kept[i] = t[i + n]
       /\ \A d \in pending[p], i \in DOMAIN t : Matches(t[i], d) => \E j \in DOMAIN kept : kept[j] = t[i]
  BY <1>18, <1>19
<1>. HIDE DEF kept
<1>22. ReceiptInv(p)'
  <2>1. \A i \in DOMAIN kept : kept[i].session \in issued /\ (kept[i].session = session[p] => kept[i].op <= c.op)
    BY <1>15, <1>21
  <2>2. ASSUME NEW i \in DOMAIN kept, NEW j \in DOMAIN kept, i # j PROVE ~Matches(kept[i], kept[j])
    <3>1. i + n # j + n
      BY <1>21, <2>2
    <3>. QED
      BY <1>15, <1>21, <3>1
  <2>. QED
    BY <1>6, <1>7, <1>20, <2>1, <2>2 DEF ReceiptInv, Matches
<1>23. RetainedInv(p)'
  <2>1. \A d \in pending[p] : executed'[d.intent] # 0 <=> HasReceipt(kept, d.session, d.op)
    <3>1. \A d \in pending[p] : HasReceipt(kept, d.session, d.op) <=> \E i \in DOMAIN kept : Matches(kept[i], d)
      BY DEF HasReceipt, Matches
    <3>2. \A d \in pending[p] : (\E i \in DOMAIN kept : Matches(kept[i], d)) <=> \E i \in DOMAIN t : Matches(t[i], d)
      BY <1>21
    <3>. QED
      BY <1>16, <3>1, <3>2
  <2>2. ASSUME NEW d \in pending[p], NEW i \in DOMAIN kept, NEW j \in DOMAIN kept, i < j, Matches(kept[i], d)
        PROVE  \E e \in pending[p] : Matches(kept[j], e) /\ d.op < e.op
    <3>1. i + n < j + n
      BY <1>21, <2>2
    <3>. QED
      BY <1>17, <1>21, <2>2, <3>1
  <2>. QED
    BY <1>1, <1>20, <2>1, <2>2 DEF RetainedInv, Matches
<1>24. AnswerInv(p)'
  <2>1. \A k \in DOMAIN up'[p] : up'[p][k].session = session[p] => executed'[up'[p][k].intent] = 0
    <3>1. \A k \in DOMAIN up[p] : up[p][k].intent \in Intent
      <4>1. \A k \in DOMAIN up[p] : up[p][k] \in Command
        BY <1>0 DEF TypeInv
      <4>. QED
        BY <4>1 DEF Command
    <3>. QED
      BY <1>0, <1>2, <1>3, <1>10, <3>1 DEF Once, AnswerInv
  <2>2. ASSUME link[p] = "open", NEW k, k \in DOMAIN down'[p], NEW d \in pending[p], d.op = down'[p][k].op
        PROVE  /\ down'[p][k].kind = "commit" => executed'[d.intent] = 1
               /\ down'[p][k].kind = "stale" => executed'[d.intent] = 0
    <3>1. CASE k \in DOMAIN down[p] /\ down'[p][k] = down[p][k]
      <4>1. d # c
        BY <1>3, <1>4, <2>2, <3>1
      <4>. QED
        BY <1>0, <1>12, <2>2, <3>1, <4>1 DEF Once, AnswerInv
    <3>2. CASE down'[p][k] = m
      <4>1. d = c /\ m.kind = "commit"
        BY <1>5, <1>12, <2>2, <3>2 DEF m
      <4>. QED
        BY <1>10, <3>2, <4>1
    <3>3. (k \in DOMAIN down[p] /\ down'[p][k] = down[p][k]) \/ down'[p][k] = m
      <4>1. CASE claim[p] = "live"
        BY <1>2, <1>5, <2>2, <4>1, Appended
      <4>2. CASE claim[p] # "live"
        BY <1>2, <2>2, <4>2
      <4>. QED
        BY <4>1, <4>2
    <3>. QED
      BY <3>1, <3>2, <3>3
  <2>. QED
    BY <1>1, <1>6, <2>1, <2>2 DEF AnswerInv
<1>25. \A i \in Intent : executed'[i] = executed[i] \/ i \in Intents(p)
  BY <1>3, <1>10
<1>. QED
  BY <1>6, <1>8, <1>11, <1>22, <1>23, <1>24, <1>25, OnceStep DEF Once

-----------------------------------------------------------------------------
LEMMA OnceInit == RetryInit => OnceInv
BY DEF RetryInit, LedgerInit, OnceInv, EditsTakeEffectOnce, ExecutedAtMostOnce, CommittedWasExecuted,
       ReceiptInv, RetainedInv, AnswerInv

LEMMA OnceNext ==
  ASSUME Window <= Retained, ShapeInv, OnceInv, [RetryNext]_vars PROVE OnceInv'
<1>1. CASE UNCHANGED vars
  <2>1. /\ UNCHANGED <<session, maxOp, receipts, issued, link, opened, nextOp, pending, up, down>>
        /\ UNCHANGED <<claim, outcome, executed>>
    BY <1>1 DEF vars, ledgerVars, clientVars, wireVars, historyVars
  <2>. QED
    BY <2>1 DEF OnceInv, EditsTakeEffectOnce, ExecutedAtMostOnce, CommittedWasExecuted,
                ReceiptInv, RetainedInv, AnswerInv, HasReceipt, Matches
<1>2. ASSUME NEW p \in Player, Reconnect(p) PROVE OnceInv'
  <2>1. ASSUME DialFails(p) PROVE OnceInv'
    BY <2>1, ReconnectingOnce DEF DialFails
  <2>. QED
    BY <1>2, <2>1, VisitOnce, DialOnce DEF Reconnect
<1>3. ASSUME NEW p \in Player, Disconnect(p) \/ Reload(p) PROVE OnceInv'
  <2>1. Reconnecting(p) \/ Reload(p)
    BY <1>3 DEF Disconnect
  <2>2. /\ UNCHANGED <<ledgerVars, up, executed>> /\ (nextOp' = nextOp \/ Reload(p))
        /\ claim' = claim \/ claim' = [claim EXCEPT ![p] = IF @ = "live" THEN "orphan" ELSE @]
    BY <1>3 DEF Disconnect, Reload
  <2>. QED
    BY <2>1, <2>2, ReconnectingOnce
<1>4. ASSUME NEW p \in Player, Receive(p) PROVE OnceInv'
  BY <1>4, ReceiveOpenedOnce, ReceiveCommitOnce, ReceiveStaleOnce, ReceiveRejectedOnce DEF Receive
<1>5. ASSUME NEW p \in Player, Serve(p) PROVE OnceInv'
  <2>1. ASSUME ServeReplay(p) PROVE OnceInv'
    BY <2>1, AnswerOnce DEF ServeReplay
  <2>2. ASSUME ServeStale(p) PROVE OnceInv'
    BY <2>2, AnswerOnce DEF ServeStale
  <2>3. ASSUME ServeRejected(p) PROVE OnceInv'
    BY <2>3, AnswerOnce DEF ServeRejected
  <2>. QED
    BY <1>5, <2>1, <2>2, <2>3, ExecuteOnce DEF Serve
<1>. QED
  BY <1>1, <1>2, <1>3, <1>4, <1>5, EndSessionOnce, SubmitOnce DEF RetryNext

\* An edit takes effect at most once and a player who is told of a commit has
\* had one, however connections break and pages reload (handle_world_opened,
\* reissue_edit_after_session_rotation, persist_operation) - while a transport
\* leaves no more edits unanswered than the service keeps receipts.
THEOREM RetriesTakeEffectOnce ==
  ASSUME Window <= Retained
  PROVE  RetrySpec => []EditsTakeEffectOnce
<1>1. RetryInit => ShapeInv /\ OnceInv
  BY ShapeInit, OnceInit
<1>2. (ShapeInv /\ OnceInv) /\ [RetryNext]_vars => (ShapeInv /\ OnceInv)'
  BY ShapeNext, OnceNext
<1>3. ShapeInv /\ OnceInv => EditsTakeEffectOnce
  BY DEF OnceInv
<1>. QED
  BY <1>1, <1>2, <1>3, PTL DEF RetrySpec
=============================================================================
