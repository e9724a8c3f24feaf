---------------------------- MODULE PresenceProofs ---------------------------
(* Proofs about Presence: attachments, resumes, and what the observer is   *)
(* told of the others.                                                     *)
EXTENDS Presence, TLAPS

\* Connections are handed out once, so that a dead socket names no later claim.
Numbered ==
  /\ \A p \in Anybody : p \in Present => hub[p].conn <= connections
  /\ \A s \in Socket : sockets[s] # None => sockets[s].conn <= connections

\* A resume that would replace the one in the database carries a later body.
Ordered ==
  \A p \in Player :
    /\ durable[p].body.stamp <= poses[p]
    /\ p \in Present => hub[p].body.stamp <= poses[p]
    /\ opening[p] # None => opening[p].body.stamp <= poses[p]
    /\ opening[p] # None => opening[p].revision <= durable[p].revision
    /\ p \in Present /\ hub[p].revision > durable[p].revision
         => hub[p].body.stamp >= durable[p].body.stamp

IInv == PresenceTypeOK /\ Numbered /\ AttachmentsHaveOneSocket /\ Ordered

-----------------------------------------------------------------------------
\* The hub starts with the observer's claim, unattached, and nobody else.
LEMMA InitIInv == Init => IInv
<1> SUFFICES ASSUME Init PROVE IInv
  OBVIOUS
<1> USE PresenceAssumption
<1>1. PresenceTypeOK
  BY DEF Init, PresenceTypeOK, Claim, DefaultResume, ClaimType, Resume, Body, Place, Anybody
<1>2. Numbered
  BY DEF Init, Numbered, Present, Claim, Anybody
<1>3. AttachmentsHaveOneSocket
  BY DEF Init, AttachmentsHaveOneSocket, Belongs, Present, Claim, DefaultResume, Anybody
<1>4. Ordered
  BY DEF Init, Ordered, Present, DefaultResume, Anybody
<1> QED
  BY <1>1, <1>2, <1>3, <1>4 DEF IInv

-----------------------------------------------------------------------------
\* Loading a resume touches nothing but what the session will join with.
LEMMA LoadKeeps == ASSUME IInv, NEW p \in Player, Load(p) PROVE IInv'
<1> USE DEF IInv
<1>1. PresenceTypeOK'
  BY DEF Load, PresenceTypeOK, world, client, history
<1>2. Numbered' /\ AttachmentsHaveOneSocket'
  BY DEF Load, Numbered, AttachmentsHaveOneSocket, Belongs, Present, world, client, history
<1>3. Ordered'
  BY DEF Load, Ordered, Present, PresenceTypeOK, Resume, Body, world, client, history
<1> QED
  BY <1>1, <1>2, <1>3

\* A joining player gets a connection no socket has ever named.
LEMMA JoinKeeps == ASSUME IInv, NEW p \in Player, Join(p) PROVE IInv'
<1> USE DEF IInv
<1>1. p \in Anybody /\ opening[p] \in Resume
  BY DEF Join, PresenceTypeOK, Anybody
<1>2. CASE UNCHANGED <<hub, connections>>
  <2>1. PresenceTypeOK'
    BY <1>2 DEF Join, PresenceTypeOK, client, history
  <2>2. Numbered' /\ AttachmentsHaveOneSocket'
    BY <1>2 DEF Join, Numbered, AttachmentsHaveOneSocket, Belongs, Present, client, history
  <2>3. Ordered'
    BY <1>2 DEF Join, Ordered, Present, PresenceTypeOK, client, history
  <2> QED
    BY <2>1, <2>2, <2>3
<1>3. CASE /\ p \notin Present
           /\ connections' = connections + 1
           /\ hub' = [hub EXCEPT ![p] = Claim(connections + 1, opening[p])]
  <2>1. Claim(connections + 1, opening[p]) \in ClaimType
    BY <1>1 DEF PresenceTypeOK, Claim, ClaimType, Resume, Body
  <2>2. PresenceTypeOK'
    BY <1>1, <1>3, <2>1 DEF Join, PresenceTypeOK, client, history
  <2>3. hub'[p] = Claim(connections + 1, opening[p])
    BY <1>1, <1>3 DEF PresenceTypeOK
  <2>4. \A q \in Anybody : q # p => hub'[q] = hub[q]
    BY <1>3 DEF PresenceTypeOK
  <2>5. Numbered'
    <3>1. \A q \in Anybody : q \in Present' => hub'[q].conn <= connections'
      BY <1>3, <2>3, <2>4, <2>1
         DEF Numbered, Present, PresenceTypeOK, Claim, ClaimType
    <3>2. \A s \in Socket : sockets'[s] # None => sockets'[s].conn <= connections'
      BY <1>3 DEF Join, Numbered, PresenceTypeOK, Attachment
    <3> QED
      BY <3>1, <3>2 DEF Numbered
  <2>6. AttachmentsHaveOneSocket'
    <3>1. hub'[p].conn = connections + 1 /\ hub'[p].attached = FALSE
      BY <2>3 DEF Claim
    <3>2. \A s \in Socket : ~Belongs(s, p)'
      BY <3>1 DEF Belongs, Numbered, Join, PresenceTypeOK
    <3>3. \A q \in Anybody, s \in Socket : q # p => (Belongs(s, q)' <=> Belongs(s, q))
      BY <2>4 DEF Belongs, Present, Join
    <3>4. \A q \in Anybody : q # p => (q \in Present' <=> q \in Present)
      BY <2>4 DEF Present
    <3> QED
      BY <3>1, <3>2, <3>3, <3>4, <2>4 DEF AttachmentsHaveOneSocket
  <2>7. Ordered'
    <3>1. hub'[p].revision = opening[p].revision /\ hub'[p].body = opening[p].body
      BY <2>3 DEF Claim
    <3>2. ~(hub'[p].revision > durable[p].revision)
      BY <3>1, <1>1 DEF Ordered, Join, PresenceTypeOK, Resume
    <3>3. \A q \in Player : opening'[q] # None => opening'[q] = opening[q]
      BY DEF Join, PresenceTypeOK
    <3>4. UNCHANGED <<durable, poses>>
      BY DEF Join, history
    <3>5. ASSUME NEW q \in Player, q \in Present'
          PROVE /\ hub'[q].body.stamp <= poses'[q]
                /\ hub'[q].revision > durable'[q].revision
                     => hub'[q].body.stamp >= durable'[q].body.stamp
      <4>1. CASE q = p
        BY <4>1, <3>1, <3>2, <3>4 DEF Ordered, Join
      <4>2. CASE q # p
        BY <4>2, <3>5, <3>4, <2>4 DEF Ordered, Present, Anybody
      <4> QED
        BY <4>1, <4>2
    <3> QED
      BY <3>3, <3>4, <3>5 DEF Ordered
  <2> QED
    BY <2>2, <2>5, <2>6, <2>7
<1> QED
  BY <1>2, <1>3 DEF Join

\* Saving writes only what Newer lets through.
LEMMA SaveResumeKeeps == ASSUME IInv, NEW p \in Player, SaveResume(p) PROVE IInv'
<1> USE DEF IInv
<1> DEFINE resume == [revision |-> hub[p].revision, body |-> hub[p].body]
<1>1. /\ p \in Present
      /\ durable' = IF Newer(durable[p], resume) THEN [durable EXCEPT ![p] = resume] ELSE durable
      /\ UNCHANGED <<world, opening, sockets, poses>>
  BY DEF SaveResume, history
<1>2. p \in Anybody /\ resume \in Resume
  BY <1>1 DEF PresenceTypeOK, ClaimType, Resume, Anybody, Present
<1> HIDE DEF resume
<1>3. PresenceTypeOK'
  BY <1>1, <1>2 DEF PresenceTypeOK, world
<1>4. Numbered' /\ AttachmentsHaveOneSocket'
  BY <1>1 DEF Numbered, AttachmentsHaveOneSocket, Belongs, Present, world
<1>5. Ordered'
  <2>1. CASE Newer(durable[p], resume)
    <3>1. durable'[p] = resume /\ \A q \in Player : q # p => durable'[q] = durable[q]
      BY <1>1, <2>1 DEF PresenceTypeOK
    <3>2. resume.revision > durable[p].revision
      BY <2>1, <1>2 DEF Newer, PresenceTypeOK, Resume
    <3>3. resume.body.stamp <= poses[p]
      BY <1>1, <1>2, <3>2 DEF Ordered, resume
    <3>4. \A q \in Player : durable'[q].revision >= durable[q].revision
      BY <3>1, <3>2, <1>2 DEF PresenceTypeOK, Resume
    <3>5. \A q \in Player : opening'[q] # None => opening'[q].revision <= durable'[q].revision
      BY <1>1, <1>2, <3>1, <3>4 DEF Ordered, PresenceTypeOK, Resume
    <3>6. \A q \in Player : durable'[q].body.stamp <= poses'[q]
      BY <1>1, <3>1, <3>3 DEF Ordered
    <3>7. ASSUME NEW q \in Player, q \in Present', hub'[q].revision > durable'[q].revision
          PROVE hub'[q].body.stamp >= durable'[q].body.stamp
      <4>1. CASE q = p
        BY <4>1, <3>7, <3>1, <1>1, <1>2 DEF world, resume, Resume
      <4>2. CASE q # p
        BY <4>2, <3>7, <3>1, <1>1 DEF Ordered, world, Present
      <4> QED
        BY <4>1, <4>2
    <3>8. \A q \in Player :
            /\ q \in Present' => hub'[q].body.stamp <= poses'[q]
            /\ opening'[q] # None => opening'[q].body.stamp <= poses'[q]
      BY <1>1 DEF Ordered, world, Present
    <3> QED
      BY <3>5, <3>6, <3>7, <3>8 DEF Ordered
  <2>2. CASE ~Newer(durable[p], resume)
    BY <2>2, <1>1 DEF Ordered, world, Present
  <2> QED
    BY <2>1, <2>2
<1> QED
  BY <1>3, <1>4, <1>5

\* Leaving takes the claim away and nothing else.
LEMMA LeaveWorldKeeps == ASSUME IInv, NEW p \in Player, LeaveWorld(p) PROVE IInv'
<1> USE DEF IInv
<1>1. /\ hub' = [hub EXCEPT ![p] = None]
      /\ UNCHANGED <<connections, durable, opening, sockets, poses>>
  BY DEF LeaveWorld, history
<1>2. \A q \in Anybody : q \in Present' => q \in Present /\ hub'[q] = hub[q]
  BY <1>1 DEF PresenceTypeOK, Present, Anybody
<1>3. PresenceTypeOK'
  BY <1>1 DEF PresenceTypeOK
<1>4. Numbered'
  BY <1>1, <1>2 DEF Numbered
<1>5. \A q \in Anybody, s \in Socket : Belongs(s, q)' => Belongs(s, q) /\ hub'[q] = hub[q]
  BY <1>1, <1>2 DEF Belongs
<1>6. \A q \in Anybody, s \in Socket : q \in Present' /\ Belongs(s, q) => Belongs(s, q)'
  BY <1>1, <1>2 DEF Belongs
<1>7. AttachmentsHaveOneSocket'
  BY <1>2, <1>5, <1>6 DEF AttachmentsHaveOneSocket
<1>8. Ordered'
  BY <1>1, <1>2 DEF Ordered, Anybody
<1> QED
  BY <1>3, <1>4, <1>7, <1>8

\* A socket that attaches is the only one of its claim: the claim had none.
LEMMA AttachedKeeps ==
  ASSUME IInv, NEW p \in Anybody, NEW s \in Free, Attached(p, s),
         UNCHANGED <<connections, durable, opening, poses>>
  PROVE  IInv'
<1> USE DEF IInv
<1> DEFINE claim == [hub[p] EXCEPT !.attached = TRUE, !.jump = TRUE]
           ends == [player |-> p, conn |-> hub[p].conn]
<1>1. p \in Present /\ ~hub[p].attached /\ s \in Socket /\ sockets[s] = None
  BY DEF Attached, Free
<1>2. claim \in ClaimType /\ ends \in Attachment
  <2>1. hub[p] \in ClaimType
    BY <1>1 DEF PresenceTypeOK, Present
  <2>2. claim \in ClaimType
    BY <2>1 DEF ClaimType
  <2>3. ends \in Attachment
    BY <2>1 DEF ClaimType, Attachment
  <2> QED
    BY <2>2, <2>3
<1>3. /\ claim.conn = hub[p].conn /\ claim.attached = TRUE
      /\ claim.revision = hub[p].revision /\ claim.body = hub[p].body
  BY <1>1, <1>2 DEF PresenceTypeOK, ClaimType, Present
<1>4. ends.player = p /\ ends.conn = hub[p].conn
  OBVIOUS
<1>5. hub' = [hub EXCEPT ![p] = claim] /\ sockets' = [sockets EXCEPT ![s] = ends]
  BY DEF Attached
<1> HIDE DEF claim, ends
<1>6. PresenceTypeOK'
  BY <1>1, <1>2, <1>5 DEF PresenceTypeOK
<1>7. hub'[p] = claim /\ \A q \in Anybody : q # p => hub'[q] = hub[q]
  BY <1>5 DEF PresenceTypeOK
<1>8. sockets'[s] = ends /\ \A t \in Socket : t # s => sockets'[t] = sockets[t]
  BY <1>1, <1>5 DEF PresenceTypeOK
<1>9. \A q \in Anybody : q \in Present' => q \in Present /\ hub'[q].conn = hub[q].conn
  BY <1>1, <1>3, <1>7 DEF Present
<1>10. ends # None /\ p \in Present'
  <2>1. claim # None
    BY <1>2, PresenceAssumption
  <2> QED
    BY <2>1, <1>2, <1>7, PresenceAssumption DEF Present
<1>11. Numbered'
  BY <1>1, <1>4, <1>8, <1>9 DEF Numbered
<1>12. \A t \in Socket : ~Belongs(t, p)
  BY <1>1 DEF AttachmentsHaveOneSocket
<1>13. \A t \in Socket : Belongs(t, p)' <=> t = s
  BY <1>1, <1>3, <1>4, <1>7, <1>8, <1>10, <1>12 DEF Belongs
<1>14. \A q \in Anybody, t \in Socket : q # p => (Belongs(t, q)' <=> Belongs(t, q))
  BY <1>1, <1>4, <1>7, <1>8 DEF Belongs, Present
<1>15. AttachmentsHaveOneSocket'
  BY <1>1, <1>3, <1>7, <1>9, <1>13, <1>14 DEF AttachmentsHaveOneSocket
<1>16. Ordered'
  BY <1>3, <1>7, <1>9 DEF Ordered, Anybody
<1> QED
  BY <1>6, <1>11, <1>15, <1>16

\* A pose changes no attachment, and a body pose is later than every other.
LEMMA AcceptPoseKeeps ==
  ASSUME IInv, NEW s \in Socket, NEW place \in Place, NEW spectator \in BOOLEAN,
         AcceptPose(s, place, spectator)
  PROVE  IInv'
<1> USE DEF IInv
<1> DEFINE p == sockets[s].player
           was == hub[p]
           here == IF was.spectator /\ ~spectator THEN was.body.place ELSE place
           seq == was.seq + 1
           moved == [was EXCEPT !.seq = seq, !.place = here, !.spectator = spectator,
                                !.cell = here, !.jump = FALSE,
                                !.jumped = IF was.jump THEN seq ELSE @]
           walked == [moved EXCEPT !.body = [stamp |-> poses[p] + 1, place |-> here],
                                   !.revision = @ + 1]
           claim == IF spectator THEN moved ELSE walked
<1>1. /\ p \in Player /\ p \in Anybody /\ p \in Present
      /\ hub' = [hub EXCEPT ![p] = claim]
      /\ poses' = [poses EXCEPT ![p] = @ + 1]
      /\ UNCHANGED <<connections, durable, opening, sockets>>
  BY DEF AcceptPose, Speaks, resumes, Anybody
<1>2. was \in ClaimType
  BY <1>1 DEF PresenceTypeOK, Present
<1>3. here \in Place /\ poses[p] + 1 \in Nat /\ seq \in Nat
  BY <1>1, <1>2 DEF ClaimType, Body, PresenceTypeOK
<1> HIDE DEF here, seq
<1>4. moved \in ClaimType
  BY <1>2, <1>3 DEF ClaimType
<1>5. walked \in ClaimType
  <2> HIDE DEF moved
  <2>1. [stamp |-> poses[p] + 1, place |-> here] \in Body
    BY <1>3 DEF Body
  <2>2. moved.revision + 1 \in Nat
    BY <1>4 DEF ClaimType
  <2> QED
    BY <1>4, <2>1, <2>2 DEF ClaimType
<1>6. /\ moved.conn = was.conn /\ moved.attached = was.attached
      /\ moved.revision = was.revision /\ moved.body = was.body
  BY <1>2 DEF ClaimType
<1>7. /\ walked.conn = was.conn /\ walked.attached = was.attached
      /\ walked.body.stamp = poses[p] + 1
  BY <1>4, <1>6, <1>1 DEF ClaimType
<1>8. claim \in ClaimType /\ claim.conn = was.conn /\ claim.attached = was.attached
  BY <1>4, <1>5, <1>6, <1>7
<1>9. \/ claim.revision = was.revision /\ claim.body.stamp = was.body.stamp
      \/ claim.body.stamp = poses[p] + 1
  BY <1>6, <1>7
<1> HIDE DEF claim, moved, walked, was, p
<1>10. hub'[p] = claim /\ \A q \in Anybody : q # p => hub'[q] = hub[q]
  BY <1>1 DEF PresenceTypeOK
<1>11. PresenceTypeOK'
  BY <1>1, <1>8 DEF PresenceTypeOK
<1>12. p \in Present'
  BY <1>1, <1>8, <1>10, PresenceAssumption DEF Present
<1>13. \A q \in Anybody : /\ q \in Present' <=> q \in Present
                          /\ q \in Present => /\ hub'[q].conn = hub[q].conn
                                             /\ hub'[q].attached = hub[q].attached
  BY <1>1, <1>8, <1>10, <1>12 DEF Present, was
<1>14. \A q \in Anybody, t \in Socket : Belongs(t, q)' <=> Belongs(t, q)
  BY <1>1, <1>13 DEF Belongs
<1>15. Numbered' /\ AttachmentsHaveOneSocket'
  <2>1. Numbered'
    BY <1>1, <1>13 DEF Numbered
  <2>2. \A q \in Anybody, t \in Socket : Belongs(t, q) => q \in Present
    BY DEF Belongs
  <2> QED
    BY <2>1, <2>2, <1>1, <1>13, <1>14 DEF AttachmentsHaveOneSocket
<1>16. Ordered'
  <2>1. \A q \in Player : poses'[q] \in Nat /\ poses[q] \in Nat /\ poses'[q] >= poses[q]
    BY <1>1 DEF PresenceTypeOK
  <2>2. poses'[p] = poses[p] + 1
    BY <1>1 DEF PresenceTypeOK
  <2>3. ASSUME NEW q \in Player, q \in Present'
        PROVE  /\ hub'[q].body.stamp <= poses'[q]
               /\ hub'[q].revision > durable'[q].revision
                    => hub'[q].body.stamp >= durable'[q].body.stamp
    <3>1. q \in Present /\ durable[q].body.stamp <= poses[q] /\ hub[q].body.stamp <= poses[q]
      BY <2>3, <1>13 DEF Ordered, Anybody
    <3>2. durable[q].body.stamp \in Nat /\ hub[q].body.stamp \in Nat
      BY <3>1 DEF PresenceTypeOK, Resume, Body, Present, ClaimType, Anybody
    <3>3. CASE q = p
      BY <3>1, <3>2, <3>3, <1>1, <1>9, <1>10, <2>1, <2>2 DEF Ordered, was
    <3>4. CASE q # p
      BY <3>1, <3>2, <3>4, <1>1, <1>10, <2>1 DEF Ordered, Anybody
    <3> QED
      BY <3>3, <3>4
  <2>4. ASSUME NEW q \in Player
        PROVE  /\ durable'[q].body.stamp <= poses'[q]
               /\ opening'[q] # None => opening'[q].body.stamp <= poses'[q]
    <3>1. durable[q].body.stamp \in Nat
      BY DEF PresenceTypeOK, Resume, Body
    <3>2. opening[q] # None => opening[q].body.stamp \in Nat
      BY DEF PresenceTypeOK, Resume, Body
    <3> QED
      BY <3>1, <3>2, <1>1, <2>1 DEF Ordered
  <2> QED
    BY <1>1, <2>3, <2>4 DEF Ordered
<1> QED
  BY <1>11, <1>15, <1>16

\* A dying socket detaches the claim it was attached to, or nothing at all.
LEMMA DropAttachmentKeeps ==
  ASSUME IInv, NEW s \in Socket, DropAttachment(s) PROVE IInv'
<1> USE DEF IInv
<1>0. sockets[s] # None /\ sockets[s].player \in Anybody
  BY DEF DropAttachment, PresenceTypeOK, Attachment
<1>2. PICK p \in Anybody : p = sockets[s].player
  BY <1>0
<1> DEFINE claim == [hub[p] EXCEPT !.attached = FALSE, !.jump = TRUE, !.cell = None]
<1>1. /\ sockets[s] # None /\ sockets' = [sockets EXCEPT ![s] = None]
      /\ UNCHANGED <<connections, durable, opening, poses>>
      /\ IF IsOwner(s) THEN hub' = [hub EXCEPT ![p] = claim] ELSE hub' = hub
  BY <1>2 DEF DropAttachment, resumes, history
<1>3. \A t \in Socket : t # s => sockets'[t] = sockets[t]
  BY <1>1 DEF PresenceTypeOK
<1>4. sockets'[s] = None
  BY <1>1 DEF PresenceTypeOK
<1>5. CASE ~IsOwner(s)
  <2>1. hub' = hub
    BY <1>1, <1>5
  <2>2. PresenceTypeOK'
    BY <1>1, <2>1 DEF PresenceTypeOK
  <2>3. Numbered'
    BY <1>1, <1>3, <1>4, <2>1 DEF Numbered, Present
  <2>4. \A q \in Anybody : ~Belongs(s, q)
    BY <1>2, <1>5 DEF Belongs, IsOwner
  <2>5. \A q \in Anybody, t \in Socket : Belongs(t, q)' <=> Belongs(t, q)
    BY <1>3, <1>4, <2>1, <2>4 DEF Belongs, Present
  <2>6. AttachmentsHaveOneSocket'
    BY <2>1, <2>5 DEF AttachmentsHaveOneSocket, Present
  <2>7. Ordered'
    BY <1>1, <2>1 DEF Ordered, Present
  <2> QED
    BY <2>2, <2>3, <2>6, <2>7
<1>6. CASE IsOwner(s)
  <2>1. p \in Present /\ hub[p].conn = sockets[s].conn /\ hub[p] \in ClaimType
    BY <1>2, <1>6 DEF IsOwner, PresenceTypeOK, Present
  <2>2. claim \in ClaimType
    BY <2>1 DEF ClaimType
  <2>3. /\ claim.conn = hub[p].conn /\ claim.attached = FALSE
        /\ claim.revision = hub[p].revision /\ claim.body = hub[p].body
    BY <2>1 DEF ClaimType
  <2>4. hub' = [hub EXCEPT ![p] = claim]
    BY <1>1, <1>6
  <2> HIDE DEF claim
  <2>5. hub'[p] = claim /\ \A q \in Anybody : q # p => hub'[q] = hub[q]
    BY <1>2, <2>4 DEF PresenceTypeOK
  <2>6. PresenceTypeOK'
    BY <1>1, <1>2, <2>2, <2>4 DEF PresenceTypeOK
  <2>7. \A q \in Anybody : q \in Present' <=> q \in Present
    BY <2>1, <2>2, <2>5, PresenceAssumption DEF Present
  <2>8. Numbered'
    BY <1>1, <1>3, <1>4, <2>1, <2>3, <2>5, <2>7 DEF Numbered
  <2>9. Belongs(s, p)
    BY <1>1, <1>2, <2>1 DEF Belongs
  <2>10. \A t \in Socket : ~Belongs(t, p)'
    <3> SUFFICES ASSUME NEW t \in Socket, Belongs(t, p)' PROVE FALSE
      OBVIOUS
    <3>1. t # s
      BY <1>4 DEF Belongs
    <3>2. Belongs(t, p)
      BY <1>3, <2>1, <2>3, <2>5, <2>7, <3>1 DEF Belongs
    <3> QED
      BY <1>2, <2>9, <3>1, <3>2 DEF AttachmentsHaveOneSocket
  <2>11. \A q \in Anybody, t \in Socket : q # p => (Belongs(t, q)' <=> Belongs(t, q))
    BY <1>2, <1>3, <1>4, <2>5, <2>7 DEF Belongs
  <2>12. AttachmentsHaveOneSocket'
    BY <1>2, <2>3, <2>5, <2>7, <2>10, <2>11 DEF AttachmentsHaveOneSocket
  <2>13. Ordered'
    BY <1>1, <2>3, <2>5, <2>7 DEF Ordered, Anybody
  <2> QED
    BY <2>6, <2>8, <2>12, <2>13
<1> QED
  BY <1>5, <1>6

\* Every step keeps the invariant; replication and the client touch none of it.
LEMMA NextKeeps == ASSUME IInv, [Next]_vars PROVE IInv'
<1>1. CASE \E p \in Player : Load(p)
  BY <1>1, LoadKeeps
<1>2. CASE \E p \in Player : Join(p)
  BY <1>2, JoinKeeps
<1>3. CASE \E p \in Player : SaveResume(p)
  BY <1>3, SaveResumeKeeps
<1>4. CASE \E p \in Player : LeaveWorld(p)
  BY <1>4, LeaveWorldKeeps
<1>5. ASSUME NEW p \in Player, Attach(p) PROVE IInv'
  <2>1. (CHOOSE s \in Free : TRUE) \in Free
    BY <1>5 DEF Attach
  <2> QED
    BY <1>5, <2>1, AttachedKeeps DEF Attach, resumes, history, Anybody
<1>6. CASE Open
  <2>1. (CHOOSE s \in Free : TRUE) \in Free
    BY <1>6 DEF Open
  <2> QED
    BY <1>6, <2>1, AttachedKeeps DEF Open, resumes, history, Anybody
<1>7. ASSUME NEW s \in Socket, NEW pose \in Walk, AcceptPose(s, pose[1], pose[2]) PROVE IInv'
  <2>1. pose[1] \in Place /\ pose[2] \in BOOLEAN
    BY PresenceAssumption
  <2> QED
    BY <1>7, <2>1, AcceptPoseKeeps
<1>8. CASE \E s \in Socket : DropAttachment(s)
  BY <1>8, DropAttachmentKeeps
<1>9. CASE UNCHANGED <<hub, connections, durable, opening, sockets, poses>>
  BY <1>9 DEF IInv, PresenceTypeOK, Numbered, AttachmentsHaveOneSocket, Belongs, Ordered, Present
<1>10. CASE \/ \E s \in Socket, due \in SUBSET Player : Tick(s, due)
            \/ Disconnect \/ Receive \/ UNCHANGED vars
  BY <1>9, <1>10 DEF Tick, Disconnect, Receive, vars, world, resumes, history
<1> QED
  BY <1>1, <1>2, <1>3, <1>4, <1>5, <1>6, <1>7, <1>8, <1>10 DEF Next

-----------------------------------------------------------------------------
\* Attachments and live sockets of a claim match one to one, for any number of
\* players, connections and sockets that die in any order.
THEOREM OneSocketPerAttachment == Spec => []AttachmentsHaveOneSocket
<1>1. Spec => []IInv
  BY InitIInv, NextKeeps, PTL DEF Spec
<1> QED
  BY <1>1, PTL DEF IInv

\* No step replaces the resume in the database by an older body, whichever
\* sessions and sockets of the player are still winding down.
THEOREM ResumesAdvance == Spec => ResumeNeverGoesBack
<1>1. ASSUME IInv, [Next]_vars
      PROVE  [\A p \in Player : durable'[p].body.stamp >= durable[p].body.stamp]_vars
  <2>1. ASSUME NEW p \in Player, SaveResume(p)
        PROVE \A q \in Player : durable'[q].body.stamp >= durable[q].body.stamp
    <3> DEFINE resume == [revision |-> hub[p].revision, body |-> hub[p].body]
    <3>1. \A q \in Player : durable[q].body.stamp \in Nat
      BY <1>1 DEF IInv, PresenceTypeOK, Resume, Body
    <3>2. CASE Newer(durable[p], resume)
      <4>1. durable' = [durable EXCEPT ![p] = resume]
        BY <2>1, <3>2 DEF SaveResume
      <4>2. \A q \in Player : durable'[q] = IF q = p THEN resume ELSE durable[q]
        BY <4>1, <1>1 DEF IInv, PresenceTypeOK
      <4>3. hub[p].body.stamp >= durable[p].body.stamp
        <5>1. hub[p].revision \in Nat /\ durable[p].revision \in Nat
          BY <1>1, <2>1 DEF IInv, PresenceTypeOK, Resume, SaveResume, Present, ClaimType, Anybody
        <5> QED
          BY <5>1, <1>1, <2>1, <3>2 DEF IInv, Ordered, SaveResume, Newer
      <4> QED
        BY <4>2, <4>3, <3>1
    <3>3. CASE ~Newer(durable[p], resume)
      BY <2>1, <3>1, <3>3 DEF SaveResume
    <3> QED
      BY <3>2, <3>3
  <2>2. CASE UNCHANGED durable
    <3>1. \A q \in Player : durable[q].body.stamp \in Nat
      BY <1>1 DEF IInv, PresenceTypeOK, Resume, Body
    <3> QED
      BY <2>2, <3>1
  <2>3. (\E p \in Player : SaveResume(p)) \/ UNCHANGED durable
    BY <1>1 DEF Next, Load, Join, LeaveWorld, Attach, Open, AcceptPose, DropAttachment, Tick,
                Disconnect, Receive, vars, resumes
  <2> QED
    BY <2>1, <2>2, <2>3
<1>2. Spec => []IInv
  BY InitIInv, NextKeeps, PTL DEF Spec
<1> QED
  BY <1>1, <1>2, PTL DEF Spec, ResumeNeverGoesBack

-----------------------------------------------------------------------------
(* What the observer is told.                                              *)

\* The observer's client has at most one frame on its way, on the socket that
\* its claim is attached with; without a socket it knows nobody.
LinkInv ==
  /\ link \in Socket \cup {"waiting"}
  /\ link \in Socket => Belongs(link, Observer)
  /\ link \notin Socket => tracks = NoTracks /\ wire = <<>>
  /\ wire = <<>> \/ \E delta : wire = <<delta>>

\* No two players share a connection, and the last gap of a claim is known.
ClaimInv ==
  /\ \A p, q \in Present : hub[p].conn = hub[q].conn => p = q
  /\ \A p \in Present : hub[p].jumped <= hub[p].seq
GapInv ==
  /\ gaps \subseteq Nat \X Nat
  /\ \A g \in gaps : g[1] <= connections
  /\ \A p \in Present : \A g \in gaps : g[1] = hub[p].conn => g[2] <= hub[p].jumped

\* Tracks t belong to connections that were given out, one player each, are not
\* ahead of the claim and have no gap inside.
Gapless(track) == \A g \in gaps : g[1] = track.conn => ~(track.from < g[2] /\ g[2] <= track.seq)
Sound(t) ==
  /\ t \in [Player -> Track \cup {None}]
  /\ \A p \in Player : t[p] # None =>
       /\ t[p].conn <= connections
       /\ \A q \in Present : hub[q].conn = t[p].conn => q = p /\ t[p].seq <= hub[q].seq
       /\ \A q \in Player : t[q] # None /\ t[q].conn = t[p].conn => q = p
       /\ Gapless(t[p])

\* What the observer knows when the frame on its way has arrived.
Told == IF wire = <<>> THEN tracks ELSE Ingested(Head(wire))

SightInv ==
  /\ LinkInv /\ ClaimInv /\ GapInv /\ Sound(tracks) /\ Sound(Told)
  /\ link \in Socket => stream = ViewOf(Told)

LEMMA InitSight == Init => SightInv
<1> SUFFICES ASSUME Init PROVE SightInv
  OBVIOUS
<1> USE PresenceAssumption
<1>1. LinkInv /\ link \notin Socket
  BY DEF Init, LinkInv
<1>2. Present = {Observer} /\ hub[Observer] = Claim(0, DefaultResume)
  <2>1. Claim(0, DefaultResume) \in ClaimType
    BY DEF Claim, DefaultResume, ClaimType, Body, Place
  <2>2. Claim(0, DefaultResume) # None
    BY <2>1
  <2>3. hub = [p \in Anybody |-> IF p = Observer THEN Claim(0, DefaultResume) ELSE None]
    BY DEF Init
  <2> QED
    BY <2>2, <2>3 DEF Present, Anybody
<1>3. ClaimInv /\ GapInv
  BY <1>2 DEF Init, ClaimInv, GapInv, Claim
<1>4. Sound(NoTracks)
  BY DEF Sound, NoTracks
<1>5. tracks = NoTracks /\ Told = tracks
  BY DEF Init, Told
<1> QED
  BY <1>1, <1>3, <1>4, <1>5 DEF SightInv

\* The claims of those who are present go on, or are new.
Goes(p) == /\ p \in Present /\ hub'[p].conn = hub[p].conn
           /\ hub'[p].seq >= hub[p].seq
Starts(p) == hub'[p].conn = connections + 1 /\ connections' = connections + 1

\* Nothing that happens in the world makes a track unsound: new connections are
\* numbers no track has, and new gaps come after all that was told.
LEMMA SoundKept ==
  ASSUME PresenceTypeOK, PresenceTypeOK', Numbered, NEW t, Sound(t), connections <= connections',
         \A p \in Present' : Goes(p) \/ Starts(p),
         \A g \in gaps' : g \in gaps \/ \E q \in Present : g[1] = hub[q].conn /\ g[2] = hub[q].seq + 1
  PROVE  Sound(t)'
<1>1. \A p \in Present : hub[p].conn \in Nat /\ hub[p].seq \in Nat
  BY DEF Present, PresenceTypeOK, ClaimType
<1>2. \A p \in Present' : hub'[p].conn \in Nat /\ hub'[p].seq \in Nat
  BY DEF Present, PresenceTypeOK, ClaimType
<1>3. connections \in Nat /\ connections' \in Nat
  BY DEF PresenceTypeOK
<1>4. \A p \in Player : t[p] # None =>
        t[p].conn \in Nat /\ t[p].seq \in Nat /\ t[p].conn <= connections
  BY DEF Sound, Track
<1>5. ASSUME NEW p \in Player, t[p] # None, NEW q \in Present', hub'[q].conn = t[p].conn
      PROVE  q = p /\ t[p].seq <= hub'[q].seq
  <2>1. ~Starts(q)
    BY <1>3, <1>4, <1>5 DEF Starts
  <2>2. Goes(q)
    BY <2>1
  <2>. QED
    <3>1. q \in Present /\ hub[q].conn = t[p].conn /\ hub'[q].seq >= hub[q].seq
      BY <1>5, <2>2 DEF Goes
    <3>2. q = p /\ t[p].seq <= hub[q].seq
      BY <1>5, <3>1 DEF Sound
    <3>. QED
      BY <1>1, <1>2, <1>4, <1>5, <3>1, <3>2
<1>6. ASSUME NEW p \in Player, t[p] # None PROVE Gapless(t[p])'
  <2>. SUFFICES ASSUME NEW g \in gaps', g[1] = t[p].conn
                PROVE  ~(t[p].from < g[2] /\ g[2] <= t[p].seq)
    BY DEF Gapless
  <2>1. CASE g \in gaps
    BY <1>6, <2>1 DEF Sound, Gapless
  <2>2. CASE \E q \in Present : g[1] = hub[q].conn /\ g[2] = hub[q].seq + 1
    <3>1. PICK q \in Present : g[1] = hub[q].conn /\ g[2] = hub[q].seq + 1
      BY <2>2
    <3>2. t[p].seq <= hub[q].seq
      BY <1>6, <3>1 DEF Sound
    <3>. QED
      BY <1>1, <1>4, <1>6, <3>1, <3>2
  <2>. QED
    BY <2>1, <2>2
<1>7. \A p \in Player : t[p] # None => t[p].conn <= connections'
  BY <1>3, <1>4
<1>. QED
  BY <1>5, <1>6, <1>7 DEF Sound

\* A step of the world or of a socket that the observer does not see.
LEMMA UnseenKeeps ==
  ASSUME PresenceTypeOK, PresenceTypeOK', Numbered, SightInv,
         UNCHANGED <<stream, wire, link, tracks>>, connections <= connections',
         \A p \in Present' : Goes(p) \/ Starts(p),
         \A g \in gaps' : g \in gaps \/ \E q \in Present : g[1] = hub[q].conn /\ g[2] = hub[q].seq + 1,
         ClaimInv', GapInv', link \in Socket => Belongs(link, Observer)'
  PROVE  SightInv'
<1>1. PICK t : t = tracks
  OBVIOUS
<1>2. PICK u : u = Told
  OBVIOUS
<1>3. tracks' = t /\ Told' = u
  BY <1>1, <1>2 DEF Told, Ingested, Pushed
<1>4. Sound(t) /\ Sound(u)
  BY <1>1, <1>2 DEF SightInv
<1>5. Sound(t)' /\ Sound(u)'
  BY <1>4, SoundKept
<1>6. Sound(tracks)' /\ Sound(Told)'
  BY <1>3, <1>5 DEF Sound, Gapless
<1>7. LinkInv'
  BY DEF SightInv, LinkInv
<1>8. link' \in Socket => stream' = ViewOf(Told)'
  <2>1. ViewOf(Told)' = ViewOf(u) /\ ViewOf(Told) = ViewOf(u)
    BY <1>2, <1>3 DEF ViewOf
  <2>. QED
    BY <2>1 DEF SightInv
<1>. QED
  BY <1>6, <1>7, <1>8 DEF SightInv

\* What the claims say to the observer stays as it is.
Same(p) == /\ p \in Present /\ hub'[p].conn = hub[p].conn
           /\ hub'[p].seq = hub[p].seq /\ hub'[p].jumped = hub[p].jumped

LEMMA SteadyKeeps ==
  ASSUME IInv, IInv', SightInv, UNCHANGED <<stream, wire, link, tracks, connections, gaps>>,
         \A p \in Present' : Same(p), link \in Socket => Belongs(link, Observer)'
  PROVE  SightInv'
<1>1. ClaimInv'
  BY DEF SightInv, ClaimInv, Same
<1>2. GapInv'
  BY DEF SightInv, GapInv, Same
<1>3. \A p \in Present : hub[p].seq \in Nat
  BY DEF IInv, Present, PresenceTypeOK, ClaimType
<1>4. \A p \in Present' : Goes(p)
  BY <1>3 DEF Same, Goes
<1>5. connections <= connections'
  BY DEF IInv, PresenceTypeOK
<1>. QED
  BY <1>1, <1>2, <1>4, <1>5, UnseenKeeps DEF IInv

\* Sessions load, save and leave without a word to the observer.
LEMMA SightSession ==
  ASSUME IInv, IInv', SightInv, NEW p \in Player, Load(p) \/ SaveResume(p) \/ LeaveWorld(p)
  PROVE  SightInv'
<1>1. /\ UNCHANGED <<stream, wire, link, tracks, connections, gaps, sockets>>
      /\ hub' = hub \/ hub' = [hub EXCEPT ![p] = None]
  BY DEF Load, SaveResume, LeaveWorld, world, client, history
<1>2. p \in Anybody /\ p # Observer
  BY PresenceAssumption DEF Anybody
<1>3. \A q \in Anybody : q # p => hub'[q] = hub[q]
  BY <1>1 DEF IInv, PresenceTypeOK
<1>4. \A q \in Present' : Same(q)
  BY <1>1, <1>2, <1>3 DEF IInv, PresenceTypeOK, Present, Same
<1>5. link \in Socket => Belongs(link, Observer)'
  BY <1>1, <1>2, <1>3 DEF SightInv, LinkInv, Belongs, Present, Anybody
<1>. QED
  BY <1>1, <1>4, <1>5, SteadyKeeps

\* A player who joins has a connection that no track has.
LEMMA SightJoin ==
  ASSUME IInv, IInv', SightInv, NEW p \in Player, Join(p)
  PROVE  SightInv'
<1>1. p \in Anybody /\ p # Observer /\ UNCHANGED <<stream, wire, link, tracks, gaps, sockets>>
  BY PresenceAssumption DEF Join, client, history, Anybody
<1>2. CASE UNCHANGED <<hub, connections>>
  BY <1>1, <1>2, SteadyKeeps DEF Same, Present, SightInv, LinkInv, Belongs
<1>3. CASE /\ p \notin Present
           /\ connections' = connections + 1
           /\ hub' = [hub EXCEPT ![p] = Claim(connections + 1, opening[p])]
  <2>1. /\ hub'[p].conn = connections + 1 /\ hub'[p].seq = 0 /\ hub'[p].jumped = 0
        /\ \A q \in Anybody : q # p => hub'[q] = hub[q]
    BY <1>1, <1>3 DEF IInv, PresenceTypeOK, Claim
  <2>2. connections \in Nat /\ \A q \in Present : hub[q].conn \in Nat /\ hub[q].conn <= connections
    BY DEF IInv, PresenceTypeOK, Present, ClaimType, Numbered
  <2>3. \A q \in Present' : q # p => q \in Present /\ hub'[q] = hub[q]
    BY <2>1 DEF Present
  <2>4. ClaimInv'
    <3>1. \A q, u \in Present' : hub'[q].conn = hub'[u].conn => q = u
      <4>1. SUFFICES ASSUME NEW q \in Present', NEW u \in Present', hub'[q].conn = hub'[u].conn
                     PROVE  q = u
        OBVIOUS
      <4>2. CASE q # p /\ u # p
        BY <2>3, <4>1, <4>2 DEF SightInv, ClaimInv
      <4>3. q # p => hub'[q].conn # connections + 1
        BY <2>2, <2>3
      <4>4. u # p => hub'[u].conn # connections + 1
        BY <2>2, <2>3
      <4>. QED
        BY <2>1, <4>1, <4>2, <4>3, <4>4
    <3>2. \A q \in Present' : hub'[q].jumped <= hub'[q].seq
      BY <2>1, <2>3 DEF SightInv, ClaimInv
    <3>. QED
      BY <3>1, <3>2 DEF ClaimInv
  <2>5. GapInv'
    <3>1. \A g \in gaps : g \in Nat \X Nat /\ g[1] \in Nat /\ g[1] <= connections
      BY DEF SightInv, GapInv
    <3>2. \A q \in Present' : \A g \in gaps : g[1] = hub'[q].conn => g[2] <= hub'[q].jumped
      BY <2>1, <2>2, <2>3, <3>1 DEF SightInv, GapInv
    <3>. QED
      BY <1>1, <1>3, <2>2, <3>1, <3>2 DEF GapInv
  <2>6. \A q \in Present' : Goes(q) \/ Starts(q)
    <3>1. \A q \in Present : hub[q].seq \in Nat
      BY DEF IInv, Present, PresenceTypeOK, ClaimType
    <3>. QED
      BY <1>3, <2>1, <2>3, <3>1 DEF Goes, Starts
  <2>7. link \in Socket => Belongs(link, Observer)'
    BY <1>1, <2>1 DEF SightInv, LinkInv, Belongs, Present, Anybody
  <2>8. connections <= connections'
    BY <1>3, <2>2
  <2>. QED
    BY <1>1, <2>4, <2>5, <2>6, <2>7, <2>8, UnseenKeeps DEF IInv
<1>. QED
  BY <1>2, <1>3 DEF Join

\* A claim that is attached or detached says the same.
LEMMA SightAttached ==
  ASSUME IInv, IInv', NEW p \in Anybody, NEW s \in Free, Attached(p, s)
  PROVE  /\ \A q \in Present' : Same(q)
         /\ \A t \in Socket \ {s} : \A q : Belongs(t, q) /\ q \in Anybody => Belongs(t, q)'
         /\ Belongs(s, p)'
<1>1. /\ p \in Present /\ hub[p] \in ClaimType
      /\ hub' = [hub EXCEPT ![p] = [hub[p] EXCEPT !.attached = TRUE, !.jump = TRUE]]
      /\ sockets' = [sockets EXCEPT ![s] = [player |-> p, conn |-> hub[p].conn]]
      /\ s \in Socket
  BY DEF Attached, Free, IInv, PresenceTypeOK, Present
<1>2. /\ hub'[p].conn = hub[p].conn /\ hub'[p].seq = hub[p].seq /\ hub'[p].jumped = hub[p].jumped
      /\ \A q \in Anybody : q # p => hub'[q] = hub[q]
  BY <1>1 DEF IInv, PresenceTypeOK, ClaimType
<1>3. [hub[p] EXCEPT !.attached = TRUE, !.jump = TRUE] \in ClaimType
  BY <1>1 DEF ClaimType
<1>4. p \in Present'
  <2>1. hub'[p] \in ClaimType
    BY <1>1, <1>3 DEF IInv, PresenceTypeOK
  <2>. QED
    BY <2>1, PresenceAssumption DEF Present
<1>5. \A q \in Present' : Same(q)
  BY <1>1, <1>2 DEF Present, Same
<1>6. /\ \A t \in Socket \ {s} : sockets'[t] = sockets[t]
      /\ sockets'[s] = [player |-> p, conn |-> hub[p].conn]
  BY <1>1 DEF IInv, PresenceTypeOK
<1>7. \A t \in Socket \ {s} : \A q : Belongs(t, q) /\ q \in Anybody => Belongs(t, q)'
  BY <1>2, <1>4, <1>6 DEF Belongs, Present
<1>8. Belongs(s, p)'
  <2>1. sockets'[s].player = p /\ sockets'[s].conn = hub[p].conn
    BY <1>6
  <2>2. [player |-> p, conn |-> hub[p].conn] \in Attachment
    BY <1>1 DEF Attachment, ClaimType
  <2>3. sockets'[s] # None
    BY <1>6, <2>2, PresenceAssumption
  <2>. QED
    BY <1>2, <1>4, <2>1, <2>3 DEF Belongs
<1>. QED
  BY <1>5, <1>7, <1>8

LEMMA SightAttach ==
  ASSUME IInv, IInv', SightInv, NEW p \in Player, Attach(p)
  PROVE  SightInv'
<1>1. PICK s \in Free : Attached(p, s)
  BY DEF Attach
<1>2. p \in Anybody /\ Observer \in Anybody /\ (link \in Socket => link # s)
  BY <1>1 DEF Anybody, Free
<1>3. UNCHANGED <<stream, wire, link, tracks, connections, gaps>>
  BY DEF Attach, client, history
<1>4. link \in Socket => Belongs(link, Observer)'
  <2>1. SUFFICES ASSUME link \in Socket PROVE Belongs(link, Observer)'
    OBVIOUS
  <2>2. PICK t \in Socket \ {s} : t = link
    BY <1>2, <2>1
  <2>3. Belongs(t, Observer)
    BY <2>1, <2>2 DEF SightInv, LinkInv
  <2>4. Belongs(t, Observer)'
    BY <1>1, <1>2, <2>3, SightAttached
  <2>. QED
    BY <1>3, <2>2, <2>4 DEF Belongs
<1>. QED
  BY <1>1, <1>2, <1>3, <1>4, SightAttached, SteadyKeeps

\* The observer's socket is not the one that dies.
LEMMA SightDrop ==
  ASSUME IInv, IInv', SightInv, NEW s \in Socket, DropAttachment(s)
  PROVE  SightInv'
<1>1. /\ UNCHANGED <<stream, wire, link, tracks, connections, gaps>> /\ link # s
      /\ sockets' = [sockets EXCEPT ![s] = None] /\ sockets[s] # None
  BY DEF DropAttachment, client, history
<1>2. PICK p \in Anybody : p = sockets[s].player
  BY <1>1 DEF IInv, PresenceTypeOK, Attachment
<1>3. \/ hub' = hub
      \/ /\ p \in Present
         /\ hub' = [hub EXCEPT ![p] = [hub[p] EXCEPT !.attached = FALSE, !.jump = TRUE,
                                                      !.cell = None]]
  BY <1>2 DEF DropAttachment, IsOwner
<1>4. /\ \A q \in Present' : Same(q)
      /\ \A q \in Present : q \in Present' /\ hub'[q].conn = hub[q].conn
  <2>1. CASE hub' = hub
    BY <2>1 DEF Same, Present
  <2>2. CASE /\ p \in Present
             /\ hub' = [hub EXCEPT ![p] = [hub[p] EXCEPT !.attached = FALSE, !.jump = TRUE,
                                                          !.cell = None]]
    <3>1. hub[p] \in ClaimType
      BY <2>2 DEF IInv, PresenceTypeOK, Present
    <3>2. /\ hub'[p].conn = hub[p].conn /\ hub'[p].seq = hub[p].seq
          /\ hub'[p].jumped = hub[p].jumped
          /\ \A q \in Anybody : q # p => hub'[q] = hub[q]
      BY <2>2, <3>1 DEF IInv, PresenceTypeOK, ClaimType
    <3>3. hub'[p] \in ClaimType
      <4>1. [hub[p] EXCEPT !.attached = FALSE, !.jump = TRUE, !.cell = None] \in ClaimType
        BY <3>1 DEF ClaimType
      <4>. QED
        BY <2>2, <4>1 DEF IInv, PresenceTypeOK
    <3>4. p \in Present'
      BY <3>3, PresenceAssumption DEF Present
    <3>. QED
      BY <2>2, <3>2, <3>4 DEF Present, Same
  <2>. QED
    BY <1>3, <2>1, <2>2
<1>5. \A t \in Socket : t # s => sockets'[t] = sockets[t]
  BY <1>1 DEF IInv, PresenceTypeOK
<1>6. link \in Socket => Belongs(link, Observer)'
  BY <1>1, <1>4, <1>5 DEF SightInv, LinkInv, Belongs
<1>. QED
  BY <1>1, <1>4, <1>6, SteadyKeeps

\* A pose moves its claim on by one, and a gap before it is the last of all.
LEMMA SightPose ==
  ASSUME IInv, IInv', SightInv, NEW s \in Socket, NEW place \in Place, NEW spectator \in BOOLEAN,
         AcceptPose(s, place, spectator)
  PROVE  SightInv'
<1>1. PICK p \in Player : p = sockets[s].player /\ p \in Present
  BY DEF AcceptPose, Speaks
<1>. DEFINE was == hub[p]
            here == IF was.spectator /\ ~spectator THEN was.body.place ELSE place
            seq == was.seq + 1
            moved == [was EXCEPT !.seq = seq, !.place = here, !.spectator = spectator,
                                 !.cell = here, !.jump = FALSE,
                                 !.jumped = IF was.jump THEN seq ELSE @]
            walked == [moved EXCEPT !.body = [stamp |-> poses[p] + 1, place |-> here],
                                    !.revision = @ + 1]
            claim == IF spectator THEN moved ELSE walked
<1>2. /\ hub' = [hub EXCEPT ![p] = claim]
      /\ gaps' = IF was.jump THEN gaps \cup {<<was.conn, seq>>} ELSE gaps
      /\ UNCHANGED <<stream, wire, link, tracks, connections, sockets>>
  BY <1>1 DEF AcceptPose, client
<1>3. was \in ClaimType /\ p \in Anybody
  BY <1>1 DEF IInv, PresenceTypeOK, Present, Anybody
<1>4. /\ claim.conn = was.conn /\ claim.seq = seq
      /\ claim.jumped = IF was.jump THEN seq ELSE was.jumped
  <2>. HIDE DEF here, seq
  <2>1. /\ moved.conn = was.conn /\ moved.seq = seq
        /\ moved.jumped = IF was.jump THEN seq ELSE was.jumped
        /\ DOMAIN moved = DOMAIN was
    BY <1>3 DEF ClaimType
  <2>2. walked.conn = moved.conn /\ walked.seq = moved.seq /\ walked.jumped = moved.jumped
    <3>1. DOMAIN was = {"conn", "attached", "seq", "place", "spectator", "body", "revision",
                        "jump", "jumped", "cell"}
      BY <1>3 DEF ClaimType
    <3>. HIDE DEF moved, was
    <3>. QED
      BY <2>1, <3>1
  <2>. QED
    BY <2>1, <2>2
<1>5. was.conn \in Nat /\ was.seq \in Nat /\ was.jumped \in Nat /\ seq \in Nat /\ seq > was.seq
  BY <1>3 DEF ClaimType
<1>. HIDE DEF claim
<1>6. /\ hub'[p] = claim /\ \A q \in Anybody : q # p => hub'[q] = hub[q]
  BY <1>2, <1>3 DEF IInv, PresenceTypeOK
<1>7. was.jumped <= was.seq /\ was.conn <= connections
  BY <1>1, <1>3 DEF SightInv, ClaimInv, IInv, Numbered
<1>8. \A q \in Present' : q \in Present
  BY <1>1, <1>6 DEF Present
<1>9. ClaimInv'
  <2>1. \A q \in Present' : hub'[q].conn = hub[q].conn
    BY <1>4, <1>6 DEF Present
  <2>2. \A q \in Present' : hub'[q].jumped <= hub'[q].seq
    BY <1>4, <1>5, <1>6, <1>7, <1>8 DEF SightInv, ClaimInv, Present
  <2>. QED
    BY <1>8, <2>1, <2>2 DEF SightInv, ClaimInv
<1>10. \A g \in gaps' : g \in gaps \/ (g = <<was.conn, seq>> /\ was.jump)
  <2>1. gaps' = IF was.jump THEN gaps \cup {<<was.conn, seq>>} ELSE gaps
    BY <1>2
  <2>. HIDE DEF was, seq
  <2>. QED
    BY <2>1
<1>11. GapInv'
  <2>1. gaps' \subseteq Nat \X Nat
    BY <1>5, <1>10 DEF SightInv, GapInv
  <2>2. \A g \in gaps' : g[1] <= connections'
    BY <1>2, <1>7, <1>10 DEF SightInv, GapInv
  <2>3. ASSUME NEW q \in Present', NEW g \in gaps', g[1] = hub'[q].conn
        PROVE  g[2] <= hub'[q].jumped
    <3>1. CASE q = p /\ g \in gaps
      <4>1. g[2] <= was.jumped /\ g[2] \in Nat
        BY <1>1, <1>4, <1>6, <2>3, <3>1 DEF SightInv, GapInv
      <4>. QED
        BY <1>4, <1>5, <1>6, <1>7, <3>1, <4>1
    <3>2. CASE q = p /\ g \notin gaps
      BY <1>4, <1>5, <1>6, <1>10, <3>2
    <3>3. CASE q # p /\ g \in gaps
      BY <1>6, <1>8, <2>3, <3>3 DEF SightInv, GapInv, Present
    <3>4. CASE q # p /\ g \notin gaps
      <4>1. hub[q].conn = was.conn /\ q \in Present
        BY <1>6, <1>8, <1>10, <2>3, <3>4 DEF Present
      <4>2. q = p
        BY <1>1, <4>1 DEF SightInv, ClaimInv
      <4>. QED
        BY <3>4, <4>2
    <3>. QED
      BY <3>1, <3>2, <3>3, <3>4
  <2>. QED
    BY <2>1, <2>2, <2>3 DEF GapInv
<1>12. \A q \in Present' : Goes(q)
  <2>1. \A q \in Present : hub[q].seq \in Nat
    BY DEF IInv, PresenceTypeOK, Present, ClaimType
  <2>. QED
    BY <1>4, <1>5, <1>6, <1>8, <2>1 DEF Goes, Present
<1>13. \A g \in gaps' : g \in gaps \/ \E q \in Present : g[1] = hub[q].conn /\ g[2] = hub[q].seq + 1
  BY <1>1, <1>10
<1>14. link \in Socket => Belongs(link, Observer)'
  BY <1>2, <1>6, PresenceAssumption DEF SightInv, LinkInv, Belongs, Present, Anybody
<1>15. connections <= connections'
  BY <1>2 DEF IInv, PresenceTypeOK
<1>. QED
  BY <1>2, <1>9, <1>11, <1>12, <1>13, <1>14, <1>15, UnseenKeeps DEF IInv

\* Nothing told, nothing known.
LEMMA NobodyTold ==
  ASSUME SightInv, ClaimInv', GapInv', LinkInv', wire' = <<>>, tracks' = NoTracks,
         link' \in Socket => stream' = NewStream
  PROVE  SightInv'
<1>1. Sound(tracks)' /\ Told' = tracks'
  BY DEF Sound, NoTracks, Told
<1>2. Sound(Told)'
  BY <1>1 DEF Sound, Gapless
<1>3. ViewOf(Told)' = NewStream
  BY <1>1 DEF ViewOf, NoTracks, NewStream
<1>. QED
  BY <1>1, <1>2, <1>3 DEF SightInv

\* A new socket begins a new stream to a client that knows nobody.
LEMMA SightOpen ==
  ASSUME IInv, IInv', SightInv, Open
  PROVE  SightInv'
<1>1. PICK s \in Free : Attached(Observer, s) /\ link' = s
  BY DEF Open
<1>2. /\ link = "waiting" /\ stream' = NewStream /\ wire' = <<>> /\ tracks' = tracks
      /\ UNCHANGED <<connections, gaps>> /\ Observer \in Anybody /\ s \in Socket
  BY <1>1 DEF Open, history, Anybody, Free
<1>3. (\A q \in Present' : Same(q)) /\ Belongs(s, Observer)'
  BY <1>1, <1>2, SightAttached
<1>4. tracks' = NoTracks
  BY <1>2, PresenceAssumption DEF SightInv, LinkInv
<1>5. ClaimInv' /\ GapInv'
  BY <1>2, <1>3 DEF SightInv, ClaimInv, GapInv, Same
<1>6. Belongs(link, Observer)'
  BY <1>1, <1>3 DEF Belongs
<1>7. LinkInv'
  BY <1>1, <1>2, <1>6 DEF LinkInv
<1>. QED
  BY <1>2, <1>4, <1>5, <1>7, NobodyTold

LEMMA SightDisconnect ==
  ASSUME IInv, SightInv, Disconnect
  PROVE  SightInv'
<1>1. /\ link' = "waiting" /\ tracks' = NoTracks /\ wire' = <<>>
      /\ UNCHANGED <<hub, connections, gaps>>
  BY DEF Disconnect, world, history
<1>2. ClaimInv' /\ GapInv'
  BY <1>1 DEF SightInv, ClaimInv, GapInv, Present
<1>3. LinkInv' /\ link' \notin Socket
  BY <1>1, PresenceAssumption DEF LinkInv, NoTracks
<1>. QED
  BY <1>1, <1>2, <1>3, NobodyTold

\* The frame that arrives makes known what was told.
LEMMA SightReceive ==
  ASSUME IInv, SightInv, Receive
  PROVE  SightInv'
<1>1. /\ wire # <<>> /\ tracks' = Told /\ wire' = <<>>
      /\ UNCHANGED <<hub, connections, gaps, stream, link, sockets>>
  <2>1. PICK delta : wire = <<delta>>
    BY DEF Receive, SightInv, LinkInv
  <2>2. wire' = <<>>
    BY <2>1 DEF Receive
  <2>. QED
    BY <2>2 DEF Receive, Told, world, history
<1>2. ClaimInv' /\ GapInv'
  BY <1>1 DEF SightInv, ClaimInv, GapInv, Present
<1>3. Told' = Told
  BY <1>1 DEF Told
<1>4. Sound(tracks)' /\ Sound(Told)'
  BY <1>1, <1>3 DEF SightInv, Sound, Gapless, Present
<1>5. LinkInv'
  BY <1>1 DEF SightInv, LinkInv, Belongs, Present
<1>6. link' \in Socket => stream' = ViewOf(Told)'
  BY <1>1, <1>3 DEF SightInv, ViewOf
<1>. QED
  BY <1>2, <1>4, <1>5, <1>6 DEF SightInv

\* A delta to a client that has taken in everything before it.
LEMMA SightTick ==
  ASSUME IInv, SightInv, NEW s \in Socket, NEW due \in SUBSET Player, Tick(s, due), link = s
  PROVE  SightInv'
<1>1. PICK delta \in Deltas(due) : stream' = delta.known /\ wire' = <<Frame(delta)>>
  BY DEF Tick
<1>2. /\ wire = <<>> /\ stream = ViewOf(tracks) /\ Sound(tracks)
      /\ UNCHANGED <<hub, connections, gaps, sockets, link, tracks>>
  BY DEF Tick, world, client, history, SightInv, Told
<1>. DEFINE candidates == Candidates(stream)
            left == {p \in Player : stream[p] # None /\ ~(p \in candidates /\ SameClaim(p))}
            kept == [p \in Player |-> IF p \in left THEN None ELSE stream[p]]
            enters == {p \in candidates : kept[p] = None}
            news == {p \in candidates \ enters : hub[p].seq > stream[p].seq}
            jumps == {p \in news : Jumped(p)}
            pending == enters \cup jumps \cup (news \cap due)
            message(records) ==
              [leaves |-> {stream[p].conn : p \in left},
               enters |-> records \cap enters,
               updates |-> records \ enters,
               jumps |-> records \cap (enters \cup jumps),
               poses |-> [p \in records |-> [conn |-> hub[p].conn, seq |-> hub[p].seq]],
               known |-> [p \in Player |-> IF p \in records
                                           THEN [conn |-> hub[p].conn, seq |-> hub[p].seq]
                                           ELSE kept[p]]]
<1>3. PICK records \in SUBSET pending : delta = message(records)
  BY <1>1, Zenon DEF Deltas
<1>. HIDE DEF candidates, left, kept, enters, news, jumps, pending
<1>4. /\ delta.known = [p \in Player |-> IF p \in records
                                         THEN [conn |-> hub[p].conn, seq |-> hub[p].seq]
                                         ELSE kept[p]]
      /\ Frame(delta).leaves = {stream[p].conn : p \in left}
      /\ Frame(delta).enters = records \cap enters
      /\ Frame(delta).updates = records \ enters
      /\ Frame(delta).jumps = records \cap (enters \cup jumps)
      /\ Frame(delta).poses = [p \in records |-> [conn |-> hub[p].conn, seq |-> hub[p].seq]]
  BY <1>3 DEF Frame
<1>. DEFINE frame == Frame(delta)
            Stay(p) == IF p \in left THEN None ELSE tracks[p]
<1>5. /\ candidates \subseteq Player \cap Present /\ records \subseteq candidates
      /\ \A p \in records \ enters : p \in news /\ p \in candidates
      /\ \A p \in Present : hub[p] \in ClaimType /\ hub[p].conn <= connections
  <2>1. candidates \subseteq Player \cap Present
    BY DEF candidates, Candidates
  <2>2. enters \subseteq candidates /\ news \subseteq candidates
    BY DEF enters, news
  <2>3. \A p \in pending : p \in enters \/ p \in news
    BY DEF pending, jumps
  <2>4. \A p \in Present : hub[p] \in ClaimType /\ hub[p].conn <= connections
    BY DEF IInv, PresenceTypeOK, Present, Numbered
  <2>. QED
    BY <2>1, <2>2, <2>3, <2>4
<1>6. \A p \in Player :
        /\ tracks[p] = None => stream[p] = None
        /\ tracks[p] # None => /\ tracks[p] \in Track /\ stream[p] \in Known
                               /\ stream[p].conn = tracks[p].conn /\ stream[p].seq = tracks[p].seq
                               /\ stream[p] # None
                               /\ stream[p] = [conn |-> tracks[p].conn, seq |-> tracks[p].seq]
  BY <1>2, PresenceAssumption DEF ViewOf, Sound, Track, Known
<1>7. \A p \in Player : p \in left <=> tracks[p] # None /\ tracks[p].conn \in frame.leaves
  <2>1. \A p \in left : p \in Player /\ tracks[p] # None /\ tracks[p].conn = stream[p].conn
    BY <1>6 DEF left
  <2>2. ASSUME NEW p \in Player, tracks[p] # None, NEW q \in left, tracks[p].conn = stream[q].conn
        PROVE  p = q
    BY <1>2, <2>1, <2>2 DEF Sound
  <2>. HIDE DEF frame
  <2>3. \A c : c \in frame.leaves <=> \E q \in left : c = stream[q].conn
    BY <1>4 DEF frame
  <2>. QED
    BY <2>1, <2>2, <2>3
<1>8. \A p \in Player : /\ kept[p] = IF p \in left THEN None ELSE stream[p]
                        /\ kept[p] = None <=> Stay(p) = None
  BY <1>6 DEF kept
<1>9. \A p \in enters : Stay(p) = None
  BY <1>5, <1>8 DEF enters, candidates, Candidates
<1>10. ASSUME NEW p \in records \ enters
       PROVE  /\ p \in Player /\ p \in Present /\ Stay(p) = tracks[p] /\ tracks[p] # None
              /\ tracks[p].conn = hub[p].conn /\ tracks[p].seq < hub[p].seq
              /\ p \notin jumps => hub[p].jumped <= tracks[p].seq
  <2>1. p \in Player /\ p \in Present /\ p \in candidates /\ p \in news
    BY <1>5, <1>10
  <2>2. kept[p] # None
    BY <1>10, <2>1 DEF enters
  <2>3. p \notin left /\ tracks[p] # None
    BY <1>6, <1>8, <2>1, <2>2
  <2>4. stream[p].conn = hub[p].conn
    BY <1>6, <2>1, <2>3 DEF left, SameClaim
  <2>5. hub[p].seq > stream[p].seq /\ (p \notin jumps => ~(hub[p].jumped > stream[p].seq))
    BY <2>1 DEF news, jumps, Jumped
  <2>6. /\ hub[p].seq \in Nat /\ hub[p].jumped \in Nat /\ tracks[p].seq \in Nat
        /\ stream[p].seq = tracks[p].seq /\ stream[p].conn = tracks[p].conn
    BY <1>5, <1>6, <2>1, <2>3 DEF ClaimType, Track
  <2>. QED
    BY <2>1, <2>3, <2>4, <2>5, <2>6
<1>11. Told' = Ingested(frame)
  <2>1. wire' = <<frame>> /\ wire' # <<>> /\ Head(wire') = frame
    BY <1>1
  <2>. HIDE DEF frame
  <2>. QED
    BY <1>2, <2>1 DEF Told, Ingested, Pushed
<1>12. /\ frame.enters = records \cap enters /\ frame.updates = records \ enters
       /\ \A p \in records : /\ frame.poses[p].conn = hub[p].conn /\ frame.poses[p].seq = hub[p].seq
                             /\ p \in frame.jumps <=> p \in enters \/ p \in jumps
  BY <1>4
<1>. HIDE DEF frame
<1>13. DOMAIN Told' = Player /\ Told' = [p \in Player |-> Told'[p]]
  BY <1>11 DEF Ingested
<1>14. ASSUME NEW p \in Player
       PROVE  /\ p \in records /\ p \in enters =>
                    Told'[p] = [conn |-> hub[p].conn, from |-> hub[p].seq, seq |-> hub[p].seq]
              /\ p \in records /\ p \notin enters =>
                    Told'[p] = [conn |-> hub[p].conn,
                                from |-> IF p \in jumps THEN hub[p].seq ELSE tracks[p].from,
                                seq |-> hub[p].seq]
              /\ p \notin records => Told'[p] = Stay(p)
  <2>1. Stay(p) = IF tracks[p] # None /\ tracks[p].conn \in frame.leaves THEN None ELSE tracks[p]
    BY <1>7
  <2>. HIDE DEF Stay
  <2>2. CASE p \in records /\ p \in enters
    BY <1>9, <1>11, <1>12, <2>1, <2>2 DEF Ingested
  <2>3. CASE p \in records /\ p \notin enters
    <3>1. /\ Stay(p) = tracks[p] /\ tracks[p] # None /\ tracks[p].conn = hub[p].conn
          /\ tracks[p].seq < hub[p].seq /\ tracks[p].seq \in Nat /\ hub[p].seq \in Nat
      BY <1>5, <1>6, <1>10, <2>3 DEF Track, ClaimType
    <3>2. Told'[p] = Pushed(tracks[p], frame.poses[p], p \in frame.jumps)
      BY <1>11, <1>12, <2>1, <2>3, <3>1 DEF Ingested
    <3>3. ~(frame.poses[p].seq <= tracks[p].seq)
      BY <1>12, <2>3, <3>1
    <3>. QED
      BY <1>12, <2>3, <3>1, <3>2, <3>3 DEF Pushed
  <2>4. CASE p \notin records
    BY <1>11, <1>12, <2>1, <2>4 DEF Ingested
  <2>. QED
    BY <2>2, <2>3, <2>4
<1>. HIDE DEF Stay
<1>15. ASSUME NEW p \in Player
       PROVE  /\ Told'[p] \in Track \cup {None}
              /\ p \in records => Told'[p] # None /\ Told'[p].conn = hub[p].conn
                                 /\ Told'[p].seq = hub[p].seq
              /\ p \notin records => Told'[p] = None \/ Told'[p] = tracks[p]
  <2>1. tracks[p] \in Track \cup {None} /\ (Stay(p) = None \/ Stay(p) = tracks[p])
    BY <1>2 DEF Sound, Stay
  <2>2. CASE p \in records
    <3>1. hub[p].conn \in Nat /\ hub[p].seq \in Nat
      BY <1>5, <2>2 DEF ClaimType
    <3>2. p \notin enters => tracks[p].from \in Nat
      BY <1>6, <1>10, <2>2 DEF Track
    <3>3. PICK from \in Nat : Told'[p] = [conn |-> hub[p].conn, from |-> from, seq |-> hub[p].seq]
      <4>1. CASE p \in enters \/ p \in jumps
        BY <1>14, <2>2, <3>1, <4>1
      <4>2. CASE p \notin enters /\ p \notin jumps
        BY <1>14, <2>2, <3>2, <4>2
      <4>. QED
        BY <4>1, <4>2
    <3>4. Told'[p] \in Track
      BY <3>1, <3>3 DEF Track
    <3>5. Told'[p].conn = hub[p].conn /\ Told'[p].seq = hub[p].seq
      BY <3>3
    <3>. QED
      BY <2>2, <3>4, <3>5, PresenceAssumption
  <2>3. CASE p \notin records
    BY <1>14, <2>1, <2>3
  <2>. QED
    BY <2>2, <2>3
<1>16. ASSUME NEW p \in Player, Told'[p] # None
       PROVE  /\ Told'[p].conn <= connections
              /\ \A q \in Present : hub[q].conn = Told'[p].conn => q = p /\ Told'[p].seq <= hub[q].seq
              /\ Gapless(Told'[p])
  <2>1. CASE p \notin records
    BY <1>2, <1>15, <1>16, <2>1 DEF Sound
  <2>2. CASE p \in records
    <3>1. p \in Present /\ hub[p].conn <= connections /\ hub[p].seq \in Nat /\ hub[p].jumped \in Nat
      BY <1>5, <2>2 DEF ClaimType
    <3>2. \A q \in Present : hub[q].conn = hub[p].conn => q = p
      BY <3>1 DEF SightInv, ClaimInv
    <3>3. ASSUME NEW g \in gaps, g[1] = hub[p].conn
          PROVE  g[2] <= hub[p].jumped /\ g[2] \in Nat
      BY <3>1, <3>3 DEF SightInv, GapInv
    <3>4. CASE p \in enters \/ p \in jumps
      <4>1. Told'[p].from = hub[p].seq /\ Told'[p].seq = hub[p].seq
        <5>1. Told'[p] = [conn |-> hub[p].conn, from |-> hub[p].seq, seq |-> hub[p].seq]
          <6>1. CASE p \in enters
            BY <1>14, <2>2, <6>1
          <6>2. CASE p \notin enters
            <7>1. p \in jumps
              BY <3>4, <6>2
            <7>. HIDE DEF jumps
            <7>. QED
              BY <1>14, <2>2, <6>2, <7>1
          <6>. QED
            BY <6>1, <6>2
        <5>. QED
          BY <5>1
      <4>2. Gapless(Told'[p])
        BY <1>15, <2>2, <3>1, <3>3, <4>1 DEF Gapless
      <4>. QED
        BY <1>15, <2>2, <3>1, <3>2, <4>2
    <3>5. CASE p \notin enters /\ p \notin jumps
      <4>1. Told'[p].from = tracks[p].from /\ Told'[p].seq = hub[p].seq
        <5>1. Told'[p] = [conn |-> hub[p].conn, from |-> tracks[p].from, seq |-> hub[p].seq]
          BY <1>14, <2>2, <3>5
        <5>. QED
          BY <5>1
      <4>2. /\ tracks[p] # None /\ tracks[p].conn = hub[p].conn /\ hub[p].jumped <= tracks[p].seq
            /\ tracks[p].from \in Nat /\ tracks[p].seq \in Nat /\ Gapless(tracks[p])
        BY <1>2, <1>6, <1>10, <2>2, <3>5 DEF Track, Sound
      <4>3. Gapless(Told'[p])
        BY <1>15, <2>2, <3>1, <3>3, <4>1, <4>2 DEF Gapless
      <4>. QED
        BY <1>15, <2>2, <3>1, <3>2, <4>3
    <3>. QED
      BY <3>4, <3>5
  <2>. QED
    BY <2>1, <2>2
<1>17. ASSUME NEW p \in Player, Told'[p] # None, NEW q \in Player, Told'[q] # None,
              Told'[p].conn = Told'[q].conn
       PROVE  p = q
  <2>1. CASE p \in records
    BY <1>5, <1>15, <1>16, <1>17, <2>1
  <2>2. CASE q \in records
    BY <1>5, <1>15, <1>16, <1>17, <2>2
  <2>3. CASE p \notin records /\ q \notin records
    BY <1>2, <1>15, <1>17, <2>3 DEF Sound
  <2>. QED
    BY <2>1, <2>2, <2>3
<1>18. Sound(Told)'
  <2>1. Told' \in [Player -> Track \cup {None}]
    BY <1>13, <1>15
  <2>. QED
    BY <1>2, <1>16, <1>17, <2>1 DEF Sound, Gapless, Present
<1>19. stream' = ViewOf(Told)'
  <2>1. ASSUME NEW p \in Player
        PROVE  (IF p \in records THEN [conn |-> hub[p].conn, seq |-> hub[p].seq] ELSE kept[p])
                 = IF Told'[p] = None THEN None
                   ELSE [conn |-> Told'[p].conn, seq |-> Told'[p].seq]
    <3>1. CASE p \in records
      BY <1>15, <3>1
    <3>2. CASE p \notin records
      BY <1>6, <1>8, <1>14, <3>2 DEF Stay
    <3>. QED
      BY <3>1, <3>2
  <2>. QED
    BY <1>1, <1>4, <2>1 DEF ViewOf
<1>20. ClaimInv' /\ GapInv' /\ Sound(tracks)'
  BY <1>2 DEF SightInv, ClaimInv, GapInv, Sound, Gapless, Present
<1>21. LinkInv'
  <2>1. link \in Socket /\ Belongs(link, Observer)
    BY DEF SightInv, LinkInv
  <2>. QED
    BY <1>1, <1>2, <2>1 DEF LinkInv, Belongs, Present
<1>. QED
  BY <1>18, <1>19, <1>20, <1>21 DEF SightInv

\* A delta of a socket that the client has left changes no view.
LEMMA SightTickBlind ==
  ASSUME IInv, SightInv, NEW s \in Socket, NEW due \in SUBSET Player, Tick(s, due), link # s
  PROVE  SightInv'
<1>1. /\ wire = <<>> /\ wire' = <<>> /\ Belongs(s, Observer)
      /\ UNCHANGED <<hub, connections, gaps, sockets, link, tracks>>
  BY DEF Tick, world, client, history, Speaks, Belongs
<1>2. link \notin Socket
  <2>1. \A t \in Socket : Belongs(t, Observer) => t = s
    BY <1>1 DEF IInv, AttachmentsHaveOneSocket, Anybody
  <2>. QED
    BY <2>1 DEF SightInv, LinkInv
<1>3. tracks' = NoTracks /\ link' \notin Socket
  BY <1>1, <1>2 DEF SightInv, LinkInv
<1>4. ClaimInv' /\ GapInv' /\ LinkInv'
  BY <1>1, <1>2, <1>3 DEF SightInv, ClaimInv, GapInv, LinkInv, Present, NoTracks
<1>. QED
  BY <1>1, <1>3, <1>4, NobodyTold

LEMMA SightNext == ASSUME IInv, IInv', SightInv, [Next]_vars PROVE SightInv'
<1>1. CASE \E p \in Player : Load(p) \/ Join(p) \/ SaveResume(p) \/ LeaveWorld(p)
  BY <1>1, SightSession, SightJoin
<1>2. CASE \E p \in Player : Attach(p)
  BY <1>2, SightAttach
<1>3. ASSUME NEW s \in Socket, NEW pose \in Walk, AcceptPose(s, pose[1], pose[2]) PROVE SightInv'
  <2>1. pose[1] \in Place /\ pose[2] \in BOOLEAN
    BY PresenceAssumption
  <2>. QED
    BY <1>3, <2>1, SightPose
<1>4. CASE \E s \in Socket : DropAttachment(s)
  BY <1>4, SightDrop
<1>5. CASE Open \/ Disconnect \/ Receive
  BY <1>5, SightOpen, SightDisconnect, SightReceive
<1>6. CASE \E s \in Socket, due \in SUBSET Player : Tick(s, due)
  BY <1>6, SightTick, SightTickBlind
<1>7. CASE UNCHANGED vars
  <2>1. UNCHANGED <<stream, wire, link, tracks, connections, gaps, hub, sockets>>
    BY <1>7 DEF vars
  <2>. QED
    BY <2>1, SteadyKeeps DEF Same, Present, SightInv, LinkInv, Belongs
<1>. QED
  BY <1>1, <1>2, <1>3, <1>4, <1>5, <1>6, <1>7 DEF Next

LEMMA SightInvariant == Spec => []SightInv
<1>1. IInv /\ SightInv /\ [Next]_vars => (IInv /\ SightInv)'
  BY NextKeeps, SightNext
<1>. QED
  BY <1>1, InitIInv, InitSight, PTL DEF Spec

-----------------------------------------------------------------------------
\* The bookkeeping build_delta keeps for a socket and the timeline its client
\* builds agree at every moment, except for the one frame between them: leaves,
\* enters and updates find the track of the connection they name, whoever left,
\* joined or attached anew meanwhile.
THEOREM ViewIsTold == Spec => []ViewFollowsStream
<1>1. SightInv => ViewFollowsStream
  BY DEF SightInv, ViewFollowsStream, Told
<1>. QED
  BY <1>1, SightInvariant, PTL

\* The discontinuity flag survives what overtakes it: jumped remembers the last
\* gap of a claim, so that a pose which skips the one after the gap still starts
\* a new run of the timeline and nobody is drawn gliding across it.
THEOREM TracksSpanNoGap == Spec => []NoTrackSpansAGap
<1>1. SightInv => NoTrackSpansAGap
  BY DEF SightInv, Sound, Gapless, NoTrackSpansAGap
<1>. QED
  BY <1>1, SightInvariant, PTL
=============================================================================
