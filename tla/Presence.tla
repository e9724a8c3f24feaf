------------------------------- MODULE Presence ------------------------------
(***************************************************************************)
(* The presence hub: who is in the world, whose presence socket is         *)
(* attached, where everybody is, and what one observer is told about the   *)
(* others.                                                                 *)
(*                                                                         *)
(* A world session owns a claim on its player from joining to leaving; a   *)
(* presence socket owns an attachment of that claim.  Sockets die late and *)
(* in any order: an attachment may outlive its claim and be dropped when   *)
(* the player has long joined again.  The observer stands still, and its   *)
(* own presence socket comes and goes.                                     *)
(*                                                                         *)
(* Places are near (within the interest radius), edge (within the          *)
(* hysteresis only) and far, seen from the observer.  A pose is its        *)
(* sequence number, its place and whether it is a spectator's camera.      *)
(***************************************************************************)
EXTENDS Integers, Sequences, FiniteSets, SequencesExt

CONSTANTS
  Player,          \* everybody but the observer
  Observer,
  Socket,          \* identities of presence sockets
  None,
  Walk,            \* the <<place, spectator>> a player may report
  MaxRecords,      \* max_records_per_delta
  MaxConnections,  \* bound on the claims of a player
  MaxPoses,        \* bound on the poses of a player
  MaxDrops         \* bound on the observer's disconnects

Anybody == Player \cup {Observer}

Place == {"near", "edge", "far"}

\* What the hub, a session and the database hold for a player.
Body == [stamp : Nat, place : Place]
Resume == [revision : Nat, body : Body]
ClaimType ==
  [conn : Nat, attached : BOOLEAN, seq : Nat, place : Place, spectator : BOOLEAN,
   body : Body, revision : Nat, jump : BOOLEAN, jumped : Nat, cell : Place \cup {None}]
\* What a presence socket holds on the server.
Attachment == [player : Anybody, conn : Nat]
\* What the observer is told of a player, and what its timeline makes of it.
Known == [conn : Nat, seq : Nat]
Track == [conn : Nat, from : Nat, seq : Nat]

ASSUME PresenceAssumption ==
  /\ Walk \subseteq Place \X BOOLEAN
  /\ Observer \notin Player
  /\ None \notin Anybody \cup Socket \cup ClaimType \cup Attachment \cup Known \cup Track
  /\ "waiting" \notin Socket
  /\ MaxRecords \in Nat \ {0}
  /\ MaxConnections \in Nat \ {0} /\ MaxPoses \in Nat /\ MaxDrops \in Nat

VARIABLES
  hub,         \* [Anybody -> the claim of a player in the world, or None]
  connections, \* next_connection_id - 1
  cells,       \* [Place -> SUBSET Anybody], the spatial index
  durable,     \* [Player -> [revision, body]], the resume in the database
  opening,     \* [Player -> the resume a session has loaded but not joined with, or None]
  saved,       \* connections whose session has written its resume and not yet left
  sockets,     \* [Socket -> [player, conn] on the server, or None]
  stream,      \* PresenceStreamState of the observer's socket: [Player -> [conn, seq] or None]
  wire,        \* deltas on their way to the observer, oldest first
  link,        \* the observer's client: its socket, or "waiting"
  tracks,      \* the observer's timeline: [Player -> [conn, from, seq] or None]
  drops,       \* disconnects of the observer so far
  poses,       \* [Player -> poses accepted so far]
  latest,      \* history: [Player -> stamp of the last accepted body pose]
  gaps         \* history: <<connection, sequence>> of poses that follow a gap

world == <<hub, connections, cells>>
resumes == <<durable, opening, saved>>
client == <<link, tracks, drops>>
history == <<poses, latest, gaps>>
vars == <<hub, connections, cells, durable, opening, saved, sockets, stream, wire,
          link, tracks, drops, poses, latest, gaps>>

Present == {p \in Anybody : hub[p] # None}
NewStream_Kept == stream

NewStream == [p \in Player |-> None]
NoTracks == [p \in Player |-> None]

-----------------------------------------------------------------------------
(* World sessions and resumes.                                             *)

\* The stamp of a body orders the bodies a player has had; 0 is the default
\* resume of a new player.
DefaultResume == [revision |-> 1, body |-> [stamp |-> 0, place |-> "near"]]

Claim(conn, resume) ==
  [conn |-> conn, attached |-> FALSE, seq |-> 0, place |-> resume.body.place,
   spectator |-> FALSE, body |-> resume.body, revision |-> resume.revision,
   jump |-> TRUE, jumped |-> 0, cell |-> None]

\* run_session: load_player comes first ...
Load(p) ==
  /\ opening[p] = None /\ connections < MaxConnections
  /\ opening' = [opening EXCEPT ![p] = durable[p]]
  /\ UNCHANGED <<world, durable, saved, sockets, stream, wire, client, history>>

\* ... then join, which refuses a player who is still in the world.
Join(p) ==
  /\ opening[p] # None
  /\ opening' = [opening EXCEPT ![p] = None]
  /\ \/ /\ p \in Present
        /\ UNCHANGED <<hub, connections>>
     \/ /\ p \notin Present
        /\ connections < MaxConnections
        /\ connections' = connections + 1
        /\ hub' = [hub EXCEPT ![p] = Claim(connections + 1, opening[p])]
  /\ UNCHANGED <<cells, durable, saved, sockets, stream, wire, client, history>>

\* Only a newer revision replaces the resume in the database.
Newer(old, new) == old.revision < new.revision

\* The session ends: the latest body is saved while the claim is still held.
SaveResume(p) ==
  LET resume == [revision |-> hub[p].revision, body |-> hub[p].body]
  IN /\ p \in Present
     /\ hub[p].conn \notin saved
     /\ saved' = saved \cup {hub[p].conn}
     /\ durable' = IF Newer(durable[p], resume) THEN [durable EXCEPT ![p] = resume] ELSE durable
     /\ UNCHANGED <<world, opening, sockets, stream, wire, client, history>>

\* cells without the old place of p and with its new one.
Moved(p, old, new) ==
  [place \in Place |-> (cells[place] \ (IF place = old THEN {p} ELSE {}))
                       \cup (IF place = new THEN {p} ELSE {})]

\* The claim is dropped when the session's writer has ended.
LeaveWorld(p) ==
  /\ p \in Present
  /\ hub[p].conn \in saved
  /\ saved' = saved \ {hub[p].conn}
  /\ hub' = [hub EXCEPT ![p] = None]
  /\ cells' = Moved(p, hub[p].cell, None)
  /\ UNCHANGED <<connections, durable, opening, sockets, stream, wire, client, history>>

-----------------------------------------------------------------------------
(* Presence sockets.                                                       *)

\* A socket nobody holds either end of.
Free == {s \in Socket : sockets[s] = None /\ link # s}

\* attach_authorized for the socket s of player p.
Attached(p, s) ==
  /\ p \in Present /\ ~hub[p].attached
  /\ hub' = [hub EXCEPT ![p].attached = TRUE, ![p].jump = TRUE]
  /\ sockets' = [sockets EXCEPT ![s] = [player |-> p, conn |-> hub[p].conn]]

Attach(p) ==
  /\ Free # {}
  /\ Attached(p, CHOOSE s \in Free : TRUE)
  /\ UNCHANGED <<connections, cells, resumes, stream, wire, client, history>>

\* A socket speaks for a player as long as the claim it attached to stands.
Speaks(s) ==
  LET p == sockets[s].player
  IN p \in Present /\ hub[p].conn = sockets[s].conn /\ hub[p].attached

\* Movement budgets let nobody skip the edge.
Adjacent(a, b) == a = b \/ a = "edge" \/ b = "edge"

\* accept_pose.  Leaving the spectator restores the body and keeps it where it
\* was; a spectator's pose leaves the body alone.
AcceptPose(s, place, spectator) ==
  LET p == sockets[s].player
      was == hub[p]
      here == IF was.spectator /\ ~spectator THEN was.body.place ELSE place
      seq == was.seq + 1
      moved == [was EXCEPT !.seq = seq, !.place = here, !.spectator = spectator,
                           !.cell = here, !.jump = FALSE,
                           !.jumped = IF was.jump THEN seq ELSE @]
  IN /\ sockets[s] # None /\ p \in Player /\ Speaks(s)
     /\ poses[p] < MaxPoses
     /\ (was.spectator /\ ~spectator) \/ Adjacent(was.place, place)
     /\ hub' = [hub EXCEPT ![p] =
                  IF spectator THEN moved
                  ELSE [moved EXCEPT !.body = [stamp |-> poses[p] + 1, place |-> here],
                                     !.revision = @ + 1]]
     /\ cells' = Moved(p, was.cell, here)
     /\ poses' = [poses EXCEPT ![p] = @ + 1]
     /\ latest' = IF spectator THEN latest ELSE [latest EXCEPT ![p] = poses[p] + 1]
     /\ gaps' = IF was.jump THEN gaps \cup {<<was.conn, seq>>} ELSE gaps
     /\ UNCHANGED <<connections, resumes, sockets, stream, wire, client>>

IsOwner_Player(s) == sockets[s].player \in Present

\* detach_presence acts for the claim of its own connection only.
IsOwner(s) ==
  LET p == sockets[s].player IN p \in Present /\ hub[p].conn = sockets[s].conn

\* The loop of run_presence_session has ended, sooner or later after the peer
\* has gone, and the writer with it.
DropAttachment(s) ==
  LET p == sockets[s].player
  IN /\ sockets[s] # None /\ link # s
     /\ sockets' = [sockets EXCEPT ![s] = None]
     /\ IF IsOwner(s)
        THEN /\ hub' = [hub EXCEPT ![p].attached = FALSE, ![p].jump = TRUE, ![p].cell = None]
             /\ cells' = Moved(p, hub[p].cell, None)
        ELSE UNCHANGED <<hub, cells>>
     /\ UNCHANGED <<connections, resumes, stream, wire, client, history>>

-----------------------------------------------------------------------------
(* What the observer is told.                                              *)

\* nearby_candidates: through the spatial index, whoever is attached, no
\* spectator, and near; at the edge only those the observer knows already.
Candidates(known) ==
  {p \in cells["near"] \cup {q \in cells["edge"] \cap Player : known[q] # None} :
     p \in Player \cap Present /\ hub[p].attached /\ ~hub[p].spectator}

SameClaim_Player(p) == TRUE

\* A record the observer has is only good for the connection it names.
SameClaim(p) == stream[p].conn = hub[p].conn

Jumped_JustNow(p) == hub[p].jumped = hub[p].seq

\* The pose follows a gap since the observer was last told of the player.
Jumped(p) == hub[p].jumped > stream[p].seq

\* build_delta: the leaves, and at most MaxRecords records: enters before poses
\* that follow a gap before those whose interval or prediction error is due.
Deltas(due) ==
  LET candidates == Candidates(stream)
      left == {p \in Player : stream[p] # None /\ ~(p \in candidates /\ SameClaim(p))}
      kept == [p \in Player |-> IF p \in left THEN None ELSE stream[p]]
      enters == {p \in candidates : kept[p] = None}
      news == {p \in candidates \ enters : hub[p].seq > stream[p].seq}
      jumps == {p \in news : Jumped(p)}
      pending == enters \cup jumps \cup (news \cap due)
      Fits(records) ==
        /\ records \subseteq pending
        /\ Cardinality(records) <= MaxRecords
        /\ \/ records = pending
           \/ /\ Cardinality(records) = MaxRecords
              /\ records \cap jumps # {} => enters \subseteq records
              /\ records \ (enters \cup jumps) # {} => enters \cup jumps \subseteq records
  IN {[leaves |-> {stream[p].conn : p \in left},
       enters |-> records \cap enters,
       updates |-> records \ enters,
       jumps |-> records \cap (enters \cup jumps),
       poses |-> [p \in records |-> [conn |-> hub[p].conn, seq |-> hub[p].seq]],
       known |-> [p \in Player |-> IF p \in records
                                   THEN [conn |-> hub[p].conn, seq |-> hub[p].seq]
                                   ELSE kept[p]]] : records \in {r \in SUBSET pending : Fits(r)}}

Empty(delta) == delta.leaves = {} /\ delta.enters = {} /\ delta.updates = {}

\* What travels of a delta.
Frame(delta) == [delta EXCEPT !.known = None]

\* The replication tick of the observer's socket; delta_slot keeps one delta
\* in the writer at a time.
Tick(s, due) ==
  /\ sockets[s] # None /\ sockets[s].player = Observer /\ Speaks(s)
  /\ wire = <<>>
  /\ \E delta \in Deltas(due) :
       /\ ~Empty(delta)
       /\ stream' = delta.known
       /\ wire' = IF link = s THEN <<Frame(delta)>> ELSE wire
  /\ UNCHANGED <<world, resumes, sockets, client, history>>

\* The client opens a socket, again and again as long as it is told that its old
\* attachment still stands; then it attaches and a new stream begins.
Open ==
  /\ link = "waiting" /\ Free # {}
  /\ LET s == CHOOSE s \in Free : TRUE
     IN Attached(Observer, s) /\ link' = s
  /\ stream' = NewStream /\ wire' = <<>>
  /\ UNCHANGED <<connections, cells, resumes, tracks, drops, history>>

\* disconnect: the client detaches its socket and forgets everybody; the server
\* learns of it later.
Disconnect ==
  /\ link \in Socket /\ drops < MaxDrops
  /\ link' = "waiting" /\ tracks' = NoTracks /\ wire' = <<>>
  /\ drops' = drops + 1
  /\ UNCHANGED <<world, resumes, sockets, stream, history>>

Pushed(track, pose, jump) ==
  IF pose.seq <= track.seq THEN track
  ELSE [conn |-> track.conn, from |-> IF jump THEN pose.seq ELSE track.from, seq |-> pose.seq]

\* ingest_delta: leaves go first, an enter replaces a track of another
\* connection, an update finds its track by the connection.
Ingested(delta) ==
  LET stay == [p \in Player |->
                 IF tracks[p] # None /\ tracks[p].conn \in delta.leaves THEN None ELSE tracks[p]]
      Entered(p) ==
        LET pose == delta.poses[p]
        IN IF stay[p] = None \/ stay[p].conn # pose.conn
           THEN [conn |-> pose.conn, from |-> pose.seq, seq |-> pose.seq]
           ELSE Pushed(stay[p], pose, p \in delta.jumps)
      Updated(p) ==
        IF stay[p] = None \/ stay[p].conn # delta.poses[p].conn THEN stay[p]
        ELSE Pushed(stay[p], delta.poses[p], p \in delta.jumps)
  IN [p \in Player |-> IF p \in delta.enters THEN Entered(p)
                       ELSE IF p \in delta.updates THEN Updated(p)
                       ELSE stay[p]]

Receive ==
  /\ wire # <<>>
  /\ wire' = Tail(wire)
  /\ tracks' = Ingested(Head(wire))
  /\ UNCHANGED <<world, resumes, sockets, stream, link, drops, history>>

-----------------------------------------------------------------------------
Init ==
  /\ hub = [p \in Anybody |-> IF p = Observer THEN Claim(0, DefaultResume)
                              ELSE None]
  /\ connections = 0
  /\ cells = [place \in Place |-> {}]
  /\ durable = [p \in Player |-> DefaultResume]
  /\ opening = [p \in Player |-> None]
  /\ saved = {}
  /\ sockets = [s \in Socket |-> None]
  /\ stream = [p \in Player |-> None] /\ wire = <<>>
  /\ link = "waiting" /\ tracks = NoTracks /\ drops = 0
  /\ poses = [p \in Player |-> 0]
  /\ latest = [p \in Player |-> 0]
  /\ gaps = {}

Next ==
  \/ \E p \in Player : Load(p) \/ Join(p) \/ SaveResume(p) \/ LeaveWorld(p)
  \/ \E p \in Player : Attach(p)
  \/ \E s \in Socket, pose \in Walk : AcceptPose(s, pose[1], pose[2])
  \/ \E s \in Socket : DropAttachment(s)
  \/ Open
  \/ \E s \in Socket, due \in SUBSET Player : Tick(s, due)
  \/ Disconnect
  \/ Receive

Spec == Init /\ [][Next]_vars

\* The replication interval ticks on and every update falls due, frames arrive,
\* a dead socket is noticed in the end, and the client keeps reconnecting.
FairSpec ==
  /\ Spec
  /\ \A s \in Socket :
       /\ WF_vars(Tick(s, Player))
       /\ WF_vars(sockets[s] # None /\ sockets[s].player = Observer /\ DropAttachment(s))
  /\ WF_vars(Open)
  /\ WF_vars(Receive)

-----------------------------------------------------------------------------
\* Every variable has its type.
PresenceTypeOK ==
  /\ connections \in Nat
  /\ hub \in [Anybody -> ClaimType \cup {None}]
  /\ durable \in [Player -> Resume]
  /\ opening \in [Player -> Resume \cup {None}]
  /\ sockets \in [Socket -> Attachment \cup {None}]
  /\ poses \in [Player -> Nat]

\* The socket s was attached to the claim that p has now.
Belongs(s, p) ==
  /\ p \in Present /\ sockets[s] # None
  /\ sockets[s].player = p /\ sockets[s].conn = hub[p].conn

\* A claim is attached exactly as long as one socket of that connection lives:
\* a socket that dies late, after its claim has gone and the player has joined
\* and attached anew, takes nothing away from the new attachment.
AttachmentsHaveOneSocket ==
  /\ \A p \in Anybody :
       p \in Present /\ hub[p].attached => \E s \in Socket : Belongs(s, p)
  /\ \A p \in Anybody, s \in Socket : Belongs(s, p) => hub[p].attached
  /\ \A p \in Anybody, s, t \in Socket : Belongs(s, p) /\ Belongs(t, p) => s = t

\* What the observer's client shows once the frame on its way has arrived is
\* what the server believes it has told it, connection by connection.
ViewOf(t) == [p \in Player |-> IF t[p] = None THEN None
                               ELSE [conn |-> t[p].conn, seq |-> t[p].seq]]
ViewFollowsStream ==
  link \in Socket =>
    stream = ViewOf(IF wire = <<>> THEN tracks ELSE Ingested(Head(wire)))

\* A track never joins poses across a gap: whatever the observer missed, the
\* pose after a gap starts a new run, even when later poses overtook it.
NoTrackSpansAGap ==
  \A p \in Player : tracks[p] # None =>
    \A g \in gaps : g[1] = tracks[p].conn => ~(tracks[p].from < g[2] /\ g[2] <= tracks[p].seq)

\* The resume in the database is never replaced by an older body, whichever
\* session closes late and whatever a session had loaded before it joined.
ResumeNeverGoesBack ==
  [][\A p \in Player : durable'[p].body.stamp >= durable[p].body.stamp]_vars

\* A player joins with the body it was last seen with.
ResumesWhereItLeft ==
  [][\A p \in Player : (hub[p] = None /\ hub'[p] # None) => hub'[p].body.stamp = latest[p]]_vars

\* When things calm down, the observer sees those who are near as they are.
Visible(p) ==
  /\ p \in Present /\ hub[p].attached /\ ~hub[p].spectator
  /\ hub[p].cell = "near" /\ link \in Socket
Seen(p) ==
  /\ p \in Present /\ tracks[p] # None
  /\ tracks[p].conn = hub[p].conn /\ tracks[p].seq = hub[p].seq
EveryoneIsSeen == \A p \in Player : <>[]Visible(p) => <>[]Seen(p)
=============================================================================
