----------------------------- MODULE KickEngine -----------------------------
(***************************************************************************)
(* events.py: TemporalEventEngine, the state machine that turns the tracks *)
(* of consecutive frames into kick candidates: a player touches the ball,  *)
(* the ball leaves fast, and it leaves the player.                         *)
(*                                                                         *)
(* A frame is a sequence of observations by falling confidence, the order  *)
(* IoUTracker returns them in.  The pitch is a line and speeds are in its  *)
(* units per unit of time: only distances are compared.  Timestamps rise   *)
(* from frame to frame (video frames do), so elapsed_ms > 0 always holds.  *)
(***************************************************************************)
EXTENDS Integers, Sequences, FiniteSets

CONSTANTS
    Ids,                    \* of tracks
    Positions,              \* centers of boxes
    Times,                  \* timestamps of frames
    KickSpeed,              \* kick_speed_px_s
    Proximity,              \* proximity_px
    MinContactFrames,       \* min_contact_frames
    MinContinuity,          \* min_ball_continuity
    Cooldown,               \* cooldown_ms
    MaxConfidence,          \* max_confidence, in hundredths
    MaxJump                 \* max_ball_jump_px

Classes == {"ball", "player", "goalkeeper", "referee"}
Players == {"player", "goalkeeper"}

Observations == [id: Ids, class: Classes, pos: Positions, confirmed: BOOLEAN]
Frames == Seq(Observations)

ASSUME KickEngineAssumption ==
    /\ Ids \subseteq Nat \ {0}
    /\ Positions \subseteq Int
    /\ Times \subseteq Nat
    /\ {KickSpeed, Proximity, Cooldown, MaxConfidence, MaxJump} \subseteq Nat
    /\ {MinContactFrames, MinContinuity} \subseteq Nat \ {0}

VARIABLES
    ball,                   \* _last_ball and its _ball_track_id
    continuity,             \* _ball_continuity
    contact,                \* _contact_player, its frames, distance, timestamp
    lastKick,               \* _last_kick_ms
    kicks,                  \* _events
    drained,                \* _drain_index
    seen                    \* history: the frames observed

observing == <<ball, continuity, contact, lastKick, kicks, seen>>
engine == <<observing, drained>>

NoBall == [id |-> 0, pos |-> 0, at |-> 0]
NoContact == [player |-> 0, frames |-> 0, distance |-> 0, at |-> 0]
Never == -1000000000

Balls == [id: Ids, pos: Positions, at: Times]
Contacts == [player: Ids, frames: Nat \ {0}, distance: Nat, at: Times]
Kicks == [type: {"kick_candidate"}, player: Ids, ball: Ids, start: Times, end: Times,
          confidence: Nat]

TypeOK ==
    /\ ball \in Balls \union {NoBall}
    /\ continuity \in Nat
    /\ contact \in Contacts \union {NoContact}
    /\ lastKick \in Times \union {Never}
    /\ kicks \in Seq(Kicks)
    /\ drained \in 0..Len(kicks)
    /\ seen \in Seq([at: Times, tracks: Frames])

EngineInit ==
    /\ ball = NoBall
    /\ continuity = 0
    /\ contact = NoContact
    /\ lastKick = Never
    /\ kicks = <<>>
    /\ drained = 0
    /\ seen = <<>>
-----------------------------------------------------------------------------
(* What one frame shows.  The ball is the most confident one, the player   *)
(* next to it the nearest, the more confident of two.                      *)

Distance(x, y) == IF x < y THEN y - x ELSE x - y
LowerOf(x, y) == IF x < y THEN x ELSE y

HasBall(tracks) == \E i \in DOMAIN tracks: tracks[i].class = "ball"

IsBall(tracks, i) ==
    /\ tracks[i].class = "ball"
    /\ \A j \in DOMAIN tracks: tracks[j].class = "ball" => i <= j

BallAt(tracks, b, x) ==
    \E i \in DOMAIN tracks: IsBall(tracks, i) /\ tracks[i].id = b /\ tracks[i].pos = x

IsNear(tracks, x, i) ==
    /\ tracks[i].class \in Players
    /\ Distance(tracks[i].pos, x) <= Proximity
    /\ \A j \in DOMAIN tracks: tracks[j].class \in Players =>
          \/ Distance(tracks[i].pos, x) < Distance(tracks[j].pos, x)
          \/ Distance(tracks[i].pos, x) = Distance(tracks[j].pos, x) /\ i <= j

Untouched(tracks, x) ==
    \A i \in DOMAIN tracks:
        tracks[i].class \in Players => Distance(tracks[i].pos, x) > Proximity

\* proximity > distance, infinite without a player
AllFarther(tracks, x, d) ==
    \A i \in DOMAIN tracks: tracks[i].class \in Players => Distance(tracks[i].pos, x) > d
-----------------------------------------------------------------------------
SameBall(b) == ball.id = b

\* Mutant: a touch of another ball counts for this one.
ContactKept(b) == contact

\* what a new ball leaves of the contact and of the run of frames
ContactWith(b) == IF SameBall(b) THEN contact ELSE NoContact
RunWith(b) == (IF SameBall(b) THEN continuity ELSE 0) + 1

Jumped(b, x) == SameBall(b) /\ Distance(x, ball.pos) > MaxJump

Remember(tracks, now) == seen' = Append(seen, [at |-> now, tracks |-> tracks])

\* Mutant: the frames of the contact outlive it.
ForgetPlayer == contact' = [NoContact EXCEPT !.frames = contact.frames]

\* _reset_contact
Forget == contact' = NoContact

LoseBall(tracks, now) ==
    /\ ~HasBall(tracks)
    /\ ball' = NoBall
    /\ continuity' = 0
    /\ Forget
    /\ Remember(tracks, now)
    /\ UNCHANGED <<lastKick, kicks>>

\* A cut or a camera move: nothing of what came before it counts.
Jump(tracks, now) ==
    /\ \E i \in DOMAIN tracks:
          /\ IsBall(tracks, i)
          /\ Jumped(tracks[i].id, tracks[i].pos)
          /\ ball' = [id |-> tracks[i].id, pos |-> tracks[i].pos, at |-> now]
    /\ continuity' = 0
    /\ Forget
    /\ Remember(tracks, now)
    /\ UNCHANGED <<lastKick, kicks>>

\* The touch before this frame, if any, was a kick.
Released(tracks, b, x, now) ==
    /\ SameBall(b)
    /\ Distance(x, ball.pos) >= KickSpeed * (now - ball.at)
    /\ contact # NoContact
    /\ contact.frames >= MinContactFrames
    /\ RunWith(b) >= MinContinuity
    /\ AllFarther(tracks, x, contact.distance)
    /\ now - lastKick >= Cooldown

Touch(tracks, x, now, before) ==
    \/ Untouched(tracks, x) /\ contact' = before
    \/ \E i \in DOMAIN tracks:
          /\ IsNear(tracks, x, i)
          /\ contact' = [player |-> tracks[i].id,
                         frames |-> 1 + (IF before.player = tracks[i].id
                                         THEN before.frames ELSE 0),
                         distance |-> Distance(tracks[i].pos, x),
                         at |-> now]

Follow(tracks, now) ==
    /\ \E i \in DOMAIN tracks: LET b == tracks[i].id
                                   x == tracks[i].pos IN
          /\ IsBall(tracks, i)
          /\ ~Jumped(b, x)
          /\ ~Released(tracks, b, x, now)
          /\ Touch(tracks, x, now, ContactWith(b))
          /\ continuity' = RunWith(b)
          /\ ball' = [id |-> b, pos |-> x, at |-> now]
    /\ Remember(tracks, now)
    /\ UNCHANGED <<lastKick, kicks>>

Confidence(frames, run, fast) ==
    LowerOf(MaxConfidence,
            45 + 5 * LowerOf(frames, 3) + 5 * LowerOf(run - MinContinuity, 3)
               + (IF fast THEN 10 ELSE 0))

\* A start at timestamp 0 is taken for none, and the kick starts where it ends.
StartOf(at, now) == IF at = 0 THEN now ELSE at

Kick(tracks, now) ==
    /\ \E i \in DOMAIN tracks: LET b == tracks[i].id
                                   x == tracks[i].pos IN
          /\ IsBall(tracks, i)
          /\ ~Jumped(b, x)
          /\ Released(tracks, b, x, now)
          /\ continuity' = RunWith(b)
          /\ ball' = [id |-> b, pos |-> x, at |-> now]
          /\ kicks' = Append(kicks,
                [type |-> "kick_candidate", player |-> contact.player, ball |-> b,
                 start |-> StartOf(contact.at, now), end |-> now,
                 confidence |-> Confidence(contact.frames, RunWith(b),
                    Distance(x, ball.pos) >= 2 * KickSpeed * (now - ball.at))])
    /\ lastKick' = now
    /\ Forget
    /\ Remember(tracks, now)

Observe(tracks, now) ==
    LoseBall(tracks, now) \/ Jump(tracks, now) \/ Follow(tracks, now) \/ Kick(tracks, now)

\* drain_candidates returns SubSeq(kicks, drained + 1, Len(kicks))
Drain == drained' = Len(kicks) /\ UNCHANGED observing

Later(now) == \A n \in DOMAIN seen: seen[n].at < now

EngineNext ==
    \/ \E tracks \in Frames, now \in Times: Later(now) /\ Observe(tracks, now) /\ UNCHANGED drained
    \/ Drain

EngineSpec == EngineInit /\ [][EngineNext]_engine
-----------------------------------------------------------------------------
(* Properties *)

TouchedBy(tracks, p) ==
    \E i \in DOMAIN tracks:
        /\ tracks[i].id = p
        /\ \E b \in DOMAIN tracks: IsBall(tracks, b) /\ IsNear(tracks, tracks[b].pos, i)

\* Frames m to n show one ball, which never moves farther than a ball can.
Unbroken(b, m, n) ==
    /\ \A i \in m..n: \E x \in Positions: BallAt(seen[i].tracks, b, x)
    /\ \A i \in (m + 1)..n: \A x, y \in Positions:
          BallAt(seen[i - 1].tracks, b, x) /\ BallAt(seen[i].tracks, b, y)
             => Distance(x, y) <= MaxJump

\* From frame m on one player touched the ball, the last time in frame c, often
\* enough, and in frame n it left them all faster than a pass rolls.
KickSeen(k, m, c, n) ==
    /\ m <= c /\ c < n
    /\ Unbroken(k.ball, m, n)
    /\ MinContactFrames <= Cardinality({i \in m..c: TouchedBy(seen[i].tracks, k.player)})
    /\ \A i \in m..(n - 1), p \in Ids: TouchedBy(seen[i].tracks, p) => p = k.player /\ i <= c
    /\ TouchedBy(seen[c].tracks, k.player)
    /\ k.start = StartOf(seen[c].at, k.end)
    /\ k.end = seen[n].at
    /\ \A x, y \in Positions:
          BallAt(seen[n - 1].tracks, k.ball, x) /\ BallAt(seen[n].tracks, k.ball, y)
             => Distance(x, y) >= KickSpeed * (seen[n].at - seen[n - 1].at)

KickSupported(k) ==
    \E n \in DOMAIN seen:
        /\ \E m, c \in 1..n: KickSeen(k, m, c, n)
        /\ \E m \in 1..n: Unbroken(k.ball, m, n) /\ n - m + 1 >= MinContinuity

KicksSupported == \A n \in DOMAIN kicks: KickSupported(kicks[n])

KicksApart ==
    \A n \in 2..Len(kicks):
        /\ kicks[n].start > kicks[n - 1].end
        /\ kicks[n].end - kicks[n - 1].end >= Cooldown

\* Every candidate rests on frames that show it: one ball followed without a cut or a
\* change of its track, touched by one player for long enough, its start the last touch, its
\* end the frame in which the ball sped away (_emit_kick); and one kick is told once:
\* intervals do not overlap and ends are a cooldown apart, whatever was touched in between.
\* A contact that survived a lost ball, a new track, a cut or a kick would put
\* together a kick from two scenes.
KicksSound == KicksSupported /\ KicksApart
=============================================================================
