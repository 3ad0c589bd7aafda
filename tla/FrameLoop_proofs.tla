-------------------------- MODULE FrameLoop_proofs --------------------------
(***************************************************************************)
(* Proofs about TemporalEventEngine and about _process_chunk, for every    *)
(* video, every plan of chunks, every setting, and any number of tracks.   *)
(*                                                                         *)
(* A kick must be shown by the frames, of which the engine keeps none, and *)
(* so it is with the tracker: the invariants say what the few variables    *)
(* still know of the frames they have forgotten.  Lists, folds and plans   *)
(* are those of Results_proofs.                                            *)
(***************************************************************************)
EXTENDS FrameLoop, Results_proofs

-----------------------------------------------------------------------------
(* The engine: what its variables know of the frames *)

\* What the history of the engine holds of a frame.
Entries == [at: Times, tracks: Frames]

\* _last_ball is the ball of the last frame.
BallFits ==
    IF ball = NoBall
    THEN contact = NoContact /\ continuity = 0
    ELSE /\ seen # <<>>
         /\ BallAt(seen[Len(seen)].tracks, ball.id, ball.pos)
         /\ ball.at = seen[Len(seen)].at

\* _ball_continuity counts frames in a row that show it.
RunFits ==
    continuity > 0 =>
        \E m \in 1..Len(seen): Unbroken(ball.id, m, Len(seen)) /\ Len(seen) - m + 1 >= continuity

\* From frame m on one player touched the ball, the last time in frame c.
ContactSeen(m, c) ==
    /\ m <= c
    /\ Unbroken(ball.id, m, Len(seen))
    /\ contact.frames <= Cardinality({i \in m..c: TouchedBy(seen[i].tracks, contact.player)})
    /\ \A i \in m..Len(seen), p \in Ids:
          TouchedBy(seen[i].tracks, p) => p = contact.player /\ i <= c
    /\ TouchedBy(seen[c].tracks, contact.player)
    /\ contact.at = seen[c].at

\* A contact that is kept was seen, on the ball that is followed.
ContactFits == contact # NoContact => \E m, c \in 1..Len(seen): ContactSeen(m, c)

\* A contact is younger than the last kick.
LastFits ==
    IF kicks = <<>>
    THEN lastKick = Never
    ELSE /\ lastKick = kicks[Len(kicks)].end
         /\ contact # NoContact => contact.at > lastKick

\* The invariant of the engine.
IInv == TypeOK /\ BallFits /\ RunFits /\ ContactFits /\ LastFits /\ KicksSound
-----------------------------------------------------------------------------
(* Frames *)

\* The distance of two positions is a number and the same both ways.
LEMMA DistanceIsOne ==
    ASSUME NEW x \in Int, NEW y \in Int
    PROVE  Distance(x, y) \in Nat /\ Distance(x, y) = Distance(y, x)
BY DEF Distance

\* _select_ball finds one ball in a frame.
LEMMA OneBall ==
    ASSUME NEW t \in Frames, NEW b, NEW c, NEW x, NEW y, BallAt(t, b, x), BallAt(t, c, y)
    PROVE  b = c /\ x = y
<1>1. PICK i \in DOMAIN t: IsBall(t, i) /\ t[i].id = b /\ t[i].pos = x BY DEF BallAt
<1>2. PICK j \in DOMAIN t: IsBall(t, j) /\ t[j].id = c /\ t[j].pos = y BY DEF BallAt
<1>3. i <= j /\ j <= i BY <1>1, <1>2 DEF IsBall
<1>4. i = j BY <1>3 DEF Frames
<1> QED BY <1>1, <1>2, <1>4

\* A track of a frame has an id and a position.
LEMMA FrameTyped ==
    ASSUME NEW t \in Frames, NEW i \in DOMAIN t
    PROVE  t[i].id \in Ids /\ t[i].pos \in Positions
<1>1. t[i] \in Observations BY DEF Frames
<1> QED BY <1>1 DEF Observations

\* The ball that _select_ball finds is a track of the frame.
LEMMA BallShown ==
    ASSUME NEW t \in Frames, NEW i \in DOMAIN t, IsBall(t, i)
    PROVE  BallAt(t, t[i].id, t[i].pos) /\ t[i].id \in Ids /\ t[i].pos \in Positions
BY FrameTyped DEF BallAt

\* One player at most is the nearest one in reach (the first, of two as near).
LEMMA OneNearest ==
    ASSUME NEW t \in Frames, NEW x \in Positions, NEW i \in DOMAIN t, NEW j \in DOMAIN t,
           IsNear(t, x, i), IsNear(t, x, j)
    PROVE  i = j
<1>1. t[i] \in Observations /\ t[j] \in Observations BY DEF Frames
<1>2. Distance(t[i].pos, x) \in Nat /\ Distance(t[j].pos, x) \in Nat
  BY <1>1, DistanceIsOne, KickEngineAssumption DEF Observations
<1>3. i \in Int /\ j \in Int BY DEF Frames
<1>4. \/ Distance(t[i].pos, x) < Distance(t[j].pos, x)
      \/ Distance(t[i].pos, x) = Distance(t[j].pos, x) /\ i <= j
  BY DEF IsNear
<1>5. \/ Distance(t[j].pos, x) < Distance(t[i].pos, x)
      \/ Distance(t[j].pos, x) = Distance(t[i].pos, x) /\ j <= i
  BY DEF IsNear
<1> QED BY <1>2, <1>3, <1>4, <1>5

\* One player at most touches the ball in a frame.
LEMMA OneToucher ==
    ASSUME NEW t \in Frames, NEW p, NEW q, TouchedBy(t, p), TouchedBy(t, q)
    PROVE  p = q
<1>1. PICK i, b \in DOMAIN t: t[i].id = p /\ IsBall(t, b) /\ IsNear(t, t[b].pos, i)
  BY DEF TouchedBy
<1>2. PICK j, c \in DOMAIN t: t[j].id = q /\ IsBall(t, c) /\ IsNear(t, t[c].pos, j)
  BY DEF TouchedBy
<1>3. BallAt(t, t[b].id, t[b].pos) /\ BallAt(t, t[c].id, t[c].pos) /\ t[b].pos \in Positions
  BY <1>1, <1>2, BallShown
<1>4. t[b].pos = t[c].pos BY <1>3, OneBall
<1>5. i = j BY <1>1, <1>2, <1>3, <1>4, OneNearest
<1> QED BY <1>1, <1>2, <1>5

\* With every player out of reach, nobody touches the ball.
LEMMA NobodyTouches ==
    ASSUME NEW t \in Frames, NEW b \in DOMAIN t, IsBall(t, b), Untouched(t, t[b].pos), NEW p
    PROVE  ~TouchedBy(t, p)
<1> SUFFICES ASSUME TouchedBy(t, p) PROVE FALSE OBVIOUS
<1>1. PICK i, c \in DOMAIN t: IsBall(t, c) /\ IsNear(t, t[c].pos, i) BY DEF TouchedBy
<1>2. BallAt(t, t[b].id, t[b].pos) /\ BallAt(t, t[c].id, t[c].pos) BY <1>1, BallShown
<1>3. t[b].pos = t[c].pos BY <1>2, OneBall
<1>4. t[i].class \in Players /\ Distance(t[i].pos, t[b].pos) <= Proximity
  BY <1>1, <1>3 DEF IsNear
<1>5. Distance(t[i].pos, t[b].pos) > Proximity BY <1>4 DEF Untouched
<1>6. t[i] \in Observations /\ t[b].pos \in Positions BY BallShown DEF Frames
<1>7. Distance(t[i].pos, t[b].pos) \in Nat
  BY <1>6, DistanceIsOne, KickEngineAssumption DEF Observations
<1> QED BY <1>4, <1>5, <1>7, KickEngineAssumption
-----------------------------------------------------------------------------
(* The history *)

\* A frame is added to the history, which keeps the others.
LEMMA Recorded ==
    ASSUME NEW n \in Nat, n = Len(seen), seen \in Seq(Entries),
           NEW shown \in Frames, NEW now \in Times, Remember(shown, now)
    PROVE  /\ seen' \in Seq(Entries)
           /\ Len(seen') = n + 1
           /\ \A i \in 1..n: seen'[i] = seen[i]
           /\ seen'[n + 1] = [at |-> now, tracks |-> shown]
BY DEF Remember, Entries

\* A ball that was followed from m to k was still followed then, one frame later.
LEMMA KeptUnbroken ==
    ASSUME NEW n \in Nat, \A i \in 1..n: seen'[i] = seen[i],
           NEW b, NEW m \in 1..n, NEW k \in m..n, Unbroken(b, m, k)
    PROVE  Unbroken(b, m, k)'
<1>1. \A i \in m..k: seen'[i] = seen[i] OBVIOUS
<1>2. \A i \in (m + 1)..k: seen'[i - 1] = seen[i - 1] /\ seen'[i] = seen[i] OBVIOUS
<1> QED BY <1>1, <1>2 DEF Unbroken

\* One frame that shows the ball is a run of its own.
LEMMA StartsUnbroken ==
    ASSUME NEW n \in Nat, NEW b, NEW x \in Positions, BallAt(seen'[n].tracks, b, x)
    PROVE  Unbroken(b, n, n)'
BY DEF Unbroken

\* A run grows by a frame that shows the same ball, no further off than max_jump.
LEMMA ExtendsUnbroken ==
    ASSUME NEW n \in Nat \ {0}, seen[n].tracks \in Frames, seen'[n + 1].tracks \in Frames,
           \A i \in 1..n: seen'[i] = seen[i],
           NEW b \in Ids, NEW x \in Positions, NEW y \in Positions,
           BallAt(seen[n].tracks, b, x), BallAt(seen'[n + 1].tracks, b, y),
           Distance(y, x) <= MaxJump,
           NEW m \in 1..n, Unbroken(b, m, n)
    PROVE  Unbroken(b, m, n + 1)'
<1>1. n \in Nat /\ n \in m..n OBVIOUS
<1>2. Unbroken(b, m, n)' BY <1>1, KeptUnbroken
<1>3. \A i \in m..(n + 1): \E z \in Positions: BallAt(seen'[i].tracks, b, z)
  <2>1. \A i \in m..n: \E z \in Positions: BallAt(seen'[i].tracks, b, z) BY <1>2 DEF Unbroken
  <2> QED BY <2>1
<1>4. \A i \in (m + 1)..(n + 1): \A u, v \in Positions:
          BallAt(seen'[i - 1].tracks, b, u) /\ BallAt(seen'[i].tracks, b, v)
             => Distance(u, v) <= MaxJump
  <2> SUFFICES ASSUME NEW i \in (m + 1)..(n + 1), NEW u \in Positions, NEW v \in Positions,
                      BallAt(seen'[i - 1].tracks, b, u), BallAt(seen'[i].tracks, b, v)
               PROVE  Distance(u, v) <= MaxJump
    OBVIOUS
  <2>1. CASE i \in (m + 1)..n BY <2>1, <1>2 DEF Unbroken
  <2>2. CASE i = n + 1
    <3>1. i - 1 = n /\ seen'[n] = seen[n] BY <2>2
    <3>2. u = x BY <3>1, OneBall
    <3>3. v = y BY <2>2, OneBall
    <3>4. Distance(x, y) = Distance(y, x) BY DistanceIsOne, KickEngineAssumption
    <3> QED BY <3>2, <3>3, <3>4
  <2> QED BY <2>1, <2>2
<1> QED BY <1>3, <1>4 DEF Unbroken
-----------------------------------------------------------------------------
(* Types *)

\* _update_contact leaves a contact or none.
LEMMA TouchTyped ==
    ASSUME NEW shown \in Frames, NEW x \in Positions, NEW now \in Times,
           NEW before \in Contacts \union {NoContact}, Touch(shown, x, now, before)
    PROVE  contact' \in Contacts \union {NoContact}
<1>1. CASE contact' = before BY <1>1
<1>2. CASE \E i \in DOMAIN shown:
              contact' = [player |-> shown[i].id,
                          frames |-> 1 + (IF before.player = shown[i].id
                                          THEN before.frames ELSE 0),
                          distance |-> Distance(shown[i].pos, x),
                          at |-> now]
  <2>1. PICK i \in DOMAIN shown:
              contact' = [player |-> shown[i].id,
                          frames |-> 1 + (IF before.player = shown[i].id
                                          THEN before.frames ELSE 0),
                          distance |-> Distance(shown[i].pos, x),
                          at |-> now]
    BY <1>2
  <2>2. shown[i].id \in Ids /\ shown[i].pos \in Positions BY FrameTyped
  <2>3. Distance(shown[i].pos, x) \in Nat BY <2>2, DistanceIsOne, KickEngineAssumption
  <2>4. before.frames \in Nat BY DEF Contacts, NoContact
  <2>5. 1 + (IF before.player = shown[i].id THEN before.frames ELSE 0) \in Nat \ {0} BY <2>4
  <2> QED BY <2>1, <2>2, <2>3, <2>5 DEF Contacts
<1> QED BY <1>1, <1>2 DEF Touch

\* The run and the contact that a frame continues have their types.
LEMMA RunTyped ==
    ASSUME TypeOK, NEW b
    PROVE  RunWith(b) \in Nat \ {0} /\ ContactWith(b) \in Contacts \union {NoContact}
BY DEF TypeOK, RunWith, ContactWith

\* The confidence of a kick is a number.
LEMMA ConfidenceTyped ==
    ASSUME NEW f \in Nat, NEW r \in Nat, r >= MinContinuity, NEW fast \in BOOLEAN
    PROVE  Confidence(f, r, fast) \in Nat
<1>1. MinContinuity \in Nat /\ MaxConfidence \in Nat BY KickEngineAssumption
<1>2. r - MinContinuity \in Nat BY <1>1
<1>3. LowerOf(f, 3) \in Nat /\ LowerOf(r - MinContinuity, 3) \in Nat BY <1>2 DEF LowerOf
<1>4. 45 + 5 * LowerOf(f, 3) + 5 * LowerOf(r - MinContinuity, 3)
         + (IF fast THEN 10 ELSE 0) \in Nat
  BY <1>3
<1> QED BY <1>1, <1>4 DEF Confidence, LowerOf

\* The history keeps its type.
LEMMA SeenTyped ==
    ASSUME TypeOK, NEW shown \in Frames, NEW now \in Times, Remember(shown, now)
    PROVE  seen' \in Seq(Entries)
BY DEF TypeOK, Remember, Entries

\* What _emit_kick appends.
Emitted(shown, now, i) ==
    [type |-> "kick_candidate", player |-> contact.player, ball |-> shown[i].id,
     start |-> StartOf(contact.at, now), end |-> now,
     confidence |-> Confidence(contact.frames, RunWith(shown[i].id),
        Distance(shown[i].pos, ball.pos) >= 2 * KickSpeed * (now - ball.at))]

\* The candidate that _emit_kick appends is one.
LEMMA KickTyped ==
    ASSUME TypeOK, NEW shown \in Frames, NEW now \in Times, NEW i \in DOMAIN shown,
           Released(shown, shown[i].id, shown[i].pos, now)
    PROVE  Emitted(shown, now, i) \in Kicks
<1>1. shown[i].id \in Ids BY FrameTyped
<1>2. contact \in Contacts BY DEF TypeOK, Released
<1>3. contact.player \in Ids /\ contact.frames \in Nat /\ contact.at \in Times
  BY <1>2 DEF Contacts
<1>4. StartOf(contact.at, now) \in Times BY <1>3 DEF StartOf
<1>5. RunWith(shown[i].id) \in Nat BY RunTyped
<1>6. RunWith(shown[i].id) >= MinContinuity BY DEF Released
<1>7. \A fast \in BOOLEAN: Confidence(contact.frames, RunWith(shown[i].id), fast) \in Nat
  BY <1>3, <1>5, <1>6, ConfidenceTyped
<1>8. (Distance(shown[i].pos, ball.pos) >= 2 * KickSpeed * (now - ball.at)) \in BOOLEAN
  OBVIOUS
<1>9. Confidence(contact.frames, RunWith(shown[i].id),
        Distance(shown[i].pos, ball.pos) >= 2 * KickSpeed * (now - ball.at)) \in Nat
  BY <1>7, <1>8
<1> QED BY <1>1, <1>3, <1>4, <1>9 DEF Emitted, Kicks

\* What one more frame may change, without the candidates handed out.
EngineTypes ==
    /\ ball \in Balls \union {NoBall}
    /\ continuity \in Nat
    /\ contact \in Contacts \union {NoContact}
    /\ lastKick \in Times \union {Never}
    /\ kicks \in Seq(Kicks)
    /\ seen \in Seq(Entries)

\* A frame adds one kick at most, and it ends there.
KickMayEnd(now) ==
    \/ kicks' = kicks
    \/ \E k \in Kicks: k.end = now /\ kicks' = Append(kicks, k)

\* observe keeps the types, and adds one kick at most, that ends at the frame.
LEMMA ObserveTyped ==
    ASSUME TypeOK, NEW shown \in Frames, NEW now \in Times, Observe(shown, now)
    PROVE  EngineTypes' /\ KickMayEnd(now) /\ Remember(shown, now)
<1>1. Remember(shown, now) BY DEF Observe, LoseBall, Jump, Follow, Kick
<1>2. seen' \in Seq(Entries) BY <1>1, SeenTyped
<1>3. CASE LoseBall(shown, now)
  <2>1. ball' = NoBall /\ continuity' = 0 /\ contact' = NoContact
    BY <1>3 DEF LoseBall, Forget
  <2>2. UNCHANGED <<lastKick, kicks>> BY <1>3 DEF LoseBall
  <2> QED BY <1>1, <1>2, <2>1, <2>2 DEF TypeOK, EngineTypes, KickMayEnd
<1>4. CASE Jump(shown, now)
  <2>1. PICK i \in DOMAIN shown:
            ball' = [id |-> shown[i].id, pos |-> shown[i].pos, at |-> now]
    BY <1>4 DEF Jump
  <2>2. ball' \in Balls BY <2>1, FrameTyped DEF Balls
  <2>3. continuity' = 0 /\ contact' = NoContact BY <1>4 DEF Jump, Forget
  <2>4. UNCHANGED <<lastKick, kicks>> BY <1>4 DEF Jump
  <2> QED BY <1>1, <1>2, <2>2, <2>3, <2>4 DEF TypeOK, EngineTypes, KickMayEnd
<1>5. CASE Follow(shown, now)
  <2>1. PICK i \in DOMAIN shown:
            /\ Touch(shown, shown[i].pos, now, ContactWith(shown[i].id))
            /\ continuity' = RunWith(shown[i].id)
            /\ ball' = [id |-> shown[i].id, pos |-> shown[i].pos, at |-> now]
    BY <1>5 DEF Follow
  <2>2. shown[i].id \in Ids /\ shown[i].pos \in Positions BY FrameTyped
  <2>3. ball' \in Balls BY <2>1, <2>2 DEF Balls
  <2>4. contact' \in Contacts \union {NoContact} BY <2>1, <2>2, RunTyped, TouchTyped
  <2>5. continuity' \in Nat BY <2>1, RunTyped
  <2>6. UNCHANGED <<lastKick, kicks>> BY <1>5 DEF Follow
  <2> QED BY <1>1, <1>2, <2>3, <2>4, <2>5, <2>6 DEF TypeOK, EngineTypes, KickMayEnd
<1>6. CASE Kick(shown, now)
  <2>1. PICK i \in DOMAIN shown:
            /\ Released(shown, shown[i].id, shown[i].pos, now)
            /\ continuity' = RunWith(shown[i].id)
            /\ ball' = [id |-> shown[i].id, pos |-> shown[i].pos, at |-> now]
            /\ kicks' = Append(kicks, Emitted(shown, now, i))
    BY <1>6 DEF Kick, Emitted
  <2>2. shown[i].id \in Ids /\ shown[i].pos \in Positions BY FrameTyped
  <2>3. ball' \in Balls BY <2>1, <2>2 DEF Balls
  <2>4. continuity' \in Nat BY <2>1, RunTyped
  <2>5. Emitted(shown, now, i) \in Kicks BY <2>1, KickTyped
  <2>6. kicks' \in Seq(Kicks) BY <2>1, <2>5 DEF TypeOK
  <2>7. Emitted(shown, now, i).end = now BY DEF Emitted
  <2>8. KickMayEnd(now) BY <2>1, <2>5, <2>7 DEF KickMayEnd
  <2>9. contact' = NoContact /\ lastKick' = now BY <1>6 DEF Kick, Forget
  <2> QED BY <1>1, <1>2, <2>3, <2>4, <2>6, <2>8, <2>9 DEF EngineTypes
<1> QED BY <1>3, <1>4, <1>5, <1>6 DEF Observe

\* Every step keeps the types: a frame, or drain_candidates.
LEMMA TypeStep ==
    ASSUME TypeOK, [EngineNext]_engine
    PROVE  TypeOK'
<1>1. ASSUME NEW shown \in Frames, NEW now \in Times, Observe(shown, now), UNCHANGED drained
      PROVE  TypeOK'
  <2>1. EngineTypes' /\ KickMayEnd(now) BY <1>1, ObserveTyped
  <2>2. drained \in 0..Len(kicks) /\ kicks \in Seq(Kicks) BY DEF TypeOK
  <2>3. Len(kicks') \in Nat /\ Len(kicks) <= Len(kicks') BY <2>1, <2>2 DEF KickMayEnd
  <2>4. drained' \in 0..Len(kicks') BY <1>1, <2>2, <2>3
  <2> QED BY <2>1, <2>4 DEF TypeOK, EngineTypes, Entries
<1>2. CASE Drain BY <1>2 DEF TypeOK, Drain, observing
<1>3. CASE UNCHANGED engine BY <1>3 DEF TypeOK, engine, observing
<1> QED BY <1>1, <1>2, <1>3 DEF EngineNext

\* An engine starts with its types.
LEMMA TypeInit == EngineInit => TypeOK
BY DEF EngineInit, TypeOK

\* Type correctness: the engine's variables keep their types, whatever the video shows,
\* and it never hands out more candidates than it found (drain_candidates).
THEOREM EngineTyped == EngineSpec => []TypeOK
BY TypeInit, TypeStep, PTL DEF EngineSpec
-----------------------------------------------------------------------------
(* What a frame adds *)

\* The frame is a run of its own, and lengthens every run of the ball that is followed.
LEMMA Grown ==
    ASSUME TypeOK, BallFits, NEW n \in Nat, n = Len(seen),
           NEW shown \in Frames, NEW now \in Times, Remember(shown, now),
           NEW i \in DOMAIN shown, IsBall(shown, i), ~Jumped(shown[i].id, shown[i].pos)
    PROVE  /\ Unbroken(shown[i].id, n + 1, n + 1)'
           /\ SameBall(shown[i].id) =>
                 /\ n # 0
                 /\ \A m \in 1..n: Unbroken(shown[i].id, m, n)
                                      => Unbroken(shown[i].id, m, n + 1)'
<1>1. seen \in Seq(Entries) BY DEF TypeOK, Entries
<1>2. /\ \A j \in 1..n: seen'[j] = seen[j]
      /\ seen'[n + 1] = [at |-> now, tracks |-> shown]
  BY <1>1, Recorded
<1>3. BallAt(shown, shown[i].id, shown[i].pos) /\ shown[i].id \in Ids
         /\ shown[i].pos \in Positions
  BY BallShown
<1>4. seen'[n + 1].tracks = shown BY <1>2
<1>5. Unbroken(shown[i].id, n + 1, n + 1)' BY <1>3, <1>4, StartsUnbroken
<1>6. ASSUME SameBall(shown[i].id)
      PROVE  /\ n # 0
             /\ \A m \in 1..n: Unbroken(shown[i].id, m, n) => Unbroken(shown[i].id, m, n + 1)'
  <2>1. ball # NoBall BY <1>3, <1>6, KickEngineAssumption DEF SameBall, NoBall
  <2>2. ball \in Balls BY <2>1 DEF TypeOK
  <2>3. n # 0 /\ BallAt(seen[n].tracks, shown[i].id, ball.pos)
    BY <1>1, <1>6, <2>1 DEF BallFits, SameBall
  <2>4. seen[n].tracks \in Frames
    <3>1. seen[n] \in Entries BY <1>1, <2>3
    <3> QED BY <3>1 DEF Entries
  <2>5. ball.pos \in Positions BY <2>2 DEF Balls
  <2>6. Distance(shown[i].pos, ball.pos) \in Nat /\ MaxJump \in Nat
    BY <1>3, <2>5, DistanceIsOne, KickEngineAssumption
  <2>7. ~(Distance(shown[i].pos, ball.pos) > MaxJump) BY <1>6 DEF Jumped
  <2>8. Distance(shown[i].pos, ball.pos) <= MaxJump BY <2>6, <2>7
  <2>9. ASSUME NEW m \in 1..n, Unbroken(shown[i].id, m, n)
        PROVE  Unbroken(shown[i].id, m, n + 1)'
    <3>1. n \in Nat \ {0} BY <2>3
    <3>2. seen'[n + 1].tracks \in Frames BY <1>4
    <3>3. BallAt(seen'[n + 1].tracks, shown[i].id, shown[i].pos) BY <1>3, <1>4
    <3> QED BY <1>2, <1>3, <2>3, <2>4, <2>5, <2>8, <2>9, <3>1, <3>2, <3>3, ExtendsUnbroken
  <2> QED BY <2>3, <2>9
<1> QED BY <1>5, <1>6

\* _ball_continuity counts a run that ends with the new frame.
LEMMA RunGrows ==
    ASSUME TypeOK, BallFits, RunFits, NEW n \in Nat, n = Len(seen),
           NEW shown \in Frames, NEW now \in Times, Remember(shown, now),
           NEW i \in DOMAIN shown, IsBall(shown, i), ~Jumped(shown[i].id, shown[i].pos)
    PROVE  \E m \in 1..(n + 1): /\ Unbroken(shown[i].id, m, n + 1)'
                                /\ (n + 1) - m + 1 >= RunWith(shown[i].id)
<1>1. Unbroken(shown[i].id, n + 1, n + 1)' BY Grown
<1>2. CASE SameBall(shown[i].id) /\ continuity > 0
  <2>1. PICK m \in 1..n: Unbroken(shown[i].id, m, n) /\ n - m + 1 >= continuity
    BY <1>2 DEF RunFits, SameBall
  <2>2. Unbroken(shown[i].id, m, n + 1)' BY <1>2, <2>1, Grown
  <2>3. RunWith(shown[i].id) = continuity + 1 BY <1>2 DEF RunWith
  <2>4. continuity \in Nat BY DEF TypeOK
  <2>5. m \in 1..(n + 1) /\ (n + 1) - m + 1 >= RunWith(shown[i].id) BY <2>1, <2>3, <2>4
  <2> QED BY <2>2, <2>5
<1>3. CASE ~(SameBall(shown[i].id) /\ continuity > 0)
  <2>1. RunWith(shown[i].id) = 1 BY <1>3 DEF RunWith, TypeOK
  <2>2. n + 1 \in 1..(n + 1) /\ (n + 1) - (n + 1) + 1 >= RunWith(shown[i].id) BY <2>1
  <2> QED BY <1>1, <2>2
<1> QED BY <1>2, <1>3

\* A set of frames that gains the new one gains one at least.
LEMMA OneMore ==
    ASSUME NEW m \in Nat, NEW n \in Nat, NEW c \in m..n, NEW S, NEW T,
           S \subseteq m..c, T \subseteq m..(n + 1), S \subseteq T, n + 1 \in T
    PROVE  Cardinality(S) \in Nat /\ Cardinality(T) \in Nat
           /\ Cardinality(S) + 1 <= Cardinality(T)
<1>1. IsFiniteSet(m..c) /\ IsFiniteSet(m..(n + 1)) BY FS_Interval
<1>2. IsFiniteSet(S) /\ IsFiniteSet(T) BY <1>1, FS_Subset
<1>3. n + 1 \notin S OBVIOUS
<1>4. /\ IsFiniteSet(S \union {n + 1})
      /\ Cardinality(S \union {n + 1}) = Cardinality(S) + 1
  BY <1>2, <1>3, FS_AddElement
<1>5. S \union {n + 1} \subseteq T OBVIOUS
<1>6. Cardinality(S \union {n + 1}) <= Cardinality(T) BY <1>2, <1>5, FS_Subset
<1>7. Cardinality(S) \in Nat /\ Cardinality(T) \in Nat BY <1>2, FS_CardinalityType
<1> QED BY <1>4, <1>6, <1>7

\* A kick that the history supports is supported by a longer one.
LEMMA KickKept ==
    ASSUME NEW n \in Nat, n = Len(seen), seen \in Seq(Entries),
           seen' \in Seq(Entries), Len(seen') = n + 1, \A i \in 1..n: seen'[i] = seen[i],
           NEW k, KickSupported(k)
    PROVE  KickSupported(k)'
<1>1. PICK j \in DOMAIN seen:
          /\ \E m, c \in 1..j: KickSeen(k, m, c, j)
          /\ \E m \in 1..j: Unbroken(k.ball, m, j) /\ j - m + 1 >= MinContinuity
  BY DEF KickSupported
<1>2. j \in 1..n /\ j \in DOMAIN seen' OBVIOUS
<1>3. PICK m \in 1..j, c \in 1..j: KickSeen(k, m, c, j) BY <1>1
<1>4. m <= c /\ c < j BY <1>3 DEF KickSeen
<1>5. \A i \in m..j: seen'[i] = seen[i] BY <1>2
<1>6. KickSeen(k, m, c, j)'
  <2>1. m \in 1..n /\ j \in m..n BY <1>2, <1>4
  <2>2. Unbroken(k.ball, m, j)'
    <3>1. Unbroken(k.ball, m, j) BY <1>3 DEF KickSeen
    <3> QED BY <2>1, <3>1, KeptUnbroken
  <2>3. {i \in m..c: TouchedBy(seen'[i].tracks, k.player)}
          = {i \in m..c: TouchedBy(seen[i].tracks, k.player)}
    <3>1. \A i \in m..c: seen'[i] = seen[i] BY <1>4, <1>5
    <3> QED BY <3>1
  <2>4. MinContactFrames <= Cardinality({i \in m..c: TouchedBy(seen'[i].tracks, k.player)})
    <3>1. MinContactFrames <= Cardinality({i \in m..c: TouchedBy(seen[i].tracks, k.player)})
      BY <1>3 DEF KickSeen
    <3> QED BY <2>3, <3>1
  <2>5. \A i \in m..(j - 1), p \in Ids:
            TouchedBy(seen'[i].tracks, p) => p = k.player /\ i <= c
    <3>1. \A i \in m..(j - 1): seen'[i] = seen[i] BY <1>4, <1>5
    <3>2. \A i \in m..(j - 1), p \in Ids:
              TouchedBy(seen[i].tracks, p) => p = k.player /\ i <= c
      BY <1>3 DEF KickSeen
    <3> QED BY <3>1, <3>2
  <2>6. seen'[c] = seen[c] /\ seen'[j] = seen[j] /\ seen'[j - 1] = seen[j - 1]
    <3>1. c \in m..j /\ j \in m..j /\ j - 1 \in m..j BY <1>4
    <3> QED BY <1>5, <3>1
  <2>7. /\ TouchedBy(seen'[c].tracks, k.player)
        /\ k.start = StartOf(seen'[c].at, k.end)
        /\ k.end = seen'[j].at
    BY <1>3, <2>6 DEF KickSeen
  <2>8. \A x, y \in Positions:
            BallAt(seen'[j - 1].tracks, k.ball, x) /\ BallAt(seen'[j].tracks, k.ball, y)
               => Distance(x, y) >= KickSpeed * (seen'[j].at - seen'[j - 1].at)
    BY <1>3, <2>6 DEF KickSeen
  <2> QED BY <1>4, <2>2, <2>4, <2>5, <2>7, <2>8 DEF KickSeen
<1>7. PICK r \in 1..j: Unbroken(k.ball, r, j) /\ j - r + 1 >= MinContinuity BY <1>1
<1>8. Unbroken(k.ball, r, j)'
  <2>1. r \in 1..n /\ j \in r..n BY <1>2
  <2> QED BY <1>7, <2>1, KeptUnbroken
<1>9. /\ \E u, v \in 1..j: KickSeen(k, u, v, j)'
      /\ \E u \in 1..j: Unbroken(k.ball, u, j)' /\ j - u + 1 >= MinContinuity
  BY <1>6, <1>7, <1>8
<1> QED BY <1>2, <1>9 DEF KickSupported

\* The kicks stay sound when a frame adds none.
LEMMA KicksKept ==
    ASSUME TypeOK, KicksSound, LastFits, NEW shown \in Frames, NEW now \in Times,
           Remember(shown, now), UNCHANGED <<lastKick, kicks>>
    PROVE  KicksSound'
<1>1. PICK n \in Nat: n = Len(seen) BY DEF TypeOK
<1>2. seen \in Seq(Entries) BY DEF TypeOK, Entries
<1>3. seen' \in Seq(Entries) /\ Len(seen') = n + 1 /\ \A i \in 1..n: seen'[i] = seen[i]
  BY <1>1, <1>2, Recorded
<1>4. KicksSupported'
  <2>1. \A l \in DOMAIN kicks: KickSupported(kicks[l]) BY DEF KicksSound, KicksSupported
  <2>2. ASSUME NEW k, KickSupported(k) PROVE KickSupported(k)'
    BY <1>1, <1>2, <1>3, <2>2, KickKept
  <2>3. kicks' = kicks OBVIOUS
  <2>4. ASSUME NEW l \in DOMAIN kicks, NEW k, k = kicks[l] PROVE KickSupported(k)'
    BY <2>1, <2>2, <2>4
  <2> QED BY <2>3, <2>4 DEF KicksSupported, KickSupported
<1>5. KicksApart' BY DEF KicksSound, KicksApart
<1> QED BY <1>4, <1>5 DEF KicksSound
-----------------------------------------------------------------------------
(* The contact *)

\* What it takes for the contact to fit the history.
LEMMA ContactMade ==
    ASSUME NEW k \in Nat, Len(seen') = k, NEW b, ball'.id = b, NEW m \in 1..k, NEW c \in m..k,
           Unbroken(b, m, k)',
           contact'.frames <=
              Cardinality({i \in m..c: TouchedBy(seen'[i].tracks, contact'.player)}),
           \A i \in m..k, p \in Ids: TouchedBy(seen'[i].tracks, p) => p = contact'.player /\ i <= c,
           TouchedBy(seen'[c].tracks, contact'.player),
           contact'.at = seen'[c].at
    PROVE  ContactFits'
<1>1. m \in 1..Len(seen') /\ c \in 1..Len(seen') /\ m <= c OBVIOUS
<1>2. Unbroken(ball.id, m, Len(seen))' BY DEF Unbroken
<1>3. ContactSeen(m, c)' BY <1>1, <1>2 DEF ContactSeen
<1> QED BY <1>1, <1>3 DEF ContactFits

\* A contact that the frame begins fits.
LEMMA ContactBegun ==
    ASSUME NEW k \in Nat \ {0}, Len(seen') = k, NEW b, ball'.id = b, Unbroken(b, k, k)',
           contact'.frames = 1, TouchedBy(seen'[k].tracks, contact'.player),
           \A p: TouchedBy(seen'[k].tracks, p) => p = contact'.player,
           contact'.at = seen'[k].at
    PROVE  ContactFits'
<1>1. {i \in k..k: TouchedBy(seen'[i].tracks, contact'.player)} = {k}
  <2>1. k..k = {k} OBVIOUS
  <2> QED BY <2>1
<1>2. contact'.frames <= Cardinality({i \in k..k: TouchedBy(seen'[i].tracks, contact'.player)})
  <2>1. Cardinality({k}) = 1 BY FS_Singleton
  <2>2. 1 <= Cardinality({k}) BY <2>1
  <2> QED BY <1>1, <2>2
<1>3. \A i \in k..k, p \in Ids: TouchedBy(seen'[i].tracks, p) => p = contact'.player /\ i <= k
  <2>1. \A i \in k..k: i = k /\ i <= k OBVIOUS
  <2> QED BY <2>1
<1>4. k \in 1..Len(seen') /\ k <= k OBVIOUS
<1>5. Unbroken(ball.id, k, Len(seen))' BY DEF Unbroken
<1>6. \A i \in k..Len(seen'), p \in Ids:
          TouchedBy(seen'[i].tracks, p) => p = contact'.player /\ i <= k
  BY <1>3
<1>7. ContactSeen(k, k)' BY <1>2, <1>4, <1>5, <1>6 DEF ContactSeen
<1> QED BY <1>4, <1>7 DEF ContactFits

\* The contact fits after a frame that follows the ball: continued, begun or kept.
LEMMA ContactFollows ==
    ASSUME TypeOK, BallFits, ContactFits, NEW n \in Nat, n = Len(seen),
           NEW shown \in Frames, NEW now \in Times, Remember(shown, now),
           NEW i \in DOMAIN shown, IsBall(shown, i), ~Jumped(shown[i].id, shown[i].pos),
           Touch(shown, shown[i].pos, now, ContactWith(shown[i].id)),
           ball'.id = shown[i].id
    PROVE  ContactFits'
<1>1. seen \in Seq(Entries) BY DEF TypeOK, Entries
<1>2. /\ Len(seen') = n + 1
      /\ \A j \in 1..n: seen'[j] = seen[j]
      /\ seen'[n + 1] = [at |-> now, tracks |-> shown]
  BY <1>1, Recorded
<1>3. seen'[n + 1].tracks = shown /\ seen'[n + 1].at = now BY <1>2
<1>4. shown[i].id \in Ids /\ shown[i].pos \in Positions BY FrameTyped
<1>5. ASSUME SameBall(shown[i].id), contact # NoContact
      PROVE  \E m \in 1..n: \E c \in m..n:
                /\ Unbroken(shown[i].id, m, n + 1)'
                /\ contact.frames
                      <= Cardinality({j \in m..c: TouchedBy(seen'[j].tracks, contact.player)})
                /\ \A j \in m..n, p \in Ids:
                      TouchedBy(seen'[j].tracks, p) => p = contact.player /\ j <= c
                /\ TouchedBy(seen'[c].tracks, contact.player)
                /\ contact.at = seen'[c].at
  <2>1. PICK m \in 1..n, c \in 1..n: ContactSeen(m, c) BY <1>5 DEF ContactFits
  <2>2. c \in m..n BY <2>1 DEF ContactSeen
  <2>3. Unbroken(shown[i].id, m, n) BY <1>5, <2>1 DEF ContactSeen, SameBall
  <2>4. Unbroken(shown[i].id, m, n + 1)' BY <1>5, <2>3, Grown
  <2>5. {j \in m..c: TouchedBy(seen'[j].tracks, contact.player)}
          = {j \in m..c: TouchedBy(seen[j].tracks, contact.player)}
    <3>1. \A j \in m..c: seen'[j] = seen[j] BY <1>2, <2>2
    <3> QED BY <3>1
  <2>6. contact.frames <= Cardinality({j \in m..c: TouchedBy(seen'[j].tracks, contact.player)})
    BY <2>1, <2>5 DEF ContactSeen
  <2>7. \A j \in m..n, p \in Ids:
            TouchedBy(seen'[j].tracks, p) => p = contact.player /\ j <= c
    <3>1. \A j \in m..n: seen'[j] = seen[j] BY <1>2
    <3>2. \A j \in m..n, p \in Ids: TouchedBy(seen[j].tracks, p) => p = contact.player /\ j <= c
      BY <2>1 DEF ContactSeen
    <3> QED BY <3>1, <3>2
  <2>8. TouchedBy(seen'[c].tracks, contact.player) /\ contact.at = seen'[c].at
    <3>1. seen'[c] = seen[c] BY <1>2
    <3> QED BY <2>1, <3>1 DEF ContactSeen
  <2> QED BY <2>2, <2>4, <2>6, <2>7, <2>8
<1>6. CASE Untouched(shown, shown[i].pos) /\ contact' = ContactWith(shown[i].id)
  <2>1. CASE contact' = NoContact BY <2>1 DEF ContactFits
  <2>2. CASE contact' # NoContact
    <3>1. SameBall(shown[i].id) /\ contact' = contact /\ contact # NoContact
      BY <1>6, <2>2 DEF ContactWith
    <3>2. PICK m \in 1..n: \E c \in m..n:
              /\ Unbroken(shown[i].id, m, n + 1)'
              /\ contact.frames
                    <= Cardinality({j \in m..c: TouchedBy(seen'[j].tracks, contact.player)})
              /\ \A j \in m..n, p \in Ids:
                    TouchedBy(seen'[j].tracks, p) => p = contact.player /\ j <= c
              /\ TouchedBy(seen'[c].tracks, contact.player)
              /\ contact.at = seen'[c].at
      BY <1>5, <3>1
    <3>3. PICK c \in m..n:
              /\ Unbroken(shown[i].id, m, n + 1)'
              /\ contact.frames
                    <= Cardinality({j \in m..c: TouchedBy(seen'[j].tracks, contact.player)})
              /\ \A j \in m..n, p \in Ids:
                    TouchedBy(seen'[j].tracks, p) => p = contact.player /\ j <= c
              /\ TouchedBy(seen'[c].tracks, contact.player)
              /\ contact.at = seen'[c].at
      BY <3>2
    <3>4. \A p: ~TouchedBy(seen'[n + 1].tracks, p) BY <1>3, <1>6, NobodyTouches
    <3>5. \A j \in m..(n + 1), p \in Ids:
              TouchedBy(seen'[j].tracks, p) => p = contact'.player /\ j <= c
      <4>1. \A j \in m..(n + 1): j \in m..n \/ j = n + 1 OBVIOUS
      <4> QED BY <3>1, <3>3, <3>4, <4>1
    <3>6. n + 1 \in Nat /\ m \in 1..(n + 1) /\ c \in m..(n + 1) OBVIOUS
    <3>7. /\ contact'.frames
                <= Cardinality({j \in m..c: TouchedBy(seen'[j].tracks, contact'.player)})
          /\ TouchedBy(seen'[c].tracks, contact'.player)
          /\ contact'.at = seen'[c].at
      BY <3>1, <3>3
    <3>8. Len(seen') = n + 1 /\ Unbroken(shown[i].id, m, n + 1)' BY <1>2, <3>3
    <3> HIDE <3>1
    <3> QED BY <3>5, <3>6, <3>7, <3>8, ContactMade
  <2> QED BY <2>1, <2>2
<1>7. ASSUME NEW q \in DOMAIN shown, IsNear(shown, shown[i].pos, q),
             contact' = [player |-> shown[q].id,
                         frames |-> 1 + (IF ContactWith(shown[i].id).player = shown[q].id
                                         THEN ContactWith(shown[i].id).frames ELSE 0),
                         distance |-> Distance(shown[q].pos, shown[i].pos),
                         at |-> now]
      PROVE  ContactFits'
  <2>1. shown[q].id \in Ids BY FrameTyped
  <2>2. contact'.player = shown[q].id /\ contact'.at = now BY <1>7
  <2>3. TouchedBy(seen'[n + 1].tracks, shown[q].id) BY <1>3, <1>7 DEF TouchedBy
  <2>4. \A p: TouchedBy(seen'[n + 1].tracks, p) => p = shown[q].id BY <1>3, <2>3, OneToucher
  <2>5. CASE ContactWith(shown[i].id).player = shown[q].id
    <3>1. ContactWith(shown[i].id) # NoContact
      BY <2>1, <2>5, KickEngineAssumption DEF NoContact
    <3>2. SameBall(shown[i].id) /\ contact # NoContact /\ contact.player = shown[q].id
             /\ contact'.frames = 1 + contact.frames
      BY <1>7, <2>5, <3>1 DEF ContactWith
    <3>3. PICK m \in 1..n: \E c \in m..n:
              /\ Unbroken(shown[i].id, m, n + 1)'
              /\ contact.frames
                    <= Cardinality({j \in m..c: TouchedBy(seen'[j].tracks, contact.player)})
              /\ \A j \in m..n, p \in Ids:
                    TouchedBy(seen'[j].tracks, p) => p = contact.player /\ j <= c
      BY <1>5, <3>2
    <3>4. PICK c \in m..n:
              /\ Unbroken(shown[i].id, m, n + 1)'
              /\ contact.frames
                    <= Cardinality({j \in m..c: TouchedBy(seen'[j].tracks, contact.player)})
              /\ \A j \in m..n, p \in Ids:
                    TouchedBy(seen'[j].tracks, p) => p = contact.player /\ j <= c
      BY <3>3
    <3>5. contact'.frames
             <= Cardinality({j \in m..(n + 1): TouchedBy(seen'[j].tracks, shown[q].id)})
      <4> DEFINE S == {j \in m..c: TouchedBy(seen'[j].tracks, shown[q].id)}
                 T == {j \in m..(n + 1): TouchedBy(seen'[j].tracks, shown[q].id)}
      <4>1. contact.frames <= Cardinality(S) BY <3>2, <3>4
      <4>2. m \in Nat /\ n + 1 \in m..(n + 1) /\ m..c \subseteq m..(n + 1) OBVIOUS
      <4>3. S \subseteq m..c /\ T \subseteq m..(n + 1) /\ S \subseteq T /\ n + 1 \in T
        BY <2>3, <4>2
      <4> HIDE DEF S, T
      <4>4. Cardinality(S) \in Nat /\ Cardinality(T) \in Nat
               /\ Cardinality(S) + 1 <= Cardinality(T)
        BY <4>2, <4>3, OneMore
      <4>5. contact.frames \in Nat BY <3>2 DEF TypeOK, Contacts
      <4>6. contact'.frames <= Cardinality(T) BY <3>2, <4>1, <4>4, <4>5
      <4> QED BY <4>6 DEF T
    <3>6. \A j \in m..(n + 1), p \in Ids:
              TouchedBy(seen'[j].tracks, p) => p = shown[q].id /\ j <= n + 1
      <4>1. \A j \in m..(n + 1): j <= n + 1 /\ (j \in m..n \/ j = n + 1) OBVIOUS
      <4> QED BY <2>4, <3>2, <3>4, <4>1
    <3>7. PICK k \in Nat: k = n + 1 OBVIOUS
    <3>8. m \in 1..k /\ k \in m..k BY <3>7
    <3>9. /\ Len(seen') = k
          /\ Unbroken(shown[i].id, m, k)'
          /\ contact'.frames
                <= Cardinality({j \in m..k: TouchedBy(seen'[j].tracks, contact'.player)})
          /\ \A j \in m..k, p \in Ids:
                TouchedBy(seen'[j].tracks, p) => p = contact'.player /\ j <= k
          /\ TouchedBy(seen'[k].tracks, contact'.player)
          /\ contact'.at = seen'[k].at
      BY <1>2, <1>3, <2>2, <2>3, <3>4, <3>5, <3>6, <3>7
    <3> QED BY <3>8, <3>9, ContactMade
  <2>6. CASE ContactWith(shown[i].id).player # shown[q].id
    <3>1. contact'.frames = 1 BY <1>7, <2>6
    <3>2. Unbroken(shown[i].id, n + 1, n + 1)' BY Grown
    <3>3. PICK k \in Nat \ {0}: k = n + 1 OBVIOUS
    <3>4. /\ Len(seen') = k
          /\ Unbroken(shown[i].id, k, k)'
          /\ TouchedBy(seen'[k].tracks, contact'.player)
          /\ \A p: TouchedBy(seen'[k].tracks, p) => p = contact'.player
          /\ contact'.at = seen'[k].at
      BY <1>2, <1>3, <2>2, <2>3, <2>4, <3>2, <3>3
    <3> QED BY <3>1, <3>4, ContactBegun
  <2> QED BY <2>5, <2>6
<1> QED BY <1>6, <1>7 DEF Touch
-----------------------------------------------------------------------------
(* The kick *)

\* A kick is supported by the history: its contact, then the release of the same ball.
LEMMA KickShown ==
    ASSUME TypeOK, BallFits, RunFits, ContactFits, NEW n \in Nat, n = Len(seen),
           NEW shown \in Frames, NEW now \in Times, Remember(shown, now),
           NEW i \in DOMAIN shown, IsBall(shown, i), ~Jumped(shown[i].id, shown[i].pos),
           Released(shown, shown[i].id, shown[i].pos, now),
           NEW k, k = Emitted(shown, now, i)
    PROVE  KickSupported(k)'
<1>1. seen \in Seq(Entries) BY DEF TypeOK, Entries
<1>2. /\ Len(seen') = n + 1 /\ seen' \in Seq(Entries)
      /\ \A j \in 1..n: seen'[j] = seen[j]
      /\ seen'[n + 1] = [at |-> now, tracks |-> shown]
  BY <1>1, Recorded
<1>3. /\ k.ball = shown[i].id /\ k.player = contact.player
      /\ k.start = StartOf(contact.at, now) /\ k.end = now
  BY DEF Emitted
<1>4. SameBall(k.ball) /\ contact # NoContact /\ ball.id = k.ball
  BY <1>3 DEF Released, SameBall
<1>5. PICK m \in 1..n, c \in 1..n: ContactSeen(m, c) BY <1>4 DEF ContactFits
<1>6. m <= c /\ c < n + 1 BY <1>5 DEF ContactSeen
<1>7. ball # NoBall BY FrameTyped, <1>3, <1>4, KickEngineAssumption DEF NoBall
<1>8. KickSeen(k, m, c, n + 1)'
  <2>1. Unbroken(k.ball, m, n + 1)'
    <3>1. Unbroken(shown[i].id, m, n) BY <1>3, <1>4, <1>5 DEF ContactSeen
    <3> QED BY <1>3, <1>4, <3>1, Grown
  <2>2. MinContactFrames <= Cardinality({j \in m..c: TouchedBy(seen'[j].tracks, k.player)})
    <3> DEFINE S == {j \in m..c: TouchedBy(seen[j].tracks, contact.player)}
    <3>1. {j \in m..c: TouchedBy(seen'[j].tracks, k.player)} = S
      <4>1. \A j \in m..c: seen'[j] = seen[j] BY <1>2, <1>6
      <4> QED BY <1>3, <4>1
    <3>2. contact.frames <= Cardinality(S) BY <1>5 DEF ContactSeen
    <3>3. S \subseteq m..c OBVIOUS
    <3> HIDE DEF S
    <3>4. Cardinality(S) \in Nat
      <4>1. IsFiniteSet(m..c) BY FS_Interval
      <4>2. IsFiniteSet(S) BY <3>3, <4>1, FS_Subset
      <4> QED BY <4>2, FS_CardinalityType
    <3>5. contact.frames \in Nat BY <1>4 DEF TypeOK, Contacts
    <3>6. MinContactFrames <= contact.frames BY <3>5, KickEngineAssumption DEF Released
    <3>7. MinContactFrames <= Cardinality(S)
      BY <3>2, <3>4, <3>5, <3>6, KickEngineAssumption
    <3> QED BY <3>1, <3>7
  <2>3. \A j \in m..n, p \in Ids: TouchedBy(seen'[j].tracks, p) => p = k.player /\ j <= c
    <3>1. \A j \in m..n: seen'[j] = seen[j] BY <1>2
    <3>2. \A j \in m..n, p \in Ids: TouchedBy(seen[j].tracks, p) => p = contact.player /\ j <= c
      BY <1>5 DEF ContactSeen
    <3> QED BY <1>3, <3>1, <3>2
  <2>4. m..((n + 1) - 1) = m..n /\ (n + 1) - 1 = n OBVIOUS
  <2>5. \A j \in m..((n + 1) - 1), p \in Ids:
            TouchedBy(seen'[j].tracks, p) => p = k.player /\ j <= c
    BY <2>3, <2>4
  <2>6. TouchedBy(seen'[c].tracks, k.player) /\ k.start = StartOf(seen'[c].at, k.end)
    <3>1. seen'[c] = seen[c] BY <1>2
    <3> QED BY <1>3, <1>5, <3>1 DEF ContactSeen
  <2>7. k.end = seen'[n + 1].at BY <1>2, <1>3
  <2>8. \A x, y \in Positions:
            BallAt(seen'[(n + 1) - 1].tracks, k.ball, x) /\ BallAt(seen'[n + 1].tracks, k.ball, y)
               => Distance(x, y) >= KickSpeed * (seen'[n + 1].at - seen'[(n + 1) - 1].at)
    <3> SUFFICES ASSUME NEW x \in Positions, NEW y \in Positions,
                        BallAt(seen'[(n + 1) - 1].tracks, k.ball, x),
                        BallAt(seen'[n + 1].tracks, k.ball, y)
                 PROVE  Distance(x, y)
                          >= KickSpeed * (seen'[n + 1].at - seen'[(n + 1) - 1].at)
      OBVIOUS
    <3>1. seen'[(n + 1) - 1] = seen[n] BY <1>2, <2>4
    <3>2. BallAt(seen[n].tracks, ball.id, ball.pos) /\ ball.at = seen[n].at
      BY <1>7 DEF BallFits
    <3>3. seen[n].tracks \in Frames
      <4>1. seen[n] \in Entries BY <1>1, <1>5
      <4> QED BY <4>1 DEF Entries
    <3>4. x = ball.pos BY <3>1, <3>2, <3>3, OneBall
    <3>5. seen'[n + 1].tracks = shown BY <1>2
    <3>6. y = shown[i].pos BY <3>5, BallShown, OneBall
    <3>7. Distance(shown[i].pos, ball.pos) >= KickSpeed * (now - ball.at) BY DEF Released
    <3>8. Distance(x, y) = Distance(y, x) BY DistanceIsOne, KickEngineAssumption
    <3>9. seen'[n + 1].at = now /\ seen'[(n + 1) - 1].at = ball.at BY <1>2, <3>1, <3>2
    <3> QED BY <3>4, <3>6, <3>7, <3>8, <3>9
  <2> QED BY <1>6, <2>1, <2>2, <2>5, <2>6, <2>7, <2>8 DEF KickSeen
<1>9. PICK r \in 1..(n + 1): /\ Unbroken(shown[i].id, r, n + 1)'
                             /\ (n + 1) - r + 1 >= RunWith(shown[i].id)
  BY RunGrows
<1>10. (n + 1) - r + 1 >= MinContinuity
  <2>1. RunWith(shown[i].id) \in Nat BY RunTyped
  <2>2. RunWith(shown[i].id) >= MinContinuity BY DEF Released
  <2> QED BY <1>9, <2>1, <2>2, KickEngineAssumption
<1>11. n + 1 \in DOMAIN seen' /\ m \in 1..(n + 1) /\ c \in 1..(n + 1) BY <1>2
<1>12. Unbroken(k.ball, r, n + 1)' BY <1>3, <1>9
<1>13. /\ \E u, v \in 1..(n + 1): KickSeen(k, u, v, n + 1)'
       /\ \E u \in 1..(n + 1): Unbroken(k.ball, u, n + 1)' /\ (n + 1) - u + 1 >= MinContinuity
  BY <1>8, <1>10, <1>11, <1>12
<1> QED BY <1>11, <1>13 DEF KickSupported

\* The last kick is older than a frame that is yet to come.
LEMMA LastKickSeen ==
    ASSUME TypeOK, KicksSound, LastFits, kicks # <<>>, NEW now \in Times, Later(now)
    PROVE  lastKick \in Nat /\ lastKick < now
<1>1. Len(kicks) \in DOMAIN kicks BY DEF TypeOK
<1>2. KickSupported(kicks[Len(kicks)]) BY <1>1 DEF KicksSound, KicksSupported
<1>3. PICK n \in DOMAIN seen: \E m, c \in 1..n: KickSeen(kicks[Len(kicks)], m, c, n)
  BY <1>2 DEF KickSupported
<1>4. lastKick = seen[n].at BY <1>3 DEF KickSeen, LastFits
<1>5. lastKick \in Times
  <2>1. seen \in Seq(Entries) BY DEF TypeOK, Entries
  <2>2. seen[n] \in Entries BY <2>1
  <2> QED BY <1>4, <2>2 DEF Entries
<1> QED BY <1>4, <1>5, KickEngineAssumption DEF Later

\* The kicks stay sound with one more, later than all of them.
LEMMA KickAdded ==
    ASSUME IInv, NEW shown \in Frames, NEW now \in Times, Later(now), Kick(shown, now)
    PROVE  KicksSound' /\ LastFits'
<1>1. PICK i \in DOMAIN shown:
          /\ IsBall(shown, i)
          /\ ~Jumped(shown[i].id, shown[i].pos)
          /\ Released(shown, shown[i].id, shown[i].pos, now)
          /\ kicks' = Append(kicks, Emitted(shown, now, i))
  BY DEF Kick, Emitted
<1>2. Remember(shown, now) /\ contact' = NoContact /\ lastKick' = now BY DEF Kick, Forget
<1>3. PICK n \in Nat: n = Len(seen) BY DEF IInv, TypeOK
<1>4. seen \in Seq(Entries) BY DEF IInv, TypeOK, Entries
<1>5. seen' \in Seq(Entries) /\ Len(seen') = n + 1 /\ \A j \in 1..n: seen'[j] = seen[j]
  BY <1>2, <1>3, <1>4, Recorded
<1>6. PICK e: e = Emitted(shown, now, i) OBVIOUS
<1>7. kicks \in Seq(Kicks) /\ e \in Kicks BY <1>1, <1>6, KickTyped DEF IInv, TypeOK
<1>8. /\ kicks' \in Seq(Kicks) /\ Len(kicks') = Len(kicks) + 1
      /\ \A l \in 1..Len(kicks): kicks'[l] = kicks[l]
      /\ kicks'[Len(kicks) + 1] = e
  BY <1>1, <1>6, <1>7
<1>9. e.end = now /\ e.start = StartOf(contact.at, now) BY <1>6 DEF Emitted
<1>10. KicksSupported'
  <2>1. KickSupported(e)' BY <1>1, <1>2, <1>3, <1>6, KickShown DEF IInv
  <2>2. ASSUME NEW l \in 1..Len(kicks), NEW k, k = kicks[l] PROVE KickSupported(k)'
    <3>1. KickSupported(k) BY <1>7, <2>2 DEF IInv, KicksSound, KicksSupported
    <3> QED BY <1>3, <1>4, <1>5, <3>1, KickKept
  <2>3. ASSUME NEW l \in DOMAIN kicks', NEW k, k = kicks'[l] PROVE KickSupported(k)'
    <3>1. l \in 1..Len(kicks) \/ l = Len(kicks) + 1 BY <1>7, <1>8
    <3>2. CASE l \in 1..Len(kicks) BY <1>8, <2>2, <2>3, <3>2
    <3>3. CASE l = Len(kicks) + 1
      <4>1. k = e BY <1>8, <2>3, <3>3
      <4> QED BY <2>1, <4>1
    <3> QED BY <3>1, <3>2, <3>3
  <2> QED BY <2>3 DEF KicksSupported, KickSupported
<1>11. ASSUME kicks # <<>>
       PROVE  e.start > kicks[Len(kicks)].end /\ e.end - kicks[Len(kicks)].end >= Cooldown
  <2>1. lastKick = kicks[Len(kicks)].end BY <1>11 DEF IInv, LastFits
  <2>2. contact # NoContact BY <1>1 DEF Released
  <2>3. contact.at > lastKick BY <1>11, <2>2 DEF IInv, LastFits
  <2>4. lastKick \in Nat BY <1>11, LastKickSeen DEF IInv
  <2>5. contact.at \in Nat BY <2>2, KickEngineAssumption DEF IInv, TypeOK, Contacts
  <2>6. contact.at # 0 BY <2>3, <2>4, <2>5
  <2>7. e.start = contact.at BY <1>9, <2>6 DEF StartOf
  <2>8. now - lastKick >= Cooldown BY <1>1 DEF Released
  <2> QED BY <1>9, <2>1, <2>3, <2>7, <2>8
<1>12. KicksApart'
  <2> SUFFICES ASSUME NEW l \in 2..Len(kicks')
               PROVE  /\ kicks'[l].start > kicks'[l - 1].end
                      /\ kicks'[l].end - kicks'[l - 1].end >= Cooldown
    BY DEF KicksApart
  <2>1. Len(kicks) \in Nat BY <1>7
  <2>2. CASE l \in 2..Len(kicks)
    <3>1. kicks'[l] = kicks[l] /\ kicks'[l - 1] = kicks[l - 1] BY <1>8, <2>2
    <3> QED BY <2>2, <3>1 DEF IInv, KicksSound, KicksApart
  <2>3. CASE l = Len(kicks) + 1
    <3>1. kicks # <<>> /\ l - 1 = Len(kicks) /\ Len(kicks) \in 1..Len(kicks)
      BY <1>7, <2>1, <2>3
    <3>2. kicks'[l] = e /\ kicks'[l - 1] = kicks[Len(kicks)] BY <1>8, <2>3, <3>1
    <3> QED BY <1>11, <3>1, <3>2
  <2> QED BY <1>8, <2>1, <2>2, <2>3
<1>13. LastFits'
  <2>1. kicks' # <<>> BY <1>7, <1>8
  <2>2. lastKick' = kicks'[Len(kicks')].end BY <1>2, <1>8, <1>9
  <2> QED BY <1>2, <2>1, <2>2 DEF LastFits
<1> QED BY <1>10, <1>12, <1>13 DEF KicksSound

\* _last_ball is the ball of the new frame.
LEMMA BallFollows ==
    ASSUME TypeOK, NEW shown \in Frames, NEW now \in Times, Remember(shown, now),
           NEW i \in DOMAIN shown, IsBall(shown, i),
           ball' = [id |-> shown[i].id, pos |-> shown[i].pos, at |-> now]
    PROVE  BallFits'
<1>1. PICK n \in Nat: n = Len(seen) BY DEF TypeOK
<1>2. seen \in Seq(Entries) BY DEF TypeOK, Entries
<1>3. Len(seen') = n + 1 /\ seen'[n + 1] = [at |-> now, tracks |-> shown]
  BY <1>1, <1>2, Recorded
<1>4. BallAt(shown, shown[i].id, shown[i].pos) /\ shown[i].id \in Ids BY BallShown
<1>5. ball' # NoBall BY <1>4, KickEngineAssumption DEF NoBall
<1>6. seen' # <<>> BY <1>3
<1>7. seen'[Len(seen')].tracks = shown /\ seen'[Len(seen')].at = now BY <1>3
<1> QED BY <1>4, <1>5, <1>6, <1>7 DEF BallFits

\* The run fits after a frame that follows the ball.
LEMMA RunFollows ==
    ASSUME TypeOK, BallFits, RunFits, NEW shown \in Frames, NEW now \in Times,
           Remember(shown, now), NEW i \in DOMAIN shown, IsBall(shown, i),
           ~Jumped(shown[i].id, shown[i].pos),
           ball'.id = shown[i].id, continuity' = RunWith(shown[i].id)
    PROVE  RunFits'
<1>1. PICK n \in Nat: n = Len(seen) BY DEF TypeOK
<1>2. seen \in Seq(Entries) BY DEF TypeOK, Entries
<1>3. Len(seen') = n + 1 BY <1>1, <1>2, Recorded
<1>4. PICK m \in 1..(n + 1): /\ Unbroken(shown[i].id, m, n + 1)'
                             /\ (n + 1) - m + 1 >= RunWith(shown[i].id)
  BY <1>1, RunGrows
<1>5. Unbroken(ball.id, m, Len(seen))' BY <1>3, <1>4 DEF Unbroken
<1>6. m \in 1..Len(seen') /\ Len(seen') - m + 1 >= continuity' BY <1>3, <1>4
<1> QED BY <1>5, <1>6 DEF RunFits

\* A frame keeps the invariant, in each of its four cases.
LEMMA ObserveKeeps ==
    ASSUME IInv, NEW shown \in Frames, NEW now \in Times, Later(now), Observe(shown, now)
    PROVE  BallFits' /\ RunFits' /\ ContactFits' /\ LastFits' /\ KicksSound'
<1>1. CASE LoseBall(shown, now)
  <2>1. ball' = NoBall /\ continuity' = 0 /\ contact' = NoContact
    BY <1>1 DEF LoseBall, Forget
  <2>2. Remember(shown, now) /\ UNCHANGED <<lastKick, kicks>> BY <1>1 DEF LoseBall
  <2>3. BallFits' /\ RunFits' /\ ContactFits' BY <2>1 DEF BallFits, RunFits, ContactFits
  <2>4. LastFits' BY <2>1, <2>2 DEF IInv, LastFits
  <2>5. KicksSound' BY <2>2, KicksKept DEF IInv
  <2> QED BY <2>3, <2>4, <2>5
<1>2. CASE Jump(shown, now)
  <2>1. PICK i \in DOMAIN shown:
            /\ IsBall(shown, i)
            /\ ball' = [id |-> shown[i].id, pos |-> shown[i].pos, at |-> now]
    BY <1>2 DEF Jump
  <2>2. /\ continuity' = 0 /\ contact' = NoContact
        /\ Remember(shown, now) /\ UNCHANGED <<lastKick, kicks>>
    BY <1>2 DEF Jump, Forget
  <2>3. BallFits' BY <2>1, <2>2, BallFollows DEF IInv
  <2>4. RunFits' /\ ContactFits' BY <2>2 DEF RunFits, ContactFits
  <2>5. LastFits' BY <2>2 DEF IInv, LastFits
  <2>6. KicksSound' BY <2>2, KicksKept DEF IInv
  <2> QED BY <2>3, <2>4, <2>5, <2>6
<1>3. CASE Follow(shown, now)
  <2>1. PICK i \in DOMAIN shown:
            /\ IsBall(shown, i)
            /\ ~Jumped(shown[i].id, shown[i].pos)
            /\ Touch(shown, shown[i].pos, now, ContactWith(shown[i].id))
            /\ continuity' = RunWith(shown[i].id)
            /\ ball' = [id |-> shown[i].id, pos |-> shown[i].pos, at |-> now]
    BY <1>3 DEF Follow
  <2>2. Remember(shown, now) /\ UNCHANGED <<lastKick, kicks>> BY <1>3 DEF Follow
  <2>3. ball'.id = shown[i].id BY <2>1
  <2>4. BallFits' BY <2>1, <2>2, BallFollows DEF IInv
  <2>5. RunFits' BY <2>1, <2>2, <2>3, RunFollows DEF IInv
  <2>6. ContactFits'
    <3>1. PICK n \in Nat: n = Len(seen) BY DEF IInv, TypeOK
    <3> QED BY <2>1, <2>2, <2>3, <3>1, ContactFollows DEF IInv
  <2>7. LastFits'
    <3>1. contact' # NoContact => contact' = contact \/ contact'.at = now
      BY <2>1 DEF Touch, ContactWith
    <3>2. CASE kicks = <<>> BY <2>2, <3>2 DEF IInv, LastFits
    <3>3. CASE kicks # <<>>
      <4>1. lastKick \in Nat /\ lastKick < now BY <3>3, LastKickSeen DEF IInv
      <4>2. now > lastKick BY <4>1, KickEngineAssumption
      <4>3. contact' # NoContact => contact'.at > lastKick
        BY <3>1, <3>3, <4>2 DEF IInv, LastFits
      <4> QED BY <2>2, <3>3, <4>3 DEF IInv, LastFits
    <3> QED BY <3>2, <3>3
  <2>8. KicksSound' BY <2>2, KicksKept DEF IInv
  <2> QED BY <2>4, <2>5, <2>6, <2>7, <2>8
<1>4. CASE Kick(shown, now)
  <2>1. PICK i \in DOMAIN shown:
            /\ IsBall(shown, i)
            /\ ~Jumped(shown[i].id, shown[i].pos)
            /\ continuity' = RunWith(shown[i].id)
            /\ ball' = [id |-> shown[i].id, pos |-> shown[i].pos, at |-> now]
    BY <1>4 DEF Kick
  <2>2. Remember(shown, now) /\ contact' = NoContact BY <1>4 DEF Kick, Forget
  <2>3. ball'.id = shown[i].id BY <2>1
  <2>4. BallFits' BY <2>1, <2>2, BallFollows DEF IInv
  <2>5. RunFits' BY <2>1, <2>2, <2>3, RunFollows DEF IInv
  <2>6. ContactFits' BY <2>2 DEF ContactFits
  <2>7. KicksSound' /\ LastFits' BY <1>4, KickAdded
  <2> QED BY <2>4, <2>5, <2>6, <2>7
<1> QED BY <1>1, <1>2, <1>3, <1>4 DEF Observe

\* Every step keeps the invariant.
LEMMA InvStep ==
    ASSUME IInv, [EngineNext]_engine
    PROVE  IInv'
<1>1. TypeOK' BY TypeStep DEF IInv
<1>2. ASSUME NEW shown \in Frames, NEW now \in Times, Later(now), Observe(shown, now)
      PROVE  BallFits' /\ RunFits' /\ ContactFits' /\ LastFits' /\ KicksSound'
  BY <1>2, ObserveKeeps
<1>3. ASSUME UNCHANGED observing
      PROVE  BallFits' /\ RunFits' /\ ContactFits' /\ LastFits' /\ KicksSound'
  <2>1. ball' = ball /\ continuity' = continuity /\ contact' = contact
           /\ lastKick' = lastKick /\ kicks' = kicks /\ seen' = seen
    BY <1>3 DEF observing
  <2>2. BallFits' BY <2>1 DEF IInv, BallFits
  <2>3. RunFits' BY <2>1 DEF IInv, RunFits, Unbroken
  <2>4. ContactFits' BY <2>1 DEF IInv, ContactFits, ContactSeen, Unbroken
  <2>5. LastFits' BY <2>1 DEF IInv, LastFits
  <2>6. KicksSupported'
    <3>1. ASSUME NEW k, KickSupported(k) PROVE KickSupported(k)'
      <4>1. ASSUME NEW b, NEW m, NEW n, Unbroken(b, m, n) PROVE Unbroken(b, m, n)'
        BY <2>1, <4>1 DEF Unbroken
      <4>2. ASSUME NEW m, NEW c, NEW n, KickSeen(k, m, c, n) PROVE KickSeen(k, m, c, n)'
        BY <2>1, <4>1, <4>2 DEF KickSeen
      <4> QED BY <2>1, <3>1, <4>1, <4>2 DEF KickSupported
    <3>2. ASSUME NEW l \in DOMAIN kicks, NEW k, k = kicks[l] PROVE KickSupported(k)'
      BY <3>1, <3>2 DEF IInv, KicksSound, KicksSupported
    <3> QED BY <2>1, <3>2 DEF KicksSupported, KickSupported
  <2>7. KicksApart' BY <2>1 DEF IInv, KicksSound, KicksApart
  <2> QED BY <2>2, <2>3, <2>4, <2>5, <2>6, <2>7 DEF KicksSound
<1>4. BallFits' /\ RunFits' /\ ContactFits' /\ LastFits' /\ KicksSound'
  BY <1>2, <1>3 DEF EngineNext, Drain, engine
<1> QED BY <1>1, <1>4 DEF IInv

\* An engine starts with the invariant.
LEMMA InvInit == EngineInit => IInv
<1> SUFFICES ASSUME EngineInit PROVE IInv OBVIOUS
<1>1. TypeOK BY TypeInit
<1>2. BallFits /\ RunFits /\ ContactFits /\ LastFits
  BY DEF EngineInit, BallFits, RunFits, ContactFits, LastFits
<1>3. kicks = <<>> /\ DOMAIN kicks = {} /\ 2..Len(kicks) = {} BY DEF EngineInit
<1>4. KicksSound BY <1>3 DEF KicksSound, KicksSupported, KicksApart
<1> QED BY <1>1, <1>2, <1>4 DEF IInv

\* Every candidate (_emit_kick) is shown by the frames observed, and no kick is told twice:
\* for every video, every setting and any number of shown.
THEOREM KicksAreSound == EngineSpec => []KicksSound
<1>1. IInv => KicksSound BY DEF IInv
<1> QED BY <1>1, InvInit, InvStep, PTL DEF EngineSpec

-----------------------------------------------------------------------------
(* The invariant: what the variables of a chunk still know of its frames   *)

\* The rate is one of at most one frame in a unit of time.
LEMMA RateFits == IsRate(Fps, UnitsPerSecond)
BY FrameLoopAssumption DEF IsRate

\* The frame of a time, of one no earlier, and of the begin.
LEMMA FramesOfTimes ==
    ASSUME NEW x \in Nat, NEW y \in Nat, x <= y
    PROVE  FrameOf(x) \in Nat /\ FrameOf(y) \in Nat /\ FrameOf(x) <= FrameOf(y)
BY RateFits, FrameIsNear, LaterFrame DEF FrameOf

\* The frame of a time is a number.
LEMMA NumberTyped ==
    ASSUME NEW x \in Nat
    PROVE  FrameOf(x) \in Nat
BY FramesOfTimes

\* The video begins with its frame 0.
LEMMA FirstIsZero == FrameOf(0) = 0
<1>1. PICK k \in Nat \ {0}: k = Fps[2] * UnitsPerSecond
  BY RateFits, FrameIsNear DEF IsRate
<1>2. PICK b \in Nat: b = FrameOf(0) BY FramesOfTimes
<1>3. 0 \in Nat /\ 0 * Fps[1] = 0 BY RateFits DEF IsRate
<1>4. 2 * (b * k) <= 2 * (0 * Fps[1]) + k BY <1>1, <1>2, <1>3, RateFits, FrameIsNear DEF FrameOf
<1>5. b >= 1 => b * k >= k BY <1>1, <1>2
<1>6. b * k \in Nat BY <1>1, <1>2
<1> QED BY <1>1, <1>2, <1>3, <1>4, <1>5, <1>6

\* The time of a frame.
LEMMA TimeTyped ==
    ASSUME NEW f \in Nat
    PROVE  Time(f) \in Nat
<1>1. PICK k: k = Fps[2] * UnitsPerSecond OBVIOUS
<1> QED BY <1>1, RateFits, TimeIsNear DEF Time

\* Time goes on from frame to frame, rounded as it is.
LEMMA TimesRise ==
    ASSUME NEW f \in Nat, NEW g \in Nat, f < g
    PROVE  Time(f) < Time(g)
<1>1. PICK n \in Nat \ {0}, k \in Nat \ {0}: n = Fps[1] /\ k = Fps[2] * UnitsPerSecond
  BY RateFits, FrameIsNear DEF IsRate
<1>2. PICK t \in Nat, u \in Nat: t = Time(f) /\ u = Time(g) BY TimeTyped
<1>3. 2 * (t * n) <= 2 * (f * k) + n BY <1>1, <1>2, RateFits, TimeIsNear DEF Time
<1>4. 2 * (g * k) <= 2 * (u * n) + n BY <1>1, <1>2, RateFits, TimeIsNear DEF Time
<1>5. n <= k BY <1>1, RateFits DEF IsRate
<1> SUFFICES ASSUME u <= t PROVE FALSE BY <1>2
<1>6. (f + 1) * k <= g * k BY <1>1
<1>7. u * n <= t * n BY <1>1, <1>2
<1>8. (f + 1) * k = f * k + k BY <1>1
<1>9. n = k /\ 2 * (t * n) = 2 * (f * k) + n
  <2>1. f * k \in Nat /\ g * k \in Nat BY <1>1
  <2>2. t * n \in Nat /\ u * n \in Nat BY <1>1, <1>2
  <2>3. PICK a \in Nat, b \in Nat, c \in Nat, d \in Nat:
           a = f * k /\ b = g * k /\ c = t * n /\ d = u * n
    BY <2>1, <2>2
  <2>4. a + k <= b /\ 2 * b <= 2 * d + n /\ d <= c /\ 2 * c <= 2 * a + n
    BY <1>3, <1>4, <1>6, <1>7, <1>8, <2>3
  <2>5. n = k /\ 2 * c = 2 * a + n BY <1>1, <1>5, <2>4
  <2> QED BY <2>3, <2>5
<1>10. (2 * t) * n = (2 * f + 1) * n
  <2>1. (2 * t) * n = 2 * (t * n) /\ (2 * f + 1) * n = 2 * (f * n) + n BY <1>1, <1>2
  <2> QED BY <1>9, <2>1
<1>11. 2 * t = 2 * f + 1 BY <1>1, <1>2, <1>10
<1> QED BY <1>2, <1>11

\* A frame before that of a time is before that time.
LEMMA BeforeBorder ==
    ASSUME NEW border \in Nat, NEW f \in Nat, f < FrameOf(border)
    PROVE  Time(f) < border
<1>1. PICK t \in Nat: t = Time(f) BY TimeTyped
<1>2. t >= border => f < f BY <1>1, RateFits, BordersPart DEF FrameOf, Time
<1> QED BY <1>1, <1>2

\* There is a chunk at work.
Working == chunk <= Len(Chunks)

\* The first id of the chunk at work, less one.
Base == (chunk - 1) * NamespaceSize

\* Where the run of chunks stands.
PlanFits ==
    /\ chunk \in 1..(Len(Chunks) + 1)
    /\ frame \in 0..FrameOf(Duration)
    /\ Working => FrameOf(Window.context) <= frame /\ frame <= FrameOf(Window.end)
    /\ finished \in BOOLEAN
    /\ finished => ~Working

\* What the chunks put out so far, and what is left of it to this one.
Border == IF Working THEN Window.output ELSE Duration

\* What the n-th chunk writes.
Part(n) == Written(Chunks[n], Fps, UnitsPerSecond)

\* In order, and none twice.
Rises(s) == \A m, n \in DOMAIN s: m < n => s[m] < s[n]

\* The output is what the chunks before this one write; of this one, it is written what has gone by.
OutputFits ==
    /\ output \in Seq(Nat) /\ Rises(output)
    /\ ToSet(output) = UNION {Part(n): n \in 1..(chunk - 1)}
    /\ written \in Seq(Nat) /\ Rises(written)
    /\ ToSet(written) = IF Working THEN {f \in Part(chunk): f < frame} ELSE {}

\* The tracks that the tracker has: none that was missed for too long.
States == [class: Classes, pos: Positions, missed: 0..MaxMissed, hits: Nat \ {0}]

\* The n-th frame shows that track, there.
Shows(n, id, class, pos) ==
    \E s \in DOMAIN seen[n].tracks:
        /\ seen[n].tracks[s].id = id
        /\ seen[n].tracks[s].class = class
        /\ seen[n].tracks[s].pos = pos

\* A track of the tracker was last seen so many frames ago, where it is, and so often.
TrackFits(t) ==
    LET last == Len(seen) - tracks[t].missed IN
    /\ last \in DOMAIN seen
    /\ Shows(last, Base + t, tracks[t].class, tracks[t].pos)
    /\ Sightings(Base + t, last + 1, Len(seen)) = {}
    /\ Cardinality(Sightings(Base + t, 1, Len(seen))) = tracks[t].hits
    /\ \A n \in DOMAIN seen: \A s \in DOMAIN seen[n].tracks:
          seen[n].tracks[s].id = Base + t => seen[n].tracks[s].class = tracks[t].class

\* The tracks have ids that were given, and their types.
TracksTyped ==
    /\ nextTrack \in Nat \ {0}
    /\ DOMAIN tracks \subseteq 1..(nextTrack - 1)
    /\ tracks \in [DOMAIN tracks -> States]

\* The tracks agree with the history, which shows none but tracks that were begun.
TracksFit ==
    /\ TracksTyped
    /\ \A t \in DOMAIN tracks: TrackFits(t)
    /\ \A n \in DOMAIN seen: \A s \in DOMAIN seen[n].tracks:
          \E t \in 1..(nextTrack - 1): seen[n].tracks[s].id = Base + t
    /\ TracksAreContinuous

\* A trail ends in a frame that has gone by.
TrailFits(trail) ==
    /\ trail.points \in Seq([pos: Positions, at: Nat]) /\ Len(trail.points) > 0
    /\ trail.last \in Nat /\ trail.last < frame

\* The trails agree with the frames that failed, and with the history.
TrailsFit ==
    /\ failed \subseteq 0..(frame - 1)
    /\ \A id \in DOMAIN trails: TrailFits(trails[id])
    /\ TrailsAreUnbroken

\* The engine told its kicks in the order of their ends, all of them past and in its window.
KicksFit ==
    /\ \A i \in DOMAIN kicks: kicks[i].end < Now /\ (Working => kicks[i].end < Window.end)
    /\ \A i, j \in DOMAIN kicks: i < j => kicks[i].end < kicks[j].end

\* No two of the list end together: a kick is known by its end.
EndsDiffer(list) == \A i, j \in DOMAIN list: i # j => list[i].end # list[j].end

\* A chunk keeps the drained kicks of its own part, each of them once.
KeptFits ==
    /\ kept \in Seq(Kicks) /\ EndsDiffer(kept)
    /\ ToSet(kept) = (IF Working THEN Kept ELSE {})

\* A chunk lists kicks of its own part of the video, so that two never list the same one.
ListedFits ==
    /\ listed \in Seq(Kicks) /\ EndsDiffer(listed)
    /\ \A i \in DOMAIN listed:
          /\ listed[i].end < Border
          /\ \E n \in 1..(chunk - 1):
                Chunks[n].output <= listed[i].end /\ listed[i].end < Chunks[n].end

\* A kick waits to be drained only while every frame since it failed.
WaitingFits ==
    \A n \in (drained + 1)..Len(kicks): \A f \in 0..(frame - 1):
        Time(f) >= kicks[n].end => f \in failed

\* What is kept, what is listed and what waits.
ListsFit == KeptFits /\ ListedFits /\ WaitingFits

\* All that a chunk knows of its frames.
FrameInv ==
    /\ Later(Now)
    /\ PlanFits
    /\ OutputFits
    /\ TracksFit
    /\ TrailsFit
    /\ KicksFit
    /\ ListsFit

-----------------------------------------------------------------------------
(* IoUTracker.update: one detection after the other                        *)

\* What the detector tells, what the engine is told, and what the tracker keeps.
Detections == [class: Classes, pos: Positions]
Sighted == [id: Nat \ {0}, class: Classes, pos: Positions, confirmed: BOOLEAN]
Tracked == [class: Classes, pos: Positions, missed: Nat, hits: Nat \ {0}]

\* A detection has begun a track or continues one within its reach.
Continues(m, o) ==
    /\ o.id \in m.claimed
    /\ m.tracks[o.id].class = o.class /\ m.tracks[o.id].pos = o.pos
    /\ m.tracks[o.id].missed = 0
    /\ o.confirmed = (m.tracks[o.id].hits >= ConfirmMinHits)
    /\ \/ o.id >= nextTrack /\ m.tracks[o.id].hits = 1
       \/ /\ o.id \in DOMAIN tracks
          /\ tracks[o.id].class = o.class
          /\ Away(tracks[o.id].pos, o.pos) <= Reach[o.class]
          /\ m.tracks[o.id].hits = tracks[o.id].hits + 1

\* A track that no detection of the frame claimed.
IsMissed(m, t) ==
    /\ t \in DOMAIN tracks
    /\ m.tracks[t].class = tracks[t].class /\ m.tracks[t].pos = tracks[t].pos
    /\ m.tracks[t].missed = tracks[t].missed + 1
    /\ m.tracks[t].hits = tracks[t].hits

\* No track is claimed twice in a frame, and none is lost.
MatchFits(m) ==
    /\ m.next >= nextTrack
    /\ m.claimed \subseteq DOMAIN m.tracks /\ DOMAIN m.tracks \subseteq 1..(m.next - 1)
    /\ m.tracks \in [DOMAIN m.tracks -> Tracked]
    /\ \A i, j \in DOMAIN m.observed: i # j => m.observed[i].id # m.observed[j].id
    /\ \A t \in m.claimed: \E n \in DOMAIN m.observed: m.observed[n].id = t
    /\ \A n \in DOMAIN m.observed: Continues(m, m.observed[n])
    /\ \A t \in DOMAIN m.tracks \ m.claimed: IsMissed(m, t)

\* What the loop over the detections of a frame builds.
Matchings == [tracks: UNION {[D -> Tracked]: D \in SUBSET Nat}, next: Nat,
              claimed: SUBSET Nat, observed: Seq(Sighted)]

\* A distance between two positions is a number.
LEMMA AwayIsNatural ==
    ASSUME NEW x \in Positions, NEW y \in Positions
    PROVE  Away(x, y) \in Nat
BY KickEngineAssumption DEF Away

\* The track that a detection is matched with is one of its candidates.
LEMMA NearestIsCandidate ==
    ASSUME NEW m, NEW d \in Detections, DOMAIN m.tracks \subseteq Nat,
           \A t \in DOMAIN m.tracks: m.tracks[t].pos \in Positions, Candidates(m, d) # {}
    PROVE  Nearest(m, d) \in Candidates(m, d)
<1> DEFINE C == Candidates(m, d)
           far(t) == Away(m.tracks[t].pos, d.pos)
           F == {far(t): t \in C}
<1>1. C \subseteq Nat /\ \A t \in C: m.tracks[t].pos \in Positions BY DEF Candidates
<1>2. d.pos \in Positions BY DEF Detections
<1>3. \A t \in C: far(t) \in Nat BY <1>1, <1>2, AwayIsNatural
<1>4. F \subseteq Nat /\ F # {} BY <1>3
<1>5. PICK a \in F: \A b \in F: a <= b
  <2> HIDE DEF F
  <2> QED BY <1>4, LeastNatural
<1> DEFINE G == {t \in C: far(t) = a}
<1>6. G \subseteq Nat /\ G # {} BY <1>1, <1>5
<1>7. PICK t \in G: \A u \in G: t <= u
  <2> HIDE DEF G
  <2> QED BY <1>6, LeastNatural
<1>8. t \in C /\ \A u \in C: far(t) < far(u) \/ (far(t) = far(u) /\ t <= u)
  <2> SUFFICES ASSUME NEW u \in C PROVE far(t) < far(u) \/ (far(t) = far(u) /\ t <= u) BY <1>7
  <2>1. far(t) = a /\ a <= far(u) /\ far(u) \in Nat /\ a \in Nat BY <1>3, <1>5, <1>7
  <2>2. CASE far(u) = a BY <1>7, <2>1, <2>2
  <2>3. CASE far(u) # a BY <2>1, <2>3
  <2> QED BY <2>2, <2>3
<1> HIDE DEF C
<1> QED BY <1>8 DEF Nearest, C

\* What one detection does to the tracks.
LEMMA MatchOne ==
    ASSUME TracksTyped, NEW m \in Matchings, MatchFits(m), NEW d \in Detections
    PROVE  Match(m, d) \in Matchings /\ MatchFits(Match(m, d))
<1>1. PICK new \in BOOLEAN: new = (Candidates(m, d) = {}) OBVIOUS
<1>2. PICK t: t = IF new THEN m.next ELSE Nearest(m, d) OBVIOUS
<1>3. PICK hits: hits = 1 + (IF new THEN 0 ELSE m.tracks[t].hits) OBVIOUS
<1>4. PICK now: now = [class |-> d.class, pos |-> d.pos, missed |-> 0, hits |-> hits] OBVIOUS
<1>5. PICK T: T = [u \in DOMAIN m.tracks \union {t} |-> IF u = t THEN now ELSE m.tracks[u]]
  OBVIOUS
<1>6. PICK o: o = [id |-> t, class |-> d.class, pos |-> d.pos,
                   confirmed |-> hits >= ConfirmMinHits]
  OBVIOUS
<1>7. PICK r: r = [tracks |-> T, next |-> IF new THEN m.next + 1 ELSE m.next,
                   claimed |-> m.claimed \union {t}, observed |-> Append(m.observed, o)]
  OBVIOUS
<1>8. r = Match(m, d) BY <1>1, <1>2, <1>3, <1>4, <1>5, <1>6, <1>7 DEF Match
<1>9. /\ m.next \in Nat /\ m.claimed \in SUBSET Nat /\ m.observed \in Seq(Sighted)
      /\ m.tracks \in [DOMAIN m.tracks -> Tracked]
      /\ DOMAIN m.tracks \subseteq 1..(m.next - 1) /\ m.claimed \subseteq DOMAIN m.tracks
      /\ m.next >= nextTrack /\ nextTrack \in Nat \ {0}
  BY DEF Matchings, MatchFits, TracksTyped
<1>10. d.class \in Classes /\ d.pos \in Positions BY DEF Detections
<1>11. \A u \in DOMAIN m.tracks: m.tracks[u] \in Tracked BY <1>9
<1>12. \A u \in DOMAIN m.tracks: m.tracks[u].pos \in Positions /\ m.tracks[u].hits \in Nat \ {0}
  BY <1>11 DEF Tracked
<1>13. ~new => /\ t \in DOMAIN m.tracks /\ t \notin m.claimed
               /\ m.tracks[t].class = d.class
               /\ Away(m.tracks[t].pos, d.pos) <= Reach[d.class]
  <2> SUFFICES ASSUME ~new PROVE t \in Candidates(m, d) BY DEF Candidates
  <2>1. Candidates(m, d) # {} BY <1>1
  <2>2. DOMAIN m.tracks \subseteq Nat BY <1>9
  <2>3. Nearest(m, d) \in Candidates(m, d) BY <1>12, <2>1, <2>2, NearestIsCandidate
  <2> QED BY <1>2, <2>3
<1>14. new => t = m.next /\ t \notin DOMAIN m.tracks BY <1>2, <1>9
<1>15. t \in Nat \ {0} /\ t \notin m.claimed BY <1>9, <1>13, <1>14
<1>16. hits \in Nat \ {0} BY <1>3, <1>12, <1>13
<1>17. now \in Tracked BY <1>4, <1>10, <1>16 DEF Tracked
<1>18. o \in Sighted BY <1>6, <1>10, <1>15, <1>16, TrackerAssumption DEF Sighted
<1>19. /\ DOMAIN T = DOMAIN m.tracks \union {t}
       /\ T[t] = now
       /\ \A u \in DOMAIN m.tracks: u # t => T[u] = m.tracks[u]
  BY <1>5
<1>20. T \in [DOMAIN T -> Tracked]
  <2>1. \A u \in DOMAIN T: T[u] \in Tracked BY <1>11, <1>17, <1>19
  <2>2. T = [u \in DOMAIN T |-> T[u]] BY <1>5, <1>19
  <2> QED BY <2>1, <2>2
<1>21. PICK next \in Nat: /\ next = IF new THEN m.next + 1 ELSE m.next
                          /\ next >= m.next /\ next > t
  BY <1>9, <1>13, <1>14
<1>22. DOMAIN T \subseteq 1..(next - 1) BY <1>9, <1>15, <1>19, <1>21
<1>23. /\ r.tracks = T /\ r.next = next /\ r.claimed = m.claimed \union {t}
       /\ r.observed = Append(m.observed, o)
  BY <1>7, <1>21
<1>24. PICK q: q = Append(m.observed, o) OBVIOUS
<1>25. PICK n \in Nat: n = Len(m.observed) BY <1>9
<1>26. /\ q \in Seq(Sighted) /\ DOMAIN q = 1..(n + 1) /\ q[n + 1] = o
       /\ DOMAIN m.observed = 1..n
       /\ \A i \in 1..n: q[i] = m.observed[i]
  BY <1>9, <1>18, <1>24, <1>25
<1>27. r \in Matchings
  <2>1. DOMAIN T \in SUBSET Nat BY <1>22
  <2>2. T \in UNION {[D -> Tracked]: D \in SUBSET Nat} BY <1>20, <2>1
  <2>3. m.claimed \union {t} \in SUBSET Nat BY <1>9, <1>15
  <2> QED BY <1>7, <1>21, <1>24, <1>26, <2>2, <2>3 DEF Matchings
<1>28. \A i \in 1..n: m.observed[i].id \in m.claimed
  BY <1>26 DEF MatchFits, Continues
<1>29. \A i, j \in DOMAIN q: i # j => q[i].id # q[j].id
  <2> SUFFICES ASSUME NEW i \in 1..(n + 1), NEW j \in 1..(n + 1), i # j PROVE q[i].id # q[j].id
    BY <1>26
  <2>1. o.id = t BY <1>6
  <2>2. CASE i \in 1..n /\ j \in 1..n
    <3>1. m.observed[i].id # m.observed[j].id BY <1>26, <2>2 DEF MatchFits
    <3> QED BY <1>26, <2>2, <3>1
  <2>3. CASE i = n + 1 /\ j \in 1..n BY <1>15, <1>26, <1>28, <2>1, <2>3
  <2>4. CASE i \in 1..n /\ j = n + 1 BY <1>15, <1>26, <1>28, <2>1, <2>4
  <2> QED BY <2>2, <2>3, <2>4
<1>30. \A u \in r.claimed: \E i \in DOMAIN q: q[i].id = u
  <2> SUFFICES ASSUME NEW u \in m.claimed \union {t} PROVE \E i \in 1..(n + 1): q[i].id = u
    BY <1>23, <1>26
  <2>1. CASE u = t BY <1>6, <1>26, <2>1
  <2>2. CASE u \in m.claimed
    <3>1. PICK i \in 1..n: m.observed[i].id = u BY <1>26, <2>2 DEF MatchFits
    <3> QED BY <1>26, <3>1
  <2> QED BY <2>1, <2>2
<1>31. \A i \in DOMAIN q: Continues(r, q[i])
  <2> SUFFICES ASSUME NEW i \in 1..(n + 1), NEW p, p = q[i] PROVE Continues(r, p)
    BY <1>26
  <2>1. CASE i = n + 1
    <3>1. /\ p.id = t /\ p.class = d.class /\ p.pos = d.pos
          /\ p.confirmed = (hits >= ConfirmMinHits)
      BY <1>6, <1>26, <2>1
    <3>2. T[t].class = d.class /\ T[t].pos = d.pos /\ T[t].missed = 0 /\ T[t].hits = hits
      BY <1>4, <1>19
    <3>3. CASE new
      <4>1. t >= nextTrack /\ hits = 1 BY <1>3, <1>9, <1>14, <3>3
      <4> QED BY <1>23, <3>1, <3>2, <4>1 DEF Continues
    <3>4. CASE ~new
      <4>1. IsMissed(m, t) BY <1>13, <3>4 DEF MatchFits
      <4>2. hits = m.tracks[t].hits + 1 /\ m.tracks[t].hits \in Nat BY <1>3, <1>12, <1>13, <3>4
      <4>3. /\ t \in DOMAIN tracks /\ tracks[t].class = d.class
            /\ Away(tracks[t].pos, d.pos) <= Reach[d.class] /\ hits = tracks[t].hits + 1
        BY <1>13, <3>4, <4>1, <4>2 DEF IsMissed
      <4> QED BY <1>23, <3>1, <3>2, <4>3 DEF Continues
    <3> QED BY <3>3, <3>4
  <2>2. CASE i \in 1..n
    <3>1. p = m.observed[i] /\ Continues(m, p) BY <1>26, <2>2 DEF MatchFits
    <3>2. p.id \in m.claimed /\ p.id # t BY <1>15, <3>1 DEF Continues
    <3>3. T[p.id] = m.tracks[p.id] BY <1>9, <1>19, <3>2
    <3> QED BY <1>23, <3>1, <3>2, <3>3 DEF Continues
  <2> QED BY <2>1, <2>2
<1>32. \A u \in DOMAIN r.tracks \ r.claimed: IsMissed(r, u)
  <2> SUFFICES ASSUME NEW u \in DOMAIN T, u \notin m.claimed, u # t PROVE IsMissed(r, u)
    BY <1>23
  <2>1. u \in DOMAIN m.tracks /\ T[u] = m.tracks[u] BY <1>19
  <2>2. IsMissed(m, u) BY <2>1 DEF MatchFits
  <2> QED BY <1>23, <2>1, <2>2 DEF IsMissed
<1>33. r.claimed \subseteq DOMAIN r.tracks BY <1>9, <1>19, <1>23
<1>34. r.next >= nextTrack BY <1>9, <1>21, <1>23
<1>35. MatchFits(r)
  <2>1. r.tracks = T /\ r.next = next /\ r.observed = q BY <1>23, <1>24
  <2>2. r.tracks \in [DOMAIN r.tracks -> Tracked] /\ DOMAIN r.tracks \subseteq 1..(r.next - 1)
    BY <1>20, <1>22, <2>1
  <2>3. \A i, j \in DOMAIN r.observed: i # j => r.observed[i].id # r.observed[j].id
    BY <1>29, <2>1
  <2>4. \A u \in r.claimed: \E i \in DOMAIN r.observed: r.observed[i].id = u BY <1>30, <2>1
  <2>5. \A i \in DOMAIN r.observed: Continues(r, r.observed[i]) BY <1>31, <2>1
  <2> QED BY <1>32, <1>33, <1>34, <2>2, <2>3, <2>4, <2>5 DEF MatchFits
<1> QED BY <1>8, <1>27, <1>35

\* A fold of Match stays in a set that Match does not leave.
LEMMA MatchFold ==
    ASSUME NEW A, NEW d, NEW n \in Nat, DOMAIN d = 1..n, NEW base \in A,
           \A m \in A, i \in 1..n: Match(m, d[i]) \in A
    PROVE  FoldLeft(Match, base, d) \in A
<1> DEFINE f == [p \in A \X (1..n) |-> Match(p[1], d[p[2]])]
           IsFold(h) == h = [s \in SUBSET (1..n) |->
                              IF s = {} THEN base ELSE Match(h[s \ {Max(s)}], d[Max(s)])]
           iter == CHOOSE h: IsFold(h)
<1>1. f \in [A \X (1..n) -> A] OBVIOUS
<1>2. PICK h: Folds(h, A, base, n, f)
  <2> HIDE DEF f
  <2> QED BY <1>1, FoldExists
<1>3. IsFold(h)
  <2>1. ASSUME NEW s \in SUBSET (1..n), s # {}
        PROVE  h[s] = Match(h[s \ {Max(s)}], d[Max(s)])
    <3>1. Max(s) \in 1..n BY <2>1, MaxIsMember
    <3>2. h[s \ {Max(s)}] \in A BY <1>2 DEF Folds
    <3>3. h[s] = f[<<h[s \ {Max(s)}], Max(s)>>]
      <4> HIDE DEF f
      <4> QED BY <1>2, <2>1 DEF Folds
    <3>4. <<h[s \ {Max(s)}], Max(s)>> \in A \X (1..n) BY <3>1, <3>2
    <3> QED BY <3>3, <3>4
  <2>2. h[{}] = base BY <1>2 DEF Folds
  <2>3. h = [s \in SUBSET (1..n) |-> h[s]] BY <1>2 DEF Folds
  <2> QED BY <2>1, <2>2, <2>3
<1>4. IsFold(iter)
  <2> HIDE DEF IsFold
  <2> QED BY <1>3
<1>5. FoldLeft(Match, base, d) = iter[1..n]
  BY DEF FoldLeft, MapThenFoldSet
<1> HIDE DEF iter
<1> DEFINE S == {i \in Nat: i <= n => iter[1..i] \in A}
<1>6. 0 \in S
  <2>1. 1..0 = {} /\ iter[{}] = base BY <1>4
  <2> QED BY <2>1
<1>7. ASSUME NEW i \in Nat, i \in S, i + 1 <= n PROVE i + 1 \in S
  <2> HIDE DEF S
  <2>1. i + 1 <= n /\ i + 1 \in 1..(i + 1) BY <1>7
  <2>2. 1..(i + 1) \in SUBSET (1..n) /\ 1..(i + 1) # {}
    <3>1. \A j \in 1..(i + 1): j \in 1..n BY <2>1
    <3> QED BY <2>1, <3>1
  <2>3. Max(1..(i + 1)) = i + 1
    <3>1. PICK s: s = 1..(i + 1) OBVIOUS
    <3>2. s \in SUBSET (1..(i + 1)) /\ i + 1 \in s BY <2>1, <3>1
    <3> QED BY <3>1, <3>2, MaxOfInterval
  <2>4. (1..(i + 1)) \ {i + 1} = 1..i OBVIOUS
  <2>5. iter[1..(i + 1)] = Match(iter[1..i], d[i + 1]) BY <1>4, <2>2, <2>3, <2>4
  <2>6. iter[1..i] \in A /\ i + 1 \in 1..n BY <1>7 DEF S
  <2> QED BY <2>5, <2>6 DEF S
<1>8. \A i \in Nat: i \in S => i + 1 \in S BY <1>7
<1>9. n \in S
  <2> HIDE DEF S
  <2> QED BY <1>6, <1>8, SetInduction
<1>10. iter[1..n] \in A BY <1>9
<1> QED BY <1>5, <1>10

\* However many detections a frame has, the loop of update claims no track twice and loses none.
LEMMA MatchedFits ==
    ASSUME TracksTyped, NEW d \in Seq(Detections)
    PROVE  Matched(d) \in Matchings /\ MatchFits(Matched(d))
<1>1. PICK missed: missed = [t \in DOMAIN tracks |-> [tracks[t] EXCEPT !.missed = @ + 1]] OBVIOUS
<1>2. PICK base: base = [tracks |-> missed, next |-> nextTrack, claimed |-> {}, observed |-> <<>>]
  OBVIOUS
<1>3. PICK A: A = {m \in Matchings: MatchFits(m)} OBVIOUS
<1>4. PICK n \in Nat: n = Len(d) OBVIOUS
<1>5. DOMAIN d = 1..n /\ \A i \in 1..n: d[i] \in Detections BY <1>4
<1>6. \A t \in DOMAIN tracks: tracks[t] \in States BY DEF TracksTyped
<1>7. MaxMissed \in Nat BY TrackerAssumption
<1>8. DOMAIN missed = DOMAIN tracks BY <1>1
<1>9. \A t \in DOMAIN tracks:
          /\ missed[t] \in Tracked
          /\ missed[t].class = tracks[t].class /\ missed[t].pos = tracks[t].pos
          /\ missed[t].missed = tracks[t].missed + 1 /\ missed[t].hits = tracks[t].hits
  <2> SUFFICES ASSUME NEW t \in DOMAIN tracks
               PROVE  /\ missed[t] \in Tracked
                      /\ missed[t].class = tracks[t].class /\ missed[t].pos = tracks[t].pos
                      /\ missed[t].missed = tracks[t].missed + 1 /\ missed[t].hits = tracks[t].hits
    OBVIOUS
  <2>1. PICK x \in States: x = tracks[t] BY <1>6
  <2>2. missed[t] = [x EXCEPT !.missed = @ + 1] BY <1>1, <2>1
  <2>3. /\ x.class \in Classes /\ x.pos \in Positions /\ x.missed \in Nat /\ x.hits \in Nat \ {0}
        /\ x = [class |-> x.class, pos |-> x.pos, missed |-> x.missed, hits |-> x.hits]
    BY <1>7 DEF States
  <2>4. missed[t] = [class |-> x.class, pos |-> x.pos, missed |-> x.missed + 1, hits |-> x.hits]
    BY <2>2, <2>3
  <2> QED BY <2>1, <2>3, <2>4 DEF Tracked
<1>10. missed \in [DOMAIN tracks -> Tracked]
  <2>1. missed = [t \in DOMAIN tracks |-> missed[t]] BY <1>1
  <2> QED BY <1>9, <2>1
<1>11. nextTrack \in Nat /\ DOMAIN tracks \subseteq 1..(nextTrack - 1) BY DEF TracksTyped
<1>12. base \in Matchings
  <2>1. DOMAIN tracks \in SUBSET Nat BY <1>11
  <2>2. missed \in UNION {[D -> Tracked]: D \in SUBSET Nat} BY <1>10, <2>1
  <2>3. <<>> \in Seq(Sighted) /\ {} \in SUBSET Nat OBVIOUS
  <2> QED BY <1>2, <1>11, <2>2, <2>3 DEF Matchings
<1>13. MatchFits(base)
  <2>1. /\ base.tracks = missed /\ base.next = nextTrack /\ base.claimed = {}
        /\ base.observed = <<>> /\ DOMAIN base.observed = {}
    BY <1>2
  <2>2. \A t \in DOMAIN missed: IsMissed(base, t) BY <1>8, <1>9, <2>1 DEF IsMissed
  <2> QED BY <1>8, <1>10, <1>11, <2>1, <2>2 DEF MatchFits
<1>14. base \in A BY <1>3, <1>12, <1>13
<1>15. \A m \in A, i \in 1..n: Match(m, d[i]) \in A BY <1>3, <1>5, MatchOne
<1>16. FoldLeft(Match, base, d) \in A BY <1>5, <1>14, <1>15, MatchFold
<1>17. Matched(d) = FoldLeft(Match, base, d) BY <1>1, <1>2 DEF Matched
<1> QED BY <1>3, <1>16, <1>17

-----------------------------------------------------------------------------
(* The history and the tracks, with one frame more                         *)

\* What the runner tells of the tracker's observations.
NamedAs(obs, o) ==
    /\ DOMAIN obs = DOMAIN o
    /\ \A n \in DOMAIN obs: /\ obs[n].id = Base + o[n].id
                            /\ obs[n].class = o[n].class
                            /\ obs[n].pos = o[n].pos
                            /\ obs[n].confirmed = o[n].confirmed

\* What the engine is told of a frame, by name and by type.
LEMMA ObservedTyped ==
    ASSUME Ids = Nat \ {0}, chunk \in Nat \ {0}, TracksTyped, NEW scene \in Seq(Detections)
    PROVE  Observed(scene) \in Frames /\ NamedAs(Observed(scene), Matched(scene).observed)
<1>1. PICK m \in Matchings: m = Matched(scene) BY MatchedFits
<1>2. PICK o \in Seq(Sighted): o = m.observed BY DEF Matchings
<1>3. PICK b \in Nat: b = (chunk - 1) * NamespaceSize
  <2>1. PICK c \in Nat: c = chunk - 1 OBVIOUS
  <2>2. PICK z \in Nat: z = NamespaceSize BY FrameLoopAssumption
  <2>3. c * z \in Nat OBVIOUS
  <2> QED BY <2>1, <2>2, <2>3
<1>4. PICK n \in Nat: n = Len(o) OBVIOUS
<1>5. DOMAIN o = 1..n /\ \A i \in 1..n: o[i] \in Sighted BY <1>4
<1>6. PICK obs: obs = [i \in 1..n |-> [o[i] EXCEPT !.id = b + @]] OBVIOUS
<1>7. obs = Observed(scene) BY <1>1, <1>2, <1>3, <1>5, <1>6 DEF Observed, Named
<1>8. ASSUME NEW i \in 1..n
      PROVE  /\ obs[i] \in Observations
             /\ obs[i].id = b + o[i].id /\ obs[i].class = o[i].class
             /\ obs[i].pos = o[i].pos /\ obs[i].confirmed = o[i].confirmed
  <2>1. PICK x \in Sighted: x = o[i] BY <1>5
  <2>2. obs[i] = [x EXCEPT !.id = b + @] BY <1>6, <2>1
  <2>3. /\ x.id \in Nat \ {0} /\ x.class \in Classes /\ x.pos \in Positions
        /\ x.confirmed \in BOOLEAN
        /\ x = [id |-> x.id, class |-> x.class, pos |-> x.pos, confirmed |-> x.confirmed]
    BY DEF Sighted
  <2>4. obs[i] = [id |-> b + x.id, class |-> x.class, pos |-> x.pos,
                  confirmed |-> x.confirmed]
    BY <2>2, <2>3
  <2>5. b + x.id \in Ids BY <2>3
  <2> QED BY <2>1, <2>3, <2>4, <2>5 DEF Observations
<1>9. obs \in Seq(Observations) /\ DOMAIN obs = 1..n
  <2>1. PICK X: X = Observations OBVIOUS
  <2>2. \A i \in 1..n: obs[i] \in X BY <1>8, <2>1
  <2>3. obs = [i \in 1..n |-> obs[i]] /\ DOMAIN obs = 1..n BY <1>6
  <2>4. obs \in [1..n -> X] BY <2>2, <2>3
  <2>5. obs \in Seq(X) BY <1>4, <2>4
  <2> QED BY <2>1, <2>3, <2>5
<1>10. NamedAs(obs, o) BY <1>3, <1>5, <1>8, <1>9 DEF NamedAs, Base
<1> QED BY <1>1, <1>2, <1>7, <1>9, <1>10 DEF Frames

\* A frame more changes nothing that was seen in the frames before it.
LEMMA SightingsBefore ==
    ASSUME NEW n \in Nat, \A k \in 1..n: seen'[k] = seen[k],
           NEW id, NEW i \in Nat \ {0}, NEW j \in Int, j <= n
    PROVE  Sightings(id, i, j)' = Sightings(id, i, j)
<1>1. \A k \in i..j: seen'[k] = seen[k] OBVIOUS
<1> QED BY <1>1 DEF Sightings

\* The frame observed last shows the object ...
LEMMA SightingsMore ==
    ASSUME NEW n \in Nat, \A k \in 1..n: seen'[k] = seen[k], NEW obs, seen'[n + 1].tracks = obs,
           NEW s \in DOMAIN obs, NEW id, obs[s].id = id, NEW i \in 1..(n + 1)
    PROVE  Sightings(id, i, n + 1)' = Sightings(id, i, n) \union {n + 1}
<1>1. \A k \in i..(n + 1): k = n + 1 \/ (k \in i..n /\ seen'[k] = seen[k]) OBVIOUS
<1>2. \A k \in i..n: k \in i..(n + 1) /\ k # n + 1 /\ seen'[k] = seen[k] OBVIOUS
<1>3. n + 1 \in i..(n + 1) OBVIOUS
<1> QED BY <1>1, <1>2, <1>3 DEF Sightings

\* ... or not.
LEMMA SightingsSame ==
    ASSUME NEW n \in Nat, \A k \in 1..n: seen'[k] = seen[k], NEW obs, seen'[n + 1].tracks = obs,
           NEW id, \A s \in DOMAIN obs: obs[s].id # id, NEW i \in 1..(n + 1)
    PROVE  Sightings(id, i, n + 1)' = Sightings(id, i, n)
<1>1. \A k \in i..(n + 1): k = n + 1 \/ (k \in i..n /\ seen'[k] = seen[k]) OBVIOUS
<1>2. \A k \in i..n: k \in i..(n + 1) /\ k # n + 1 /\ seen'[k] = seen[k] OBVIOUS
<1>3. n + 1 \in i..(n + 1) OBVIOUS
<1> QED BY <1>1, <1>2, <1>3 DEF Sightings

\* A track is seen in finitely many frames.
LEMMA SightingsFinite ==
    ASSUME NEW id, NEW i \in Int, NEW j \in Int
    PROVE  /\ Sightings(id, i, j) \in SUBSET (i..j)
           /\ IsFiniteSet(Sightings(id, i, j))
           /\ Cardinality(Sightings(id, i, j)) \in Nat
<1>1. Sightings(id, i, j) \in SUBSET (i..j) BY DEF Sightings
<1>2. IsFiniteSet(i..j) BY FS_Interval
<1> QED BY <1>1, <1>2, FS_Subset, FS_CardinalityType

\* The ids of the frames before belong to tracks begun before.
IdsKnown ==
    \A n \in DOMAIN seen: \A s \in DOMAIN seen[n].tracks:
        \E t \in 1..(nextTrack - 1): seen[n].tracks[s].id = Base + t

\* The next track was never seen: ids are not used again inside a chunk.
LEMMA FreshIsUnseen ==
    ASSUME IdsKnown, nextTrack \in Nat, Base \in Nat, NEW t \in Nat, t >= nextTrack,
           NEW n \in Nat, DOMAIN seen = 1..n
    PROVE  Sightings(Base + t, 1, n) = {}
<1> SUFFICES ASSUME NEW k \in 1..n, NEW s \in DOMAIN seen[k].tracks,
                    seen[k].tracks[s].id = Base + t
             PROVE  FALSE
  BY DEF Sightings
<1>1. PICK u \in 1..(nextTrack - 1): seen[k].tracks[s].id = Base + u BY DEF IdsKnown
<1> QED BY <1>1

\* All that a frame of detections means for the history, put together once.
Added(m, o, obs, n) ==
    /\ m \in Matchings /\ MatchFits(m) /\ o = m.observed /\ NamedAs(obs, o)
    /\ DOMAIN seen = 1..n /\ DOMAIN seen' = 1..(n + 1) /\ Len(seen) = n /\ Len(seen') = n + 1
    /\ \A k \in 1..n: seen'[k] = seen[k]
    /\ seen'[n + 1].tracks = obs
    /\ tracks' = [t \in {u \in DOMAIN m.tracks: m.tracks[u].missed <= MaxMissed} |-> m.tracks[t]]
    /\ nextTrack' = m.next
    /\ Base \in Nat /\ Base' = Base
    /\ obs \in Frames

\* update and the history of a frame, from the one loop over the detections.
LEMMA Adds ==
    ASSUME Ids = Nat \ {0}, chunk \in Nat \ {0}, chunk' = chunk, TracksTyped, TypeOK,
           NEW scene \in Seq(Detections), NEW now \in Times,
           Update(scene), Remember(Observed(scene), now)
    PROVE  \E m, o, n: Added(m, o, Observed(scene), n) /\ n \in Nat
<1>1. PICK m: m = Matched(scene) OBVIOUS
<1>2. m \in Matchings /\ MatchFits(m) BY <1>1, MatchedFits
<1>3. PICK o: o = m.observed OBVIOUS
<1>4. PICK obs: obs = Observed(scene) OBVIOUS
<1>5. obs \in Frames /\ NamedAs(obs, o) BY <1>1, <1>3, <1>4, ObservedTyped
<1>6. PICK n \in Nat: n = Len(seen) BY DEF TypeOK
<1>7. seen \in Seq(Entries) BY DEF TypeOK, Entries
<1>8. /\ seen' \in Seq(Entries) /\ Len(seen') = n + 1
      /\ \A k \in 1..n: seen'[k] = seen[k]
      /\ seen'[n + 1] = [at |-> now, tracks |-> obs]
  <2>1. Remember(obs, now) BY <1>4
  <2> QED BY <1>5, <1>6, <1>7, <2>1, Recorded
<1>9. Base \in Nat /\ Base' = Base BY FrameLoopAssumption DEF Base
<1>10. /\ tracks' = [t \in {u \in DOMAIN m.tracks: m.tracks[u].missed <= MaxMissed}
                       |-> m.tracks[t]]
       /\ nextTrack' = m.next
  BY <1>1 DEF Update
<1>11. DOMAIN seen = 1..n /\ DOMAIN seen' = 1..(n + 1) BY <1>6, <1>7, <1>8
<1>12. Added(m, o, obs, n) BY <1>2, <1>3, <1>5, <1>6, <1>8, <1>9, <1>10, <1>11 DEF Added
<1> QED BY <1>4, <1>12

\* The tracks after a frame have their types.
LEMMA TypesAdded ==
    ASSUME TracksTyped, NEW m, NEW o, NEW obs, NEW n \in Nat, Added(m, o, obs, n)
    PROVE  TracksTyped'
<1>1. /\ m.next \in Nat /\ m.next >= nextTrack /\ nextTrack \in Nat \ {0}
      /\ DOMAIN m.tracks \subseteq 1..(m.next - 1)
      /\ \A t \in DOMAIN m.tracks: m.tracks[t] \in Tracked
      /\ nextTrack' = m.next
  BY DEF Added, Matchings, MatchFits, TracksTyped
<1>2. PICK D: D = {u \in DOMAIN m.tracks: m.tracks[u].missed <= MaxMissed} OBVIOUS
<1>3. tracks' = [t \in D |-> m.tracks[t]] BY <1>2 DEF Added
<1>4. \A t \in D: m.tracks[t] \in States
  <2> SUFFICES ASSUME NEW t \in D PROVE m.tracks[t] \in States OBVIOUS
  <2>1. m.tracks[t] \in Tracked /\ m.tracks[t].missed <= MaxMissed BY <1>1, <1>2
  <2> QED BY <2>1, TrackerAssumption DEF Tracked, States
<1>5. DOMAIN tracks' = D /\ tracks' \in [D -> States] BY <1>3, <1>4
<1>6. DOMAIN tracks' \subseteq 1..(nextTrack' - 1) BY <1>1, <1>2, <1>5
<1> QED BY <1>1, <1>5, <1>6 DEF TracksTyped

\* What the new frame shows of track t, by the place of its observation.
LEMMA ShownOnce ==
    ASSUME TracksTyped, NEW m, NEW o, NEW obs, NEW n \in Nat, Added(m, o, obs, n),
           NEW t \in Nat, NEW s \in DOMAIN obs, obs[s].id = Base + t
    PROVE  /\ t \in m.claimed /\ o[s].id = t /\ Continues(m, o[s])
           /\ \A r \in DOMAIN obs: obs[r].id = Base + t => r = s
<1>1. /\ m.observed = o /\ o \in Seq(Sighted) /\ DOMAIN obs = DOMAIN o
      /\ \A r \in DOMAIN obs: obs[r].id = Base + o[r].id
      /\ Base \in Nat
  BY DEF Added, NamedAs, Matchings
<1>2. \A r \in DOMAIN o: o[r] \in Sighted BY <1>1
<1>3. \A r \in DOMAIN o: o[r].id \in Nat BY <1>2 DEF Sighted
<1>4. \A r \in DOMAIN obs: obs[r].id = Base + t => o[r].id = t BY <1>1, <1>3
<1>5. Continues(m, o[s]) BY <1>1 DEF Added, MatchFits
<1>6. \A r \in DOMAIN obs: r # s => o[r].id # o[s].id BY <1>1 DEF Added, MatchFits
<1> QED BY <1>4, <1>5, <1>6 DEF Continues

\* A track that a detection claimed is seen in the frame.
LEMMA ClaimedShown ==
    ASSUME NEW m, NEW o, NEW obs, NEW n \in Nat, Added(m, o, obs, n), NEW t \in m.claimed
    PROVE  \E s \in DOMAIN obs: obs[s].id = Base + t
<1>1. PICK s \in DOMAIN o: o[s].id = t BY DEF Added, MatchFits
<1> QED BY <1>1 DEF Added, NamedAs

\* How often the tracks now claimed were seen before, and where.
LEMMA ClaimedBefore ==
    ASSUME TracksFit, NEW m, NEW o, NEW obs, NEW n \in Nat, Added(m, o, obs, n),
           NEW t \in Nat \ {0}, NEW s \in DOMAIN obs, obs[s].id = Base + t
    PROVE  /\ Cardinality(Sightings(Base + t, 1, n)) + 1 = m.tracks[t].hits
           /\ \A k \in 1..n: \A r \in DOMAIN seen[k].tracks:
                 seen[k].tracks[r].id = Base + t => seen[k].tracks[r].class = obs[s].class
<1>1. t \in m.claimed /\ o[s].id = t /\ Continues(m, o[s]) BY ShownOnce DEF TracksFit
<1>2. obs[s].class = o[s].class BY DEF Added, NamedAs
<1>3. Base \in Nat /\ DOMAIN seen = 1..n /\ Len(seen) = n BY DEF Added
<1>4. IdsKnown /\ nextTrack \in Nat BY DEF TracksFit, IdsKnown, TracksTyped
<1>5. CASE t >= nextTrack /\ m.tracks[t].hits = 1
  <2>1. Sightings(Base + t, 1, n) = {} BY <1>3, <1>4, <1>5, FreshIsUnseen
  <2>2. Cardinality(Sightings(Base + t, 1, n)) = 0 BY <2>1, FS_EmptySet
  <2>3. \A k \in 1..n: \A r \in DOMAIN seen[k].tracks: seen[k].tracks[r].id # Base + t
    BY <2>1 DEF Sightings
  <2> QED BY <1>5, <2>2, <2>3
<1>6. CASE t \in DOMAIN tracks /\ tracks[t].class = o[s].class
              /\ m.tracks[t].hits = tracks[t].hits + 1
  <2>1. TrackFits(t) BY <1>6 DEF TracksFit
  <2>2. Cardinality(Sightings(Base + t, 1, n)) = tracks[t].hits BY <1>3, <2>1 DEF TrackFits
  <2>3. \A k \in 1..n: \A r \in DOMAIN seen[k].tracks:
            seen[k].tracks[r].id = Base + t => seen[k].tracks[r].class = tracks[t].class
    BY <1>3, <2>1 DEF TrackFits
  <2> QED BY <1>2, <1>6, <2>2, <2>3
<1> QED BY <1>1, <1>5, <1>6 DEF Continues

\* A track that is kept still agrees with the history, with the new frame in it.
LEMMA TrackAdded ==
    ASSUME TracksFit, NEW m, NEW o, NEW obs, NEW n \in Nat, Added(m, o, obs, n),
           NEW t \in DOMAIN tracks'
    PROVE  TrackFits(t)'
<1>1. /\ t \in DOMAIN m.tracks /\ tracks'[t] = m.tracks[t]
      /\ DOMAIN m.tracks \subseteq 1..(m.next - 1) /\ m.next \in Nat
      /\ m.tracks[t] \in Tracked
  BY DEF Added, MatchFits, Matchings
<1>2. t \in Nat \ {0} BY <1>1
<1>3. /\ DOMAIN seen = 1..n /\ DOMAIN seen' = 1..(n + 1) /\ Len(seen) = n /\ Len(seen') = n + 1
      /\ \A k \in 1..n: seen'[k] = seen[k]
      /\ seen'[n + 1].tracks = obs
      /\ Base \in Nat /\ Base' = Base
  BY DEF Added
<1>4. CASE t \in m.claimed
  <2>1. PICK s \in DOMAIN obs: obs[s].id = Base + t BY <1>4, ClaimedShown
  <2>2. /\ Continues(m, o[s]) /\ o[s].id = t
        /\ \A r \in DOMAIN obs: obs[r].id = Base + t => r = s
    BY <1>2, <2>1, ShownOnce DEF TracksFit
  <2>3. /\ m.tracks[t].missed = 0
        /\ m.tracks[t].class = obs[s].class /\ m.tracks[t].pos = obs[s].pos
    BY <2>2 DEF Continues, Added, NamedAs
  <2>4. /\ Cardinality(Sightings(Base + t, 1, n)) + 1 = m.tracks[t].hits
        /\ \A k \in 1..n: \A r \in DOMAIN seen[k].tracks:
              seen[k].tracks[r].id = Base + t => seen[k].tracks[r].class = obs[s].class
    BY <1>2, <2>1, ClaimedBefore
  <2>5. PICK id: id = Base + t OBVIOUS
  <2>6. Sightings(id, 1, n + 1)' = Sightings(id, 1, n) \union {n + 1}
    <3>1. 1 \in 1..(n + 1) /\ s \in DOMAIN obs /\ obs[s].id = id BY <2>1, <2>5
    <3>2. \A k \in 1..n: seen'[k] = seen[k] BY <1>3
    <3>3. seen'[n + 1].tracks = obs BY <1>3
    <3>4. ASSUME NEW i \in 1..(n + 1)
          PROVE  Sightings(id, i, n + 1)' = Sightings(id, i, n) \union {n + 1}
      BY <3>1, <3>2, <3>3, SightingsMore
    <3> QED BY <3>1, <3>4
  <2>7. Cardinality(Sightings(id, 1, n + 1)') = m.tracks[t].hits
    <3>1. /\ IsFiniteSet(Sightings(id, 1, n)) /\ n + 1 \notin Sightings(id, 1, n)
          /\ Cardinality(Sightings(id, 1, n)) \in Nat
      BY SightingsFinite
    <3>2. Cardinality(Sightings(id, 1, n) \union {n + 1}) = Cardinality(Sightings(id, 1, n)) + 1
      BY <3>1, FS_AddElement
    <3> QED BY <2>4, <2>5, <2>6, <3>2
  <2>8. Sightings(id, (n + 1) + 1, n + 1)' = {}
    <3>1. ((n + 1) + 1)..(n + 1) = {} OBVIOUS
    <3> QED BY <3>1 DEF Sightings
  <2>9. Shows(n + 1, id, m.tracks[t].class, m.tracks[t].pos)'
    BY <1>3, <2>1, <2>3, <2>5 DEF Shows
  <2>10. \A k \in 1..(n + 1): \A r \in DOMAIN seen'[k].tracks:
            seen'[k].tracks[r].id = id => seen'[k].tracks[r].class = m.tracks[t].class
    <3> SUFFICES ASSUME NEW k \in 1..(n + 1), NEW r \in DOMAIN seen'[k].tracks,
                        seen'[k].tracks[r].id = id
                 PROVE  seen'[k].tracks[r].class = m.tracks[t].class
      OBVIOUS
    <3>1. CASE k \in 1..n BY <1>3, <2>3, <2>4, <2>5, <3>1
    <3>2. CASE k = n + 1 BY <1>3, <2>2, <2>3, <2>5, <3>2
    <3> QED BY <3>1, <3>2
  <2>11. Len(seen') - tracks'[t].missed = n + 1 /\ n + 1 \in DOMAIN seen' BY <1>1, <1>3, <2>3
  <2>12. Base' + t = id BY <1>3, <2>5
  <2> QED BY <1>1, <1>3, <2>7, <2>8, <2>9, <2>10, <2>11, <2>12 DEF TrackFits, Shows, Sightings
<1>5. CASE t \notin m.claimed
  <2>1. IsMissed(m, t) BY <1>1, <1>5 DEF Added, MatchFits
  <2>2. /\ t \in DOMAIN tracks /\ TrackFits(t)
        /\ m.tracks[t].class = tracks[t].class /\ m.tracks[t].pos = tracks[t].pos
        /\ m.tracks[t].missed = tracks[t].missed + 1 /\ m.tracks[t].hits = tracks[t].hits
    BY <2>1 DEF IsMissed, TracksFit
  <2>3. tracks[t] \in States BY <2>2 DEF TracksFit, TracksTyped
  <2>4. PICK id: id = Base + t OBVIOUS
  <2>5. PICK last \in 1..n: last = n - tracks[t].missed
    BY <1>3, <2>2 DEF TrackFits
  <2>6. /\ Shows(last, id, tracks[t].class, tracks[t].pos)
        /\ Sightings(id, last + 1, n) = {}
        /\ Cardinality(Sightings(id, 1, n)) = tracks[t].hits
        /\ \A k \in 1..n: \A r \in DOMAIN seen[k].tracks:
              seen[k].tracks[r].id = id => seen[k].tracks[r].class = tracks[t].class
    BY <1>3, <2>2, <2>4, <2>5 DEF TrackFits
  <2>7. \A s \in DOMAIN obs: obs[s].id # id
    <3> SUFFICES ASSUME NEW s \in DOMAIN obs, obs[s].id = Base + t PROVE FALSE BY <2>4
    <3>1. t \in m.claimed BY <1>2, ShownOnce DEF TracksFit
    <3> QED BY <1>5, <3>1
  <2>8. /\ Sightings(id, 1, n + 1)' = Sightings(id, 1, n)
        /\ Sightings(id, last + 1, n + 1)' = Sightings(id, last + 1, n)
    <3>1. 1 \in 1..(n + 1) /\ last + 1 \in 1..(n + 1) OBVIOUS
    <3> QED BY <1>3, <2>7, <3>1, SightingsSame
  <2>9. PICK c, x: c = tracks[t].class /\ x = tracks[t].pos OBVIOUS
  <2>10. Shows(last, id, c, x)'
    <3>1. Shows(last, id, c, x) /\ seen'[last] = seen[last] BY <1>3, <2>6, <2>9
    <3> QED BY <3>1 DEF Shows
  <2>11. \A k \in 1..(n + 1): \A r \in DOMAIN seen'[k].tracks:
            seen'[k].tracks[r].id = id => seen'[k].tracks[r].class = c
    <3> SUFFICES ASSUME NEW k \in 1..(n + 1), NEW r \in DOMAIN seen'[k].tracks,
                        seen'[k].tracks[r].id = id
                 PROVE  seen'[k].tracks[r].class = c
      OBVIOUS
    <3>1. CASE k \in 1..n BY <1>3, <2>6, <2>9, <3>1
    <3>2. CASE k = n + 1 BY <1>3, <2>7, <3>2
    <3> QED BY <3>1, <3>2
  <2>12. Len(seen') - tracks'[t].missed = last /\ last \in DOMAIN seen'
    <3>1. tracks[t].missed \in Nat BY <2>3, TrackerAssumption DEF States
    <3> QED BY <1>1, <1>3, <2>2, <2>5, <3>1
  <2>13. /\ Base' + t = id /\ tracks'[t].class = c /\ tracks'[t].pos = x
         /\ tracks'[t].hits = tracks[t].hits
    BY <1>1, <1>3, <2>2, <2>4, <2>9
  <2>14. /\ Sightings(id, last + 1, n + 1)' = {}
         /\ Cardinality(Sightings(id, 1, n + 1)') = tracks'[t].hits
    BY <2>6, <2>8, <2>13
  <2> QED BY <1>3, <2>10, <2>11, <2>12, <2>13, <2>14 DEF TrackFits, Shows, Sightings
<1> QED BY <1>4, <1>5

-----------------------------------------------------------------------------
(* TracksAreContinuous, with one frame more                                *)

\* No frame shows one track twice.
LEMMA OnceAFrame ==
    ASSUME TracksFit, NEW n \in DOMAIN seen, NEW r \in DOMAIN seen[n].tracks,
           NEW s \in DOMAIN seen[n].tracks, seen[n].tracks[r].id = seen[n].tracks[s].id
    PROVE  r = s
BY DEF TracksFit, TracksAreContinuous

\* The frame observed last shows each track once.
LEMMA OnceInTheLast ==
    ASSUME TracksFit, NEW m, NEW o, NEW obs, NEW n \in Nat, Added(m, o, obs, n),
           NEW k \in 1..(n + 1)
    PROVE  \A r, s \in DOMAIN seen'[k].tracks:
              seen'[k].tracks[r].id = seen'[k].tracks[s].id => r = s
<1>1. /\ DOMAIN seen = 1..n /\ \A i \in 1..n: seen'[i] = seen[i]
      /\ seen'[n + 1].tracks = obs
  BY DEF Added
<1>2. CASE k \in 1..n
  <2>1. k \in DOMAIN seen /\ seen'[k] = seen[k] BY <1>1, <1>2
  <2> QED BY <2>1, OnceAFrame
<1>3. CASE k = n + 1
  <2> SUFFICES ASSUME NEW r \in DOMAIN obs, NEW s \in DOMAIN obs, obs[r].id = obs[s].id
               PROVE  r = s
    BY <1>1, <1>3
  <2>1. o \in Seq(Sighted) /\ DOMAIN o = DOMAIN obs BY DEF Added, Matchings, NamedAs
  <2>2. PICK t \in Nat: t = o[r].id
    <3>1. o[r] \in Sighted BY <2>1
    <3> QED BY <3>1 DEF Sighted
  <2>3. obs[r].id = Base + t BY <2>2 DEF Added, NamedAs
  <2>4. obs[s].id = Base + t BY <2>3
  <2> QED BY <2>3, <2>4, ShownOnce DEF TracksFit
<1> QED BY <1>2, <1>3

\* An observation of an object seen before is of its track, near where that was.
LEMMA SeenAgain ==
    ASSUME TracksFit, NEW m, NEW o, NEW obs, NEW n \in Nat, Added(m, o, obs, n),
           NEW k \in 1..n, NEW r \in DOMAIN seen[k].tracks, NEW s \in DOMAIN obs,
           seen[k].tracks[r].id = obs[s].id
    PROVE  /\ seen[k].tracks[r].class = obs[s].class
           /\ Sightings(obs[s].id, k + 1, n) = {} =>
                 /\ Distance(seen[k].tracks[r].pos, obs[s].pos) <= Reach[obs[s].class]
                 /\ (n + 1) - k <= MaxMissed + 1
<1>1. DOMAIN seen = 1..n /\ Len(seen) = n /\ Base \in Nat BY DEF Added
<1>2. o \in Seq(Sighted) /\ DOMAIN o = DOMAIN obs BY DEF Added, Matchings, NamedAs
<1>3. PICK t \in Nat \ {0}: t = o[s].id
  <2>1. o[s] \in Sighted BY <1>2
  <2> QED BY <2>1 DEF Sighted
<1>4. obs[s].id = Base + t BY <1>3 DEF Added, NamedAs
<1>5. seen[k].tracks[r].class = obs[s].class BY <1>4, ClaimedBefore
<1>6. ASSUME Sightings(obs[s].id, k + 1, n) = {}
      PROVE  /\ Distance(seen[k].tracks[r].pos, obs[s].pos) <= Reach[obs[s].class]
             /\ (n + 1) - k <= MaxMissed + 1
  <2>1. o[s].id = t /\ Continues(m, o[s]) BY <1>4, ShownOnce DEF TracksFit
  <2>2. obs[s].class = o[s].class /\ obs[s].pos = o[s].pos BY DEF Added, NamedAs
  <2>3. ~(t >= nextTrack)
    <3> SUFFICES ASSUME t >= nextTrack PROVE FALSE OBVIOUS
    <3>1. IdsKnown /\ nextTrack \in Nat BY DEF TracksFit, IdsKnown, TracksTyped
    <3>2. Sightings(Base + t, 1, n) = {} BY <1>1, <3>1, FreshIsUnseen
    <3>3. k \in Sightings(Base + t, 1, n) BY <1>4 DEF Sightings
    <3> QED BY <3>2, <3>3
  <2>4. /\ t \in DOMAIN tracks /\ tracks[t].class = o[s].class
        /\ Away(tracks[t].pos, o[s].pos) <= Reach[o[s].class]
    BY <2>1, <2>3 DEF Continues
  <2>5. TrackFits(t) /\ tracks[t] \in States BY <2>4 DEF TracksFit, TracksTyped
  <2>6. tracks[t].missed \in Nat /\ tracks[t].missed <= MaxMissed
    BY <2>5, TrackerAssumption DEF States
  <2>7. PICK last \in 1..n: last = n - tracks[t].missed BY <1>1, <2>5 DEF TrackFits
  <2>8. /\ Shows(last, Base + t, tracks[t].class, tracks[t].pos)
        /\ Sightings(Base + t, last + 1, n) = {}
    BY <1>1, <2>5, <2>7 DEF TrackFits
  <2>9. PICK q \in DOMAIN seen[last].tracks: /\ seen[last].tracks[q].id = Base + t
                                             /\ seen[last].tracks[q].pos = tracks[t].pos
    BY <2>8 DEF Shows
  <2>10. ~(k > last)
    <3>1. k > last => k \in Sightings(Base + t, last + 1, n) BY <1>4 DEF Sightings
    <3> QED BY <2>8, <3>1
  <2>11. ~(last > k)
    <3>1. last > k => last \in Sightings(Base + t, k + 1, n) BY <2>9 DEF Sightings
    <3> QED BY <1>4, <1>6, <3>1
  <2>12. k = last BY <2>10, <2>11
  <2>13. r = q
    <3>1. k \in DOMAIN seen /\ seen[k].tracks[q].id = seen[k].tracks[r].id
             /\ q \in DOMAIN seen[k].tracks
      BY <1>1, <1>4, <2>9, <2>12
    <3> QED BY <3>1, OnceAFrame
  <2>14. seen[k].tracks[r].pos = tracks[t].pos BY <2>9, <2>12, <2>13
  <2>15. Distance(tracks[t].pos, o[s].pos) = Away(tracks[t].pos, o[s].pos) BY DEF Distance, Away
  <2>16. Distance(seen[k].tracks[r].pos, obs[s].pos) <= Reach[obs[s].class]
    BY <2>2, <2>4, <2>14, <2>15
  <2>17. (n + 1) - k <= MaxMissed + 1 BY <2>6, <2>7, <2>12, TrackerAssumption
  <2> QED BY <2>16, <2>17
<1> QED BY <1>5, <1>6

\* The tracks go on within their reach and their patience, with the new frame too.
LEMMA ContinuousAdded ==
    ASSUME TracksFit, NEW m, NEW o, NEW obs, NEW n \in Nat, Added(m, o, obs, n)
    PROVE  TracksAreContinuous'
<1>1. /\ DOMAIN seen = 1..n /\ DOMAIN seen' = 1..(n + 1)
      /\ \A i \in 1..n: seen'[i] = seen[i]
      /\ seen'[n + 1].tracks = obs /\ Base \in Nat
  BY DEF Added
<1>2. \A k \in DOMAIN seen': \A r, s \in DOMAIN seen'[k].tracks:
          seen'[k].tracks[r].id = seen'[k].tracks[s].id => r = s
  BY <1>1, OnceInTheLast
<1>3. ASSUME NEW i \in 1..(n + 1), NEW j \in 1..(n + 1),
             NEW r \in DOMAIN seen'[i].tracks, NEW s \in DOMAIN seen'[j].tracks,
             NEW id, seen'[i].tracks[r].id = id, seen'[j].tracks[s].id = id, i < j
      PROVE  /\ seen'[i].tracks[r].class = seen'[j].tracks[s].class
             /\ Sightings(id, i + 1, j - 1)' = {} =>
                   /\ Distance(seen'[i].tracks[r].pos, seen'[j].tracks[s].pos)
                         <= Reach[seen'[i].tracks[r].class]
                   /\ j - i <= MaxMissed + 1
  <2>1. i \in 1..n /\ seen'[i] = seen[i] BY <1>1, <1>3
  <2>2. Sightings(id, i + 1, j - 1)' = Sightings(id, i + 1, j - 1)
    <3>1. i + 1 \in Nat \ {0} /\ j - 1 \in Int /\ j - 1 <= n BY <1>3
    <3> QED BY <1>1, <3>1, SightingsBefore
  <2>3. CASE j \in 1..n
    <3>1. seen'[j] = seen[j] BY <1>1, <2>3
    <3>2. /\ i \in DOMAIN seen /\ j \in DOMAIN seen
          /\ r \in DOMAIN seen[i].tracks /\ s \in DOMAIN seen[j].tracks
          /\ seen[i].tracks[r].id = id /\ seen[j].tracks[s].id = id
      BY <1>1, <1>3, <2>1, <2>3, <3>1
    <3>3. /\ seen[i].tracks[r].class = seen[j].tracks[s].class
          /\ Sightings(id, i + 1, j - 1) = {} =>
                /\ Distance(seen[i].tracks[r].pos, seen[j].tracks[s].pos)
                      <= Reach[seen[i].tracks[r].class]
                /\ j - i <= MaxMissed + 1
      BY <1>3, <3>2 DEF TracksFit, TracksAreContinuous
    <3> QED BY <2>1, <2>2, <3>1, <3>3
  <2>4. CASE j = n + 1
    <3>1. j - 1 = n BY <2>4
    <3>2. r \in DOMAIN seen[i].tracks /\ s \in DOMAIN obs /\ seen[i].tracks[r].id = obs[s].id
             /\ obs[s].id = id /\ seen'[j].tracks = obs
      BY <1>1, <1>3, <2>1, <2>4
    <3>3. /\ seen[i].tracks[r].class = obs[s].class
          /\ Sightings(obs[s].id, i + 1, n) = {} =>
                /\ Distance(seen[i].tracks[r].pos, obs[s].pos) <= Reach[obs[s].class]
                /\ (n + 1) - i <= MaxMissed + 1
      BY <2>1, <3>2, SeenAgain
    <3> QED BY <2>1, <2>2, <2>4, <3>1, <3>2, <3>3
  <2> QED BY <2>3, <2>4
<1>4. ASSUME NEW k \in 1..(n + 1), NEW s \in DOMAIN seen'[k].tracks,
             NEW id, id = seen'[k].tracks[s].id
      PROVE  seen'[k].tracks[s].confirmed
                <=> Cardinality(Sightings(id, 1, k)') >= ConfirmMinHits
  <2>1. CASE k \in 1..n
    <3>1. seen'[k] = seen[k] /\ k \in DOMAIN seen /\ s \in DOMAIN seen[k].tracks
      BY <1>1, <1>4, <2>1
    <3>2. Sightings(id, 1, k)' = Sightings(id, 1, k)
      <4>1. 1 \in Nat \ {0} /\ k \in Int /\ k <= n BY <2>1
      <4> QED BY <1>1, <4>1, SightingsBefore
    <3>3. seen[k].tracks[s].confirmed <=> Cardinality(Sightings(id, 1, k)) >= ConfirmMinHits
      BY <1>4, <3>1 DEF TracksFit, TracksAreContinuous
    <3> QED BY <3>1, <3>2, <3>3
  <2>2. CASE k = n + 1
    <3>1. s \in DOMAIN obs /\ id = obs[s].id BY <1>1, <1>4, <2>2
    <3>2. o \in Seq(Sighted) /\ DOMAIN o = DOMAIN obs BY DEF Added, Matchings, NamedAs
    <3>3. PICK t \in Nat \ {0}: t = o[s].id
      <4>1. o[s] \in Sighted BY <3>1, <3>2
      <4> QED BY <4>1 DEF Sighted
    <3>4. obs[s].id = Base + t BY <3>1, <3>3 DEF Added, NamedAs
    <3>5. Continues(m, o[s]) BY <3>1, <3>4, ShownOnce DEF TracksFit
    <3>6. obs[s].confirmed = (m.tracks[t].hits >= ConfirmMinHits)
      <4>1. obs[s].confirmed = o[s].confirmed BY <3>1 DEF Added, NamedAs
      <4> QED BY <3>3, <3>5, <4>1 DEF Continues
    <3>7. Cardinality(Sightings(id, 1, n)) + 1 = m.tracks[t].hits
      BY <3>1, <3>4, ClaimedBefore
    <3>8. Sightings(id, 1, n + 1)' = Sightings(id, 1, n) \union {n + 1}
      <4>1. 1 \in 1..(n + 1) /\ s \in DOMAIN obs /\ obs[s].id = id BY <3>1
      <4>2. ASSUME NEW i \in 1..(n + 1)
            PROVE  Sightings(id, i, n + 1)' = Sightings(id, i, n) \union {n + 1}
        BY <1>1, <4>1, SightingsMore
      <4> QED BY <4>1, <4>2
    <3>9. Cardinality(Sightings(id, 1, n) \union {n + 1}) = Cardinality(Sightings(id, 1, n)) + 1
      <4>1. /\ IsFiniteSet(Sightings(id, 1, n)) /\ n + 1 \notin Sightings(id, 1, n)
            /\ Cardinality(Sightings(id, 1, n)) \in Nat
        BY SightingsFinite
      <4> QED BY <4>1, FS_AddElement
    <3> QED BY <1>1, <2>2, <3>1, <3>6, <3>7, <3>8, <3>9
  <2> QED BY <2>1, <2>2
<1>5. \A i, j \in DOMAIN seen': \A r \in DOMAIN seen'[i].tracks, s \in DOMAIN seen'[j].tracks:
          i < j /\ seen'[i].tracks[r].id = seen'[j].tracks[s].id =>
             /\ seen'[i].tracks[r].class = seen'[j].tracks[s].class
             /\ {l \in (i + 1)..(j - 1): \E t \in DOMAIN seen'[l].tracks:
                    seen'[l].tracks[t].id = seen'[i].tracks[r].id} = {} =>
                   /\ Distance(seen'[i].tracks[r].pos, seen'[j].tracks[s].pos)
                         <= Reach[seen'[i].tracks[r].class]
                   /\ j - i <= MaxMissed + 1
  BY <1>1, <1>3 DEF Sightings
<1>6. \A k \in DOMAIN seen': \A s \in DOMAIN seen'[k].tracks:
          seen'[k].tracks[s].confirmed
             <=> Cardinality({l \in 1..k: \E t \in DOMAIN seen'[l].tracks:
                    seen'[l].tracks[t].id = seen'[k].tracks[s].id}) >= ConfirmMinHits
  <2> SUFFICES ASSUME NEW k \in 1..(n + 1), NEW s \in DOMAIN seen'[k].tracks
               PROVE  seen'[k].tracks[s].confirmed
                         <=> Cardinality({l \in 1..k: \E t \in DOMAIN seen'[l].tracks:
                                seen'[l].tracks[t].id = seen'[k].tracks[s].id}) >= ConfirmMinHits
    BY <1>1
  <2>1. PICK id: id = seen'[k].tracks[s].id OBVIOUS
  <2>2. seen'[k].tracks[s].confirmed
            <=> Cardinality(Sightings(id, 1, k)') >= ConfirmMinHits
    BY <1>4, <2>1
  <2> QED BY <2>1, <2>2 DEF Sightings
<1> QED BY <1>2, <1>5, <1>6 DEF TracksAreContinuous, Sightings

\* All that is known of the tracks, with the new frame too.
LEMMA TracksAdded ==
    ASSUME TracksFit, NEW m, NEW o, NEW obs, NEW n \in Nat, Added(m, o, obs, n)
    PROVE  TracksFit'
<1>1. TracksTyped' BY TypesAdded DEF TracksFit
<1>2. \A t \in DOMAIN tracks': TrackFits(t)' BY TrackAdded
<1>3. /\ DOMAIN seen = 1..n /\ DOMAIN seen' = 1..(n + 1)
      /\ \A i \in 1..n: seen'[i] = seen[i]
      /\ seen'[n + 1].tracks = obs /\ Base \in Nat /\ Base' = Base
      /\ m.next \in Nat /\ nextTrack \in Nat /\ m.next >= nextTrack /\ nextTrack' = m.next
      /\ m.claimed \subseteq 1..(m.next - 1)
  BY DEF Added, Matchings, MatchFits, TracksFit, TracksTyped
<1>4. ASSUME NEW k \in 1..(n + 1), NEW s \in DOMAIN seen'[k].tracks
      PROVE  \E t \in 1..(nextTrack' - 1): seen'[k].tracks[s].id = Base + t
  <2>1. CASE k \in 1..n
    <3>1. k \in DOMAIN seen /\ seen'[k] = seen[k] /\ s \in DOMAIN seen[k].tracks
      BY <1>3, <1>4, <2>1
    <3>2. PICK t \in 1..(nextTrack - 1): seen[k].tracks[s].id = Base + t
      BY <3>1 DEF TracksFit
    <3> QED BY <1>3, <3>1, <3>2
  <2>2. CASE k = n + 1
    <3>1. s \in DOMAIN obs /\ seen'[k].tracks = obs BY <1>3, <1>4, <2>2
    <3>2. o \in Seq(Sighted) /\ DOMAIN o = DOMAIN obs BY DEF Added, Matchings, NamedAs
    <3>3. PICK t \in Nat \ {0}: t = o[s].id
      <4>1. o[s] \in Sighted BY <3>1, <3>2
      <4> QED BY <4>1 DEF Sighted
    <3>4. obs[s].id = Base + t BY <3>1, <3>3 DEF Added, NamedAs
    <3>5. t \in m.claimed BY <3>1, <3>4, ShownOnce DEF TracksFit
    <3> QED BY <1>3, <3>1, <3>4, <3>5
  <2> QED BY <2>1, <2>2
<1>5. TracksAreContinuous' BY ContinuousAdded
<1> QED BY <1>1, <1>2, <1>3, <1>4, <1>5 DEF TracksFit

-----------------------------------------------------------------------------
(* drain_candidates and the list of a chunk                                *)

\* The chunks of the plan begin with the video, end with it and follow each other.
LEMMA ChunkFacts ==
    /\ Chunks \in Seq(Parts(Duration)) /\ Len(Chunks) \in Nat \ {0}
    /\ Chunks[1].context = 0 /\ Chunks[1].output = 0
    /\ Chunks[Len(Chunks)].end = Duration
    /\ \A n \in 1..(Len(Chunks) - 1): Chunks[n + 1].output = Chunks[n].end
    /\ \A n \in 1..Len(Chunks): /\ Chunks[n].context \in 0..Duration
                                /\ Chunks[n].output \in 0..Duration
                                /\ Chunks[n].end \in 0..Duration
                                /\ Chunks[n].context <= Chunks[n].output
                                /\ Chunks[n].output < Chunks[n].end
<1>1. Duration \in Nat \ {0} /\ ChunkSize \in Nat /\ Overlap \in Nat /\ Overlap < ChunkSize
  BY FrameLoopAssumption
<1>2. PICK w: w = Chunks OBVIOUS
<1>3. w = Windows(Duration, ChunkSize, Overlap) BY <1>2 DEF Chunks
<1>4. /\ w \in Seq(Parts(Duration)) /\ Len(w) > 0
      /\ w[1].context = 0 /\ w[1].output = 0
      /\ w[Len(w)].end = Duration
      /\ \A n \in 1..(Len(w) - 1): w[n + 1].output = w[n].end
      /\ \A n \in 1..Len(w): w[n].context <= w[n].output /\ w[n].output < w[n].end
  <2>1. PutsOutAll(w, Duration, ChunkSize) BY <1>1, <1>3, WindowsFollow
  <2> QED BY <2>1 DEF PutsOutAll
<1>5. PICK X: X = Parts(Duration) OBVIOUS
<1>6. w \in Seq(X) BY <1>4, <1>5
<1>7. \A n \in 1..Len(w): w[n] \in X BY <1>6
<1>8. \A n \in 1..Len(w): /\ w[n].context \in 0..Duration /\ w[n].output \in 0..Duration
                          /\ w[n].end \in 0..Duration
  BY <1>5, <1>7 DEF Parts
<1>9. Len(w) \in Nat \ {0} BY <1>4, <1>6
<1> QED BY <1>2, <1>4, <1>5, <1>6, <1>8, <1>9

\* The chunk at work is one of the plan, and its window is in order.
LEMMA WindowFacts ==
    ASSUME PlanFits, Working
    PROVE  /\ chunk \in 1..Len(Chunks) /\ Window = Chunks[chunk] /\ Border = Window.output
           /\ Window.context \in Nat /\ Window.output \in Nat /\ Window.end \in Nat
           /\ Window.context <= Window.output /\ Window.output < Window.end
           /\ Window.end <= Duration
<1>1. chunk \in 1..Len(Chunks) BY ChunkFacts DEF PlanFits, Working
<1> QED BY <1>1, ChunkFacts DEF Window, Border

\* What is said of the chunk at work stays, when it does.
LEMMA SameWindow ==
    ASSUME chunk' = chunk
    PROVE  Working' = Working /\ Window' = Window /\ Border' = Border /\ Base' = Base
BY DEF Working, Window, Border, Base, Chunks

\* A frame adds at most a kick that ends in it.
LEMMA KicksAfter ==
    ASSUME KicksFit, kicks \in Seq(Kicks), Working, chunk' = chunk,
           NEW t \in Nat, t = Now, NEW u \in Nat, u = Now', t < u, t < Window.end,
           KickMayEnd(t)
    PROVE  /\ KicksFit' /\ kicks' \in Seq(Kicks) /\ Len(kicks) <= Len(kicks')
           /\ \A n \in 1..Len(kicks): kicks'[n] = kicks[n]
           /\ \A n \in (Len(kicks) + 1)..Len(kicks'): kicks'[n].end = t
<1>1. PICK n \in Nat: n = Len(kicks) OBVIOUS
<1>2. DOMAIN kicks = 1..n /\ \A i \in 1..n: kicks[i] \in Kicks BY <1>1
<1>3. \A i \in 1..n: kicks[i].end \in Nat BY <1>2, KickEngineAssumption DEF Kicks
<1>4. \A i \in 1..n: kicks[i].end < t /\ kicks[i].end < Window.end BY <1>2 DEF KicksFit
<1>5. \A i, j \in 1..n: i < j => kicks[i].end < kicks[j].end BY <1>2 DEF KicksFit
<1>6. Working' = Working /\ Window' = Window BY SameWindow
<1>7. CASE kicks' = kicks
  <2>1. \A i \in 1..n: kicks[i].end < u /\ kicks[i].end < Window.end BY <1>3, <1>4
  <2>2. KicksFit' BY <1>2, <1>5, <1>6, <1>7, <2>1 DEF KicksFit
  <2> QED BY <1>1, <1>7, <2>2
<1>8. CASE \E k \in Kicks: k.end = t /\ kicks' = Append(kicks, k)
  <2>1. PICK k \in Kicks: k.end = t /\ kicks' = Append(kicks, k) BY <1>8
  <2>2. PICK s: s = kicks' OBVIOUS
  <2>3. s \in Seq(Kicks) /\ Len(s) = n + 1 /\ DOMAIN s = 1..(n + 1) BY <1>1, <2>1, <2>2
  <2>4. s[n + 1] = k /\ \A i \in 1..n: s[i] = kicks[i] BY <1>1, <2>1, <2>2
  <2>5. \A i \in 1..(n + 1): i \in 1..n \/ i = n + 1 OBVIOUS
  <2>6. \A i \in 1..(n + 1): s[i].end < u /\ s[i].end < Window.end
    <3>1. \A i \in 1..n: kicks[i].end < u BY <1>3, <1>4
    <3>2. s[n + 1].end < u /\ s[n + 1].end < Window.end BY <2>1, <2>4
    <3> QED BY <1>4, <2>4, <2>5, <3>1, <3>2
  <2>7. \A i, j \in 1..(n + 1): i < j => s[i].end < s[j].end
    BY <1>4, <1>5, <2>1, <2>4, <2>5
  <2>8. KicksFit' BY <1>6, <2>2, <2>3, <2>6, <2>7 DEF KicksFit
  <2> QED BY <1>1, <2>1, <2>2, <2>3, <2>4, <2>8
<1> QED BY <1>7, <1>8 DEF KickMayEnd

\* The loop of drain_candidates, kick by kick.
LEMMA KeepSteps ==
    ASSUME NEW d \in Seq(Kicks), NEW n \in Nat, n = Len(d), NEW base \in Seq(Kicks)
    PROVE  \E g: /\ g[0] = base /\ g[n] = FoldLeft(KeepPutOut, base, d)
                 /\ \A i \in 1..n: g[i] = KeepPutOut(g[i - 1], d[i])
<1> DEFINE A == Seq(Kicks)
           f == [p \in A \X (1..n) |-> KeepPutOut(p[1], d[p[2]])]
           IsFold(h) == h = [s \in SUBSET (1..n) |->
                              IF s = {} THEN base ELSE KeepPutOut(h[s \ {Max(s)}], d[Max(s)])]
           iter == CHOOSE h: IsFold(h)
<1>1. DOMAIN d = 1..n /\ \A i \in 1..n: d[i] \in Kicks OBVIOUS
<1>2. f \in [A \X (1..n) -> A]
  <2>1. \A q \in A, k \in Kicks: KeepPutOut(q, k) \in A BY DEF KeepPutOut
  <2> HIDE DEF A
  <2> QED BY <1>1, <2>1
<1>3. PICK h: Folds(h, A, base, n, f)
  <2>1. base \in A OBVIOUS
  <2> HIDE DEF f, A
  <2> QED BY <1>2, <2>1, FoldExists
<1>4. IsFold(h)
  <2>1. ASSUME NEW s \in SUBSET (1..n), s # {}
        PROVE  h[s] = KeepPutOut(h[s \ {Max(s)}], d[Max(s)])
    <3>1. Max(s) \in 1..n BY <2>1, MaxIsMember
    <3>2. h[s \ {Max(s)}] \in A BY <1>3 DEF Folds
    <3>3. h[s] = f[<<h[s \ {Max(s)}], Max(s)>>]
      <4> HIDE DEF f
      <4> QED BY <1>3, <2>1 DEF Folds
    <3>4. <<h[s \ {Max(s)}], Max(s)>> \in A \X (1..n) BY <3>1, <3>2
    <3> QED BY <3>3, <3>4
  <2>2. h[{}] = base BY <1>3 DEF Folds
  <2>3. h = [s \in SUBSET (1..n) |-> h[s]] BY <1>3 DEF Folds
  <2> QED BY <2>1, <2>2, <2>3
<1>5. IsFold(iter)
  <2> HIDE DEF IsFold
  <2> QED BY <1>4
<1>6. FoldLeft(KeepPutOut, base, d) = iter[1..n]
  BY <1>1 DEF FoldLeft, MapThenFoldSet
<1> HIDE DEF iter
<1>7. iter[{}] = base BY <1>5
<1>8. ASSUME NEW i \in 1..n PROVE iter[1..i] = KeepPutOut(iter[1..(i - 1)], d[i])
  <2>1. 1..i \in SUBSET (1..n) /\ i \in 1..i OBVIOUS
  <2>2. Max(1..i) = i
    <3>1. i - 1 \in Nat /\ i = (i - 1) + 1 OBVIOUS
    <3>2. 1..i \in SUBSET (1..((i - 1) + 1)) /\ (i - 1) + 1 \in 1..i BY <3>1
    <3> QED BY <3>1, <3>2, MaxOfInterval
  <2>3. (1..i) \ {i} = 1..(i - 1) OBVIOUS
  <2> QED BY <1>5, <2>1, <2>2, <2>3
<1> DEFINE g == [i \in 0..n |-> iter[1..i]]
<1>9. g[0] = base /\ g[n] = FoldLeft(KeepPutOut, base, d) BY <1>6, <1>7
<1>10. \A i \in 1..n: g[i] = KeepPutOut(g[i - 1], d[i]) BY <1>8
<1> HIDE DEF g
<1> QED BY <1>9, <1>10

\* s is base with those of d's first i that are put out.
KeptOf(s, base, d, i) ==
    /\ s \in Seq(Kicks) /\ EndsDiffer(s)
    /\ ToSet(s) = ToSet(base) \union {d[j]: j \in {l \in 1..i: d[l].end >= Window.output}}

\* The elements of a sequence with one more.
LEMMA AppendedSet ==
    ASSUME NEW X, NEW s \in Seq(X), NEW e \in X
    PROVE  ToSet(Append(s, e)) = ToSet(s) \union {e}
<1>1. PICK n \in Nat: n = Len(s) OBVIOUS
<1>2. PICK t: t = Append(s, e) OBVIOUS
<1>3. /\ DOMAIN s = 1..n /\ DOMAIN t = 1..(n + 1) /\ t[n + 1] = e
      /\ \A i \in 1..n: t[i] = s[i]
  BY <1>1, <1>2
<1>4. \A i \in 1..(n + 1): i \in 1..n \/ i = n + 1 OBVIOUS
<1>5. \A i \in 1..n: i \in 1..(n + 1) OBVIOUS
<1>6. n + 1 \in 1..(n + 1) OBVIOUS
<1> QED BY <1>2, <1>3, <1>4, <1>5, <1>6 DEF ToSet

\* drain_candidates, folded over what the engine has new: it keeps what the chunk puts out.
LEMMA KeepsThose ==
    ASSUME NEW base \in Seq(Kicks), EndsDiffer(base), NEW d \in Seq(Kicks), EndsDiffer(d),
           \A i \in DOMAIN base, j \in DOMAIN d: base[i].end # d[j].end
    PROVE  KeptOf(FoldLeft(KeepPutOut, base, d), base, d, Len(d))
<1>1. PICK n \in Nat: n = Len(d) OBVIOUS
<1>2. DOMAIN d = 1..n /\ \A i \in 1..n: d[i] \in Kicks BY <1>1
<1>3. PICK g: /\ g[0] = base /\ g[n] = FoldLeft(KeepPutOut, base, d)
              /\ \A i \in 1..n: g[i] = KeepPutOut(g[i - 1], d[i])
  BY <1>1, KeepSteps
<1> DEFINE S == {i \in Nat: i <= n => KeptOf(g[i], base, d, i)}
<1>4. 0 \in S
  <2>1. {l \in 1..0: d[l].end >= Window.output} = {} OBVIOUS
  <2>2. {d[j]: j \in {l \in 1..0: d[l].end >= Window.output}} = {} BY <2>1
  <2>3. KeptOf(base, base, d, 0) BY <2>2 DEF KeptOf
  <2> QED BY <1>3, <2>3
<1>5. ASSUME NEW i \in Nat, i + 1 <= n, KeptOf(g[i], base, d, i)
      PROVE  KeptOf(g[i + 1], base, d, i + 1)
  <2>1. PICK s: s = g[i] OBVIOUS
  <2>2. PICK e \in Kicks: e = d[i + 1] BY <1>2, <1>5
  <2>3. g[i + 1] = KeepPutOut(s, e)
    <3>1. i + 1 \in 1..n /\ (i + 1) - 1 = i BY <1>5
    <3> QED BY <1>3, <2>1, <2>2, <3>1
  <2>4. /\ s \in Seq(Kicks) /\ EndsDiffer(s)
        /\ ToSet(s) = ToSet(base) \union {d[j]: j \in {l \in 1..i: d[l].end >= Window.output}}
    BY <1>5, <2>1 DEF KeptOf
  <2>5. \A l \in 1..(i + 1): l \in 1..i \/ l = i + 1 OBVIOUS
  <2>6. \A l \in 1..i: l \in 1..(i + 1) /\ l # i + 1 OBVIOUS
  <2>7. i + 1 \in 1..(i + 1) /\ 1..(i + 1) \subseteq DOMAIN d BY <1>2, <1>5
  <2>8. CASE e.end >= Window.output
    <3>1. g[i + 1] = Append(s, e) BY <2>3, <2>8 DEF KeepPutOut
    <3>2. {d[j]: j \in {l \in 1..(i + 1): d[l].end >= Window.output}}
            = {d[j]: j \in {l \in 1..i: d[l].end >= Window.output}} \union {e}
      BY <2>2, <2>5, <2>6, <2>7, <2>8
    <3>3. ToSet(Append(s, e)) = ToSet(s) \union {e} BY <2>4, AppendedSet
    <3>4. \A k \in DOMAIN s: s[k].end # e.end
      <4> SUFFICES ASSUME NEW k \in DOMAIN s PROVE s[k].end # e.end OBVIOUS
      <4>1. s[k] \in ToSet(s) BY DEF ToSet
      <4>2. CASE s[k] \in ToSet(base)
        <5>1. PICK j \in DOMAIN base: s[k] = base[j] BY <4>2 DEF ToSet
        <5> QED BY <2>2, <2>7, <5>1
      <4>3. CASE s[k] \in {d[j]: j \in {l \in 1..i: d[l].end >= Window.output}}
        <5>1. PICK j \in 1..i: s[k] = d[j] BY <4>3
        <5>2. j \in DOMAIN d /\ i + 1 \in DOMAIN d /\ j # i + 1 BY <2>6, <2>7
        <5> QED BY <2>2, <5>1, <5>2 DEF EndsDiffer
      <4> QED BY <2>4, <4>1, <4>2, <4>3
    <3>5. EndsDiffer(Append(s, e))
      <4>1. PICK r: r = Append(s, e) OBVIOUS
      <4>2. PICK k \in Nat: k = Len(s) BY <2>4
      <4>3. /\ DOMAIN s = 1..k /\ DOMAIN r = 1..(k + 1) /\ r[k + 1] = e
            /\ \A l \in 1..k: r[l] = s[l]
        BY <2>4, <4>1, <4>2
      <4>4. \A l \in 1..(k + 1): l \in 1..k \/ l = k + 1 OBVIOUS
      <4>5. \A l, m \in DOMAIN r: l # m => r[l].end # r[m].end
        BY <2>4, <3>4, <4>3, <4>4 DEF EndsDiffer
      <4> QED BY <4>1, <4>5 DEF EndsDiffer
    <3>6. Append(s, e) \in Seq(Kicks) BY <2>4
    <3>7. ToSet(Append(s, e))
            = ToSet(base) \union {d[j]: j \in {l \in 1..(i + 1): d[l].end >= Window.output}}
      BY <2>4, <3>2, <3>3
    <3> QED BY <3>1, <3>5, <3>6, <3>7 DEF KeptOf
  <2>9. CASE ~(e.end >= Window.output)
    <3>1. g[i + 1] = s BY <2>3, <2>9 DEF KeepPutOut
    <3>2. {l \in 1..(i + 1): d[l].end >= Window.output} = {l \in 1..i: d[l].end >= Window.output}
      BY <2>2, <2>5, <2>6, <2>9
    <3> QED BY <2>4, <3>1, <3>2 DEF KeptOf
  <2> QED BY <2>8, <2>9
<1>6. ASSUME NEW i \in Nat, i \in S PROVE i + 1 \in S
  BY <1>5, <1>6
<1>7. n \in S
  <2> HIDE DEF S
  <2> QED BY <1>4, <1>6, SetInduction
<1>8. KeptOf(g[n], base, d, n) BY <1>7
<1> QED BY <1>1, <1>3, <1>8

\* The times of a kick are numbers.
LEMMA KickEnds ==
    ASSUME NEW k \in Kicks
    PROVE  k.start \in Nat /\ k.end \in Nat /\ k.confidence \in Nat
BY KickEngineAssumption DEF Kicks

\* A frame that went well hands out what the engine found.
LEMMA KeepFits ==
    ASSUME TypeOK, KicksFit, KeptFits, Working, Keep, chunk' = chunk,
           NEW t \in Nat, t = Now, NEW u \in Nat, u = Now', t < u, t < Window.end,
           KickMayEnd(t)
    PROVE  KeptFits' /\ WaitingFits' /\ drained' = Len(kicks')
<1>1. PICK n \in Nat: n = Len(kicks) BY DEF TypeOK
<1>2. PICK k: k = kicks' OBVIOUS
<1>3. kicks \in Seq(Kicks) /\ drained \in 0..n BY <1>1 DEF TypeOK
<1>4. /\ KicksFit' /\ k \in Seq(Kicks) /\ n <= Len(k)
      /\ \A i \in 1..n: k[i] = kicks[i]
  BY <1>1, <1>2, <1>3, KicksAfter
<1>5. PICK l \in Nat: l = Len(k) BY <1>4
<1>6. DOMAIN k = 1..l /\ DOMAIN kicks = 1..n /\ n <= l BY <1>1, <1>3, <1>4, <1>5
<1>7. \A i, j \in 1..l: i < j => k[i].end < k[j].end BY <1>2, <1>4, <1>6 DEF KicksFit
<1>8. \A i \in 1..l: k[i] \in Kicks BY <1>4, <1>6
<1>9. \A i \in 1..l: k[i].end \in Nat BY <1>8, KickEnds
<1>10. PICK d: d = SubSeq(k, drained + 1, l) OBVIOUS
<1>11. /\ d \in Seq(Kicks) /\ Len(d) = l - drained /\ DOMAIN d = 1..(l - drained)
       /\ \A i \in 1..(l - drained): d[i] = k[drained + i]
  BY <1>3, <1>4, <1>5, <1>6, <1>8, <1>10
<1>12. EndsDiffer(d)
  <2> SUFFICES ASSUME NEW i \in 1..(l - drained), NEW j \in 1..(l - drained), i # j
               PROVE  d[i].end # d[j].end
    BY <1>11 DEF EndsDiffer
  <2>1. PICK a \in 1..l: a = drained + i /\ d[i] = k[a] BY <1>3, <1>11
  <2>2. PICK b \in 1..l: b = drained + j /\ d[j] = k[b]
    <3>1. drained + j \in 1..l BY <1>3
    <3>2. d[j] = k[drained + j] BY <1>11
    <3> QED BY <3>1, <3>2
  <2>3. a < b \/ b < a BY <1>3, <2>1, <2>2
  <2> QED BY <1>7, <1>9, <2>1, <2>2, <2>3
<1>13. kept \in Seq(Kicks) /\ EndsDiffer(kept) /\ ToSet(kept) = Kept BY DEF KeptFits
<1>14. \A i \in DOMAIN kept, j \in DOMAIN d: kept[i].end # d[j].end
  <2> SUFFICES ASSUME NEW i \in DOMAIN kept, NEW j \in 1..(l - drained)
               PROVE  kept[i].end # d[j].end
    BY <1>11
  <2>1. kept[i] \in Kept BY <1>13 DEF ToSet
  <2>2. PICK a \in 1..drained: kept[i] = kicks[a] BY <2>1 DEF Kept
  <2>3. a \in 1..l /\ kept[i] = k[a] BY <1>3, <1>4, <1>6, <2>2
  <2>4. PICK b \in 1..l: b = drained + j /\ d[j] = k[b]
    <3>1. drained + j \in 1..l BY <1>3
    <3>2. d[j] = k[drained + j] BY <1>11
    <3> QED BY <3>1, <3>2
  <2>5. a < b BY <1>3, <2>4
  <2>6. k[a].end < k[b].end BY <1>7, <2>3, <2>4, <2>5
  <2> QED BY <1>9, <2>3, <2>4, <2>6
<1>15. PICK s: s = FoldLeft(KeepPutOut, kept, d) OBVIOUS
<1>16. KeptOf(s, kept, d, l - drained)
  <2>1. KeptOf(FoldLeft(KeepPutOut, kept, d), kept, d, Len(d))
    BY <1>11, <1>12, <1>13, <1>14, KeepsThose
  <2> QED BY <1>11, <1>15, <2>1
<1>17. kept' = s /\ drained' = l BY <1>2, <1>5, <1>10, <1>15 DEF Keep
<1>18. Kept' = ToSet(s)
  <2>1. Window' = Window BY SameWindow
  <2>2. Kept' = {k[i]: i \in {j \in 1..l: k[j].end >= Window.output}}
    BY <1>2, <1>17, <2>1 DEF Kept
  <2>3. PICK w: w = Window.output OBVIOUS
  <2>4. ToSet(s) = Kept \union {d[j]: j \in {i \in 1..(l - drained): d[i].end >= w}}
    BY <1>13, <1>16, <2>3 DEF KeptOf
  <2>5. Kept = {kicks[i]: i \in {j \in 1..drained: kicks[j].end >= w}} BY <2>3 DEF Kept
  <2>6. \A i \in 1..drained: i \in 1..l /\ kicks[i] = k[i] BY <1>3, <1>4, <1>6
  <2>7. \A i \in 1..(l - drained): drained + i \in 1..l /\ d[i] = k[drained + i] BY <1>3, <1>11
  <2>8. \A i \in 1..l: \/ i \in 1..drained
                       \/ i - drained \in 1..(l - drained) /\ d[i - drained] = k[i]
    <3> SUFFICES ASSUME NEW i \in 1..l, ~(i \in 1..drained)
                 PROVE  i - drained \in 1..(l - drained) /\ d[i - drained] = k[i]
      OBVIOUS
    <3>1. PICK j \in 1..(l - drained): j = i - drained BY <1>3
    <3>2. drained + j = i BY <1>3, <3>1
    <3> QED BY <1>11, <3>1, <3>2
  <2>9. \A x \in ToSet(s): x \in Kept' BY <2>2, <2>3, <2>4, <2>5, <2>6, <2>7
  <2>10. \A x \in Kept': x \in ToSet(s)
    <3> SUFFICES ASSUME NEW i \in 1..l, k[i].end >= w PROVE k[i] \in ToSet(s) BY <2>2, <2>3
    <3>1. CASE i \in 1..drained BY <2>4, <2>5, <2>6, <3>1
    <3>2. CASE i - drained \in 1..(l - drained) /\ d[i - drained] = k[i] BY <2>4, <3>2
    <3> QED BY <2>8, <3>1, <3>2
  <2> QED BY <2>9, <2>10
<1>19. KeptFits'
  <2>1. s \in Seq(Kicks) /\ EndsDiffer(s) BY <1>16 DEF KeptOf
  <2>2. Working' BY SameWindow
  <2> QED BY <1>17, <1>18, <2>1, <2>2 DEF KeptFits, EndsDiffer, ToSet
<1>20. WaitingFits'
  <2>1. (l + 1)..l = {} BY <1>5
  <2> QED BY <1>2, <1>5, <1>17, <2>1 DEF WaitingFits
<1> QED BY <1>2, <1>5, <1>17, <1>19, <1>20

\* A frame that failed hands out nothing.
LEMMA FailureWaits ==
    ASSUME TypeOK, KicksFit, KeptFits, WaitingFits, Working,
           UNCHANGED <<drained, kept, chunk>>, frame \in Nat, frame' = frame + 1,
           NEW t \in Nat, t = Now, NEW u \in Nat, u = Now', t < u, t < Window.end,
           KickMayEnd(t), failed' = failed \union {frame}
    PROVE  KeptFits' /\ WaitingFits' /\ drained' \in 0..Len(kicks')
<1>1. PICK n \in Nat: n = Len(kicks) BY DEF TypeOK
<1>2. PICK k: k = kicks' OBVIOUS
<1>3. kicks \in Seq(Kicks) /\ drained \in 0..n BY <1>1 DEF TypeOK
<1>4. /\ KicksFit' /\ k \in Seq(Kicks) /\ n <= Len(k)
      /\ \A i \in 1..n: k[i] = kicks[i]
      /\ \A i \in (n + 1)..Len(k): k[i].end = t
  BY <1>1, <1>2, <1>3, KicksAfter
<1>5. PICK l \in Nat: l = Len(k) BY <1>4
<1>6. Working' /\ Window' = Window BY SameWindow
<1>7. Kept' = Kept
  <2>1. \A i \in 1..drained: k[i] = kicks[i] BY <1>3, <1>4
  <2> QED BY <1>2, <1>6, <2>1 DEF Kept
<1>8. KeptFits' BY <1>6, <1>7 DEF KeptFits, EndsDiffer, ToSet
<1>9. ASSUME NEW i \in (drained + 1)..l, NEW f \in 0..frame, Time(f) >= k[i].end
      PROVE  f \in failed \union {frame}
  <2>1. CASE i \in 1..n
    <3>1. i \in (drained + 1)..n /\ k[i] = kicks[i] BY <1>3, <1>4, <2>1
    <3>2. \A g \in 0..(frame - 1): Time(g) >= kicks[i].end => g \in failed
      BY <1>1, <3>1 DEF WaitingFits
    <3>3. f = frame \/ f \in 0..(frame - 1) OBVIOUS
    <3> QED BY <1>9, <3>1, <3>2, <3>3
  <2>2. CASE ~(i \in 1..n)
    <3>1. k[i].end = t BY <1>3, <1>4, <1>5, <2>2
    <3>2. f \in Nat OBVIOUS
    <3>3. f < frame => Time(f) < t BY <3>2, TimesRise DEF Now
    <3>4. Time(f) \in Nat BY <3>2, TimeTyped
    <3> QED BY <1>9, <3>1, <3>3, <3>4
  <2> QED BY <2>1, <2>2
<1>10. WaitingFits'
  <2>1. frame' - 1 = frame OBVIOUS
  <2>2. \A i \in (drained + 1)..l: \A f \in 0..frame: Time(f) >= k[i].end => f \in failed'
    BY <1>9
  <2> QED BY <1>2, <1>5, <2>1, <2>2 DEF WaitingFits, Time
<1>11. drained' \in 0..Len(kicks') BY <1>2, <1>3, <1>4, <1>5
<1> QED BY <1>8, <1>10, <1>11

\* Nothing is kept of no kicks.
LEMMA NothingKept ==
    ASSUME kept = <<>>, drained = 0, kicks = <<>>
    PROVE  KeptFits /\ WaitingFits /\ KicksFit
<1>1. <<>> \in Seq(Kicks) /\ DOMAIN <<>> = {} /\ Len(<<>>) = 0 OBVIOUS
<1>2. 1..0 = {} /\ (0 + 1)..0 = {} OBVIOUS
<1>3. Kept = {} BY <1>2 DEF Kept
<1>4. ToSet(kept) = {} BY <1>1 DEF ToSet
<1>5. KeptFits BY <1>1, <1>3, <1>4 DEF KeptFits, EndsDiffer
<1> QED BY <1>1, <1>2, <1>5 DEF WaitingFits, KicksFit

\* What is listed stays, when neither the list nor the chunk changes.
LEMMA ListedSame ==
    ASSUME ListedFits, listed' = listed, chunk' = chunk
    PROVE  ListedFits'
BY SameWindow DEF ListedFits, EndsDiffer, Chunks

\* Two lists, one after the other.
LEMMA Concatenated ==
    ASSUME NEW X, NEW p \in Seq(X), NEW q \in Seq(X)
    PROVE  /\ p \o q \in Seq(X)
           /\ \A i \in DOMAIN (p \o q): \/ i \in DOMAIN p /\ (p \o q)[i] = p[i]
                                        \/ /\ i - Len(p) \in DOMAIN q /\ (p \o q)[i] = q[i - Len(p)]
                                           /\ i \notin DOMAIN p
OBVIOUS

\* Two lists of different events that have none in common are one such list.
LEMMA DifferTogether ==
    ASSUME NEW X, NEW p \in Seq(X), NEW q \in Seq(X), EndsDiffer(p), EndsDiffer(q),
           \A i \in DOMAIN p, j \in DOMAIN q: p[i].end # q[j].end
    PROVE  EndsDiffer(p \o q)
<1>1. PICK r: r = p \o q OBVIOUS
<1>2. PICK n \in Nat: n = Len(p) OBVIOUS
<1>3. \A i \in DOMAIN r: \/ i \in DOMAIN p /\ r[i] = p[i]
                         \/ i - n \in DOMAIN q /\ r[i] = q[i - n] /\ i \notin DOMAIN p
  BY <1>1, <1>2, Concatenated
<1>4. DOMAIN r \subseteq Nat
  <2>1. r \in Seq(X) BY <1>1
  <2> QED BY <2>1
<1>5. ASSUME NEW i \in DOMAIN r, NEW j \in DOMAIN r, i # j PROVE r[i].end # r[j].end
  <2>1. i - n # j - n BY <1>4, <1>5
  <2>2. CASE i \in DOMAIN p /\ r[i] = p[i] /\ j \in DOMAIN p /\ r[j] = p[j]
    BY <1>5, <2>2 DEF EndsDiffer
  <2>3. CASE i \in DOMAIN p /\ r[i] = p[i] /\ j - n \in DOMAIN q /\ r[j] = q[j - n] BY <2>3
  <2>4. CASE j \in DOMAIN p /\ r[j] = p[j] /\ i - n \in DOMAIN q /\ r[i] = q[i - n] BY <2>4
  <2>5. CASE i - n \in DOMAIN q /\ r[i] = q[i - n] /\ j - n \in DOMAIN q /\ r[j] = q[j - n]
    BY <2>1, <2>5 DEF EndsDiffer
  <2> QED BY <1>3, <2>2, <2>3, <2>4, <2>5
<1> QED BY <1>1, <1>5 DEF EndsDiffer

\* A list of kicks that end at different times, after deduplicate_events.
LEMMA FromDeduplicated ==
    ASSUME NEW list \in Seq(Kicks), EndsDiffer(list)
    PROVE  /\ Deduplicated(list, DedupWindow) \in Seq(Kicks)
           /\ EndsDiffer(Deduplicated(list, DedupWindow))
           /\ \A i \in DOMAIN Deduplicated(list, DedupWindow):
                 Deduplicated(list, DedupWindow)[i] \in ToSet(list)
<1>1. \A e \in Kicks: e.start \in Int /\ e.confidence \in Int BY KickEnds
<1>2. \A k, l \in DOMAIN list: k # l => list[k].end # list[l].end BY DEF EndsDiffer
<1>3. PICK d: d = Deduplicated(list, DedupWindow) OBVIOUS
<1>4. d \in Seq(Kicks) /\ ComesFrom(d, list, Len(list))
  BY <1>1, <1>2, <1>3, DeduplicatedComesFrom
<1>5. EndsDiffer(d) BY <1>4 DEF ComesFrom, EndsDiffer
<1>6. \A i \in DOMAIN d: d[i] \in ToSet(list)
  <2> SUFFICES ASSUME NEW i \in DOMAIN d PROVE d[i] \in ToSet(list) OBVIOUS
  <2>1. PICK j \in 1..Len(list): d[i] = list[j] BY <1>4 DEF ComesFrom
  <2>2. j \in DOMAIN list OBVIOUS
  <2> QED BY <2>1, <2>2 DEF ToSet
<1> QED BY <1>3, <1>4, <1>5, <1>6

-----------------------------------------------------------------------------
(* What a chunk leaves: events and frames                                  *)

\* A finished chunk: the next one puts out what follows.
LEMMA NextBorder ==
    ASSUME PlanFits, Working, chunk' = chunk + 1
    PROVE  /\ Chunks' = Chunks /\ chunk' \in 1..(Len(Chunks) + 1)
           /\ Border' = Window.end
           /\ Working' => chunk < Len(Chunks) /\ Window' = Chunks[chunk + 1]
           /\ ~Working' => chunk = Len(Chunks) /\ Window.end = Duration
<1>1. Chunks' = Chunks BY DEF Chunks
<1>2. PICK l \in Nat \ {0}: l = Len(Chunks) BY ChunkFacts
<1>3. chunk \in 1..l /\ Window = Chunks[chunk] BY <1>2, WindowFacts
<1>4. Working' <=> chunk + 1 <= l BY <1>1, <1>2 DEF Working
<1>5. CASE Working'
  <2>1. chunk \in 1..(l - 1) BY <1>3, <1>4, <1>5
  <2>2. Window' = Chunks[chunk + 1] BY <1>1 DEF Window
  <2>3. Chunks[chunk + 1].output = Chunks[chunk].end BY <1>2, <2>1, ChunkFacts
  <2> QED BY <1>1, <1>2, <1>3, <1>5, <2>1, <2>2, <2>3 DEF Border
<1>6. CASE ~Working'
  <2>1. chunk = l BY <1>3, <1>4, <1>6
  <2>2. Chunks[chunk].end = Duration BY <1>2, <2>1, ChunkFacts
  <2> QED BY <1>1, <1>2, <1>3, <1>6, <2>1, <2>2 DEF Border
<1> QED BY <1>5, <1>6

\* A completed chunk lists what it kept, all of it later than what is listed.
LEMMA ListGrows ==
    ASSUME TypeOK, PlanFits, KicksFit, KeptFits, ListedFits, Working, CompleteChunk
    PROVE  ListedFits'
<1>1. chunk' = chunk + 1 BY DEF CompleteChunk
<1>2. PICK b \in Nat: b = Window.output BY WindowFacts
<1>3. PICK d: d = Deduplicated(kept, DedupWindow) OBVIOUS
<1>4. d \in Seq(Kicks) /\ EndsDiffer(d) /\ \A i \in DOMAIN d: d[i] \in ToSet(kept)
  BY <1>3, FromDeduplicated DEF KeptFits
<1>5. \A i \in DOMAIN d: d[i] \in Kicks /\ b <= d[i].end /\ d[i].end < Window.end
  <2> SUFFICES ASSUME NEW i \in DOMAIN d
               PROVE  d[i] \in Kicks /\ b <= d[i].end /\ d[i].end < Window.end
    OBVIOUS
  <2>1. d[i] \in Kept BY <1>4 DEF KeptFits
  <2>2. PICK j \in 1..drained: d[i] = kicks[j] /\ kicks[j].end >= b BY <1>2, <2>1 DEF Kept
  <2>3. j \in DOMAIN kicks BY DEF TypeOK
  <2>4. kicks[j].end < Window.end BY <2>3 DEF KicksFit
  <2>5. kicks[j] \in Kicks BY <2>3 DEF TypeOK
  <2>6. kicks[j].end \in Nat BY <2>5, KickEnds
  <2> QED BY <1>2, <2>2, <2>4, <2>5, <2>6
<1>6. /\ listed \in Seq(Kicks) /\ EndsDiffer(listed)
      /\ \A i \in DOMAIN listed: listed[i] \in Kicks /\ listed[i].end < b
  <2>1. Border = b BY <1>2, WindowFacts
  <2> QED BY <2>1 DEF ListedFits
<1>7. \A i \in DOMAIN listed, j \in DOMAIN d: listed[i].end # d[j].end
  <2> SUFFICES ASSUME NEW i \in DOMAIN listed, NEW j \in DOMAIN d
               PROVE  listed[i].end # d[j].end
    OBVIOUS
  <2>1. listed[i].end \in Nat /\ listed[i].end < b BY <1>6, KickEnds
  <2>2. d[j].end \in Nat /\ b <= d[j].end BY <1>5, KickEnds
  <2> QED BY <2>1, <2>2
<1>8. PICK r: r = listed \o d OBVIOUS
<1>9. r = listed' /\ r \in Seq(Kicks) /\ EndsDiffer(r)
  <2>1. listed' = listed \o d BY <1>3 DEF CompleteChunk
  <2>2. EndsDiffer(listed \o d) BY <1>4, <1>6, <1>7, DifferTogether
  <2>3. listed \o d \in Seq(Kicks) BY <1>4, <1>6
  <2> QED BY <1>8, <2>1, <2>2, <2>3
<1>10. \A i \in DOMAIN r: \/ i \in DOMAIN listed /\ r[i] = listed[i]
                          \/ i - Len(listed) \in DOMAIN d /\ r[i] = d[i - Len(listed)]
  BY <1>4, <1>6, <1>8, Concatenated
<1>11. Chunks' = Chunks /\ Border' = Window.end /\ Window.end \in Nat /\ b < Window.end
  BY <1>1, <1>2, NextBorder, WindowFacts
<1>12. PICK c \in Nat \ {0}: c = chunk BY DEF PlanFits
<1>13. ASSUME NEW i \in DOMAIN r
       PROVE  /\ r[i].end < Window.end
              /\ \E n \in 1..c: Chunks[n].output <= r[i].end /\ r[i].end < Chunks[n].end
  <2>1. CASE i \in DOMAIN listed /\ r[i] = listed[i]
    <3>1. r[i].end \in Nat /\ r[i].end < b BY <1>6, <2>1, KickEnds
    <3>2. PICK n \in 1..(c - 1): Chunks[n].output <= r[i].end /\ r[i].end < Chunks[n].end
      BY <1>12, <2>1 DEF ListedFits
    <3>3. n \in 1..c OBVIOUS
    <3> QED BY <1>11, <3>1, <3>2, <3>3
  <2>2. CASE i - Len(listed) \in DOMAIN d /\ r[i] = d[i - Len(listed)]
    <3>1. b <= r[i].end /\ r[i].end < Window.end BY <1>5, <2>2
    <3>2. Window = Chunks[c] /\ c \in 1..c BY <1>12 DEF Window
    <3> QED BY <1>2, <3>1, <3>2
  <2> QED BY <1>10, <2>1, <2>2
<1>14. chunk' - 1 = c BY <1>1, <1>12
<1> QED BY <1>9, <1>11, <1>13, <1>14 DEF ListedFits, EndsDiffer

\* The last look at all events takes some away and adds none.
LEMMA ListShrinks ==
    ASSUME ListedFits, Finalize
    PROVE  ListedFits'
<1>1. PICK d: d = Deduplicated(listed, DedupWindow) OBVIOUS
<1>2. d \in Seq(Kicks) /\ EndsDiffer(d) /\ \A i \in DOMAIN d: d[i] \in ToSet(listed)
  BY <1>1, FromDeduplicated DEF ListedFits
<1>3. listed' = d /\ chunk' = chunk BY <1>1 DEF Finalize
<1>4. Border' = Border /\ Chunks' = Chunks BY <1>3, SameWindow DEF Chunks
<1>5. \A i \in DOMAIN d: \E j \in DOMAIN listed: d[i] = listed[j] BY <1>2 DEF ToSet
<1>6. \A i \in DOMAIN d:
          /\ d[i].end < Border
          /\ \E n \in 1..(chunk - 1): Chunks[n].output <= d[i].end /\ d[i].end < Chunks[n].end
  BY <1>5 DEF ListedFits
<1> QED BY <1>2, <1>3, <1>4, <1>6 DEF ListedFits, EndsDiffer
\* The frames a chunk writes: those of its window that are at its border or after it.
LEMMA InPart ==
    ASSUME NEW n \in 1..Len(Chunks), NEW f
    PROVE  f \in Part(n) <=> /\ f \in Nat
                             /\ FrameOf(Chunks[n].context) <= f
                             /\ f < FrameOf(Chunks[n].end)
                             /\ Time(f) >= Chunks[n].output
<1>1. Duration \in Nat BY FrameLoopAssumption
<1>2. PICK w: w = Chunks[n] OBVIOUS
<1>3. w.context \in Nat /\ w.end \in Nat BY <1>1, <1>2, ChunkFacts
<1>4. PICK a \in Nat, b \in Nat: a = FrameOf(w.context) /\ b = FrameOf(w.end)
  BY <1>3, NumberTyped
<1>5. f \in a..(b - 1) <=> f \in Nat /\ a <= f /\ f < b BY <1>4
<1> QED BY <1>2, <1>4, <1>5 DEF Part, Written, Decoded, FrameOf, Time

\* The plan of the job tiles its video.
LEMMA ChunksTile == Tiles(Chunks, Duration, Fps, UnitsPerSecond)
<1>1. Duration \in Nat \ {0} /\ ChunkSize \in Nat /\ Overlap \in Nat /\ Overlap < ChunkSize
  BY FrameLoopAssumption
<1>2. PICK w: w = Chunks OBVIOUS
<1>3. w = Windows(Duration, ChunkSize, Overlap) BY <1>2 DEF Chunks
<1> QED BY <1>1, <1>2, <1>3, RateFits, PlanTiles

\* A later number after all of a sequence that rises.
LEMMA RisesOn ==
    ASSUME NEW s \in Seq(Nat), Rises(s), NEW e \in Nat, \A x \in ToSet(s): x < e
    PROVE  /\ Append(s, e) \in Seq(Nat) /\ Rises(Append(s, e))
           /\ ToSet(Append(s, e)) = ToSet(s) \union {e}
<1>1. PICK k \in Nat: k = Len(s) OBVIOUS
<1>2. PICK r: r = Append(s, e) OBVIOUS
<1>3. /\ DOMAIN s = 1..k /\ DOMAIN r = 1..(k + 1) /\ r[k + 1] = e
      /\ \A l \in 1..k: r[l] = s[l]
  BY <1>1, <1>2
<1>4. \A l \in 1..(k + 1): l \in 1..k \/ l = k + 1 OBVIOUS
<1>5. \A l \in 1..k: s[l] < e BY <1>3 DEF ToSet
<1>6. ASSUME NEW l \in 1..(k + 1), NEW m \in 1..(k + 1), l < m PROVE r[l] < r[m]
  <2>1. l \in 1..k /\ r[l] = s[l] BY <1>3, <1>6
  <2>2. CASE m \in 1..k BY <1>3, <1>6, <2>1, <2>2 DEF Rises
  <2>3. CASE m = k + 1 BY <1>3, <1>5, <2>1, <2>3
  <2> QED BY <1>4, <2>2, <2>3
<1>7. Rises(r) BY <1>3, <1>6 DEF Rises
<1> QED BY <1>2, <1>7, AppendedSet

\* Two sequences that rise, the second after the first.
LEMMA RiseTogether ==
    ASSUME NEW p \in Seq(Nat), NEW q \in Seq(Nat), Rises(p), Rises(q),
           \A x \in ToSet(p), y \in ToSet(q): x < y
    PROVE  p \o q \in Seq(Nat) /\ Rises(p \o q) /\ ToSet(p \o q) = ToSet(p) \union ToSet(q)
<1>1. PICK r: r = p \o q OBVIOUS
<1>2. PICK n \in Nat, k \in Nat: n = Len(p) /\ k = Len(q) OBVIOUS
<1>3. /\ r \in Seq(Nat) /\ DOMAIN p = 1..n /\ DOMAIN q = 1..k /\ DOMAIN r = 1..(n + k)
      /\ \A i \in 1..n: r[i] = p[i]
      /\ \A i \in 1..k: r[n + i] = q[i]
  BY <1>1, <1>2
<1>4. \A i \in 1..(n + k): \/ i \in 1..n /\ r[i] = p[i]
                           \/ i - n \in 1..k /\ r[i] = q[i - n] /\ i \notin 1..n
  BY <1>1, <1>2, <1>3, Concatenated
<1>5. \A i \in 1..n: i \in 1..(n + k) OBVIOUS
<1>6. \A i \in 1..k: n + i \in 1..(n + k) OBVIOUS
<1>7. ASSUME NEW i \in 1..(n + k), NEW j \in 1..(n + k), i < j PROVE r[i] < r[j]
  <2>1. CASE i \in 1..n /\ r[i] = p[i] /\ j \in 1..n /\ r[j] = p[j]
    BY <1>3, <1>7, <2>1 DEF Rises
  <2>2. CASE i \in 1..n /\ r[i] = p[i] /\ j - n \in 1..k /\ r[j] = q[j - n]
    <3>1. r[i] \in ToSet(p) /\ r[j] \in ToSet(q) BY <1>3, <2>2 DEF ToSet
    <3> QED BY <3>1
  <2>3. CASE i - n \in 1..k /\ r[i] = q[i - n] /\ j - n \in 1..k /\ r[j] = q[j - n]
    <3>1. i - n < j - n BY <1>7
    <3> QED BY <1>3, <2>3, <3>1 DEF Rises
  <2>4. CASE i \notin 1..n /\ j \in 1..n BY <1>7, <2>4
  <2> QED BY <1>4, <2>1, <2>2, <2>3, <2>4
<1>8. Rises(r) BY <1>3, <1>7 DEF Rises
<1>9. ToSet(r) = ToSet(p) \union ToSet(q)
  <2>1. \A x \in ToSet(r): x \in ToSet(p) \union ToSet(q) BY <1>3, <1>4 DEF ToSet
  <2>2. \A x \in ToSet(p): x \in ToSet(r) BY <1>3, <1>5 DEF ToSet
  <2>3. \A x \in ToSet(q): x \in ToSet(r) BY <1>3, <1>6 DEF ToSet
  <2> QED BY <2>1, <2>2, <2>3
<1> QED BY <1>1, <1>3, <1>8, <1>9

\* The frame at work is one of the video, and its time one of the chunk.
LEMMA FrameTime ==
    ASSUME PlanFits, InChunk, frame' = frame + 1
    PROVE  \E f \in Nat, t \in Times, u \in Nat:
              /\ f = frame /\ f \in 0..(FrameOf(Duration) - 1)
              /\ t = Now /\ t \in Nat /\ u = Now' /\ t < u /\ t < Window.end
<1>1. Working /\ frame < FrameOf(Window.end) BY DEF InChunk, Working
<1>2. Window.end \in Nat /\ Window.end <= Duration /\ Duration \in Nat
  BY <1>1, WindowFacts, FrameLoopAssumption
<1>3. PICK e \in Nat, d \in Nat: e = FrameOf(Window.end) /\ d = FrameOf(Duration) /\ e <= d
  BY <1>2, FramesOfTimes
<1>4. PICK f \in Nat: f = frame BY <1>3 DEF PlanFits
<1>5. f \in 0..(FrameOf(Duration) - 1) BY <1>1, <1>3, <1>4
<1>6. Time(f) \in Times /\ Time(f) \in Nat
  BY <1>4, <1>5, FrameLoopAssumption, TimeTyped DEF FrameOf, Time
<1>7. Time(f) < Window.end BY <1>1, <1>2, <1>4, BeforeBorder
<1>8. Time(f + 1) \in Nat /\ Time(f) < Time(f + 1) BY TimeTyped, TimesRise
<1>9. Now = Time(f) /\ Now' = Time(f + 1) BY <1>4 DEF Now, Time
<1> QED BY <1>4, <1>5, <1>6, <1>7, <1>8, <1>9

\* A frame, failed or not, is put out, and the chunk goes on to the next.
LEMMA FrameWritten ==
    ASSUME PlanFits, OutputFits, InChunk, Write
    PROVE  PlanFits' /\ OutputFits' /\ Working /\ Working'
<1>1. Working /\ frame < FrameOf(Window.end) /\ ~finished BY DEF InChunk, Working
<1>2. /\ Window.context \in Nat /\ Window.output \in Nat /\ Window.end \in Nat
      /\ Window.end <= Duration /\ chunk \in 1..Len(Chunks) /\ Window = Chunks[chunk]
  BY <1>1, WindowFacts
<1>3. Duration \in Nat BY FrameLoopAssumption
<1>4. /\ frame' = frame + 1 /\ chunk' = chunk /\ output' = output /\ finished' = finished
      /\ written' = IF Now >= Window.output THEN Append(written, frame) ELSE written
  BY DEF Write
<1>5. Working' = Working /\ Window' = Window /\ Chunks' = Chunks BY <1>4, SameWindow DEF Chunks
<1>6. PICK e \in Nat, d \in Nat, c \in Nat:
         e = FrameOf(Window.end) /\ d = FrameOf(Duration) /\ e <= d /\ c = FrameOf(Window.context)
  <2>1. FrameOf(Window.end) \in Nat /\ FrameOf(Duration) \in Nat /\ FrameOf(Window.context) \in Nat
    BY <1>2, <1>3, NumberTyped
  <2>2. FrameOf(Window.end) <= FrameOf(Duration) BY <1>2, <1>3, FramesOfTimes
  <2> QED BY <2>1, <2>2
<1>7. PICK f \in Nat: f = frame /\ c <= f /\ f < e BY <1>1, <1>6 DEF PlanFits
<1>8. PlanFits'
  <2>1. f + 1 \in 0..d /\ c <= f + 1 /\ f + 1 <= e BY <1>6, <1>7
  <2>2. FrameOf(Window.context)' = c /\ FrameOf(Window.end)' = e /\ FrameOf(Duration)' = d
    BY <1>5, <1>6 DEF FrameOf
  <2> QED BY <1>1, <1>4, <1>5, <1>7, <2>1, <2>2 DEF PlanFits
<1>9. /\ written \in Seq(Nat) /\ Rises(written)
      /\ ToSet(written) = {g \in Part(chunk): g < f}
  BY <1>1, <1>7 DEF OutputFits
<1>10. \A g \in Part(chunk): g \in Nat BY <1>2, InPart
<1>11. f \in Part(chunk) <=> Now >= Window.output
  BY <1>2, <1>6, <1>7, InPart DEF Now
<1>12. PICK w: w = written' OBVIOUS
<1>13. w \in Seq(Nat) /\ Rises(w) /\ ToSet(w) = {g \in Part(chunk): g < f + 1}
  <2>1. CASE Now >= Window.output
    <3>1. w = Append(written, f) BY <1>4, <1>7, <1>12, <2>1
    <3>2. w \in Seq(Nat) /\ Rises(w) /\ ToSet(w) = ToSet(written) \union {f}
      BY <1>9, <3>1, RisesOn
    <3>3. \A g \in Part(chunk): g < f + 1 <=> g < f \/ g = f BY <1>10
    <3> QED BY <1>9, <1>11, <2>1, <3>2, <3>3
  <2>2. CASE ~(Now >= Window.output)
    <3>1. w = written BY <1>4, <1>12, <2>2
    <3>2. \A g \in Part(chunk): g < f + 1 <=> g < f BY <1>10, <1>11, <2>2
    <3> QED BY <1>9, <3>1, <3>2
  <2> QED BY <2>1, <2>2
<1>14. \A n: Part(n)' = Part(n) BY <1>5 DEF Part
<1>15. OutputFits'
  <2>1. output' \in Seq(Nat) /\ Rises(output') /\ ToSet(output') = UNION {Part(n): n \in 1..(chunk - 1)}
    BY <1>4 DEF OutputFits
  <2>2. Rises(output)' /\ Rises(written)' BY <1>12, <1>13, <2>1 DEF Rises
  <2>3. ToSet(output') = (UNION {Part(n): n \in 1..(chunk - 1)})' BY <1>4, <1>14, <2>1
  <2>4. ToSet(written') = {g \in Part(chunk): g < frame}' BY <1>4, <1>7, <1>12, <1>13, <1>14
  <2> QED BY <1>1, <1>5, <1>12, <1>13, <2>1, <2>2, <2>3, <2>4 DEF OutputFits
<1> QED BY <1>1, <1>5, <1>8, <1>15

\* A completed chunk adds its frames, the next to come, to the output.
LEMMA OutputGrows ==
    ASSUME PlanFits, OutputFits, CompleteChunk
    PROVE  PlanFits' /\ OutputFits' /\ Working
<1>1. Working /\ ~finished /\ frame = FrameOf(Window.end) BY DEF CompleteChunk, Working
<1>2. /\ chunk' = chunk + 1 /\ output' = output \o written /\ written' = <<>>
      /\ finished' = finished
      /\ frame' = IF chunk < Len(Chunks) THEN FrameOf(Chunks[chunk + 1].context) ELSE frame
  BY DEF CompleteChunk, StartChunk
<1>3. chunk \in 1..Len(Chunks) /\ Window = Chunks[chunk] BY <1>1, WindowFacts
<1>4. /\ Chunks' = Chunks /\ chunk' \in 1..(Len(Chunks) + 1)
      /\ Working' => chunk < Len(Chunks) /\ Window' = Chunks[chunk + 1]
  BY <1>1, <1>2, NextBorder
<1>5. PICK l \in Nat: l = Len(Chunks) /\ DOMAIN Chunks = 1..l BY ChunkFacts
<1>6. PICK c \in 1..l: c = chunk BY <1>3, <1>5
<1>7. PlanFits'
  <2>1. Duration \in Nat BY FrameLoopAssumption
  <2>2. CASE c < l
    <3>1. c + 1 \in 1..l BY <2>2
    <3>2. PICK w: w = Chunks[c + 1] OBVIOUS
    <3>3. w.context \in Nat /\ w.end \in Nat /\ w.context <= w.end /\ w.end <= Duration
      BY <1>5, <2>1, <3>1, <3>2, ChunkFacts
    <3>4. PICK a \in Nat, b \in Nat: /\ a = FrameOf(w.context) /\ b = FrameOf(w.end)
                                     /\ a <= b /\ b <= FrameOf(Duration)
      BY <2>1, <3>3, FramesOfTimes
    <3>5. FrameOf(Duration) \in Nat BY <2>1, FramesOfTimes
    <3>6. frame' = a /\ Window' = w BY <1>2, <1>4, <1>5, <1>6, <2>2, <3>2, <3>4 DEF Window
    <3>7. a \in 0..FrameOf(Duration) BY <3>4, <3>5
    <3> QED BY <1>1, <1>2, <1>4, <3>4, <3>6, <3>7 DEF PlanFits, FrameOf
  <2>3. CASE ~(c < l)
    <3>1. frame' = frame /\ ~Working' BY <1>2, <1>4, <1>5, <1>6, <2>3
    <3> QED BY <1>1, <1>2, <1>4, <3>1 DEF PlanFits, FrameOf
  <2> QED BY <2>2, <2>3
<1>8. ToSet(written) = Part(c)
  <2>1. \A f \in Part(c): f < frame BY <1>1, <1>3, <1>5, <1>6, InPart
  <2> QED BY <1>1, <1>6, <2>1 DEF OutputFits
<1>9. /\ output \in Seq(Nat) /\ Rises(output)
      /\ ToSet(output) = UNION {Part(n): n \in 1..(c - 1)}
      /\ written \in Seq(Nat) /\ Rises(written)
  BY <1>6 DEF OutputFits
<1>10. \A x \in ToSet(output), y \in ToSet(written): x < y
  <2> SUFFICES ASSUME NEW m \in 1..(c - 1), NEW x \in Part(m), NEW y \in Part(c) PROVE x < y
    BY <1>8, <1>9
  <2>1. m \in 1..l /\ m < c OBVIOUS
  <2> QED BY <1>5, <1>6, <2>1, ChunksTile DEF Tiles, Part
<1>11. PICK o: o = output \o written OBVIOUS
<1>12. o \in Seq(Nat) /\ Rises(o) /\ ToSet(o) = ToSet(output) \union ToSet(written)
  BY <1>9, <1>10, <1>11, RiseTogether
<1>13. ToSet(o) = UNION {Part(n): n \in 1..c}
  <2>1. \A n \in 1..c: n \in 1..(c - 1) \/ n = c OBVIOUS
  <2>2. \A n \in 1..(c - 1): n \in 1..c OBVIOUS
  <2>3. c \in 1..c OBVIOUS
  <2> QED BY <1>8, <1>9, <1>12, <2>1, <2>2, <2>3
<1>14. \A n: Part(n)' = Part(n) BY <1>4 DEF Part
<1>15. Working' => {f \in Part(c + 1): f < frame'} = {}
  <2> SUFFICES ASSUME Working', NEW f \in Part(c + 1), f < frame' PROVE FALSE OBVIOUS
  <2>1. c < l /\ c + 1 \in 1..l BY <1>4, <1>5, <1>6
  <2>2. f \in Nat /\ frame' <= f BY <1>2, <1>5, <1>6, <2>1, InPart
  <2>3. frame' \in Nat BY <1>7 DEF PlanFits
  <2> QED BY <2>2, <2>3
<1>16. OutputFits'
  <2>1. <<>> \in Seq(Nat) /\ Rises(<<>>) /\ ToSet(<<>>) = {} BY DEF Rises, ToSet
  <2>2. chunk' = c + 1 /\ chunk' - 1 = c BY <1>2, <1>6
  <2>3. Rises(output)' /\ Rises(written)' BY <1>2, <1>11, <1>12, <2>1 DEF Rises
  <2>4. ToSet(output)' = (UNION {Part(n): n \in 1..(chunk - 1)})'
    BY <1>2, <1>11, <1>13, <1>14, <2>2 DEF ToSet
  <2>5. ToSet(written)' = (IF Working THEN {f \in Part(chunk): f < frame} ELSE {})'
    BY <1>2, <1>14, <1>15, <2>1, <2>2 DEF ToSet
  <2> QED BY <1>2, <1>11, <1>12, <2>1, <2>3, <2>4, <2>5 DEF OutputFits
<1> QED BY <1>1, <1>7, <1>16

\* A restart goes back to the first frame of the chunk: what the chunk wrote is dropped.
LEMMA ChunkAgain ==
    ASSUME PlanFits, OutputFits, RestartChunk
    PROVE  PlanFits' /\ OutputFits' /\ Working
<1>1. Working /\ ~finished BY DEF RestartChunk, Working
<1>2. /\ chunk' = chunk /\ output' = output /\ written' = <<>> /\ finished' = finished
      /\ frame' = FrameOf(Window.context)
  BY DEF RestartChunk, StartChunk
<1>3. /\ Window.context \in Nat /\ Window.end \in Nat /\ Window.context <= Window.end
      /\ Window.end <= Duration /\ Duration \in Nat
      /\ chunk \in 1..Len(Chunks) /\ Window = Chunks[chunk]
  <2>1. PICK w: w = Window OBVIOUS
  <2>2. /\ w.context \in Nat /\ w.output \in Nat /\ w.end \in Nat
        /\ w.context <= w.output /\ w.output < w.end /\ w.end <= Duration
        /\ chunk \in 1..Len(Chunks) /\ Window = Chunks[chunk]
    BY <1>1, <2>1, WindowFacts
  <2>3. w.context <= w.end BY <2>2
  <2> QED BY <2>1, <2>2, <2>3, FrameLoopAssumption
<1>4. Working' = Working /\ Window' = Window /\ Chunks' = Chunks BY <1>2, SameWindow DEF Chunks
<1>5. PICK a \in Nat, b \in Nat, d \in Nat:
         /\ a = FrameOf(Window.context) /\ b = FrameOf(Window.end) /\ d = FrameOf(Duration)
         /\ a <= b /\ b <= d
  <2>1. FrameOf(Window.context) \in Nat /\ FrameOf(Window.end) \in Nat /\ FrameOf(Duration) \in Nat
    BY <1>3, NumberTyped
  <2>2. FrameOf(Window.context) <= FrameOf(Window.end) BY <1>3, FramesOfTimes
  <2>3. FrameOf(Window.end) <= FrameOf(Duration) BY <1>3, FramesOfTimes
  <2> QED BY <2>1, <2>2, <2>3
<1>6. a \in 0..d BY <1>5
<1>7. PlanFits' BY <1>1, <1>2, <1>4, <1>5, <1>6 DEF PlanFits, FrameOf
<1>8. <<>> \in Seq(Nat) /\ Rises(<<>>) /\ ToSet(<<>>) = {} BY DEF Rises, ToSet
<1>9. \A n: Part(n)' = Part(n) BY <1>4 DEF Part
<1>10. {f \in Part(chunk): f < a} = {}
  <2> SUFFICES ASSUME NEW f \in Part(chunk), f < a PROVE FALSE OBVIOUS
  <2>1. f \in Nat /\ a <= f BY <1>3, <1>5, InPart
  <2> QED BY <2>1
<1>11. OutputFits'
  <2>1. Rises(output)' /\ Rises(written)' BY <1>2, <1>8 DEF OutputFits, Rises
  <2>2. ToSet(output)' = (UNION {Part(n): n \in 1..(chunk - 1)})'
    BY <1>2, <1>9 DEF OutputFits, ToSet
  <2>3. ToSet(written)' = (IF Working THEN {f \in Part(chunk): f < frame} ELSE {})'
    BY <1>2, <1>5, <1>8, <1>9, <1>10 DEF ToSet
  <2> QED BY <1>2, <1>8, <2>1, <2>2, <2>3 DEF OutputFits
<1> QED BY <1>1, <1>7, <1>11

-----------------------------------------------------------------------------
(* TrailBuffer: a line of points                                           *)

\* The points of a trail.
Points == [pos: Positions, at: Nat]

\* The confirmed track was seen there.
SeenAt(id, pos, at) ==
    \E i \in DOMAIN seen: \E t \in DOMAIN seen[i].tracks:
        /\ seen[i].at = at
        /\ seen[i].tracks[t].id = id
        /\ seen[i].tracks[t].pos = pos
        /\ seen[i].tracks[t].confirmed

\* A line of points, one for each frame up to the last, with no jump in it.
IsLine(p, last) ==
    /\ p \in Seq(Points) /\ Len(p) \in 1..(last + 1)
    /\ \A n \in 1..Len(p): p[n].at = Time(last - Len(p) + n)
    /\ \A n \in 2..Len(p): Distance(p[n].pos, p[n - 1].pos) <= TrailMaxJump

\* A line, longer by a point in the next frame that is no jump away.
LEMMA LineExtended ==
    ASSUME NEW p, NEW last \in Nat, IsLine(p, last), NEW x \in Points, x.at = Time(last + 1),
           Distance(p[Len(p)].pos, x.pos) <= TrailMaxJump
    PROVE  IsLine(Append(p, x), last + 1)
<1>1. PICK l \in Nat \ {0}: l = Len(p) /\ l <= last + 1 BY DEF IsLine
<1>2. PICK q: q = Append(p, x) OBVIOUS
<1>3. p \in Seq(Points) /\ \A n \in 1..l: p[n] \in Points BY <1>1 DEF IsLine
<1>4. /\ q \in Seq(Points) /\ Len(q) = l + 1 /\ q[l + 1] = x
      /\ \A n \in 1..l: q[n] = p[n]
  BY <1>1, <1>2, <1>3
<1>5. \A n \in 1..(l + 1): n \in 1..l \/ n = l + 1 OBVIOUS
<1>6. ASSUME NEW n \in 1..(l + 1) PROVE q[n].at = Time((last + 1) - (l + 1) + n)
  <2>1. CASE n \in 1..l
    <3>1. q[n].at = Time(last - l + n) BY <1>1, <1>4, <2>1 DEF IsLine
    <3>2. last - l + n = (last + 1) - (l + 1) + n OBVIOUS
    <3> QED BY <3>1, <3>2
  <2>2. CASE n = l + 1
    <3>1. q[n] = x BY <1>4, <2>2
    <3>2. (last + 1) - (l + 1) + n = last + 1 BY <2>2
    <3> QED BY <3>1, <3>2
  <2> QED BY <1>5, <2>1, <2>2
<1>7. ASSUME NEW n \in 2..(l + 1) PROVE Distance(q[n].pos, q[n - 1].pos) <= TrailMaxJump
  <2>1. CASE n \in 2..l
    <3>1. n \in 1..l /\ n - 1 \in 1..l BY <2>1
    <3>2. Distance(p[n].pos, p[n - 1].pos) <= TrailMaxJump BY <1>1, <2>1 DEF IsLine
    <3> QED BY <1>4, <3>1, <3>2
  <2>2. CASE n = l + 1
    <3>1. q[n] = x /\ n - 1 = l /\ q[l] = p[l] BY <1>1, <1>4, <2>2
    <3>2. p[l].pos \in Int /\ x.pos \in Int
      <4>1. p[l] \in Points BY <1>3
      <4> QED BY <4>1, KickEngineAssumption DEF Points
    <3>3. Distance(x.pos, p[l].pos) = Distance(p[l].pos, x.pos) BY <3>2, DistanceIsOne
    <3> QED BY <1>1, <3>1, <3>3
  <2>3. n \in 2..l \/ n = l + 1 OBVIOUS
  <2> QED BY <2>1, <2>2, <2>3
<1>8. l + 1 \in 1..((last + 1) + 1) BY <1>1
<1> QED BY <1>2, <1>4, <1>6, <1>7, <1>8 DEF IsLine

\* A single point is a line.
LEMMA LineBegun ==
    ASSUME NEW x \in Points, NEW last \in Nat, x.at = Time(last)
    PROVE  /\ IsLine(Append(<<>>, x), last)
           /\ Len(Append(<<>>, x)) = 1 /\ Append(<<>>, x)[1] = x
<1>1. PICK q: q = Append(<<>>, x) OBVIOUS
<1>2. q \in Seq(Points) /\ Len(q) = 1 /\ q[1] = x BY <1>1
<1>3. \A n \in 1..1: q[n].at = Time(last - 1 + n)
  <2>1. \A n \in 1..1: n = 1 OBVIOUS
  <2>2. last - 1 + 1 = last OBVIOUS
  <2> QED BY <1>2, <2>1, <2>2
<1>4. 2..1 = {} /\ 1 \in 1..(last + 1) OBVIOUS
<1> QED BY <1>1, <1>2, <1>3, <1>4 DEF IsLine

\* The end of a line is a line: both limits of a trail drop its oldest points.
LEMMA LineCut ==
    ASSUME NEW p, NEW last \in Nat, IsLine(p, last), NEW a \in 1..Len(p)
    PROVE  /\ IsLine(SubSeq(p, a, Len(p)), last)
           /\ Len(SubSeq(p, a, Len(p))) = Len(p) - a + 1
           /\ \A n \in 1..(Len(p) - a + 1): /\ SubSeq(p, a, Len(p))[n] = p[a + n - 1]
                                            /\ a + n - 1 \in 1..Len(p)
<1>1. PICK l \in Nat \ {0}: l = Len(p) /\ l <= last + 1 BY DEF IsLine
<1>2. PICK q: q = SubSeq(p, a, l) OBVIOUS
<1>3. p \in Seq(Points) /\ \A n \in 1..l: p[n] \in Points BY <1>1 DEF IsLine
<1>4. PICK k \in Nat \ {0}: k = l - a + 1
  <2>1. a \in 1..l BY <1>1
  <2> QED BY <2>1
<1>5. \A n \in 1..k: a + n - 1 \in 1..l BY <1>1, <1>4
<1>6. /\ q \in Seq(Points) /\ Len(q) = k
      /\ \A n \in 1..k: q[n] = p[a + n - 1]
  BY <1>1, <1>2, <1>3, <1>4, <1>5
<1>7. ASSUME NEW n \in 1..k PROVE q[n].at = Time(last - k + n)
  <2>1. PICK j \in 1..l: j = a + n - 1 BY <1>5
  <2>2. p[j].at = Time(last - l + j) BY <1>1 DEF IsLine
  <2>3. q[n] = p[j] BY <1>6, <2>1
  <2>4. last - l + j = last - k + n BY <1>4, <2>1
  <2> QED BY <2>2, <2>3, <2>4
<1>8. ASSUME NEW n \in 2..k PROVE Distance(q[n].pos, q[n - 1].pos) <= TrailMaxJump
  <2>1. PICK j \in 2..l: j = a + n - 1 BY <1>1, <1>4
  <2>2. Distance(p[j].pos, p[j - 1].pos) <= TrailMaxJump BY <1>1 DEF IsLine
  <2>3. n \in 1..k /\ n - 1 \in 1..k /\ a + (n - 1) - 1 = j - 1 BY <1>1, <2>1
  <2>4. q[n] = p[j] /\ q[n - 1] = p[j - 1] BY <1>6, <2>1, <2>3
  <2> QED BY <2>2, <2>4
<1>9. IsLine(q, last)
  <2>1. k \in 1..(last + 1) BY <1>1, <1>4
  <2> QED BY <1>6, <1>7, <1>8, <2>1 DEF IsLine
<1>10. \A n \in 1..k: q[n] = p[a + n - 1] /\ a + n - 1 \in 1..l BY <1>5, <1>6
<1> QED BY <1>1, <1>2, <1>4, <1>6, <1>9, <1>10
\* What TrailsFit asks of one trail.
IsTrail(id, trail) ==
    /\ IsLine(trail.points, trail.last)
    /\ trail.last \in Nat /\ trail.last < frame
    /\ Len(trail.points) \in 1..TrailMaxPoints
    /\ trail.points[1].at >= Time(trail.last) - TrailMaxAge
    /\ (trail.last + 1)..(frame - 1) \subseteq failed
    /\ \A n \in 1..Len(trail.points):
          /\ trail.last - Len(trail.points) + n \notin failed
          /\ SeenAt(id, trail.points[n].pos, trail.points[n].at)

\* TrailsFit, trail by trail.
LEMMA TrailsAreTrails ==
    ASSUME frame \in Nat
    PROVE  TrailsFit <=> /\ failed \subseteq 0..(frame - 1)
                         /\ \A id \in DOMAIN trails: IsTrail(id, trails[id])
<1>1. ASSUME NEW id, NEW t
      PROVE  IsTrail(id, t) <=>
                 /\ TrailFits(t)
                 /\ LET points == t.points IN
                    /\ Len(points) \in 1..TrailMaxPoints
                    /\ points[1].at >= points[Len(points)].at - TrailMaxAge
                    /\ (t.last + 1)..(frame - 1) \subseteq failed
                    /\ \A n \in 2..Len(points):
                          Distance(points[n].pos, points[n - 1].pos) <= TrailMaxJump
                    /\ \A n \in DOMAIN points:
                          /\ t.last - Len(points) + n \in (0..(frame - 1)) \ failed
                          /\ points[n].at = Time(t.last - Len(points) + n)
                          /\ SeenAt(id, points[n].pos, points[n].at)
  <2> DEFINE p == t.points
  <2>1. CASE ~(t.last \in Nat /\ t.last < frame /\ p \in Seq(Points) /\ Len(p) > 0)
    BY <2>1 DEF IsTrail, TrailFits, IsLine, Points
  <2>2. CASE t.last \in Nat /\ t.last < frame /\ p \in Seq(Points) /\ Len(p) > 0
    <3>1. PICK l \in Nat \ {0}: l = Len(p) BY <2>2
    <3>2. PICK last \in Nat: last = t.last /\ last < frame BY <2>2
    <3>3. DOMAIN p = 1..l BY <2>2, <3>1
    <3>4. l <= last + 1 <=> \A n \in 1..l: last - l + n \in 0..(frame - 1)
      <4>1. l <= last + 1 => \A n \in 1..l: last - l + n \in 0..(frame - 1) BY <3>2
      <4>2. (\A n \in 1..l: last - l + n \in 0..(frame - 1)) => l <= last + 1
        <5>1. 1 \in 1..l OBVIOUS
        <5>2. last - l + 1 \in 0..(frame - 1) => l <= last + 1 BY <3>2
        <5> QED BY <5>1, <5>2
      <4> QED BY <4>1, <4>2
    <3>5. CASE ~(\A n \in 1..l: p[n].at = Time(last - l + n))
      BY <3>1, <3>2, <3>3, <3>5 DEF IsTrail, TrailFits, IsLine
    <3>6. CASE \A n \in 1..l: p[n].at = Time(last - l + n)
      <4>1. p[l].at = Time(last)
        <5>1. last - l + l = last /\ l \in 1..l OBVIOUS
        <5> QED BY <3>6, <5>1
      <4>2. l \in 1..(last + 1) <=> l <= last + 1 BY <3>1
      <4>3. IsLine(p, last) <=> /\ l <= last + 1
                                /\ \A n \in 2..l: Distance(p[n].pos, p[n - 1].pos) <= TrailMaxJump
        BY <2>2, <3>1, <3>6, <4>2 DEF IsLine
      <4>4. TrailFits(t) BY <2>2 DEF TrailFits, Points
      <4> QED BY <3>1, <3>2, <3>3, <3>4, <3>6, <4>1, <4>3, <4>4 DEF IsTrail
    <3> QED BY <3>5, <3>6
  <2> QED BY <2>1, <2>2
<1> QED BY <1>1 DEF TrailsFit, TrailsAreUnbroken, SeenAt

\* A trail of the invariant is a line of points where its track was seen.
LEMMA TrailIsLine ==
    ASSUME TrailsFit, frame \in Nat, NEW id \in DOMAIN trails
    PROVE  /\ IsLine(trails[id].points, trails[id].last)
           /\ trails[id].last \in Nat /\ trails[id].last < frame
           /\ \A n \in 1..Len(trails[id].points):
                 /\ trails[id].last - Len(trails[id].points) + n \notin failed
                 /\ SeenAt(id, trails[id].points[n].pos, trails[id].points[n].at)
<1>1. IsTrail(id, trails[id]) BY TrailsAreTrails
<1> QED BY <1>1 DEF IsTrail

\* A track that was seen somewhere stays seen there.
LEMMA StillSeen ==
    ASSUME DOMAIN seen \subseteq DOMAIN seen', \A k \in DOMAIN seen: seen'[k] = seen[k],
           NEW id, NEW x, NEW at, SeenAt(id, x, at)
    PROVE  SeenAt(id, x, at)'
BY DEF SeenAt

\* The line of the track before this frame, with this frame.
LineOf(o) ==
    Append(IF o.id \notin DOMAIN trails \/ Interrupted(trails[o.id], o) THEN <<>>
           ELSE trails[o.id].points, [pos |-> o.pos, at |-> Now])

\* It is a line, of points where the track was seen and of this frame.
LEMMA LineWithFrame ==
    ASSUME TrailsFit, NEW f \in Nat, f = frame, NEW o \in Observations, NEW p, p = LineOf(o)
    PROVE  /\ IsLine(p, f)
           /\ \A n \in 1..Len(p): \/ n = Len(p) /\ p[n] = [pos |-> o.pos, at |-> Now]
                                  \/ /\ f - Len(p) + n \notin failed
                                     /\ SeenAt(o.id, p[n].pos, p[n].at)
<1>1. PICK x \in Points: x = [pos |-> o.pos, at |-> Now] /\ x.pos = o.pos /\ x.at = Time(f)
  <2>1. o.pos \in Positions BY DEF Observations
  <2>2. Time(f) \in Nat BY TimeTyped
  <2>3. [pos |-> o.pos, at |-> Time(f)] \in Points BY <2>1, <2>2 DEF Points
  <2> QED BY <2>3 DEF Now
<1>2. CASE o.id \notin DOMAIN trails \/ Interrupted(trails[o.id], o)
  <2>1. p = Append(<<>>, x) BY <1>1, <1>2 DEF LineOf
  <2>2. IsLine(p, f) /\ Len(p) = 1 /\ p[1] = x BY <1>1, <2>1, LineBegun
  <2>3. \A n \in 1..1: n = 1 OBVIOUS
  <2> QED BY <1>1, <2>2, <2>3
<1>3. CASE ~(o.id \notin DOMAIN trails \/ Interrupted(trails[o.id], o))
  <2>1. PICK s: o.id \in DOMAIN trails /\ s = trails[o.id].points BY <1>3
  <2>2. PICK last \in Nat: last = trails[o.id].last BY <2>1, TrailIsLine
  <2>3. /\ IsLine(s, last) /\ last < f
        /\ \A n \in 1..Len(s): last - Len(s) + n \notin failed /\ SeenAt(o.id, s[n].pos, s[n].at)
    BY <2>1, <2>2, TrailIsLine
  <2>4. PICK l \in Nat \ {0}: l = Len(s) BY <2>3 DEF IsLine
  <2>5. s[l] \in Points BY <2>3, <2>4 DEF IsLine
  <2>6. Distance(s[l].pos, x.pos) \in Nat
    <3>1. s[l].pos \in Int /\ x.pos \in Int BY <2>5, KickEngineAssumption DEF Points
    <3> QED BY <3>1, DistanceIsOne
  <2>7. last = f - 1 /\ Distance(s[l].pos, x.pos) <= TrailMaxJump
    <3>1. ~(f - last > 1) /\ ~(Distance(s[l].pos, x.pos) > TrailMaxJump)
      BY <1>1, <1>3, <2>1, <2>2, <2>4 DEF Interrupted
    <3>2. PICK d \in Nat, far \in Nat: d = Distance(s[l].pos, x.pos) /\ far = TrailMaxJump
      BY <2>6, FrameLoopAssumption
    <3>3. d <= far BY <3>1, <3>2
    <3> QED BY <2>3, <3>1, <3>2, <3>3
  <2>8. p = Append(s, x) BY <1>1, <1>3, <2>1 DEF LineOf
  <2>9. IsLine(p, f)
    <3>1. x.at = Time(last + 1) /\ f = last + 1 BY <1>1, <2>7
    <3> QED BY <2>3, <2>4, <2>7, <2>8, <3>1, LineExtended
  <2>10. Len(p) = l + 1 /\ p[l + 1] = x /\ \A n \in 1..l: p[n] = s[n]
    BY <2>3, <2>4, <2>8 DEF IsLine
  <2>11. \A n \in 1..l: f - (l + 1) + n = last - l + n BY <2>7
  <2>12. \A n \in 1..l: f - (l + 1) + n \notin failed /\ SeenAt(o.id, p[n].pos, p[n].at)
    BY <2>3, <2>4, <2>10, <2>11
  <2>13. \A n \in 1..(l + 1): n \in 1..l \/ n = l + 1 OBVIOUS
  <2> QED BY <1>1, <2>9, <2>10, <2>12, <2>13
<1> QED BY <1>2, <1>3

\* Of a line the trail keeps the end: no more than so many points, none too old.
LEMMA TrailMade ==
    ASSUME TrailsFit, NEW f \in Nat, f = frame, NEW time \in Nat, time = Now,
           NEW o \in Observations, NEW t, t = TrailPoints(o),
           DOMAIN seen \subseteq DOMAIN seen', \A k \in DOMAIN seen: seen'[k] = seen[k],
           SeenAt(o.id, o.pos, time)'
    PROVE  /\ IsLine(t, f)
           /\ Len(t) \in 1..TrailMaxPoints
           /\ t[1].at >= time - TrailMaxAge
           /\ \A n \in 1..Len(t): f - Len(t) + n \notin failed /\ SeenAt(o.id, t[n].pos, t[n].at)'
<1>1. PICK p: p = LineOf(o) OBVIOUS
<1>3. /\ IsLine(p, f)
      /\ \A n \in 1..Len(p): \/ n = Len(p) /\ p[n] = [pos |-> o.pos, at |-> Now]
                             \/ f - Len(p) + n \notin failed /\ SeenAt(o.id, p[n].pos, p[n].at)
  BY <1>1, LineWithFrame
<1>4. PICK l \in Nat \ {0}: l = Len(p) /\ l <= f + 1 BY <1>3 DEF IsLine
<1>5. DOMAIN p = 1..l BY <1>3, <1>4 DEF IsLine
<1>6. PICK age \in Nat, most \in Nat \ {0}: age = TrailMaxAge /\ most = TrailMaxPoints
  BY FrameLoopAssumption
<1>7. PICK young: young = {n \in DOMAIN p: p[n].at >= time - age} OBVIOUS
<1>8. l \in young
  <2>1. l \in 1..l /\ f - l + l = f OBVIOUS
  <2>2. p[l].at = Time(f) BY <1>3, <1>4, <2>1 DEF IsLine
  <2>3. p[l].at = time BY <2>2 DEF Now
  <2> QED BY <1>5, <1>6, <1>7, <2>1, <2>3
<1>9. PICK y \in young: y = Min(young) /\ y <= l
  <2>1. young \subseteq Nat BY <1>5, <1>7
  <2> QED BY <1>8, <2>1, MinIsMember
<1>10. y \in 1..l /\ p[y].at >= time - age BY <1>5, <1>7
<1>11. PICK a: a = Max({y, l - most + 1}) OBVIOUS
<1>12. a \in 1..l /\ a >= y /\ a >= l - most + 1
  <2>1. y \in Int /\ l - most + 1 \in Int BY <1>6, <1>10
  <2>2. a \in {y, l - most + 1} /\ a >= y /\ a >= l - most + 1 BY <1>11, <2>1, MaxOfPair
  <2>3. l - most + 1 <= l BY <1>6
  <2> QED BY <1>10, <2>1, <2>2, <2>3
<1>13. t = SubSeq(p, a, l)
  <2>1. TrailPoints(o) =
          LET recent == {n \in DOMAIN p: p[n].at >= Now - TrailMaxAge}
          IN  SubSeq(p, Max({Min(recent), Len(p) - TrailMaxPoints + 1}), Len(p))
    BY <1>1 DEF TrailPoints, LineOf
  <2>2. young = {n \in DOMAIN p: p[n].at >= Now - TrailMaxAge} BY <1>6, <1>7
  <2> QED BY <1>4, <1>6, <1>9, <1>11, <2>1, <2>2
<1>14. PICK k \in Nat \ {0}: k = l - a + 1 BY <1>12
<1>15. /\ IsLine(t, f) /\ Len(t) = k
       /\ \A n \in 1..k: t[n] = p[a + n - 1] /\ a + n - 1 \in 1..l
  BY <1>3, <1>4, <1>12, <1>13, <1>14, LineCut
<1>16. k \in 1..most BY <1>6, <1>12, <1>14
<1>17. t[1].at >= time - age
  <2>1. 1 \in 1..k /\ a + 1 - 1 = a BY <1>12
  <2>2. t[1] = p[a] BY <1>15, <2>1
  <2>3. f - l + y \in Nat /\ f - l + a \in Nat /\ f - l + y <= f - l + a
    BY <1>4, <1>10, <1>12
  <2> PICK u \in Nat, v \in Nat: u = f - l + y /\ v = f - l + a /\ u <= v BY <2>3
  <2>4. p[y].at = Time(u) /\ p[a].at = Time(v) BY <1>3, <1>4, <1>10, <1>12 DEF IsLine
  <2>5. Time(u) \in Nat /\ Time(v) \in Nat BY TimeTyped
  <2>6. Time(u) <= Time(v)
    <3>1. u < v => Time(u) < Time(v) BY TimesRise
    <3>2. u = v => Time(u) = Time(v) OBVIOUS
    <3> QED BY <2>5, <3>1, <3>2
  <2> QED BY <1>6, <1>10, <2>2, <2>4, <2>5, <2>6
<1>18. ASSUME NEW n \in 1..k
       PROVE  f - k + n \notin failed /\ SeenAt(o.id, t[n].pos, t[n].at)'
  <2>1. PICK j \in 1..l: j = a + n - 1 /\ t[n] = p[j] BY <1>15
  <2>2. PICK id, x, at: id = o.id /\ x = t[n].pos /\ at = t[n].at OBVIOUS
  <2>3. f - k + n = f - l + j BY <1>12, <1>14, <2>1
  <2>4. CASE j = l /\ p[j] = [pos |-> o.pos, at |-> Now]
    <3>1. x = o.pos /\ at = time BY <2>1, <2>2, <2>4
    <3>2. f \notin failed
      <4>1. failed \subseteq 0..(frame - 1) BY DEF TrailsFit
      <4> QED BY <4>1
    <3>3. f - k + n = f BY <2>3, <2>4
    <3>4. SeenAt(o.id, t[n].pos, t[n].at)' BY <2>2, <3>1 DEF SeenAt
    <3> QED BY <3>2, <3>3, <3>4
  <2>5. CASE f - l + j \notin failed /\ SeenAt(o.id, p[j].pos, p[j].at)
    <3>1. SeenAt(id, x, at)' BY <2>1, <2>2, <2>5, StillSeen
    <3>2. SeenAt(o.id, t[n].pos, t[n].at)' BY <2>2, <3>1 DEF SeenAt
    <3> QED BY <2>3, <2>5, <3>2
  <2> QED BY <1>3, <1>4, <2>4, <2>5
<1> QED BY <1>6, <1>15, <1>16, <1>17, <1>18

-----------------------------------------------------------------------------
(* The steps of the loop, one by one                                       *)

\* Track ids are integers without a bound.
AllIds == Ids = Nat \ {0}

\* A scene is a list of detections.
LEMMA SceneTyped ==
    ASSUME NEW scene \in Scenes
    PROVE  scene \in Seq(Detections)
BY FrameLoopAssumption DEF Detections

\* A frame that reached the tracker and the engine, whatever came of the rest.
LEMMA FrameAdds ==
    ASSUME AllIds, PlanFits, IInv, Later(Now), TracksTyped,
           NEW t \in Times, t = Now, NEW u \in Nat, u = Now', t < u, chunk' = chunk,
           NEW scene \in Scenes, Update(scene), NEW obs, obs = Observed(scene), Observe(obs, t)
    PROVE  /\ obs \in Frames
           /\ \E m, o, n: Added(m, o, obs, n) /\ n \in Nat /\ seen'[n + 1].at = t
           /\ Later(Now)'
<1>1. scene \in Seq(Detections) BY SceneTyped
<1>2. chunk \in Nat \ {0} BY DEF PlanFits
<1>3. obs \in Frames BY <1>1, <1>2, ObservedTyped DEF AllIds
<1>4. TypeOK BY DEF IInv
<1>5. Remember(obs, t) BY DEF Observe, LoseBall, Jump, Follow, Kick
<1>6. PICK m, o, n: Added(m, o, obs, n) /\ n \in Nat
  <2>1. Remember(Observed(scene), t) BY <1>5
  <2>2. \E m, o, n: Added(m, o, Observed(scene), n) /\ n \in Nat
    BY <1>1, <1>2, <1>4, <2>1, Adds DEF AllIds
  <2> QED BY <2>2
<1>7. Len(seen) = n /\ seen \in Seq(Entries) BY <1>4, <1>6 DEF Added, TypeOK, Entries
<1>8. /\ seen' \in Seq(Entries) /\ Len(seen') = n + 1
      /\ \A i \in 1..n: seen'[i] = seen[i]
      /\ seen'[n + 1] = [at |-> t, tracks |-> obs]
  BY <1>3, <1>5, <1>6, <1>7, Recorded
<1>9. t \in Nat BY KickEngineAssumption
<1>10. ASSUME NEW i \in 1..(n + 1) PROVE seen'[i].at < u
  <2>1. CASE i \in 1..n
    <3>1. seen'[i] = seen[i] /\ i \in DOMAIN seen BY <1>6, <1>7, <1>8, <2>1
    <3>2. seen[i].at < t BY <3>1 DEF Later
    <3>3. seen[i].at \in Nat
      <4>1. seen[i] \in Entries BY <1>7, <3>1
      <4> QED BY <4>1, KickEngineAssumption DEF Entries
    <3> QED BY <1>9, <3>1, <3>2, <3>3
  <2>2. CASE i = n + 1 BY <1>8, <1>9, <2>2
  <2> QED BY <1>6, <2>1, <2>2
<1>11. DOMAIN seen' = 1..(n + 1) BY <1>6 DEF Added
<1>12. Later(Now)' BY <1>10, <1>11 DEF Later
<1> QED BY <1>3, <1>6, <1>8, <1>12

\* The engine's part, once it is known what waits to be handed out.
LEMMA EngineKeeps ==
    ASSUME IInv, NEW obs \in Frames, NEW f \in Times, Later(f), Observe(obs, f),
           drained' \in 0..Len(kicks')
    PROVE  IInv'
<1>1. EngineTypes' BY ObserveTyped DEF IInv
<1>2. BallFits' /\ RunFits' /\ ContactFits' /\ LastFits' /\ KicksSound' BY ObserveKeeps
<1>3. TypeOK' BY <1>1 DEF TypeOK, EngineTypes, Entries
<1> QED BY <1>2, <1>3 DEF IInv

\* A new chunk knows nothing of the one before.
Fresh ==
    /\ EngineInit
    /\ TrackerInit
    /\ trails = << >>
    /\ failed = {}
    /\ kept = <<>>
    /\ written = <<>>

\* All that is said of a chunk holds of one that has not begun.
LEMMA FreshFits ==
    ASSUME Fresh
    PROVE  IInv /\ Later(Now) /\ TracksFit /\ TrailsFit /\ KicksFit /\ KeptFits /\ WaitingFits
<1>1. IInv BY InvInit DEF Fresh
<1>2. /\ seen = <<>> /\ tracks = << >> /\ nextTrack = 1 /\ trails = << >> /\ failed = {}
      /\ kept = <<>> /\ drained = 0 /\ kicks = <<>>
  BY DEF Fresh, EngineInit, TrackerInit
<1>3. DOMAIN << >> = {} OBVIOUS
<1>4. Later(Now) BY <1>2, <1>3 DEF Later
<1>5. TracksFit
  <2>1. << >> \in [{} -> States] OBVIOUS
  <2>2. TracksTyped BY <1>2, <1>3, <2>1 DEF TracksTyped
  <2> QED BY <1>2, <1>3, <2>2 DEF TracksFit, TracksAreContinuous
<1>6. TrailsFit BY <1>2, <1>3 DEF TrailsFit, TrailsAreUnbroken
<1> QED BY <1>1, <1>2, <1>4, <1>5, <1>6, NothingKept

\* A chunk begins with nothing: engine, tracker, trails and lists are new objects.
LEMMA ChunkBegun ==
    ASSUME StartChunk
    PROVE  /\ IInv' /\ Later(Now)' /\ TracksFit' /\ TrailsFit'
           /\ KicksFit' /\ KeptFits' /\ WaitingFits'
<1>1. Fresh' BY DEF StartChunk, Fresh, EngineInit, TrackerInit
<1>2. (Fresh => IInv /\ Later(Now) /\ TracksFit /\ TrailsFit /\ KicksFit /\ KeptFits
                /\ WaitingFits)'
  BY FreshFits, PTL
<1> QED BY <1>1, <1>2
\* The trails of a frame that went well.
LEMMA TrailsMade ==
    ASSUME TrailsFit, NEW f \in Nat, f = frame, frame' = f + 1, failed' = failed,
           NEW time \in Nat, time = Now, NEW obs \in Frames, NEW n \in Nat,
           DOMAIN seen = 1..n, DOMAIN seen' = 1..(n + 1), \A k \in 1..n: seen'[k] = seen[k],
           seen'[n + 1].tracks = obs, seen'[n + 1].at = time,
           UpdateTrails(obs)
    PROVE  TrailsFit'
<1> DEFINE confirmed == {i \in DOMAIN obs: obs[i].confirmed}
           chosen(id) == obs[CHOOSE i \in confirmed: obs[i].id = id]
<1>1. trails' = [id \in {obs[i].id: i \in confirmed} |->
                    [last |-> frame, points |-> TrailPoints(chosen(id))]]
  BY DEF UpdateTrails
<1>2. ASSUME NEW id \in DOMAIN trails'
      PROVE  IsTrail(id, trails[id])'
  <2>1. PICK q: q = chosen(id) OBVIOUS
  <2>2. PICK i \in DOMAIN obs: q = obs[i] /\ q.confirmed /\ q.id = id BY <1>1, <2>1
  <2>3. q \in Observations BY <2>2 DEF Frames
  <2>4. SeenAt(q.id, q.pos, time)' BY <2>2 DEF SeenAt
  <2>5. PICK t: t = TrailPoints(q) OBVIOUS
  <2>6. trails'[id] = [last |-> f, points |-> t] BY <1>1, <2>1, <2>5
  <2>7. /\ IsLine(t, f) /\ Len(t) \in 1..TrailMaxPoints /\ t[1].at >= time - TrailMaxAge
        /\ \A k \in 1..Len(t): f - Len(t) + k \notin failed /\ SeenAt(q.id, t[k].pos, t[k].at)'
    <3>1. DOMAIN seen \subseteq DOMAIN seen' /\ \A k \in DOMAIN seen: seen'[k] = seen[k] OBVIOUS
    <3> QED BY <2>3, <2>4, <2>5, <3>1, TrailMade
  <2>8. PICK trail: trail = trails'[id] OBVIOUS
  <2>9. trail.last = f /\ trail.points = t BY <2>6, <2>8
  <2>10. (f + 1)..((f + 1) - 1) = {} OBVIOUS
  <2>11. \A k \in 1..Len(t): f - Len(t) + k \notin failed' /\ SeenAt(id, t[k].pos, t[k].at)'
    BY <2>2, <2>7 DEF SeenAt
  <2>12. trail.last < frame' /\ (trail.last + 1)..(frame' - 1) = {} BY <2>9, <2>10
  <2>13. /\ IsLine(trail.points, trail.last) /\ trail.last \in Nat
         /\ Len(trail.points) \in 1..TrailMaxPoints
         /\ trail.points[1].at >= Time(trail.last) - TrailMaxAge
    BY <2>7, <2>9 DEF Now
  <2>14. \A k \in 1..Len(trail.points):
            /\ trail.last - Len(trail.points) + k \notin failed'
            /\ SeenAt(id, trail.points[k].pos, trail.points[k].at)'
    BY <2>9, <2>11 DEF SeenAt
  <2>15. IsTrail(id, trail)' BY <2>12, <2>13, <2>14 DEF IsTrail, SeenAt, IsLine, Time
  <2> QED BY <2>8, <2>15 DEF IsTrail, SeenAt, IsLine, Time
<1>3. failed' \subseteq 0..(frame' - 1) BY DEF TrailsFit
<1>4. frame' \in Nat OBVIOUS
<1>5. (frame \in Nat => (TrailsFit <=> /\ failed \subseteq 0..(frame - 1)
                                       /\ \A id \in DOMAIN trails: IsTrail(id, trails[id])))'
  BY TrailsAreTrails, PTL
<1> QED BY <1>2, <1>3, <1>4, <1>5

\* A frame that failed leaves them as they were; they end before it.
LEMMA TrailsKept ==
    ASSUME TrailsFit, NEW f \in Nat, f = frame, frame' = f + 1, failed' = failed \union {f},
           trails' = trails,
           DOMAIN seen \subseteq DOMAIN seen', \A k \in DOMAIN seen: seen'[k] = seen[k]
    PROVE  TrailsFit'
<1>1. ASSUME NEW id \in DOMAIN trails
      PROVE  IsTrail(id, trails[id])'
  <2>1. PICK t: t = trails[id] OBVIOUS
  <2>2. IsTrail(id, t) BY <2>1, TrailsAreTrails
  <2>3. /\ IsLine(t.points, t.last) /\ t.last \in Nat /\ t.last < f
        /\ Len(t.points) \in 1..TrailMaxPoints
        /\ t.points[1].at >= Time(t.last) - TrailMaxAge
        /\ (t.last + 1)..(f - 1) \subseteq failed
        /\ \A k \in 1..Len(t.points):
              /\ t.last - Len(t.points) + k \notin failed
              /\ SeenAt(id, t.points[k].pos, t.points[k].at)
    BY <2>2 DEF IsTrail
  <2>4. (t.last + 1)..((f + 1) - 1) \subseteq failed'
    <3>1. \A k \in (t.last + 1)..((f + 1) - 1): k = f \/ k \in (t.last + 1)..(f - 1)
      BY <2>3
    <3> QED BY <2>3, <3>1
  <2>5. ASSUME NEW k \in 1..Len(t.points)
        PROVE  t.last - Len(t.points) + k \notin failed'
    <3>1. PICK l \in Nat: l = Len(t.points) BY <2>3 DEF IsLine
    <3>2. k \in 1..l BY <3>1
    <3> QED BY <2>3, <3>1, <3>2
  <2>6. ASSUME NEW k \in 1..Len(t.points)
        PROVE  SeenAt(id, t.points[k].pos, t.points[k].at)'
    <3>1. PICK x, at: x = t.points[k].pos /\ at = t.points[k].at OBVIOUS
    <3>2. SeenAt(id, x, at)' BY <2>3, <3>1, StillSeen
    <3> QED BY <3>1, <3>2 DEF SeenAt
  <2>7. t.last < frame' /\ (t.last + 1)..(frame' - 1) \subseteq failed' BY <2>3, <2>4
  <2>8. \A k \in 1..Len(t.points):
            /\ t.last - Len(t.points) + k \notin failed'
            /\ SeenAt(id, t.points[k].pos, t.points[k].at)' BY <2>5, <2>6
  <2>9. IsTrail(id, t)' BY <2>3, <2>7, <2>8 DEF IsTrail, SeenAt, IsLine, Time
  <2> QED BY <2>1, <2>9 DEF IsTrail, SeenAt, IsLine, Time
<1>2. failed' \subseteq 0..(frame' - 1)
  <2>1. failed \subseteq 0..(f - 1) BY DEF TrailsFit
  <2> QED BY <2>1
<1>3. frame' \in Nat OBVIOUS
<1>4. (frame \in Nat => (TrailsFit <=> /\ failed \subseteq 0..(frame - 1)
                                       /\ \A id \in DOMAIN trails: IsTrail(id, trails[id])))'
  BY TrailsAreTrails, PTL
<1> QED BY <1>1, <1>2, <1>3, <1>4

\* The inductive invariant: the engine and its own history, and the chunk and its frames.
LoopInv == IInv /\ FrameInv

\* The job starts in the invariant.
LEMMA LoopStarts == Init => LoopInv
<1> SUFFICES ASSUME Init PROVE LoopInv OBVIOUS
<1>1. Fresh BY DEF Init, Fresh
<1>2. IInv /\ Later(Now) /\ TracksFit /\ TrailsFit /\ KicksFit /\ KeptFits /\ WaitingFits
  BY <1>1, FreshFits
<1>3. /\ chunk = 1 /\ frame = 0 /\ finished = FALSE /\ listed = <<>> /\ output = <<>>
      /\ written = <<>>
  BY DEF Init
<1>4. PICK l \in Nat \ {0}: l = Len(Chunks) BY ChunkFacts
<1>5. Working /\ chunk \in 1..(l + 1) BY <1>3, <1>4 DEF Working
<1>6. Window.context = 0 /\ Window.output = 0 /\ Border = 0
  BY <1>3, <1>5, ChunkFacts DEF Window, Border
<1>7. PlanFits
  <2>1. Duration \in Nat BY FrameLoopAssumption
  <2>2. Window.end \in Nat
    <3>1. 1 \in 1..l OBVIOUS
    <3> QED BY <1>3, <1>4, <2>1, <3>1, ChunkFacts DEF Window
  <2>3. PICK e \in Nat, d \in Nat: e = FrameOf(Window.end) /\ d = FrameOf(Duration)
    BY <2>1, <2>2, NumberTyped
  <2>4. frame \in 0..d /\ FrameOf(Window.context) <= frame /\ frame <= e
    BY <1>3, <1>6, <2>3, FirstIsZero
  <2> QED BY <1>3, <1>4, <1>5, <2>3, <2>4 DEF PlanFits
<1>8. <<>> \in Seq(Nat) /\ <<>> \in Seq(Kicks) /\ Len(<<>>) = 0 /\ DOMAIN <<>> = {} OBVIOUS
<1>9. OutputFits
  <2>1. ToSet(<<>>) = {} /\ Rises(<<>>) BY <1>8 DEF ToSet, Rises
  <2>2. UNION {Part(n): n \in 1..(1 - 1)} = {} OBVIOUS
  <2>3. {f \in Part(1): f < 0} = {}
    <3> SUFFICES ASSUME NEW f \in Part(1), f < 0 PROVE FALSE OBVIOUS
    <3>1. 1 \in 1..Len(Chunks) BY <1>4
    <3>2. f \in Nat BY <3>1, InPart
    <3> QED BY <3>2
  <2> QED BY <1>3, <1>8, <2>1, <2>2, <2>3 DEF OutputFits
<1>10. ListedFits BY <1>3, <1>8 DEF ListedFits, EndsDiffer
<1> QED BY <1>2, <1>7, <1>9, <1>10 DEF LoopInv, FrameInv, ListsFit

\* What is known of the tracks stays, while the tracker is not called.
LEMMA TracksSame ==
    ASSUME TracksFit, UNCHANGED <<seen, tracks, nextTrack, chunk>>
    PROVE  TracksFit'
<1>1. seen' = seen /\ tracks' = tracks /\ nextTrack' = nextTrack /\ Base' = Base BY DEF Base
<1>2. TracksTyped' BY <1>1 DEF TracksFit, TracksTyped
<1>3. \A id, i, j: Sightings(id, i, j)' = Sightings(id, i, j) BY <1>1 DEF Sightings
<1>4. \A t \in DOMAIN tracks': TrackFits(t)'
  <2> SUFFICES ASSUME NEW t \in DOMAIN tracks PROVE TrackFits(t)' BY <1>1
  <2>1. TrackFits(t) BY DEF TracksFit
  <2> QED BY <1>1, <2>1 DEF TrackFits, Shows, Sightings
<1>5. TracksAreContinuous'
  <2>1. \A m, n \in DOMAIN seen': \A s \in DOMAIN seen'[m].tracks, t \in DOMAIN seen'[n].tracks:
            m < n /\ seen'[m].tracks[s].id = seen'[n].tracks[t].id =>
               /\ seen'[m].tracks[s].class = seen'[n].tracks[t].class
               /\ {l \in (m + 1)..(n - 1): \E r \in DOMAIN seen'[l].tracks:
                      seen'[l].tracks[r].id = seen'[m].tracks[s].id} = {} =>
                     /\ Distance(seen'[m].tracks[s].pos, seen'[n].tracks[t].pos)
                           <= Reach[seen'[m].tracks[s].class]
                     /\ n - m <= MaxMissed + 1
    BY <1>1 DEF TracksFit, TracksAreContinuous, Sightings
  <2>2. \A n \in DOMAIN seen': \A t \in DOMAIN seen'[n].tracks:
            seen'[n].tracks[t].confirmed
               <=> Cardinality({l \in 1..n: \E r \in DOMAIN seen'[l].tracks:
                      seen'[l].tracks[r].id = seen'[n].tracks[t].id}) >= ConfirmMinHits
    <3> SUFFICES ASSUME NEW n \in DOMAIN seen', NEW t \in DOMAIN seen'[n].tracks
                 PROVE  seen'[n].tracks[t].confirmed
                           <=> Cardinality({l \in 1..n: \E r \in DOMAIN seen'[l].tracks:
                                  seen'[l].tracks[r].id = seen'[n].tracks[t].id}) >= ConfirmMinHits
      OBVIOUS
    <3>1. PICK id: id = seen'[n].tracks[t].id OBVIOUS
    <3>2. seen[n].tracks[t].confirmed <=> Cardinality(Sightings(id, 1, n)) >= ConfirmMinHits
      BY <1>1, <3>1 DEF TracksFit, TracksAreContinuous
    <3>3. Sightings(id, 1, n)
            = {l \in 1..n: \E r \in DOMAIN seen'[l].tracks: seen'[l].tracks[r].id = id}
      BY <1>1 DEF Sightings
    <3>4. {l \in 1..n: \E r \in DOMAIN seen'[l].tracks: seen'[l].tracks[r].id = id}
            = {l \in 1..n: \E r \in DOMAIN seen'[l].tracks:
                  seen'[l].tracks[r].id = seen'[n].tracks[t].id}
      BY <3>1
    <3> QED BY <1>1, <3>2, <3>3, <3>4
  <2>3. \A n \in DOMAIN seen': \A s, t \in DOMAIN seen'[n].tracks:
            seen'[n].tracks[s].id = seen'[n].tracks[t].id => s = t
    BY <1>1 DEF TracksFit, TracksAreContinuous
  <2> QED BY <2>1, <2>2, <2>3 DEF TracksAreContinuous, Sightings
<1> QED BY <1>1, <1>2, <1>4, <1>5 DEF TracksFit

\* ProcessFrame, OcrFails: what the frame adds to the tracks and to the engine
LEMMA ObservedStep ==
    ASSUME AllIds, LoopInv, Working, chunk' = chunk,
           NEW t \in Times, t = Now, NEW u \in Nat, u = Now', t < u, t < Window.end,
           NEW scene \in Scenes, Update(scene), NEW obs, obs = Observed(scene), Observe(obs, t)
    PROVE  /\ obs \in Frames /\ TracksFit' /\ KicksFit' /\ KickMayEnd(t) /\ Later(Now)'
           /\ \E n \in Nat: /\ DOMAIN seen = 1..n /\ DOMAIN seen' = 1..(n + 1)
                            /\ \A k \in 1..n: seen'[k] = seen[k]
                            /\ seen'[n + 1].tracks = obs /\ seen'[n + 1].at = t
           /\ drained' \in 0..Len(kicks') => IInv'
<1>1. PlanFits /\ Later(Now) /\ TracksTyped /\ TracksFit /\ KicksFit /\ IInv
  BY DEF LoopInv, FrameInv, TracksFit
<1>2. /\ obs \in Frames
      /\ \E m, o, n: Added(m, o, obs, n) /\ n \in Nat /\ seen'[n + 1].at = t
      /\ Later(Now)'
  BY <1>1, FrameAdds
<1>3. PICK m, o, n: Added(m, o, obs, n) /\ n \in Nat /\ seen'[n + 1].at = t BY <1>2
<1>4. TracksFit' BY <1>1, <1>3, TracksAdded
<1>5. /\ DOMAIN seen = 1..n /\ DOMAIN seen' = 1..(n + 1)
      /\ \A k \in 1..n: seen'[k] = seen[k]
      /\ seen'[n + 1].tracks = obs
  BY <1>3 DEF Added
<1>6. KickMayEnd(t) BY <1>1, <1>2, ObserveTyped DEF IInv
<1>7. t \in Nat BY KickEngineAssumption
<1>8. KicksFit'
  <2>1. kicks \in Seq(Kicks) BY <1>1 DEF IInv, TypeOK
  <2> QED BY <1>1, <1>6, <1>7, <2>1, KicksAfter
<1>9. ASSUME drained' \in 0..Len(kicks') PROVE IInv'
  <2>1. Later(t) BY <1>1 DEF Later
  <2> QED BY <1>1, <1>2, <1>9, <2>1, EngineKeeps
<1> QED BY <1>2, <1>3, <1>4, <1>5, <1>6, <1>8, <1>9

\* A frame that is decoded, tracked, told the engine and put out keeps the invariant.
LEMMA FrameStep ==
    ASSUME AllIds, LoopInv, NEW scene \in Scenes, ProcessFrame(scene)
    PROVE  LoopInv'
<1>1. /\ InChunk /\ Update(scene) /\ Observe(Observed(scene), Now) /\ Keep
      /\ UpdateTrails(Observed(scene)) /\ Write /\ failed' = failed
      /\ frame' = frame + 1 /\ chunk' = chunk /\ listed' = listed
  BY DEF ProcessFrame, Write
<1>2. /\ IInv /\ TypeOK /\ PlanFits /\ OutputFits /\ TrailsFit /\ KicksFit /\ KeptFits /\ ListedFits
      /\ WaitingFits
  BY DEF LoopInv, FrameInv, ListsFit, IInv
<1>3. PlanFits' /\ OutputFits' /\ Working BY <1>1, <1>2, FrameWritten
<1>4. PICK f \in Nat, t \in Times, u \in Nat:
         f = frame /\ t = Now /\ t \in Nat /\ u = Now' /\ t < u /\ t < Window.end
  BY <1>1, <1>2, FrameTime
<1>5. PICK obs: obs = Observed(scene) OBVIOUS
<1>6. Observe(obs, t) BY <1>1, <1>4, <1>5 DEF Observe, LoseBall, Jump, Follow, Kick,
    Jumped, Released, Touch, Remember, Forget
<1>7. /\ obs \in Frames /\ TracksFit' /\ KicksFit' /\ KickMayEnd(t) /\ Later(Now)'
      /\ drained' \in 0..Len(kicks') => IInv'
  BY <1>1, <1>3, <1>4, <1>5, <1>6, ObservedStep
<1>8. PICK n \in Nat: /\ DOMAIN seen = 1..n /\ DOMAIN seen' = 1..(n + 1)
                      /\ \A k \in 1..n: seen'[k] = seen[k]
                      /\ seen'[n + 1].tracks = obs /\ seen'[n + 1].at = t
  BY <1>1, <1>3, <1>4, <1>5, <1>6, ObservedStep
<1>9. KeptFits' /\ WaitingFits' /\ drained' = Len(kicks')
  BY <1>1, <1>2, <1>3, <1>4, <1>7, KeepFits
<1>10. IInv'
  <2>1. kicks' \in Seq(Kicks)
    BY <1>1, <1>2, <1>3, <1>4, <1>7, KicksAfter DEF TypeOK
  <2> QED BY <1>7, <1>9, <2>1
<1>11. UpdateTrails(obs) BY <1>1, <1>5 DEF UpdateTrails
<1>12. TrailsFit' BY <1>1, <1>2, <1>4, <1>7, <1>8, <1>11, TrailsMade
<1>13. ListedFits' BY <1>1, <1>2, ListedSame
<1> QED BY <1>3, <1>7, <1>9, <1>10, <1>12, <1>13 DEF LoopInv, FrameInv, ListsFit

\* A frame whose OCR fails after the engine has it keeps the invariant: its kicks wait.
LEMMA OcrStep ==
    ASSUME AllIds, LoopInv, NEW scene \in Scenes, OcrFails(scene)
    PROVE  LoopInv'
<1>1. /\ InChunk /\ Update(scene) /\ Observe(Observed(scene), Now) /\ Write
      /\ failed' = failed \union {frame}
      /\ UNCHANGED <<drained, trails, kept>>
      /\ frame' = frame + 1 /\ chunk' = chunk /\ listed' = listed
  BY DEF OcrFails, Write, MayFail
<1>2. /\ IInv /\ TypeOK /\ PlanFits /\ OutputFits /\ TrailsFit /\ KicksFit /\ KeptFits /\ ListedFits
      /\ WaitingFits
  BY DEF LoopInv, FrameInv, ListsFit, IInv
<1>3. PlanFits' /\ OutputFits' /\ Working BY <1>1, <1>2, FrameWritten
<1>4. PICK f \in Nat, t \in Times, u \in Nat:
         f = frame /\ t = Now /\ t \in Nat /\ u = Now' /\ t < u /\ t < Window.end
  BY <1>1, <1>2, FrameTime
<1>5. PICK obs: obs = Observed(scene) OBVIOUS
<1>6. Observe(obs, t) BY <1>1, <1>4, <1>5 DEF Observe, LoseBall, Jump, Follow, Kick,
    Jumped, Released, Touch, Remember, Forget
<1>7. /\ TracksFit' /\ KicksFit' /\ KickMayEnd(t) /\ Later(Now)'
      /\ drained' \in 0..Len(kicks') => IInv'
  BY <1>1, <1>3, <1>4, <1>5, <1>6, ObservedStep
<1>8. PICK n \in Nat: /\ DOMAIN seen = 1..n /\ DOMAIN seen' = 1..(n + 1)
                      /\ \A k \in 1..n: seen'[k] = seen[k]
  BY <1>1, <1>3, <1>4, <1>5, <1>6, ObservedStep
<1>9. KeptFits' /\ WaitingFits' /\ drained' \in 0..Len(kicks')
  BY <1>1, <1>2, <1>3, <1>4, <1>7, FailureWaits
<1>10. TrailsFit'
  <2>1. DOMAIN seen \subseteq DOMAIN seen' /\ \A k \in DOMAIN seen: seen'[k] = seen[k] BY <1>8
  <2> QED BY <1>1, <1>2, <1>4, <2>1, TrailsKept
<1>11. ListedFits' BY <1>1, <1>2, ListedSame
<1> QED BY <1>3, <1>7, <1>9, <1>10, <1>11 DEF LoopInv, FrameInv, ListsFit

\* What is known of the engine stays, while it is not called.
LEMMA EngineSame ==
    ASSUME IInv, UNCHANGED engine
    PROVE  IInv'
BY InvStep

\* A frame whose detection fails, and is put out nevertheless, keeps the invariant.
LEMMA DetectorStep ==
    ASSUME LoopInv, NEW scene \in Scenes, DetectorFails(scene)
    PROVE  LoopInv'
<1>1. /\ InChunk /\ Write /\ failed' = failed \union {frame}
      /\ UNCHANGED <<engine, tracks, nextTrack, trails, kept>>
      /\ UNCHANGED <<seen, kicks, drained>>
      /\ frame' = frame + 1 /\ chunk' = chunk /\ listed' = listed
  BY DEF DetectorFails, Write, MayFail, tracker, engine, observing
<1>2. /\ IInv /\ TypeOK /\ PlanFits /\ OutputFits /\ TrailsFit /\ KicksFit /\ KeptFits /\ ListedFits
      /\ WaitingFits /\ Later(Now) /\ TracksFit
  BY DEF LoopInv, FrameInv, ListsFit, IInv
<1>3. PlanFits' /\ OutputFits' /\ Working BY <1>1, <1>2, FrameWritten
<1>4. PICK f \in Nat, t \in Times, u \in Nat:
         f = frame /\ t = Now /\ t \in Nat /\ u = Now' /\ t < u /\ t < Window.end
  BY <1>1, <1>2, FrameTime
<1>5. KickMayEnd(t) BY <1>1 DEF KickMayEnd
<1>6. KicksFit' BY <1>1, <1>2, <1>3, <1>4, <1>5, KicksAfter DEF TypeOK
<1>7. KeptFits' /\ WaitingFits' BY <1>1, <1>2, <1>3, <1>4, <1>5, FailureWaits
<1>8. TracksFit' BY <1>1, <1>2, TracksSame
<1>9. TrailsFit' BY <1>1, <1>2, <1>4, TrailsKept
<1>10. IInv' BY <1>1, <1>2, EngineSame
<1>11. Later(Now)'
  <2>1. \A n \in DOMAIN seen: seen[n].at < u
    <3> SUFFICES ASSUME NEW n \in DOMAIN seen PROVE seen[n].at < u OBVIOUS
    <3>1. seen[n].at < t BY <1>2, <1>4 DEF Later
    <3>2. PICK X: X = [at: Times, tracks: Frames] OBVIOUS
    <3>3. seen \in Seq(X) BY <1>2, <3>2 DEF TypeOK
    <3>4. seen[n] \in X BY <3>3
    <3>5. seen[n].at \in Nat BY <3>2, <3>4, KickEngineAssumption
    <3> QED BY <1>4, <3>1, <3>5
  <2> QED BY <1>1, <1>4, <2>1 DEF Later
<1>12. ListedFits' BY <1>1, <1>2, ListedSame
<1> QED BY <1>3, <1>6, <1>7, <1>8, <1>9, <1>10, <1>11, <1>12 DEF LoopInv, FrameInv, ListsFit

\* The end of a chunk, whose frames and kicks join those of the job, keeps the invariant.
LEMMA CompleteStep ==
    ASSUME LoopInv, CompleteChunk
    PROVE  LoopInv'
<1>1. /\ TypeOK /\ PlanFits /\ OutputFits /\ KicksFit /\ KeptFits /\ ListedFits
  BY DEF LoopInv, FrameInv, ListsFit, IInv
<1>2. PlanFits' /\ OutputFits' /\ Working BY <1>1, OutputGrows
<1>3. ListedFits' BY <1>1, <1>2, ListGrows
<1>4. StartChunk BY DEF CompleteChunk
<1> QED BY <1>2, <1>3, <1>4, ChunkBegun DEF LoopInv, FrameInv, ListsFit

\* A restart in the middle of a chunk keeps the invariant.
LEMMA RestartStep ==
    ASSUME LoopInv, RestartChunk
    PROVE  LoopInv'
<1>1. PlanFits /\ OutputFits /\ ListedFits BY DEF LoopInv, FrameInv, ListsFit
<1>2. PlanFits' /\ OutputFits' BY <1>1, ChunkAgain
<1>3. listed' = listed /\ chunk' = chunk /\ StartChunk BY DEF RestartChunk
<1>4. ListedFits' BY <1>1, <1>3, ListedSame
<1> QED BY <1>2, <1>3, <1>4, ChunkBegun DEF LoopInv, FrameInv, ListsFit

\* All but the list of events is left alone.
LEMMA RestSame ==
    ASSUME LoopInv, UNCHANGED <<chunk, frame, chunkRun, output>>
    PROVE  /\ IInv' /\ Later(Now)' /\ TracksFit' /\ TrailsFit' /\ KicksFit' /\ KeptFits'
           /\ WaitingFits'
           /\ finished' \in BOOLEAN /\ (finished' => ~Working) => PlanFits' /\ OutputFits'
<1>1. /\ IInv /\ PlanFits /\ OutputFits /\ TrailsFit /\ KicksFit /\ KeptFits
      /\ WaitingFits /\ Later(Now) /\ TracksFit
  BY DEF LoopInv, FrameInv, ListsFit
<1>2. /\ UNCHANGED <<engine, seen, kicks, drained>>
      /\ UNCHANGED <<tracks, nextTrack, trails, failed, kept, written>>
      /\ UNCHANGED <<chunk, frame, output>>
  BY DEF chunkRun, tracker, engine, observing
<1>3. IInv' BY <1>1, <1>2, EngineSame
<1>4. Later(Now)' BY <1>1, <1>2 DEF Later, Now, Time
<1>5. TracksFit' BY <1>1, <1>2, TracksSame
<1>6. TrailsFit'
  <2>1. \A id \in DOMAIN trails: TrailFits(trails[id])' BY <1>1, <1>2 DEF TrailsFit, TrailFits
  <2>2. TrailsAreUnbroken' BY <1>1, <1>2 DEF TrailsFit, TrailsAreUnbroken, Time
  <2> QED BY <1>1, <1>2, <2>1, <2>2 DEF TrailsFit, TrailFits
<1>7. Working' = Working /\ Window' = Window /\ Border' = Border /\ Chunks' = Chunks
  BY <1>2, SameWindow DEF Chunks
<1>8. KicksFit' BY <1>1, <1>2, <1>7 DEF KicksFit, Now, Time
<1>9. Kept' = Kept BY <1>2, <1>7 DEF Kept
<1>10. KeptFits' BY <1>1, <1>2, <1>7, <1>9 DEF KeptFits, EndsDiffer
<1>11. WaitingFits' BY <1>1, <1>2 DEF WaitingFits, Time
<1>12. ASSUME finished' \in BOOLEAN, finished' => ~Working PROVE PlanFits' /\ OutputFits'
  <2>1. PlanFits' BY <1>1, <1>2, <1>7, <1>12 DEF PlanFits, FrameOf
  <2>2. \A n: Part(n)' = Part(n) BY <1>7 DEF Part
  <2>3. OutputFits' BY <1>1, <1>2, <1>7, <2>2 DEF OutputFits, Rises
  <2> QED BY <2>1, <2>3
<1> QED BY <1>3, <1>4, <1>5, <1>6, <1>8, <1>10, <1>11, <1>12

\* The last deduplication and sorting of the kicks keep the invariant.
LEMMA FinalizeStep ==
    ASSUME LoopInv, Finalize
    PROVE  LoopInv'
<1>1. UNCHANGED <<chunk, frame, chunkRun, output>> /\ finished' = TRUE BY DEF Finalize
<1>2. ~Working
  <2>1. chunk > Len(Chunks) BY DEF Finalize
  <2>2. chunk \in Nat /\ Len(Chunks) \in Nat BY ChunkFacts DEF LoopInv, FrameInv, PlanFits
  <2> QED BY <2>1, <2>2 DEF Working
<1>3. ListedFits' BY ListShrinks DEF LoopInv, FrameInv, ListsFit
<1>4. finished' \in BOOLEAN /\ (finished' => ~Working) BY <1>1, <1>2
<1> QED BY <1>1, <1>3, <1>4, RestSame DEF LoopInv, FrameInv, ListsFit

\* Every step of the loop keeps the invariant.
LEMMA LoopSteps ==
    ASSUME AllIds, LoopInv, [Next]_vars
    PROVE  LoopInv'
<1>1. CASE UNCHANGED vars
  <2>1. UNCHANGED <<chunk, frame, chunkRun, output>> /\ finished' = finished /\ listed' = listed
    BY <1>1 DEF vars
  <2>2. finished' \in BOOLEAN /\ (finished' => ~Working)
    BY <2>1 DEF LoopInv, FrameInv, PlanFits
  <2>3. ListedFits' BY <2>1, ListedSame DEF LoopInv, FrameInv, ListsFit
  <2> QED BY <2>1, <2>2, <2>3, RestSame DEF LoopInv, FrameInv, ListsFit
<1> QED BY <1>1, FrameStep, DetectorStep, OcrStep, CompleteStep, RestartStep, FinalizeStep DEF Next

\* The invariant holds in every state.
LEMMA LoopKept == ASSUME AllIds PROVE Spec => []LoopInv
BY LoopStarts, LoopSteps, PTL DEF Spec

-----------------------------------------------------------------------------
(* What holds in every state of the loop                                   *)

\* A list without doubles is as long as its set.
LEMMA AsManyAsListed ==
    ASSUME NEW X, NEW s \in Seq(X), EndsDiffer(s)
    PROVE  Len(s) = Cardinality(ToSet(s))
<1>1. PICK n \in Nat: n = Len(s) /\ DOMAIN s = 1..n OBVIOUS
<1>2. IsFiniteSet(1..n) /\ Cardinality(1..n) = n BY FS_Interval
<1>3. ToSet(s) = {s[i]: i \in 1..n} BY <1>1 DEF ToSet
<1>4. PICK f: f = [i \in 1..n |-> s[i]] OBVIOUS
<1>5. f \in [1..n -> ToSet(s)] BY <1>3, <1>4
<1>6. \A i, j \in 1..n: f[i] = f[j] => i = j BY <1>1, <1>4 DEF EndsDiffer
<1>7. \A x \in ToSet(s): \E i \in 1..n: f[i] = x BY <1>3, <1>4
<1>8. f \in Bijection(1..n, ToSet(s))
  BY <1>5, <1>6, <1>7 DEF Bijection, Injection, Surjection, IsInjective
<1>9. Cardinality(ToSet(s)) = n BY <1>2, <1>8, FS_Bijection DEF ExistsBijection
<1> QED BY <1>1, <1>9

\* What the invariant says of the output, of the list and of the finished job.
LEMMA LoopPutsOutOnce ==
    ASSUME LoopInv
    PROVE  PutOutOnce
<1>1. IInv /\ PlanFits /\ OutputFits /\ KicksFit /\ KeptFits /\ ListedFits /\ WaitingFits
  BY DEF LoopInv, FrameInv, ListsFit
<1>2. /\ kept \in Seq(Kicks) /\ EndsDiffer(kept)
      /\ ToSet(kept) = (IF chunk <= Len(Chunks) THEN Kept ELSE {})
  BY <1>1 DEF KeptFits, Working
<1>3. Len(kept) = Cardinality(ToSet(kept)) BY <1>2, AsManyAsListed
<1>4. /\ listed \in Seq(Kicks) /\ EndsDiffer(listed)
      /\ \A i \in DOMAIN listed:
            /\ listed[i].end < Border
            /\ \E n \in 1..(chunk - 1):
                  Chunks[n].output <= listed[i].end /\ listed[i].end < Chunks[n].end
  BY <1>1 DEF ListedFits
<1>5. \A i \in DOMAIN listed, j \in DOMAIN kept: listed[i].end # kept[j].end
  <2> SUFFICES ASSUME NEW i \in DOMAIN listed, NEW j \in DOMAIN kept
               PROVE  listed[i].end # kept[j].end
    OBVIOUS
  <2>1. kept[j] \in ToSet(kept) BY DEF ToSet
  <2>2. Working /\ kept[j] \in Kept BY <1>2, <2>1 DEF Working
  <2>3. PICK b \in Nat: b = Window.output /\ b = Border BY <1>1, <2>2, WindowFacts
  <2>4. kept[j].end >= b BY <2>2, <2>3 DEF Kept
  <2>5. listed[i] \in Kicks /\ kept[j] \in Kicks BY <1>2, <1>4
  <2>6. listed[i].end \in Nat /\ kept[j].end \in Nat BY <2>5, KickEnds
  <2>7. listed[i].end < b BY <1>4, <2>3
  <2> QED BY <2>4, <2>6, <2>7
<1>6. EndsDiffer(listed \o kept) BY <1>2, <1>4, <1>5, DifferTogether
<1>7. KicksPutOutOnce
  BY <1>1, <1>2, <1>3, <1>4, <1>6 DEF KicksPutOutOnce, EndsDiffer, WaitingFits
<1>8. PICK l \in Nat \ {0}: l = Len(Chunks) BY ChunkFacts
<1>9. PICK c \in 1..(l + 1): c = chunk BY <1>1, <1>8 DEF PlanFits
<1>10. /\ output \in Seq(Nat) /\ Rises(output)
       /\ ToSet(output) = UNION {Part(n): n \in 1..(c - 1)}
       /\ written \in Seq(Nat) /\ Rises(written)
       /\ \A f \in ToSet(written): c <= l /\ f \in Part(c)
  BY <1>1, <1>8, <1>9 DEF OutputFits, Working
<1>11. PICK o: o = output \o written OBVIOUS
<1>12. Rises(o)
  <2>1. ASSUME NEW f \in ToSet(output), NEW g \in ToSet(written) PROVE f < g
    <3>1. PICK n \in 1..(c - 1): f \in Part(n) BY <1>10
    <3>2. n \in 1..l /\ c \in 1..l /\ n < c /\ g \in Part(c) BY <1>9, <1>10
    <3> QED BY <1>8, <3>1, <3>2, ChunksTile DEF Tiles, Part
  <2> QED BY <1>10, <1>11, <2>1, RiseTogether
<1>13. ASSUME finished
       PROVE  /\ ToSet(output) \subseteq 0..(FrameOf(Duration) - 1)
              /\ \A f \in (0..(FrameOf(Duration) - 1)) \ ToSet(output): RoundedAway(f)
  <2>1. c - 1 = l BY <1>1, <1>8, <1>9, <1>13 DEF PlanFits, Working
  <2>2. ToSet(output) = UNION {Part(n): n \in 1..l} BY <1>10, <2>1
  <2>3. Duration \in Nat BY FrameLoopAssumption
  <2>4. ASSUME NEW n \in 1..l, NEW f \in Part(n)
        PROVE  f \in 0..(FrameOf(Duration) - 1)
    <3>1. f \in Nat /\ f < FrameOf(Chunks[n].end) BY <1>8, InPart
    <3>2. Chunks[n].end \in Nat /\ Chunks[n].end <= Duration BY <1>8, <2>3, ChunkFacts
    <3>3. PICK e \in Nat, d \in Nat: e = FrameOf(Chunks[n].end) /\ d = FrameOf(Duration) /\ e <= d
      BY <2>3, <3>2, FramesOfTimes
    <3> QED BY <3>1, <3>3
  <2>5. ASSUME NEW f \in (0..(FrameOf(Duration) - 1)) \ ToSet(output)
        PROVE  RoundedAway(f)
    <3>1. \A n \in 1..l: f \notin Part(n) BY <2>2
    <3> QED BY <1>8, <3>1, ChunksTile DEF Tiles, Part, FrameOf, RoundedAway
  <2> QED BY <2>2, <2>4, <2>5
<1>14. FramesPutOutOnce BY <1>11, <1>12, <1>13 DEF FramesPutOutOnce, Rises
<1> QED BY <1>7, <1>14 DEF PutOutOnce

(***************************************************************************)
(* The engine keeps its types, whatever frames the loop gives it: ball,    *)
(* possession and pending kick stay what KickEngine says they are, between *)
(* failing frames, chunks and restarts.                                    *)
(***************************************************************************)
THEOREM LoopTyped == ASSUME AllIds PROVE Spec => []TypeOK
<1>1. LoopInv => TypeOK BY DEF LoopInv, IInv
<1> QED BY <1>1, LoopKept, PTL

(***************************************************************************)
(* Every kick that the engine of a chunk tells has the frames behind it    *)
(* that PossessionAwareEventEngine asks for, though the tracker, a failing *)
(* detector, and the border of a chunk decide which frames it is given.    *)
(***************************************************************************)
THEOREM LoopKicksSound == ASSUME AllIds PROVE Spec => []KicksSound
<1>1. LoopInv => KicksSound BY DEF LoopInv, IInv
<1> QED BY <1>1, LoopKept, PTL

(***************************************************************************)
(* _process_chunk: the frames of the chunks, one file after the other, are *)
(* in order and none is there twice; when all are done, the only frames    *)
(* of the video that are missing are those whose number is rounded down to *)
(* a border of two chunks.  A kick that was drained is listed by the one   *)
(* chunk it ends in and by no other, across the overlap, a restart, frames *)
(* whose detection or OCR fails, and the deduplication at the end.         *)
(***************************************************************************)
THEOREM KicksAndFramesOnce == ASSUME AllIds PROVE Spec => []PutOutOnce
<1>1. LoopInv => PutOutOnce BY LoopPutsOutOnce
<1> QED BY <1>1, LoopKept, PTL

(***************************************************************************)
(* IoUTracker.update: the tracks of a chunk never change class, move no    *)
(* further between two sightings than a match may, are given up after the  *)
(* frames they may miss, and are confirmed by the sightings that the       *)
(* history shows.                                                          *)
(***************************************************************************)
THEOREM TracksContinue == ASSUME AllIds PROVE Spec => []TracksAreContinuous
<1>1. LoopInv => TracksAreContinuous BY DEF LoopInv, FrameInv, TracksFit
<1> QED BY <1>1, LoopKept, PTL

(***************************************************************************)
(* TrailBuffer: a trail is within its age and its number of points, has no *)
(* jump, has a point for every frame it spans, and each of its points is   *)
(* where the track was seen, though failing frames pass it by.             *)
(***************************************************************************)
THEOREM TrailsHold == ASSUME AllIds PROVE Spec => []TrailsAreUnbroken
<1>1. LoopInv => TrailsAreUnbroken BY DEF LoopInv, FrameInv, TrailsFit
<1> QED BY <1>1, LoopKept, PTL
=============================================================================
