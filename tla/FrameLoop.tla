----------------------------- MODULE FrameLoop -----------------------------
(***************************************************************************)
(* FullMatchRunner._process_chunk: a video goes frame by frame through     *)
(* detector, tracker, kick engine, OCR and trails, in overlapping chunks   *)
(* with a tracker, an engine and trails of their own.  A detector or an    *)
(* OCR engine may fail on a frame; a crash, a stop or one failure too many *)
(* ends the chunk, and a later run processes it again.                     *)
(*                                                                         *)
(* A frame has a number and a timestamp, rounded from it; windows are      *)
(* times, and their first and last frames are rounded from them.           *)
(***************************************************************************)
EXTENDS KickEngine, Tracker, ChunkPlan, EventLists

CONSTANTS
    Scenes,                 \* the detections a frame may show
    Duration, ChunkSize, Overlap,
    Fps,                    \* a fraction <<n, d>>
    UnitsPerSecond,         \* of time: 1000
    NamespaceSize,          \* TRACK_NAMESPACE_SIZE
    MaxFrameErrors,
    DedupWindow,            \* window_ms of deduplicate_events
    TrailMaxAge, TrailMaxPoints, TrailMaxJump

ASSUME FrameLoopAssumption ==
    /\ {Duration, ChunkSize, Overlap, NamespaceSize} \subseteq Nat
    /\ {TrailMaxAge, TrailMaxPoints, TrailMaxJump} \subseteq Nat
    /\ Overlap < ChunkSize /\ 0 < Duration /\ 0 < TrailMaxPoints
    /\ Fps \in (Nat \ {0}) \X (Nat \ {0}) /\ UnitsPerSecond \in Nat
    /\ Fps[1] <= Fps[2] * UnitsPerSecond
    /\ \A f \in 0..(FrameAt(Duration, Fps, UnitsPerSecond) - 1):
          TimeOf(f, Fps, UnitsPerSecond) \in Times
    /\ Scenes \subseteq Seq([class: Classes, pos: Positions])
    /\ Reach \in [Classes -> Nat]

VARIABLES
    video,                  \* what the frames decoded so far show
    chunk,                  \* the one in work
    frame,                  \* the next one to decode
    failed,                 \* the frames of this chunk's run that raised
    trails,                 \* TrailBuffer: _points and _last_frame
    kept,                   \* candidates of this chunk
    written,                \* frames in this chunk's file
    listed,                 \* events of the completed chunks
    output,                 \* frames of the completed chunks
    finished

chunkRun == <<engine, tracker, trails, failed, kept, written>>
vars == <<video, chunk, frame, chunkRun, listed, output, finished>>

Chunks == Windows(Duration, ChunkSize, Overlap)
Window == Chunks[chunk]

FrameOf(time) == FrameAt(time, Fps, UnitsPerSecond)
Time(f) == TimeOf(f, Fps, UnitsPerSecond)
Now == Time(frame)

\* every chunk has a tracker, an engine and a trail buffer of its own
StartChunk ==
    /\ ball' = NoBall /\ continuity' = 0 /\ contact' = NoContact
    /\ lastKick' = Never /\ kicks' = <<>> /\ drained' = 0 /\ seen' = <<>>
    /\ tracks' = << >> /\ nextTrack' = 1
    /\ trails' = << >>
    /\ failed' = {}
    /\ kept' = <<>>
    /\ written' = <<>>

Init ==
    /\ EngineInit
    /\ TrackerInit
    /\ trails = << >>
    /\ failed = {}
    /\ kept = <<>>
    /\ written = <<>>
    /\ video = <<>>
    /\ chunk = 1
    /\ frame = 0
    /\ listed = <<>>
    /\ output = <<>>
    /\ finished = FALSE

InChunk == ~finished /\ chunk <= Len(Chunks) /\ frame < FrameOf(Window.end)

\* Overlapping chunks decode the same frames again.
Decode(scene) ==
    IF frame < Len(video) THEN scene = video[frame + 1] /\ UNCHANGED video
    ELSE video' = Append(video, scene)

\* a frame is written whatever happened to it
Write ==
    /\ written' = IF Now >= Window.output THEN Append(written, frame) ELSE written
    /\ frame' = frame + 1
    /\ UNCHANGED <<chunk, listed, output, finished>>

\* namespace_track_id
Named(observed) ==
    [n \in DOMAIN observed |-> [observed[n] EXCEPT !.id = (chunk - 1) * NamespaceSize + @]]

Observed(scene) == Named(Matched(scene).observed)

\* Mutant: a gap of frames does not end a trail.
JumpedAway(old, o) == Distance(old.points[Len(old.points)].pos, o.pos) > TrailMaxJump

Interrupted(old, o) ==
    frame - old.last > 1 \/ Distance(old.points[Len(old.points)].pos, o.pos) > TrailMaxJump

TrailPoints(o) ==
    LET start == IF o.id \notin DOMAIN trails \/ Interrupted(trails[o.id], o) THEN <<>>
                 ELSE trails[o.id].points
        points == Append(start, [pos |-> o.pos, at |-> Now])
        young == {n \in DOMAIN points: points[n].at >= Now - TrailMaxAge}
    IN  SubSeq(points, Max({Min(young), Len(points) - TrailMaxPoints + 1}), Len(points))

\* Only confirmed tracks of this frame have a trail.
UpdateTrails(observed) ==
    LET confirmed == {n \in DOMAIN observed: observed[n].confirmed} IN
    trails' = [id \in {observed[n].id: n \in confirmed} |->
                 [last |-> frame,
                  points |-> TrailPoints(observed[CHOOSE n \in confirmed: observed[n].id = id])]]

\* Mutant: what only the context shows is kept too.
KeepAll(list, k) == Append(list, k)

KeepPutOut(list, k) == IF k.end >= Window.output THEN Append(list, k) ELSE list

\* the loop over drain_candidates
Keep ==
    /\ drained' = Len(kicks')
    /\ kept' = FoldLeft(KeepPutOut, kept, SubSeq(kicks', drained + 1, Len(kicks')))

\* A frame of which nothing failed, or only the overlay that comes last.
ProcessFrame(scene) ==
    /\ InChunk
    /\ Decode(scene)
    /\ Update(scene)
    /\ Observe(Observed(scene), Now)
    /\ Keep
    /\ UpdateTrails(Observed(scene))
    /\ Write
    /\ UNCHANGED failed

MayFail == Cardinality(failed) < MaxFrameErrors /\ failed' = failed \union {frame}

DetectorFails(scene) ==
    /\ InChunk
    /\ Decode(scene)
    /\ MayFail
    /\ Write
    /\ UNCHANGED <<engine, tracker, trails, kept>>

\* Only frames that are put out are read; the interval of the samples is left open.
OcrFails(scene) ==
    /\ InChunk
    /\ Now >= Window.output
    /\ Decode(scene)
    /\ Update(scene)
    /\ Observe(Observed(scene), Now)
    /\ MayFail
    /\ Write
    /\ UNCHANGED <<drained, trails, kept>>

CompleteChunk ==
    /\ ~finished
    /\ chunk <= Len(Chunks)
    /\ frame = FrameOf(Window.end)
    /\ listed' = listed \o Deduplicated(kept, DedupWindow)
    /\ output' = output \o written
    /\ chunk' = chunk + 1
    /\ frame' = IF chunk < Len(Chunks) THEN FrameOf(Chunks[chunk + 1].context) ELSE frame
    /\ StartChunk
    /\ UNCHANGED <<video, finished>>

\* A crash, a stop, or the failure after MaxFrameErrors: nothing of the chunk was saved.
RestartChunk ==
    /\ ~finished
    /\ chunk <= Len(Chunks)
    /\ frame' = FrameOf(Window.context)
    /\ StartChunk
    /\ UNCHANGED <<video, chunk, listed, output, finished>>

Finalize ==
    /\ ~finished
    /\ chunk > Len(Chunks)
    /\ listed' = Deduplicated(listed, DedupWindow)
    /\ finished' = TRUE
    /\ UNCHANGED <<video, chunk, frame, chunkRun, output>>

Next ==
    \/ \E scene \in Scenes: ProcessFrame(scene) \/ DetectorFails(scene) \/ OcrFails(scene)
    \/ CompleteChunk
    \/ RestartChunk
    \/ Finalize

Spec == Init /\ [][Next]_vars
-----------------------------------------------------------------------------
(* Properties *)

Kept == {kicks[n]: n \in {i \in 1..drained: kicks[i].end >= Window.output}}

KicksPutOutOnce ==
    /\ ToSet(kept) = (IF chunk <= Len(Chunks) THEN Kept ELSE {})
    /\ Len(kept) = Cardinality(ToSet(kept))
    /\ \A i, j \in DOMAIN (listed \o kept):
          i # j => (listed \o kept)[i].end # (listed \o kept)[j].end
    /\ \A i \in DOMAIN listed: \E n \in 1..(chunk - 1):
          Chunks[n].output <= listed[i].end /\ listed[i].end < Chunks[n].end
    /\ \A n \in (drained + 1)..Len(kicks): \A f \in 0..(frame - 1):
          Time(f) >= kicks[n].end => f \in failed

\* The frame that a border is rounded to, and that is before the border.
RoundedAway(f) ==
    \E n \in 1..(Len(Chunks) - 1):
        f = FrameOf(Chunks[n].end) /\ f * UnitsPerSecond * Fps[2] < Chunks[n].end * Fps[1]

FramesPutOutOnce ==
    /\ \A m, n \in DOMAIN (output \o written):
          m < n => (output \o written)[m] < (output \o written)[n]
    /\ finished => /\ ToSet(output) \subseteq 0..(FrameOf(Duration) - 1)
                   /\ \A f \in (0..(FrameOf(Duration) - 1)) \ ToSet(output): RoundedAway(f)

\* A kick is listed by one chunk, the one whose part of the video it ends in: not again by
\* the chunk whose context shows it, nor after a frame that failed between the engine and the
\* drain; what the engine found waits to be drained only while no later frame went well.
\* The frames of the chunks, one file after the other, are in order and none is there twice,
\* whichever failed and however often a chunk was begun; in the end one frame at most
\* is missing for each border of two chunks, the one whose number is rounded down to it.
PutOutOnce == KicksPutOutOnce /\ FramesPutOutOnce

Sightings(id, i, j) == {n \in i..j: \E t \in DOMAIN seen[n].tracks: seen[n].tracks[t].id = id}

\* An id stands for one object: one observation in a frame, the next within reach of it
\* and not too long after, and confirmed as soon as it was seen often enough.
TracksAreContinuous ==
    /\ \A n \in DOMAIN seen: \A s, t \in DOMAIN seen[n].tracks:
          seen[n].tracks[s].id = seen[n].tracks[t].id => s = t
    /\ \A m, n \in DOMAIN seen: \A s \in DOMAIN seen[m].tracks, t \in DOMAIN seen[n].tracks:
          LET o == seen[m].tracks[s]
              p == seen[n].tracks[t] IN
          m < n /\ o.id = p.id =>
             /\ o.class = p.class
             /\ Sightings(o.id, m + 1, n - 1) = {} =>
                   Distance(o.pos, p.pos) <= Reach[o.class] /\ n - m <= MaxMissed + 1
    /\ \A n \in DOMAIN seen: \A t \in DOMAIN seen[n].tracks:
          seen[n].tracks[t].confirmed
             <=> Cardinality(Sightings(seen[n].tracks[t].id, 1, n)) >= ConfirmMinHits

\* A trail is a line the object went: points of consecutive frames up to the last that went
\* well, none of them failed, each where the confirmed track was seen and no farther from
\* the one before than it can move, the oldest young enough.
TrailsAreUnbroken ==
    \A id \in DOMAIN trails: LET points == trails[id].points
                                Shown(n) == trails[id].last - Len(points) + n IN
        /\ Len(points) \in 1..TrailMaxPoints
        /\ points[1].at >= points[Len(points)].at - TrailMaxAge
        /\ (trails[id].last + 1)..(frame - 1) \subseteq failed
        /\ \A n \in 2..Len(points): Distance(points[n].pos, points[n - 1].pos) <= TrailMaxJump
        /\ \A n \in DOMAIN points:
              /\ Shown(n) \in (0..(frame - 1)) \ failed
              /\ points[n].at = Time(Shown(n))
              /\ \E i \in DOMAIN seen: \E t \in DOMAIN seen[i].tracks:
                    /\ seen[i].at = points[n].at
                    /\ seen[i].tracks[t].id = id
                    /\ seen[i].tracks[t].pos = points[n].pos
                    /\ seen[i].tracks[t].confirmed
=============================================================================
