----------------------------- MODULE ChunkPlan -----------------------------
(***************************************************************************)
(* fullmatch/chunks.py and FullMatchManifest.create: the windows a match   *)
(* is cut into.  Neighbours overlap, so that a chunk starts with some      *)
(* context, and a chunk puts out what the one before it has not.           *)
(***************************************************************************)
EXTENDS Integers, Sequences

Earliest(x, y) == IF x < y THEN x ELSE y

PlanChunks(duration, size, overlap) ==
    LET from[start \in 0..duration] ==
            LET end == Earliest(start + size, duration)
            IN  <<[start |-> start, end |-> end]>>
                  \o (IF end = duration THEN <<>> ELSE from[end - overlap])
    IN  from[0]

\* Mutant: a chunk puts its context out too.
WindowsWithContext(duration, size, overlap) ==
    LET plan == PlanChunks(duration, size, overlap) IN
    [n \in DOMAIN plan |->
        [context |-> plan[n].start, output |-> plan[n].start, end |-> plan[n].end]]

Windows(duration, size, overlap) ==
    LET plan == PlanChunks(duration, size, overlap) IN
    [n \in DOMAIN plan |->
        [context |-> plan[n].start,
         output |-> IF n = 1 THEN 0 ELSE plan[n - 1].end,
         end |-> plan[n].end]]
-----------------------------------------------------------------------------
(* The frames of a window.  A second has Second units of time (1000 in the *)
(* code); fps is a fraction <<n, d>>, as rates are.                        *)

\* round(n / d), halves to the even side
Rounded(n, d) ==
    LET q == n \div d
        r == 2 * (n % d)
    IN  IF r < d \/ (r = d /\ q % 2 = 0) THEN q ELSE q + 1

FrameAt(time, fps, second) == Rounded(time * fps[1], fps[2] * second)
TimeOf(frame, fps, second) == Rounded(frame * second * fps[2], fps[1])

\* the frames _process_chunk decodes for a window, and those it writes
Decoded(w, fps, second) ==
    FrameAt(w.context, fps, second)..(FrameAt(w.end, fps, second) - 1)

Written(w, fps, second) ==
    {f \in Decoded(w, fps, second): TimeOf(f, fps, second) >= w.output}
=============================================================================
