------------------------------ MODULE Tracker ------------------------------
(***************************************************************************)
(* tracking/iou.py: IoUTracker.  Boxes of one class have one size and move *)
(* on a line, so that the greatest overlap is the least distance, an       *)
(* overlap above the threshold a distance within Reach, and the second     *)
(* look for a ball, by distance, a longer reach.                           *)
(***************************************************************************)
EXTENDS Integers, Sequences, SequencesExt

CONSTANTS
    Reach,                  \* of each class
    MaxMissed,              \* max_missed
    ConfirmMinHits          \* confirm_min_hits

ASSUME TrackerAssumption == {MaxMissed, ConfirmMinHits} \subseteq Nat

VARIABLES tracks, nextTrack

tracker == <<tracks, nextTrack>>

TrackerInit == tracks = << >> /\ nextTrack = 1

Away(x, y) == IF x < y THEN y - x ELSE x - y

\* Mutant: two detections of a frame may continue one track.
Unclaimed(m, d) ==
    {t \in DOMAIN m.tracks:
        m.tracks[t].class = d.class /\ Away(m.tracks[t].pos, d.pos) <= Reach[d.class]}

\* the track d continues: the nearest within reach, the older of two
Candidates(m, d) ==
    {t \in DOMAIN m.tracks \ m.claimed:
        m.tracks[t].class = d.class /\ Away(m.tracks[t].pos, d.pos) <= Reach[d.class]}

Nearest(m, d) ==
    CHOOSE t \in Candidates(m, d): \A u \in Candidates(m, d):
        \/ Away(m.tracks[t].pos, d.pos) < Away(m.tracks[u].pos, d.pos)
        \/ Away(m.tracks[t].pos, d.pos) = Away(m.tracks[u].pos, d.pos) /\ t <= u

\* one detection: m holds the tracks, the ones claimed in this frame, and the observations
Match(m, d) ==
    LET new == Candidates(m, d) = {}
        t == IF new THEN m.next ELSE Nearest(m, d)
        hits == 1 + (IF new THEN 0 ELSE m.tracks[t].hits)
        seen == [class |-> d.class, pos |-> d.pos, missed |-> 0, hits |-> hits]
    IN  [tracks |-> [u \in DOMAIN m.tracks \union {t} |-> IF u = t THEN seen ELSE m.tracks[u]],
         next |-> IF new THEN m.next + 1 ELSE m.next,
         claimed |-> m.claimed \union {t},
         observed |-> Append(m.observed,
            [id |-> t, class |-> d.class, pos |-> d.pos, confirmed |-> hits >= ConfirmMinHits])]

\* detections come by falling confidence
Matched(detections) ==
    LET missed == [t \in DOMAIN tracks |-> [tracks[t] EXCEPT !.missed = @ + 1]]
    IN  FoldLeft(Match, [tracks |-> missed, next |-> nextTrack, claimed |-> {}, observed |-> <<>>],
                 detections)

\* Tracks missed for too long go after the matching: one more miss is forgiven.
Update(detections) ==
    LET m == Matched(detections) IN
    /\ tracks' = [t \in {u \in DOMAIN m.tracks: m.tracks[u].missed <= MaxMissed} |-> m.tracks[t]]
    /\ nextTrack' = m.next
=============================================================================
