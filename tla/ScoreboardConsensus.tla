------------------------ MODULE ScoreboardConsensus ------------------------
(***************************************************************************)
(* fullmatch/ocr.py: what ScoreboardConsensus makes of the readings of one *)
(* scoreboard, sampled while a match is processed.  A reading may be       *)
(* missed, misread, or come with a wrong clock.  Team names decide nothing *)
(* once the first reading was taken, and are left out.                     *)
(*                                                                         *)
(* Video time and match clock are in one unit, so that either can stand in *)
(* for the other as the parser lets it.                                    *)
(***************************************************************************)
EXTENDS Integers, Sequences

CONSTANTS
    Scores,                 \* pairs of goals that can be read
    Clocks,                 \* match clocks that can be read
    LateClock,              \* a half may be over: 40 minutes
    EarlyClock,             \* and another one on its way: 15 minutes
    ClockDrop,              \* 10 minutes
    StableFor,              \* stable_score_ms
    MaxPendingGap,          \* max_pending_gap_ms
    MaxMisses,              \* max_consecutive_misses
    MaxStep,                \* bound on the time between two samples
    LastTime                \* bound on the video

ASSUME ConsensusAssumption ==
    /\ Scores \subseteq Nat \X Nat
    /\ Clocks \subseteq Nat
    /\ {LateClock, EarlyClock, ClockDrop, MaxPendingGap, MaxMisses, LastTime} \subseteq Nat
    /\ {StableFor, MaxStep} \subseteq Nat \ {0}

VARIABLES
    now,                    \* timestamp of the last sample
    period,
    clock,                  \* last_clock_ms
    accepted,               \* accepted_score
    pending,                \* pending_score, since when, when last heard of,
                            \* its reads and the misses since the last of them
    published,              \* the last observation made public
    events,                 \* the score changes emitted
    shown                   \* history: what each sample came to

consensus == <<period, clock, accepted, pending, published, events>>
vars == <<now, consensus, shown>>

None == -1
NoScore == <<None, None>>
NoPending == [score |-> NoScore, since |-> None, last |-> None, reads |-> <<>>, misses |-> 0]

Times == 0..LastTime
Missed == <<-2, -2>>
Unseen == <<-3, -3>>        \* not sampled, or not taken because of its clock

Pendings ==
    [score: Scores \union {NoScore}, since: Times \union {None},
     last: Times \union {None}, reads: Seq(Times), misses: 0..MaxMisses]
NoObservation == [period |-> 0, clock |-> 0, score |-> NoScore]
Observations == [period: Nat, clock: Nat, score: Scores]
Changes == [from: Scores, to: Scores, reads: Seq(Times)]

TypeOK ==
    /\ now \in Times \union {None}
    /\ period \in Nat \ {0}
    /\ clock \in Nat \union {None}
    /\ accepted \in Scores \union {NoScore}
    /\ pending \in Pendings
    /\ published \in Observations \union {NoObservation}
    /\ events \in Seq(Changes)
    /\ shown \in [Times -> Scores \union {Missed, Unseen}]

Init ==
    /\ now = None
    /\ period = 1
    /\ clock = None
    /\ accepted = NoScore
    /\ pending = NoPending
    /\ published = NoObservation
    /\ events = <<>>
    /\ shown = [t \in Times |-> Unseen]

-----------------------------------------------------------------------------
(* A sample is due one interval after the last; frames that fail delay it. *)
Sample(t) ==
    /\ t \in (now + 1)..(now + MaxStep)
    /\ t <= LastTime
    /\ now' = t

(* Mutant: one miss ends a developing change. *)
MissedStrictly(t) == NoPending

(* Mutant: one miss too many before the change is given up. *)
MissedPatiently(t) ==
    IF pending.misses > MaxMisses THEN NoPending
    ELSE [pending EXCEPT !.misses = @ + 1, !.last = t]

(* The pending change after a miss at t. *)
AfterMiss(t) ==
    IF pending.misses + 1 > MaxMisses THEN NoPending
    ELSE [pending EXCEPT !.misses = @ + 1, !.last = t]

(* Text without a score, or before any team was seen; or the engine failed. *)
ObserveMissing(t) ==
    /\ Sample(t)
    /\ pending' = IF pending.score = NoScore THEN pending ELSE AfterMiss(t)
    /\ shown' = [shown EXCEPT ![t] = Missed]
    /\ UNCHANGED <<period, clock, accepted, published, events>>

(* The clock of a reading at t: as read, the last known one, or video time. *)
Readable(t) == Clocks \union {IF clock = None THEN t ELSE clock}

HalftimeReset(c) ==
    /\ clock >= LateClock
    /\ c <= EarlyClock
    /\ clock - c >= ClockDrop

(* Mutant: any clock is taken. *)
ClockAny(c) == TRUE

ClockTaken(c) == c >= clock \/ HalftimeReset(c)

(* A clock that runs backwards within a half: nothing of the reading is used. *)
ObserveReversed(t) ==
    /\ Sample(t)
    /\ \E c \in Readable(t) : ~ClockTaken(c)
    /\ UNCHANGED <<consensus, shown>>

Lower(score, than) == score[1] < than[1] \/ score[2] < than[2]

(* Mutant: only the home side is looked at. *)
RegressionAtHome(score) == score[1] < accepted[1]

Regression(score) == Lower(score, accepted)

(* Mutant: another score goes on with the window of the one before. *)
ContinuesAnything(score, t) ==
    pending.score # NoScore /\ t - pending.last <= MaxPendingGap

Continues(score, t) ==
    /\ pending.score = score
    /\ t - pending.last <= MaxPendingGap

Supported(t) ==
    [pending EXCEPT !.last = t, !.reads = Append(@, t), !.misses = 0]

(* Mutant: the window is over one unit early. *)
StableEarly(t) == t - pending.since >= StableFor - 1

Stable(t) == t - pending.since >= StableFor

Publish(score) ==
    published' = [period |-> period', clock |-> clock', score |-> score]

Observe(t, score, c) ==
    /\ Sample(t)
    /\ ClockTaken(c)
    /\ clock' = c
    /\ period' = IF c < clock /\ HalftimeReset(c) THEN period + 1 ELSE period
    /\ shown' = [shown EXCEPT ![t] = score]
    /\ \/ /\ accepted = NoScore
          /\ accepted' = score
          /\ Publish(score)
          /\ UNCHANGED <<pending, events>>
       \/ /\ accepted = score
          /\ pending' = NoPending
          /\ Publish(score)
          /\ UNCHANGED <<accepted, events>>
       \/ /\ accepted # NoScore
          /\ Regression(score)
          /\ UNCHANGED <<accepted, pending, published, events>>
       \/ /\ accepted \notin {NoScore, score}
          /\ ~Regression(score)
          /\ \/ /\ ~Continues(score, t)
                /\ pending' = [score |-> score, since |-> t, last |-> t,
                               reads |-> <<t>>, misses |-> 0]
                /\ UNCHANGED <<accepted, published, events>>
             \/ /\ Continues(score, t)
                /\ ~Stable(t)
                /\ pending' = Supported(t)
                /\ UNCHANGED <<accepted, published, events>>
             \/ /\ Continues(score, t)
                /\ Stable(t)
                /\ accepted' = score
                /\ pending' = NoPending
                /\ Publish(score)
                /\ events' = Append(events, [from |-> accepted, to |-> score,
                                             reads |-> Supported(t).reads])

Next ==
    \E t \in Times :
        \/ ObserveMissing(t)
        \/ ObserveReversed(t)
        \/ \E score \in Scores, c \in Readable(t) : Observe(t, score, c)

Spec == Init /\ [][Next]_vars

-----------------------------------------------------------------------------
(* Properties. *)

Between(s, t) == {shown[u] : u \in (s + 1)..(t - 1)}

(* How many samples between two reads were missed. *)
Tolerated(s, t) ==
    \A first \in (s + 1)..(t - 1) :
        ~\A u \in first..(first + MaxMisses) : u < t /\ shown[u] = Missed

(* Every score change that was emitted had been read often enough: all its
   supporting reads showed it, no reading in between showed the score it
   replaced or a third, higher one, never more than MaxMisses samples in a row
   were missed, and the reads span stable_score_ms. *)
ChangesAreSupported ==
    \A i \in DOMAIN events :
        LET e == events[i]
            n == Len(e.reads) IN
        /\ e.reads[n] - e.reads[1] >= StableFor
        /\ \A k \in 1..n : shown[e.reads[k]] = e.to
        /\ \A k \in 1..(n - 1) :
               /\ e.reads[k] < e.reads[k + 1]
               /\ \A s \in Between(e.reads[k], e.reads[k + 1]) :
                      s \in {Missed, Unseen} \/ Lower(s, e.from)
               /\ Tolerated(e.reads[k], e.reads[k + 1])

(* The changes emitted tell the whole story of the accepted score, each once:
   each goes up from where the one before ended, and the last one ends at the
   accepted score (DECISIONS.md:121, "exactly one"). *)
ChangesChain ==
    \A i \in DOMAIN events :
        /\ events[i].from # events[i].to
        /\ ~Lower(events[i].to, events[i].from)
        /\ events[i].to = IF i = Len(events) THEN accepted ELSE events[i + 1].from

(* Score s has been on the screen from time f to time t: both samples read it,
   and so did all between, but for at most MaxMisses missed ones in a row. *)
OnScreen(s, f, t) ==
    /\ shown[f] = s
    /\ shown[t] = s
    /\ Between(f, t) \subseteq {s, Missed}
    /\ Tolerated(f, t)

(* A higher score that stayed on the screen for stable_score_ms is accepted at
   the next sample that reads it, although some samples were missed
   (DECISIONS.md:121). *)
StableIsAccepted ==
    \A s \in Scores, f \in Times :
        /\ now # None
        /\ f + StableFor <= now
        /\ OnScreen(s, f, now)
        => accepted = s \/ Regression(s)

(* What is published never goes back: not the score, not the clock within a
   period, not the period. *)
NeverBack ==
    [][published # NoObservation =>
         /\ ~Lower(published'.score, published.score)
         /\ \/ published'.period > published.period
            \/ /\ published'.period = published.period
               /\ published'.clock >= published.clock]_vars
=============================================================================
