--------------------- MODULE ScoreboardConsensus_proofs ---------------------
(***************************************************************************)
(* Proofs about ScoreboardConsensus for any scores, clocks and limits.     *)
(***************************************************************************)
EXTENDS ScoreboardConsensus, TLAPS

(* What was made public is what was accepted, at a clock that was taken. *)
PublishedFits ==
    /\ published = NoObservation <=> accepted = NoScore
    /\ published # NoObservation =>
           /\ published.score = accepted
           /\ published.period <= period
           /\ published.period = period => published.clock <= clock

IInv == TypeOK /\ PublishedFits /\ ChangesChain

(* What a sample may do to the observation made public. *)
Forward ==
    published # NoObservation =>
        /\ ~Lower(published'.score, published.score)
        /\ \/ published'.period > published.period
           \/ /\ published'.period = published.period
              /\ published'.clock >= published.clock

-----------------------------------------------------------------------------
LEMMA ScoreType ==
  ASSUME NEW s \in Scores
  PROVE  s[1] \in Nat /\ s[2] \in Nat /\ s # NoScore /\ ~Lower(s, s)
  BY ConsensusAssumption DEF NoScore, None, Lower

LEMMA ClockType ==
  ASSUME TypeOK, NEW t \in Times, NEW c \in Readable(t)
  PROVE  c \in Nat
  BY ConsensusAssumption DEF TypeOK, Readable, Times, None

LEMMA NoPendingType == NoPending \in Pendings
  <1>1. <<>> \in Seq(Times)
    OBVIOUS
  <1>2. 0 \in 0..MaxMisses
    BY ConsensusAssumption
  <1> QED
    BY <1>1, <1>2 DEF NoPending, Pendings

LEMMA PendingType ==
  ASSUME TypeOK, NEW t \in Times
  PROVE  /\ AfterMiss(t) \in Pendings
         /\ Supported(t) \in Pendings
         /\ \A score \in Scores :
                [score |-> score, since |-> t, last |-> t, reads |-> <<t>>, misses |-> 0]
                    \in Pendings
  <1>1. /\ pending \in Pendings /\ pending.misses \in 0..MaxMisses
        /\ pending.reads \in Seq(Times) /\ MaxMisses \in Nat
    BY ConsensusAssumption DEF TypeOK, Pendings
  <1>2. AfterMiss(t) \in Pendings
    <2>1. CASE pending.misses + 1 > MaxMisses
      BY <2>1, NoPendingType DEF AfterMiss
    <2>2. CASE ~(pending.misses + 1 > MaxMisses)
      <3>1. pending.misses + 1 \in 0..MaxMisses
        BY <1>1, <2>2
      <3> QED
        BY <1>1, <2>2, <3>1 DEF AfterMiss, Pendings
    <2> QED
      BY <2>1, <2>2
  <1>3. Supported(t) \in Pendings
    <2>1. Append(pending.reads, t) \in Seq(Times) /\ 0 \in 0..MaxMisses
      BY <1>1
    <2> QED
      BY <1>1, <2>1 DEF Supported, Pendings
  <1>4. <<t>> \in Seq(Times) /\ 0 \in 0..MaxMisses
    BY <1>1
  <1> QED
    BY <1>2, <1>3, <1>4 DEF Pendings

-----------------------------------------------------------------------------
(* What a reading may come to. *)

(* Whatever happens to the score, the clock of a period never goes back. *)
LEMMA ClockForward ==
  ASSUME IInv, NEW t \in Times, NEW score \in Scores, NEW c \in Readable(t),
         Observe(t, score, c)
  PROVE  /\ clock' = c /\ c \in Nat
         /\ period' \in Nat \ {0}
         /\ period' >= period
         /\ period' = period => c >= clock
  <1>1. c \in Nat
    BY ClockType DEF IInv
  <1>2. period \in Nat \ {0} /\ clock \in Nat \union {None}
    BY DEF IInv, TypeOK
  <1>3. /\ clock' = c
        /\ c >= clock \/ HalftimeReset(c)
        /\ period' = IF c < clock /\ HalftimeReset(c) THEN period + 1 ELSE period
    BY DEF Observe, ClockTaken
  <1> QED
    BY <1>1, <1>2, <1>3 DEF None

(* A reading publishes the score that is now accepted, or nothing; the score
   accepted only goes up, and only after its change was emitted. *)
LEMMA Readings ==
  ASSUME IInv, NEW t \in Times, NEW score \in Scores, NEW c \in Readable(t),
         Observe(t, score, c)
  PROVE  /\ pending' \in Pendings
         /\ \/ UNCHANGED <<accepted, published, events>>
            \/ /\ accepted' = score
               /\ published' = [period |-> period', clock |-> clock', score |-> score]
               /\ \/ accepted \in {NoScore, score} /\ UNCHANGED events
                  \/ /\ accepted \in Scores \ {score}
                     /\ ~Lower(score, accepted)
                     /\ \E reads \in Seq(Times) :
                            events' = Append(events, [from |-> accepted, to |-> score,
                                                      reads |-> reads])
  <1>1. /\ pending \in Pendings
        /\ accepted \in Scores \union {NoScore}
        /\ Supported(t).reads \in Seq(Times)
    BY PendingType DEF IInv, TypeOK, Pendings
  <1>2. CASE accepted = NoScore \/ accepted = score
    BY <1>1, <1>2, NoPendingType, ScoreType DEF Observe, Publish
  <1>3. CASE accepted \notin {NoScore, score} /\ Regression(score)
    BY <1>1, <1>3 DEF Observe
  <1>4. CASE accepted \notin {NoScore, score} /\ ~Regression(score)
    <2>1. ~Lower(score, accepted)
      BY <1>4 DEF Regression
    <2>2. /\ Supported(t) \in Pendings
          /\ [score |-> score, since |-> t, last |-> t, reads |-> <<t>>, misses |-> 0]
                 \in Pendings
      BY PendingType DEF IInv
    <2> QED
      BY <1>1, <1>4, <2>1, <2>2, NoPendingType DEF Observe, Publish
  <1> QED
    BY <1>2, <1>3, <1>4

(* The changes still make a chain when one more is appended. *)
LEMMA ChainGrows ==
  ASSUME IInv, NEW score \in Scores, NEW reads \in Seq(Times),
         accepted \in Scores \ {score}, ~Lower(score, accepted), accepted' = score,
         events' = Append(events, [from |-> accepted, to |-> score, reads |-> reads])
  PROVE  events' \in Seq(Changes) /\ ChangesChain'
  <1> DEFINE e == [from |-> accepted, to |-> score, reads |-> reads]
  <1>1. events \in Seq(Changes) /\ e \in Changes
    BY DEF IInv, TypeOK, Changes
  <1>2. e.from = accepted /\ e.to = score
    OBVIOUS
  <1>3. events' = Append(events, e)
    OBVIOUS
  <1> HIDE DEF e
  <1>4. /\ events' \in Seq(Changes)
        /\ Len(events') = Len(events) + 1
        /\ Len(events) \in Nat
        /\ DOMAIN events = 1..Len(events)
        /\ DOMAIN events' = 1..(Len(events) + 1)
        /\ \A i \in 1..Len(events) : events'[i] = events[i]
        /\ events'[Len(events) + 1] = e
    BY <1>1, <1>3
  <1>5. \A i \in 1..Len(events) :
            /\ events[i].from # events[i].to
            /\ ~Lower(events[i].to, events[i].from)
            /\ events[i].to = IF i = Len(events) THEN accepted ELSE events[i + 1].from
    BY <1>4 DEF IInv, ChangesChain
  <1> SUFFICES ASSUME NEW i \in 1..(Len(events) + 1)
               PROVE  /\ events'[i].from # events'[i].to
                      /\ ~Lower(events'[i].to, events'[i].from)
                      /\ events'[i].to = IF i = Len(events) + 1 THEN score
                                         ELSE events'[i + 1].from
    BY <1>4 DEF ChangesChain, Lower
  <1>6. CASE i = Len(events) + 1
    BY <1>2, <1>4, <1>6
  <1>7. CASE i # Len(events) + 1
    <2>1. i \in 1..Len(events) /\ events'[i] = events[i]
      BY <1>4, <1>7
    <2>2. CASE i = Len(events)
      BY <1>2, <1>4, <1>5, <2>1, <2>2
    <2>3. CASE i # Len(events)
      <3>1. i + 1 \in 1..Len(events) /\ events'[i + 1] = events[i + 1]
        BY <1>4, <2>1, <2>3
      <3>2. /\ events[i].from # events[i].to
            /\ ~Lower(events[i].to, events[i].from)
            /\ events[i].to = events[i + 1].from
        BY <1>5, <2>1, <2>3
      <3> QED
        BY <1>7, <2>1, <3>1, <3>2
    <2> QED
      BY <2>2, <2>3
  <1> QED
    BY <1>6, <1>7

LEMMA ObserveStep ==
  ASSUME IInv, NEW t \in Times, NEW score \in Scores, NEW c \in Readable(t),
         Observe(t, score, c)
  PROVE  IInv' /\ Forward
  <1> USE DEF NoObservation
  <1>1. /\ clock' = c /\ c \in Nat
        /\ period' \in Nat \ {0} /\ period' >= period
        /\ period' = period => c >= clock
    BY ClockForward
  <1>2. /\ now' = t
        /\ shown' = [shown EXCEPT ![t] = score]
        /\ pending' \in Pendings
    BY Readings DEF Observe, Sample
  <1>3. /\ period \in Nat \ {0} /\ clock \in Nat \union {None}
        /\ published \in Observations \union {NoObservation}
        /\ accepted \in Scores \union {NoScore}
        /\ NoScore \notin Scores
        /\ \A s \in Scores : ~Lower(s, s)
    BY ScoreType DEF IInv, TypeOK
  <1>4. CASE UNCHANGED <<accepted, published, events>>
    <2>1. TypeOK'
      BY <1>1, <1>2, <1>4 DEF IInv, TypeOK
    <2>2. PublishedFits' /\ Forward
      BY <1>1, <1>3, <1>4 DEF IInv, PublishedFits, Forward, Observations, None, Lower
    <2>3. ChangesChain'
      BY <1>4 DEF IInv, ChangesChain, Lower
    <2> QED
      BY <2>1, <2>2, <2>3 DEF IInv
  <1>5. CASE /\ accepted' = score
             /\ published' = [period |-> period', clock |-> clock', score |-> score]
             /\ accepted \in {NoScore, score} \/ ~Lower(score, accepted)
             /\ events' \in Seq(Changes) /\ ChangesChain'
    <2>1. TypeOK'
      BY <1>1, <1>2, <1>5 DEF IInv, TypeOK, Observations
    <2>2. PublishedFits'
      BY <1>1, <1>3, <1>5 DEF PublishedFits
    <2>3. Forward
      BY <1>1, <1>3, <1>5 DEF IInv, PublishedFits, Forward, Observations, None
    <2> QED
      BY <1>5, <2>1, <2>2, <2>3 DEF IInv
  <1>6. CASE accepted \in {NoScore, score} /\ accepted' = score /\ UNCHANGED events
    <2>1. accepted = NoScore => events = <<>>
      <3>1. events \in Seq(Changes)
        BY DEF IInv, TypeOK
      <3>2. Len(events) # 0 => events[Len(events)].to \in Scores
        <4>1. Len(events) # 0 => Len(events) \in 1..Len(events)
          BY <3>1
        <4>2. Len(events) # 0 => events[Len(events)] \in Changes
          BY <3>1, <4>1
        <4> QED
          BY <4>2 DEF Changes
      <3>3. Len(events) # 0 => events[Len(events)].to = accepted
        BY <3>1 DEF IInv, ChangesChain
      <3> QED
        BY <1>3, <3>1, <3>2, <3>3
    <2>2. ChangesChain'
      BY <1>6, <2>1 DEF IInv, ChangesChain, Lower
    <2>3. events' \in Seq(Changes)
      BY <1>6 DEF IInv, TypeOK
    <2>4. \/ UNCHANGED <<accepted, published, events>>
          \/ published' = [period |-> period', clock |-> clock', score |-> score]
      BY Readings
    <2> QED
      BY <1>4, <1>5, <1>6, <2>2, <2>3, <2>4
  <1> QED
    BY <1>4, <1>5, <1>6, Readings, ChainGrows

LEMMA OtherSteps ==
  ASSUME IInv, NEW t \in Times, ObserveMissing(t) \/ ObserveReversed(t)
  PROVE  IInv' /\ Forward
  <1>1. /\ now' = t /\ UNCHANGED <<period, clock, accepted, published, events>>
        /\ pending' \in Pendings
        /\ shown' \in [Times -> Scores \union {Missed, Unseen}]
    BY PendingType
    DEF IInv, TypeOK, ObserveMissing, ObserveReversed, Sample, consensus
  <1>2. TypeOK'
    BY <1>1 DEF IInv, TypeOK
  <1>3. PublishedFits' /\ ChangesChain'
    BY <1>1 DEF IInv, PublishedFits, ChangesChain, NoObservation, Lower
  <1>4. Forward
    BY <1>1, ScoreType DEF IInv, TypeOK, Forward, Observations
  <1> QED
    BY <1>2, <1>3, <1>4 DEF IInv

LEMMA EveryStep ==
  ASSUME IInv, [Next]_vars
  PROVE  IInv' /\ (Forward \/ UNCHANGED vars)
  <1>1. CASE Next
    BY <1>1, ObserveStep, OtherSteps DEF Next
  <1>2. CASE UNCHANGED vars
    BY <1>2 DEF IInv, TypeOK, PublishedFits, ChangesChain, Lower, NoObservation, vars, consensus
  <1> QED
    BY <1>1, <1>2

-----------------------------------------------------------------------------
(* What supports a change. *)

(* No sample of a history h between s and t spoke against a change from a score. *)
Quiet(h, s, t, from) ==
    \A u \in Times : s < u /\ u < t => h[u] \in {Missed, Unseen} \/ Lower(h[u], from)

(* All of n + 1 samples in a row were missed. *)
Run(h, first, n) == \A u \in Times : first <= u /\ u <= first + n => h[u] = Missed

(* At most so many samples in a row were missed between s and t. *)
ShortRuns(h, s, t, limit) ==
    \A first \in Times, n \in Nat :
        s < first /\ first + n < t /\ Run(h, first, n) => n < limit

Bridge(h, s, t, from) ==
    s < t /\ Quiet(h, s, t, from) /\ ShortRuns(h, s, t, MaxMisses)

(* The reads of a change, none after a given time. *)
Supports(h, upto, reads, from, to) ==
    /\ Len(reads) > 0
    /\ \A k \in 1..Len(reads) : reads[k] <= upto /\ h[reads[k]] = to
    /\ \A k \in 1..(Len(reads) - 1) : Bridge(h, reads[k], reads[k + 1], from)

Last(p) == p.reads[Len(p.reads)]

(* What a pending change p from a score has behind it. *)
PendingFits(h, upto, p, from) ==
    /\ from \in Scores
    /\ Supports(h, upto, p.reads, from, p.score)
    /\ p.since = p.reads[1]
    /\ Quiet(h, Last(p), upto + 1, from)
    /\ ShortRuns(h, Last(p), upto + 1, p.misses)

(* What an emitted change e had. *)
ChangeFits(h, upto, e) ==
    /\ Supports(h, upto, e.reads, e.from, e.to)
    /\ e.reads[Len(e.reads)] - e.reads[1] >= StableFor

HistoryFits(h, upto, es, p, from) ==
    /\ \A u \in Times : u > upto => h[u] = Unseen
    /\ \A i \in 1..Len(es) : ChangeFits(h, upto, es[i])
    /\ p.score # NoScore => PendingFits(h, upto, p, from)

Fits == HistoryFits(shown, now, events, pending, accepted)
FitsNext == HistoryFits(shown', now', events', pending', accepted')

LEMMA SupportStays ==
  ASSUME NEW h, NEW g, NEW upto \in Times \union {None}, NEW t \in Times, upto < t,
         \A u \in Times : u <= upto => g[u] = h[u],
         NEW reads \in Seq(Times), NEW from, NEW to,
         Supports(h, upto, reads, from, to)
  PROVE  Supports(g, t, reads, from, to)
  <1>1. LastTime \in Nat /\ Times = 0..LastTime /\ upto \in Int
    BY ConsensusAssumption DEF Times, None
  <1>2. Len(reads) \in Nat /\ \A k \in 1..Len(reads) : reads[k] \in Times
    OBVIOUS
  <1>3. ASSUME NEW k \in 1..Len(reads)
        PROVE  reads[k] <= t /\ g[reads[k]] = to
    BY <1>1, <1>2 DEF Supports
  <1>4. ASSUME NEW k \in 1..(Len(reads) - 1)
        PROVE  Bridge(g, reads[k], reads[k + 1], from)
    <2> DEFINE a == reads[k]
               b == reads[k + 1]
    <2>1. a \in Times /\ b \in Times /\ b <= upto /\ Bridge(h, a, b, from)
      BY <1>2 DEF Supports
    <2> HIDE DEF a, b
    <2>2. \A u \in Times : u < b => g[u] = h[u]
      BY <1>1, <2>1
    <2>3. Quiet(g, a, b, from)
      BY <1>1, <2>1, <2>2 DEF Bridge, Quiet
    <2>4. ShortRuns(g, a, b, MaxMisses)
      <3> SUFFICES ASSUME NEW first \in Times, NEW n \in Nat,
                          a < first, first + n < b, Run(g, first, n)
                   PROVE  n < MaxMisses
        BY DEF ShortRuns
      <3>1. \A u \in Times : u <= first + n => u < b
        BY <1>1, <2>1
      <3>2. Run(h, first, n)
        BY <2>2, <3>1 DEF Run
      <3> QED
        BY <2>1, <3>2 DEF Bridge, ShortRuns
    <2> QED
      BY <2>1, <2>3, <2>4 DEF Bridge, a, b
  <1> QED
    BY <1>3, <1>4 DEF Supports

LEMMA SupportGrows ==
  ASSUME NEW h, NEW t \in Times, NEW reads \in Seq(Times), NEW from, NEW to,
         Supports(h, t, reads, from, to), h[t] = to,
         Bridge(h, reads[Len(reads)], t, from)
  PROVE  Supports(h, t, Append(reads, t), from, to)
  <1> DEFINE more == Append(reads, t)
  <1>1. /\ Len(reads) \in Nat /\ Len(reads) > 0
        /\ Len(more) = Len(reads) + 1
        /\ \A k \in 1..Len(reads) : more[k] = reads[k]
        /\ more[Len(reads) + 1] = t
        /\ t <= t
    BY ConsensusAssumption DEF Supports, Times
  <1> HIDE DEF more
  <1>2. ASSUME NEW k \in 1..Len(more) PROVE more[k] <= t /\ h[more[k]] = to
    <2>1. CASE k \in 1..Len(reads)
      BY <1>1, <2>1 DEF Supports
    <2>2. CASE k = Len(reads) + 1
      BY <1>1, <2>2
    <2> QED
      BY <1>1, <2>1, <2>2
  <1>3. ASSUME NEW k \in 1..(Len(more) - 1) PROVE Bridge(h, more[k], more[k + 1], from)
    <2>1. CASE k = Len(reads)
      BY <1>1, <2>1
    <2>2. CASE k # Len(reads)
      <3>1. k \in 1..(Len(reads) - 1) /\ k \in 1..Len(reads) /\ k + 1 \in 1..Len(reads)
        BY <1>1, <2>2
      <3> QED
        BY <1>1, <3>1 DEF Supports
    <2> QED
      BY <2>1, <2>2
  <1> QED
    BY <1>1, <1>2, <1>3 DEF Supports, more

(* What one more sample at t makes of the history. *)
LEMMA SampleFits ==
  ASSUME IInv, Fits, NEW t \in Times, t > now,
         \A u \in Times : u # t => shown'[u] = shown[u]
  PROVE  /\ \A u \in Times : u > t => shown'[u] = Unseen
         /\ \A i \in 1..Len(events) : ChangeFits(shown', t, events[i])
         /\ pending.score # NoScore =>
                /\ accepted \in Scores
                /\ Last(pending) \in Times /\ Last(pending) < t
                /\ pending.reads \in Seq(Times) /\ pending.reads # <<>>
                /\ Supports(shown', t, pending.reads, accepted, pending.score)
                /\ Quiet(shown', Last(pending), t, accepted)
                /\ ShortRuns(shown', Last(pending), t, pending.misses)
  <1>1. /\ LastTime \in Nat /\ Times = 0..LastTime
        /\ now \in Times \union {None} /\ now \in Int
        /\ pending.reads \in Seq(Times)
        /\ events \in Seq(Changes)
    BY ConsensusAssumption DEF IInv, TypeOK, Pendings, Times, None
  <1>2. \A u \in Times : u <= now => shown'[u] = shown[u]
    BY <1>1
  <1>3. \A u \in Times : u > now /\ u # t => shown'[u] = Unseen
    BY DEF Fits, HistoryFits
  <1>4. ASSUME NEW i \in 1..Len(events) PROVE ChangeFits(shown', t, events[i])
    <2>1. events[i] \in Changes
      BY <1>1
    <2>2. events[i].reads \in Seq(Times)
      BY <2>1 DEF Changes
    <2>3. ChangeFits(shown, now, events[i])
      BY DEF Fits, HistoryFits
    <2>4. now < t
      BY <1>1
    <2>5. now \in Times \union {None}
      BY <1>1
    <2>6. Supports(shown', t, events[i].reads, events[i].from, events[i].to)
      <3>1. Supports(shown, now, events[i].reads, events[i].from, events[i].to)
        BY <2>3 DEF ChangeFits
      <3> QED
        BY <1>2, <2>2, <2>4, <2>5, <3>1, SupportStays, Zenon
    <2> QED
      BY <2>3, <2>6 DEF ChangeFits
  <1>5. ASSUME pending.score # NoScore
        PROVE  /\ accepted \in Scores
               /\ Last(pending) \in Times /\ Last(pending) < t
               /\ pending.reads # <<>>
               /\ Supports(shown', t, pending.reads, accepted, pending.score)
               /\ Quiet(shown', Last(pending), t, accepted)
               /\ ShortRuns(shown', Last(pending), t, pending.misses)
    <2>1. /\ accepted \in Scores
          /\ Supports(shown, now, pending.reads, accepted, pending.score)
          /\ Quiet(shown, Last(pending), now + 1, accepted)
          /\ ShortRuns(shown, Last(pending), now + 1, pending.misses)
      BY <1>5 DEF Fits, HistoryFits, PendingFits
    <2>2. Last(pending) \in Times /\ Last(pending) <= now /\ pending.reads # <<>>
      <3>1. Len(pending.reads) \in 1..Len(pending.reads)
        BY <1>1, <2>1 DEF Supports
      <3> QED
        BY <1>1, <2>1, <3>1 DEF Supports, Last
    <2>3. Supports(shown', t, pending.reads, accepted, pending.score)
      BY <1>1, <1>2, <2>1, SupportStays
    <2>4. Quiet(shown', Last(pending), t, accepted)
      BY <1>1, <1>2, <1>3, <2>1 DEF Quiet
    <2>5. ShortRuns(shown', Last(pending), t, pending.misses)
      <3> SUFFICES ASSUME NEW first \in Times, NEW n \in Nat,
                          Last(pending) < first, first + n < t, Run(shown', first, n)
                   PROVE  n < pending.misses
        BY DEF ShortRuns
      <3>1. first + n \in Times /\ shown'[first + n] = Missed
        BY <1>1 DEF Run
      <3>2. first + n <= now
        BY <1>1, <1>3, <3>1 DEF Missed, Unseen
      <3>3. Run(shown, first, n)
        <4>1. \A u \in Times : u <= first + n => u <= now
          BY <1>1, <3>2
        <4> QED
          BY <1>2, <4>1 DEF Run
      <3>4. first + n < now + 1
        BY <1>1, <3>2
      <3> QED
        BY <2>1, <3>3, <3>4 DEF ShortRuns
    <2> QED
      BY <1>1, <2>1, <2>2, <2>3, <2>4, <2>5
  <1> QED
    BY <1>1, <1>3, <1>4, <1>5

(* A sample that is not a read of the pending score goes by. *)
LEMMA TailGrows ==
  ASSUME NEW h, NEW r \in Times, NEW t \in Times, r < t, NEW from,
         h[t] \in {Missed, Unseen} \/ Lower(h[t], from), NEW m \in Nat,
         Quiet(h, r, t, from), ShortRuns(h, r, t, m)
  PROVE  /\ Quiet(h, r, t + 1, from)
         /\ ShortRuns(h, r, t + 1, m + 1)
         /\ h[t] # Missed => ShortRuns(h, r, t + 1, m)
  <1>1. LastTime \in Nat /\ Times = 0..LastTime
    BY ConsensusAssumption DEF Times
  <1>2. Quiet(h, r, t + 1, from)
    <2>1. \A u \in Times : u < t + 1 => u < t \/ u = t
      BY <1>1
    <2> QED
      BY <2>1 DEF Quiet
  <1>3. ASSUME NEW first \in Times, NEW n \in Nat,
               r < first, first + n < t + 1, Run(h, first, n)
        PROVE  n < m + 1 /\ (h[t] # Missed => n < m)
    <2>1. CASE first + n < t
      BY <1>3, <2>1 DEF ShortRuns
    <2>2. CASE first + n = t
      <3>1. h[t] = Missed
        BY <1>1, <1>3, <2>2 DEF Run
      <3>2. CASE n = 0
        BY <3>1, <3>2
      <3>3. CASE n # 0
        <4>1. n - 1 \in Nat /\ first + (n - 1) < t
          BY <1>1, <2>2, <3>3
        <4>2. Run(h, first, n - 1)
          BY <1>1, <1>3 DEF Run
        <4>3. n - 1 < m
          BY <1>3, <4>1, <4>2 DEF ShortRuns
        <4> QED
          BY <3>1, <4>3
      <3> QED
        BY <3>2, <3>3
    <2> QED
      BY <1>1, <1>3, <2>1, <2>2
  <1> QED
    BY <1>2, <1>3 DEF ShortRuns

-----------------------------------------------------------------------------
(* Every sample keeps the history. *)

LEMMA MissingFits ==
  ASSUME IInv, Fits, NEW t \in Times, ObserveMissing(t)
  PROVE  FitsNext
  <1>1. /\ t > now /\ now' = t
        /\ shown \in [Times -> Scores \union {Missed, Unseen}]
        /\ shown' = [shown EXCEPT ![t] = Missed]
        /\ accepted' = accepted /\ events' = events
        /\ pending \in Pendings
    <2>1. /\ t \in (now + 1)..(now + MaxStep) /\ now' = t
          /\ shown' = [shown EXCEPT ![t] = Missed]
          /\ accepted' = accepted /\ events' = events
      BY DEF ObserveMissing, Sample
    <2> QED
      BY <2>1, ConsensusAssumption DEF IInv, TypeOK, Times, None
  <1>2. shown'[t] = Missed /\ \A u \in Times : u # t => shown'[u] = shown[u]
    BY <1>1
  <1>3. CASE pending'.score = NoScore
    BY <1>1, <1>2, <1>3, SampleFits DEF FitsNext, HistoryFits
  <1>4. CASE pending'.score # NoScore
    <2>1. /\ pending.score # NoScore
          /\ pending' = [pending EXCEPT !.misses = @ + 1, !.last = t]
      BY <1>1, <1>4 DEF ObserveMissing, AfterMiss, NoPending
    <2>2. /\ pending'.score = pending.score /\ pending'.reads = pending.reads
          /\ pending'.since = pending.since /\ pending'.misses = pending.misses + 1
          /\ pending.misses \in Nat
      BY <1>1, <2>1, ConsensusAssumption DEF Pendings
    <2>3. Last(pending') = Last(pending)
      BY <2>2 DEF Last
    <2>4. /\ Quiet(shown', Last(pending), t + 1, accepted)
          /\ ShortRuns(shown', Last(pending), t + 1, pending.misses + 1)
      BY <1>1, <1>2, <2>1, <2>2, SampleFits, TailGrows
    <2>5. PendingFits(shown', t, pending', accepted)
      BY <1>1, <1>2, <2>1, <2>2, <2>3, <2>4, SampleFits
      DEF Fits, HistoryFits, PendingFits
    <2> QED
      BY <1>1, <1>2, <2>5, SampleFits DEF FitsNext, HistoryFits
  <1> QED
    BY <1>3, <1>4

(* A reading that leaves the pending change alone. *)
LEMMA PassingFits ==
  ASSUME IInv, Fits, NEW t \in Times, t > now, now' = t,
         \A u \in Times : u # t => shown'[u] = shown[u],
         UNCHANGED <<accepted, pending, events>>,
         pending.score # NoScore =>
             /\ shown'[t] \in {Missed, Unseen} \/ Lower(shown'[t], accepted)
             /\ shown'[t] # Missed
  PROVE  FitsNext
  <1>1. CASE pending.score = NoScore
    BY <1>1, SampleFits DEF FitsNext, HistoryFits
  <1>2. CASE pending.score # NoScore
    <2>1. pending.misses \in Nat
      BY ConsensusAssumption DEF IInv, TypeOK, Pendings
    <2>2. /\ Quiet(shown', Last(pending), t + 1, accepted)
          /\ ShortRuns(shown', Last(pending), t + 1, pending.misses)
      BY <1>2, <2>1, SampleFits, TailGrows
    <2>3. PendingFits(shown', t, pending, accepted)
      BY <1>2, <2>2, SampleFits DEF Fits, HistoryFits, PendingFits
    <2> QED
      BY <2>3, SampleFits DEF FitsNext, HistoryFits
  <1> QED
    BY <1>1, <1>2

LEMMA ReversedFits ==
  ASSUME IInv, Fits, NEW t \in Times, ObserveReversed(t)
  PROVE  FitsNext
  <1>1. t > now /\ now' = t /\ shown' = shown
    BY ConsensusAssumption DEF ObserveReversed, Sample, IInv, TypeOK, Times, None
  <1>2. UNCHANGED <<accepted, pending, events>>
    BY DEF ObserveReversed, consensus
  <1>3. shown'[t] = Unseen
    BY <1>1 DEF Fits, HistoryFits
  <1> QED
    BY <1>1, <1>2, <1>3, PassingFits DEF Missed, Unseen

(* Nothing lies behind a read just taken. *)
LEMMA FreshTail ==
  ASSUME NEW h, NEW t \in Times, NEW from
  PROVE  Quiet(h, t, t + 1, from) /\ ShortRuns(h, t, t + 1, 0)
  <1>1. /\ \A u \in Times : ~(t < u /\ u < t + 1)
        /\ \A u \in Times, n \in Nat : ~(t < u /\ u + n < t + 1)
    BY ConsensusAssumption DEF Times
  <1> QED
    BY <1>1 DEF Quiet, ShortRuns

LEMMA ObserveFits ==
  ASSUME IInv, Fits, NEW t \in Times, NEW score \in Scores, NEW c \in Readable(t),
         Observe(t, score, c)
  PROVE  FitsNext
  <1>1. /\ t > now /\ now' = t
        /\ shown \in [Times -> Scores \union {Missed, Unseen}]
        /\ shown' = [shown EXCEPT ![t] = score]
        /\ pending \in Pendings /\ events \in Seq(Changes)
        /\ accepted \in Scores \union {NoScore}
    <2>1. /\ t \in (now + 1)..(now + MaxStep) /\ now' = t
          /\ shown' = [shown EXCEPT ![t] = score]
      BY DEF Observe, Sample
    <2> QED
      BY <2>1, ConsensusAssumption DEF IInv, TypeOK, Times, None
  <1>2. /\ shown'[t] = score /\ \A u \in Times : u # t => shown'[u] = shown[u]
        /\ score # Missed /\ score # NoScore /\ NoScore \notin Scores
    BY <1>1, ScoreType, ConsensusAssumption DEF Missed
  <1>3. /\ \A u \in Times : u > t => shown'[u] = Unseen
        /\ \A i \in 1..Len(events) : ChangeFits(shown', t, events[i])
    BY <1>1, <1>2, SampleFits
  <1>4. CASE accepted = NoScore
    <2>1. pending.score = NoScore
      BY <1>2, <1>4 DEF Fits, HistoryFits, PendingFits
    <2>2. pending' = pending /\ events' = events
      BY <1>2, <1>4 DEF Observe
    <2> QED
      BY <1>1, <1>3, <2>1, <2>2 DEF FitsNext, HistoryFits
  <1>5. CASE accepted = score
    <2>1. pending' = NoPending /\ events' = events
      BY <1>2, <1>5, ScoreType DEF Observe, Regression
    <2> QED
      BY <1>1, <1>3, <2>1 DEF FitsNext, HistoryFits, NoPending
  <1>6. CASE accepted # NoScore /\ accepted # score /\ Regression(score)
    <2>1. UNCHANGED <<accepted, pending, events>>
      BY <1>6 DEF Observe
    <2>2. Lower(shown'[t], accepted)
      BY <1>2, <1>6 DEF Regression
    <2> QED
      BY <1>1, <1>2, <2>1, <2>2, PassingFits
  <1>7. CASE accepted \notin {NoScore, score} /\ ~Regression(score) /\ ~Continues(score, t)
    <2>1. /\ pending' = [score |-> score, since |-> t, last |-> t,
                         reads |-> <<t>>, misses |-> 0]
          /\ accepted' = accepted /\ events' = events
      BY <1>7 DEF Observe
    <2>2. /\ pending'.score = score /\ pending'.since = t /\ pending'.reads = <<t>>
          /\ pending'.misses = 0 /\ Last(pending') = t
      BY <2>1 DEF Last
    <2>3. Supports(shown', t, <<t>>, accepted, score)
      BY <1>2, ConsensusAssumption DEF Supports, Times
    <2>4. PendingFits(shown', t, pending', accepted)
      <3>1. Quiet(shown', t, t + 1, accepted) /\ ShortRuns(shown', t, t + 1, 0)
        BY FreshTail
      <3>2. accepted \in Scores /\ pending'.since = pending'.reads[1]
        BY <1>1, <1>7, <2>2
      <3> QED
        BY <2>2, <2>3, <3>1, <3>2 DEF PendingFits
    <2> QED
      BY <1>1, <1>3, <2>1, <2>4 DEF FitsNext, HistoryFits
  <1>8. CASE accepted \notin {NoScore, score} /\ ~Regression(score) /\ Continues(score, t)
    <2> DEFINE more == Append(pending.reads, t)
    <2>1. pending.score = score /\ accepted \in Scores
      BY <1>1, <1>8 DEF Continues
    <2>2. /\ pending.reads \in Seq(Times) /\ pending.reads # <<>>
          /\ pending.misses \in 0..MaxMisses
      BY <1>1, <1>2, <2>1, SampleFits DEF Pendings
    <2>3. Bridge(shown', Last(pending), t, accepted)
      <3>1. /\ Last(pending) < t
            /\ Quiet(shown', Last(pending), t, accepted)
            /\ ShortRuns(shown', Last(pending), t, pending.misses)
        BY <1>1, <1>2, <2>1, SampleFits
      <3>2. \A n \in Nat : n < pending.misses => n < MaxMisses
        BY <2>2, ConsensusAssumption
      <3>3. ShortRuns(shown', Last(pending), t, MaxMisses)
        BY <3>1, <3>2 DEF ShortRuns
      <3> QED
        BY <3>1, <3>3 DEF Bridge
    <2>4. Supports(shown', t, pending.reads, accepted, score)
      BY <1>1, <1>2, <2>1, SampleFits
    <2>5. Supports(shown', t, more, accepted, score)
      BY <1>2, <2>2, <2>3, <2>4, SupportGrows DEF Last
    <2>6. /\ Len(more) = Len(pending.reads) + 1 /\ more[Len(more)] = t
          /\ more[1] = pending.reads[1]
          /\ more[1] = pending.since
      <3>1. pending.since = pending.reads[1]
        BY <1>2, <2>1 DEF Fits, HistoryFits, PendingFits
      <3> QED
        BY <2>2, <3>1
    <2> HIDE DEF more
    <2>7. CASE ~Stable(t)
      <3>1. pending' = Supported(t) /\ accepted' = accepted /\ events' = events
        BY <1>8, <2>7 DEF Observe
      <3>2. /\ pending'.score = score /\ pending'.since = pending.since
            /\ pending'.reads = more /\ pending'.misses = 0
        BY <1>1, <2>1, <3>1 DEF Supported, Pendings, more
      <3>3. Last(pending') = t
        BY <2>6, <3>2 DEF Last
      <3>4. PendingFits(shown', t, pending', accepted)
        BY <2>1, <2>5, <2>6, <3>2, <3>3, FreshTail DEF PendingFits
      <3> QED
        BY <1>1, <1>3, <3>1, <3>4 DEF FitsNext, HistoryFits
    <2>8. CASE Stable(t)
      <3> DEFINE e == [from |-> accepted, to |-> score, reads |-> more]
      <3>1. /\ pending' = NoPending
            /\ events' = Append(events, [from |-> accepted, to |-> score,
                                         reads |-> Supported(t).reads])
        BY <1>8, <2>8 DEF Observe
      <3>2. Supported(t).reads = more
        BY <1>1 DEF Supported, Pendings, more
      <3>3. e.from = accepted /\ e.to = score /\ e.reads = more
        OBVIOUS
      <3>4. events' = Append(events, e)
        BY <3>1, <3>2
      <3> HIDE DEF e
      <3>5. ChangeFits(shown', t, e)
        BY <2>5, <2>6, <2>8, <3>3 DEF ChangeFits, Stable
      <3>6. /\ Len(events') = Len(events) + 1 /\ Len(events) \in Nat
            /\ \A i \in 1..Len(events) : events'[i] = events[i]
            /\ events'[Len(events) + 1] = e
        BY <1>1, <3>4
      <3>7. \A i \in 1..Len(events') : ChangeFits(shown', t, events'[i])
        BY <1>3, <3>5, <3>6
      <3> QED
        BY <1>1, <1>3, <3>1, <3>7 DEF FitsNext, HistoryFits, NoPending
    <2> QED
      BY <2>7, <2>8
  <1> QED
    BY <1>1, <1>4, <1>5, <1>6, <1>7, <1>8

LEMMA EverySampleFits ==
  ASSUME IInv, Fits, [Next]_vars
  PROVE  Fits'
  <1>1. FitsNext
    <2>1. CASE Next
      BY <2>1, MissingFits, ReversedFits, ObserveFits DEF Next
    <2>2. CASE UNCHANGED vars
      BY <2>2 DEF Fits, FitsNext, vars, consensus
    <2> QED
      BY <2>1, <2>2
  <1> QED
    BY <1>1 DEF Fits, FitsNext, HistoryFits, ChangeFits, PendingFits, Supports, Bridge,
                Quiet, Run, ShortRuns, Last, Lower

LEMMA FitsIsSupport ==
  ASSUME TypeOK, Fits
  PROVE  ChangesAreSupported
  <1> SUFFICES ASSUME NEW i \in 1..Len(events)
               PROVE  LET e == events[i]
                          n == Len(e.reads) IN
                      /\ e.reads[n] - e.reads[1] >= StableFor
                      /\ \A k \in 1..n : shown[e.reads[k]] = e.to
                      /\ \A k \in 1..(n - 1) :
                             /\ e.reads[k] < e.reads[k + 1]
                             /\ \A s \in Between(e.reads[k], e.reads[k + 1]) :
                                    s \in {Missed, Unseen} \/ Lower(s, e.from)
                             /\ Tolerated(e.reads[k], e.reads[k + 1])
    <2>1. DOMAIN events = 1..Len(events)
      BY DEF TypeOK
    <2> QED
      BY <2>1 DEF ChangesAreSupported
  <1>a. LastTime \in Nat /\ Times = 0..LastTime
    BY ConsensusAssumption DEF Times
  <1>b. events[i].reads \in Seq(Times)
    <2>1. events[i] \in Changes
      BY DEF TypeOK
    <2> QED
      BY <2>1 DEF Changes
  <1> DEFINE e == events[i]
             n == Len(e.reads)
  <1>1. ChangeFits(shown, now, e)
    BY DEF Fits, HistoryFits
  <1>2. /\ e.reads[n] - e.reads[1] >= StableFor
        /\ \A k \in 1..n : shown[e.reads[k]] = e.to
        /\ \A k \in 1..(n - 1) : Bridge(shown, e.reads[k], e.reads[k + 1], e.from)
    BY <1>1 DEF ChangeFits, Supports
  <1> HIDE DEF n, e
  <1>3. ASSUME NEW k \in 1..(n - 1)
        PROVE  /\ e.reads[k] < e.reads[k + 1]
               /\ \A s \in Between(e.reads[k], e.reads[k + 1]) :
                      s \in {Missed, Unseen} \/ Lower(s, e.from)
               /\ Tolerated(e.reads[k], e.reads[k + 1])
    <2> DEFINE a == e.reads[k]
               b == e.reads[k + 1]
    <2>1. Bridge(shown, a, b, e.from) /\ a \in Times /\ b \in Times
      BY <1>2, <1>b DEF e, n
    <2> HIDE DEF a, b
    <2>2. \A u \in (a + 1)..(b - 1) : u \in Times /\ a < u /\ u < b
      BY <1>a, <2>1
    <2>3. \A s \in Between(a, b) : s \in {Missed, Unseen} \/ Lower(s, e.from)
      BY <2>1, <2>2 DEF Bridge, Quiet, Between
    <2>4. Tolerated(a, b)
      <3> SUFFICES ASSUME NEW first \in (a + 1)..(b - 1),
                          \A u \in first..(first + MaxMisses) : u < b /\ shown[u] = Missed
                   PROVE  FALSE
        BY DEF Tolerated
      <3>1. MaxMisses \in Nat /\ first \in Times /\ a < first
        BY <2>2, ConsensusAssumption
      <3>2. first + MaxMisses < b /\ Run(shown, first, MaxMisses)
        BY <1>a, <3>1 DEF Run
      <3>3. MaxMisses < MaxMisses
        BY <2>1, <3>1, <3>2 DEF Bridge, ShortRuns
      <3> QED
        BY <3>1, <3>3
    <2> QED
      BY <2>1, <2>3, <2>4 DEF Bridge, a, b
  <1> QED
    BY <1>2, <1>3 DEF e, n

-----------------------------------------------------------------------------
-----------------------------------------------------------------------------
(* What a score that stays on the screen comes to. *)

(* Score s was read at f, and from then on nothing but s, with at most MaxMisses
   samples missed in a row. *)
Held(h, upto, s, f) ==
    /\ f <= upto
    /\ h[f] = s
    /\ \A u \in Times : f < u /\ u <= upto => h[u] \in {s, Missed}
    /\ \A first \in Times :
           f < first /\ first + MaxMisses <= upto => ~Run(h, first, MaxMisses)

(* The pending change p is to s, began no later than f and misses no read of it:
   what it counts as missed are the last samples. *)
Nearing(h, upto, s, f, p) ==
    /\ p.score = s
    /\ p.since <= f
    /\ p.last = upto
    /\ f <= upto - p.misses
    /\ \A u \in Times : upto - p.misses < u /\ u <= upto => h[u] = Missed
    /\ h[upto] = s => upto - p.since < StableFor

(* A score that is held is accepted, lower than the accepted one, or near. *)
Heard(h, upto, acc, p) ==
    \A s \in Scores, f \in Times :
        Held(h, upto, s, f) => acc = s \/ Lower(s, acc) \/ Nearing(h, upto, s, f, p)

(* A score held until a sample that is not its first was held until the one
   before, and no time passed unsampled. *)
LEMMA HeldBefore ==
  ASSUME IInv, Fits, NEW t \in Times, t > now,
         \A u \in Times : u # t => shown'[u] = shown[u],
         NEW s \in Scores, NEW f \in Times, f < t, Held(shown', t, s, f)
  PROVE  now \in Times /\ t = now + 1 /\ Held(shown, now, s, f)
  <1>1. /\ LastTime \in Nat /\ Times = 0..LastTime /\ now \in Times \union {-1}
        /\ MaxMisses \in Nat
    BY ConsensusAssumption DEF Times, None, IInv, TypeOK
  <1>2. \A u \in Times : u > now => shown[u] = Unseen
    BY DEF Fits, HistoryFits
  <1>3. s # Unseen /\ Unseen # Missed
    BY ScoreType, ConsensusAssumption DEF Unseen, Missed
  <1>4. shown[f] = s
    BY <1>1 DEF Held
  <1>5. f <= now /\ now \in Times
    BY <1>1, <1>2, <1>3, <1>4
  <1>6. t = now + 1
    <2>1. SUFFICES ASSUME t > now + 1 PROVE FALSE
      BY <1>1, <1>5
    <2>2. now + 1 \in Times /\ f < now + 1 /\ now + 1 <= t /\ now + 1 # t
      BY <1>1, <1>5, <2>1
    <2>3. shown'[now + 1] \in {s, Missed} /\ shown'[now + 1] = shown[now + 1]
      BY <2>2 DEF Held
    <2> QED
      BY <1>1, <1>2, <1>3, <1>5, <2>2, <2>3
  <1>7. \A u \in Times : u <= now => shown'[u] = shown[u] /\ u <= t
    BY <1>1, <1>5, <1>6
  <1>8. \A u \in Times : f < u /\ u <= now => shown[u] \in {s, Missed}
    BY <1>7 DEF Held
  <1>9. ASSUME NEW first \in Times, f < first, first + MaxMisses <= now
        PROVE  ~Run(shown, first, MaxMisses)
    <2>1. ~Run(shown', first, MaxMisses)
      BY <1>1, <1>5, <1>6, <1>9 DEF Held
    <2>2. PICK u \in Times : first <= u /\ u <= first + MaxMisses /\ shown'[u] # Missed
      BY <2>1 DEF Run
    <2>3. u <= now
      BY <1>1, <1>5, <1>9, <2>2
    <2> QED
      BY <1>7, <2>2, <2>3 DEF Run
  <1> QED
    BY <1>4, <1>5, <1>6, <1>8, <1>9 DEF Held

LEMMA MissingHeard ==
  ASSUME IInv, Fits, Heard(shown, now, accepted, pending),
         NEW t \in Times, ObserveMissing(t)
  PROVE  Heard(shown', t, accepted', pending')
  <1>1. /\ t > now /\ accepted' = accepted
        /\ shown'[t] = Missed /\ \A u \in Times : u # t => shown'[u] = shown[u]
    <2>1. /\ t \in (now + 1)..(now + MaxStep) /\ accepted' = accepted
          /\ shown' = [shown EXCEPT ![t] = Missed]
      BY DEF ObserveMissing, Sample
    <2> QED
      BY <2>1, ConsensusAssumption DEF IInv, TypeOK, Times, None
  <1>2. /\ LastTime \in Nat /\ Times = 0..LastTime /\ MaxMisses \in Nat
        /\ pending \in Pendings /\ pending.misses \in 0..MaxMisses
    BY ConsensusAssumption DEF Times, IInv, TypeOK, Pendings
  <1>3. SUFFICES ASSUME NEW s \in Scores, NEW f \in Times, Held(shown', t, s, f),
                        accepted # s, ~Lower(s, accepted)
                 PROVE  Nearing(shown', t, s, f, pending')
    BY <1>1 DEF Heard
  <1>4. s # Missed /\ s # NoScore
    BY ScoreType, ConsensusAssumption DEF Missed
  <1>5. f < t
    BY <1>1, <1>2, <1>3, <1>4 DEF Held
  <1>6. now \in Times /\ t = now + 1 /\ Held(shown, now, s, f)
    BY <1>1, <1>3, <1>5, HeldBefore
  <1>7. Nearing(shown, now, s, f, pending)
    BY <1>3, <1>6 DEF Heard
  <1>8. pending.score = s /\ pending' = AfterMiss(t)
    BY <1>4, <1>7 DEF ObserveMissing, Nearing
  <1>9. \A u \in Times : now - pending.misses < u /\ u <= t => shown'[u] = Missed
    BY <1>1, <1>2, <1>6, <1>7 DEF Nearing
  <1>10. f <= now - pending.misses
    BY <1>7 DEF Nearing
  <1>11. pending.misses + 1 <= MaxMisses
    <2>1. SUFFICES ASSUME pending.misses = MaxMisses PROVE FALSE
      BY <1>2
    <2>2. /\ t - MaxMisses \in Times /\ f < t - MaxMisses
          /\ (t - MaxMisses) + MaxMisses <= t
      BY <1>2, <1>6, <1>10, <2>1
    <2>3. Run(shown', t - MaxMisses, MaxMisses)
      BY <1>2, <1>6, <1>9, <2>1 DEF Run
    <2> QED
      BY <1>3, <2>2, <2>3 DEF Held
  <1>12. /\ pending'.score = s /\ pending'.since = pending.since /\ pending'.last = t
         /\ pending'.misses = pending.misses + 1
    BY <1>2, <1>8, <1>11 DEF AfterMiss, Pendings
  <1>13. pending.since <= f
    BY <1>7 DEF Nearing
  <1>14. t - pending'.misses = now - pending.misses
    BY <1>2, <1>6, <1>12
  <1> QED
    BY <1>1, <1>4, <1>9, <1>10, <1>12, <1>13, <1>14 DEF Nearing

LEMMA ReversedHeard ==
  ASSUME IInv, Fits, NEW t \in Times, ObserveReversed(t)
  PROVE  Heard(shown', t, accepted', pending')
  <1>1. shown'[t] = Unseen
    <2>1. t > now /\ shown' = shown
      BY ConsensusAssumption DEF ObserveReversed, Sample, IInv, TypeOK, Times, None
    <2> QED
      BY <2>1 DEF Fits, HistoryFits
  <1>2. ASSUME NEW s \in Scores, NEW f \in Times, Held(shown', t, s, f)
        PROVE  FALSE
    <2>1. s # Unseen /\ Missed # Unseen
      BY ScoreType, ConsensusAssumption DEF Unseen, Missed
    <2>2. f <= t /\ shown'[f] = s /\ (f < t => shown'[t] \in {s, Missed})
      BY <1>2, ConsensusAssumption DEF Held, Times
    <2> QED
      BY <1>1, <2>1, <2>2, ConsensusAssumption DEF Times
  <1> QED
    BY <1>2 DEF Heard

LEMMA ObserveHeard ==
  ASSUME MaxPendingGap > 0, IInv, Fits, Heard(shown, now, accepted, pending),
         NEW t \in Times, NEW score \in Scores, NEW c \in Readable(t),
         Observe(t, score, c)
  PROVE  Heard(shown', t, accepted', pending')
  <1>1. /\ t > now /\ accepted \in Scores \union {NoScore} /\ pending \in Pendings
        /\ shown'[t] = score /\ \A u \in Times : u # t => shown'[u] = shown[u]
    <2>1. /\ t \in (now + 1)..(now + MaxStep)
          /\ shown' = [shown EXCEPT ![t] = score]
      BY DEF Observe, Sample
    <2> QED
      BY <2>1, ConsensusAssumption DEF IInv, TypeOK, Times, None
  <1>2. /\ LastTime \in Nat /\ Times = 0..LastTime /\ StableFor \in Nat \ {0}
        /\ MaxPendingGap \in Nat
    BY ConsensusAssumption DEF Times
  <1>3. SUFFICES ASSUME NEW s \in Scores, NEW f \in Times, Held(shown', t, s, f),
                        accepted' # s, ~Lower(s, accepted')
                 PROVE  Nearing(shown', t, s, f, pending')
    BY DEF Heard
  <1>4. s = score /\ f <= t
    <2>1. f <= t /\ shown'[f] = s /\ (f < t => shown'[t] \in {s, Missed})
      BY <1>2, <1>3 DEF Held
    <2>2. score # Missed
      BY ScoreType, ConsensusAssumption DEF Missed
    <2> QED
      BY <1>1, <1>2, <2>1, <2>2
  <1>5. /\ accepted \notin {NoScore, score} /\ ~Regression(score)
        /\ accepted' = accepted
    BY <1>3, <1>4 DEF Observe, Regression
  <1>6. f < t => Nearing(shown, now, s, f, pending) /\ t = now + 1
    <2>1. ASSUME f < t PROVE t = now + 1 /\ Held(shown, now, s, f)
      BY <1>1, <1>3, <2>1, HeldBefore
    <2>2. ~Lower(s, accepted) /\ accepted # s
      BY <1>4, <1>5 DEF Regression
    <2> QED
      BY <2>1, <2>2 DEF Heard
  <1>7. CASE ~Continues(score, t)
    <2>1. f = t
      <3>1. SUFFICES ASSUME f < t PROVE FALSE
        BY <1>2, <1>4
      <3>2. t = now + 1 /\ pending.score = score /\ pending.last = now
        BY <1>4, <1>6, <3>1 DEF Nearing
      <3>3. t - pending.last <= MaxPendingGap
        <4>1. now \in Int
          BY <1>2 DEF IInv, TypeOK, None
        <4> QED
          BY <1>2, <3>2, <4>1
      <3> QED
        BY <1>7, <3>2, <3>3 DEF Continues
    <2>2. pending' = [score |-> score, since |-> t, last |-> t,
                      reads |-> <<t>>, misses |-> 0]
      BY <1>5, <1>7 DEF Observe
    <2>3. /\ pending'.score = score /\ pending'.since = t /\ pending'.last = t
          /\ pending'.misses = 0
      BY <2>2
    <2> QED
      BY <1>2, <1>4, <2>1, <2>3 DEF Nearing
  <1>8. CASE Continues(score, t)
    <2>1. ~Stable(t)
      BY <1>3, <1>4, <1>5, <1>8 DEF Observe
    <2>2. pending' = Supported(t)
      BY <1>5, <1>8, <2>1 DEF Observe
    <2>3. /\ pending'.score = score /\ pending'.since = pending.since
          /\ pending'.last = t /\ pending'.misses = 0
      BY <1>1, <1>8, <2>2 DEF Supported, Pendings, Continues
    <2>4. pending.since <= f
      <3>1. pending.score # NoScore
        BY <1>8, ScoreType DEF Continues
      <3>2. pending.since = pending.reads[1] /\ pending.reads[1] <= now
        <4>1. PendingFits(shown, now, pending, accepted)
          BY <3>1 DEF Fits, HistoryFits
        <4>2. Len(pending.reads) \in Nat
          BY <1>1 DEF Pendings
        <4> QED
          BY <4>1, <4>2 DEF PendingFits, Supports
      <3>3. pending.since \in Times \union {None} /\ now \in Times \union {None}
        BY <1>1 DEF Pendings, IInv, TypeOK
      <3> QED
        BY <1>1, <1>2, <1>4, <1>6, <3>2, <3>3 DEF Nearing, None
    <2>5. t - pending.since < StableFor
      BY <1>1, <1>2, <2>1 DEF Stable, Pendings, None
    <2> QED
      BY <1>2, <1>4, <2>3, <2>4, <2>5 DEF Nearing
  <1> QED
    BY <1>7, <1>8

LEMMA EverySampleHeard ==
  ASSUME MaxPendingGap > 0, IInv, Fits, Heard(shown, now, accepted, pending), [Next]_vars
  PROVE  Heard(shown', now', accepted', pending')
  <1>1. CASE Next
    <2>1. PICK t \in Times :
              \/ ObserveMissing(t)
              \/ ObserveReversed(t)
              \/ \E score \in Scores, c \in Readable(t) : Observe(t, score, c)
      BY <1>1 DEF Next
    <2>2. now' = t
      BY <2>1 DEF ObserveMissing, ObserveReversed, Observe, Sample
    <2> QED
      BY <2>1, <2>2, MissingHeard, ReversedHeard, ObserveHeard
  <1>2. CASE UNCHANGED vars
    BY <1>2 DEF vars, consensus
  <1> QED
    BY <1>1, <1>2

LEMMA HeardIsAccepted ==
  ASSUME TypeOK, Heard(shown, now, accepted, pending)
  PROVE  StableIsAccepted
  <1>1. SUFFICES ASSUME NEW s \in Scores, NEW f \in Times, now # None,
                        f + StableFor <= now, OnScreen(s, f, now),
                        accepted # s, ~Lower(s, accepted)
                 PROVE  FALSE
    BY DEF StableIsAccepted, Regression
  <1>2. /\ LastTime \in Nat /\ Times = 0..LastTime /\ MaxMisses \in Nat
        /\ StableFor \in Nat \ {0} /\ now \in Times
        /\ pending.since \in Times \union {-1}
    BY <1>1, ConsensusAssumption DEF Times, None, TypeOK, Pendings
  <1>3. /\ shown[f] = s /\ shown[now] = s /\ Tolerated(f, now)
        /\ \A u \in (f + 1)..(now - 1) : shown[u] \in {s, Missed}
    BY <1>1 DEF OnScreen, Between
  <1>4. \A u \in Times : f < u /\ u <= now => shown[u] \in {s, Missed}
    BY <1>2, <1>3
  <1>5. ASSUME NEW first \in Times, f < first, first + MaxMisses <= now,
               Run(shown, first, MaxMisses)
        PROVE  FALSE
    <2>1. \A u \in first..(first + MaxMisses) : shown[u] = Missed
      BY <1>2, <1>5 DEF Run
    <2>2. s # Missed
      BY ScoreType, ConsensusAssumption DEF Missed
    <2>3. first + MaxMisses < now
      BY <1>2, <1>3, <1>5, <2>1, <2>2
    <2>4. /\ first \in (f + 1)..(now - 1)
          /\ \A u \in first..(first + MaxMisses) : u < now /\ shown[u] = Missed
      BY <1>2, <1>5, <2>1, <2>3
    <2> QED
      BY <1>3, <2>4 DEF Tolerated
  <1>6. Held(shown, now, s, f)
    BY <1>1, <1>2, <1>3, <1>4, <1>5 DEF Held
  <1>7. Nearing(shown, now, s, f, pending)
    BY <1>1, <1>6 DEF Heard
  <1>8. pending.since <= f /\ now - pending.since < StableFor
    BY <1>3, <1>7 DEF Nearing
  <1> QED
    BY <1>1, <1>2, <1>8

-----------------------------------------------------------------------------
LEMMA InitFits == Init => IInv
  <1> SUFFICES ASSUME Init PROVE IInv
    OBVIOUS
  <1>1. TypeOK
    BY NoPendingType DEF Init, TypeOK
  <1> QED
    BY <1>1 DEF IInv, Init, PublishedFits, ChangesChain

(* What ScoreboardConsensus published is the score it accepted, at a clock not
   ahead of its own, and the changes it emitted lead up to that score. *)
THEOREM ConsensusInductive == Spec => []IInv
  BY InitFits, EveryStep, PTL DEF Spec

(* Every variable of ScoreboardConsensus keeps its type; a pending change never
   counts more misses than it may survive. *)
THEOREM ConsensusTypeCorrect == Spec => []TypeOK
  <1>1. IInv => TypeOK
    BY DEF IInv
  <1> QED
    BY <1>1, ConsensusInductive, PTL

(* Each change that ScoreboardConsensus.observe emits goes up from where the one
   before ended, and the last one ends at the accepted score: none is emitted
   twice and none is missing. *)
THEOREM ConsensusChangesChain == Spec => []ChangesChain
  <1>1. IInv => ChangesChain
    BY DEF IInv
  <1> QED
    BY <1>1, ConsensusInductive, PTL

(* Neither the published score nor the period, nor the clock within a period,
   ever goes back, whatever is misread (ScoreboardConsensus.observe). *)
THEOREM ConsensusNeverBack == Spec => NeverBack
  <1>1. IInv /\ [Next]_vars
            => [published # NoObservation =>
                  /\ ~Lower(published'.score, published.score)
                  /\ \/ published'.period > published.period
                     \/ /\ published'.period = published.period
                        /\ published'.clock >= published.clock]_vars
    BY EveryStep DEF Forward
  <1> QED
    BY <1>1, ConsensusInductive, PTL DEF Spec, NeverBack
(* Every change that was emitted, and the one pending, has the reads behind it
   that ScoreboardConsensus.observe counts on. *)
THEOREM ConsensusHistory == Spec => []Fits
  <1>1. Init => Fits
    BY DEF Init, Fits, HistoryFits, NoPending, None, Times
  <1> QED
    BY <1>1, EverySampleFits, ConsensusInductive, PTL DEF Spec

(* Every score change that ScoreboardConsensus emits was read for stable_score_ms,
   nothing that was read in between spoke against it, and never more than
   max_consecutive_misses samples in a row were missed. *)
THEOREM ConsensusChangesAreSupported == Spec => []ChangesAreSupported
  <1>1. IInv /\ Fits => ChangesAreSupported
    BY FitsIsSupport DEF IInv
  <1> QED
    BY <1>1, ConsensusInductive, ConsensusHistory, PTL

(* A higher score that stays on the screen for stable_score_ms is accepted at the
   next sample that reads it, whatever was missed or pending before, if samples are
   no further apart than max_pending_gap_ms (ScoreboardConsensus.observe and
   observe_missing; DECISIONS.md:121). *)
THEOREM ConsensusStableIsAccepted ==
  ASSUME MaxPendingGap > 0
  PROVE  Spec => []StableIsAccepted
  <1> DEFINE Near == Heard(shown, now, accepted, pending)
  <1>1. Init => Near
    BY ConsensusAssumption DEF Init, Heard, Held, None, Times
  <1>2. IInv /\ Fits /\ Near /\ [Next]_vars => Near'
    BY EverySampleHeard
  <1>3. IInv /\ Near => StableIsAccepted
    BY HeardIsAccepted DEF IInv
  <1> QED
    BY <1>1, <1>2, <1>3, ConsensusInductive, ConsensusHistory, PTL DEF Spec
=============================================================================
