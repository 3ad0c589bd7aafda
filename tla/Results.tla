------------------------------ MODULE Results ------------------------------
(***************************************************************************)
(* The lists a run collects and what is saved of them: candidates appended *)
(* one by one (pipeline.py, runner.py), spots of the action model, and the *)
(* plan a match is cut by.  The functions that make the results are those  *)
(* of EventLists and ChunkPlan; the properties compare them with what      *)
(* their results mean, on every list and plan of a bounded size.           *)
(***************************************************************************)
EXTENDS EventLists, ChunkPlan

CONSTANTS
    Found,                  \* events without id
    MaxEvents,
    MergeWindow, FuseWindow, SemanticWindow, SpotWindow,
    Plans,                  \* durations, sizes, overlaps, rates
    Second,
    Features                \* lengths, sizes and margins of feature arrays

\* A second has more units of time than frames.  The margins of a window leave some of it
\* to write.
ASSUME ResultsAssumption ==
    /\ Found \subseteq [type: STRING, source: SUBSET STRING, start: Nat, end: Nat,
                        confidence: 0..100]
    /\ {MergeWindow, FuseWindow, SemanticWindow, SpotWindow} \subseteq Nat
    /\ Second \in Nat
    /\ Plans \subseteq [duration: Nat, size: Nat, overlap: Nat, fps: (Nat \ {0}) \X (Nat \ {0})]
    /\ \A p \in Plans: p.fps[1] <= p.fps[2] * Second
    /\ Features \subseteq [length: Nat, size: Nat, margin: Nat]
    /\ \A f \in Features: 2 * f.margin < f.size

VARIABLES
    events,                 \* collected, in the order they were found
    plan,                   \* of the match
    features                \* the array the action model reads

results == <<events, plan, features>>

NoPlan == [duration |-> 0, size |-> 1, overlap |-> 0, fps |-> <<1, 1>>]
NoFeatures == [length |-> 0, size |-> 0, margin |-> 0]

ResultsInit == events = <<>> /\ plan = NoPlan /\ features = NoFeatures

\* Every event brings evidence of its own.
Collect(e) ==
    /\ plan = NoPlan /\ features = NoFeatures
    /\ Len(events) < MaxEvents
    /\ events' = Append(events,
          [type |-> e.type, start |-> e.start, end |-> e.end, confidence |-> e.confidence,
           source |-> e.source, review |-> TRUE, evidence |-> {Len(events) + 1}])
    /\ UNCHANGED <<plan, features>>

\* FullMatchManifest.create
Create(p) ==
    /\ plan = NoPlan /\ events = <<>> /\ features = NoFeatures
    /\ 0 < p.duration /\ p.overlap < p.size
    /\ plan' = p
    /\ UNCHANGED <<events, features>>

Spot(f) ==
    /\ features = NoFeatures /\ events = <<>> /\ plan = NoPlan
    /\ features' = f
    /\ UNCHANGED <<events, plan>>

ResultsNext ==
    \/ \E e \in Found: Collect(e)
    \/ \E p \in Plans: Create(p)
    \/ \E f \in Features: Spot(f)

ResultsSpec == ResultsInit /\ [][ResultsNext]_results
-----------------------------------------------------------------------------
(* Properties *)

Chain(list, type, from, to, window) ==
    \A t \in from..(to - window - 1): \E n \in DOMAIN list:
        list[n].type = type /\ list[n].start \in (t + 1)..(t + window)

\* No two of the results are twins, nothing is made up, and what is left out was as
\* sure as no twin of a kept event, or of one that such a twin led to: replacing an
\* event moves its place, so that a chain of twins ends in its surest member.
Thins(list, kept, window) ==
    /\ ToSet(kept) \subseteq ToSet(list)
    /\ \A i, j \in DOMAIN kept:
          i < j => /\ kept[i].start <= kept[j].start
                   /\ kept[i].type = kept[j].type => kept[j].start - kept[i].start > window
    /\ \A e \in ToSet(list) \ ToSet(kept): \E k \in ToSet(kept):
          /\ k.type = e.type
          /\ k.confidence >= e.confidence
          /\ Chain(list, e.type, Min({e.start, k.start}), Max({e.start, k.start}), window)

OfOneType(type) == Only(events, {e \in ToSet(events): e.type = type})
Types == {e.type: e \in ToSet(events)}

\* What is saved after duplicates are merged, a chunk's events and then those of the match,
\* keeps the surest of every chain of duplicates; merging again changes nothing.
\* The spots of one class are thinned the same way, and where they are suppressed
\* every spot lost has a surer one in its own window.
DuplicatesMerge ==
    /\ LET kept == Deduplicated(events, MergeWindow) IN
          Thins(events, kept, MergeWindow) /\ ToSet(Deduplicated(kept, MergeWindow)) = ToSet(kept)
    /\ \A type \in Types: LET spots == OfOneType(type)
                             kept == Suppressed(spots, SpotWindow) IN
          /\ Thins(spots, Thinned(spots, SpotWindow), SpotWindow)
          /\ Thins(spots, kept, SpotWindow)
          /\ \A s \in ToSet(spots): \E k \in ToSet(kept):
                k.confidence >= s.confidence /\ Apart(k.start, s.start) <= SpotWindow

Members(f) == {e \in ToSet(events): e.evidence \subseteq f.evidence}

\* no moment between two starts is farther than the window from an event
Linked(type, from, to, window) ==
    \A t \in from..(to - 1): \E n \in DOMAIN events:
        events[n].type = type /\ events[n].start <= t /\ t < events[n].end + window

FusionIsIndependent ==
    LET fused == Fused(events, FuseWindow) IN
    /\ \A n \in DOMAIN fused: LET in == Members(fused[n]) IN
          /\ in # {}
          /\ fused[n].evidence = UNION {e.evidence: e \in in}
          /\ \A e \in in: e.type = fused[n].type /\ e.confidence <= fused[n].confidence
          /\ \A d, e \in in: d # e => d.source \intersect e.source = {}
    /\ \A e \in ToSet(events): \E n \in DOMAIN fused: \E d \in Members(fused[n]):
          /\ d = e \/ (d.source \intersect e.source # {} /\ d.confidence >= e.confidence)
          /\ d.type = e.type
          /\ Linked(e.type, Min({d.start, e.start}), Max({d.start, e.start}), FuseWindow)
    /\ \A i, j \in DOMAIN fused:
          i < j => /\ fused[i].evidence \intersect fused[j].evidence = {}
                   /\ fused[i].type = fused[j].type =>
                         \/ fused[j].start - fused[i].end > FuseWindow
                         \/ \E e \in ToSet(events): /\ e.type # fused[i].type
                                                    /\ fused[i].start <= e.start
                                                    /\ e.start <= fused[j].start

GoalsAreConfirmed ==
    LET result == FusedSemantic(events, SemanticWindow)
        Near(goal) == {e \in ToSet(events): /\ IsScoreChange(e)
                                            /\ Apart(e.start, goal.start) <= SemanticWindow} IN
    /\ Len(result) = Len(events)
    /\ \A e \in ToSet(events): \E r \in ToSet(result):
          IF IsGoal(e)
          THEN /\ r.type = e.type /\ r.confidence >= e.confidence
               /\ r.review <=> Near(e) = {}
               /\ \/ r.review /\ r = e
                  \/ \E d \in Near(e): r.evidence = e.evidence \union d.evidence
          ELSE r = e

\* A fused event rests on independent events: none of its sources counts twice, however
\* many candidates the source made, and a candidate that is left out is near, no surer than,
\* and from a source of, one that is in.  Events of one type stay two only when they are far
\* apart or another type's event started between them.  A goal needs no review only when
\* a score change near it was read, whose evidence it takes over; no event is lost or
\* told twice on the way.
FusionIsSound == FusionIsIndependent /\ GoalsAreConfirmed

Planned == Windows(plan.duration, plan.size, plan.overlap)
WrittenIn(n) == Written(Planned[n], plan.fps, Second)
FirstFrame(time) == FrameAt(time, plan.fps, Second)

\* The chunks put every moment of the match out once and every frame at most once, in order;
\* between two chunks the one frame whose number is rounded down to the border is
\* in neither.  Features are read the same way: every one of an array longer
\* than the window is written by a window that shows it with its margin.
WindowsTile ==
    /\ plan # NoPlan =>
          /\ Planned[1].output = 0 /\ Planned[Len(Planned)].end = plan.duration
          /\ \A n \in DOMAIN Planned:
                /\ Planned[n].context <= Planned[n].output /\ Planned[n].output < Planned[n].end
                /\ Planned[n].end - Planned[n].context <= plan.size
                /\ n > 1 => Planned[n].output = Planned[n - 1].end
          /\ \A m, n \in DOMAIN Planned:
                m < n => \A f \in WrittenIn(m), g \in WrittenIn(n): f < g
          /\ \A f \in 0..(FirstFrame(plan.duration) - 1):
                \/ \E n \in DOMAIN Planned: f \in WrittenIn(n)
                \/ \E n \in 1..(Len(Planned) - 1):
                      /\ f = FirstFrame(Planned[n].end)
                      /\ f * Second * plan.fps[2] < Planned[n].end * plan.fps[1]
    /\ features.length > features.size =>
          \A f \in 0..(features.length - 1):
             LET windows == SpotWindows(features.length, features.size, features.margin) IN
             \E n \in DOMAIN windows:
                /\ f \in WrittenBy(windows[n], features.length, features.size, features.margin)
                /\ f \in windows[n].start..(windows[n].start + features.size - 1)
                /\ f - windows[n].start >= features.margin \/ n = 1
=============================================================================
