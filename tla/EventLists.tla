----------------------------- MODULE EventLists -----------------------------
(***************************************************************************)
(* events.py and action.py: what becomes of the lists of candidates.  An   *)
(* event is a record with its type, start, end and confidence at least;    *)
(* the events of one list belong to one job.  Confidences are hundredths.  *)
(***************************************************************************)
EXTENDS Integers, Sequences, SequencesExt, FiniteSetsExt

Apart(x, y) == IF x < y THEN y - x ELSE x - y

\* Python's sorted(list, key=...), which is stable: an element comes after all that are
\* before it, and after its equals that were.
RankOf(list, Before(_, _), i) ==
    Cardinality({j \in DOMAIN list: \/ Before(list[j], list[i])
                                   \/ (~Before(list[i], list[j]) /\ j <= i)})

SortedBy(list, Before(_, _)) ==
    [n \in DOMAIN list |-> list[CHOOSE i \in DOMAIN list: RankOf(list, Before, i) = n]]

\* [e for e in list if e in chosen]
Only(list, chosen) ==
    LET Step(found, e) == IF e \in chosen THEN Append(found, e) ELSE found
    IN  FoldLeft(Step, <<>>, list)

Earlier(d, e) == d.start < e.start
EarlierOrSurer(d, e) == Earlier(d, e) \/ (d.start = e.start /\ d.confidence > e.confidence)
Surer(d, e) == d.confidence > e.confidence

Twins(kept, e, window) ==
    {n \in DOMAIN kept: kept[n].type = e.type /\ Apart(kept[n].start, e.start) <= window}

\* Mutant: a later event takes the place of its twin, surer or not.
KeepLatest(kept, e, window) ==
    LET twins == Twins(kept, e, window) IN
    IF twins = {} THEN Append(kept, e) ELSE [kept EXCEPT ![Min(twins)] = e]

\* A surer event takes the place of its first twin.
KeepOrMerge(kept, e, window) ==
    LET twins == Twins(kept, e, window) IN
    IF twins = {} THEN Append(kept, e)
    ELSE IF e.confidence > kept[Min(twins)].confidence THEN [kept EXCEPT ![Min(twins)] = e]
    ELSE kept

Merged(list, window) ==
    LET Step(kept, e) == KeepOrMerge(kept, e, window)
    IN  FoldLeft(Step, <<>>, list)

Deduplicated(list, window) == SortedBy(Merged(SortedBy(list, EarlierOrSurer), window), Earlier)
-----------------------------------------------------------------------------
(* fuse_events, fuse_semantic_events *)

EndOf(group) == Max({group[n].end: n \in DOMAIN group})

\* Only the last group is looked at: an event of another type closes it.
JoinOrOpen(groups, e, window) ==
    LET last == groups[Len(groups)] IN
    IF groups # <<>> /\ last[1].type = e.type /\ e.start - EndOf(last) <= window
    THEN [groups EXCEPT ![Len(groups)] = Append(last, e)]
    ELSE Append(groups, <<e>>)

Groups(list, window) ==
    LET Step(groups, e) == JoinOrOpen(groups, e, window)
    IN  FoldLeft(Step, <<>>, list)

SourcesOf(group) == UNION {group[n].source: n \in DOMAIN group}

\* Mutant: a source confirms itself.
AddAny(kept, e) == Append(kept, e)

\* the surest event of each source
AddIndependent(kept, e) ==
    IF e.source \intersect SourcesOf(kept) # {} THEN kept ELSE Append(kept, e)

Independent(group) == FoldLeft(AddIndependent, <<>>, group)

\* 1 - (1 - c) * (1 - d), and so on, in hundredths
NoisyOr(c, d) == c + d - (c * d) \div 100

ConfidenceOf(group) ==
    LET Step(c, e) == NoisyOr(c, e.confidence)
    IN  FoldLeft(Step, 0, group)

Fuse(group) ==
    LET one == Independent(SortedBy(group, Surer)) IN
    [type |-> one[1].type,
     start |-> Min({one[n].start: n \in DOMAIN one}),
     end |-> EndOf(one),
     confidence |-> ConfidenceOf(one),
     source |-> SourcesOf(one),
     evidence |-> UNION {one[n].evidence: n \in DOMAIN one},
     review |-> \E n \in DOMAIN one: one[n].review]

Fused(list, window) ==
    LET groups == Groups(SortedBy(list, Earlier), window) IN
    [n \in DOMAIN groups |-> Fuse(groups[n])]

IsGoal(e) == e.type = "goal_candidate"
IsScoreChange(e) == e.type = "score_change_candidate"

ScoreChangesNear(list, goal, window) ==
    {e \in ToSet(list): IsScoreChange(e) /\ Apart(e.start, goal.start) <= window}

Supports(list, goal, window) ==
    Only(SortedBy(list, Earlier), ScoreChangesNear(list, goal, window))

\* the first score change in the window confirms the goal
Confirm(goal, e) ==
    [goal EXCEPT !.start = Min({goal.start, e.start}),
                 !.end = Max({goal.end, e.end}),
                 !.confidence = NoisyOr(goal.confidence, e.confidence),
                 !.source = goal.source \union e.source,
                 !.evidence = goal.evidence \union e.evidence,
                 !.review = FALSE]

FusedSemantic(list, window) ==
    LET isGoal == {e \in ToSet(list): IsGoal(e)}
        goals == SortedBy(Only(list, isGoal), Earlier)
        fused == [n \in DOMAIN goals |->
                    LET found == Supports(list, goals[n], window)
                    IN  IF found = <<>> THEN goals[n] ELSE Confirm(goals[n], found[1])]
    IN  SortedBy(fused \o Only(list, ToSet(list) \ isGoal), Earlier)
-----------------------------------------------------------------------------
(* action.py: what is left of the spots of one class *)

\* action_spots_from_features: the surest first, no other in its window
KeepAlone(kept, s, window) ==
    IF \E n \in DOMAIN kept: Apart(kept[n].start, s.start) <= window
    THEN kept ELSE Append(kept, s)

KeptAlone(spots, window) ==
    LET Step(kept, s) == KeepAlone(kept, s, window)
    IN  FoldLeft(Step, <<>>, spots)

Suppressed(spots, window) == SortedBy(KeptAlone(SortedBy(spots, Surer), window), Earlier)

\* _nms_spots: in the order of time, a surer one takes the place of the last
KeepOrReplace(kept, s, window) ==
    IF \A n \in DOMAIN kept: Apart(kept[n].start, s.start) > window THEN Append(kept, s)
    ELSE IF s.confidence > kept[Len(kept)].confidence THEN [kept EXCEPT ![Len(kept)] = s]
    ELSE kept

Replaced(spots, window) ==
    LET Step(kept, s) == KeepOrReplace(kept, s, window)
    IN  FoldLeft(Step, <<>>, spots)

Thinned(spots, window) == Replaced(SortedBy(spots, Earlier), window)

\* CalfActionSpotter.spot: the windows of features shown to the model, and
\* the frames each of them writes
SpotWindows(length, size, margin) ==
    LET from[start \in 0..length] ==
            LET next == start + size - 2 * margin
                last == next + size >= length
                at == IF last THEN length - size ELSE next
            IN  <<[start |-> start, last |-> FALSE]>>
                  \o (IF last THEN <<[start |-> at, last |-> TRUE]>> ELSE from[at])
    IN  from[0]

WrittenBy(w, length, size, margin) ==
    LET begin == IF w.start = 0 THEN 0 ELSE w.start + margin
        end == IF w.start # 0 /\ w.last THEN w.start + size ELSE w.start + size - margin
    IN  Max({0, Min({begin, length})})..(Min({end, length}) - 1)
=============================================================================
