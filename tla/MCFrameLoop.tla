---------------------------- MODULE MCFrameLoop ----------------------------
(***************************************************************************)
(* The frame loop of a short match, and the lists and plans of Results.    *)
(* Nothing connects the two: each is checked while the other has not       *)
(* begun.                                                                  *)
(***************************************************************************)
EXTENDS FrameLoop, Results

Ball(x) == [class |-> "ball", pos |-> x]
Player(x) == [class |-> "player", pos |-> x]

\* nothing; a touch; the ball away from the player, and a second one; another player at
\* the ball, too far from the touch to have come from there; a ball nobody is near
MatchScenes == {
    <<>>,
    <<Ball(1), Player(0)>>,
    <<Player(0), Ball(5), Player(4)>>,
    <<Ball(3), Ball(1), Player(0)>>,
    <<Ball(6), Player(0)>>}

MatchReach == [ball |-> 4, player |-> 1, goalkeeper |-> 1, referee |-> 1]

\* frames at 0, 2, 3, 4 and 6; the border at 5 is rounded to the frame before it, at 4
MatchFps == <<2, 1>>

\* goals of two sources, one of them sure or not, a score change, and a heuristic
\* that both sources feed
Kinds == {
    [type |-> "goal_candidate", source |-> {"calf"}, confidence |-> 50, length |-> 0],
    [type |-> "goal_candidate", source |-> {"calf"}, confidence |-> 90, length |-> 1],
    [type |-> "goal_candidate", source |-> {"heuristic"}, confidence |-> 60, length |-> 0],
    [type |-> "goal_candidate", source |-> {"calf", "heuristic"}, confidence |-> 70, length |-> 0],
    [type |-> "score_change_candidate", source |-> {"ocr"}, confidence |-> 80, length |-> 1]}

SomeFound ==
    {[type |-> k.type, source |-> k.source, confidence |-> k.confidence,
      start |-> t, end |-> t + k.length]: k \in Kinds, t \in {0, 2, 3}}

SomePlans ==
    [duration: 1..30, size: {4, 7, 9}, overlap: 0..3,
     fps: {<<1, 1>>, <<5, 1>>, <<24, 5>>, <<11, 2>>}]

SomeFeatures == [length: 1..24, size: {6, 8}, margin: {1, 2}]

MCInit == Init /\ ResultsInit

MCNext ==
    \/ ResultsInit /\ Next /\ UNCHANGED results
    \/ Init /\ ResultsNext /\ UNCHANGED vars

MCSpec == MCInit /\ [][MCNext]_<<vars, results>>
=============================================================================
