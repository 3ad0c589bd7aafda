---------------------- MODULE MCScoreboardConsensus ----------------------
EXTENDS ScoreboardConsensus

OneAll == {<<0, 0>>, <<1, 0>>, <<1, 1>>}
=============================================================================
