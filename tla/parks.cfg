CONSTANTS
    Workers = {w1, w2}
    Limit = 1
    Scenes <- MCScenes
SPECIFICATION SeriesSpec
CHECK_DEADLOCK FALSE
INVARIANTS RunsAlone NoneStranded SeriesLetsGo
PROPERTY EverythingEnds
