------------------------ MODULE MCAttendanceCapture ------------------------
EXTENDS CaptureRefinement, TLC

CONSTANTS p1, p2, j1, j2, c1, c2

Inside == [far |-> FALSE, vague |-> FALSE]
Doubtful == [far |-> TRUE, vague |-> TRUE]
Outside == [far |-> TRUE, vague |-> FALSE]

MCReadings == {Inside, Doubtful}
MCAllReadings == {Inside, Doubtful, Outside}

\* Punches, jobs and calls are interchangeable.
CaptureSymmetry ==
    Permutations({p1, p2}) \cup Permutations({j1, j2}) \cup Permutations({c1, c2})
=============================================================================
