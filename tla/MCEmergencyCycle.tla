-------------------------- MODULE MCEmergencyCycle --------------------------
EXTENDS EmergencyCycle

\* One cold point and one that is warm enough to stay off.
MCCurvePoints ==
    {[outdoor_c |-> 0, on_seconds |-> 2, off_seconds |-> 1],
     [outdoor_c |-> 2, on_seconds |-> 0, off_seconds |-> 2]}

MCOutdoor == {0, 1, 2}

\* Only the two ends of the curve: enough for the takt, and for its liveness.
MCColdOrWarm == {0, 2}
=============================================================================
