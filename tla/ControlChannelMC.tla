-------------------------- MODULE ControlChannelMC --------------------------
EXTENDS ControlChannel, TLC

CONSTANTS r1, r2, s1, p1

TwoRuns == {r1, r2}
OneReader == {r2}
OneStop == {s1}
OneProbe == {p1}
Nobody == {}

=============================================================================
