-------------------------- MODULE MCRecordingSession --------------------------
(* RecordingSession on small instances.                                      *)
EXTENDS RecordingSession

CONSTANTS u1, u2

MCUrl == {u1, u2}
PairingPolicies == {"latest", "latest-and-first", "requested"}
LatestOnly == {"latest"}
NothingBlocked == {{}}
SometimesBlocked == {{}, {u2}}
=============================================================================
