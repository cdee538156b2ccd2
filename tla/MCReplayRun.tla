---------------------------- MODULE MCReplayRun ----------------------------
(* Short files: orders in a row, more updates than a batch takes, and bad  *)
(* endings.                                                                *)
EXTENDS ReplayRun

At(t, kind) == [time |-> t, kind |-> kind]

Orders    == << At(0, "intent"), At(0, "intent"), At(1, "intent") >>
Updates   == << At(0, "tob"), At(0, "tob"), At(1, "tob") >>
Backwards == << At(1, "status"), At(0, "quiet") >>
Broken    == << At(0, "quiet"), At(0, "bad") >>
Short     == << At(0, "short") >>

MCFiles == {Orders, Updates, Backwards, Broken, Short}
=============================================================================
