------------------------------- MODULE MCPoller -------------------------------
EXTENDS Poller

\* Two devices whose counters are far enough apart to tell a false log.
MCFirstCounter == [d \in Devices |-> IF d = "old" THEN 0 ELSE 5]
=============================================================================
