--------------------------- MODULE MCHandlerPool ---------------------------
(* TLC instance of HandlerPool: a few threads, three jobs, a few ticks.    *)
EXTENDS HandlerPool

CONSTANTS j1, j2, j3

MCJobs == {j1, j2, j3}
=============================================================================
