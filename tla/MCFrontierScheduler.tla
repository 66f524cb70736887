------------------------- MODULE MCFrontierScheduler -------------------------
(***************************************************************************)
(* Frontiers of up to three candidates, one of them out of rank order and  *)
(* one with a repeated rank, on one to three workers.                      *)
(***************************************************************************)
EXTENDS FrontierScheduler

MCThread == 1..3
MCRank == 1..3
MCInputs == {<<>>, <<2>>, <<2, 1>>, <<3, 1, 2>>, <<1, 2, 1>>}
MCJobs == {0, 1, 3}

=============================================================================
