------------------------ MODULE MCOptimizationStudy -------------------------
(***************************************************************************)
(* Two worker processes or none, studies of two and three trials that are  *)
(* continued once, a configuration that is edited once, and a window whose *)
(* end is reached while the study runs.                                    *)
(***************************************************************************)
EXTENDS OptimizationStudy

MCConfigs ==
  {[version |-> 1, workers |-> 2, nTrials |-> 3], [version |-> 2, workers |-> 1, nTrials |-> 1],
   [version |-> 2, workers |-> 2, nTrials |-> 2]}
MCWorkers == {0, 1}
MCScores == {1}
MCStarts == {-1, 0}
MCPenalty == 0
=============================================================================
