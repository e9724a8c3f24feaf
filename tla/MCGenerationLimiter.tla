------------------------ MODULE MCGenerationLimiter ------------------------
(* Instances of GenerationLimiter for TLC.                                 *)
EXTENDS GenerationLimiter, TLC

CONSTANTS t1, t2, t3

\* A caller for each lane, again and again; one also comes to the ordinary lane.
MixedCalls ==
  {<<t1, "ordinary">>, <<t2, "immediate">>, <<t3, "collision">>, <<t3, "ordinary">>}
=============================================================================
