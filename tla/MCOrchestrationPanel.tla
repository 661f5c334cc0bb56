------------------------- MODULE MCOrchestrationPanel -------------------------
(***************************************************************************)
(* Small instances of the engine with its panel, for TLC.  The panel keeps *)
(* its copies by pipeline, so pipelines stay interchangeable.              *)
(***************************************************************************)
EXTENDS MCOrchestration, OrchestrationPanel
==============================================================================
