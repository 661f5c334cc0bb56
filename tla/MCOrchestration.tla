--------------------------- MODULE MCOrchestration ---------------------------
(***************************************************************************)
(* Small instances of Orchestration for TLC.                               *)
(***************************************************************************)
EXTENDS Orchestration

\* Values of UnknownRoles that a cfg can name.
NoUnknownRole == {{}}
SecondStageUnknown == {{}, {2}}
BothOutcomes == {"completed", "failed"}
OnlyCompleted == {"completed"}
==============================================================================
