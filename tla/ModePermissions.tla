--------------------------- MODULE ModePermissions ---------------------------
(***************************************************************************)
(* The permission check of packages/agent-runtime/src/modes.ts: what a     *)
(* mode's profile and the session's grants decide for a tool.              *)
(***************************************************************************)
EXTENDS Integers

AgentModes == {"ask", "plan", "build", "debug", "review"}
RiskClasses == {"read", "write", "execute", "network", "billing"}
Decisions == {"allow", "ask", "deny"}

\* A grant of the session for a tool: none, or "always allow" / "always deny".
Grants == {"none", "allow", "deny"}

ReadTools == {"read_file", "list_files", "capix_search_codebase",
              "capix_find_references", "capix_get_orientation"}

\* The modes whose toolAllowlist is not null.
AllowlistModes == {"ask", "plan", "review"}

Allowlist(mode) == IF mode = "plan" THEN ReadTools \cup {"capix_plan"} ELSE ReadTools

\* riskPermissions of the five profiles.
RiskPermission(mode, risk) ==
    CASE risk = "read" -> "allow"
      [] risk = "network" -> "deny"
      [] mode \in AllowlistModes /\ risk \notin {"read", "network"} -> "deny"
      [] mode = "debug" /\ risk = "execute" -> "allow"
      [] OTHER -> "ask"

OutsideAllowlist(mode, tool) == mode \in AllowlistModes /\ tool \notin Allowlist(mode)

\* Mutant: a grant outranks the mode's allowlist.
GrantFirst(mode, tool, risk, grant) ==
    IF grant # "none" THEN grant
    ELSE IF OutsideAllowlist(mode, tool) THEN "deny"
    ELSE RiskPermission(mode, risk)

\* checkModePermission: the allowlist, then the grant, then the risk class.
CheckModePermission(mode, tool, risk, grant) ==
    IF OutsideAllowlist(mode, tool) THEN "deny"
    ELSE IF grant # "none" THEN grant
    ELSE RiskPermission(mode, risk)

\* The mode forbids the tool whatever the operator says.
Forbids(mode, tool, risk) ==
    OutsideAllowlist(mode, tool) \/ RiskPermission(mode, risk) = "deny"
==============================================================================
