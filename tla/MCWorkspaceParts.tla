--------------------------- MODULE MCWorkspaceParts ---------------------------
(***************************************************************************)
(* Small values for WorkspaceParts: triggers that overlap, files that fit  *)
(* and files that do not, documents that are fresh or stale.               *)
(***************************************************************************)
EXTENDS WorkspaceParts

MCTriggers == <<{"fix"}, {"fix", "test"}>>
MCKind == <<"fix", "test", "other", "test", "fix">>
MCLine(size, tokens) == [size |-> size, tokens |-> tokens]
MCShapes ==
    {[named |-> n, lines |-> l, recent |-> FALSE] :
        n \in {0, 400},
        l \in {<<MCLine(1, {1})>>,
               <<MCLine(2, {}), MCLine(2, {}), MCLine(3, {1, 2})>>,
               <<MCLine(9, {2}), MCLine(1, {})>>}}
    \cup {[named |-> 600, lines |-> <<MCLine(4, {1, 2})>>, recent |-> TRUE]}
MCImports == {{<<1, 2>>}, {<<1, 2>>, <<3, 2>>}}
MCDocumentKinds ==
    {[layer |-> "handoff", terms |-> 3, base |-> 2, stale |-> FALSE],
     [layer |-> "handoff", terms |-> 1, base |-> 5, stale |-> TRUE]}
===============================================================================
