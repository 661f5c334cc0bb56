----------------------------- MODULE UnifiedDiff -----------------------------
(***************************************************************************)
(* The line diff of agent-runtime/src/diff.ts: createUnifiedDiff writes    *)
(* the hunks that lead from one content to another, applyUnifiedDiff runs  *)
(* them over a source. A content is its sequence of lines; "" is a line    *)
(* too, but a file of one empty line is the empty file. Headers, prefixes  *)
(* and the newline at the end of a patch are written and parsed alike and  *)
(* left out; a patch is its sequence of hunks.                             *)
(***************************************************************************)
EXTENDS Integers, FiniteSets, SequencesExt

CONSTANTS
    Lines,         \* the lines that occur, "" among them
    MaxLines,      \* bound: lines of a content
    ContextLines,  \* CONTEXT_LINES, 3 in the code
    MaxOutput      \* bound: lines that applyUnifiedDiff puts out

VARIABLES
    edit,    \* what the patch was made from, and the source it is applied to
    patch,   \* the hunks that are left to apply
    cursor,  \* index of the source's next line
    output,  \* the lines of the result
    phase    \* "hunks", "tail", "done", or "failed": an Error was thrown

diffVars == <<edit, patch, cursor, output, phase>>

Contents == BoundedSeq(Lines, MaxLines) \ {<<"">>}

Equal(line) == [type |-> "equal", line |-> line]
Delete(line) == [type |-> "delete", line |-> line]
Insert(line) == [type |-> "insert", line |-> line]

-----------------------------------------------------------------------------
\* createUnifiedDiff.

\* lcsDiff: dp[i, j] is the length of a longest common subsequence of before from its
\* i-th line on and after from its j-th, and ops the walk along it.
LcsDiff(before, after) ==
    LET m == Len(before)
        n == Len(after)
        longer(x, y) == IF x >= y THEN x ELSE y
        dp[i \in 1..m + 1, j \in 1..n + 1] ==
            IF i > m \/ j > n THEN 0
            ELSE IF before[i] = after[j] THEN dp[i + 1, j + 1] + 1
            ELSE longer(dp[i + 1, j], dp[i, j + 1])
        ops[i \in 1..m + 1, j \in 1..n + 1] ==
            IF i > m /\ j > n THEN <<>>
            ELSE IF i > m THEN <<Insert(after[j])>> \o ops[i, j + 1]
            ELSE IF j > n THEN <<Delete(before[i])>> \o ops[i + 1, j]
            ELSE IF before[i] = after[j] THEN <<Equal(before[i])>> \o ops[i + 1, j + 1]
            ELSE IF dp[i + 1, j] >= dp[i, j + 1] THEN <<Delete(before[i])>> \o ops[i + 1, j]
            ELSE <<Insert(after[j])>> \o ops[i, j + 1]
    IN  ops[1, 1]

Changes(ops) == {k \in DOMAIN ops : ops[k].type # "equal"}

\* A change starts a hunk when more than twice the context is equal before it.
HunkStarts(ops) ==
    {k \in Changes(ops) : \A c \in Changes(ops) : c < k => k - c - 1 > 2 * ContextLines}

\* The last change of the hunk that k starts.
LastChange(ops, k) ==
    Max({c \in Changes(ops) : c >= k /\ \A s \in HunkStarts(ops) : s <= k \/ c < s})

\* Mutant: the lines before a hunk are counted in the new content.
HunkCountingNew(ops, k) ==
    LET first == IF k > ContextLines THEN k - ContextLines ELSE 1
        last == IF LastChange(ops, k) + ContextLines > Len(ops)
                THEN Len(ops) ELSE LastChange(ops, k) + ContextLines
    IN  [oldStart |-> 1 + Cardinality({o \in 1..first - 1 : ops[o].type # "delete"}),
         lines |-> SubSeq(ops, first, last)]

\* The hunk: its changes with context around them, and the number of its first line in
\* the old content.
Hunk(ops, k) ==
    LET first == IF k > ContextLines THEN k - ContextLines ELSE 1
        last == IF LastChange(ops, k) + ContextLines > Len(ops)
                THEN Len(ops) ELSE LastChange(ops, k) + ContextLines
    IN  [oldStart |-> 1 + Cardinality({o \in 1..first - 1 : ops[o].type # "insert"}),
         lines |-> SubSeq(ops, first, last)]

CreateUnifiedDiff(before, after) ==
    LET ops == LcsDiff(before, after)
        starts == SetToSortSeq(HunkStarts(ops), <)
    IN  IF before = after THEN <<>> ELSE [h \in DOMAIN starts |-> Hunk(ops, starts[h])]

-----------------------------------------------------------------------------
\* applyUnifiedDiff.

\* The source is what the patch was made from, or has the patch already.
DiffStarts == {s \in [before : Contents, after : Contents, source : Contents] :
                   s.source \in {s.before, s.after}}
DiffBegins(starts) ==
    /\ edit \in starts
    /\ patch = CreateUnifiedDiff(edit.before, edit.after)
    /\ cursor = 1
    /\ output = <<>>
    /\ phase = IF patch = <<>> THEN "failed" ELSE "hunks"

DiffInit == DiffBegins(DiffStarts)

Old(hunk) == SelectSeq(hunk.lines, LAMBDA op : op.type # "insert")
New(hunk) == SelectSeq(hunk.lines, LAMBDA op : op.type # "delete")
Texts(ops) == [k \in DOMAIN ops |-> ops[k].line]

\* The lines up to the hunk are copied; then the source has to be, line by line, what
\* the hunk keeps or deletes. Otherwise an error is thrown.
ApplyHunk ==
    /\ phase = "hunks"
    /\ patch # <<>>
    /\ LET hunk == Head(patch)
           end == hunk.oldStart + Len(Old(hunk))
           fits == /\ cursor <= hunk.oldStart
                   /\ end <= Len(edit.source) + 1
                   /\ SubSeq(edit.source, hunk.oldStart, end - 1) = Texts(Old(hunk))
       IN  IF fits
           THEN /\ output' = output \o SubSeq(edit.source, cursor, hunk.oldStart - 1) \o Texts(New(hunk))
                /\ cursor' = end
                /\ patch' = Tail(patch)
                /\ UNCHANGED phase
           ELSE phase' = "failed" /\ UNCHANGED <<patch, cursor, output>>
    /\ UNCHANGED edit

HunksDone ==
    /\ phase = "hunks"
    /\ patch = <<>>
    /\ phase' = "tail"
    /\ UNCHANGED <<edit, patch, cursor, output>>

\* while (cursor < source.length) out.push(source[cursor]): cursor stays where it is.
CopyTail ==
    /\ phase = "tail"
    /\ cursor <= Len(edit.source)
    /\ Len(output) < MaxOutput
    /\ output' = Append(output, edit.source[cursor])
    /\ UNCHANGED <<edit, patch, cursor, phase>>

Return ==
    /\ phase = "tail"
    /\ cursor > Len(edit.source)
    /\ phase' = "done"
    /\ UNCHANGED <<edit, patch, cursor, output>>

DiffNext == ApplyHunk \/ HunksDone \/ CopyTail \/ Return

DiffSpec == DiffInit /\ [][DiffNext]_diffVars /\ WF_diffVars(DiffNext)

-----------------------------------------------------------------------------
(***************************************************************************)
(* Properties.                                                             *)
(***************************************************************************)

AsFile(lines) == IF lines = <<"">> THEN <<>> ELSE lines

\* "round-trips multi-hunk diffs", and "a mismatched patch is a conflict, not a silent
\* corruption": a patch applied to what it was made from never conflicts, and gives
\* what it was made for; applied to another source, it conflicts or its result has the
\* length that the changes lead to.
PatchRoundTrips ==
    LET ops == LcsDiff(edit.before, edit.after)
        count(type) == Len(SelectSeq(ops, LAMBDA op : op.type = type))
    IN  /\ edit.source = edit.before /\ edit.before # edit.after => phase # "failed"
        /\ phase = "done" /\ edit.source = edit.before => AsFile(output) = edit.after
        /\ phase = "done" => Len(output) = Len(edit.source) + count("insert") - count("delete")

\* "applies a unified diff back onto the workspace": applyUnifiedDiff returns or throws.
PatchEnds == <>(phase \in {"done", "failed"})
===============================================================================
