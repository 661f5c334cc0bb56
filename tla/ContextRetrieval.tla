--------------------------- MODULE ContextRetrieval ---------------------------
(***************************************************************************)
(* ContextRetriever of src/codebase-index/retriever.ts: the files of the   *)
(* index are scored for a request, ranked, and packed into a budget of     *)
(* tokens; a file that does not fit is cut to a slice.  The index may be   *)
(* older than the disk: a file it knows may be gone.                       *)
(*                                                                         *)
(* A line is its length and the tokens of the request it holds; what the   *)
(* path, the symbols and the exports of a file match is one number.        *)
(* Scores are in thousandths.                                              *)
(***************************************************************************)
EXTENDS Integers, FiniteSetsExt, SequencesExt

CONSTANTS
    Files,          \* files, numbered in the order of the index
    Shapes,         \* what a file may be: [named, lines, recent]
    ImportGraphs,   \* the import relations
    RequestTokens,  \* extractTokens of the request
    CharsPerToken,  \* CHARS_PER_TOKEN
    ReadLimit,      \* CANDIDATE_READ_LIMIT
    SeedLimit,      \* IMPORT_EXPANSION_SEEDS
    Window,         \* half of SLICE_WINDOW_LINES
    Around,         \* lines of evidence before and after the best line
    MinSlice,       \* the least a slice is cut to, in characters
    Budgets         \* values of maxTokens

VARIABLES
    codebase,   \* every file as it is on disk and in the index, and who imports whom
    readable,   \* files that still exist
    activeFile, \* options.activeFile, 0 for none
    retrieved   \* the last result: budget, ranking, files and evidence

retrievalVars == <<codebase, readable, activeFile, retrieved>>

NothingRetrieved == [budget |-> 0, ranked |-> <<>>, files |-> <<>>, used |-> 0, evidence |-> {}]

RetrievalStarts == [file : [Files -> Shapes], imports : ImportGraphs, active : Files \cup {0}]
RetrievalBegins(starts) ==
    /\ \E s \in starts :
           /\ codebase = [file |-> s.file, imports |-> s.imports]
           /\ activeFile = s.active
    /\ readable = Files
    /\ retrieved = NothingRetrieved

RetrievalInit == RetrievalBegins(RetrievalStarts)

-----------------------------------------------------------------------------
\* Scoring.

Lines(f) == codebase.file[f].lines
Hits(line) == Cardinality(line.tokens \cap RequestTokens)

\* Entries in the order of their score, as a stable sort leaves them.
ByScore(entries, score) ==
    LET order == SetToSortSeq(DOMAIN entries,
                     LAMBDA i, j : \/ score[entries[i]] > score[entries[j]]
                                   \/ score[entries[i]] = score[entries[j]] /\ i < j)
    IN  [k \in DOMAIN order |-> entries[order[k]]]

\* Phase 1: what the names match; the active file is a candidate whatever it matches.
Named == [f \in Files |-> codebase.file[f].named]
Candidates ==
    ByScore(SetToSortSeq({f \in Files : Named[f] > 0 \/ f = activeFile}, LAMBDA f, g : f < g), Named)

\* Phase 2: the share of the tokens that the text of the first candidates holds.
TextScore(f) ==
    LET found == UNION {line.tokens : line \in Range(Lines(f))} \cap RequestTokens
    IN  (1000 * Cardinality(found)) \div Cardinality(RequestTokens)

Scored ==
    LET first == {Candidates[k] : k \in 1..Min({ReadLimit, Len(Candidates)})}
    IN  [entries |-> Candidates,
         score |-> [f \in Files |-> IF f \in first \cap readable THEN Named[f] + TextScore(f)
                                    ELSE Named[f]]]

\* Phase 3: what a seed imports, and what imports it, has at least three tenths of its score.
Neighbours(seed) ==
    SetToSeq({f \in Files : <<seed, f>> \in codebase.imports})
        \o SetToSeq({f \in Files : <<f, seed>> \in codebase.imports})

Expand(map, seed) ==
    LET boost == (3 * map.score[seed]) \div 10
    IN  FoldLeft(LAMBDA m, f :
                     IF boost <= m.score[f] THEN m
                     ELSE [entries |-> IF f \in Range(m.entries) THEN m.entries ELSE Append(m.entries, f),
                           score |-> [m.score EXCEPT ![f] = boost]],
                 map, Neighbours(seed))

Expanded ==
    LET seeds == ByScore(Scored.entries, Scored.score)
    IN  FoldLeft(Expand, Scored, SubSeq(seeds, 1, Min({SeedLimit, Len(seeds)})))

\* Phase 4: the active file counts twice, a recent edit half as much again.
Boosted(map) ==
    [f \in Files |->
        LET active == IF f = activeFile THEN 2 * map.score[f] ELSE map.score[f]
        IN  IF codebase.file[f].recent THEN (3 * active) \div 2 ELSE active]

\* Phase 5 begins: what has a score, in its order.
Ranked ==
    LET map == Expanded
        score == Boosted(map)
    IN  SelectSeq(ByScore(map.entries, score), LAMBDA f : score[f] > 0)

-----------------------------------------------------------------------------
\* Packing.

\* Characters of the lines first..last, with the line ends between them.
Length(f, first, last) ==
    SumFunctionOnSet([i \in DOMAIN Lines(f) |-> Lines(f)[i].size], first..last) + (last - first)

Tokens(chars) == (chars + CharsPerToken - 1) \div CharsPerToken

\* The first of the lines that hold most tokens.
BestLine(f) ==
    LET n == DOMAIN Lines(f)
        most == Max({Hits(Lines(f)[i]) : i \in n})
    IN  Min({i \in n : Hits(Lines(f)[i]) = most})

Whole(f) == [file |-> f, first |-> 1, last |-> Len(Lines(f))]

\* Mutant: the window is not shrunk.
WindowUnshrunk(f, maxChars) ==
    [file |-> f, first |-> Max({1, BestLine(f) - Window}),
     last |-> Min({Len(Lines(f)), BestLine(f) + Window})]

\* bestSlice: the window around the best line loses lines at its end until it fits; it has two
\* lines where there are two.
BestSlice(f, maxChars) ==
    LET n == Len(Lines(f))
        start == Max({1, BestLine(f) - Window})
        end == Min({n, BestLine(f) + Window})
        fits == {e \in start..end : e = start \/ Length(f, start, e) <= maxChars}
    IN  [file |-> f, first |-> start,
         last |-> IF Max(fits) = start THEN Min({n, start + 1}) ELSE Max(fits)]

\* buildRetrievedFile
RetrievedFile(f, remaining) ==
    LET maxChars == remaining * CharsPerToken
    IN  IF Length(f, 1, Len(Lines(f))) <= maxChars THEN Whole(f)
        ELSE BestSlice(f, Max({maxChars, MinSlice}))

\* One turn of the loop of phase 5; at the budget it breaks, a file that cannot be read is
\* passed over.
PackFile(budget, packed, f) ==
    IF packed.used >= budget \/ f \notin readable THEN packed
    ELSE LET file == RetrievedFile(f, budget - packed.used)
         IN  [files |-> Append(packed.files, file),
              used |-> packed.used + Tokens(Length(f, file.first, file.last))]

\* Mutant: a file that cannot be read uses the budget up.
PackedUntilUnreadable(ranked, budget) ==
    FoldLeft(LAMBDA packed, f : IF f \in readable THEN PackFile(budget, packed, f)
                                ELSE [packed EXCEPT !.used = budget],
             [files |-> <<>>, used |-> 0], ranked)

Packed(ranked, budget) ==
    FoldLeft(LAMBDA packed, f : PackFile(budget, packed, f), [files |-> <<>>, used |-> 0], ranked)

Result(budget, evidence) ==
    LET packed == Packed(Ranked, budget)
    IN  [budget |-> budget, ranked |-> Ranked, files |-> packed.files, used |-> packed.used,
         evidence |-> evidence]

\* retrieve, and findRelevantFiles with a budget of one token.
Retrieve(budget) ==
    /\ retrieved' = Result(budget, {})
    /\ UNCHANGED <<codebase, readable, activeFile>>

\* answerQuestion: of every file a few lines around its best one are evidence.
Snippet(f) ==
    {i \in DOMAIN Lines(f) : i \in BestLine(f) - Around .. BestLine(f) + Around}
AnswerQuestion(budget) ==
    LET files == {file.file : file \in Range(Packed(Ranked, budget).files)}
    IN  /\ activeFile = 0
        /\ retrieved' = Result(budget, {[file |-> f, lines |-> Snippet(f)] : f \in files})
        /\ UNCHANGED <<codebase, readable, activeFile>>

\* A file is deleted, and the index does not know yet.
Disappear(f) ==
    /\ retrieved = NothingRetrieved
    /\ f \in readable
    /\ readable' = readable \ {f}
    /\ UNCHANGED <<codebase, activeFile, retrieved>>

RetrievalNext ==
    \/ retrieved = NothingRetrieved /\ \E b \in Budgets : Retrieve(b) \/ AnswerQuestion(b)
    \/ \E f \in Files : Disappear(f)

RetrievalSpec == RetrievalInit /\ [][RetrievalNext]_retrievalVars

-----------------------------------------------------------------------------
(***************************************************************************)
(* Properties.                                                             *)
(***************************************************************************)

\* What may exceed the budget: a slice of the least size, or of two lines that are longer.
Excess(f) ==
    Max({MinSlice} \cup {Length(f, i, Min({i + 1, Len(Lines(f))})) : i \in DOMAIN Lines(f)})

\* The files that are retrieved are the best there are: the readable ones of the ranking, none
\* left out before the budget is used up; and the budget is exceeded by no more than the least slice or two long lines.
BestWithinBudget ==
    LET r == retrieved
        given == [k \in DOMAIN r.files |-> r.files[k].file]
        there == SelectSeq(r.ranked, LAMBDA f : f \in readable)
        full == SumFunction([k \in DOMAIN r.files |->
                    Tokens(Length(given[k], r.files[k].first, r.files[k].last))])
    IN  r # NothingRetrieved =>
        /\ IsPrefix(given, there)
        /\ given # there => full >= r.budget
        /\ full > r.budget => full - r.budget <= Tokens(Excess(Last(given)))

\* "for large-file slices", "lines around best matching region": a slice shows the line that
\* matches best.
SliceShowsTheMatch ==
    \A file \in Range(retrieved.files) : BestLine(file.file) \in file.first..file.last
===============================================================================
