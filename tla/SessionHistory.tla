---------------------------- MODULE SessionHistory ----------------------------
(***************************************************************************)
(* The history of a session in the patched engine: messages, fork and the  *)
(* pages they are read in (session/session.ts), and what of a history the  *)
(* model is shown once some of it was summarised (filterCompacted and      *)
(* latest of session/message-v2.ts).                                       *)
(*                                                                         *)
(* A message is its id, its kind, the user message it answers and, for a   *)
(* request to compact, the first message to keep beside the summary.  Ids  *)
(* ascend with the times messages are made at, and clones keep the order   *)
(* of both, so that a history is a sequence.  Its parts, the children of   *)
(* sessions and their removal are left out.                                *)
(***************************************************************************)
EXTENDS Integers, FiniteSetsExt, SequencesExt

CONSTANTS
    PageSize,     \* messages read in one query
    MaxMessages,  \* bound: messages added
    MaxForks      \* bound: forks

VARIABLES
    histories,  \* the messages of every session, oldest first
    forks,      \* every fork() call: what it has read and the ids of its clones
    lastId      \* MessageID.ascending

historyVars == <<histories, forks, lastId>>

NoMessage == 0
Newest == MaxMessages * (MaxForks + 1) + 1  \* newer than every message

HistoryInit ==
    /\ histories = <<<<>>>>
    /\ forks = <<>>
    /\ lastId = 0

-----------------------------------------------------------------------------
\* filterCompacted and latest.

Position(h, id) == CHOOSE k \in DOMAIN h : h[k].id = id
Has(h, id) == \E m \in Range(h) : m.id = id
IsUser(m) == m.kind \in {"prompt", "compaction"}
Complete(m) == m.kind = "summary" /\ m.finish /\ ~m.error

\* Positions of the requests to compact that were answered in full.
Compacted(h) == {k \in DOMAIN h : h[k].kind = "compaction" /\
                                  \E m \in Range(h) : Complete(m) /\ m.parent = h[k].id}

\* From the newest of them on, or from the message its tail starts at.
Recent(h) ==
    LET request == h[Max(Compacted(h))]
        start == CASE request.tail = NoMessage  -> Max(Compacted(h))
                   [] Has(h, request.tail)      -> Position(h, request.tail)
                   [] OTHER                     -> 1
    IN  IF Compacted(h) = {} THEN h ELSE SubSeq(h, start, Len(h))

\* The newest request with a tail and the first summary of it go before the tail.
FilterCompacted(history) ==
    LET h == Recent(history)
        requests == {k \in DOMAIN h : h[k].kind = "compaction" /\ h[k].tail # NoMessage}
        c == Max(requests)
        summaries == {k \in DOMAIN h : k > c /\ h[k].kind = "summary" /\ h[k].parent = h[c].id}
        s == Min(summaries)
        t == Position(h, h[c].tail)
    IN  IF requests # {} /\ summaries # {} /\ Has(h, h[c].tail) /\ t < c
        THEN SubSeq(h, c, s) \o SubSeq(h, t, c - 1) \o SubSeq(h, s + 1, Len(h))
        ELSE h

LatestUser(msgs) == Max({NoMessage} \cup {m.id : m \in {n \in Range(msgs) : IsUser(n)}})
\* Mutant: the finished answer is the last one of the array.
LastFinished(msgs) ==
    LET finished == {k \in DOMAIN msgs : ~IsUser(msgs[k]) /\ msgs[k].finish}
    IN  IF finished = {} THEN NoMessage ELSE msgs[Max(finished)].id

LatestFinished(msgs) ==
    Max({NoMessage} \cup {m.id : m \in {n \in Range(msgs) : ~IsUser(n) /\ n.finish}})

\* Requests newer than the latest finished answer: work that is not done yet.
Tasks(msgs) ==
    {m.id : m \in {n \in Range(msgs) : n.kind = "compaction" /\ n.id > LatestFinished(msgs)}}

-----------------------------------------------------------------------------
\* The turns of a session, which the prompt loop writes with updateMessage.

Copying(s) == \E f \in Range(forks) : f.into = s /\ f.at # "done"
Idle(s) == ~Copying(s) /\ \A m \in Range(histories[s]) : IsUser(m) \/ m.finish \/ m.error

Write(s, kind, parent, tail) ==
    /\ lastId < MaxMessages
    /\ lastId' = lastId + 1
    /\ histories' = [histories EXCEPT ![s] = Append(@,
                        [id |-> lastId + 1, kind |-> kind, parent |-> parent, tail |-> tail,
                         finish |-> FALSE, error |-> FALSE])]
    /\ UNCHANGED forks

Prompt(s) == ~Copying(s) /\ Write(s, "prompt", NoMessage, NoMessage)

Compact(s, tail) ==
    /\ Idle(s)
    /\ histories[s] # <<>>
    /\ Write(s, "compaction", NoMessage, tail)

Answer(s) ==
    LET shown == FilterCompacted(histories[s])
        tasks == Tasks(shown)
    IN  /\ Idle(s)
        /\ IF tasks # {} THEN \E c \in tasks : Write(s, "summary", c, NoMessage)
           ELSE LatestUser(shown) # NoMessage /\ Write(s, "answer", LatestUser(shown), NoMessage)

\* A message is complete, has failed, or both when it fails after its last step.
Answered(s, k, finish, error) ==
    /\ ~Idle(s) /\ ~Copying(s)
    /\ ~IsUser(histories[s][k])
    /\ ~(histories[s][k].finish \/ histories[s][k].error)
    /\ finish \/ error
    /\ histories' = [histories EXCEPT ![s][k].finish = finish, ![s][k].error = error]
    /\ UNCHANGED <<forks, lastId>>

\* A turn that is taken back is removed from its end.
RemoveMessage(s) ==
    /\ Idle(s)
    /\ histories[s] # <<>>
    /\ histories' = [histories EXCEPT ![s] = Front(@)]
    /\ UNCHANGED <<forks, lastId>>

-----------------------------------------------------------------------------
\* Forking.

\* The newest messages of a session before a cursor, and whether there are older ones.
Page(s, before) ==
    LET older == SelectSeq(histories[s], LAMBDA m : m.id < before)
    IN  [items |-> SubSeq(older, Max({1, Len(older) - PageSize + 1}), Len(older)),
         more |-> Len(older) > PageSize]

Fork(s, upTo) ==
    /\ Len(forks) < MaxForks
    /\ ~Copying(s)
    /\ histories' = Append(histories, <<>>)
    /\ forks' = Append(forks, [of |-> s, into |-> Len(histories) + 1, upTo |-> upTo, at |-> "reading",
                               before |-> Newest, read |-> <<>>, clones |-> <<>>])
    /\ UNCHANGED lastId

ReadPage(n) ==
    LET f == forks[n]
        page == Page(f.of, f.before)
    IN  /\ f.at = "reading"
        /\ forks' = [forks EXCEPT ![n].read = page.items \o @,
                         ![n].before = IF page.more THEN Head(page.items).id ELSE @,
                         ![n].at = IF page.more THEN "reading" ELSE "copying"]
        /\ UNCHANGED <<histories, lastId>>

\* idMap: the clone of a message that was copied.
CloneOf(f, id) ==
    IF \E k \in DOMAIN f.clones : f.read[k].id = id THEN f.clones[Position(f.read, id)] ELSE NoMessage

\* Mutant: the tail of a request is cloned as it stands.
CloneKeepingTail(f, m, id) ==
    [m EXCEPT !.id = id, !.parent = IF CloneOf(f, @) = NoMessage THEN @ ELSE CloneOf(f, @)]

\* A parent that was not copied stays the one of the original.
Clone(f, m, id) ==
    [m EXCEPT !.id = id,
              !.parent = IF CloneOf(f, @) = NoMessage THEN @ ELSE CloneOf(f, @),
              !.tail = CloneOf(f, @)]

Copy(n) ==
    LET f == forks[n]
        k == Len(f.clones) + 1
        over == k > Len(f.read) \/ f.read[k].id >= f.upTo
    IN  /\ f.at = "copying"
        /\ forks' = [forks EXCEPT ![n].at = IF over THEN "done" ELSE @,
                         ![n].clones = IF over THEN @ ELSE Append(@, lastId + 1)]
        /\ lastId' = IF over THEN lastId ELSE lastId + 1
        /\ histories' = IF over THEN histories
                        ELSE [histories EXCEPT ![f.into] = Append(@, Clone(f, f.read[k], lastId + 1))]

HistoryNext ==
    \/ \E s \in DOMAIN histories :
          \/ Prompt(s) \/ Answer(s) \/ RemoveMessage(s)
          \/ \E tail \in {NoMessage} \cup {m.id : m \in Range(FilterCompacted(histories[s]))} : Compact(s, tail)
          \/ \E k \in DOMAIN histories[s], finish, error \in BOOLEAN : Answered(s, k, finish, error)
          \/ \E upTo \in {Newest} \cup {m.id : m \in Range(histories[s])} : Fork(s, upTo)
    \/ \E n \in DOMAIN forks : ReadPage(n) \/ Copy(n)

HistorySpec == HistoryInit /\ [][HistoryNext]_historyVars

-----------------------------------------------------------------------------
(***************************************************************************)
(* Properties.                                                             *)
(***************************************************************************)

\* Nothing was taken back between two pages that the messages of a read refer to.
Whole(read) == \A m \in Range(read) : \A id \in {m.parent, m.tail} \ {NoMessage} : Has(read, id)

\* A fork shows the model the conversation its source would, cut where it was asked to:
\* as long and with the same messages at the same places, each answering the clone of what
\* the original answered, whatever was said while it was read and copied.
ForkShowsTheSame ==
    [][\A n \in DOMAIN forks :
          LET f == forks[n]
              shown == FilterCompacted(histories[f.into])
              original == FilterCompacted(SubSeq(f.read, 1, Len(f.clones)))
          IN  f.at = "copying" /\ forks'[n].at = "done" /\ Whole(f.read) =>
                  /\ Len(shown) = Len(original)
                  /\ \A k \in DOMAIN shown :
                        /\ shown[k].id = CloneOf(f, original[k].id)
                        /\ shown[k].parent = CloneOf(f, original[k].parent)]_historyVars

\* Wherever the tail of a summary puts the messages, what comes next is read off as from
\* the whole history: the newest user message, and the newest request to compact when no
\* finished answer is newer.  A request that was answered is never taken up again.
NextIsUnprocessed ==
    \A s \in DOMAIN histories :
        LET all == histories[s]
            shown == FilterCompacted(all)
            finished == {m.id : m \in {n \in Range(all) : ~IsUser(n) /\ n.finish}}
            requests == {m.id : m \in {n \in Range(all) : n.kind = "compaction"}}
            pending == {c \in requests : \A id \in finished : id < c}
        IN  /\ LatestUser(shown) = LatestUser(all)
            /\ Max({NoMessage} \cup Tasks(shown)) = Max({NoMessage} \cup pending)
===============================================================================
