---------------------------- MODULE ModelMessages ----------------------------
(***************************************************************************)
(* What the model is sent of a conversation: toModelMessagesEffect of the  *)
(* patched engine (session/message-v2.ts), for a model that may take media *)
(* in a tool's result or may not.                                          *)
(*                                                                         *)
(* A conversation grows part by part, a tool call changes its state, and   *)
(* what would be sent is an operator of it.  A part is its kind; texts and *)
(* metadata are left out.                                                  *)
(***************************************************************************)
EXTENDS Integers, FiniteSetsExt, SequencesExt

CONSTANTS
    MaxTurns,  \* bound: messages
    MaxKinds   \* bound: parts of all messages

VARIABLES
    conversation,  \* messages with their parts, oldest first
    asked          \* the model: whether it takes media in results, whether media is stripped

messageVars == <<conversation, asked>>

UserKinds == {"text", "ignored", "plainFile", "media", "compaction"}
Calls == {"running", "done", "doneMedia", "cleared", "failed", "interrupted"}
AssistantKinds == {"text", "blank", "step", "signed", "reasoning"} \cup Calls

MessageStarts == [native : BOOLEAN, strip : BOOLEAN]
MessageBegins(starts) ==
    /\ conversation = <<>>
    /\ asked \in starts

MessageInit == MessageBegins(MessageStarts)

-----------------------------------------------------------------------------
\* One part of a message, as the sequence of what it becomes.

Item(kind, of) == [kind |-> kind, of |-> of]

UserPart(part, k) ==
    CASE part \in {"text", "compaction"}  -> <<Item("text", k)>>
      [] part = "media" /\ asked.strip    -> <<Item("text", k)>>
      [] part = "media"                   -> <<Item("media", k)>>
      [] OTHER                            -> <<>>  \* ignored text; plain files were made texts

\* Media of a result that is sent in the result itself, and media that is not.
WithResult(part) == part = "doneMedia" /\ ~asked.strip /\ asked.native
Extracted(part) == part = "doneMedia" /\ ~asked.strip /\ ~asked.native

\* Mutant: media stays in the result when it is sent apart.
ToolPartKeepingMedia(part, k) ==
    <<Item("call", k)>>
        \o <<Item(IF part \in {"running", "failed"} THEN "error" ELSE "output", k)>>
        \o (IF part = "doneMedia" /\ ~asked.strip THEN <<Item("media", k)>> ELSE <<>>)

ToolPart(part, k) ==
    <<Item("call", k)>>
        \o <<Item(IF part \in {"running", "failed"} THEN "error" ELSE "output", k)>>
        \o (IF WithResult(part) THEN <<Item("media", k)>> ELSE <<>>)

\* Another model is sent the text of a reasoning, without its signature.
ReasoningPart(m, part, k) ==
    CASE m.sameModel         -> <<Item(part, k)>>
      [] part = "reasoning"  -> <<Item("text", k)>>
      [] OTHER               -> <<>>

\* An empty text between signed reasonings is kept as a separator.
AssistantPart(m, k) ==
    LET part == m.parts[k]
    IN  CASE part = "text"                    -> <<Item("text", k)>>
          [] part = "blank"                   -> <<Item(IF "signed" \in Range(m.parts) THEN "separator" ELSE "empty", k)>>
          [] part = "step"                    -> <<Item("step", k)>>
          [] part \in {"signed", "reasoning"} -> ReasoningPart(m, part, k)
          [] OTHER                            -> ToolPart(part, k)

\* A failed message is not sent, unless it was cut short after it had said or done something.
Skipped(m) ==
    /\ m.error # "none"
    /\ ~(m.error = "aborted" /\ Range(m.parts) \ {"step", "signed", "reasoning"} # {})

\* The message itself, and the media its model cannot take in results after it.
Sent(m) ==
    LET parts == FlattenSeq([k \in DOMAIN m.parts |->
                    IF m.role = "user" THEN UserPart(m.parts[k], k) ELSE AssistantPart(m, k)])
        media == SelectSeq([k \in DOMAIN m.parts |-> Item("media", k)],
                           LAMBDA item : Extracted(m.parts[item.of]))
    IN  CASE m.role = "assistant" /\ Skipped(m) -> <<>>
          [] parts = <<>>                       -> <<>>
          [] m.role = "user" \/ media = <<>>    -> <<[role |-> m.role, parts |-> parts]>>
          [] OTHER -> <<[role |-> "assistant", parts |-> parts],
                        [role |-> "user", parts |-> <<Item("text", 0)>> \o media]>>

OnlySteps(message) == \A item \in Range(message.parts) : item.kind = "step"

ToModelMessages(messages) ==
    SelectSeq(FlattenSeq([n \in DOMAIN messages |-> Sent(messages[n])]), LAMBDA sent : ~OnlySteps(sent))

-----------------------------------------------------------------------------
\* The conversation.

Kinds == FoldSeq(LAMBDA m, sum : Len(m.parts) + sum, 0, conversation)
Changing(m) == conversation' = [conversation EXCEPT ![Len(conversation)] = m] /\ UNCHANGED asked

NewMessage(role, sameModel) ==
    /\ Len(conversation) < MaxTurns
    /\ conversation' = Append(conversation,
                         [role |-> role, sameModel |-> sameModel, error |-> "none", parts |-> <<>>])
    /\ UNCHANGED asked

AddPart(part) ==
    /\ conversation # <<>>
    /\ Kinds < MaxKinds
    /\ part \in IF Last(conversation).role = "user" THEN UserKinds
                ELSE AssistantKinds \ {"cleared", "failed", "interrupted", "doneMedia", "done"}
    /\ Changing([Last(conversation) EXCEPT !.parts = Append(@, part)])

\* A call ends, and the media of an old result is cleared.
CallEnds(k, part) ==
    /\ conversation # <<>>
    /\ Last(conversation).role = "assistant"
    /\ k \in DOMAIN Last(conversation).parts
    /\ \/ Last(conversation).parts[k] = "running" /\ part \in Calls \ {"running", "cleared"}
       \/ Last(conversation).parts[k] \in {"done", "doneMedia"} /\ part = "cleared"
    /\ Changing([Last(conversation) EXCEPT !.parts[k] = part])

Fails(error) ==
    /\ conversation # <<>>
    /\ Last(conversation).role = "assistant"
    /\ Last(conversation).error = "none"
    /\ Changing([Last(conversation) EXCEPT !.error = error])

MessageNext ==
    \/ \E role \in {"user", "assistant"}, sameModel \in BOOLEAN : NewMessage(role, sameModel)
    \/ \E part \in UserKinds \cup AssistantKinds : AddPart(part)
    \/ \E k \in 1..MaxKinds, part \in Calls : CallEnds(k, part)
    \/ \E error \in {"aborted", "other"} : Fails(error)

MessageSpec == MessageInit /\ [][MessageNext]_messageVars

-----------------------------------------------------------------------------
\* Property.

\* What the model is sent of a message stands for all of it, whatever the model takes: all of
\* it or nothing but its reasoning is missing; every call is there once with its result after
\* it; media of a result that was not cleared or stripped is there once, in the result or in
\* the message after; and what separates signed reasoning is not empty.
SentStandsForAll ==
    \A n \in DOMAIN conversation :
        LET m == conversation[n]
            sent == ToModelMessages(<<m>>)
            items == FlattenSeq([i \in DOMAIN sent |-> sent[i].parts])
            Times(kind, k) == Cardinality({i \in DOMAIN items : items[i] = Item(kind, k)})
        IN  \/ /\ sent = <<>>
               /\ m.error # "other" => Range(m.parts) \cap (Calls \cup {"text", "compaction", "media"}) = {}
            \/ /\ m.role = "assistant" => m.error # "other"
               /\ \A k \in DOMAIN m.parts :
                    /\ m.parts[k] \in Calls =>
                           /\ Times("call", k) = 1
                           /\ Times("output", k) + Times("error", k) = 1
                    /\ m.parts[k] \in {"doneMedia", "media"} /\ ~asked.strip => Times("media", k) = 1
                    /\ m.parts[k] = "blank" /\ "signed" \in Range(m.parts) => Times("separator", k) = 1
===============================================================================
