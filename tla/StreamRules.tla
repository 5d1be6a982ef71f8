---------------------------- MODULE StreamRules ----------------------------
(***************************************************************************)
(* One turn at a provider: what is asked of it, and what the stream of its *)
(* answer is taken for.  The Agent SDK and the two endpoints of OpenRouter *)
(* tell the same things in three dialects; domain/chat is to see one.      *)
(***************************************************************************)
EXTENDS Integers, Sequences, FiniteSets, SequencesExt

-----------------------------------------------------------------------------
(* turn.ts and errors.ts                                                   *)

\* normalizeFinishReason: null stays null, and what nobody knows is no "stop".  The
\* names below are in lower case, which it gives every name first.
NormalizeFinishReason(raw) ==
    CASE raw = "" -> ""
      [] raw \in {"end_turn", "stop", "stop_sequence", "completed"} -> "stop"
      [] raw \in {"max_tokens", "length", "max_output_tokens",
                 "model_context_window_exceeded"}            -> "length"
      [] raw \in {"content_filter", "refusal"}                    -> "filter"
      [] raw \in {"tool_use", "tool_calls", "function_call"}      -> "tool"
      [] OTHER -> "other"

\* The kinds a caller may try again.
Retryable == {"rate_limit", "server", "max_output"}
Failed(kind) == [kind |-> kind, retryable |-> kind \in Retryable]

\* classifyAssistantError.
ClassifyAssistantError(code) ==
    CASE code \in {"authentication_failed", "oauth_org_not_allowed"} -> "auth_failed"
      [] code = "billing_error"     -> "billing"
      [] code = "rate_limit"        -> "rate_limit"
      [] code = "invalid_request"   -> "invalid"
      [] code = "model_not_found"   -> "model_unavailable"
      [] code = "max_output_tokens" -> "max_output"
      [] code = "server_error"      -> "server"
      [] OTHER                      -> "unknown"

\* classifyResultSubtype.
ClassifyResultSubtype(subtype) ==
    CASE subtype = "error_during_execution" -> "server"
      [] subtype = "error_max_turns"        -> "aborted"
      [] subtype = "error_max_budget_usd"   -> "billing"
      [] OTHER                              -> "invalid"

\* mapOpenRouterError: a status if there is one, else what the error is called.
MapOpenRouterError(e) ==
    CASE e.status \in {401, 403}      -> "auth_failed"
      [] e.status = 402               -> "billing"
      [] e.status = 404               -> "model_unavailable"
      [] e.status = 429               -> "rate_limit"
      [] e.status \in {400, 413, 422} -> "invalid"
      [] e.status = 408 \/ e.status >= 500  -> "server"
      [] OTHER -> CASE e.says \in {"timeout", "connection", "overload"} -> "server"
                    [] e.says = "abort" -> "aborted"
                    [] OTHER -> "unknown"

-----------------------------------------------------------------------------
(* What a stream has come to: the reply, what was shown of it on the way,  *)
(* the last signal why it stopped, the usage, and how it failed if it did. *)

Fresh == [reply |-> <<>>, shown |-> <<>>, stop |-> "", usage |-> 0, failed |-> "", resets |-> 0,
          retry |-> "", limit |-> "", limitResets |-> 0, session |-> "", events |-> 0, ended |-> FALSE]

Emit(s) == [s EXCEPT !.events = @ + 1]
Fail(s, kind) == [s EXCEPT !.failed = kind]

\* Mutant: the cause is taken from the subtype, whatever the retries said.
GenericResult(s, m) == Fail(s, ClassifyResultSubtype(m.subtype))

\* consumeTurnStream, the "result" message of a failed turn: the specific cause that was
\* heard of before, else the subtype.
Specific(s) == IF s.limit = "rejected" \/ s.retry = "rate_limit" THEN "rate_limit" ELSE s.retry
FailedResult(s, m) ==
    LET kind == IF Specific(s) # "" THEN ClassifyAssistantError(Specific(s))
                ELSE ClassifyResultSubtype(m.subtype)
    IN  [Fail(s, kind) EXCEPT !.resets = IF kind = "rate_limit" THEN s.limitResets ELSE 0]

\* The usage of every model of the turn counts.
Total(usages) == FoldLeft(LAMBDA sum, u : sum + u, 0, usages)
Result(s, m) ==
    LET t == [s EXCEPT !.stop = IF m.stop = "" THEN @ ELSE m.stop, !.usage = @ + Total(m.usages),
                       !.ended = TRUE]
    IN  IF m.subtype # "success" THEN FailedResult(t, m) ELSE IF m.isError THEN Fail(t, "server") ELSE t

\* consumeTurnStream, message by message; what the iterator throws is a server error.
OnMessage(s, m) ==
    CASE m.k = "assistant" -> [s EXCEPT !.reply = @ \o m.texts, !.stop = IF m.stop = "" THEN @ ELSE m.stop]
      [] m.k = "stream_event"  -> [s EXCEPT !.shown = Append(@, m.text)]
      [] m.k = "init"          -> [s EXCEPT !.session = m.id]
      [] m.k = "api_retry"     -> Emit([s EXCEPT !.retry = m.error])
      [] m.k = "rate_limit_event" -> Emit([s EXCEPT !.limit = m.status, !.limitResets = m.resets])
      [] m.k \in {"compact_boundary", "status", "auth_status"} -> Emit(s)
      [] m.k = "result"        -> Result(s, m)
      [] m.k = "throws"        -> Fail(s, "server")
      [] OTHER                 -> s

\* runChatCompletionTurn, chunk by chunk: an error in the stream is an error of the turn.
OnChunk(s, c) ==
    CASE c.k \in {"error", "throws"} -> Fail(s, MapOpenRouterError(c))
      [] c.k = "delta"  -> IF c.text = "" THEN s ELSE [s EXCEPT !.reply = Append(@, c.text), !.shown = Append(@, c.text)]
      [] c.k = "sentinel" -> [s EXCEPT !.usage = c.usage, !.ended = TRUE, !.stop = c.stop]
      [] OTHER -> s

\* runRawTurn, event by event.  An "error" has no status; a "response.failed" may have one.
OnEvent(s, e) ==
    CASE e.k = "error"  -> Fail(s, MapOpenRouterError([e EXCEPT !.status = 0]))
      [] e.k \in {"response.failed", "throws"} -> Fail(s, MapOpenRouterError(e))
      [] e.k = "delta"  -> IF e.text = "" THEN s ELSE [s EXCEPT !.reply = Append(@, e.text), !.shown = Append(@, e.text)]
      [] e.k \in {"response.completed", "response.incomplete"} ->
            [s EXCEPT !.usage = e.usage, !.ended = TRUE, !.stop = IF e.reason # "" THEN e.reason ELSE e.stop]
      [] OTHER -> s

\* extractChatReply, extractResponsesReply: the reply is trimmed.
Trimmed(words) == LET kept == {i \in DOMAIN words : words[i] # " "}
                  IN  IF kept = {} THEN <<>> ELSE SubSeq(words, Min(kept), Max(kept))

\* ChatTurnResult, or a TurnError.
Turn(s) == IF s.failed # "" THEN [ok |-> FALSE, error |-> Failed(s.failed)]
           ELSE [ok |-> TRUE, reply |-> Trimmed(s.reply), finish |-> NormalizeFinishReason(s.stop),
                 usage |-> s.usage]

\* A failure ends the stream: what comes after it is not read.
ReadClaude(stream)     == FoldLeft(LAMBDA s, m : IF s.failed # "" THEN s ELSE OnMessage(s, m), Fresh, stream)
ReadChunks(stream)     == FoldLeft(LAMBDA s, c : IF s.failed # "" THEN s ELSE OnChunk(s, c), Fresh, stream)
ReadResponses(stream)  == FoldLeft(LAMBDA s, e : IF s.failed # "" THEN s ELSE OnEvent(s, e), Fresh, stream)

-----------------------------------------------------------------------------
(* What is asked                                                           *)

\* isThinkingOn, and what each runner makes of it: toSdkGeneration, toReasoningEffort.
IsThinkingOn(g) == g.thinking # "off" /\ (g.thinking = "adaptive" \/ g.budget \/ g.effort # "")
ToSdkGeneration(g) ==
    [thinking |-> IF ~IsThinkingOn(g) THEN "no" ELSE IF g.budget THEN "enabled" ELSE "adaptive",
     effort |-> IF IsThinkingOn(g) THEN g.effort ELSE "",
     disableThinking |-> ~IsThinkingOn(g),
     disableAutoCompact |-> g.compaction \in {"off", "managed"},
     autoCompactPct |-> IF g.compaction = "auto" THEN g.pct ELSE 0]
ToReasoningEffort(g) ==
    IF g.thinking = "off" THEN "none" ELSE IF ~IsThinkingOn(g) THEN ""
    ELSE IF g.effort = "max" THEN "xhigh" ELSE IF g.effort = "" THEN "high" ELSE g.effort

\* The conversation as it is sent: no blank message, and the Responses endpoint never
\* starts with the assistant.
Sent(history) == SelectSeq(history, LAMBDA m : m.text # " ")
BuildResponsesInput(history) ==
    LET items == Sent(history)
    IN  IF items # <<>> /\ items[1].role = "assistant" THEN <<[role |-> "user", text |-> "..."]>> \o items
        ELSE items

-----------------------------------------------------------------------------
(* What they owe.  A story is what happened at the model: the words of the *)
(* reply, how it ended, the tokens of each model, or what it failed of;    *)
(* "cut" is a stream that stops without saying so.                         *)

Causes == {"rate_limit", "auth_failed", "billing", "invalid", "model_unavailable", "server"}
SdkCode(cause) == CASE cause = "auth_failed" -> "authentication_failed" [] cause = "billing" -> "billing_error"
                    [] cause = "rate_limit" -> "rate_limit" [] cause = "invalid" -> "invalid_request"
                    [] cause = "model_unavailable" -> "model_not_found" [] OTHER -> "server_error"
Status(cause)  == CASE cause = "auth_failed" -> 401 [] cause = "billing" -> 402 [] cause = "rate_limit" -> 429
                    [] cause = "invalid" -> 422 [] cause = "model_unavailable" -> 404 [] OTHER -> 503
Dialect(stop) == CASE stop = "stop" -> <<"end_turn", "stop", "completed">>
                   [] stop = "length" -> <<"max_tokens", "length", "max_output_tokens">>
                   [] OTHER -> <<"refusal", "content_filter", "content_filter">>

\* The story as each provider streams it.
Words(story, Shape(_)) == [i \in DOMAIN story.words |-> Shape(story.words[i])]
InClaude(story) ==
    Words(story, LAMBDA w : [k |-> "stream_event", text |-> w])
    \o <<[k |-> "assistant", texts |-> story.words, stop |-> ""]>>
    \o CASE story.end = "cut" -> <<>>
         [] story.end \in Causes -> <<[k |-> "api_retry", error |-> SdkCode(story.end)],
                [k |-> "result", subtype |-> "error_during_execution", stop |-> "", isError |-> TRUE,
                 usages |-> <<>>]>>
         [] OTHER -> <<[k |-> "result", subtype |-> "success", stop |-> Dialect(story.end)[1],
                        isError |-> FALSE, usages |-> story.usages]>>
InChunks(story) ==
    Words(story, LAMBDA w : [k |-> "delta", text |-> w])
    \o CASE story.end = "cut" -> <<>>
         [] story.end \in Causes -> <<[k |-> "error", status |-> Status(story.end), says |-> ""]>>
         [] OTHER -> <<[k |-> "sentinel", usage |-> Total(story.usages), stop |-> Dialect(story.end)[2]]>>
InResponses(story) ==
    Words(story, LAMBDA w : [k |-> "delta", text |-> w])
    \o CASE story.end = "cut" -> <<>>
         [] story.end \in Causes -> <<[k |-> "response.failed", status |-> Status(story.end), says |-> ""]>>
         [] story.end = "stop" -> <<[k |-> "response.completed", usage |-> Total(story.usages),
                                     reason |-> "", stop |-> Dialect(story.end)[3]]>>
         [] OTHER -> <<[k |-> "response.incomplete", usage |-> Total(story.usages),
                        reason |-> Dialect(story.end)[3], stop |-> "incomplete"]>>

\* What is told besides the answer changes nothing, wherever it comes.
Asides(story) ==
    {[k |-> "init", id |-> "s"], [k |-> "status"], [k |-> "auth_status"], [k |-> "compact_boundary"],
     [k |-> "rate_limit_event", status |-> "allowed", resets |-> 1], [k |-> "reasoning"],
     [k |-> "delta", text |-> ""]}
    \cup IF story.end \in Causes THEN {} ELSE {[k |-> "api_retry", error |-> "server_error"]}

\* A turn that fails after its limit was rejected failed of that, and says when to return.
Throttled(story) ==
    LET limit == [k |-> "rate_limit_event", status |-> "rejected", resets |-> 7]
        read  == ReadClaude(<<limit>> \o InClaude(story))
    IN  Turn(read).error.kind = "rate_limit" /\ read.resets = 7

\* One contract: the story reads the same in the three dialects, asides or not: a failure
\* by its own name, else the words that were shown, why they ended and what they cost.  A
\* stream that is cut reads as a turn that ended for no reason at no cost.
OneContract(story) ==
    LET read == ReadClaude(InClaude(story))
        mine == Turn(read)
    IN  /\ Turn(ReadChunks(InChunks(story))) = mine
        /\ Turn(ReadResponses(InResponses(story))) = mine
        /\ \A aside \in Asides(story) :
              /\ \A i \in 1..(Len(InClaude(story)) + 1) : Turn(ReadClaude(InsertAt(InClaude(story), i, aside))) = mine
              /\ \A i \in 1..(Len(InChunks(story)) + 1) : Turn(ReadChunks(InsertAt(InChunks(story), i, aside))) = mine
              /\ \A i \in 1..(Len(InResponses(story)) + 1) :
                    Turn(ReadResponses(InsertAt(InResponses(story), i, aside))) = mine
        /\ IF story.end \in Causes THEN ~mine.ok /\ mine.error.kind = story.end /\ Throttled(story)
           ELSE /\ mine.ok /\ mine.reply = Trimmed(read.shown)
                /\ IF story.end = "cut" THEN mine.finish = "" /\ mine.usage = 0
                   ELSE mine.finish = story.end /\ mine.usage = Total(story.usages)

\* The same knobs switch reasoning on in both runners, and the reply is asked of the same
\* conversation: only blank messages go, only a first word of the assistant's is preceded.
SameQuestion(g, history) ==
    /\ (ToSdkGeneration(g).thinking # "no") = (ToReasoningEffort(g) \notin {"none", ""})
    /\ LET sent == BuildResponsesInput(history)
       IN  /\ sent # <<>> => sent[1].role = "user"
           /\ Sent(history) = IF Len(sent) > Len(Sent(history)) THEN Tail(sent) ELSE sent
=============================================================================
