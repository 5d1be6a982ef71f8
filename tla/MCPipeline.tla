----------------------------- MODULE MCPipeline -----------------------------
(***************************************************************************)
(* What surrounds the chat, one part per behaviour: its memory, the shared *)
(* models and the passes over the corpus as state machines, and the rules  *)
(* of the prompt, the stream and the search on one sample of their input   *)
(* each.                                                                   *)
(***************************************************************************)
EXTENDS PromptRules, StreamRules, SearchRules, WarmModels, CorpusRollups, ChatMemory, TLC

VARIABLES part,    \* what the behaviour is about
          sample   \* the input its rules are asked about, if it has no steps

CONSTANTS c1, c2, boot

-----------------------------------------------------------------------------
(* Prompts                                                                 *)

W(w) == <<Word(w)>>
M(n) == <<Macro(n, <<>>)>>
MCTexts == { W("rain"), M("user"), M("persona"), W("at") \o M("time"), M("Input"),
           <<Macro("pick", <<M("input"), W("rain")>>)>>,
           <<Open("if", "persona"), Word("for")>> \o M("user") \o <<Close("if")>>,
           <<Open("note", ""), Open("trim", ""), Word(" ")>> \o M("lastMessage") \o <<Close("note")>>,
           <<Close("if"), Word("snow"), Open("trim", ""), Word(" ")>> }
MCCard(name, text) ==
    [name |-> name, char_description |-> text, char_personality |-> <<>>, scenario |-> text,
     dialogue_examples |-> <<>>, char_system |-> W("be"), post_history |-> text]
Ann == [name |-> "Ann", about |-> W("tall")]
Ben == [name |-> "Ben", about |-> M("input")]
MCEntry(text, scope, keys, priority) ==
    [on |-> TRUE, scope |-> scope, keys |-> keys, priority |-> priority, text |-> text]
Quiet == [said |-> {}, last |-> <<>>, input |-> <<>>, clock |-> <<"noon">>, dice |-> <<"1">>, draw |-> 0,
          memory |-> <<>>]
Busy  == [said |-> {"rain"}, last |-> <<"rain">>, input |-> <<"snow">>, clock |-> <<"dusk">>,
          dice |-> <<"6">>, draw |-> 1, memory |-> <<"once">>]
MCScript == [on |-> TRUE, at |-> {"WORLD_INFO"}, find |-> Word("rain"), substitute |-> FALSE,
             replace |-> M("input"), trims |-> {}]
MCPresets(text) == { <<>>,
    <<Literal("a", text), Marker("char_description", ""), Marker("world_info", "always"), Boundary,
      Marker("persona", ""), Marker("world_info", "keyword"), Marker("post_history", "")>>,
    <<Marker("world_info", "always"), Marker("persona", ""), Marker("compact_summary", ""),
      Off(Literal("b", text)), Boundary, Marker("memory", "")>>,
    <<Marker("world_info", "keyword"), Literal("c", text)>>,
    <<Marker("memory", ""), Literal("d", text), Boundary, Boundary>> }
MCWho == { <<W("Eve"), Ann, NoOne>>, <<W("Eve"), Ben, Ann>>, <<W("Eve") \o M("random"), Ben, NoOne>> }
MCChats == UNION { { [card |-> MCCard(who[1], t1), active |-> who[2], pinned |-> who[3], preset |-> preset,
             lore |-> <<MCEntry(W("rain"), "always", {}, 1), MCEntry(t2, "keyword", {"snow", ""}, 1)>>,
             cardLore |-> <<MCEntry(t2, "always", {}, 2), MCEntry(W("hail"), "keyword", {"rain"}, 1)>>,
             scripts |-> scripts, api |-> "responses", summary |-> <<"then">>, remembers |-> TRUE,
             sample |-> Quiet] :
             who \in MCWho, preset \in MCPresets(t2), scripts \in {<<>>, <<MCScript>>} }
             : t1 \in MCTexts, t2 \in MCTexts }

-----------------------------------------------------------------------------
(* Streams                                                                 *)

MCStories == [words : UNION {[1..n -> {"a", "b", " "}] : n \in 0..2},
              end : Causes \cup {"stop", "length", "filter", "cut"}, usages : {<<3>>, <<2, 1>>}]
MCKnobs == [thinking : {"", "off", "adaptive"}, budget : BOOLEAN, effort : {"", "low", "max"},
            compaction : {"off", "managed", "auto", ""}, pct : {80}]
MCHistories == UNION {[1..n -> [role : {"user", "assistant"}, text : {"a", " "}]] : n \in 0..2}

-----------------------------------------------------------------------------
(* Searches                                                                *)

MCSegment(i, place, block, spot, score) ==
    Row("segment", 10 + i, place[1], IF place[2] = "a1" THEN "Eve" ELSE "Kai", place[2], 0, block,
        spot[1], spot[2], score)
MCPlaces == {<<"ann", "a1">>, <<"ann", "a2">>, <<"ben", "b1">>}
MCSpots == {<<1, NoHub>>, <<2, NoHub>>, <<2, 1>>}
MCWorlds == { [cards |-> {"Eve"} \cup cards,
   characters |-> {Row("character", 1, "ann", "Eve", "", 0, 0, 2, NoHub, NoText),
                   Row("character", 2, "ben", "Zoe", "", 0, 0, 1, 3, 9)},
   segments |-> {MCSegment(1, p1, 0, s1, 1), MCSegment(2, p2, 1, s2, 3), MCSegment(3, <<"ben", "b1">>, 5, <<1, NoHub>>, 2)},
   digests |-> {Row("digest", 21, "ann", "Eve", "a1", 0, 0, 2, 2, 4),
                Row("digest", 22, "ann", "Eve", "a1", 1, 0, s1[1], NoHub, 0)}]
   : p1 \in MCPlaces, p2 \in MCPlaces, s1 \in MCSpots, s2 \in MCSpots, cards \in {{}, {"Kai", "Zoe"}}}
MCQueries == [k : {1, 2}, owner : {"ann", "ben"}, rerank : BOOLEAN, tier : {"any"}, chat : {"", "a1"},
              who : {"", "Kai"}]
MCDigests == { {[id |-> 1, tier |-> 0, from |-> 1, to |-> 2, cosine |-> near, called |-> called, score |-> 1],
          [id |-> 2, tier |-> 0, from |-> 3, to |-> 4, cosine |-> far, called |-> FALSE, score |-> 3],
          [id |-> 3, tier |-> 0, from |-> 5, to |-> 6, cosine |-> 2, called |-> called, score |-> 2],
          [id |-> 4, tier |-> 1, from |-> 1, to |-> 4, cosine |-> near, called |-> FALSE, score |-> 4]}
          : near \in {NoText, 1, 3}, far \in {1, 2}, called \in BOOLEAN}
MCMemories == [enabled : {TRUE}, mode : {"mixB", "mixC", "tiered", "mixA"}, minScore : {2, 3},
               keywordMatch : BOOLEAN, retrieveK : {1, 2}, rerankTo : {1}, recencyBias : {0, 2}]

-----------------------------------------------------------------------------
(* The corpus: a chat, its fork and a fork of that; a chat of another user *)

MCOwners  == {"ann", "ben"}
MCOwnerOf == (1 :> "ann") @@ (2 :> "ann") @@ (3 :> "ann") @@ (4 :> "ben")
             @@ (11 :> "ann") @@ (12 :> "ann") @@ (13 :> "ben")
MCCardOf   == (1 :> 11) @@ (2 :> 11) @@ (3 :> 11) @@ (4 :> 13)
MCParentOf == (1 :> 0) @@ (2 :> 1) @@ (3 :> 2) @@ (4 :> 0)
MCVector   == (11 :> <<1, 4>>) @@ (12 :> <<2, 2>>) @@ (13 :> <<1>>)
MCGiven    == {Digest(1, 0, 0, "h1", {"rain", "sea"}, 1), Digest(2, 0, 0, "h1", {"rain", "sea"}, 1),
               Digest(4, 0, 0, "h1", {"rain"}, 1)}
MCMaterial == MCGiven \cup
              {Digest(2, 0, 1, "h2", {"rain"}, 2), Digest(2, 0, 0, "h3", {"sea"}, 2),
               Digest(3, 0, 0, "h1", {"rain", "sea"}, 1), Digest(1, 0, 1, "h4", {"fog"}, 1),
               Digest(2, 1, 0, "", {"fog"}, 1)}

-----------------------------------------------------------------------------
(* The memory of a chat: blocks of one to three messages, so that a block  *)
(* has an inside, and one and two tiers above them                         *)

Fine   == [blockSize |-> 1, verbatimWindow |-> 2, fanOut |-> 2, maxTier |-> 2]
Coarse == [blockSize |-> 2, verbatimWindow |-> 1, fanOut |-> 2, maxTier |-> 1]
Wide   == [blockSize |-> 3, verbatimWindow |-> 1, fanOut |-> 2, maxTier |-> 1]
ThreeSettings == {Fine, Coarse, Wide}
OneOfTwo == {{"digests"}, {"segments"}}

-----------------------------------------------------------------------------
(* The behaviours                                                          *)

Samples ==
    [prompt |-> MCChats, macros |-> MCTexts \X MCTexts \X MCTexts, stream |-> MCStories, question |-> MCKnobs,
     search |-> MCWorlds, memory |-> MCDigests, batch |-> UNION {[1..n -> 1..4] : n \in 0..3},
     models |-> {<<>>}, corpus |-> {<<>>}, index |-> {<<>>}]

NoModels == models = <<>> /\ warm = <<>> /\ users = <<>> /\ crossed = {}
NoCorpus == world = <<>> /\ table = {} /\ pass = <<>> /\ fresh = <<>> /\ changes = 0

NoIndex ==
    /\ background = {} /\ canon = <<>> /\ answering = FALSE /\ clock = 0 /\ nextText = 0
    /\ digests = <<>> /\ segments = <<>> /\ run = NoCall /\ indexing = NoCall
    /\ used = <<>> /\ silent = {}

PipelineInit ==
    /\ part \in DOMAIN Samples
    /\ sample \in Samples[part]
    /\ IF part = "models" THEN WarmInit ELSE NoModels
    /\ IF part = "corpus" THEN CorpusInit ELSE NoCorpus
    /\ IF part = "index" THEN Init ELSE NoIndex
PipelineNext ==
    /\ UNCHANGED <<part, sample>>
    /\ \/ part = "models" /\ WarmNext /\ UNCHANGED <<corpusVars, vars>>
       \/ part = "corpus" /\ CorpusNext /\ UNCHANGED <<modelVars, vars>>
       \/ part = "index" /\ Next /\ UNCHANGED <<modelVars, corpusVars>>
Pipeline == PipelineInit /\ [][PipelineNext]_<<part, sample, modelVars, corpusVars, vars>>

-----------------------------------------------------------------------------
(* What is checked                                                         *)

\* A model that is shared is whole: no caller infers with one that was freed, none is held
\* beside the one that is handed out, each summary is read with its own history, and every
\* text of a batch is embedded in its place within the budget (warm-model.ts, embedder.ts,
\* summarizer.ts).
ModelsHold ==
    /\ part = "models" => UsesRunOnLiveModels /\ NothingHeldTwice /\ SummariesIndependent
    /\ part = "batch" => BatchesFit(sample, 6)

\* A pass that finished, with crashes, edits and deletions around it, leaves what the
\* sources say; forks are counted once and recognised by their line (domain/corpus).
RollupsHold ==
    part = "corpus" => RollupsFollowSources /\ ForksCountOnce /\ ForksAreRelated

\* The cached half of a prompt does not move between turns, the card keeps its pinned
\* persona, no section is lost or doubled, and a macro ends with its text (prompt-assemble.ts).
PromptHolds ==
    /\ part = "prompt" => /\ CacheHolds(sample, Quiet, Busy)
                          /\ PersonaPinned(sample, Busy, IF sample.active = Ann THEN Ben ELSE Ann)
                          /\ SectionsOnce(sample, Busy)
    /\ part = "macros" =>
          MacrosCompose(sample[1] \o sample[2], sample[3],
                        Env(SendContext(CHOOSE chat \in MCChats : TRUE, Quiet), Ann))

\* One turn reads the same from the three streams of the providers, and is asked of them
\* with the same conversation and the same knobs (turn.ts).
StreamHolds ==
    /\ part = "stream" => OneContract(sample)
    /\ part = "question" => \A history \in MCHistories : SameQuestion(sample, history)

\* A search shows its user's rows and the nearest of them, by whichever way they are asked
\* for; the memory of a chat is told in order and once (domain/search, retrieve.ts).
SearchHolds ==
    /\ part = "search" => \A q \in MCQueries : /\ OthersDoNotShow(sample, q)
                                               /\ NothingBetterHidden(sample, q)
                                               /\ LensesAgree(sample, q)
    /\ part = "memory" => \A m \in MCMemories : MemoryTold(sample, m)
=============================================================================
