---------------------------- MODULE PromptRules ----------------------------
(***************************************************************************)
(* What a turn sends before the conversation: the preset's sections filled *)
(* from the chat, cut at the boundary into the half the provider caches    *)
(* and the half that is written anew each turn.                            *)
(***************************************************************************)
EXTENDS PromptMacros

NoOne == [name |-> "", about |-> <<>>]

-----------------------------------------------------------------------------
(* prompt-config.ts                                                        *)

Literal(id, text) == [type |-> "literal", id |-> <<"literal", id>>, on |-> TRUE, text |-> text]
Marker(of, scope) == [type |-> of, id |-> <<of, scope>>, on |-> TRUE, scope |-> scope]
Boundary          == [type |-> "boundary", id |-> <<"boundary">>, on |-> TRUE]
Off(section)      == [section EXCEPT !.on = FALSE]

DefaultSections ==
    << Off(Marker("char_system", "")),
       Literal("main", <<Word("you are"), Macro("char", <<>>), Word("with"), Macro("user", <<>>)>>),
       Marker("char_description", ""), Marker("char_personality", ""), Marker("scenario", ""),
       Marker("persona", ""), Marker("dialogue_examples", ""), Marker("world_info", "always"),
       Boundary,
       Marker("world_info", "keyword"), Marker("memory", ""), Off(Marker("post_history", "")) >>

\* promptConfigSchema.refine.
ValidSections(sections) == Cardinality({i \in DOMAIN sections : sections[i].type = "boundary"}) <= 1

\* resolveConfig: the pinned preset's, or the default; a stored one that does not parse throws.
ResolveConfig(chat) ==
    IF chat.preset = <<>> THEN DefaultSections
    ELSE IF ValidSections(chat.preset) THEN chat.preset ELSE <<>>

-----------------------------------------------------------------------------
(* context/assemble.ts: a chat and a turn of it                            *)

\* toWorldEntry: a scope that is not "keyword" is "always".
ToWorldEntry(row, source) ==
    [on |-> row.on, scope |-> IF row.scope = "keyword" THEN "keyword" ELSE "always",
     keys |-> row.keys, priority |-> row.priority, text |-> row.text, source |-> source]

HasMemoryMarker(sections) == \E i \in DOMAIN sections : sections[i].type = "memory" /\ sections[i].on

\* Mutant: the pin is forgotten.
Unpinned(chat) == chat.active

\* A persona that was deleted, or never chosen, is null; a chat without a pinned one uses
\* the active one.
Pinned(chat) == IF chat.pinned = NoOne THEN chat.active ELSE chat.pinned

\* buildAssembleContext.
BuildContext(chat, turn) ==
    [card |-> chat.card, active |-> chat.active, pinned |-> Pinned(chat),
     lore |-> [i \in DOMAIN chat.lore |-> ToWorldEntry(chat.lore[i], "chat")]
              \o [i \in DOMAIN chat.cardLore |-> ToWorldEntry(chat.cardLore[i], "character")],
     recent |-> turn.said, input |-> <<>>, last |-> turn.last,
     clock |-> turn.clock, dice |-> turn.dice, draw |-> turn.draw,
     summary |-> IF chat.api = "agent-sdk" THEN <<>> ELSE chat.summary,
     memory |-> IF chat.remembers /\ HasMemoryMarker(ResolveConfig(chat)) THEN turn.memory ELSE <<>>]

\* What send adds before it assembles: the message being answered.
SendContext(chat, turn) ==
    [BuildContext(chat, turn) EXCEPT !.recent = @ \cup ToSet(turn.input), !.input = turn.input]

\* renderMacros: the chat's values, with one of its two personas.
Env(ctx, persona) ==
    [char |-> AsWritten(ctx.card.name),
     user |-> IF persona = NoOne THEN <<"User">> ELSE <<persona.name>>,
     persona |-> AsWritten(persona.about), scenario |-> AsWritten(ctx.card.scenario),
     input |-> ctx.input, lastMessage |-> ctx.last,
     clock |-> ctx.clock, dice |-> ctx.dice, draw |-> ctx.draw]

-----------------------------------------------------------------------------
(* prompt-assemble.ts                                                      *)

CardFields == {"char_description", "char_personality", "scenario", "dialogue_examples",
               "char_system", "post_history"}

\* renderWorldInfo: the entries of one scope; a keyword entry needs a key that was said
\* lately, an empty key is none.  Higher priority first, equals as they are attached.
ActiveLore(ctx, scope) ==
    LET Fires(e) == scope # "keyword" \/ (e.keys \ {""}) \cap ctx.recent # {}
        active   == SelectSeq(ctx.lore, LAMBDA e : e.on /\ e.scope = scope /\ Fires(e))
        ranks    == SetToSortSeq({e.priority : e \in ToSet(active)}, LAMBDA a, b : a > b)
    IN  FlattenSeq([r \in DOMAIN ranks |-> SelectSeq(active, LAMBDA e : e.priority = ranks[r])])

\* The scripts of a preset see the active persona, whoever the entry belongs to.
RenderEntry(e, ctx, scripts) ==
    ProcessMacros(ExecuteScripts(e.text, scripts, "WORLD_INFO", Env(ctx, ctx.active)),
                  Env(ctx, IF e.source = "character" THEN ctx.pinned ELSE ctx.active))
RenderLore(ctx, scope, scripts) ==
    LET entries == ActiveLore(ctx, scope)
    IN  FlattenSeq([i \in DOMAIN entries |-> RenderEntry(entries[i], ctx, scripts)])

\* renderMarker for the card: the description and the personality are told with the name.
CardText(ctx, field) ==
    LET text == ctx.card[field]
    IN  CASE field = "char_description" -> ctx.card.name \o text
          [] field = "char_personality" /\ text # <<>> -> ctx.card.name \o text
          [] OTHER -> text

\* renderSection and renderMarker.
RenderSection(section, ctx, scripts) ==
    CASE section.type = "literal" -> ProcessMacros(section.text, Env(ctx, ctx.active))
      [] section.type \in CardFields ->
            ProcessMacros(CardText(ctx, section.type), Env(ctx, ctx.pinned))
      [] section.type = "persona" ->
            IF ctx.active = NoOne THEN <<>>
            ELSE ProcessMacros(<<Word(ctx.active.name)>> \o ctx.active.about, Env(ctx, ctx.active))
      [] section.type = "world_info" -> RenderLore(ctx, section.scope, scripts)
      [] section.type = "compact_summary" -> ctx.summary
      [] section.type = "memory" -> ctx.memory
      [] OTHER -> <<>>

\* collectStaticSources: the texts of a section a user can put a macro in.
StaticSources(section, ctx) ==
    CASE section.type = "literal" -> {section.text}
      [] section.type \in CardFields -> {ctx.card[section.type]}
      [] section.type = "persona" -> {ctx.active.about}
      [] section.type = "world_info" ->
            {e.text : e \in {f \in ToSet(ctx.lore) : f.on /\ f.scope = section.scope}}
      [] OTHER -> {}

\* assemblePrompt: the sections that are on and come out non-empty, before and after the
\* boundary, and the volatile macros written before it.
Cut(sections) ==
    Min({i \in 1..(Len(sections) + 1) : i > Len(sections) \/ sections[i].type = "boundary"})
On(sections) == {i \in DOMAIN sections : sections[i].on /\ sections[i].type # "boundary"}
Half(sections, words, from, to) ==
    LET shown == SetToSortSeq({i \in DOMAIN words : i \in from..to /\ words[i] # <<>>}, LAMBDA a, b : a < b)
    IN  [k \in DOMAIN shown |-> [id |-> sections[shown[k]].id, words |-> words[shown[k]]]]
Halves(sections, words, busters) ==
    [static  |-> Half(sections, words, 1, Cut(sections) - 1),
     dynamic |-> Half(sections, words, Cut(sections) + 1, Len(sections)), busters |-> busters]
Assemble(sections, ctx, scripts) ==
    Halves(sections,
           [i \in On(sections) |-> Trim(RenderSection(sections[i], ctx, scripts))],
           UNION {FindVolatileMacros(text) :
               text \in UNION {StaticSources(sections[i], ctx) : i \in {j \in On(sections) : j < Cut(sections)}}})

\* send, and previewAssembly, which promises to show what send would send; it has no
\* message to answer and runs no scripts (nor do swipe, edit and compaction).
SendPrompt(chat, turn)    == Assemble(ResolveConfig(chat), SendContext(chat, turn), chat.scripts)
PreviewPrompt(chat, turn) == Assemble(ResolveConfig(chat), BuildContext(chat, turn), <<>>)

-----------------------------------------------------------------------------
(* What they owe                                                           *)

StaticPart(sections) ==
    SelectSeq(SubSeq(sections, 1, Cut(sections) - 1), LAMBDA s : s.on)
\* What findVolatileMacros cannot see: a name in another case than the list has it, a macro
\* in the card's name, and what a script puts in.
Unseen(text) == \E i \in DOMAIN text : text[i].t = "macro" /\ text[i].n # Lower(text[i].n)
Unwarned(chat) ==
    \/ \E s \in ToSet(StaticPart(ResolveConfig(chat))) :
          \/ s.type = "memory" \/ (s.type = "world_info" /\ s.scope = "keyword")
          \/ \E text \in StaticSources(s, BuildContext(chat, chat.sample)) : Unseen(text)
          \/ s.type = "world_info" /\ chat.scripts # <<>>
    \/ \E i \in DOMAIN chat.card.name : chat.card.name[i].t = "macro"

\* The cached half of the prompt is the same in any two turns of a chat, and in the preview,
\* unless a volatile macro was reported or the preset puts what changes before the boundary.
CacheHolds(chat, t1, t2) ==
    LET a == SendPrompt(chat, t1)  b == SendPrompt(chat, t2)  p == PreviewPrompt(chat, t2)
    IN  a.busters = {} /\ ~Unwarned(chat) => a.static = b.static /\ a.static = p.static

\* Switching who one plays rewrites nothing the card says: neither its fields nor its lore,
\* which no script touches.  A chat without a pinned persona follows the active one.
PersonaPinned(chat, turn, other) ==
    LET a == BuildContext(chat, turn)  b == BuildContext([chat EXCEPT !.active = other], turn)
        own == [a EXCEPT !.lore = SelectSeq(@, LAMBDA e : e.source = "character")]
    IN  chat.pinned # NoOne =>
            /\ \A s \in ToSet(ResolveConfig(chat)) :
                  s.type \in CardFields => RenderSection(s, a, <<>>) = RenderSection(s, b, <<>>)
            /\ \A scope \in {"always", "keyword"} :
                  RenderLore(own, scope, <<>>) = RenderLore([own EXCEPT !.active = other], scope, <<>>)

\* The ids of a prompt are those of the preset, less some; and none is missing that speaks.
InOrder(both, preset) ==
    LET ids == [i \in DOMAIN both |-> both[i].id]
        all == [i \in DOMAIN preset |-> preset[i].id]
    IN  ids = SelectSeq(all, LAMBDA id : id \in ToSet(ids))
Complete(both, preset, ctx, scripts) ==
    \A s \in ToSet(preset) : s.on /\ Trim(RenderSection(s, ctx, scripts)) # <<>>
                            => \E i \in DOMAIN both : both[i].id = s.id

\* Every section that has something to say is there once, in the preset's order.
SectionsOnce(chat, turn) ==
    LET p == SendPrompt(chat, turn)
    IN  /\ InOrder(p.static \o p.dynamic, ResolveConfig(chat))
        /\ Complete(p.static \o p.dynamic, ResolveConfig(chat), SendContext(chat, turn), chat.scripts)

\* A text that closes its own blocks means the same whatever follows it.
Balanced(text) ==
    \A n \in {"if", "trim", "note"} :
        LET Count(t, k) == Cardinality({i \in 1..k : text[i].t = t /\ text[i].n = n})
        IN  /\ \A k \in DOMAIN text : Count("close", k) <= Count("open", k)
            /\ Count("close", Len(text)) = Count("open", Len(text))
MacrosCompose(a, b, env) ==
    Balanced(a) /\ Balanced(b) =>
        ProcessMacros(a \o b, env) = ProcessMacros(a, env) \o ProcessMacros(b, env)
=============================================================================
