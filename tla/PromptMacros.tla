---------------------------- MODULE PromptMacros ----------------------------
(***************************************************************************)
(* The macro engine of shared/macro and the regex scripts written with it. *)
(* A text is the sequence of tokens the lexer cuts it into; what becomes   *)
(* of it is a sequence of words.  What a macro stands for is inserted as   *)
(* it is: it is not read for macros again.                                 *)
(***************************************************************************)
EXTENDS Integers, Sequences, FiniteSets, SequencesExt

\* Tokens.  The arguments of a macro are texts; the key of a block is its first argument.
Word(w)        == [t |-> "word", w |-> w]
Macro(n, args) == [t |-> "macro", n |-> n, args |-> args]
Open(n, key)   == [t |-> "open", n |-> n, key |-> key]
Close(n)       == [t |-> "close", n |-> n]

\* What stays of a macro nobody knows.
Verbatim(tok) == <<CASE tok.t = "open" -> "{{#" [] tok.t = "close" -> "{{/" [] OTHER -> "{{",
                   tok.n, "}}">>

\* A text nobody reads for macros.
AsWritten(text) ==
    FlattenSeq([i \in DOMAIN text |-> IF text[i].t = "word" THEN <<text[i].w>> ELSE Verbatim(text[i])])

\* String.trim: the spaces around a text go.
Trim(words) ==
    LET kept == {i \in DOMAIN words : words[i] # " "}
    IN  IF kept = {} THEN <<>> ELSE SubSeq(words, Min(kept), Max(kept))

-----------------------------------------------------------------------------
(* registry.ts: names are looked up in lower case                          *)

Lower(n) == IF n = "Input" THEN "input" ELSE n

\* What a turn gives: {{input}} and {{lastMessage}}, the clock, the dice.
Spoken == {"input", "lastMessage"}
Clock  == {"time", "date"}
Dice   == {"random", "roll"}
Told   == {"char", "user", "persona", "scenario"}
Known  == Told \cup Spoken \cup Clock \cup Dice \cup {"pick", "get", "newline", "if", "trim"}

\* A handler called without a body.  {{get}} reads env, which every caller leaves empty.
Value(n, args, env) ==
    CASE n \in Told \cup Spoken -> env[n]
      [] n \in Clock            -> env.clock
      [] n \in Dice             -> env.dice
      [] n = "pick"             -> IF args = <<>> THEN <<>> ELSE args[(env.draw % Len(args)) + 1]
      [] n = "newline"          -> <<" ">>
      [] OTHER                  -> <<>>

\* A handler called with one: {{#if}} shows it when the key has a value, {{#trim}} trims it,
\* the others ignore it; an unknown block keeps its marks around it.
BlockValue(open, body, env) ==
    LET n == Lower(open.n)
    IN  CASE n = "if"   -> IF open.key \in Told /\ Trim(env[open.key]) # <<>> THEN body ELSE <<>>
          [] n = "trim" -> Trim(body)
          [] n \in Known \ {"if", "trim"} -> Value(n, <<>>, env)
          [] OTHER -> Verbatim(open) \o body \o Verbatim(Close(open.n))

-----------------------------------------------------------------------------
(* parser.ts buildBlocks and evaluator.ts, in one pass: a stack of the     *)
(* blocks that are open, each with what its body has come to.              *)

Say(stack, words) == [stack EXCEPT ![Len(stack)].body = @ \o words]
Root == [open |-> Close("root"), body |-> <<>>]

\* Everything above depth d is closed, innermost first.
Unwind(stack, d, env) ==
    FoldLeft(LAMBDA s, i : Say(Front(s), BlockValue(Last(s).open, Last(s).body, env)),
             stack, [i \in 1..(Len(stack) - d) |-> i])

\* Arguments may hold macros of their own, but no block.
Plain(text, env) ==
    FlattenSeq([i \in DOMAIN text |->
        IF text[i].t = "word" THEN <<text[i].w>>
        ELSE IF Lower(text[i].n) \in Known THEN Value(Lower(text[i].n), <<>>, env)
        ELSE Verbatim(text[i])])

\* A close ends the innermost open block of its name and all inside it; without one it is text.
Read(stack, tok, env) ==
    CASE tok.t = "word" -> Say(stack, <<tok.w>>)
      [] tok.t = "open" -> Append(stack, [open |-> tok, body |-> <<>>])
      [] tok.t = "macro" ->
            Say(stack, IF Lower(tok.n) \in Known
                       THEN Value(Lower(tok.n), [i \in DOMAIN tok.args |-> Plain(tok.args[i], env)], env)
                       ELSE Verbatim(tok))
      [] OTHER ->
            LET mine == {i \in 2..Len(stack) : stack[i].open.n = tok.n}
            IN  IF mine = {} THEN Say(stack, Verbatim(tok)) ELSE Unwind(stack, Max(mine) - 1, env)

\* processMacros: a block nobody closes ends with the text.
ProcessMacros(text, env) ==
    Unwind(FoldLeft(LAMBDA s, tok : Read(s, tok, env), <<Root>>, text), 1, env)[1].body

-----------------------------------------------------------------------------
(* prompt-assemble.ts: the names whose value changes from turn to turn     *)

Volatile == {"random", "pick", "roll", "time", "date", "input", "lastMessage"}

\* findVolatileMacros looks at the text as it is written: in arguments too, and with its case.
FindVolatileMacros(text) ==
    {text[i].n : i \in {j \in DOMAIN text : text[j].t \in {"macro", "open"} /\ text[j].n \in Volatile}}
    \cup {n \in Volatile : \E i \in DOMAIN text : text[i].t = "macro"
            /\ \E a \in DOMAIN text[i].args : Macro(n, <<>>) \in ToSet(text[i].args[a])}

-----------------------------------------------------------------------------
(* regex.ts.  A pattern is the token it matches; "broken" is none at all.  *)

\* substituteRegex: the pattern is read for macros first, or taken as it is.
Pattern(script, env) ==
    IF script.substitute THEN Word(ProcessMacros(<<script.find>>, env)[1]) ELSE script.find

AsText(words) == [i \in DOMAIN words |-> Word(words[i])]

\* {{match}} and $1 stand for what matched, without the script's trim strings; then the
\* replacement is read for macros.
Replacement(script, tok, env) ==
    LET own(r) == IF r # Macro("match", <<>>) THEN <<r>>
                  ELSE IF tok.t = "word" /\ tok.w \in script.trims THEN <<>> ELSE <<tok>>
    IN  AsText(ProcessMacros(FlattenSeq([i \in DOMAIN script.replace |-> own(script.replace[i])]), env))

\* executeScripts: each enabled script of the placement in turn, over what the last one left;
\* one whose pattern is no regex is skipped.
RunScript(text, script, placement, env) ==
    IF ~script.on \/ placement \notin script.at \/ script.find = Word("broken") THEN text
    ELSE FlattenSeq([i \in DOMAIN text |-> IF text[i] = Pattern(script, env)
                                           THEN Replacement(script, text[i], env) ELSE <<text[i]>>])
ExecuteScripts(text, scripts, placement, env) ==
    FoldLeft(LAMBDA acc, s : RunScript(acc, s, placement, env), text, scripts)
=============================================================================
