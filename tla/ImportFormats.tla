---------------------------- MODULE ImportFormats ----------------------------
(***************************************************************************)
(* What the importer reads: the card in a picture, the lines of a chat     *)
(* file, and the profile directory that pairs the two.  Pure functions,    *)
(* over inputs that keep only what decides the outcome; Blank stands for   *)
(* an empty or whitespace string, "no" for a key that is absent.           *)
(***************************************************************************)
EXTENDS Integers, Sequences, FiniteSets, SequencesExt

-----------------------------------------------------------------------------
(* card.ts                                                                 *)

\* readPngTextChunk: walk the chunks; a truncated one ends the walk, the first
\* text chunk with the keyword is the answer.
Walked(png) == LET bad == {n \in DOMAIN png : png[n].cut}
               IN  IF bad = {} THEN png
                   ELSE SubSeq(png, 1, (CHOOSE n \in bad : \A m \in bad : n <= m) - 1)
ReadChunk(png, key) ==
    LET hits == SelectSeq(Walked(png), LAMBDA c : c.type = "tEXt" /\ c.key = key)
    IN  IF hits = <<>> THEN "no" ELSE Head(hits).value

\* parseCardPng: the V3 chunk wins over the V2 one.
CardText(png) == IF ReadChunk(png, "ccv3") # "no" THEN ReadChunk(png, "ccv3")
                 ELSE ReadChunk(png, "chara")

\* normalizeCardJson, for the name: Gradio's char_name and V1's root name both move
\* into data, and the rest of the root goes.
Normalize(card) ==
    IF card.spec \/ card.data # "no" THEN card
    ELSE IF card.charName # "no" THEN [card EXCEPT !.data = card.charName, !.name = "no"]
    ELSE IF card.name # "no" THEN [card EXCEPT !.data = card.name, !.name = "no"]
    ELSE card

\* cardFromJson: the name in data, else the one at the root, else the file's.
CardName(card, stem) ==
    LET n == Normalize(card)
        inData == IF n.data = "no" THEN n.name ELSE n.data
        given == SelectSeq(<<inData, n.name>>, LAMBDA v : v \notin {"no", "Blank"})
    IN  IF given = <<>> THEN stem ELSE Head(given)

-----------------------------------------------------------------------------
(* chat.ts                                                                 *)

\* Mutant: midnight stays at twelve.
Hour24Twelve(h, half) == IF half = "pm" /\ h # 12 THEN h + 12 ELSE h

\* The hour of "August 27, 2025 6:36pm", in parseStDate.
Hour24(h, half) == IF half = "pm" /\ h # 12 THEN h + 12
                   ELSE IF half = "am" /\ h = 12 THEN 0 ELSE h

RoleOf(l) == IF l.sys THEN "system" ELSE IF l.user THEN "user" ELSE "assistant"

\* One message line: swipes are kept when there is a choice, and the chosen one only
\* if it is among them.
ParseLine(l) ==
    [role |-> RoleOf(l), blank |-> l.blank,
     variants |-> IF l.swipes > 1 THEN l.swipes ELSE 0,
     active |-> IF l.swipes > 1 /\ l.chosen \in 0..(l.swipes - 1) THEN l.chosen ELSE -1]

Classify(msgs) ==
    LET said == SelectSeq(msgs, LAMBDA m : m.role # "system" /\ ~m.blank)
    IN  IF msgs = <<>> THEN "header_only"
        ELSE IF said = <<>> THEN "all_empty_msgs"
        ELSE IF \A n \in DOMAIN said : said[n].role # "user" THEN "greeting_only"
        ELSE "real_conversation"

\* parseChatJsonl: a corrupt line is skipped, the others keep their order.
ParseChat(lines) ==
    LET good == SelectSeq(lines, LAMBDA l : l.ok)
        msgs == [n \in DOMAIN good |-> ParseLine(good[n])]
    IN  [messages |-> msgs, bucket |-> Classify(msgs)]

-----------------------------------------------------------------------------
(* loader.ts                                                               *)

\* collectBundlesFromDir: cards and chat directories meet by slug.
Collect(cards, dirs, slug, skip) ==
    LET read     == SelectSeq(cards, LAMBDA c : c.parses)
        kept     == SelectSeq(read, LAMBDA c : c.name \notin skip)
        skipped  == {slug[read[n].stem] : n \in {m \in DOMAIN read : read[m].name \in skip}}
        handles  == {slug[kept[n].stem] : n \in DOMAIN kept}
        lastOf(h) == CHOOSE n \in DOMAIN kept :
                       slug[kept[n].stem] = h /\ \A m \in (n + 1)..Len(kept) : slug[kept[m].stem] # h
        filesOf(h) == UNION {dirs[n].files : n \in {m \in DOMAIN dirs : slug[dirs[m].name] = h
                                                                     /\ h \notin skipped}}
        others   == {slug[dirs[n].name] : n \in DOMAIN dirs} \ handles
    IN  [bundles |-> {[handle |-> h, card |-> kept[lastOf(h)], files |-> filesOf(h)] : h \in handles},
         orphans |-> {h \in others : filesOf(h) # {}},
         skipped |-> skipped]

-----------------------------------------------------------------------------
(* The bounded inputs of the checks below.                                 *)

Cards3 == [spec : BOOLEAN, data : {"no", "Blank", "a"}, charName : {"no", "Blank", "b"},
           name : {"no", "Blank", "c"}]
Chunks == [type : {"tEXt", "IDAT"}, key : {"ccv3", "chara"}, value : {"v", "w"}, cut : BOOLEAN]
Lines  == {l \in [ok : BOOLEAN, sys : BOOLEAN, user : BOOLEAN, blank : BOOLEAN,
                  swipes : 0..2, chosen : -1..2] :
              /\ l.swipes = 0 => l.chosen = 0
              /\ ~l.ok => l = [ok |-> FALSE, sys |-> FALSE, user |-> FALSE, blank |-> FALSE,
                               swipes |-> 0, chosen |-> 0]}
Names  == {"Block of Cheese", "Block Of Cheese", "Ann"}
Slug   == [n \in Names |-> IF n = "Ann" THEN "ann" ELSE "block-of-cheese"]
Shelf  == BoundedSeq([stem : Names, name : {"Block", "Ann"}, parses : BOOLEAN], 2)
Drawer == {<<[name |-> a, files |-> {"1.jsonl"}], [name |-> b, files |-> F]>> :
              a \in Names, b \in Names, F \in {{}, {"2.jsonl"}}}

\* Nothing an export holds gets lost or mixed up on its way in: a clock's twelve hours
\* are twenty-four different ones, a card has a name and the first chunk that fits, a
\* chosen swipe is one of the swipes, every readable line is a message and a chat is a
\* conversation exactly if the user said something; and each chat file ends in the
\* bundle of its character, among the orphans, or was left out with a skipped card.
FormatsWhole ==
    /\ {Hour24(h, half) : h \in 1..12, half \in {"am", "pm"}} = 0..23
    /\ \A card \in Cards3 : CardName(card, "stem") \notin {"no", "Blank"}
    /\ \A c \in Chunks, d \in Chunks :
          CardText(<<c, d>>) = "no" <=> c.cut \/ (c.type # "tEXt" /\ (d.cut \/ d.type # "tEXt"))
    /\ \A l \in Lines, m \in Lines :
          LET chat == ParseChat(<<l, m>>)
              talks == {x \in {l, m} : x.ok /\ x.user /\ ~x.sys /\ ~x.blank}
          IN  /\ Len(chat.messages) = (IF l.ok THEN 1 ELSE 0) + (IF m.ok THEN 1 ELSE 0)
              /\ chat.bucket = "real_conversation" <=> talks # {}
              /\ \A n \in DOMAIN chat.messages :
                    chat.messages[n].active < chat.messages[n].variants
                    \/ chat.messages[n].active = -1
    /\ \A cards \in Shelf, dirs \in Drawer, skip \in {{}, {"Block"}} :
          LET r == Collect(cards, dirs, Slug, skip)
          IN  \A n \in DOMAIN dirs : \A f \in dirs[n].files :
                LET homes == {b \in r.bundles : f \in b.files}
                    h == Slug[dirs[n].name]
                IN  /\ Cardinality(homes) <= 1
                    /\ \A b \in homes : b.handle = h /\ Slug[b.card.stem] = h
                    /\ homes = {} => h \in r.orphans \cup r.skipped
=============================================================================
