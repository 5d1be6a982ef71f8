---------------------------- MODULE CorpusRollups ----------------------------
(***************************************************************************)
(* domain/corpus: tables computed from the chats and the cards of every    *)
(* owner by passes that are run by hand, each a process of its own beside  *)
(* the server, statement by statement, with no transaction.  A behaviour   *)
(* has one kind of pass.                                                   *)
(***************************************************************************)
EXTENDS Integers, Sequences, FiniteSets, FiniteSetsExt, SequencesExt

CONSTANTS Owners, Cards,
          Chats,       \* chats of more than twenty messages, numbered as their ids sort
          OwnerOf,     \* [Chats \cup Cards -> Owners]
          CardOf,      \* [Chats -> Cards]
          ParentOf,    \* [Chats -> Chats \cup {0}], 0 for none
          Material,    \* the blocks that the memory of a chat may come to hold
          Given,       \* those it holds at the start
          Vector,      \* [Cards -> sequence of the places of its versions]
          Reach,       \* two vectors no further apart are near duplicates
          HubK,        \* CSLS_K
          ThemeK,      \* the least number of digests that is clustered, less one
          MaxChanges   \* bound: what changes beside the passes

VARIABLES world,    \* the sources: live chats, blocks, versions of cards, embedded versions
          table,    \* the rows of the rollup
          pass,     \* the pass: its kind, what it has to clear, what it has to write
          fresh,    \* per owner and sort of row: "yes" if a pass has finished and nothing changed since it read
          changes

corpusVars == <<world, table, pass, fresh, changes>>

Kinds == {"hubs", "cooccurrence", "duplicates", "themes", "summaries"}

\* A block of a chat: its digest and, at tier 0, its segment.  The hash is of what was said.
Digest(c, tier, n, hash, words, near) ==
    [chat |-> c, tier |-> tier, n |-> n, hash |-> hash, words |-> words, near |-> near]
Out(owner, sort, key, value) == [owner |-> owner, sort |-> sort, key |-> key, value |-> value]

-----------------------------------------------------------------------------
(* What each pass computes, from the sources w                             *)

Of(w, o, tiers) == {b \in w.blocks : OwnerOf[b.chat] = o /\ b.tier \in tiers}
Cases(w, o) == {c \in Cards : OwnerOf[c] = o /\ w.vectors[c] > 0}

\* collapseByContentHash: one block of each content, the first; without a hash, all.
Collapse(blocks) ==
    {b \in blocks : b.hash = "" \/ \A d \in blocks : d.hash = b.hash => <<d.chat, d.n>> = <<b.chat, b.n>>
                                        \/ d.chat > b.chat \/ (d.chat = b.chat /\ d.n > b.n)}

\* computeCooccurrence: scenes only; a word in more than half of them is dropped.
Cooccurrence(w, o) ==
    LET scenes == Collapse(Of(w, o, {0}))
        With(words) == {s \in scenes : words \subseteq s.words}
        spoken == {k \in UNION {s.words : s \in scenes} : 2 * Cardinality(With({k})) <= Cardinality(scenes)}
        \* tallyCooccurrence
        pairs  == {p \in SUBSET spoken : Cardinality(p) = 2 /\ With(p) # {}}
        credit == {<<CardOf[s.chat], k>> : s \in scenes, k \in spoken}
        Fans(x) == {s \in With({x[2]}) : CardOf[s.chat] = x[1]}
    IN  {Out(o, "pair", p, Cardinality(With(p))) : p \in pairs}
        \cup {Out(o, "profile", x, Cardinality(Fans(x))) : x \in {y \in credit : Fans(y) # {}}}

\* forkRoots: up the parents, as long as they are there and were not met before.
ForkRoot(w, c) ==
    LET Up[n \in 0..Cardinality(Chats), d \in Chats] ==
            IF n = 0 \/ ParentOf[d] \notin w.chats THEN d ELSE Up[n - 1, ParentOf[d]]
    IN  Up[Cardinality(Chats), c]
ChatRelation(w, c, d) == IF ForkRoot(w, c) = ForkRoot(w, d) THEN "forked" ELSE "duplicate"

\* jaccardChatPairs: chats of one owner that share 3 of 10 of what either holds.
Overlap(w, c, d) ==
    LET Said(x) == {b.hash : b \in {e \in w.blocks : e.chat = x /\ e.tier = 0}}
        shared == Cardinality(Said(c) \cap Said(d))
    IN  shared > 0 /\ 10 * shared >= 3 * Cardinality(Said(c) \cup Said(d))

\* pairsAboveThreshold, of the cards as they were embedded.
Place(w, c) == Vector[c][w.vectors[c]]
Near(w, c, d) == Place(w, c) - Place(w, d) \in (-Reach)..Reach

\* computeDuplicatePairs.
Duplicates(w, o) ==
    {Out(o, "character", {c, d}, "duplicate") : <<c, d>> \in
        {p \in Cases(w, o) \X Cases(w, o) : p[1] < p[2] /\ Near(w, p[1], p[2])}}
    \cup {Out(o, "chat", {c, d}, ChatRelation(w, c, d)) : <<c, d>> \in
        {p \in w.chats \X w.chats : p[1] < p[2] /\ OwnerOf[p[1]] = o /\ OwnerOf[p[2]] = o /\ Overlap(w, p[1], p[2])}}

\* clusterLevel, of the scenes (the arcs, at the tiers above, go the same way): with enough
\* digests each goes to the cluster it is nearest to; where the clusters lie is k-means' business.
Themes(w, o) ==
    LET blocks == Of(w, o, {0})
        ids == {b.near : b \in Collapse(blocks)}
        Far(b, i) == (b.near - i) * (b.near - i)
        Home(b) == Min({i \in ids : \A j \in ids : Far(b, i) <= Far(b, j)})
    IN  IF Cardinality(blocks) < ThemeK + 1 THEN {}
        ELSE {Out(o, "cluster", i, Cardinality({b \in blocks : Home(b) = i})) : i \in ids}
             \cup {Out(o, "assignment", <<b.chat, b.tier, b.n>>, Home(b)) : b \in blocks}

\* computeGroupHubs, over the cards of all owners: what a card's K nearest come to, or 0 in
\* a group too small to have hubs.
HubScore(w, c) ==
    LET group == {d \in Cards : w.vectors[d] > 0}
        Sim(d) == 10 - (IF Place(w, c) > Place(w, d) THEN Place(w, c) - Place(w, d)
                        ELSE Place(w, d) - Place(w, c))
        top == CHOOSE S \in kSubset(HubK, group \ {c}) :
                  \A d \in S, e \in (group \ {c}) \ S : Sim(d) >= Sim(e)
    IN  IF Cardinality(group) < HubK + 1 THEN 0 ELSE MapThenSumSet(Sim, top)
Hubs(w, o) == {Out(o, "hub", c, HubScore(w, c)) : c \in Cases(w, o)}

\* collectEmbedTargets and computeCharacterSummaries: every card in its current version.
Summaries(w, o) == {Out(o, "summary", c, w.cards[c]) : c \in {d \in Cards : OwnerOf[d] = o /\ w.cards[d] > 0}}

Rollup(kind, w, o) ==
    CASE kind = "hubs" -> Hubs(w, o) [] kind = "cooccurrence" -> Cooccurrence(w, o)
      [] kind = "duplicates" -> Duplicates(w, o) [] kind = "themes" -> Themes(w, o)
      [] OTHER -> Summaries(w, o)

-----------------------------------------------------------------------------
(* The sources change, in the server or by the embed pass                  *)

Sorts == {"hub", "pair", "profile", "character", "chat", "cluster", "assignment", "summary"}

CorpusInit ==
    /\ \E blocks \in {{}, Given}, v \in {0, 1} :
          world = [chats |-> Chats, blocks |-> blocks, cards |-> [c \in Cards |-> 1],
                   vectors |-> [c \in Cards |-> v]]
    /\ table = {}
    /\ pass \in [kind : Kinds, at : {"idle"}, todo : {{}}, clear : {{}}, rows : {<<>>}]
    /\ fresh = [x \in Owners \X Sorts |-> "no"]
    /\ changes = 0

\* A hub score is of all owners' vectors.
Touch(o) ==
    /\ changes < MaxChanges
    /\ changes' = changes + 1
    /\ fresh' = [x \in Owners \X Sorts |-> IF x[1] = o \/ x[2] = "hub" THEN "no" ELSE fresh[x]]
    /\ UNCHANGED pass

\* What a foreign key takes along: not the pairs of duplicate_pairs, which have none.
Cascade(rows, chat, card) ==
    {r \in rows : CASE r.sort \in {"hub", "summary"} -> r.key # card
                    [] r.sort = "profile" -> r.key[1] # card
                    [] r.sort = "assignment" -> r.key[1] # chat
                    [] OTHER -> TRUE}

\* The memory of a chat writes a block, over the one it held there: an upsert, which
\* keeps the row's id and with it the theme it was assigned to.
Remember(b) ==
    /\ b.chat \in world.chats /\ b \notin world.blocks
    /\ world' = [world EXCEPT !.blocks = {d \in @ : <<d.chat, d.tier, d.n>> # <<b.chat, b.tier, b.n>>} \cup {b}]
    /\ Touch(OwnerOf[b.chat])
    /\ UNCHANGED table

DeleteChat(c) ==
    /\ c \in world.chats
    /\ world' = [world EXCEPT !.chats = @ \ {c}, !.blocks = {b \in @ : b.chat # c}]
    /\ table' = Cascade(table, c, 0)
    /\ Touch(OwnerOf[c])

EditCard(c) ==
    /\ world.cards[c] \in 1..(Len(Vector[c]) - 1)
    /\ world' = [world EXCEPT !.cards[c] = @ + 1]
    /\ Touch(OwnerOf[c])
    /\ UNCHANGED table

\* A card can go when no chat is of it.
DeleteCard(c) ==
    /\ world.cards[c] > 0 /\ \A chat \in world.chats : CardOf[chat] # c
    /\ world' = [world EXCEPT !.cards[c] = 0, !.vectors[c] = 0]
    /\ table' = Cascade(table, 0, c)
    /\ Touch(OwnerOf[c])

\* The embed pass: a card without a vector gets one, of the version that was current when
\* the pass read it; a card that has one keeps it, whatever is edited.
EmbedAndStore(c) ==
    /\ world.cards[c] > 0 /\ world.vectors[c] = 0
    /\ \E v \in 1..world.cards[c] : world' = [world EXCEPT !.vectors[c] = v]
    /\ Touch(OwnerOf[c])
    /\ UNCHANGED table

-----------------------------------------------------------------------------
(* The passes                                                              *)

\* What a pass replaces: rows of the owners that its sources have rows of.
Units(kind, w) ==
    LET Writers(tiers) == {OwnerOf[b.chat] : b \in {d \in w.blocks : d.tier \in tiers}}
        Embedded == {OwnerOf[c] : c \in {d \in Cards : w.vectors[d] > 0}}
    IN  CASE kind = "hubs" -> Embedded \X {"hub"}
          [] kind = "cooccurrence" -> Writers({0, 1}) \X {"pair", "profile"}
          [] kind = "duplicates" -> (Embedded \X {"character"}) \cup (Writers({0}) \X {"chat"})
          [] kind = "themes" -> Writers({0, 1}) \X {"cluster", "assignment"}
          [] OTHER -> {OwnerOf[c] : c \in {d \in Cards : w.cards[d] > 0}} \X {"summary"}

\* Mutant: only what is written anew is cleared first.
ClearWritten(units, rows) == {x \in units : \E i \in DOMAIN rows : <<rows[i].owner, rows[i].sort>> = x}

\* Scores and summaries are written in place; of the others, all that was read is cleared.
ToClear(units, rows) == IF pass.kind \in {"hubs", "summaries"} THEN {} ELSE units

\* Co-occurrence and themes ask for the owners first, and then read one after the other;
\* the others read all they need before they write.
Begin ==
    /\ pass.at = "idle"
    /\ Units(pass.kind, world) # {}
    /\ pass' = [pass EXCEPT !.at = "read", !.todo = Units(pass.kind, world)]
    /\ UNCHANGED <<world, table, fresh, changes>>

ReadSources ==
    /\ pass.at = "read"
    /\ \E o \in {x[1] : x \in pass.todo} :
          LET units == {x \in pass.todo : x[1] = o \/ pass.kind \notin {"cooccurrence", "themes"}}
              rows  == SetToSeq(UNION {Rollup(pass.kind, world, x[1]) : x \in units})
          IN  /\ pass' = [pass EXCEPT !.at = "write", !.todo = @ \ units, !.rows = rows,
                                      !.clear = ToClear(units, rows)]
              /\ fresh' = [x \in Owners \X Sorts |-> IF x \in units THEN "read" ELSE fresh[x]]
    /\ UNCHANGED <<world, table, changes>>

Clear(x) ==
    /\ pass.at = "write" /\ x \in pass.clear
    /\ table' = {r \in table : <<r.owner, r.sort>> # x}
    /\ pass' = [pass EXCEPT !.clear = @ \ {x}]
    /\ UNCHANGED <<world, fresh, changes>>

\* What a row is about is no longer there.
Gone(r) == \/ r.sort \in {"hub", "summary"} /\ world.cards[r.key] = 0
           \/ r.sort = "profile" /\ world.cards[r.key[1]] = 0
           \/ r.sort = "assignment" /\ ~\E b \in world.blocks : <<b.chat, b.tier, b.n>> = r.key

\* The next insert, upsert or, for a score, update: a score whose card is gone updates
\* nothing, and any other such row breaks the pass.
Write ==
    /\ pass.at = "write" /\ pass.rows # <<>>
    /\ LET r == Head(pass.rows)
       IN  /\ <<r.owner, r.sort>> \notin pass.clear
           /\ r.sort = "hub" \/ ~Gone(r)
           /\ table' = IF Gone(r) THEN table
                       ELSE {s \in table : <<s.owner, s.sort>> # <<r.owner, r.sort>> \/ s.key # r.key} \cup {r}
    /\ pass' = [pass EXCEPT !.rows = Tail(@)]
    /\ UNCHANGED <<world, fresh, changes>>

\* A summary the model garbled is counted and left as it was.
Garbled ==
    /\ pass.at = "write" /\ pass.rows # <<>> /\ Head(pass.rows).sort = "summary"
    /\ pass' = [pass EXCEPT !.rows = Tail(@)]
    /\ fresh' = [fresh EXCEPT ![<<Head(pass.rows).owner, "summary">>] = "no"]
    /\ UNCHANGED <<world, table, changes>>

Finish ==
    /\ pass.at = "write" /\ pass.clear = {} /\ pass.rows = <<>>
    /\ pass' = [pass EXCEPT !.at = IF pass.todo = {} THEN "idle" ELSE "read"]
    /\ fresh' = [x \in Owners \X Sorts |-> IF fresh[x] = "read" THEN "yes" ELSE fresh[x]]
    /\ UNCHANGED <<world, table, changes>>

\* The process is killed, or a statement or the summarizer throws.
Crash ==
    /\ pass.at # "idle"
    /\ pass' = [pass EXCEPT !.at = "idle", !.todo = {}, !.clear = {}, !.rows = <<>>]
    /\ fresh' = [x \in Owners \X Sorts |-> IF fresh[x] = "read" THEN "no" ELSE fresh[x]]
    /\ UNCHANGED <<world, table, changes>>

\* What a pass does not read is left alone beside it.
CorpusNext ==
    \/ /\ pass.kind \in {"cooccurrence", "duplicates", "themes"}
       /\ \/ \E b \in Material : Remember(b)
          \/ \E c \in Chats : DeleteChat(c)
    \/ /\ pass.kind \in {"hubs", "duplicates", "summaries"}
       /\ \/ \E c \in Cards : EditCard(c) \/ DeleteCard(c) \/ EmbedAndStore(c)
          \/ pass.kind # "duplicates" /\ \E c \in Chats : DeleteChat(c)
    \/ Begin \/ ReadSources \/ Finish \/ Crash \/ Write \/ Garbled
    \/ \E x \in pass.clear : Clear(x)

-----------------------------------------------------------------------------
(* What they owe                                                           *)

\* A pass that has finished leaves an owner's rows what the sources make them, whatever
\* broke off before it; unless the sources have changed since it read them, or it did not
\* know of the owner: one whose last block went keeps the rows it had.
RollupsFollowSources ==
    \A x \in Owners \X Sorts : fresh[x] = "yes" =>
        {r \in table : <<r.owner, r.sort>> = x} = {r \in Rollup(pass.kind, world, x[1]) : r.sort = x[2]}

\* A fork adds nothing to what its owner's scenes are said to hold: without the blocks that
\* a chat shares with the one it was forked from, the counts are the same.
ForksCountOnce ==
    LET copied == {b \in world.blocks : \E d \in world.blocks :
                      d.chat = ParentOf[b.chat] /\ d.hash = b.hash /\ b.hash # "" /\ d.chat < b.chat}
    IN  pass.kind = "cooccurrence" => \A o \in Owners :
            Cooccurrence(world, o) = Cooccurrence([world EXCEPT !.blocks = @ \ copied], o)

\* Two chats are called forked if one descends from the other, or both from one that is
\* still there with all between.
Line(w, c) == LET Up[n \in 0..Cardinality(Chats)] ==
                      IF n = 0 THEN {c} ELSE Up[n - 1] \cup ({ParentOf[d] : d \in Up[n - 1]} \cap w.chats)
              IN  Up[Cardinality(Chats)]
ForksAreRelated ==
    pass.kind = "duplicates" => \A c, d \in world.chats :
        (ChatRelation(world, c, d) = "forked") = (Line(world, c) \cap Line(world, d) # {})
=============================================================================
