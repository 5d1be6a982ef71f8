---------------------------- MODULE SearchRules ----------------------------
(***************************************************************************)
(* domain/search and the retrieval of a chat's memory: how the rows that a *)
(* vector index finds near a query become the hits one user is shown.  A   *)
(* row holds its distance to the query, its hub score if it has one, and   *)
(* what the cross-encoder thinks of its text, if it has a text.            *)
(***************************************************************************)
EXTENDS Integers, Sequences, FiniteSets, SequencesExt

CONSTANTS CslsFactor,      \* CSLS_POOL_FACTOR
          OwnerOverfetch,  \* OWNER_OVERFETCH
          DiscoverFactor, DiscoverCap, DiscoverSegments,
          Unit             \* the distance of two vectors at a right angle

NoHub  == -1
NoText == -1

\* What a table of the index holds.  A character's row has its own chat "".
Row(kind, id, owner, who, chat, tier, block, dist, hub, score) ==
    [kind |-> kind, id |-> id, owner |-> owner, who |-> who, chat |-> chat, tier |-> tier,
     block |-> block, dist |-> dist, hub |-> hub, score |-> score]

\* A stable sort: equal keys keep their order.
SortedBy(rows, Key(_)) ==
    LET keys == SetToSortSeq({Key(r) : r \in ToSet(rows)}, LAMBDA a, b : a < b)
    IN  FlattenSeq([i \in DOMAIN keys |-> SelectSeq(rows, LAMBDA r : Key(r) = keys[i])])
Capped(s, n) == SubSeq(s, 1, IF n < Len(s) THEN n ELSE Len(s))

-----------------------------------------------------------------------------
(* The index                                                               *)

\* vector_top_k: the n nearest rows of a table, whoever owns them.
TopK(table, n) ==
    Capped(SortedBy(SetToSortSeq(table, LAMBDA a, b : a.id < b.id), LAMBDA r : r.dist), n)

\* The WHERE of a search comes after: owner, altitude, chat or character.
Within(r, q) ==
    /\ q.owner \in {"", r.owner}
    /\ q.tier = "any" \/ (q.tier = "scene") = (r.tier = 0)
    /\ q.chat \in {"", r.chat}
    /\ q.chat # "" \/ q.who \in {"", r.who}

PoolSize(q) == Max({q.k * CslsFactor, IF q.owner # "" THEN q.k * OwnerOverfetch ELSE q.k})
Pool(table, q) == SelectSeq(TopK(table, PoolSize(q)), LAMBDA r : Within(r, q))

\* csls: a vector that is near to everything is moved away.
Csls(r) == IF r.hub = NoHub THEN r.dist ELSE Max({0, r.dist - Unit + r.hub})
ByCsls(rows) == SortedBy(rows, Csls)

\* applyRerank: what the cross-encoder can read in its order, the rest after it.
ApplyRerank(rows) ==
    SortedBy(rows, LAMBDA r : IF r.score = NoText THEN 1 ELSE -r.score)

-----------------------------------------------------------------------------
(* core.ts                                                                 *)

\* knn asks for an owner only: no chat, no character, no altitude.
Knn(w, q) ==
    LET any  == [q EXCEPT !.chat = "", !.who = "", !.tier = "any"]
        pool == ByCsls(Pool(w.characters, any) \o Pool(w.segments, any))
    IN  Capped(IF q.rerank THEN ApplyRerank(pool) ELSE pool, q.k)

\* find shows the hits whose card can be read; one that cannot be leaves a gap.
Find(w, q) == SelectSeq(Knn(w, q), LAMBDA r : r.who \in w.cards)

\* resolveSegmentDisplay is what scopes discover to its owner.
ResolveSegmentDisplay(w, rows, owner) ==
    SelectSeq(rows, LAMBDA r : r.who \in w.cards /\ owner \in {"", r.owner})

\* discover: the segments of the pool by character, best character first.
Discover(w, q) ==
    LET near   == ByCsls(TopK(w.segments, Min({q.k * DiscoverFactor, DiscoverCap})))
        ranked == ResolveSegmentDisplay(w, IF q.rerank THEN ApplyRerank(near) ELSE near, q.owner)
        firsts == SelectSeq([i \in DOMAIN ranked |-> i],
                            LAMBDA i : \A j \in 1..(i - 1) : ranked[j].who # ranked[i].who)
        Of(who) == SelectSeq(ranked, LAMBDA r : r.who = who)
        Found(who) == [who |-> who, matches |-> Len(Of(who)), best |-> Of(who)[1].dist,
                       segments |-> Capped(Of(who), DiscoverSegments)]
    IN  Capped([i \in DOMAIN firsts |-> Found(ranked[firsts[i]].who)], q.k)

-----------------------------------------------------------------------------
(* memory.ts                                                               *)

\* digests and segments: one table each.
SearchOne(table, q) ==
    LET pool == ByCsls(Pool(table, q))
    IN  Capped(IF q.rerank THEN ApplyRerank(pool) ELSE pool, q.k)
Digests(w, q)  == SearchOne(w.digests, q)
Segments(w, q) == SearchOne(w.segments, q)

\* Mutant: a block is known by its number, whatever its tier.
FlatBlock(r) == <<r.chat, r.block>>

\* A scene's digest and its segment are two lenses on one block.
Block(r) == <<r.chat, r.tier, r.block>>

\* corpus: both tables in one ranking, and of a block the lens that ranks better.
Corpus(w, q) ==
    LET both == Pool(w.digests, q) \o Pool(w.segments, q)
        ranked == IF q.rerank THEN ApplyRerank(both) ELSE ByCsls(both)
        kept == SelectSeq([i \in DOMAIN ranked |-> i],
                          LAMBDA i : \A j \in 1..(i - 1) : Block(ranked[j]) # Block(ranked[i]))
    IN  Capped([i \in DOMAIN kept |-> ranked[kept[i]]], q.k)

-----------------------------------------------------------------------------
(* memory/retrieve.ts: the digests of one chat for its next turn.  m is    *)
(* the memory's configuration; a digest holds its cosine to the recent     *)
(* conversation, NoText if it was never embedded, and whether one of its   *)
(* keywords was said.                                                      *)

Bridge(digests) ==
    SortedBy(SetToSortSeq({d \in digests : \A c \in digests :
                 ~(c.tier > d.tier /\ c.from <= d.from /\ c.to >= d.to)},
             LAMBDA a, b : a.id < b.id), LAMBDA d : d.from)

\* Recency, in the scale of the cosines; integer division keeps the order it stands for.
Recency(d, bridge, m) ==
    LET last == Max({1} \cup {bridge[i].from : i \in DOMAIN bridge})
    IN  (m.recencyBias * d.from) \div last

\* What is near enough, then what a keyword calls for, best first.
Scored(bridge, m) ==
    LET near   == SelectSeq(bridge, LAMBDA d : d.cosine # NoText /\ d.cosine >= m.minScore)
        called == SelectSeq(bridge, LAMBDA d : m.keywordMatch /\ d.called /\ d \notin ToSet(near))
        Score(d) == (IF d \in ToSet(near) THEN d.cosine ELSE m.minScore) + Recency(d, bridge, m)
    IN  SortedBy(near \o called, LAMBDA d : -Score(d))

\* mixC has the cross-encoder read what mixB would show.
Reread(chosen, m) ==
    IF m.mode = "mixC" THEN Capped(SortedBy(chosen, LAMBDA d : -d.score), m.rerankTo) ELSE chosen

RetrieveMemory(digests, said, m) ==
    LET bridge == Bridge(digests)
    IN  CASE ~m.enabled \/ m.mode = "off" -> <<>>
          [] m.enabled /\ m.mode = "mixA" -> SortedBy(SetToSortSeq({d \in digests : d.tier = 0},
                                                LAMBDA a, b : a.id < b.id), LAMBDA d : d.from)
          [] m.enabled /\ (m.mode = "tiered" \/ (m.mode \in {"mixB", "mixC"} /\ ~said)) -> bridge
          [] OTHER -> SortedBy(Reread(Capped(Scored(bridge, m), m.retrieveK), m), LAMBDA d : d.from)

-----------------------------------------------------------------------------
(* What they owe                                                           *)

\* The table is larger than what a search of it looks at.
Crowded(w, n) == \E t \in {w.characters, w.segments, w.digests} : Cardinality(t) > n
DiscoverPool(q) == Min({q.k * DiscoverFactor, DiscoverCap})
Own(w, owner) == [w EXCEPT !.characters = {r \in @ : r.owner = owner},
                           !.segments = {r \in @ : r.owner = owner},
                           !.digests = {r \in @ : r.owner = owner}]

\* A user is shown rows of their own; and what others own changes nothing, unless a table
\* is so full that their rows take the places of nearer ones before the owner is asked for.
OthersDoNotShow(w, q) ==
    LET mine == Own(w, q.owner)
        Mine(hits) == \A i \in DOMAIN hits : hits[i].owner = q.owner
    IN  /\ Mine(Knn(w, q)) /\ Mine(Find(w, q)) /\ Mine(Digests(w, q)) /\ Mine(Segments(w, q)) /\ Mine(Corpus(w, q))
        /\ \A i \in DOMAIN Discover(w, q) : Mine(Discover(w, q)[i].segments)
        /\ ~Crowded(w, PoolSize(q)) =>
              /\ Knn(w, q) = Knn(mine, q) /\ Find(w, q) = Find(mine, q) /\ Digests(w, q) = Digests(mine, q)
              /\ Segments(w, q) = Segments(mine, q) /\ Corpus(w, q) = Corpus(mine, q)
        /\ ~Crowded(w, DiscoverPool(q)) => Discover(w, q) = Discover(mine, q)

\* What is not shown is not in the pool, or k hits rank at least as well.
NothingBetterHidden(w, q) ==
    LET hits == Segments(w, [q EXCEPT !.rerank = FALSE])
    IN  \A r \in w.segments : Within(r, q) =>
            \/ r \in ToSet(hits)
            \/ r \notin ToSet(TopK(w.segments, PoolSize(q)))
            \/ Len(hits) = q.k /\ \A i \in DOMAIN hits : Csls(hits[i]) <= Csls(r)

\* The ways of asking agree: the corpus of one lens is that lens; every block that either
\* lens finds is there, once, by the lens that ranks better; the reranker only reorders; and
\* the character to discover first is the one of the best segment.
LensesAgree(w, q) ==
    LET all == [q EXCEPT !.k = Cardinality(w.segments) + Cardinality(w.digests)]
        both == Corpus(w, all)
        Blocks(hits) == {Block(hits[i]) : i \in DOMAIN hits}
    IN  /\ Corpus([w EXCEPT !.digests = {}], q) = Segments(w, q)
        /\ Corpus([w EXCEPT !.segments = {}], q) = Digests(w, q)
        /\ Blocks(both) = Blocks(Digests(w, all)) \cup Blocks(Segments(w, all))
        /\ Cardinality(Blocks(both)) = Len(both)
        /\ ~q.rerank => \A i \in DOMAIN both : \A r \in w.segments \cup w.digests :
              Within(r, q) /\ Block(r) = Block(both[i]) => Csls(both[i]) <= Csls(r)
        /\ ToSet(Knn(w, all)) = ToSet(Knn(w, [all EXCEPT !.rerank = ~@]))
        /\ LET met  == Discover(w, q)
                best == Segments(w, [q EXCEPT !.chat = "", !.who = ""])
            IN /\ Cardinality({met[i].who : i \in DOMAIN met}) = Len(met)
               /\ ~Crowded(w, DiscoverPool(q)) /\ ~Crowded(w, PoolSize(q)) =>
                     (best # <<>> /\ best[1].who \in w.cards => met[1].who = best[1].who)

\* A memory is told in order and no span of the chat twice; the reranker only chooses among
\* what was retrieved; and how recent a digest is decides on its rank, never on whether it
\* is near enough.
MemoryTold(digests, m) ==
    LET told  == RetrieveMemory(digests, TRUE, m)
        roomy == [m EXCEPT !.retrieveK = Cardinality(digests), !.mode = "mixB"]
    IN  /\ \A i \in 1..(Len(told) - 1) : told[i].to < told[i + 1].from
        /\ m.mode = "mixC" => ToSet(told) \subseteq ToSet(RetrieveMemory(digests, TRUE, [m EXCEPT !.mode = "mixB"]))
        /\ RetrieveMemory(digests, TRUE, roomy) = RetrieveMemory(digests, TRUE, [roomy EXCEPT !.recencyBias = 0])
=============================================================================
