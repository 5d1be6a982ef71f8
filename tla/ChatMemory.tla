------------------------------ MODULE ChatMemory ------------------------------
(***************************************************************************)
(* src/server/domain/chat/memory: the index a chat keeps over its canon.   *)
(* After a turn, generateDigests and generateSegments bring chat_digests   *)
(* and chat_segments up to date in the background, without the chat's      *)
(* lock: sends, edits, swipes and restarts go on meanwhile.                *)
(*                                                                         *)
(* One chat is modelled; chats share nothing here.  A text is a number, 0  *)
(* is a blank one.  What a summary says is the set of <<seq, text>> it was *)
(* made from.  A message, a digest and a segment have one shape, an entry: *)
(* the span it covers, what it says, and when it was written (0: never     *)
(* edited); a digest is made from entries of the tier below.               *)
(***************************************************************************)
EXTENDS Integers, Sequences, FiniteSets

CONSTANTS Settings,     \* the memory settings a preset may have
          Deployments,  \* which of "digests" and "segments" a server may have on
          GivenSeqs,    \* messages of the chat when it is first looked at
          MaxSeqs,      \* bound on the messages of the chat
          MaxEdits,     \* bound on edits and swipes together
          MaxFailures,  \* bound on failed turns, summaries and generations
          MaxCrashes    \* bound on restarts

Setting == [blockSize : Nat \ {0}, verbatimWindow : Nat, fanOut : Nat \ {0}, maxTier : Nat]

ASSUME SettingsAssumption == Settings \subseteq Setting
ASSUME MemoryBoundsAssumption ==
  /\ {GivenSeqs, MaxSeqs, MaxEdits, MaxFailures, MaxCrashes} \subseteq Nat
  /\ GivenSeqs <= MaxSeqs
ASSUME DeploymentsAssumption == Deployments \subseteq SUBSET {"digests", "segments"}

VARIABLES background,   \* what this server generates (memory.enabled, CORPUS_AUTOINDEX)
          canon,        \* seq -> [text, edited]
          answering,    \* is a send between its user row and its reply?
          digests,      \* <<tier, blockIdx>> -> entry of chat_digests
          segments,     \* blockIdx -> entry of chat_segments
          run,          \* the call of generateDigests in flight
          indexing,     \* the call of generateSegments in flight
          clock,        \* Date.now(); every stamp is later than the one before
          nextText,
          used,         \* how many edits, failures and crashes there were
          silent        \* history: the seqs that changed where no stamp tells

vars ==
  <<background, canon, answering, digests, segments, run, indexing, clock, nextText, used, silent>>
chatVars == <<background, canon, answering, nextText>>
tables == <<digests, segments>>

Entry == [from : Nat, to : Nat, says : SUBSET (Nat \X Nat), at : Nat]

MaxOf(S) == CHOOSE n \in S : \A m \in S : m <= n
Least(S) == CHOOSE n \in S : \A m \in S : n <= m
Without(f, gone) == [x \in DOMAIN f \ gone |-> f[x]]

-----------------------------------------------------------------------------
(* Reading and cutting.                                                    *)

\* loadHistory: the messages in order, without the blank ones.
History ==
  LET entry(s) == [from |-> s, to |-> s, says |-> {<<s, canon[s].text>>}, at |-> canon[s].edited]
  IN  SelectSeq([s \in 1..Len(canon) |-> entry(s)], LAMBDA e : \A x \in e.says : x[2] # 0)

\* Wrong: the oldest message of the window is digested too.
OlderByOne(rows, window) ==
  SelectSeq(rows, LAMBDA e : e.to <= rows[Len(rows)].to - window + 1)
\* The messages old enough to be digested: those behind the verbatim window.
Older(rows, window) ==
  SelectSeq(rows, LAMBDA e : e.to <= rows[Len(rows)].to - window)

\* chunk: blocks of size entries, the last one possibly short; indexed from 0.
Chunk(es, size) ==
  [i \in 0..((Len(es) + size - 1) \div size) - 1 |->
     SubSeq(es, i * size + 1, IF (i + 1) * size < Len(es) THEN (i + 1) * size ELSE Len(es))]

\* The digests of a tier, by blockIdx.
TierOf(t) ==
  LET idxs == {k[2] : k \in {k \in DOMAIN digests : k[1] = t}}
      nth(n) == CHOOSE i \in idxs : Cardinality({j \in idxs : j < i}) = n - 1
  IN  [n \in 1..Cardinality(idxs) |-> digests[t, nth(n)]]

\* What a tier is made from: blocks of old messages, or full groups of the
\* digests one tier below, in the order of their blockIdx (holes close up).
Blocks(t) ==
  IF t = 0 THEN Chunk(Older(run.rows, run.set.verbatimWindow), run.set.blockSize)
  ELSE LET groups == Chunk(TierOf(t - 1), run.set.fanOut)
       IN  [i \in {i \in DOMAIN groups : Len(groups[i]) = run.set.fanOut} |-> groups[i]]

Members(es) == {es[i] : i \in 1..Len(es)}
\* The entry a block becomes when it is written at a time.
Merged(es, at) ==
  [from |-> es[1].from, to |-> es[Len(es)].to, says |-> UNION {e.says : e \in Members(es)},
   at |-> at]

\* Wrong: the span alone.
StaleSpan(es, prev) == prev.from # es[1].from \/ prev.to # es[Len(es)].to
\* A block is stale when its span changed, or a member was written after it.
Stale(es, prev) ==
  \/ prev.from # es[1].from \/ prev.to # es[Len(es)].to
  \/ \E e \in Members(es) : e.at > prev.at

\* The blocks to make again, given the entries there are of them.
Dirty(blocks, prev) ==
  {i \in DOMAIN blocks : i \notin DOMAIN prev \/ Stale(blocks[i], prev[i])}

-----------------------------------------------------------------------------
(* The calls in flight.  "done" is where they return; what follows is the  *)
(* finally that lets the next call in.                                     *)

NoCall == [step |-> "idle", set |-> CHOOSE s \in Settings : TRUE, tier |-> 0, rows |-> <<>>,
         pending |-> {}, at |-> 0, skipped |-> FALSE]

\* A call finds the chat's guard set and returns at once, or starts.
Called(call, set) == IF call.step = "idle" THEN [NoCall EXCEPT !.step = "load", !.set = set] ELSE call

Init ==
  /\ background \in Deployments
  /\ canon = [s \in 1..GivenSeqs |-> [text |-> s, edited |-> 0]]
  /\ answering = FALSE
  /\ digests = <<>> /\ segments = <<>>
  /\ run = NoCall /\ indexing = NoCall
  /\ clock = 0 /\ nextText = GivenSeqs + 1
  /\ used = [edits |-> 0, failures |-> 0, crashes |-> 0]
  /\ silent = {}

Spend(what, max) == used[what] < max /\ used' = [used EXCEPT ![what] = @ + 1]

-----------------------------------------------------------------------------
(* The chat, behind its lock.                                              *)

Append1 == canon' = Append(canon, [text |-> nextText, edited |-> 0]) /\ nextText' = nextText + 1

SendInsert ==
  /\ ~answering /\ Len(canon) + 2 <= MaxSeqs
  /\ Append1
  /\ answering' = TRUE
  /\ UNCHANGED <<background, tables, run, indexing, clock, used, silent>>

\* The reply is in: both generations are called and not waited for.
SendReply ==
  /\ answering
  /\ Append1
  /\ answering' = FALSE
  /\ \E set \in Settings :
       /\ run' = IF "digests" \in background THEN Called(run, set) ELSE run
       /\ indexing' = IF "segments" \in background THEN Called(indexing, set) ELSE indexing
  /\ UNCHANGED <<background, tables, clock, used, silent>>

\* The turn failed: the user row goes, its seq will be used again.
SendRollback ==
  /\ answering
  /\ Spend("failures", MaxFailures)
  /\ silent' = silent \union {Len(canon)}
  /\ canon' = SubSeq(canon, 1, Len(canon) - 1)
  /\ answering' = FALSE
  /\ UNCHANGED <<background, tables, run, indexing, clock, nextText>>

Loaded(call) == call.step \notin {"idle", "load"}

\* An edit, to another text or to a blank one.
Edit(s) ==
  /\ ~answering
  /\ Spend("edits", MaxEdits)
  /\ clock' = clock + 1
  /\ \E text \in {0, nextText} : canon' = [canon EXCEPT ![s] = [text |-> text, edited |-> clock + 1]]
  /\ nextText' = nextText + 1
  /\ silent' = IF Loaded(run) \/ Loaded(indexing) THEN silent \union {s} ELSE silent
  /\ UNCHANGED <<background, answering, tables, run, indexing>>

\* A swipe or the choice of a variant: the text changes, editedAt does not.
Swipe(s) ==
  /\ ~answering
  /\ Spend("edits", MaxEdits)
  /\ canon[s].text # 0
  /\ canon' = [canon EXCEPT ![s].text = nextText]
  /\ nextText' = nextText + 1
  /\ silent' = silent \union {s}
  /\ UNCHANGED <<background, answering, tables, run, indexing, clock>>

-----------------------------------------------------------------------------
(* generateDigests: tier by tier, summaries first, then one embedding pass *)
(* that stamps them, the writes one by one, and the pruning of the tier.   *)

DigestLoad ==
  LET older == Older(History, run.set.verbatimWindow) IN
  /\ run.step = "load"
  /\ run' = IF Len(older) < run.set.blockSize THEN NoCall
            ELSE [run EXCEPT !.step = "summarize", !.rows = History]
  /\ UNCHANGED <<chatVars, tables, indexing, clock, used, silent>>

\* The blocks the summarizer is asked for; an answer it garbles is skipped.
Summarize ==
  LET t == run.tier
      written == {k[2] : k \in {k \in DOMAIN digests : k[1] = t}}
      dirty == Dirty(Blocks(t), [i \in written |-> digests[t, i]])
  IN
  /\ run.step = "summarize"
  /\ \E garbled \in SUBSET dirty :
       /\ used.failures + Cardinality(garbled) <= MaxFailures
       /\ used' = [used EXCEPT !.failures = @ + Cardinality(garbled)]
       /\ run' = [run EXCEPT
            !.step = IF dirty = garbled THEN "prune" ELSE "embed",
            !.pending = dirty \ garbled,
            !.skipped = @ \/ garbled # {}]
  /\ UNCHANGED <<chatVars, tables, indexing, clock, silent>>

Embed ==
  /\ run.step = "embed"
  /\ clock' = clock + 1
  /\ run' = [run EXCEPT !.step = "write", !.at = clock + 1]
  /\ UNCHANGED <<chatVars, tables, indexing, used, silent>>

\* embedAndUpsert: one row at a time, by blockIdx.
WriteDigest ==
  LET t == run.tier
      i == Least(run.pending)
      row == Merged(Blocks(t)[i], run.at)
  IN
  /\ run.step = "write"
  /\ digests' = [k \in DOMAIN digests \union {<<t, i>>} |->
                   IF k = <<t, i>> THEN row ELSE digests[k]]
  /\ run' = [run EXCEPT !.pending = @ \ {i}, 
                       !.step = IF run.pending = {i} THEN "prune" ELSE "write"]
  /\ UNCHANGED <<chatVars, segments, indexing, clock, used, silent>>

\* Wrong: without the deletion.
PruneNothing ==
  /\ run.step = "prune"
  /\ run' = IF run.tier < run.set.maxTier
            THEN [run EXCEPT !.step = "summarize", !.tier = @ + 1]
            ELSE [run EXCEPT !.step = "trim"]
  /\ UNCHANGED <<chatVars, tables, indexing, clock, used, silent>>

\* The grid may have shrunk: rows behind its last block go, then the next tier.
PruneDigests ==
  LET t == run.tier IN
  /\ run.step = "prune"
  /\ digests' = Without(digests, {k \in DOMAIN digests : k[1] = t /\ k[2] \notin DOMAIN Blocks(t)})
  /\ run' = IF t < run.set.maxTier
            THEN [run EXCEPT !.step = "summarize", !.tier = t + 1]
            ELSE [run EXCEPT !.step = "trim"]
  /\ UNCHANGED <<chatVars, segments, indexing, clock, used, silent>>

\* Tiers above the last one go: maxTier may have been lowered.
TrimDigests ==
  /\ run.step = "trim"
  /\ digests' = Without(digests, {k \in DOMAIN digests : k[1] > run.set.maxTier})
  /\ run' = [run EXCEPT !.step = "done"]
  /\ UNCHANGED <<chatVars, segments, indexing, clock, used, silent>>

\* The summarizer, the embedder or the database throws; or the chat is gone.
DigestsThrow ==
  /\ run.step \notin {"idle", "done"}
  /\ Spend("failures", MaxFailures)
  /\ run' = NoCall
  /\ UNCHANGED <<chatVars, tables, indexing, clock, silent>>

DigestsReturn ==
  /\ run.step = "done"
  /\ run' = NoCall
  /\ UNCHANGED <<chatVars, tables, indexing, clock, used, silent>>

-----------------------------------------------------------------------------
(* generateSegments: the whole chat in blocks, verbatim.  The grid is      *)
(* pruned before anything is embedded.                                     *)

SegmentBlocks == Chunk(indexing.rows, indexing.set.blockSize)

SegmentsLoad ==
  /\ indexing.step = "load"
  /\ indexing' = IF History = <<>> THEN NoCall
                 ELSE [indexing EXCEPT !.step = "prune", !.rows = History]
  /\ UNCHANGED <<chatVars, tables, run, clock, used, silent>>

\* Wrong: the segments behind the last block stay.
SegmentsPruneNothing ==
  /\ indexing.step = "prune"
  /\ LET dirty == Dirty(SegmentBlocks, segments) IN
       indexing' = [indexing EXCEPT !.pending = dirty,
                                    !.step = IF dirty = {} THEN "done" ELSE "embed"]
  /\ UNCHANGED <<chatVars, tables, run, clock, used, silent>>

SegmentsPrune ==
  /\ indexing.step = "prune"
  /\ LET dirty == Dirty(SegmentBlocks, segments) IN
       indexing' = [indexing EXCEPT !.pending = dirty,
                                    !.step = IF dirty = {} THEN "done" ELSE "embed"]
  /\ segments' = Without(segments, DOMAIN segments \ DOMAIN SegmentBlocks)
  /\ UNCHANGED <<chatVars, digests, run, clock, used, silent>>

SegmentsEmbed ==
  /\ indexing.step = "embed"
  /\ clock' = clock + 1
  /\ indexing' = [indexing EXCEPT !.step = "write", !.at = clock + 1]
  /\ UNCHANGED <<chatVars, tables, run, used, silent>>

WriteSegment ==
  LET i == Least(indexing.pending)
      row == Merged(SegmentBlocks[i], indexing.at)
  IN
  /\ indexing.step = "write"
  /\ segments' = [k \in DOMAIN segments \union {i} |-> IF k = i THEN row ELSE segments[k]]
  /\ indexing' = [indexing EXCEPT !.pending = @ \ {i},
                     !.step = IF indexing.pending = {i} THEN "done" ELSE "write"]
  /\ UNCHANGED <<chatVars, digests, run, clock, used, silent>>

SegmentsThrow ==
  /\ indexing.step \notin {"idle", "done"}
  /\ Spend("failures", MaxFailures)
  /\ indexing' = NoCall
  /\ UNCHANGED <<chatVars, tables, run, clock, silent>>

SegmentsReturn ==
  /\ indexing.step = "done"
  /\ indexing' = NoCall
  /\ UNCHANGED <<chatVars, tables, run, clock, used, silent>>

-----------------------------------------------------------------------------
\* The process ends: what is in memory goes, the user row of a turn stays.
Restart ==
  /\ Spend("crashes", MaxCrashes)
  /\ run.step # "idle" \/ indexing.step # "idle" \/ answering
  /\ run' = NoCall /\ indexing' = NoCall
  /\ answering' = FALSE
  /\ UNCHANGED <<background, canon, nextText, tables, clock, silent>>

Digesting ==
  \/ DigestLoad \/ Summarize \/ Embed \/ WriteDigest \/ PruneDigests \/ TrimDigests
  \/ DigestsThrow \/ DigestsReturn
Segmenting ==
  \/ SegmentsLoad \/ SegmentsPrune \/ SegmentsEmbed \/ WriteSegment
  \/ SegmentsThrow \/ SegmentsReturn

Next ==
  \/ SendInsert \/ SendReply \/ SendRollback
  \/ \E s \in 1..Len(canon) : Edit(s) \/ Swipe(s)
  \/ Digesting \/ Segmenting
  \/ Restart

Spec == Init /\ [][Next]_vars

-----------------------------------------------------------------------------
(* retrieveMemory.                                                         *)

\* Wrong: a digest covers itself.
CoveredBySelf(k) ==
  \E c \in DOMAIN digests :
    c[1] >= k[1] /\ digests[c].from <= digests[k].from /\ digests[c].to >= digests[k].to
Covered(k) ==
  \E c \in DOMAIN digests :
    c[1] > k[1] /\ digests[c].from <= digests[k].from /\ digests[c].to >= digests[k].to

\* What mode "tiered" tells, and what the query-driven modes choose from.
Uncovered == {k \in DOMAIN digests : ~Covered(k)}

-----------------------------------------------------------------------------
\* The call's view of the chat is still the chat: nobody wrote meanwhile.
Undisturbed(call) == call.step = "done" /\ call.rows = History

\* Messages edited to blank inside an entry's span: loadHistory drops them, and
\* with them their stamps; the ends of the span stay, so the entry may too.
Buried(e) == {s \in 1..Len(canon) : canon[s].text = 0 /\ e.from < s /\ s < e.to}
\* What an entry says of the seqs whose changes leave a stamp or move its span.
Tells(e) == {x \in e.says : x[1] \notin silent \union Buried(e)}
TextOf(s) == <<s, canon[s].text>>

\* The messages there are to tell, and those of them behind the verbatim window.
Talk == {s \in 1..Len(canon) : canon[s].text # 0}
Aged(set) == {s \in Talk : s + set.verbatimWindow <= MaxOf(Talk)}

\* Block i of a tier in closed form: a tier's blocks are fanOut times as wide as
\* those below, and only the lowest tier has a short last one.
Share(S, width, i) == {s \in S : Cardinality({r \in S : r < s}) \div width = i}
Shares(S, width) == (Cardinality(S) + width - 1) \div width
Width(set, t) == set.blockSize * set.fanOut ^ t
Grid(set) ==
  UNION {{<<t, i>> : i \in 0..(Shares(Aged(set), set.blockSize) \div set.fanOut ^ t) - 1}
           : t \in 0..set.maxTier}

(***************************************************************************)
(* "(Re)build this chat's digests from canon" (memory/db.ts:208): after a  *)
(* call that lost no summary and met no change, the table is exactly the   *)
(* grid of the canon, each digest says its share of it, and every tier     *)
(* agrees with the one below.  This whatever edits, skipped summaries,     *)
(* changed settings, throws and restarts came before.  The texts that      *)
(* change without a stamp (silent), or that were blanked in the middle of  *)
(* a span (Buried), are excepted: they may stay as they were.              *)
(***************************************************************************)
RebuiltFromCanon ==
  Undisturbed(run) /\ ~run.skipped =>
    /\ DOMAIN digests = Grid(run.set)
    /\ \A k \in DOMAIN digests :
         Tells(digests[k]) = {TextOf(s) : s \in Share(Aged(run.set), Width(run.set, k[1]), k[2]) \ silent}

(***************************************************************************)
(* The bridge is "coarse-old + fine-recent" (retrieve.ts:41): after such a *)
(* call, every message behind the verbatim window is told by exactly one   *)
(* digest of it, and no message within the window by any.                  *)
(***************************************************************************)
BridgeTellsOnce ==
  Undisturbed(run) /\ ~run.skipped =>
    \A s \in Talk :
      Cardinality({k \in Uncovered : s \in digests[k].from..digests[k].to})
        = (IF s \in Aged(run.set) THEN 1 ELSE 0)

(***************************************************************************)
(* A segment is its block's raw messages, verbatim, and the segments cover *)
(* the whole chat (search.ts:156, generate.ts:232-235), after a call that  *)
(* met no change; again but for the silent and the buried seqs.            *)
(***************************************************************************)
SegmentsVerbatim ==
  LET size == indexing.set.blockSize IN
  Undisturbed(indexing) =>
    /\ DOMAIN segments = 0..Shares(Talk, size) - 1
    /\ \A i \in DOMAIN segments :
         Tells(segments[i]) = {TextOf(s) : s \in Share(Talk, size, i) \ silent}
=============================================================================
