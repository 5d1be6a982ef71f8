------------------------------- MODULE ChatSwipe -------------------------------
(***************************************************************************)
(* src/server/domain/chat/swipe.ts: swipe regenerates the tip as a new     *)
(* variant, selectVariant makes an existing variant the shown one.  The    *)
(* re-seeding of src/server/domain/chat/context/session.ts is here too;    *)
(* editMessage uses it as well.                                            *)
(***************************************************************************)
EXTENDS ChatTurn

\* The user turn the tip answers: the last one before it, if there is one.
UsersBefore(c, s) == {u \in Seqs(c) : u < s /\ messages[c][u].role = "user"}
RegenFrom(c, tip) == IF UsersBefore(c, tip) = {} THEN tip ELSE TopOf(UsersBefore(c, tip))
RegenPrompt(c, tip) ==
  IF UsersBefore(c, tip) = {} THEN Stub
  ELSE Turn("user", messages[c][RegenFrom(c, tip)].body)
\* With the prompt in the seed as well.
RegenHistoryWithPrompt(c, tip) == History(c, -1, tip)
\* The canon before that user turn.
RegenHistory(c, tip) == History(c, -1, RegenFrom(c, tip))

Tip(p) == loc[p].seq
TipRow(p) == messages[chatOf(p)][Tip(p)]

BeginSwipe(p) ==
  LET c == chatOf(p) IN
  /\ Granted(p, "swipe") /\ Live(c)
  /\ MaxSeq(c) = req[p].expected
  /\ Seqs(c) # {} /\ messages[c][MaxSeq(c)].role = "assistant"
  /\ pc' = [pc EXCEPT ![p] = "swipe.seed"]
  /\ loc' = [loc EXCEPT ![p].row = chats[c], ![p].seq = MaxSeq(c)]
  /\ UNCHANGED <<tables, queue, req, ids, used>>

\* agent-sdk: a fresh session seeded with the history, when there is any.
SwipeSeed(p) ==
  LET history == RegenHistory(chatOf(p), Tip(p)) IN
  /\ At(p, "swipe.seed", "swipe.turn")
  /\ IF OnAgentSdk(p) /\ history # <<>>
     THEN /\ sessions' = Appended(nextSession, chatOf(p), history)
          /\ loc' = [loc EXCEPT ![p].seeded = nextSession]
          /\ nextSession' = nextSession + 1
     ELSE UNCHANGED <<sessions, loc, nextSession>>
  /\ UNCHANGED <<chats, messages, queue, req, nextBody, used>>

SwipeStart(p) ==
  StartTurn(p, loc[p].seeded, RegenPrompt(chatOf(p), Tip(p)), "swipe.turn", "swipe.reply")
SwipeReply(p) == EndTurn(p, "swipe.reply", "swipe.backfill")
SwipeFails(p) ==
  \E here \in {"swipe.turn", "swipe.reply"} : FailTurn(p, here, "swipe.abandon")

\* A failed swipe changes nothing: the seeded frames go.
SwipeAbandon(p) ==
  /\ pc[p] = "swipe.abandon"
  /\ sessions' = DroppedAll({loc[p].seeded})
  /\ Leave(p)
  /\ UNCHANGED <<chats, messages, ids, used>>

\* The first swipe of a message keeps its text as variant 0.
SwipeBackfill(p) ==
  /\ At(p, "swipe.backfill", "swipe.variant")
  /\ messages' = IF TipRow(p).variants = <<>>
                 THEN [messages EXCEPT ![chatOf(p)][Tip(p)].variants = <<TipRow(p).body>>]
                 ELSE messages
  /\ UNCHANGED <<chats, sessions, queue, req, loc, ids, used>>

SwipeVariant(p) ==
  /\ At(p, "swipe.variant", "swipe.message")
  /\ messages' = [messages EXCEPT ![chatOf(p)][Tip(p)].variants = Append(@, loc[p].body)]
  /\ UNCHANGED <<chats, sessions, queue, req, loc, ids, used>>

\* With the index of the variant before the new one.
SwipeMessageOffByOne(p) ==
  /\ At(p, "swipe.message", "swipe.drop")
  /\ messages' = [messages EXCEPT ![chatOf(p)][Tip(p)] =
       [TipRow(p) EXCEPT !.active = Len(TipRow(p).variants) - 1, !.body = loc[p].body,
                         !.gens = @ + 1]]
  /\ UNCHANGED <<chats, sessions, queue, req, loc, ids, used>>

\* The message row follows the new variant.
SwipeMessage(p) ==
  /\ At(p, "swipe.message", "swipe.drop")
  /\ messages' = [messages EXCEPT ![chatOf(p)][Tip(p)] =
       [TipRow(p) EXCEPT !.active = Len(TipRow(p).variants), !.body = loc[p].body,
                         !.gens = @ + 1]]
  /\ UNCHANGED <<chats, sessions, queue, req, loc, ids, used>>

\* The sessions the regeneration replaced: the chat's old one, and the seeded
\* one when the SDK forked off it.
SwipeDrop(p) ==
  /\ At(p, "swipe.drop", "swipe.update")
  /\ sessions' = IF OnAgentSdk(p)
                 THEN DroppedAll({loc[p].row.session, loc[p].seeded} \ {loc[p].sid})
                 ELSE sessions
  /\ UNCHANGED <<chats, messages, queue, req, loc, ids, used>>

\* Without the tokens of the regeneration.
SwipeUpdateUncounted(p) ==
  /\ pc[p] = "swipe.update"
  /\ chats' = [chats EXCEPT ![chatOf(p)].session = IF OnAgentSdk(p) THEN loc[p].sid ELSE @]
  /\ Leave(p)
  /\ UNCHANGED <<messages, sessions, ids, used>>

SwipeUpdate(p) ==
  /\ pc[p] = "swipe.update"
  /\ chats' = [chats EXCEPT
       ![chatOf(p)].session = IF OnAgentSdk(p) THEN loc[p].sid ELSE @,
       ![chatOf(p)].total = loc[p].row.total + 1]
  /\ Leave(p)
  /\ UNCHANGED <<messages, sessions, ids, used>>

-----------------------------------------------------------------------------
(* reseedSdkSession, in three writes: the old session goes, a fresh one is *)
(* seeded from the canon, and the caller points the chat at it.            *)

ReseedDrop(p) ==
  /\ At(p, "reseed.drop", "reseed.seed")
  /\ sessions' = DroppedAll({loc[p].row.session})
  /\ UNCHANGED <<chats, messages, queue, req, loc, ids, used>>

SeedFromCanon(p, there) ==
  /\ pc' = [pc EXCEPT ![p] = there]
  /\ sessions' = Appended(nextSession, chatOf(p), StubFirst(Canon(chatOf(p))))
  /\ loc' = [loc EXCEPT ![p].sid = nextSession]
  /\ nextSession' = nextSession + 1

ReseedSeed(p) ==
  /\ pc[p] = "reseed.seed"
  /\ SeedFromCanon(p, "reseed.point")
  /\ UNCHANGED <<chats, messages, queue, req, nextBody, used>>

ReseedPoint(p) ==
  /\ pc[p] = "reseed.point"
  /\ chats' = [chats EXCEPT ![chatOf(p)].session = loc[p].sid]
  /\ Leave(p)
  /\ UNCHANGED <<messages, sessions, ids, used>>

\* With the old session left in place.
LeaveSeeded(p, row) == Leave(p)

\* Off agent-sdk there is no session to re-seed.
ReseedOrLeave(p, row) ==
  IF row.api = "agent-sdk"
  THEN /\ pc' = [pc EXCEPT ![p] = "reseed.drop"]
       /\ loc' = [loc EXCEPT ![p].row = row]
       /\ UNCHANGED <<queue, req>>
  ELSE Leave(p)

SelectVariant(p) ==
  LET c == chatOf(p)
      k == req[p].variant
  IN
  /\ Granted(p, "select") /\ Live(c)
  /\ \E s \in Named(c, req[p].msg) :
       /\ k \in DOMAIN messages[c][s].variants
       /\ messages' = [messages EXCEPT ![c][s].active = k,
                                       ![c][s].body = messages[c][s].variants[k]]
  /\ ReseedOrLeave(p, chats[c])
  /\ UNCHANGED <<chats, sessions, ids, used>>

SwipeStep(p) ==
  \/ BeginSwipe(p) \/ SwipeSeed(p) \/ SwipeStart(p) \/ SwipeReply(p) \/ SwipeFails(p)
  \/ SwipeAbandon(p) \/ SwipeBackfill(p) \/ SwipeVariant(p) \/ SwipeMessage(p)
  \/ SwipeDrop(p) \/ SwipeUpdate(p)
ReseedStep(p) == ReseedDrop(p) \/ ReseedSeed(p) \/ ReseedPoint(p)
=============================================================================
