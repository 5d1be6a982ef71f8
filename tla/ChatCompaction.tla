---------------------------- MODULE ChatCompaction ----------------------------
(***************************************************************************)
(* src/server/domain/chat/compaction.ts: the lock-free core runCompaction, *)
(* entered at "compact.turn" by the manual compact or by send's managed    *)
(* trigger (both hold the lock), and the manual compact.                   *)
(***************************************************************************)
EXTENDS ChatTurn

BeginCompact(p) ==
  /\ Granted(p, "compact") /\ Live(chatOf(p))
  /\ chats[chatOf(p)].api = "agent-sdk" /\ chats[chatOf(p)].session # 0
  /\ pc' = [pc EXCEPT ![p] = "compact.turn"]
  /\ loc' = [loc EXCEPT ![p].row = chats[chatOf(p)], ![p].sid = chats[chatOf(p)].session]
  /\ UNCHANGED <<tables, queue, req, ids, used>>

\* Nothing to compact: an openrouter chat, or no session yet.
CompactNothing(p) ==
  /\ Granted(p, "compact") /\ Live(chatOf(p))
  /\ chats[chatOf(p)].api # "agent-sdk" \/ chats[chatOf(p)].session = 0
  /\ Leave(p)
  /\ UNCHANGED <<tables, ids, used>>

\* The /compact turn: the SDK writes a summary of the transcript behind it.
CompactTurn(p) ==
  /\ loc[p].sid \in DOMAIN sessions
  /\ At(p, "compact.turn", "compact.persist")
  /\ sessions' = Appended(loc[p].sid, chatOf(p),
                          <<Summary(Said(FramesOf(loc[p].sid)))>>)
  /\ UNCHANGED <<chats, messages, queue, req, loc, ids, used>>

\* Best effort: a TurnError leaves everything as it was.
CompactFails(p) ==
  /\ pc[p] = "compact.turn"
  /\ IF loc[p].sid \in DOMAIN sessions THEN CanFail /\ Spend("failures") ELSE UNCHANGED used
  /\ Leave(p)
  /\ UNCHANGED <<tables, ids>>

\* The chat is repointed; the summary and its anchor are kept when it is found.
CompactPersist(p) ==
  /\ pc[p] = "compact.persist"
  /\ \E found \in BOOLEAN :
       chats' = [chats EXCEPT
         ![chatOf(p)].session = loc[p].sid,
         ![chatOf(p)].summary = IF found THEN Said(FramesOf(loc[p].sid)) ELSE @,
         ![chatOf(p)].anchor = IF found THEN MaxSeq(chatOf(p)) ELSE @]
  /\ Leave(p)
  /\ UNCHANGED <<messages, sessions, ids, used>>

CompactStep(p) == CompactTurn(p) \/ CompactFails(p) \/ CompactPersist(p)
=============================================================================
