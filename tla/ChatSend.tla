------------------------------- MODULE ChatSend -------------------------------
(***************************************************************************)
(* src/server/domain/chat/send.ts.  The steps between its awaits:          *)
(*   wait -> send.insert -> send.turn -> send.reply -> send.persist        *)
(*        -> send.update -> (compact.turn ->) idle                         *)
(* and send.rollback for a generation that failed.  Prompt assembly,       *)
(* macros and memory retrieval write no table and are left out, and so are *)
(* the USER_INPUT scripts, which rewrite the text before it is stored or   *)
(* sent.  The AI_OUTPUT scripts run between the turn, whose reply the SDK  *)
(* has already put in the session, and the insert of that reply.           *)
(* The indexing started after the turn is in ChatMemory.                   *)
(***************************************************************************)
EXTENDS ChatCompaction

CONSTANT Managed        \* does the preset ask for managed compaction?

ASSUME ManagedAssumption == Managed \in BOOLEAN

\* Without the check of the tip.
BeginSendUnchecked(p) ==
  LET c == chatOf(p) IN
  /\ Granted(p, "send") /\ Live(c)
  /\ pc' = [pc EXCEPT ![p] = "send.insert"]
  /\ loc' = [loc EXCEPT ![p].row = chats[c], ![p].seq = MaxSeq(c) + 1]
  /\ UNCHANGED <<tables, queue, req, ids, used>>

\* Optimistic concurrency: the tip the client saw must still be the tip.
BeginSend(p) ==
  LET c == chatOf(p) IN
  /\ Granted(p, "send") /\ Live(c)
  /\ MaxSeq(c) = req[p].expected
  /\ pc' = [pc EXCEPT ![p] = "send.insert"]
  /\ loc' = [loc EXCEPT ![p].row = chats[c], ![p].seq = MaxSeq(c) + 1]
  /\ UNCHANGED <<tables, queue, req, ids, used>>

SendInsert(p) ==
  LET c == chatOf(p) IN
  /\ At(p, "send.insert", "send.turn")
  /\ CanInsert(c, loc[p].seq)
  /\ messages' = WithMessage(c, loc[p].seq, NewMessage("user", nextBody, 0))
  /\ nextBody' = nextBody + 1
  /\ UNCHANGED <<chats, sessions, queue, req, loc, nextSession, used>>

UserTurn(p) == Turn("user", messages[chatOf(p)][loc[p].seq].body)

SendStart(p) ==
  StartTurn(p, loc[p].row.session, UserTurn(p), "send.turn", "send.reply")
SendReply(p) == EndTurn(p, "send.reply", "send.persist")
SendFails(p) == \E here \in {"send.turn", "send.reply"} : FailTurn(p, here, "send.rollback")

\* With the turn at the anchor sent again.
ModelSeesAnchorTwice(p) ==
  LET row == loc[p].row IN
  IF row.api = "agent-sdk"
  THEN Said(FramesOf(row.session) \o <<UserTurn(p)>>)
  ELSE row.summary \o Said(History(chatOf(p), row.anchor - 1, MaxSeq(chatOf(p)) + 1))

\* What the model is about to be told: the resumed transcript and the new turn,
\* or, for openrouter, the summary and the canon after its anchor.
ModelSees(p) ==
  LET row == loc[p].row IN
  IF row.api = "agent-sdk"
  THEN Said(FramesOf(row.session) \o <<UserTurn(p)>>)
  ELSE row.summary \o Said(History(chatOf(p), row.anchor, MaxSeq(chatOf(p)) + 1))

\* Without the deletion.
SendRollbackNothing(p) ==
  /\ pc[p] = "send.rollback"
  /\ Leave(p)
  /\ UNCHANGED <<tables, ids, used>>

\* Atomic send: the generation failed, the user message goes.
SendRollback(p) ==
  /\ pc[p] = "send.rollback"
  /\ messages' = WithoutMessage(chatOf(p), loc[p].seq)
  /\ Leave(p)
  /\ UNCHANGED <<chats, sessions, ids, used>>

\* executeScripts on the reply: a script that matches rewrites what the canon gets.
AfterScripts(m) ==
  {m} \union (IF OutputScripts THEN {[m EXCEPT !.scripted = {m.body}]} ELSE {})

SendPersist(p) ==
  LET c == chatOf(p) IN
  /\ At(p, "send.persist", "send.update")
  /\ CanInsert(c, loc[p].seq + 1)
  /\ \E m \in AfterScripts(NewMessage("assistant", loc[p].body, 1)) :
       messages' = WithMessage(c, loc[p].seq + 1, m)
  /\ UNCHANGED <<chats, sessions, queue, req, loc, ids, used>>

\* The row read before the turn plus this turn; then the managed trigger.
SendUpdate(p) ==
  LET c == chatOf(p)
      row == loc[p].row
      session == IF row.api = "agent-sdk" THEN loc[p].sid ELSE chats[c].session
  IN
  /\ pc[p] = "send.update"
  /\ chats' = [chats EXCEPT ![c].session = session, ![c].count = row.count + 2,
                            ![c].total = row.total + 1]
  /\ \/ Leave(p)
     \/ /\ Managed /\ row.api = "agent-sdk"
        /\ pc' = [pc EXCEPT ![p] = "compact.turn"]
        /\ UNCHANGED <<queue, req, loc>>
  /\ UNCHANGED <<messages, sessions, ids, used>>

\* With the lock never released.
SendThrowsHolding(p) ==
  /\ pc[p] = "send.insert" /\ ~CanInsert(chatOf(p), loc[p].seq)
  /\ Return(p)
  /\ UNCHANGED <<tables, ids, used>>

\* With the rollback, by seq.
SendThrowsRollingBack(p) ==
  /\ pc[p] = "send.insert" /\ ~CanInsert(chatOf(p), loc[p].seq)
  /\ messages' = WithoutMessage(chatOf(p), loc[p].seq)
  /\ Leave(p)
  /\ UNCHANGED <<chats, sessions, ids, used>>

\* An insert the database refuses is no TurnError: it propagates, no rollback.
\* Only the first insert can collide; if the reply's could, its send would be
\* stuck at "send.persist" here and RequestsFinish would fail.
SendThrows(p) ==
  /\ pc[p] = "send.insert" /\ ~CanInsert(chatOf(p), loc[p].seq)
  /\ Leave(p)
  /\ UNCHANGED <<tables, ids, used>>

SendStep(p) ==
  \/ BeginSend(p) \/ SendInsert(p) \/ SendStart(p) \/ SendReply(p) \/ SendFails(p)
  \/ SendRollback(p) \/ SendPersist(p) \/ SendUpdate(p) \/ SendThrows(p)
=============================================================================
