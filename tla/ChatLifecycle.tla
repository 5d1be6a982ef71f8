----------------------------- MODULE ChatLifecycle -----------------------------
(***************************************************************************)
(* src/server/domain/chat/lifecycle.ts: startChat with its two ways to     *)
(* begin (the user's message, through send, or a generated opening), the   *)
(* in-place edit, the deletion and the one-field updates.                  *)
(*                                                                         *)
(* startChat and generateOpening run OUTSIDE the chat's lock; the client   *)
(* may already know the chat's id, which it can supply.                    *)
(***************************************************************************)
EXTENDS ChatSend, ChatSwipe

\* The chat row of a start request; a greeting is written only before a message.
StartRow(p) ==
  LET c == chatOf(p) IN
  /\ pc[p] = "start.row"
  /\ IF chats[c].status = "absent"
     THEN /\ chats' = [chats EXCEPT ![c] = NewChat(req[p].api)]
          /\ pc' = [pc EXCEPT ![p] = CASE req[p].kind = "start.opening" -> "open.load"
                                       [] req[p].kind = "start.greeting" -> "greet.insert"
                                       [] OTHER -> "start.send"]
          /\ UNCHANGED <<queue, req, loc>>
     ELSE Return(p) /\ UNCHANGED chats
  /\ UNCHANGED <<messages, sessions, ids, used>>

\* seedGreeting: the greeting as seq 1, its session, the chat pointed at it.
GreetInsert(p) ==
  LET c == chatOf(p) IN
  /\ pc[p] = "greet.insert"
  /\ IF CanInsert(c, 1)
     THEN /\ messages' = WithMessage(c, 1, NewMessage("assistant", nextBody, 0))
          /\ nextBody' = nextBody + 1
          /\ pc' = [pc EXCEPT ![p] =
               IF req[p].api = "agent-sdk" THEN "greet.seed" ELSE "greet.update"]
          /\ loc' = [loc EXCEPT ![p].body = nextBody]
          /\ UNCHANGED <<queue, req>>
     ELSE Return(p) /\ UNCHANGED <<messages, nextBody>>
  /\ UNCHANGED <<chats, sessions, nextSession, used>>

GreetSeed(p) ==
  /\ At(p, "greet.seed", "greet.update")
  /\ Live(chatOf(p))
  /\ sessions' = Appended(nextSession, chatOf(p), <<Stub, Turn("assistant", loc[p].body)>>)
  /\ loc' = [loc EXCEPT ![p].sid = nextSession]
  /\ nextSession' = nextSession + 1
  /\ UNCHANGED <<chats, messages, queue, req, nextBody, used>>

\* The chat was deleted under the greeting: the frames have no chat to refer to.
GreetThrows(p) ==
  /\ pc[p] = "greet.seed" /\ ~Live(chatOf(p))
  /\ Return(p)
  /\ UNCHANGED <<tables, ids, used>>

GreetUpdate(p) ==
  LET c == chatOf(p) IN
  /\ At(p, "greet.update", "start.send")
  /\ chats' = IF Live(c)
              THEN [chats EXCEPT ![c].count = 1,
                      ![c].session = IF req[p].api = "agent-sdk" THEN loc[p].sid ELSE @]
              ELSE chats
  /\ UNCHANGED <<messages, sessions, queue, req, loc, ids, used>>

\* The first turn is an ordinary send, behind what startChat wrote.
StartSend(p) ==
  LET c == chatOf(p) IN
  /\ At(p, "start.send", "wait")
  /\ req' = [req EXCEPT ![p].kind = "send", ![p].seen = Shown(c),
                        ![p].expected = IF req[p].kind = "start.greeting" THEN 1 ELSE 0]
  /\ loc' = [loc EXCEPT ![p] = NoLocals]
  /\ queue' = [queue EXCEPT ![c] = Append(@, p)]
  /\ UNCHANGED <<tables, ids, used>>

-----------------------------------------------------------------------------
(* generateOpening: a turn with a hidden prompt, its reply becomes seq 1.  *)

OpenLoad(p) ==
  /\ pc[p] = "open.load"
  /\ IF Live(chatOf(p))
     THEN /\ pc' = [pc EXCEPT ![p] = "open.turn"]
          /\ loc' = [loc EXCEPT ![p].row = chats[chatOf(p)]]
          /\ UNCHANGED <<queue, req>>
     ELSE Return(p)
  /\ UNCHANGED <<tables, ids, used>>

OpenStart(p) ==
  /\ pc[p] = "open.turn" /\ Live(chatOf(p))
  /\ StartTurn(p, 0, Stub, "open.turn", "open.reply")
OpenReply(p) ==
  /\ pc[p] = "open.reply" /\ Live(chatOf(p))
  /\ EndTurn(p, "open.reply", "open.insert")

\* Graceful: a failed opening leaves the chat blank.  The turn of a chat that
\* was deleted meanwhile fails too, its frames have no chat to refer to.
OpenFails(p) ==
  /\ pc[p] \in {"open.turn", "open.reply"}
  /\ IF Live(chatOf(p)) THEN CanFail /\ Spend("failures") ELSE UNCHANGED used
  /\ Return(p)
  /\ UNCHANGED <<tables, ids>>

\* With the opening behind whatever came meanwhile.
OpenInsertAtTip(p) ==
  LET c == chatOf(p) IN
  /\ pc[p] = "open.insert" /\ Live(c)
  /\ messages' = WithMessage(c, MaxSeq(c) + 1, NewMessage("assistant", loc[p].body, 1))
  /\ pc' = [pc EXCEPT ![p] = "open.update"]
  /\ UNCHANGED <<chats, sessions, queue, req, loc, ids, used>>

OpenInsert(p) ==
  LET c == chatOf(p) IN
  /\ pc[p] = "open.insert"
  /\ IF CanInsert(c, 1)
     THEN /\ messages' = WithMessage(c, 1, NewMessage("assistant", loc[p].body, 1))
          /\ pc' = [pc EXCEPT ![p] = "open.update"]
          /\ UNCHANGED <<queue, req, loc>>
     ELSE Return(p) /\ UNCHANGED messages
  /\ UNCHANGED <<chats, sessions, ids, used>>

OpenUpdate(p) ==
  LET c == chatOf(p) IN
  /\ pc[p] = "open.update"
  /\ chats' = IF Live(c)
              THEN [chats EXCEPT ![c].count = 1, ![c].total = 1,
                      ![c].session = IF OnAgentSdk(p) THEN loc[p].sid ELSE @]
              ELSE chats
  /\ Return(p)
  /\ UNCHANGED <<messages, sessions, ids, used>>

-----------------------------------------------------------------------------
EditMessage(p) ==
  LET c == chatOf(p) IN
  /\ Granted(p, "edit") /\ Live(c)
  /\ \E s \in Named(c, req[p].msg) :
       /\ messages' = [messages EXCEPT ![c][s].body = nextBody]
       /\ IF messages[c][s].active # 0
          THEN /\ pc' = [pc EXCEPT ![p] = "edit.variant"]
               /\ loc' = [loc EXCEPT ![p].row = chats[c], ![p].seq = s, ![p].body = nextBody]
               /\ UNCHANGED <<queue, req>>
          ELSE ReseedOrLeave(p, chats[c])
  /\ nextBody' = nextBody + 1
  /\ UNCHANGED <<chats, sessions, nextSession, used>>

\* The active variant takes the same text.
EditVariant(p) ==
  LET c == chatOf(p)
      s == loc[p].seq
  IN
  /\ pc[p] = "edit.variant"
  /\ messages' = [messages EXCEPT ![c][s].variants[messages[c][s].active] = loc[p].body]
  /\ ReseedOrLeave(p, loc[p].row)
  /\ UNCHANGED <<chats, sessions, ids, used>>

\* The row goes, and by ON DELETE CASCADE everything that refers to it.
DeleteChat(p) ==
  LET c == chatOf(p) IN
  /\ Granted(p, "delete") /\ Live(c)
  /\ chats' = [chats EXCEPT ![c] = [NoChat EXCEPT !.status = "deleted"]]
  /\ messages' = [messages EXCEPT ![c] = <<>>]
  /\ sessions' = DroppedAll({s \in DOMAIN sessions : sessions[s].chat = c})
  /\ Leave(p)
  /\ UNCHANGED <<ids, used>>

\* updateTitle, star and archive: one field each; starred stands for all three.
PatchChat(p) ==
  /\ Granted(p, "patch") /\ Live(chatOf(p))
  /\ chats' = [chats EXCEPT ![chatOf(p)].starred = ~@]
  /\ Leave(p)
  /\ UNCHANGED <<messages, sessions, ids, used>>

StartStep(p) ==
  \/ StartRow(p) \/ GreetInsert(p) \/ GreetSeed(p) \/ GreetThrows(p) \/ GreetUpdate(p)
  \/ StartSend(p) \/ OpenLoad(p) \/ OpenStart(p) \/ OpenReply(p) \/ OpenFails(p)
  \/ OpenInsert(p) \/ OpenUpdate(p)
EditStep(p) == EditMessage(p) \/ EditVariant(p) \/ DeleteChat(p) \/ PatchChat(p)
=============================================================================
