------------------------------ MODULE ChatBranch ------------------------------
(***************************************************************************)
(* src/server/domain/chat/branch.ts: forkChat copies the canon up to a seq *)
(* into a new chat, without the lock; setProvider switches a chat's runner *)
(* in place, under it.                                                     *)
(***************************************************************************)
EXTENDS ChatSwipe

VARIABLE copy           \* Procs -> the canon a fork has read and not yet written

\* The source chat's row, read when the fork starts.
ForkLoad(p) ==
  LET c == chatOf(p) IN
  /\ pc[p] = "fork.load"
  /\ IF Live(c)
     THEN /\ pc' = [pc EXCEPT ![p] = "fork.read"]
          /\ loc' = [loc EXCEPT ![p].row = chats[c]]
          /\ UNCHANGED <<queue, req>>
     ELSE Return(p)
  /\ UNCHANGED <<tables, ids, used, copy>>

\* Role and content cross to the fork, variants and token counts do not.
CopyOf(m) == [NewMessage(m.role, m.body, 0) EXCEPT !.scripted = m.scripted]

\* Its canon up to the fork point, read later; an empty range is refused.
ForkRead(p) ==
  LET c == chatOf(p)
      range == {s \in Seqs(c) : s <= req[p].seq}
  IN
  /\ pc[p] = "fork.read"
  /\ IF range = {}
     THEN Return(p) /\ UNCHANGED copy
     ELSE /\ copy' = [copy EXCEPT ![p] =
                        [s \in range |-> CopyOf(messages[c][s])]]
          /\ pc' = [pc EXCEPT ![p] = "fork.row"]
          /\ UNCHANGED <<queue, req, loc>>
  /\ UNCHANGED <<tables, ids, used>>

\* Does the source's compaction cross to the fork?  Wrong: whenever there is one.
CarriedAlways(row, at) == row.anchor # -1
Carried(row, at) == row.anchor # -1 /\ row.anchor <= at

\* With the count of the source.
ForkRowSourceCount(p) ==
  /\ At(p, "fork.row", "fork.messages")
  /\ chats' = [chats EXCEPT ![req[p].target] =
       [NewChat(req[p].api) EXCEPT
          !.session = IF req[p].api = "agent-sdk" THEN nextSession ELSE 0,
          !.count = loc[p].row.count]]
  /\ loc' = [loc EXCEPT ![p].sid = nextSession]
  /\ nextSession' = nextSession + 1
  /\ UNCHANGED <<messages, sessions, queue, req, nextBody, used, copy>>

\* The new chat: the compaction crosses when the fork point is behind its
\* anchor, an agent-sdk target gets a session id before it gets frames.
ForkRow(p) ==
  LET row == loc[p].row
      carried == Carried(row, req[p].seq)
  IN
  /\ At(p, "fork.row", "fork.messages")
  /\ chats' = [chats EXCEPT ![req[p].target] =
       [NewChat(req[p].api) EXCEPT
          !.session = IF req[p].api = "agent-sdk" THEN nextSession ELSE 0,
          !.count = Cardinality(DOMAIN copy[p]),
          !.summary = IF carried THEN row.summary ELSE <<>>,
          !.anchor = IF carried THEN row.anchor ELSE -1]]
  /\ loc' = [loc EXCEPT ![p].sid = nextSession]
  /\ nextSession' = nextSession + 1
  /\ UNCHANGED <<messages, sessions, queue, req, nextBody, used, copy>>

\* One INSERT of all the rows: refused as a whole when one of them collides.
ForkMessages(p) ==
  LET d == req[p].target IN
  /\ pc[p] = "fork.messages"
  /\ IF Live(d) /\ Seqs(d) \intersect DOMAIN copy[p] = {}
     THEN /\ messages' = [messages EXCEPT ![d] =
               [s \in Seqs(d) \union DOMAIN copy[p] |->
                  IF s \in DOMAIN copy[p] THEN copy[p][s] ELSE @[s]]]
          /\ pc' = [pc EXCEPT ![p] = "fork.seed"]
          /\ UNCHANGED <<queue, req, loc, copy>>
     ELSE /\ Return(p)
          /\ copy' = [copy EXCEPT ![p] = <<>>]
          /\ UNCHANGED messages
  /\ UNCHANGED <<chats, sessions, ids, used>>

\* With the source read again.
ForkFramesOfSource(p) == Canon(chatOf(p))

\* The frames of the copied canon, as they are: no stub before a greeting.
ForkFrames(p) ==
  LET turn(s) == IF s \in DOMAIN copy[p]
                 THEN <<CanonTurn(copy[p][s])>> ELSE <<>>
  IN  Lists!FlattenSeq([i \in 1..TopOf(DOMAIN copy[p]) + 1 |-> turn(i - 1)])

ForkSeed(p) ==
  /\ pc[p] = "fork.seed"
  /\ sessions' = IF req[p].api = "agent-sdk" /\ Live(req[p].target)
                 THEN Appended(loc[p].sid, req[p].target, ForkFrames(p))
                 ELSE sessions
  /\ Return(p)
  /\ copy' = [copy EXCEPT ![p] = <<>>]
  /\ UNCHANGED <<chats, messages, ids, used>>

-----------------------------------------------------------------------------
Leaving(p) == loc[p].row.api = "agent-sdk" /\ req[p].api # "agent-sdk"
Entering(p) == loc[p].row.api # "agent-sdk" /\ req[p].api = "agent-sdk"

BeginProvider(p) ==
  LET c == chatOf(p) IN
  /\ Granted(p, "provider") /\ Live(c)
  /\ pc' = [pc EXCEPT ![p] = "provider.session"]
  /\ loc' = [loc EXCEPT ![p].row = chats[c], ![p].sid = chats[c].session]
  /\ UNCHANGED <<tables, queue, req, ids, used, copy>>

\* Leaving agent-sdk drops the session, entering it seeds one from the canon.
ProviderSession(p) ==
  /\ pc[p] = "provider.session"
  /\ \/ /\ Leaving(p)
        /\ sessions' = DroppedAll({loc[p].row.session})
        /\ loc' = [loc EXCEPT ![p].sid = 0]
        /\ pc' = [pc EXCEPT ![p] = "provider.update"]
        /\ UNCHANGED nextSession
     \/ Entering(p) /\ SeedFromCanon(p, "provider.update")
     \/ /\ ~Leaving(p) /\ ~Entering(p)
        /\ pc' = [pc EXCEPT ![p] = "provider.update"]
        /\ UNCHANGED <<sessions, loc, nextSession>>
  /\ UNCHANGED <<chats, messages, queue, req, nextBody, used, copy>>

ProviderUpdate(p) ==
  /\ pc[p] = "provider.update"
  /\ chats' = [chats EXCEPT ![chatOf(p)].api = req[p].api, ![chatOf(p)].session = loc[p].sid]
  /\ Leave(p)
  /\ UNCHANGED <<messages, sessions, ids, used, copy>>

BranchStep(p) ==
  \/ ForkLoad(p) \/ ForkRead(p) \/ ForkRow(p) \/ ForkMessages(p) \/ ForkSeed(p)
  \/ BeginProvider(p) \/ ProviderSession(p) \/ ProviderUpdate(p)
=============================================================================
