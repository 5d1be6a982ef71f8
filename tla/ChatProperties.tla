---------------------------- MODULE ChatProperties ----------------------------
(***************************************************************************)
(* What the chat service must keep, over all its operations.  Which        *)
(* properties hold under failures, restarts, openings and forks, and which *)
(* only without them, is said at each one and shown by the runs.           *)
(***************************************************************************)
EXTENDS ChatService

MessageTable(t) == DOMAIN t \subseteq Nat /\ \A s \in DOMAIN t : t[s] \in Message

ChatsOK == chats \in [ChatIds -> ChatRow]
MessagesOK ==
  /\ DOMAIN messages = ChatIds
  /\ \A c \in ChatIds : MessageTable(messages[c])
SessionsOK ==
  \A s \in DOMAIN sessions :
    s \in Nat /\ sessions[s].chat \in ChatIds /\ sessions[s].frames \in Seq(Frame) \ {<<>>}
RequestsOK ==
  /\ queue \in [ChatIds -> Seq(Procs)]
  /\ req \in [Procs -> Request]
  /\ loc \in [Procs -> Locals]
  /\ nextBody \in Nat /\ nextSession \in Nat

\* The tables hold rows of their schema, the requests parameters of theirs.
TypeOK == ChatsOK /\ MessagesOK /\ SessionsOK /\ RequestsOK

-----------------------------------------------------------------------------
Touches(p, c) == pc[p] \notin {"idle", "wait"} /\ c \in {req[p].chat, req[p].target}
\* Nobody is in the middle of an operation on c.
Quiet(c) == \A p \in Procs : ~Touches(p, c)

Generating(p) ==
  pc[p] \in {"send.turn", "send.reply", "swipe.turn", "swipe.reply",
             "open.turn", "open.reply", "compact.turn"}

(***************************************************************************)
(* "only one generation may be in flight per chat" (lock.ts:1,             *)
(* data-model.md:103-105).  Not so for startChat's opening.                *)
(***************************************************************************)
OneGenerationInFlight ==
  \A p, q \in Procs :
    Generating(p) /\ Generating(q) /\ req[p].chat = req[q].chat => p = q

(***************************************************************************)
(* The seqs of a chat have no gap: they run from 1 (0 for an import) to    *)
(* the tip, whatever failed, crashed or raced.  expectedSeq, the fork      *)
(* point and the compaction anchor all count on it.                        *)
(***************************************************************************)
CanonContiguous ==
  \A c \in ChatIds : \E first \in {0, 1} : Seqs(c) = first..MaxSeq(c)

(***************************************************************************)
(* A reply stands directly behind a user turn, unless it opens the chat:   *)
(* no operation ever leaves two replies in a row.                          *)
(***************************************************************************)
RepliesFollowTurns ==
  \A c \in ChatIds : \A s \in Seqs(c) :
    messages[c][s].role = "assistant" /\ s - 1 \in Seqs(c)
      => messages[c][s - 1].role = "user"

(***************************************************************************)
(* What a send tells the model is the canon, all of it and nothing else:   *)
(* through the resumed session on agent-sdk, through the summary and the   *)
(* turns after its anchor on openrouter.  Each text of the canon is told,  *)
(* in its place; not always in the canon's form: see MessagesWin.          *)
(***************************************************************************)
TurnSeesCanon ==
  \A p \in Procs : pc[p] = "send.turn" => ModelSees(p) = Shown(chatOf(p))

\* The session of an agent-sdk chat says what its canon says.
Mirrors(c) == chats[c].session # 0 => Said(FramesOf(chats[c].session)) = Shown(c)

\* Each reply in these frames that the canon of c has, beside its message.
Held(c, frames) ==
  {pair \in {<<frames[i], messages[c][s]>> : i \in DOMAIN frames, s \in Seqs(c)} :
     pair[1].kind = "assistant" /\ pair[1].says = <<pair[2].body>>}

(***************************************************************************)
(* `messages` "is the clean source of truth for all modes", and if it and  *)
(* session_entries "ever diverge, `messages` wins" (data-model.md:43-45):  *)
(* the replies a send resumes have the form they have in the canon.        *)
(***************************************************************************)
MessagesWin ==
  \A p \in Procs : pc[p] = "send.turn" /\ loc[p].row.api = "agent-sdk" =>
    \A pair \in Held(chatOf(p), FramesOf(loc[p].row.session)) : pair[1] = CanonTurn(pair[2])

(***************************************************************************)
(* How far that goes wrong: where a session has a reply in another form    *)
(* than the canon, it has what the model wrote and the canon the output of *)
(* an AI_OUTPUT script; swipes, edits and seeding never turn it round.     *)
(***************************************************************************)
OnlyScriptsDiffer ==
  \A c \in ChatIds : Live(c) =>
    \A pair \in Held(c, FramesOf(chats[c].session)) :
      pair[1] # CanonTurn(pair[2]) => ~pair[1].scripted /\ pair[2].body \in pair[2].scripted

\* "openrouter has none" (lifecycle.ts:286; send.ts:266).
NoneOnOpenRouter(c) == chats[c].api = "openrouter" => chats[c].session = 0
\* A session belongs to a chat or to an operation in flight.
Owned(s) ==
  \/ \E c \in ChatIds : chats[c].session = s
  \/ \E p \in Procs : s \in {loc[p].sid, loc[p].seeded, loc[p].row.session}

(***************************************************************************)
(* Between operations the session of a chat says what its canon says,      *)
(* after sends, swipes, edits, compactions, forks and provider switches;   *)
(* a chat on openrouter has no session; and frames belong to the session   *)
(* of a chat or of an operation in flight: re-seeding, swiping and         *)
(* switching provider leave none behind.                                   *)
(***************************************************************************)
SessionMirrorsCanon ==
  /\ \A c \in ChatIds : Live(c) /\ Quiet(c) => Mirrors(c)
  /\ \A c \in ChatIds : Live(c) => NoneOnOpenRouter(c)
  /\ \A s \in DOMAIN sessions : Owned(s)

(***************************************************************************)
(* messageCount, maintained from the row each operation read at its start, *)
(* counts the messages.                                                    *)
(***************************************************************************)
CountMatches ==
  \A c \in ChatIds : Live(c) /\ Quiet(c) => chats[c].count = Cardinality(Seqs(c))

Generations(c) ==
  LET sum[n \in -1..MaxSeq(c)] ==
        IF n = -1 THEN 0 ELSE sum[n - 1] + IF n \in Seqs(c) THEN messages[c][n].gens ELSE 0
  IN  sum[MaxSeq(c)]

(***************************************************************************)
(* The token totals cover every generation, the swiped ones included       *)
(* ("else regenerations silently undercount", swipe.ts:222-223).           *)
(***************************************************************************)
TotalsCoverGenerations ==
  \A c \in ChatIds : Live(c) /\ Quiet(c) => chats[c].total = Generations(c)

(***************************************************************************)
(* The content of a message is "the ACTIVE variant's text ... when         *)
(* variants exist" (types.ts:28).                                          *)
(***************************************************************************)
VariantsCoherent ==
  \A c \in ChatIds : Quiet(c) =>
    \A s \in Seqs(c) :
      LET m == messages[c][s] IN
      m.variants # <<>> => m.active \in DOMAIN m.variants /\ m.variants[m.active] = m.body

(***************************************************************************)
(* The carried summary says what the canon up to its anchor says, so that  *)
(* an openrouter turn may drop those turns (send.ts:197-203).              *)
(***************************************************************************)
SummaryCoversCanon ==
  \A c \in ChatIds :
    Live(c) /\ Quiet(c) /\ chats[c].anchor # -1
      => chats[c].summary = Said(History(c, -1, chats[c].anchor + 1))

(***************************************************************************)
(* "a stale device can't inject an incoherent turn" (data-model.md:103):   *)
(* a send that is accepted answers the canon its client saw.               *)
(***************************************************************************)
AcceptedTurnIsCoherent ==
  \A p \in Procs : pc[p] = "send.insert" => req[p].seen = Shown(chatOf(p))

(***************************************************************************)
(* "a session must start user-first to resume cleanly" (seed.ts:28-33):    *)
(* no transcript opens with a reply.                                       *)
(***************************************************************************)
SessionsStartUserFirst ==
  \A s \in DOMAIN sessions : FramesOf(s)[1].kind # "assistant"

(***************************************************************************)
(* Every request ends: a failed turn, a refused write or a throw frees the *)
(* chat for the ones that wait, and no operation waits for its own chat.   *)
(***************************************************************************)
RequestsFinish == \A p \in Procs : (pc[p] # "idle") ~> (pc[p] = "idle")

-----------------------------------------------------------------------------
\* The canon without the user turns whose generation is still running.
InFlight(c) ==
  {loc[p].seq : p \in {q \in Procs :
     /\ pc[q] \in {"send.turn", "send.reply", "send.rollback", "send.persist"}
     /\ chatOf(q) = c}}
Committed(c) ==
  LET turn(s) == IF s \in Seqs(c) \ InFlight(c)
                 THEN <<[role |-> messages[c][s].role, body |-> messages[c][s].body]>> ELSE <<>>
  IN  Lists!FlattenSeq([i \in 1..MaxSeq(c) + 1 |-> turn(i - 1)])

\* A request writes at most three new texts.
Bodies == 1..(9 + 3 * MaxRequests)

Log == INSTANCE ChatLog
         WITH Ids <- ChatIds, Texts <- Bodies,
              restarts <- used.crashes,
              exists <- {c \in ChatIds : Live(c)},
              log <- [c \in ChatIds |-> Committed(c)]

(***************************************************************************)
(* Without forks, the service implements the atomic log: sends, swipes,    *)
(* edits, openings and deletions of concurrent clients, with failures and  *)
(* restarts, look like whole steps of ChatLog.  "the chat returns to its   *)
(* prior coherent tip" when a generation fails (send.ts:218-220), a user   *)
(* turn is never seen without its answer, and only a restart strands one.  *)
(***************************************************************************)
ImplementsLog == Log!Spec
=============================================================================
