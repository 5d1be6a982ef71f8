------------------------------ MODULE ChatStore ------------------------------
(***************************************************************************)
(* The state the chat operations share: the tables chats, messages (with   *)
(* their variants) and session_entries, the line of each chat's lock, and  *)
(* the requests in flight with the values they hold across their awaits.   *)
(* The operations themselves are in the modules that extend this one, one  *)
(* module per file of src/server/domain/chat.                              *)
(*                                                                         *)
(* A piece of text is a number, drawn from nextBody when it is written for *)
(* the first time, so two texts are equal exactly when one is a copy of    *)
(* the other.  A reply that an AI_OUTPUT regex script rewrote exists in    *)
(* two forms under one number: what the model wrote, and the script's      *)
(* output; "scripted" says which form a message or a frame holds.          *)
(* A session id is a number drawn from nextSession; 0 is null.             *)
(***************************************************************************)
EXTENDS Integers, Sequences, FiniteSets

Lists == INSTANCE SequencesExt

CONSTANTS Procs,        \* slots for requests in flight
          ChatIds,      \* ids a chat can be created under; none is used twice
          NoOne,        \* no chat id: the chat of an idle request slot
          Kinds,        \* the kinds of request of this instance
          MaxRequests,  \* bound on the requests of a behaviour
          MaxFailures,  \* bound on the generations that fail
          MaxCrashes,   \* bound on the restarts of the server
          OutputScripts \* has the preset a regex script with placement AI_OUTPUT?

ASSUME NoOneAssumption == NoOne \notin ChatIds
ASSUME BoundsAssumption == {MaxRequests, MaxFailures, MaxCrashes} \subseteq Nat
ASSUME OutputScriptsAssumption == OutputScripts \in BOOLEAN

VARIABLES chats,        \* ChatIds -> row of chats
          messages,     \* ChatIds -> (seq -> row of messages)
          sessions,     \* session id -> its session_entries; absent when it has none
          queue,        \* ChatIds -> requests in withChatLock, the first one holds it
          pc,           \* Procs -> the await a request is at
          req,          \* Procs -> the request's parameters
          loc,          \* Procs -> the request's local variables
          nextBody, nextSession,
          used          \* how many requests, failures and crashes there were

storeVars == <<chats, messages, sessions, queue, pc, req, loc, nextBody, nextSession, used>>
tables == <<chats, messages, sessions>>
ids == <<nextBody, nextSession>>

-----------------------------------------------------------------------------
(* Rows.  "status" is the row's existence; 0 in "session" and -1 in        *)
(* "anchor" (compactedAtSeq) are null.                                     *)

Apis == {"agent-sdk", "openrouter"}

ChatRow ==
  [status : {"absent", "live", "deleted"}, api : Apis, session : Nat, count : Nat,
   total : Nat, summary : Seq(Nat), anchor : Int, starred : BOOLEAN]

NewChat(api) ==
  [status |-> "live", api |-> api, session |-> 0, count |-> 0,
   total |-> 0, summary |-> <<>>, anchor |-> -1, starred |-> FALSE]
NoChat == [NewChat("agent-sdk") EXCEPT !.status = "absent"]

\* "active" k is activeVariantIdx k - 1, 0 is null; variants[k] is variant k - 1.
\* "id" is the primary key: the text the row was inserted with stands for it.
\* "gens" counts the generations this chat paid for the message; "scripted" are
\* its texts that the table holds as a script rewrote them.
Message ==
  [id : Nat, role : {"user", "assistant"}, body : Nat, active : Nat, variants : Seq(Nat),
   gens : Nat, scripted : SUBSET Nat]

NewMessage(role, body, gens) ==
  [id |-> body, role |-> role, body |-> body, active |-> 0, variants |-> <<>>,
   gens |-> gens, scripted |-> {}]

\* loadOwnedMessage: where the message with this id is, if it is.
Named(c, id) == {s \in DOMAIN messages[c] : messages[c][s].id = id}

Live(c) == chats[c].status = "live"
Seqs(c) == DOMAIN messages[c]

\* maxSeq: the seq of the chat's tip, 0 for a chat without messages.
TopOf(S) == CHOOSE n \in S : \A m \in S : m <= n
MaxSeq(c) == IF Seqs(c) = {} THEN 0 ELSE TopOf(Seqs(c))

\* INSERT INTO messages; the unique index on (chat_id, seq) and the reference
\* to the chat refuse it.
CanInsert(c, s) == Live(c) /\ s \notin Seqs(c)
WithMessage(c, s, m) ==
  [messages EXCEPT ![c] = [t \in Seqs(c) \union {s} |-> IF t = s THEN m ELSE @[t]]]
WithoutMessage(c, s) ==
  [messages EXCEPT ![c] = [t \in Seqs(c) \ {s} |-> @[t]]]

-----------------------------------------------------------------------------
(* Transcripts.  A frame "says" texts: a user or an assistant frame one (in *)
(* the script's form when it was seeded from a message that has it), a     *)
(* stub (GREETING_USER_STUB, OPEN_SCENE_PROMPT) none, and a summary frame  *)
(* everything said before it, which is what the SDK still sees of it.      *)

FrameKinds == {"user", "assistant", "stub", "summary"}
Frame == [kind : FrameKinds, says : Seq(Nat), scripted : BOOLEAN]
Turn(role, body) == [kind |-> role, says |-> <<body>>, scripted |-> FALSE]
Stub == [kind |-> "stub", says |-> <<>>, scripted |-> FALSE]
Summary(texts) == [kind |-> "summary", says |-> texts, scripted |-> FALSE]
\* The turn a message is sent or seeded as: its text in the form the table has.
CanonTurn(m) == [kind |-> m.role, says |-> <<m.body>>, scripted |-> m.body \in m.scripted]

\* loadCanonHistory: the turns of the chat with after < seq < before, in order.
History(c, after, before) ==
  LET turn(s) == IF s \in Seqs(c) /\ after < s /\ s < before
                 THEN <<CanonTurn(messages[c][s])>> ELSE <<>>
  IN  Lists!FlattenSeq([i \in 1..MaxSeq(c) + 1 |-> turn(i - 1)])
Canon(c) == History(c, -1, MaxSeq(c) + 1)

\* What a list of frames tells a model that reads them.
Said(frames) ==
  LET last[i \in 0..Len(frames)] ==
        IF i = 0 THEN <<>>
        ELSE IF frames[i].kind = "summary" THEN frames[i].says
        ELSE last[i - 1] \o frames[i].says
  IN  last[Len(frames)]

\* The frames DbSessionStore.load returns; none means "never written".
FramesOf(s) == IF s \in DOMAIN sessions THEN sessions[s].frames ELSE <<>>

\* Without the early return: an empty append leaves a session without frames.
AppendedAlways(s, c, frames) ==
  [t \in DOMAIN sessions \union {s} |->
     IF t = s THEN [chat |-> c, frames |-> FramesOf(s) \o frames] ELSE sessions[t]]

\* DbSessionStore.append for chat c; appending nothing writes nothing.
Appended(s, c, frames) ==
  IF frames = <<>> THEN sessions
  ELSE [t \in DOMAIN sessions \union {s} |->
          IF t = s THEN [chat |-> c, frames |-> FramesOf(s) \o frames] ELSE sessions[t]]
\* DELETE FROM session_entries WHERE session_id IN dead.
DroppedAll(dead) == [t \in DOMAIN sessions \ dead |-> sessions[t]]

\* seedSessionFromCanon prefixes the stub when the canon opens with a greeting.
StubFirst(frames) ==
  IF frames # <<>> /\ frames[1].kind = "assistant" THEN <<Stub>> \o frames ELSE frames

-----------------------------------------------------------------------------
(* Requests.  "wait" is inside withChatLock with the function not started. *)

Request ==
  [kind : Kinds \union {"none", "send"}, chat : ChatIds \union {NoOne}, expected : Nat,
   seq : Nat, msg : Nat, variant : Nat, api : Apis, target : ChatIds \union {NoOne}, seen : Seq(Nat)]

Locals ==
  [row : ChatRow, seq : Nat, sid : Nat, seeded : Nat, body : Nat]

NoRequest ==
  [kind |-> "none", chat |-> NoOne, expected |-> 0, seq |-> 0, msg |-> 0, variant |-> 0,
   api |-> "agent-sdk", target |-> NoOne, seen |-> <<>>]
NoLocals == [row |-> NoChat, seq |-> 0, sid |-> 0, seeded |-> 0, body |-> 0]

\* The texts of a chat as a client that lists it sees them.
Shown(c) == Said(Canon(c))

chatOf(p) == req[p].chat
Holds(p) == queue[chatOf(p)] # <<>> /\ Head(queue[chatOf(p)]) = p
\* Without the lock.
GrantedAtOnce(p, kind) == pc[p] = "wait" /\ req[p].kind = kind
Granted(p, kind) == pc[p] = "wait" /\ Holds(p) /\ req[p].kind = kind

At(p, here, there) == pc[p] = here /\ pc' = [pc EXCEPT ![p] = there]
\* The function passed to the lock settled, by a return or by a throw.
Leave(p) ==
  /\ pc' = [pc EXCEPT ![p] = "idle"]
  /\ loc' = [loc EXCEPT ![p] = NoLocals]
  /\ req' = [req EXCEPT ![p] = NoRequest]
  /\ queue' = [queue EXCEPT ![chatOf(p)] = Tail(@)]
\* The same for a function that does not run under the lock.
Return(p) ==
  /\ pc' = [pc EXCEPT ![p] = "idle"]
  /\ loc' = [loc EXCEPT ![p] = NoLocals]
  /\ req' = [req EXCEPT ![p] = NoRequest]
  /\ UNCHANGED queue

Spend(what) == used' = [used EXCEPT ![what] = @ + 1]
CanFail == used.failures < MaxFailures
=============================================================================
