------------------------------ MODULE ChatService ------------------------------
(***************************************************************************)
(* The chat service as a whole: the clients' requests, every operation of  *)
(* the domain on its chats, and the server's restarts.  A restart loses    *)
(* the requests in flight and the lock's chains; the tables stay.          *)
(***************************************************************************)
EXTENDS ChatLifecycle, ChatBranch

CONSTANTS Imported,     \* the chats that exist at the start, imported from files
          Eager         \* do clients act on a chat before its startChat or fork is done?

ASSUME ImportedAssumption == Imported \subseteq ChatIds
ASSUME EagerAssumption == Eager \in BOOLEAN

vars == <<storeVars, copy>>

\* What import/service.ts writes for a chat of three turns: agent-sdk, no
\* session, and seqs that start at 0.
ImportedCanon ==
  [s \in 0..2 |-> NewMessage(IF s = 1 THEN "user" ELSE "assistant", s + 1, 0)]

Init ==
  /\ chats = [c \in ChatIds |->
                IF c \in Imported THEN [NewChat("agent-sdk") EXCEPT !.count = 3] ELSE NoChat]
  /\ messages = [c \in ChatIds |-> IF c \in Imported THEN ImportedCanon ELSE <<>>]
  /\ sessions = <<>>
  /\ queue = [c \in ChatIds |-> <<>>]
  /\ pc = [p \in Procs |-> "idle"]
  /\ req = [p \in Procs |-> NoRequest]
  /\ loc = [p \in Procs |-> NoLocals]
  /\ copy = [p \in Procs |-> <<>>]
  /\ nextBody = 10 /\ nextSession = 1
  /\ used = [requests |-> 0, failures |-> 0, crashes |-> 0]

-----------------------------------------------------------------------------
(* Requests.  A client acts on the chat as it lists it at that moment: the *)
(* tip it saw is the expectedSeq of a send or a swipe.  A chat is listed   *)
(* from its row on, so an eager client (another device, or one that made   *)
(* the id) can act on it while startChat or forkChat is still writing it.  *)

StartKinds == {"start.message", "start.greeting", "start.opening"}
LockKinds == {"send", "swipe", "edit", "select", "provider", "compact", "delete", "patch"}

ASSUME KindsAssumption == Kinds \subseteq LockKinds \union StartKinds \union {"fork"}

Starting(c) == 
  \E q \in Procs : (req[q].chat = c /\ req[q].kind \in StartKinds) \/ req[q].target = c

Arrives(p, request, there) ==
  /\ pc[p] = "idle"
  /\ used.requests < MaxRequests /\ Spend("requests")
  /\ pc' = [pc EXCEPT ![p] = there]
  /\ req' = [req EXCEPT ![p] = request]
  /\ UNCHANGED <<tables, loc, ids, copy>>

\* The operations that enter withChatLock at once.
ArrivesAtLock(p, c, request) ==
  /\ chats[c].status # "absent"
  /\ Eager \/ ~Starting(c)
  /\ Arrives(p, request, "wait")
  /\ queue' = [queue EXCEPT ![c] = Append(@, p)]

CallTurn(p, c, kind) ==
  ArrivesAtLock(p, c, [NoRequest EXCEPT !.kind = kind, !.chat = c,
                                        !.expected = MaxSeq(c), !.seen = Shown(c)])
CallEdit(p, c) ==
  \E s \in Seqs(c) :
    ArrivesAtLock(p, c, [NoRequest EXCEPT !.kind = "edit", !.chat = c,
                                          !.msg = messages[c][s].id])
CallSelect(p, c) ==
  \E s \in Seqs(c) : \E k \in DOMAIN messages[c][s].variants :
    ArrivesAtLock(p, c, [NoRequest EXCEPT !.kind = "select", !.chat = c,
                                          !.msg = messages[c][s].id, !.variant = k])
CallProvider(p, c) ==
  \E api \in Apis :
    ArrivesAtLock(p, c, [NoRequest EXCEPT !.kind = "provider", !.chat = c, !.api = api])
CallSimple(p, c, kind) ==
  ArrivesAtLock(p, c, [NoRequest EXCEPT !.kind = kind, !.chat = c])

\* startChat under an id the client made; its retry is a second such call.
CallStart(p, c, kind) ==
  /\ chats[c].status = "absent"
  /\ \A q \in Procs : req[q].target # c
  /\ \E api \in Apis :
       Arrives(p, [NoRequest EXCEPT !.kind = kind, !.chat = c, !.api = api], "start.row")
  /\ UNCHANGED queue

\* The fork's id is fresh: no other request knows it before the row is there.
CallFork(p, c) ==
  \E d \in ChatIds, s \in Seqs(c), api \in Apis :
    /\ s >= 1
    /\ chats[d].status = "absent"
    /\ \A q \in Procs : d \notin {req[q].chat, req[q].target}
    /\ Arrives(p, [NoRequest EXCEPT !.kind = "fork", !.chat = c, !.target = d,
                                    !.seq = s, !.api = api], "fork.load")
    /\ UNCHANGED queue

Call(p) ==
  \E kind \in Kinds, c \in ChatIds :
    CASE kind \in {"send", "swipe"} -> CallTurn(p, c, kind)
      [] kind = "edit" -> CallEdit(p, c)
      [] kind = "select" -> CallSelect(p, c)
      [] kind = "provider" -> CallProvider(p, c)
      [] kind \in {"compact", "delete", "patch"} -> CallSimple(p, c, kind)
      [] kind \in StartKinds -> CallStart(p, c, kind)
      [] kind = "fork" -> CallFork(p, c)

-----------------------------------------------------------------------------
(* The early returns and throws of the operations that hold the lock and   *)
(* have written nothing: the chat is gone, the client's tip is stale, the  *)
(* tip is no assistant turn, the message or the variant does not exist.    *)

Fresh(p) == MaxSeq(chatOf(p)) = req[p].expected
TipIsReply(c) == \E s \in Seqs(c) : s = MaxSeq(c) /\ messages[c][s].role = "assistant"
HasVariant(c, id, k) == \E s \in Named(c, id) : k \in DOMAIN messages[c][s].variants

Admitted(p) ==
  LET c == chatOf(p) IN
  /\ Live(c)
  /\ req[p].kind \in {"send", "swipe"} => Fresh(p)
  /\ req[p].kind = "swipe" => TipIsReply(c)
  /\ req[p].kind = "edit" => Named(c, req[p].msg) # {}
  /\ req[p].kind = "select" => HasVariant(c, req[p].msg, req[p].variant)

Refuse(p) ==
  /\ pc[p] = "wait" /\ Holds(p)
  /\ ~Admitted(p)
  /\ Leave(p)
  /\ UNCHANGED <<tables, ids, used>>

\* The turn-time credential check of the operations that would generate.
Deny(p) ==
  /\ pc[p] = "wait" /\ Holds(p)
  /\ req[p].kind \in {"send", "swipe", "compact"} /\ Admitted(p)
  /\ CanFail /\ Spend("failures")
  /\ Leave(p)
  /\ UNCHANGED <<tables, ids>>

-----------------------------------------------------------------------------
Step(p) ==
  \/ /\ \/ SendStep(p) \/ BeginCompact(p) \/ CompactNothing(p) \/ CompactStep(p)
        \/ SwipeStep(p) \/ SelectVariant(p) \/ ReseedStep(p)
        \/ StartStep(p) \/ EditStep(p) \/ Refuse(p) \/ Deny(p)
     /\ UNCHANGED copy
  \/ BranchStep(p)

Restart ==
  /\ used.crashes < MaxCrashes /\ Spend("crashes")
  /\ \E p \in Procs : pc[p] # "idle"
  /\ queue' = [c \in ChatIds |-> <<>>]
  /\ pc' = [p \in Procs |-> "idle"]
  /\ req' = [p \in Procs |-> NoRequest]
  /\ loc' = [p \in Procs |-> NoLocals]
  /\ copy' = [p \in Procs |-> <<>>]
  /\ UNCHANGED <<tables, ids>>

Next == (\E p \in Procs : Call(p) \/ Step(p)) \/ Restart

Spec == Init /\ [][Next]_vars

\* Every await settles: a turn replies or fails, a query returns, and the
\* event loop runs what waits for it.  Nobody has to send a request.
FairSpec == Spec /\ \A p \in Procs : WF_vars(Step(p))
=============================================================================
