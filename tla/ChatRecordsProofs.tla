--------------------------- MODULE ChatRecordsProofs ---------------------------
(***************************************************************************)
(* Theorems of ChatService about what its tables say twice: the text of a  *)
(* message and its active variant, the columns messageCount and the token  *)
(* totals and the messages they count.                                     *)
(***************************************************************************)
EXTENDS ChatCanonProofs

-----------------------------------------------------------------------------
(***************************************************************************)
(* How a request arrives, and what its client has seen to.                 *)
(***************************************************************************)
AtLock(r) == /\ chats[r.chat].status # "absent" /\ (Eager \/ ~Starting(r.chat))
             /\ r.target = NoOne
AtStart(r) == /\ chats[r.chat].status = "absent" /\ r.kind \in StartKinds
              /\ \A q \in Procs : req[q].target # r.chat
              /\ r.target = NoOne
AtFork(r) == /\ Seqs(r.chat) # {} /\ r.target \in ChatIds /\ r.kind = "fork"
             /\ chats[r.target].status = "absent"
             /\ \A q \in Procs : r.target \notin {req[q].chat, req[q].target}
Arriving(p, r, there) ==
  /\ Arrives(p, r, there) /\ r.chat \in ChatIds
  /\ \/ there = "wait" /\ AtLock(r) /\ queue' = [queue EXCEPT ![r.chat] = Append(@, p)]
     \/ there = "start.row" /\ AtStart(r) /\ UNCHANGED queue
     \/ there = "fork.load" /\ AtFork(r) /\ UNCHANGED queue

\* Every call is one of the three.
LEMMA CallForms ==
  ASSUME NEW p \in Procs, Call(p)
  PROVE  \E r : \E there \in {"wait", "start.row", "fork.load"} : Arriving(p, r, there)
<1>. PICK kind \in Kinds, c \in ChatIds :
         \/ CallTurn(p, c, kind)
         \/ kind = "edit" /\ CallEdit(p, c)
         \/ kind = "select" /\ CallSelect(p, c)
         \/ kind = "provider" /\ CallProvider(p, c)
         \/ CallSimple(p, c, kind)
         \/ kind \in StartKinds /\ CallStart(p, c, kind)
         \/ kind = "fork" /\ CallFork(p, c)
  BY KindsAssumption DEF Call, LockKinds, StartKinds
<1>0. /\ "wait" \in {"wait", "start.row", "fork.load"}
      /\ "start.row" \in {"wait", "start.row", "fork.load"}
      /\ "fork.load" \in {"wait", "start.row", "fork.load"}
  OBVIOUS
<1>1. ASSUME NEW r, ArrivesAtLock(p, c, r), r.chat = c, r.target = NoOne
      PROVE  Arriving(p, r, "wait")
  BY <1>1 DEF Arriving, AtLock, ArrivesAtLock
<1>2. CASE CallTurn(p, c, kind)
  <2>1. PICK r : /\ r = [NoRequest EXCEPT !.kind = kind, !.chat = c,
                           !.expected = MaxSeq(c), !.seen = Shown(c)]
                 /\ ArrivesAtLock(p, c, r)
    BY <1>2 DEF CallTurn
  <2>2. r.chat = c /\ r.target = NoOne
    BY <2>1 DEF NoRequest
  <2>. QED  BY <1>0, <1>1, <2>1, <2>2, Zenon
<1>3. CASE kind = "edit" /\ CallEdit(p, c)
  <2>1. PICK m, r : /\ r = [NoRequest EXCEPT !.kind = "edit", !.chat = c, !.msg = m]
                    /\ ArrivesAtLock(p, c, r)
    BY <1>3 DEF CallEdit
  <2>2. r.chat = c /\ r.target = NoOne
    BY <2>1 DEF NoRequest
  <2>. QED  BY <1>0, <1>1, <2>1, <2>2, Zenon
<1>4. CASE kind = "select" /\ CallSelect(p, c)
  <2>1. PICK m, k, r :
          /\ r = [NoRequest EXCEPT !.kind = "select", !.chat = c, !.msg = m, !.variant = k]
          /\ ArrivesAtLock(p, c, r)
    BY <1>4 DEF CallSelect
  <2>2. r.chat = c /\ r.target = NoOne
    BY <2>1 DEF NoRequest
  <2>. QED  BY <1>0, <1>1, <2>1, <2>2, Zenon
<1>5. CASE kind = "provider" /\ CallProvider(p, c)
  <2>1. PICK api, r : /\ r = [NoRequest EXCEPT !.kind = "provider", !.chat = c, !.api = api]
                      /\ ArrivesAtLock(p, c, r)
    BY <1>5 DEF CallProvider
  <2>2. r.chat = c /\ r.target = NoOne
    BY <2>1 DEF NoRequest
  <2>. QED  BY <1>0, <1>1, <2>1, <2>2, Zenon
<1>6. CASE CallSimple(p, c, kind)
  <2>1. PICK r : r = [NoRequest EXCEPT !.kind = kind, !.chat = c] /\ ArrivesAtLock(p, c, r)
    BY <1>6 DEF CallSimple
  <2>2. r.chat = c /\ r.target = NoOne
    BY <2>1 DEF NoRequest
  <2>. QED  BY <1>0, <1>1, <2>1, <2>2, Zenon
<1>7. CASE kind \in StartKinds /\ CallStart(p, c, kind)
  <2>1. PICK api, r : /\ r = [NoRequest EXCEPT !.kind = kind, !.chat = c, !.api = api]
                      /\ Arrives(p, r, "start.row")
    BY <1>7 DEF CallStart
  <2>2. r.chat = c /\ r.target = NoOne /\ r.kind = kind
    BY <2>1 DEF NoRequest
  <2>3. Arriving(p, r, "start.row")
    BY <1>7, <2>1, <2>2 DEF Arriving, AtStart, CallStart
  <2>. QED  BY <1>0, <2>3, Zenon
<1>8. CASE kind = "fork" /\ CallFork(p, c)
  <2>1. PICK d \in ChatIds, s \in Seqs(c), api \in Apis :
          /\ chats[d].status = "absent"
          /\ \A q \in Procs : d \notin {req[q].chat, req[q].target}
          /\ Arrives(p, [NoRequest EXCEPT !.kind = "fork", !.chat = c, !.target = d,
                                          !.seq = s, !.api = api], "fork.load")
    BY <1>8, Zenon DEF CallFork
  <2>2. PICK r : /\ r = [NoRequest EXCEPT !.kind = "fork", !.chat = c, !.target = d,
                                          !.seq = s, !.api = api]
                 /\ Arrives(p, r, "fork.load")
    BY <2>1
  <2>3. r.chat = c /\ r.target = d /\ r.kind = "fork"
    BY <2>2 DEF NoRequest
  <2>4. Arriving(p, r, "fork.load")
    BY <1>8, <2>1, <2>2, <2>3 DEF Arriving, AtFork, CallFork
  <2>. QED  BY <1>0, <2>4, Zenon
<1>. QED  BY <1>2, <1>3, <1>4, <1>5, <1>6, <1>7, <1>8

-----------------------------------------------------------------------------
(***************************************************************************)
(* The counters of the bounds: a restart is counted.                       *)
(***************************************************************************)
UsedOK == used \in [requests : Nat, failures : Nat, crashes : Nat]

\* A step spends a failure or nothing, a call a request, a restart a restart.
LEMMA UsedStep ==
  ASSUME UsedOK, [Next]_vars
  PROVE  /\ UsedOK' /\ (used'.crashes = 0 => used.crashes = 0)
         /\ used'.failures = 0 => used.failures = 0
         /\ Restart => used'.crashes # 0
<1>0. /\ used.requests \in Nat /\ used.failures \in Nat /\ used.crashes \in Nat
  BY DEF UsedOK
<1>1. ASSUME NEW p \in Procs, Step(p) PROVE UNCHANGED used \/ Spend("failures")
  BY <1>1 DEF Step, SendStep, CompactStep, SwipeStep, ReseedStep, StartStep, EditStep, BranchStep,
       BeginSend, SendInsert, SendStart, SendReply, SendFails, SendRollback, SendPersist,
       SendUpdate, SendThrows, BeginCompact, CompactNothing, CompactTurn, CompactFails,
       CompactPersist, BeginSwipe, SwipeSeed, SwipeStart, SwipeReply, SwipeFails, SwipeAbandon,
       SwipeBackfill, SwipeVariant, SwipeMessage, SwipeDrop, SwipeUpdate, SelectVariant,
       ReseedDrop, ReseedSeed, ReseedPoint, StartRow, GreetInsert, GreetSeed, GreetThrows,
       GreetUpdate, StartSend, OpenLoad, OpenStart, OpenReply, OpenFails, OpenInsert,
       OpenUpdate, EditMessage, EditVariant, DeleteChat, PatchChat, ForkLoad, ForkRead, ForkRow,
       ForkMessages, ForkSeed, BeginProvider, ProviderSession, ProviderUpdate, Refuse, Deny,
       StartTurn, EndTurn, FailTurn
<1>2. ASSUME NEW p \in Procs, Call(p) PROVE Spend("requests")
  BY <1>2, CallForms DEF Arriving, Arrives
<1>3. UNCHANGED used \/ Spend("failures") \/ Spend("requests") \/ (Restart /\ Spend("crashes"))
  BY <1>1, <1>2 DEF Next, vars, storeVars, Restart
<1>4. ASSUME Spend("failures") \/ Spend("requests")
      PROVE  /\ UsedOK' /\ used'.crashes = used.crashes
             /\ used'.failures \in {used.failures, used.failures + 1}
  BY <1>0, <1>4 DEF Spend, UsedOK
<1>5. ASSUME Spend("crashes")
      PROVE  UsedOK' /\ used'.crashes = used.crashes + 1 /\ used'.failures = used.failures
  BY <1>0, <1>5 DEF Spend, UsedOK
<1>6. Restart => Spend("crashes")
  BY DEF Restart
<1>. QED  BY <1>0, <1>3, <1>4, <1>5, <1>6 DEF UsedOK

-----------------------------------------------------------------------------
(***************************************************************************)
(* Rows in hand.  A row stays as it is for whoever holds its chat's lock:  *)
(* outside the lock rows are only inserted, at seqs nobody has.            *)
(***************************************************************************)
LEMMA OldRowsStay ==
  ASSUME CanonInv, NEW p \in Procs, Step(p), NEW c \in ChatIds, NEW s \in Seqs(c),
         ~(c = chatOf(p) /\ Holds(p))
  PROVE  s \in Seqs(c)' /\ messages'[c][s] = messages[c][s]
<1>0. MessagesOK /\ DOMAIN messages = ChatIds
  BY DEF CanonInv, TypeOK, MessagesOK
<1>1. CASE UNCHANGED messages
  BY <1>1 DEF Seqs
<1>2. CASE \/ SendInsert(p) \/ SendRollback(p) \/ SendPersist(p)
           \/ SwipeBackfill(p) \/ SwipeVariant(p) \/ SwipeMessage(p) \/ EditVariant(p)
  <2>1. Holds(p)
    BY <1>2, Running DEF SendInsert, SendRollback, SendPersist, SwipeBackfill, SwipeVariant,
       SwipeMessage, EditVariant, At, LockedSteps
  <2>. QED  BY <1>0, <1>2, <2>1 DEF SendInsert, SendRollback, SendPersist, SwipeBackfill,
       SwipeVariant, SwipeMessage, EditVariant, WithMessage, WithoutMessage, Seqs
<1>3. CASE SelectVariant(p) \/ EditMessage(p) \/ DeleteChat(p)
  BY <1>0, <1>3 DEF SelectVariant, EditMessage, DeleteChat, Granted, Seqs
<1>4. CASE GreetInsert(p) \/ OpenInsert(p)
  BY <1>0, <1>4 DEF GreetInsert, OpenInsert, CanInsert, WithMessage, Seqs
<1>5. CASE ForkMessages(p)
  <2>1. PICK d : d = req[p].target
    OBVIOUS
  <2>2. CASE UNCHANGED messages
    BY <1>1, <2>2
  <2>3. CASE /\ Seqs(d) \intersect DOMAIN copy[p] = {}
             /\ messages' = [messages EXCEPT ![d] =
                  [n \in Seqs(d) \union DOMAIN copy[p] |->
                     IF n \in DOMAIN copy[p] THEN copy[p][n] ELSE @[n]]]
    BY <1>0, <2>3 DEF Seqs
  <2>. QED  BY <1>5, <2>1, <2>2, <2>3 DEF ForkMessages
<1>. QED  BY <1>1, <1>2, <1>3, <1>4, <1>5, MessagesWriters

-----------------------------------------------------------------------------
(***************************************************************************)
(* The text of a message and its variants.                                 *)
(***************************************************************************)
Coherent(m) == m.variants # <<>> => m.active \in DOMAIN m.variants /\ m.variants[m.active] = m.body

\* A swipe or an edit between its writes to one row.
Rewriting == {"swipe.variant", "swipe.message", "edit.variant"}
\* The steps of a swipe that count on the tip, before the row is done.
Swiping == {"swipe.seed", "swipe.turn", "swipe.reply", "swipe.backfill"}

\* What such a request has in hand: its row is there, and how far it is.
RowInHand(p, c, s) ==
  /\ pc[p] \in Swiping \union Rewriting => s \in Seqs(c)
  /\ pc[p] = "swipe.variant" => messages[c][s].variants # <<>>
  /\ pc[p] = "swipe.message" =>
       LET v == messages[c][s].variants IN v # <<>> /\ v[Len(v)] = loc[p].body
  /\ pc[p] = "edit.variant" =>
       LET m == messages[c][s] IN
       /\ m.body = loc[p].body
       /\ used.crashes = 0 /\ m.variants # <<>> => m.active \in DOMAIN m.variants
RowsInHand == \A p \in Procs : RowInHand(p, chatOf(p), loc[p].seq)

\* Every other row is coherent.
IsRewriting(p, c, s) == pc[p] \in Rewriting /\ chatOf(p) = c /\ loc[p].seq = s
Fine(c, s) == Coherent(messages[c][s]) \/ \E p \in Procs : IsRewriting(p, c, s)
RowsCoherent == \A c \in ChatIds : \A s \in Seqs(c) : Fine(c, s)

\* A fork's copy has texts and no variants, and paid for nothing.
CopiesPlain ==
  \A p \in Procs : pc[p] \in ForkSteps \ {"fork.load", "fork.read"} =>
    \A s \in DOMAIN copy[p] : copy[p][s].variants = <<>> /\ copy[p][s].gens = 0

VariantInv ==
  CanonInv /\ UsedOK /\ RowsInHand /\ CopiesPlain /\ (used.crashes = 0 => RowsCoherent)

\* A copy is made of the roles and the texts of its rows.
LEMMA CopiesStep ==
  ASSUME CanonInv, CopiesPlain, NEW p \in Procs, Step(p)
  PROVE  CopiesPlain'
<1>. SUFFICES ASSUME NEW q \in Procs, pc'[q] \in ForkSteps \ {"fork.load", "fork.read"},
                     NEW s \in DOMAIN copy'[q]
              PROVE  copy'[q][s].variants = <<>> /\ copy'[q][s].gens = 0
  BY DEF CopiesPlain
<1>0. DOMAIN pc = Procs /\ DOMAIN copy = Procs
  BY DEF CanonInv, LineInv, Shapes, ForksCopy
<1>1. CASE q = p /\ ForkRead(p)
  <2>1. PICK c, R : c = chatOf(p) /\ R = {n \in Seqs(c) : n <= req[p].seq}
    OBVIOUS
  <2>2. ~Return(p)
    BY <1>0, <1>1 DEF Return, ForkSteps
  <2>3. copy' = [copy EXCEPT ![p] =
                   [n \in R |-> CopyOf(messages[c][n])]]
    BY <1>1, <2>1, <2>2, Zenon DEF ForkRead
  <2>4. s \in R /\ copy'[q][s] = CopyOf(messages[c][s])
    BY <1>0, <1>1, <2>3
  <2>. QED  BY <2>4 DEF CopyOf, NewMessage
<1>2. CASE ~(q = p /\ ForkRead(p))
  <2>1. pc[q] \in ForkSteps \ {"fork.load", "fork.read"} /\ copy'[q] = copy[q]
    BY <1>2, ForksArrive, OthersStay
  <2>. QED  BY <2>1 DEF CopiesPlain
<1>. QED  BY <1>1, <1>2

\* A request on a row of another, or with nothing in hand, leaves it alone.
LEMMA OthersInHand ==
  ASSUME CanonInv, UsedOK, RowsInHand, NEW p \in Procs, Step(p), NEW q \in Procs \ {p},
         NEW c, c = chatOf(q), NEW s, s = loc[q].seq
  PROVE  RowInHand(q, c, s)'
<1>1. pc'[q] = pc[q] /\ loc'[q] = loc[q] /\ RowInHand(q, c, s)
  BY OthersStay DEF RowsInHand
<1>2. CASE pc[q] \notin Swiping \union Rewriting
  BY <1>1, <1>2 DEF RowInHand, Swiping, Rewriting
<1>3. CASE pc[q] \in Swiping \union Rewriting
  <2>1. Holds(q) /\ c \in ChatIds
    BY <1>3, Running, Rows DEF Swiping, Rewriting, LockedSteps
  <2>2. ~(c = chatOf(p) /\ Holds(p))
    BY <2>1 DEF Holds
  <2>3. s \in Seqs(c) /\ s \in Seqs(c)' /\ messages'[c][s] = messages[c][s]
    BY <1>1, <1>3, <2>1, <2>2, OldRowsStay DEF RowInHand
  <2>4. used'.crashes = 0 => used.crashes = 0
    BY UsedStep DEF Next
  <2>. QED  BY <1>1, <2>3, <2>4 DEF RowInHand
<1>. QED  BY <1>2, <1>3

\* How a request comes to have a row in hand.
LEMMA InHandArrives ==
  ASSUME CanonInv, NEW p \in Procs, Step(p), pc'[p] \in Swiping \union Rewriting
  PROVE  \/ BeginSwipe(p) \/ SwipeSeed(p) \/ SwipeStart(p) \/ SwipeReply(p)
         \/ SwipeBackfill(p) \/ SwipeVariant(p) \/ EditMessage(p)
<1>1. DOMAIN pc = Procs
  BY DEF CanonInv, LineInv, Shapes
<1>. QED  BY <1>1 DEF Swiping, Rewriting, Step, SendStep, CompactStep, SwipeStep, ReseedStep,
       StartStep, EditStep, BranchStep, BeginSend, SendInsert, SendStart, SendReply, SendFails,
       SendRollback, SendPersist,
       SendUpdate, SendThrows, BeginCompact, CompactNothing, CompactTurn, CompactFails,
       CompactPersist, SwipeFails, SwipeAbandon, SwipeMessage, SwipeDrop, SwipeUpdate,
       SelectVariant, ReseedDrop, ReseedSeed, ReseedPoint, StartRow, GreetInsert, GreetSeed,
       GreetThrows, GreetUpdate, StartSend, OpenLoad, OpenStart, OpenReply, OpenFails, OpenInsert,
       OpenUpdate, EditVariant, DeleteChat, PatchChat, ForkLoad, ForkRead, ForkRow,
       ForkMessages, ForkSeed, BeginProvider, ProviderSession, ProviderUpdate, Refuse, Deny,
       At, Granted, StartTurn, EndTurn, FailTurn, ReseedOrLeave, SeedFromCanon, Leave, Return

\* Whoever is let in finds no row half written.
LEMMA NobodyRewrites ==
  ASSUME CanonInv, RowsCoherent, NEW p \in Procs, pc[p] = "wait", Holds(p),
         NEW c, c = chatOf(p), c \in ChatIds, NEW s \in Seqs(c)
  PROVE  Coherent(messages[c][s])
<1>1. ASSUME NEW q \in Procs, pc[q] \in Rewriting, chatOf(q) = c PROVE FALSE
  <2>1. Holds(q)
    BY <1>1, Running DEF Rewriting, LockedSteps
  <2>. QED  BY <1>1, <2>1 DEF Holds, Rewriting
<1>. QED  BY <1>1 DEF RowsCoherent, Fine, IsRewriting

\* The request that moves.
LEMMA ThisInHand ==
  ASSUME VariantInv, NEW p \in Procs, Step(p),
         NEW c, c = chatOf(p)', NEW s, s = loc'[p].seq
  PROVE  RowInHand(p, c, s)'
<1>. SUFFICES ASSUME pc'[p] \in Swiping \union Rewriting PROVE RowInHand(p, c, s)'
  BY DEF RowInHand, Swiping, Rewriting
<1>. CanonInv /\ RowsInHand /\ UsedOK
  BY DEF VariantInv
<1>a. /\ DOMAIN pc = Procs /\ DOMAIN loc = Procs /\ MessagesOK /\ DOMAIN messages = ChatIds
      /\ loc[p] \in Locals /\ nextBody \in Nat
  BY DEF CanonInv, LineInv, Shapes, TypeOK, RequestsOK, MessagesOK
<1>b. req' = req
  <2>1. CASE EditMessage(p)
    BY <1>a, <2>1 DEF EditMessage, ReseedOrLeave, Leave, Swiping, Rewriting
  <2>2. CASE ~EditMessage(p)
    BY <2>2, InHandArrives DEF BeginSwipe, SwipeSeed, SwipeStart, SwipeReply, SwipeBackfill,
       SwipeVariant, StartTurn, EndTurn
  <2>. QED  BY <2>1, <2>2
<1>0. /\ DOMAIN pc = Procs /\ DOMAIN loc = Procs /\ MessagesOK /\ DOMAIN messages = ChatIds
      /\ loc[p] \in Locals /\ req' = req /\ nextBody \in Nat
  BY <1>a, <1>b
<1>1. c = chatOf(p) /\ c \in ChatIds /\ CanonRuns
  BY <1>0, Busy, Rows DEF chatOf, CanonInv
<1>2. RowInHand(p, c, loc[p].seq)
  BY <1>1 DEF RowsInHand
<1>3. CASE BeginSwipe(p)
  <2>1. pc'[p] = "swipe.seed" /\ s = MaxSeq(c) /\ Seqs(c) # {} /\ UNCHANGED messages
    BY <1>0, <1>1, <1>3 DEF BeginSwipe, tables
  <2>. QED  BY <1>1, <2>1, TipIs DEF RowInHand, Seqs
<1>4. CASE SwipeSeed(p) \/ SwipeStart(p) \/ SwipeReply(p)
  <2>1. pc[p] \in Swiping /\ pc'[p] \in Swiping /\ UNCHANGED messages /\ s = loc[p].seq
    BY <1>0, <1>4 DEF SwipeSeed, SwipeStart, SwipeReply, StartTurn, EndTurn, Opens, At, Swiping,
       Locals
  <2>. QED  BY <1>2, <2>1 DEF RowInHand, Swiping, Seqs
<1>5. CASE SwipeBackfill(p)
  <2>1. pc[p] = "swipe.backfill" /\ pc'[p] = "swipe.variant" /\ s = loc[p].seq
    BY <1>0, <1>5 DEF SwipeBackfill, At
  <2>2. s \in Seqs(c)
    BY <1>2, <2>1 DEF RowInHand, Swiping
  <2>3. PICK m \in Message : m = messages[c][s]
    BY <1>0, <1>1, <2>2, RowIs DEF MessagesOK, Seqs
  <2>4. messages' = IF m.variants = <<>> THEN [messages EXCEPT ![c][s].variants = <<m.body>>]
                    ELSE messages
    BY <1>1, <1>5, <2>1, <2>3 DEF SwipeBackfill, Tip, TipRow
  <2>5. s \in Seqs(c)' /\ messages'[c][s].variants # <<>>
    BY <1>0, <1>1, <2>2, <2>3, <2>4 DEF Seqs, Message
  <2>. QED  BY <2>1, <2>5 DEF RowInHand
<1>6. CASE SwipeVariant(p)
  <2>1. /\ pc[p] = "swipe.variant" /\ pc'[p] = "swipe.message" /\ s = loc[p].seq
        /\ loc'[p].body = loc[p].body
        /\ messages' = [messages EXCEPT ![c][s].variants = Append(@, loc[p].body)]
    BY <1>0, <1>1, <1>6 DEF SwipeVariant, At, Tip
  <2>2. s \in Seqs(c) /\ messages[c][s] \in Message /\ messages[c][s].variants \in Seq(Nat)
        /\ loc[p].body \in Nat
    BY <1>0, <1>1, <1>2, <2>1, RowIs DEF RowInHand, MessagesOK, Seqs, Rewriting, Locals
  <2>3. PICK v \in Seq(Nat) : v = messages[c][s].variants
    BY <2>2
  <2>4. s \in Seqs(c)' /\ messages'[c][s].variants = Append(v, loc[p].body)
    BY <1>0, <1>1, <2>1, <2>2, <2>3 DEF Seqs, Message
  <2>5. ASSUME NEW b \in Nat PROVE Append(v, b) # <<>> /\ Append(v, b)[Len(Append(v, b))] = b
    OBVIOUS
  <2>. QED  BY <2>1, <2>2, <2>4, <2>5 DEF RowInHand, Swiping, Rewriting
<1>7. CASE EditMessage(p)
  <2>1. PICK t \in Named(c, req[p].msg) :
          /\ messages' = [messages EXCEPT ![c][t].body = nextBody]
          /\ IF messages[c][t].active # 0
             THEN /\ pc' = [pc EXCEPT ![p] = "edit.variant"]
                  /\ loc' = [loc EXCEPT ![p].row = chats[c], ![p].seq = t, ![p].body = nextBody]
             ELSE ReseedOrLeave(p, chats[c])
    BY <1>1, <1>7 DEF EditMessage
  <2>2. /\ messages[c][t].active # 0
        /\ pc' = [pc EXCEPT ![p] = "edit.variant"]
        /\ loc' = [loc EXCEPT ![p].row = chats[c], ![p].seq = t, ![p].body = nextBody]
    BY <1>0, <2>1 DEF ReseedOrLeave, Leave, Swiping, Rewriting
  <2>3. t \in Seqs(c) /\ messages[c][t] \in Message
    BY <1>0, <1>1, <2>1, RowIs DEF Named, MessagesOK, Seqs
  <2>4. s = t /\ loc'[p].body = nextBody /\ pc'[p] = "edit.variant"
    BY <1>0, <2>2 DEF Locals
  <2>5. PICK m \in Message : m = messages[c][t]
    BY <2>3
  <2>6. /\ t \in Seqs(c)' /\ messages'[c][t].body = nextBody
        /\ messages'[c][t].variants = m.variants /\ messages'[c][t].active = m.active
    BY <1>0, <1>1, <2>1, <2>3, <2>5 DEF Seqs, Message
  <2>7. used' = used
    BY <1>7 DEF EditMessage
  <2>8. used.crashes = 0 => Coherent(m)
    BY <1>1, <1>7, <2>3, <2>5, NobodyRewrites DEF VariantInv, EditMessage, Granted
  <2>. QED  BY <2>4, <2>6, <2>7, <2>8 DEF RowInHand, Coherent, Swiping, Rewriting
<1>. QED  BY <1>3, <1>4, <1>5, <1>6, <1>7, InHandArrives

\* What is done to a row that is half written.
LEMMA RewritingEnds ==
  ASSUME NEW p \in Procs, Step(p), pc[p] \in Rewriting
  PROVE  SwipeVariant(p) \/ SwipeMessage(p) \/ EditVariant(p)
BY DEF Rewriting, Step, SendStep, CompactStep, SwipeStep, ReseedStep, StartStep, EditStep,
       BranchStep, BeginSend, SendInsert, SendStart, SendReply, SendFails, SendRollback,
       SendPersist, SendUpdate, SendThrows, BeginCompact, CompactNothing, CompactTurn,
       CompactFails, CompactPersist, BeginSwipe, SwipeSeed, SwipeStart, SwipeReply, SwipeFails,
       SwipeAbandon, SwipeBackfill, SwipeDrop, SwipeUpdate, SelectVariant,
       ReseedDrop, ReseedSeed, ReseedPoint, StartRow, GreetInsert, GreetSeed, GreetThrows,
       GreetUpdate, StartSend, OpenLoad, OpenStart, OpenReply, OpenFails, OpenInsert,
       OpenUpdate, EditMessage, DeleteChat, PatchChat, ForkLoad, ForkRead, ForkRow,
       ForkMessages, ForkSeed, BeginProvider, ProviderSession, ProviderUpdate, Refuse, Deny,
       At, Granted, StartTurn, EndTurn, FailTurn

\* A row that is not written stays as it is, coherent or in work.
LEMMA KeptFine ==
  ASSUME CanonInv, NEW p \in Procs, Step(p), NEW d, NEW s, ~IsRewriting(p, d, s), Fine(d, s),
         messages'[d][s] = messages[d][s]
  PROVE  Fine(d, s)'
<1>1. CASE Coherent(messages[d][s])
  BY <1>1 DEF Fine
<1>2. ASSUME NEW q \in Procs, IsRewriting(q, d, s) PROVE IsRewriting(q, d, s)'
  BY <1>2, OthersStay DEF IsRewriting, chatOf
<1>. QED  BY <1>1, <1>2 DEF Fine

\* The second half of a swipe or an edit, on its row.
LEMMA RewrittenFine ==
  ASSUME VariantInv, used.crashes = 0, NEW p \in Procs, Step(p), pc[p] \in Rewriting,
         NEW c, c = chatOf(p), NEW s, s = loc[p].seq
  PROVE  /\ \A d \in ChatIds : Seqs(d)' = Seqs(d)
         /\ \A d \in ChatIds : \A t \in Seqs(d) :
              d # c \/ t # s => messages'[d][t] = messages[d][t]
         /\ Fine(c, s)'
<1>. CanonInv /\ RowsInHand
  BY DEF VariantInv
<1>0. /\ DOMAIN pc = Procs /\ DOMAIN loc = Procs /\ MessagesOK /\ DOMAIN messages = ChatIds
      /\ loc[p] \in Locals /\ c \in ChatIds
  BY Busy, Rows DEF CanonInv, LineInv, Shapes, TypeOK, RequestsOK, MessagesOK
<1>1. RowInHand(p, c, s) /\ s \in Seqs(c) /\ loc[p].body \in Nat
  BY <1>0 DEF RowsInHand, RowInHand, Locals
<1>2. PICK m \in Message : m = messages[c][s]
  BY <1>0, <1>1, RowIs DEF MessagesOK, Seqs
<1>3. PICK b \in Nat : b = loc[p].body
  BY <1>1
<1>4. PICK v \in Seq(Nat) : v = m.variants
  BY DEF Message
<1>5. PICK a \in Nat : a = m.active
  BY DEF Message
<1>6. ASSUME NEW n, messages' = [messages EXCEPT ![c][s] = n]
      PROVE  /\ \A d \in ChatIds : Seqs(d)' = Seqs(d)
             /\ \A d \in ChatIds : \A t \in Seqs(d) :
                  d # c \/ t # s => messages'[d][t] = messages[d][t]
             /\ messages'[c][s] = n
  BY <1>0, <1>1, <1>6 DEF Seqs
<1>7. CASE SwipeVariant(p)
  <2>1. messages' = [messages EXCEPT ![c][s] = [m EXCEPT !.variants = Append(@, b)]]
    BY <1>0, <1>1, <1>2, <1>3, <1>7 DEF SwipeVariant, Tip, Message, Seqs
  <2>2. IsRewriting(p, c, s)'
    BY <1>0, <1>7 DEF SwipeVariant, At, IsRewriting, Rewriting, chatOf
  <2>. QED  BY <1>6, <2>1, <2>2 DEF Fine
<1>8. CASE SwipeMessage(p)
  <2>1. messages' = [messages EXCEPT ![c][s] =
                       [m EXCEPT !.active = Len(v), !.body = b, !.gens = @ + 1]]
    BY <1>2, <1>3, <1>4, <1>8 DEF SwipeMessage, Tip, TipRow
  <2>2. pc[p] = "swipe.message"
    BY <1>8 DEF SwipeMessage, At
  <2>3. v # <<>> /\ v[Len(v)] = b
    BY <1>1, <1>2, <1>3, <1>4, <2>2 DEF RowInHand
  <2>4. Len(v) \in DOMAIN v
    BY <2>3
  <2>5. Coherent([m EXCEPT !.active = Len(v), !.body = b, !.gens = @ + 1])
    BY <1>4, <2>3, <2>4 DEF Coherent, Message
  <2>. QED  BY <1>6, <2>1, <2>5 DEF Fine
<1>9. CASE EditVariant(p)
  <2>1. messages' = [messages EXCEPT ![c][s] = [m EXCEPT !.variants[a] = b]]
    BY <1>0, <1>1, <1>2, <1>3, <1>5, <1>9 DEF EditVariant, Seqs
  <2>2. m.body = b /\ (v # <<>> => a \in DOMAIN v)
    BY <1>1, <1>2, <1>3, <1>4, <1>5, <1>9 DEF RowInHand, EditVariant
  <2>3. [m EXCEPT !.variants[a] = b].variants = [v EXCEPT ![a] = b]
        /\ [m EXCEPT !.variants[a] = b].active = a /\ [m EXCEPT !.variants[a] = b].body = b
    BY <1>4, <1>5, <2>2 DEF Message
  <2>4. CASE v = <<>>
    <3>1. [v EXCEPT ![a] = b] = <<>>
      BY <2>4
    <3>. QED  BY <1>6, <2>1, <2>3, <3>1 DEF Fine, Coherent
  <2>5. CASE v # <<>>
    <3>1. a \in DOMAIN [v EXCEPT ![a] = b] /\ [v EXCEPT ![a] = b][a] = b
      BY <2>2, <2>5
    <3>2. PICK n : n = [m EXCEPT !.variants[a] = b]
      OBVIOUS
    <3>3. Coherent(n)
      BY <2>3, <3>1, <3>2 DEF Coherent
    <3>. QED  BY <1>6, <2>1, <3>2, <3>3 DEF Fine
  <2>. QED  BY <2>4, <2>5
<1>. QED  BY <1>7, <1>8, <1>9, RewritingEnds

\* A new message has no variants.
LEMMA NewIsCoherent ==
  ASSUME NEW role, NEW b, NEW g, NEW m \in AfterScripts(NewMessage(role, b, g))
  PROVE  Coherent(m)
BY DEF Coherent, NewMessage, AfterScripts

\* Every row a step writes is coherent, or in work.
LEMMA RowsStep ==
  ASSUME VariantInv, used.crashes = 0, NEW p \in Procs, Step(p)
  PROVE  RowsCoherent'
<1>. CanonInv /\ RowsInHand /\ CopiesPlain /\ RowsCoherent
  BY DEF VariantInv
<1>. DEFINE c == chatOf(p)
<1>0. /\ DOMAIN pc = Procs /\ DOMAIN loc = Procs /\ MessagesOK /\ DOMAIN messages = ChatIds
      /\ loc[p] \in Locals /\ c \in ChatIds /\ nextBody \in Nat
  BY Busy, Rows DEF CanonInv, LineInv, Shapes, TypeOK, RequestsOK, MessagesOK
<1>. SUFFICES ASSUME NEW d \in ChatIds, NEW s \in Seqs(d)' PROVE Fine(d, s)'
  BY DEF RowsCoherent
<1>1. CASE pc[p] \in Rewriting
  <2>1. s \in Seqs(d) /\ Fine(d, s)
    BY <1>1, RewrittenFine DEF RowsCoherent
  <2>. QED  BY <1>1, <2>1, RewrittenFine, KeptFine DEF IsRewriting
<1>. SUFFICES ASSUME pc[p] \notin Rewriting PROVE Fine(d, s)'
  BY <1>1
<1>2. ASSUME s \in Seqs(d), messages'[d][s] = messages[d][s] PROVE Fine(d, s)'
  BY <1>2, KeptFine DEF IsRewriting, RowsCoherent
<1>. SUFFICES ASSUME ~(s \in Seqs(d) /\ messages'[d][s] = messages[d][s]) PROVE Fine(d, s)'
  BY <1>2
<1>3. ASSUME Coherent(messages'[d][s]) PROVE Fine(d, s)'
  BY <1>3 DEF Fine
<1>4. CASE UNCHANGED messages
  BY <1>4 DEF Seqs
<1>5. CASE SendInsert(p) \/ SendPersist(p) \/ GreetInsert(p) \/ OpenInsert(p)
  <2>1. ASSUME NEW role, NEW b, NEW g, NEW t, NEW m \in AfterScripts(NewMessage(role, b, g)),
               messages' = WithMessage(c, t, m)
        PROVE  Fine(d, s)'
    <3>1. messages'[d][s] = m
      BY <1>0, <2>1 DEF WithMessage, Seqs
    <3>. QED  BY <1>3, <2>1, <3>1, NewIsCoherent
  <2>2. CASE SendInsert(p)
    BY <2>1, <2>2 DEF SendInsert, AfterScripts
  <2>3. CASE SendPersist(p)
    BY <2>1, <2>3 DEF SendPersist
  <2>4. CASE GreetInsert(p)
    BY <1>4, <2>1, <2>4 DEF GreetInsert, AfterScripts
  <2>5. CASE OpenInsert(p)
    BY <1>4, <2>1, <2>5 DEF OpenInsert, AfterScripts
  <2>. QED  BY <1>5, <2>2, <2>3, <2>4, <2>5
<1>6. CASE SendRollback(p) \/ DeleteChat(p)
  BY <1>0, <1>6 DEF SendRollback, DeleteChat, WithoutMessage, Seqs
<1>7. CASE SwipeBackfill(p)
  <2>1. d = c /\ s = loc[p].seq
    BY <1>0, <1>7 DEF SwipeBackfill, Seqs, Tip, TipRow
  <2>2. IsRewriting(p, d, s)'
    BY <1>0, <1>7, <2>1 DEF SwipeBackfill, At, IsRewriting, Rewriting, chatOf
  <2>. QED  BY <2>2 DEF Fine
<1>8. CASE SelectVariant(p)
  <2>. DEFINE k == req[p].variant
  <2>1. PICK t \in Named(c, req[p].msg) :
          /\ k \in DOMAIN messages[c][t].variants
          /\ messages' = [messages EXCEPT ![c][t].active = k,
                                          ![c][t].body = messages[c][t].variants[k]]
    BY <1>8 DEF SelectVariant
  <2>2. t \in Seqs(c)
    BY DEF Named, Seqs
  <2>3. PICK m \in Message : m = messages[c][t]
    BY <1>0, <2>2, RowIs DEF MessagesOK, Seqs
  <2>4. messages'[c][t] = [m EXCEPT !.active = k, !.body = m.variants[k]]
    BY <1>0, <2>1, <2>2, <2>3 DEF Seqs, Message
  <2>5. d = c /\ s = t
    BY <1>0, <2>1, <2>2 DEF Seqs
  <2>6. Coherent([m EXCEPT !.active = k, !.body = m.variants[k]])
    BY <2>1, <2>3 DEF Coherent, Message
  <2>. QED  BY <1>3, <2>4, <2>5, <2>6
<1>9. CASE EditMessage(p)
  <2>1. PICK t \in Named(c, req[p].msg) :
          /\ messages' = [messages EXCEPT ![c][t].body = nextBody]
          /\ messages[c][t].active # 0 =>
               /\ pc' = [pc EXCEPT ![p] = "edit.variant"]
               /\ loc' = [loc EXCEPT ![p].row = chats[c], ![p].seq = t, ![p].body = nextBody]
               /\ UNCHANGED <<queue, req>>
    BY <1>9 DEF EditMessage
  <2>2. t \in Seqs(c)
    BY DEF Named, Seqs
  <2>3. PICK m \in Message : m = messages[c][t]
    BY <1>0, <2>2, RowIs DEF MessagesOK, Seqs
  <2>4. d = c /\ s = t
    BY <1>0, <2>1, <2>2 DEF Seqs
  <2>5. CASE m.active # 0
    <3>1. pc'[p] = "edit.variant" /\ loc'[p].seq = t /\ req' = req
      BY <1>0, <2>1, <2>3, <2>5 DEF Locals
    <3>2. IsRewriting(p, d, s)'
      BY <2>4, <3>1 DEF IsRewriting, Rewriting, chatOf
    <3>. QED  BY <3>2 DEF Fine
  <2>6. CASE m.active = 0
    <3>1. Coherent(m)
      BY <1>0, <1>9, <2>2, <2>3, NobodyRewrites DEF EditMessage, Granted
    <3>2. m.variants = <<>>
      BY <2>6, <3>1 DEF Coherent, Message
    <3>3. messages'[c][t].variants = <<>>
      BY <1>0, <2>1, <2>2, <2>3, <3>2 DEF Seqs, Message
    <3>. QED  BY <1>3, <2>4, <3>3 DEF Coherent
  <2>. QED  BY <2>5, <2>6
<1>10. CASE ForkMessages(p)
  <2>1. PICK e : e = req[p].target
    OBVIOUS
  <2>2. CASE messages' = [messages EXCEPT ![e] =
               [n \in Seqs(e) \union DOMAIN copy[p] |->
                  IF n \in DOMAIN copy[p] THEN copy[p][n] ELSE @[n]]]
    <3>1. d = e /\ s \in DOMAIN copy[p] /\ messages'[d][s] = copy[p][s]
      BY <1>0, <2>2 DEF Seqs
    <3>2. copy[p][s].variants = <<>>
      BY <1>10, <3>1 DEF CopiesPlain, ForkMessages, ForkSteps
    <3>. QED  BY <1>3, <3>1, <3>2 DEF Coherent
  <2>. QED  BY <1>4, <1>10, <2>1, <2>2 DEF ForkMessages
<1>11. CASE SwipeVariant(p) \/ SwipeMessage(p) \/ EditVariant(p)
  BY <1>11 DEF SwipeVariant, SwipeMessage, EditVariant, At, Rewriting
<1>. QED  BY <1>4, <1>5, <1>6, <1>7, <1>8, <1>9, <1>10, <1>11, MessagesWriters

-----------------------------------------------------------------------------
(***************************************************************************)
(* VariantInv is inductive.                                                *)
(***************************************************************************)
LEMMA StepKeepsRows ==
  ASSUME VariantInv, NEW p \in Procs, Step(p)
  PROVE  VariantInv'
<1>0. CanonInv /\ UsedOK /\ RowsInHand /\ CopiesPlain /\ Next
  BY DEF VariantInv, Next
<1>1. CanonInv' /\ UsedOK' /\ CopiesPlain'
  BY <1>0, NextKeepsCanon, UsedStep, CopiesStep
<1>2. ASSUME NEW q \in Procs PROVE RowInHand(q, chatOf(q), loc[q].seq)'
  <2>1. CASE q = p
    BY <2>1, ThisInHand
  <2>2. CASE q # p
    <3>1. chatOf(q)' = chatOf(q) /\ loc'[q].seq = loc[q].seq
      BY <1>0, <2>2, OthersStay DEF chatOf
    <3>. QED  BY <1>0, <2>2, <3>1, OthersInHand
  <2>. QED  BY <2>1, <2>2
<1>3. used'.crashes = 0 => RowsCoherent'
  BY <1>0, UsedStep, RowsStep
<1>. QED  BY <1>1, <1>2, <1>3 DEF VariantInv, RowsInHand

\* A request arrives with nothing in hand, and no copy.
LEMMA CallKeepsRows ==
  ASSUME VariantInv, NEW p \in Procs, Call(p)
  PROVE  VariantInv'
<1>0. CanonInv /\ UsedOK /\ RowsInHand /\ CopiesPlain /\ Next
  BY DEF VariantInv, Next
<1>1. CanonInv' /\ UsedOK' /\ (used'.crashes = 0 => used.crashes = 0)
  BY <1>0, NextKeepsCanon, UsedStep
<1>2. PICK r : \E there \in {"wait", "start.row", "fork.load"} : Arriving(p, r, there)
  BY CallForms
<1>3. PICK there \in {"wait", "start.row", "fork.load"} : Arriving(p, r, there)
  BY <1>2
<1>4. /\ UNCHANGED <<messages, loc, copy>> /\ pc[p] = "idle"
      /\ pc' = [pc EXCEPT ![p] = there] /\ req' = [req EXCEPT ![p] = r]
  BY <1>3 DEF Arriving, Arrives, tables
<1>5. DOMAIN pc = Procs /\ DOMAIN req = Procs
  BY <1>0 DEF CanonInv, LineInv, Shapes, TypeOK, RequestsOK
<1>6. RowsInHand'
  BY <1>0, <1>1, <1>4, <1>5 DEF RowsInHand, RowInHand, Swiping, Rewriting, Seqs, chatOf
<1>7. CopiesPlain'
  BY <1>0, <1>4, <1>5 DEF CopiesPlain, ForkSteps
<1>8. ASSUME NEW q \in Procs, NEW d, NEW s, IsRewriting(q, d, s) PROVE IsRewriting(q, d, s)'
  BY <1>4, <1>5, <1>8 DEF IsRewriting, Rewriting, chatOf
<1>9. RowsCoherent => RowsCoherent'
  BY <1>4, <1>8 DEF RowsCoherent, Fine, Seqs
<1>. QED  BY <1>1, <1>6, <1>7, <1>9 DEF VariantInv

LEMMA NextKeepsRows ==
  ASSUME VariantInv, [Next]_vars
  PROVE  VariantInv'
<1>0. CanonInv /\ UsedOK
  BY DEF VariantInv
<1>1. CanonInv' /\ UsedOK'
  BY <1>0, NextKeepsCanon, UsedStep
<1>2. CASE UNCHANGED vars
  <2>1. UNCHANGED <<messages, pc, req, loc, copy, used>>
    BY <1>2 DEF vars, storeVars
  <2>2. RowsInHand' /\ CopiesPlain'
    BY <2>1 DEF VariantInv, RowsInHand, RowInHand, CopiesPlain, Seqs, chatOf
  <2>3. used.crashes = 0 => RowsCoherent
    BY DEF VariantInv
  <2>4. used'.crashes = 0 => RowsCoherent'
    BY <2>1, <2>3 DEF RowsCoherent, Fine, IsRewriting, Seqs, chatOf
  <2>. QED  BY <1>1, <2>2, <2>4 DEF VariantInv
<1>3. CASE Restart
  <2>1. pc' = [q \in Procs |-> "idle"] /\ used'.crashes # 0
    BY <1>0, <1>3, UsedStep DEF Restart
  <2>. QED  BY <1>1, <2>1 DEF VariantInv, RowsInHand, RowInHand, CopiesPlain, ForkSteps, Swiping,
            Rewriting
<1>. QED  BY <1>2, <1>3, StepKeepsRows, CallKeepsRows DEF Next

LEMMA InitRows == Init => VariantInv
<1>. SUFFICES ASSUME Init PROVE VariantInv
  OBVIOUS
<1>1. CanonInv
  BY InitCanon
<1>2. RowsInHand /\ CopiesPlain /\ UsedOK
  BY DEF Init, RowsInHand, RowInHand, CopiesPlain, ForkSteps, Swiping, Rewriting, UsedOK
<1>3. RowsCoherent
  <2>. SUFFICES ASSUME NEW c \in ChatIds, NEW s \in Seqs(c) PROVE Coherent(messages[c][s])
    BY DEF RowsCoherent, Fine
  <2>1. c \in Imported /\ messages[c] = ImportedCanon
    BY DEF Init, Seqs
  <2>2. messages[c][s] = NewMessage(IF s = 1 THEN "user" ELSE "assistant", s + 1, 0)
    BY <2>1 DEF ImportedCanon, Seqs
  <2>. QED  BY <2>2, NewIsCoherent DEF AfterScripts
<1>. QED  BY <1>1, <1>2, <1>3 DEF VariantInv

LEMMA RowsAlways == Spec => []VariantInv
<1>1. VariantInv /\ [Next]_vars => VariantInv'
  BY NextKeepsRows
<1>. QED  BY InitRows, <1>1, PTL DEF Spec

(***************************************************************************)
(* "content: the ACTIVE variant's text ... when variants exist"            *)
(* (types.ts:28): while the server does not restart, whatever swipes,      *)
(* edits, variant choices and failures come together, a chat nobody works  *)
(* on shows the text of the active variant of each of its messages.  Only  *)
(* a restart between the writes of a swipe or an edit breaks it.           *)
(***************************************************************************)
THEOREM TextIsTheActiveVariant == Spec => [](used.crashes = 0 => VariantsCoherent)
<1>1. VariantInv => (used.crashes = 0 => VariantsCoherent)
  <2>. SUFFICES ASSUME VariantInv, used.crashes = 0, NEW c \in ChatIds, Quiet(c), NEW s \in Seqs(c)
                PROVE  Coherent(messages[c][s])
    BY DEF VariantsCoherent, Coherent
  <2>1. Fine(c, s)
    BY DEF VariantInv, RowsCoherent
  <2>2. ASSUME NEW p \in Procs, IsRewriting(p, c, s) PROVE FALSE
    BY <2>2 DEF IsRewriting, Rewriting, Quiet, Touches, chatOf
  <2>. QED  BY <2>1, <2>2 DEF Fine
<1>. QED  BY <1>1, RowsAlways, PTL

-----------------------------------------------------------------------------
(***************************************************************************)
(* The generations of a table of messages, as a sum over its seqs.         *)
(***************************************************************************)
Gens(t, n) == IF n \in DOMAIN t THEN t[n].gens ELSE 0
IsSum(f, t, top) == f = [n \in -1..top |-> IF n = -1 THEN 0 ELSE f[n - 1] + Gens(t, n)]

LEMMA GensType ==
  ASSUME NEW t, MessageTable(t), NEW n
  PROVE  Gens(t, n) \in Nat
BY RowIs DEF Gens

\* The sum has a value, for every upper bound.
LEMMA SumExists ==
  ASSUME NEW t, MessageTable(t)
  PROVE  \A top \in Nat : \E f \in [-1..top -> Nat] : IsSum(f, t, top)
<1>. DEFINE P(n) == \E f \in [-1..n -> Nat] : IsSum(f, t, n)
            Bad == {n \in Nat : ~P(n)}
<1>1. ASSUME NEW n \in Nat, NEW f \in [-1..n - 1 -> Nat],
             f = [i \in -1..n - 1 |-> IF i = -1 THEN 0 ELSE f[i - 1] + Gens(t, i)]
      PROVE  P(n)
  <2>. DEFINE w == Gens(t, n)
              h == [i \in -1..n |-> IF i = n THEN f[n - 1] + w ELSE f[i]]
  <2>1. w \in Nat /\ f[n - 1] \in Nat
    BY GensType
  <2>. HIDE DEF w
  <2>2. h \in [-1..n -> Nat] /\ h[n] = f[n - 1] + w /\ \A i \in -1..n - 1 : h[i] = f[i]
    BY <2>1
  <2>. HIDE DEF h
  <2>3. ASSUME NEW i \in -1..n PROVE h[i] = IF i = -1 THEN 0 ELSE h[i - 1] + Gens(t, i)
    <3>1. CASE i = n
      BY <2>2, <3>1 DEF w
    <3>2. CASE i # n
      <4>1. i \in -1..n - 1 /\ (i # -1 => i - 1 \in -1..n - 1)
        BY <3>2
      <4>2. f[i] = IF i = -1 THEN 0 ELSE f[i - 1] + Gens(t, i)
        BY <1>1, <4>1
      <4>. QED  BY <2>2, <4>1, <4>2
    <3>. QED  BY <3>1, <3>2
  <2>4. IsSum(h, t, n)
    BY <2>2, <2>3 DEF IsSum
  <2>. QED  BY <2>2, <2>4
<1>2. P(0)
  <2>. DEFINE f == [i \in -1..(0 - 1) |-> 0]
  <2>1. f \in [-1..(0 - 1) -> Nat] /\ \A i \in -1..(0 - 1) : i = -1 /\ f[i] = 0
    OBVIOUS
  <2>2. f = [i \in -1..(0 - 1) |-> IF i = -1 THEN 0 ELSE f[i - 1] + Gens(t, i)]
    BY <2>1
  <2>. HIDE DEF f, P
  <2>. QED  BY <1>1, <2>1, <2>2
<1>3. ASSUME NEW n \in Nat \ {0}, P(n - 1) PROVE P(n)
  <2>1. PICK f \in [-1..n - 1 -> Nat] : IsSum(f, t, n - 1)
    BY <1>3
  <2>. HIDE DEF P
  <2>. QED  BY <1>1, <2>1 DEF IsSum
<1>. HIDE DEF P
<1>4. Bad = {}
  <2>. SUFFICES ASSUME Bad # {} PROVE FALSE
    OBVIOUS
  <2>1. PICK n \in Bad : \A m \in Bad : n <= m
    BY LeastNatural
  <2>2. n \in Nat \ {0} /\ n - 1 \notin Bad
    BY <1>2, <2>1
  <2>. QED  BY <1>3, <2>1, <2>2
<1>. QED  BY <1>4 DEF P

\* One message changes what it paid by d: from its seq on the sums differ by d.
LEMMA SumsDiffer ==
  ASSUME NEW t, MessageTable(t), NEW u, MessageTable(u), NEW top \in Nat, NEW s \in 0..top,
         NEW d \in Int, Gens(u, s) = Gens(t, s) + d,
         \A n \in 0..top : n # s => Gens(u, n) = Gens(t, n),
         NEW f \in [-1..top -> Nat], IsSum(f, t, top), NEW g \in [-1..top -> Nat], IsSum(g, u, top)
  PROVE  g[top] = f[top] + d
<1>. DEFINE P(n) == g[n] = f[n] + (IF s <= n THEN d ELSE 0)
            Bad == {n \in 0..top : ~P(n)}
<1>1. /\ f[-1] = 0 /\ g[-1] = 0
      /\ \A n \in 0..top : f[n] = f[n - 1] + Gens(t, n) /\ g[n] = g[n - 1] + Gens(u, n)
  BY DEF IsSum
<1>2. P(-1)
  BY <1>1
<1>3. ASSUME NEW n \in 0..top, P(n - 1) PROVE P(n)
  <2>1. /\ n - 1 \in -1..top /\ f[n - 1] \in Nat /\ g[n - 1] \in Nat
        /\ Gens(t, n) \in Nat /\ Gens(u, n) \in Nat
    BY GensType
  <2>2. f[n] = f[n - 1] + Gens(t, n) /\ g[n] = g[n - 1] + Gens(u, n)
    BY <1>1
  <2>3. CASE n = s
    <3>1. g[n - 1] = f[n - 1] /\ Gens(u, n) = Gens(t, n) + d
      BY <1>3, <2>1, <2>3
    <3>2. PICK a \in Nat, w \in Nat : a = f[n - 1] /\ w = Gens(t, n)
      BY <2>1
    <3>3. f[n] = a + w /\ g[n] = a + (w + d)
      BY <2>2, <3>1, <3>2
    <3>4. g[n] = f[n] + d /\ s <= n
      BY <2>3, <3>3
    <3>. QED  BY <3>4
  <2>4. CASE n # s
    <3>1. Gens(u, n) = Gens(t, n) /\ (s <= n - 1 <=> s <= n)
      BY <2>4
    <3>2. PICK a \in Nat, w \in Nat : a = f[n - 1] /\ w = Gens(t, n)
      BY <2>1
    <3>3. PICK e \in Int : e = IF s <= n THEN d ELSE 0
      OBVIOUS
    <3>4. g[n - 1] = a + e
      BY <1>3, <3>1, <3>2, <3>3
    <3>5. g[n] = f[n] + e
      BY <2>2, <3>1, <3>2, <3>4
    <3>. QED  BY <3>3, <3>5
  <2>. QED  BY <2>3, <2>4
<1>. HIDE DEF P
<1>4. Bad = {}
  <2>. SUFFICES ASSUME Bad # {} PROVE FALSE
    OBVIOUS
  <2>1. Bad \in SUBSET Nat
    OBVIOUS
  <2>2. PICK n \in Bad : \A m \in Bad : n <= m
    BY <2>1, LeastNatural
  <2>3. n \in 0..top /\ (n = 0 \/ (n - 1 \in 0..top /\ n - 1 \notin Bad))
    BY <2>2
  <2>4. P(n - 1)
    <3>1. n = 0 => n - 1 = -1
      OBVIOUS
    <3>. QED  BY <1>2, <2>3, <3>1
  <2>. QED  BY <1>3, <2>2, <2>3, <2>4
<1>5. P(top) /\ s <= top
  BY <1>4
<1>. QED  BY <1>5 DEF P

\* Behind the last message nothing is added.
LEMMA SumsEnd ==
  ASSUME NEW t, MessageTable(t), NEW last \in Nat, NEW top \in Nat, last <= top,
         \A n \in DOMAIN t : n <= last,
         NEW f \in [-1..last -> Nat], IsSum(f, t, last), NEW g \in [-1..top -> Nat], IsSum(g, t, top)
  PROVE  g[top] = f[last]
<1>. DEFINE P(n) == g[n] = IF n <= last THEN f[n] ELSE f[last]
            Bad == {n \in 0..top : ~P(n)}
<1>1. /\ f[-1] = 0 /\ g[-1] = 0
      /\ \A n \in 0..last : f[n] = f[n - 1] + Gens(t, n)
      /\ \A n \in 0..top : g[n] = g[n - 1] + Gens(t, n)
  BY DEF IsSum
<1>2. P(-1)
  BY <1>1
<1>3. ASSUME NEW n \in 0..top, P(n - 1) PROVE P(n)
  <2>1. CASE n <= last
    BY <1>1, <1>3, <2>1
  <2>2. CASE n > last
    <3>1. Gens(t, n) = 0
      BY <2>2 DEF Gens, MessageTable
    <3>2. g[n] = g[n - 1] + 0 /\ n - 1 \in -1..top /\ g[n - 1] \in Nat
      BY <1>1, <3>1
    <3>3. PICK m \in Int : m = n - 1
      OBVIOUS
    <3>4. g[n] = g[m] /\ (m <= last => m = last)
      BY <2>2, <3>2, <3>3
    <3>5. g[m] = IF m <= last THEN f[m] ELSE f[last]
      BY <1>3, <3>3
    <3>6. g[n] = f[last] /\ ~(n <= last)
      BY <2>2, <3>4, <3>5
    <3>. QED  BY <3>6
  <2>. QED  BY <2>1, <2>2
<1>. HIDE DEF P
<1>4. Bad = {}
  <2>. SUFFICES ASSUME Bad # {} PROVE FALSE
    OBVIOUS
  <2>1. Bad \in SUBSET Nat
    OBVIOUS
  <2>2. PICK n \in Bad : \A m \in Bad : n <= m
    BY <2>1, LeastNatural
  <2>3. n \in 0..top /\ (n = 0 \/ (n - 1 \in 0..top /\ n - 1 \notin Bad))
    BY <2>2
  <2>4. P(n - 1)
    <3>1. n = 0 => n - 1 = -1
      OBVIOUS
    <3>. QED  BY <1>2, <2>3, <3>1
  <2>. QED  BY <1>3, <2>2, <2>3, <2>4
<1>. QED  BY <1>4 DEF P

\* The generations of a chat are the sum to its tip, and so to any seq behind it.
LastOf(t) == IF DOMAIN t = {} THEN 0 ELSE TopOf(DOMAIN t)
TotalOf(t) ==
  LET sum[n \in -1..LastOf(t)] ==
        IF n = -1 THEN 0 ELSE sum[n - 1] + IF n \in DOMAIN t THEN t[n].gens ELSE 0
  IN  sum[LastOf(t)]

LEMMA TotalIs ==
  ASSUME NEW t, MessageTable(t), LastOf(t) \in Nat, \A n \in DOMAIN t : n <= LastOf(t),
         NEW top \in Nat, LastOf(t) <= top, NEW g \in [-1..top -> Nat], IsSum(g, t, top)
  PROVE  TotalOf(t) = g[top]
<1>. DEFINE Eq(x) == x = [n \in -1..LastOf(t) |->
                       IF n = -1 THEN 0 ELSE x[n - 1] + IF n \in DOMAIN t THEN t[n].gens ELSE 0]
            f == CHOOSE x : Eq(x)
<1>1. PICK h \in [-1..LastOf(t) -> Nat] : IsSum(h, t, LastOf(t))
  BY SumExists
<1>2. Eq(h)
  BY <1>1 DEF IsSum, Gens
<1>3. Eq(f)
  BY <1>2
<1>4. TotalOf(t) = f[LastOf(t)]
  BY DEF TotalOf
<1>. HIDE DEF f
<1>5. IsSum(f, t, LastOf(t))
  BY <1>3 DEF IsSum, Gens
<1>6. f[LastOf(t)] = h[LastOf(t)]
  <2>. DEFINE Bad == {n \in 0..LastOf(t) : f[n] # h[n]}
  <2>1. /\ f[-1] = h[-1]
        /\ \A n \in 0..LastOf(t) : f[n] = f[n - 1] + Gens(t, n) /\ h[n] = h[n - 1] + Gens(t, n)
    BY <1>1, <1>5 DEF IsSum
  <2>2. Bad = {}
    <3>. SUFFICES ASSUME Bad # {} PROVE FALSE
      OBVIOUS
    <3>1. Bad \in SUBSET Nat
      OBVIOUS
    <3>2. PICK n \in Bad : \A m \in Bad : n <= m
      BY <3>1, LeastNatural
    <3>3. n \in 0..LastOf(t) /\ (n = 0 \/ (n - 1 \in 0..LastOf(t) /\ n - 1 \notin Bad))
      BY <3>2
    <3>4. n = 0 => n - 1 = -1
      OBVIOUS
    <3>5. f[n - 1] = h[n - 1]
      BY <2>1, <3>3, <3>4
    <3>. QED  BY <2>1, <3>2, <3>3, <3>5
  <2>. QED  BY <2>2
<1>. QED  BY <1>1, <1>4, <1>6, SumsEnd

\* A message that comes, goes or pays changes the total by its difference.
LEMMA TotalChanges ==
  ASSUME NEW t, MessageTable(t), LastOf(t) \in Nat, \A n \in DOMAIN t : n <= LastOf(t),
         NEW u, MessageTable(u), LastOf(u) \in Nat, \A n \in DOMAIN u : n <= LastOf(u),
         NEW s \in Nat, NEW d \in Int, Gens(u, s) = Gens(t, s) + d,
         \A n \in Nat : n # s => Gens(u, n) = Gens(t, n)
  PROVE  TotalOf(t) \in Nat /\ TotalOf(u) = TotalOf(t) + d
<1>1. PICK top \in Nat : LastOf(t) <= top /\ LastOf(u) <= top /\ s <= top
  <2>1. LastOf(t) + LastOf(u) + s \in Nat
    OBVIOUS
  <2>. QED  BY <2>1
<1>2. PICK f \in [-1..top -> Nat] : IsSum(f, t, top)
  BY SumExists
<1>3. PICK g \in [-1..top -> Nat] : IsSum(g, u, top)
  BY SumExists
<1>4. g[top] = f[top] + d
  <2>1. s \in 0..top /\ 0..top \subseteq Nat
    BY <1>1
  <2>2. \A n \in 0..top : n # s => Gens(u, n) = Gens(t, n)
    BY <2>1
  <2>. QED  BY <1>2, <1>3, <2>1, <2>2, SumsDiffer, Zenon
<1>5. TotalOf(t) = f[top] /\ TotalOf(u) = g[top]
  BY <1>1, <1>2, <1>3, TotalIs
<1>. QED  BY <1>4, <1>5

\* Messages that paid for nothing.
LEMMA TotalOfNothing ==
  ASSUME NEW t, MessageTable(t), LastOf(t) \in Nat, \A n \in DOMAIN t : n <= LastOf(t),
         \A n \in DOMAIN t : t[n].gens = 0
  PROVE  TotalOf(t) = 0
<1>. DEFINE top == LastOf(t)
            g == [n \in -1..top |-> 0]
<1>1. g \in [-1..top -> Nat]
  OBVIOUS
<1>2. \A n \in Nat : Gens(t, n) = 0
  BY DEF Gens
<1>3. IsSum(g, t, top)
  BY <1>2 DEF IsSum
<1>4. top \in -1..top /\ g[top] = 0
  OBVIOUS
<1>. HIDE DEF g
<1>. QED  BY <1>1, <1>3, <1>4, TotalIs

-----------------------------------------------------------------------------
(***************************************************************************)
(* A chat that is being started or forked has one writer, when no client   *)
(* acts on a chat before its startChat or fork is done.                    *)
(***************************************************************************)
Greeting == {"greet.insert", "greet.seed", "greet.update"}

\* p is writing a chat that nobody else knows yet, or is about to.
Builds(p, c) ==
  \/ pc[p] \in Greeting \union {"start.send"} \union OpenSteps /\ chatOf(p) = c
  \/ pc[p] \in {"fork.messages", "fork.seed"} /\ req[p].target = c
InLineAt(p, c) == pc[p] \in {"wait"} \union LockedSteps /\ chatOf(p) = c
Aims(p, c) == pc[p] \in {"fork.load", "fork.read", "fork.row"} /\ req[p].target = c

AbsentInv ==
  \A c \in ChatIds : chats[c].status = "absent" =>
    Seqs(c) = {} /\ \A p \in Procs : ~Builds(p, c) /\ ~InLineAt(p, c)
BuildInv ==
  \A c \in ChatIds, p \in Procs : Builds(p, c) =>
    /\ Live(c)
    /\ req[p].target = c \/ (chatOf(p) = c /\ req[p].kind \in StartKinds)
    /\ \A q \in Procs \ {p} : ~Builds(q, c) /\ ~InLineAt(q, c)
AimInv ==
  \A c \in ChatIds, p \in Procs : Aims(p, c) =>
    /\ chats[c].status = "absent"
    /\ \A q \in Procs \ {p} : c # chatOf(q) /\ c # req[q].target
LockedInv == \A p \in Procs : pc[p] \in LockedSteps => Live(chatOf(p))
StartInv == \A p \in Procs : pc[p] = "start.row" => req[p].kind \in StartKinds

OneWriter == VariantInv /\ AbsentInv /\ BuildInv /\ AimInv /\ LockedInv /\ StartInv

\* Where a step takes its request.
FreeMove(p) ==
  \/ /\ StartRow(p) /\ chats[chatOf(p)].status = "absent"
     /\ pc'[p] \in {"open.load", "greet.insert", "start.send"}
  \/ ForkRow(p) /\ pc'[p] = "fork.messages"
  \/ pc[p] \in Greeting /\ pc'[p] \in Greeting \union {"start.send"}
  \/ pc[p] \in OpenSteps /\ pc'[p] \in OpenSteps
  \/ pc[p] \in {"fork.load", "fork.read"} /\ pc'[p] \in {"fork.read", "fork.row"}
  \/ pc[p] = "fork.messages" /\ pc'[p] = "fork.seed"
LockedMove(p) ==
  /\ pc'[p] \in LockedSteps
  /\ pc[p] \in LockedSteps \/ (pc[p] = "wait" /\ Holds(p) /\ Live(chatOf(p)))
Goes(p) == pc'[p] = "idle" /\ req'[p] = NoRequest
Moves(p) == Goes(p) \/ StartSend(p) \/ (req'[p] = req[p] /\ (LockedMove(p) \/ FreeMove(p)))

LEMMA StepMoves ==
  ASSUME CanonInv, NEW p \in Procs, Step(p)
  PROVE  Moves(p)
<1>1. DOMAIN pc = Procs /\ DOMAIN req = Procs
  BY DEF CanonInv, LineInv, Shapes, TypeOK, RequestsOK
<1>2. ASSUME Leave(p) \/ Return(p) PROVE Goes(p)
  BY <1>1, <1>2 DEF Leave, Return, Goes
<1>3. ASSUME NEW row, ReseedOrLeave(p, row)
      PROVE  Goes(p) \/ (req'[p] = req[p] /\ pc'[p] \in LockedSteps)
  BY <1>1, <1>2, <1>3 DEF ReseedOrLeave, LockedSteps
<1>4. CASE SendStep(p)
  BY <1>1, <1>2, <1>4 DEF SendStep, BeginSend, SendInsert, SendStart, SendReply, SendFails,
     SendRollback, SendPersist, SendUpdate, SendThrows, StartTurn, EndTurn, FailTurn, At, Granted,
     Moves, LockedMove, LockedSteps
<1>5. CASE BeginCompact(p) \/ CompactNothing(p) \/ CompactStep(p) \/ ReseedStep(p) \/ Refuse(p) \/ Deny(p)
  BY <1>1, <1>2, <1>5 DEF BeginCompact, CompactNothing, CompactStep, CompactTurn, CompactFails,
     CompactPersist, ReseedStep, ReseedDrop, ReseedSeed, ReseedPoint, SeedFromCanon, Refuse, Deny,
     At, Granted, Moves, LockedMove, LockedSteps
<1>6. CASE SwipeStep(p)
  BY <1>1, <1>2, <1>6 DEF SwipeStep, BeginSwipe, SwipeSeed, SwipeStart, SwipeReply, SwipeFails,
     SwipeAbandon, SwipeBackfill, SwipeVariant, SwipeMessage, SwipeDrop, SwipeUpdate, StartTurn,
     EndTurn, FailTurn, At, Granted, Moves, LockedMove, LockedSteps
<1>7. CASE SelectVariant(p)
  BY <1>1, <1>2, <1>3, <1>7 DEF SelectVariant, Granted, Moves, LockedMove
<1>8. CASE EditMessage(p)
  BY <1>1, <1>2, <1>3, <1>8 DEF EditMessage, Granted, Moves, LockedMove, LockedSteps
<1>9. CASE EditVariant(p) \/ DeleteChat(p) \/ PatchChat(p)
  BY <1>1, <1>2, <1>3, <1>9 DEF EditVariant, DeleteChat, PatchChat, Moves, LockedMove, LockedSteps
<1>10. CASE StartRow(p) \/ GreetInsert(p) \/ GreetSeed(p) \/ GreetThrows(p) \/ GreetUpdate(p)
            \/ StartSend(p)
  BY <1>1, <1>2, <1>10 DEF StartRow, GreetInsert, GreetSeed, GreetThrows, GreetUpdate, At, Moves,
     FreeMove, Greeting
<1>11. CASE OpenLoad(p) \/ OpenStart(p) \/ OpenReply(p) \/ OpenFails(p) \/ OpenInsert(p)
            \/ OpenUpdate(p)
  BY <1>1, <1>2, <1>11 DEF OpenLoad, OpenStart, OpenReply, OpenFails, OpenInsert, OpenUpdate,
     StartTurn, EndTurn, At, Moves, FreeMove, OpenSteps
<1>12. CASE BranchStep(p)
  BY <1>1, <1>2, <1>12 DEF BranchStep, ForkLoad, ForkRead, ForkRow, ForkMessages, ForkSeed,
     BeginProvider, ProviderSession, ProviderUpdate, SeedFromCanon, At, Granted, Moves, FreeMove,
     LockedMove, LockedSteps
<1>. QED  BY <1>4, <1>5, <1>6, <1>7, <1>8, <1>9, <1>10, <1>11, <1>12 DEF Step, EditStep, StartStep

\* The columns of a chat that its life and its ledger are about.
Columns(c) == <<chats[c].status, chats[c].count, chats[c].total>>

\* How a chat comes to be and to be no more, and how its columns are written.
ColumnsMove(p, c) ==
  \/ Columns(c)' = Columns(c)
  \/ SendUpdate(p) /\ c = chatOf(p)
     /\ Columns(c)' = <<chats[c].status, loc[p].row.count + 2, loc[p].row.total + 1>>
  \/ SwipeUpdate(p) /\ c = chatOf(p)
     /\ Columns(c)' = <<chats[c].status, chats[c].count, loc[p].row.total + 1>>
  \/ GreetUpdate(p) /\ c = chatOf(p) /\ Columns(c)' = <<chats[c].status, 1, chats[c].total>>
  \/ OpenUpdate(p) /\ c = chatOf(p) /\ Columns(c)' = <<chats[c].status, 1, 1>>
  \/ StartRow(p) /\ c = chatOf(p) /\ chats[c].status = "absent" /\ Columns(c)' = <<"live", 0, 0>>
  \/ ForkRow(p) /\ c = req[p].target /\ Columns(c)' = <<"live", Cardinality(DOMAIN copy[p]), 0>>
  \/ DeleteChat(p) /\ c = chatOf(p) /\ chats'[c].status = "deleted"

\* What the steps write that write a count or a total.
ColumnsWrite(p, c) ==
  LET now == chats[c]
      row == loc[p].row
      same == Columns(c)
  IN
  /\ SendUpdate(p) => Columns(c)' = IF c = chatOf(p)
                        THEN <<now.status, row.count + 2, row.total + 1>> ELSE same
  /\ SwipeUpdate(p) => Columns(c)' = IF c = chatOf(p)
                        THEN <<now.status, now.count, row.total + 1>> ELSE same
  /\ GreetUpdate(p) => Columns(c)' = IF c = chatOf(p) /\ Live(c)
                        THEN <<now.status, 1, now.total>> ELSE same
  /\ OpenUpdate(p) => Columns(c)' = IF c = chatOf(p) /\ Live(c)
                        THEN <<now.status, 1, 1>> ELSE same
  /\ StartRow(p) => Columns(c)' = IF c = chatOf(p) /\ now.status = "absent"
                        THEN <<"live", 0, 0>> ELSE same
  /\ ForkRow(p) => Columns(c)' = IF c = req[p].target
                        THEN <<"live", Cardinality(DOMAIN copy[p]), 0>> ELSE same

LEMMA ColumnsWritten ==
  ASSUME CanonInv, NEW p \in Procs, Step(p), NEW c \in ChatIds
  PROVE  ColumnsWrite(p, c)
<1>0. /\ DOMAIN chats = ChatIds /\ chatOf(p) \in ChatIds
  BY Busy, Rows DEF CanonInv, TypeOK, ChatsOK
<1>1. ASSUME NEW d, NEW r, chats' = [chats EXCEPT ![d] = r]
      PROVE  Columns(c)' = IF c = d THEN <<r.status, r.count, r.total>> ELSE Columns(c)
  BY <1>0, <1>1 DEF Columns
<1>. PICK d \in ChatIds : d = chatOf(p)
  BY <1>0
<1>2. PICK old \in ChatRow : old = chats[d]
  BY <1>0 DEF CanonInv, TypeOK, ChatsOK
<1>3. ASSUME UNCHANGED chats PROVE Columns(c)' = Columns(c)
  BY <1>3 DEF Columns
<1>4. ASSUME SendUpdate(p)
      PROVE  Columns(c)' = IF c = d THEN <<chats[c].status, loc[p].row.count + 2, loc[p].row.total + 1>>
                           ELSE Columns(c)
  <2>1. PICK s, k, t : /\ s = IF loc[p].row.api = "agent-sdk" THEN loc[p].sid ELSE chats[d].session
                       /\ k = loc[p].row.count + 2 /\ t = loc[p].row.total + 1
    OBVIOUS
  <2>2. PICK r : r = [old EXCEPT !.session = s, !.count = k, !.total = t]
    OBVIOUS
  <2>3. r.status = old.status /\ r.count = k /\ r.total = t
    BY <2>2 DEF ChatRow
  <2>4. chats' = [chats EXCEPT ![d] = r]
    BY <1>0, <1>2, <1>4, <2>1, <2>2 DEF SendUpdate
  <2>. QED  BY <1>1, <1>2, <2>1, <2>3, <2>4
<1>5. ASSUME SwipeUpdate(p)
      PROVE  Columns(c)' = IF c = d THEN <<chats[c].status, chats[c].count, loc[p].row.total + 1>>
                           ELSE Columns(c)
  <2>1. PICK s, t : /\ s = IF OnAgentSdk(p) THEN loc[p].sid ELSE chats[d].session
                    /\ t = loc[p].row.total + 1
    OBVIOUS
  <2>2. PICK r : r = [old EXCEPT !.session = s, !.total = t]
    OBVIOUS
  <2>3. r.status = old.status /\ r.count = old.count /\ r.total = t
    BY <2>2 DEF ChatRow
  <2>4. chats' = [chats EXCEPT ![d] = r]
    BY <1>0, <1>2, <1>5, <2>1, <2>2 DEF SwipeUpdate
  <2>. QED  BY <1>1, <1>2, <2>1, <2>3, <2>4
<1>6. ASSUME GreetUpdate(p)
      PROVE  Columns(c)' = IF c = d /\ Live(c) THEN <<chats[c].status, 1, chats[c].total>>
                           ELSE Columns(c)
  <2>1. PICK s : s = IF req[p].api = "agent-sdk" THEN loc[p].sid ELSE old.session
    OBVIOUS
  <2>2. PICK r : r = [old EXCEPT !.count = 1, !.session = s]
    OBVIOUS
  <2>3. r.status = old.status /\ r.count = 1 /\ r.total = old.total
    BY <2>2 DEF ChatRow
  <2>4. Live(d) => chats' = [chats EXCEPT ![d] = r]
    BY <1>0, <1>2, <1>6, <2>1, <2>2 DEF GreetUpdate
  <2>5. ~Live(d) => UNCHANGED chats
    BY <1>6 DEF GreetUpdate
  <2>. QED  BY <1>1, <1>2, <1>3, <2>3, <2>4, <2>5
<1>7. ASSUME OpenUpdate(p)
      PROVE  Columns(c)' = IF c = d /\ Live(c) THEN <<chats[c].status, 1, 1>> ELSE Columns(c)
  <2>1. PICK s : s = IF OnAgentSdk(p) THEN loc[p].sid ELSE old.session
    OBVIOUS
  <2>2. PICK r : r = [old EXCEPT !.count = 1, !.total = 1, !.session = s]
    OBVIOUS
  <2>3. r.status = old.status /\ r.count = 1 /\ r.total = 1
    BY <2>2 DEF ChatRow
  <2>4. Live(d) => chats' = [chats EXCEPT ![d] = r]
    BY <1>0, <1>2, <1>7, <2>1, <2>2 DEF OpenUpdate
  <2>5. ~Live(d) => UNCHANGED chats
    BY <1>7 DEF OpenUpdate
  <2>. QED  BY <1>1, <1>2, <1>3, <2>3, <2>4, <2>5
<1>8. ASSUME StartRow(p)
      PROVE  Columns(c)' = IF c = d /\ chats[c].status = "absent" THEN <<"live", 0, 0>> ELSE Columns(c)
  <2>1. PICK r : r = NewChat(req[p].api)
    OBVIOUS
  <2>2. r.status = "live" /\ r.count = 0 /\ r.total = 0
    BY <2>1 DEF NewChat
  <2>3. chats[d].status = "absent" => chats' = [chats EXCEPT ![d] = r]
    BY <1>8, <2>1 DEF StartRow
  <2>4. chats[d].status # "absent" => UNCHANGED chats
    BY <1>8 DEF StartRow
  <2>. QED  BY <1>1, <1>3, <2>2, <2>3, <2>4
<1>9. ASSUME ForkRow(p)
      PROVE  Columns(c)' = IF c = req[p].target THEN <<"live", Cardinality(DOMAIN copy[p]), 0>>
                           ELSE Columns(c)
  <2>1. PICK api, s, k, m, a :
          /\ api = req[p].api /\ k = Cardinality(DOMAIN copy[p])
          /\ s = IF req[p].api = "agent-sdk" THEN nextSession ELSE 0
          /\ m = IF Carried(loc[p].row, req[p].seq) THEN loc[p].row.summary ELSE <<>>
          /\ a = IF Carried(loc[p].row, req[p].seq) THEN loc[p].row.anchor ELSE -1
    OBVIOUS
  <2>2. PICK r : r = [NewChat(api) EXCEPT !.session = s, !.count = k, !.summary = m, !.anchor = a]
    OBVIOUS
  <2>3. r.status = "live" /\ r.count = k /\ r.total = 0
    BY <2>2 DEF NewChat
  <2>4. chats' = [chats EXCEPT ![req[p].target] = r]
    BY <1>9, <2>1, <2>2 DEF ForkRow
  <2>. QED  BY <1>1, <2>1, <2>3, <2>4
<1>. QED  BY <1>4, <1>5, <1>6, <1>7, <1>8, <1>9 DEF ColumnsWrite

LEMMA ColumnsStep ==
  ASSUME CanonInv, NEW p \in Procs, Step(p), NEW c \in ChatIds
  PROVE  ColumnsMove(p, c)
<1>0. /\ DOMAIN chats = ChatIds /\ chatOf(p) \in ChatIds /\ ColumnsWrite(p, c)
  BY Busy, Rows, ColumnsWritten DEF CanonInv, TypeOK, ChatsOK
<1>. PICK d \in ChatIds : d = chatOf(p)
  BY <1>0
<1>1. PICK old \in ChatRow : old = chats[d]
  BY <1>0 DEF CanonInv, TypeOK, ChatsOK
<1>2. ASSUME NEW r, chats' = [chats EXCEPT ![d] = r],
             r.status = old.status /\ r.count = old.count /\ r.total = old.total
      PROVE  ColumnsMove(p, c)
  BY <1>0, <1>1, <1>2 DEF Columns, ColumnsMove
<1>3. CASE UNCHANGED chats
  BY <1>3 DEF Columns, ColumnsMove
<1>4. CASE SendUpdate(p) \/ SwipeUpdate(p) \/ GreetUpdate(p) \/ OpenUpdate(p) \/ StartRow(p) \/ ForkRow(p)
  BY <1>0, <1>4 DEF ColumnsWrite, ColumnsMove
<1>5. CASE CompactPersist(p)
  <2>1. PICK found \in BOOLEAN : chats' = [chats EXCEPT
         ![d].session = loc[p].sid,
         ![d].summary = IF found THEN Said(FramesOf(loc[p].sid)) ELSE @,
         ![d].anchor = IF found THEN MaxSeq(d) ELSE @]
    BY <1>5 DEF CompactPersist
  <2>2. PICK s, m, a : /\ s = loc[p].sid
                       /\ m = IF found THEN Said(FramesOf(loc[p].sid)) ELSE old.summary
                       /\ a = IF found THEN MaxSeq(d) ELSE old.anchor
    OBVIOUS
  <2>3. PICK r : r = [old EXCEPT !.session = s, !.summary = m, !.anchor = a]
    OBVIOUS
  <2>4. r.status = old.status /\ r.count = old.count /\ r.total = old.total
    BY <2>3 DEF ChatRow
  <2>5. chats' = [chats EXCEPT ![d] = r]
    BY <1>0, <1>1, <2>1, <2>2, <2>3
  <2>. QED  BY <1>2, <2>4, <2>5
<1>6. CASE ReseedPoint(p)
  <2>1. PICK r : r = [old EXCEPT !.session = loc[p].sid]
    OBVIOUS
  <2>2. r.status = old.status /\ r.count = old.count /\ r.total = old.total
    BY <2>1 DEF ChatRow
  <2>3. chats' = [chats EXCEPT ![d] = r]
    BY <1>0, <1>1, <1>6, <2>1 DEF ReseedPoint
  <2>. QED  BY <1>2, <2>2, <2>3
<1>7. CASE DeleteChat(p)
  <2>1. PICK r : r = [NoChat EXCEPT !.status = "deleted"]
    OBVIOUS
  <2>2. r.status = "deleted" /\ chats' = [chats EXCEPT ![d] = r]
    BY <1>7, <2>1 DEF DeleteChat, NoChat, NewChat
  <2>. QED  BY <1>0, <1>7, <2>2 DEF Columns, ColumnsMove
<1>8. CASE PatchChat(p)
  <2>1. PICK r : r = [old EXCEPT !.starred = ~@]
    OBVIOUS
  <2>2. r.status = old.status /\ r.count = old.count /\ r.total = old.total
    BY <2>1 DEF ChatRow
  <2>3. chats' = [chats EXCEPT ![d] = r]
    BY <1>0, <1>1, <1>8, <2>1 DEF PatchChat
  <2>. QED  BY <1>2, <2>2, <2>3
<1>9. CASE ProviderUpdate(p)
  <2>1. PICK r : r = [old EXCEPT !.api = req[p].api, !.session = loc[p].sid]
    OBVIOUS
  <2>2. r.status = old.status /\ r.count = old.count /\ r.total = old.total
    BY <2>1 DEF ChatRow
  <2>3. chats' = [chats EXCEPT ![d] = r]
    BY <1>0, <1>1, <1>9, <2>1 DEF ProviderUpdate
  <2>. QED  BY <1>2, <2>2, <2>3
<1>. QED  BY ChatsWriters, <1>3, <1>4, <1>5, <1>6, <1>7, <1>8, <1>9

\* A chat comes to be by its startChat or a fork, and goes by its deletion.
LEMMA StatusStep ==
  ASSUME CanonInv, NEW p \in Procs, Step(p), NEW c \in ChatIds
  PROVE  \/ chats'[c].status = chats[c].status
         \/ StartRow(p) /\ c = chatOf(p) /\ chats[c].status = "absent" /\ Live(c)'
         \/ ForkRow(p) /\ c = req[p].target /\ Live(c)'
         \/ DeleteChat(p) /\ c = chatOf(p) /\ chats'[c].status = "deleted"
BY ColumnsStep DEF ColumnsMove, Columns, Live

\* Who may come to write a chat, or to wait for it.
LEMMA Comes ==
  ASSUME OneWriter, NEW p \in Procs, Step(p), NEW c \in ChatIds
  PROVE  /\ Builds(p, c)' =>
              /\ req'[p] = req[p]
              /\ \/ Builds(p, c) /\ pc[p] # "wait"
                 \/ StartRow(p) /\ c = chatOf(p) /\ chats[c].status = "absent"
                 \/ ForkRow(p) /\ Aims(p, c)
         /\ InLineAt(p, c)' => InLineAt(p, c) \/ Builds(p, c)
         /\ Aims(p, c)' => Aims(p, c) /\ pc[p] \in {"fork.load", "fork.read"}
         /\ pc'[p] # "start.row"
         /\ c \in {chatOf(p), req[p].target}' => c \in {chatOf(p), req[p].target}
<1>0. Moves(p) /\ DOMAIN pc = Procs /\ DOMAIN req = Procs /\ req[p] \in Request
  BY StepMoves DEF OneWriter, VariantInv, CanonInv, LineInv, Shapes, TypeOK, RequestsOK
<1>1. CASE Goes(p)
  BY <1>1, NoOneAssumption DEF Goes, Builds, InLineAt, Aims, Greeting, OpenSteps, LockedSteps,
     NoRequest, chatOf
<1>2. CASE StartSend(p)
  <2>1. pc[p] = "start.send" /\ pc'[p] = "wait" /\ chatOf(p)' = chatOf(p)
        /\ req'[p].target = req[p].target
    BY <1>0, <1>2 DEF StartSend, At, chatOf, Request
  <2>. QED  BY <2>1 DEF Builds, InLineAt, Aims, Greeting, OpenSteps, LockedSteps
<1>3. CASE req'[p] = req[p] /\ LockedMove(p)
  BY <1>3 DEF LockedMove, Builds, InLineAt, Aims, Greeting, OpenSteps, LockedSteps, chatOf
<1>4. CASE req'[p] = req[p] /\ FreeMove(p)
  BY <1>4 DEF FreeMove, ForkRow, At, Builds, InLineAt, Aims, Greeting, OpenSteps, LockedSteps, chatOf
<1>. QED  BY <1>0, <1>1, <1>2, <1>3, <1>4 DEF Moves

\* The others stay where they are.
LEMMA OthersBuild ==
  ASSUME CanonInv, NEW p \in Procs, Step(p), NEW q \in Procs \ {p}, NEW c
  PROVE  /\ Builds(q, c)' <=> Builds(q, c)
         /\ InLineAt(q, c)' <=> InLineAt(q, c)
         /\ Aims(q, c)' <=> Aims(q, c)
         /\ pc'[q] = pc[q] /\ req'[q] = req[q]
BY OthersStay DEF Builds, InLineAt, Aims, chatOf

\* A chat that is not there gets no messages.
LEMMA AbsentStaysEmpty ==
  ASSUME OneWriter, NEW p \in Procs, Step(p), NEW c \in ChatIds, chats[c].status = "absent"
  PROVE  Seqs(c)' = {}
<1>0. /\ DOMAIN messages = ChatIds /\ Seqs(c) = {} /\ ~Builds(p, c) /\ ~InLineAt(p, c)
      /\ ~Live(c)
  BY DEF OneWriter, VariantInv, CanonInv, TypeOK, MessagesOK, AbsentInv, Live
<1>1. CASE UNCHANGED messages
  BY <1>0, <1>1 DEF Seqs
<1>2. CASE SendInsert(p) \/ SendRollback(p) \/ SendPersist(p) \/ SwipeBackfill(p) \/ SwipeVariant(p)
           \/ SwipeMessage(p) \/ SelectVariant(p) \/ EditMessage(p) \/ EditVariant(p) \/ DeleteChat(p)
  <2>1. chatOf(p) # c
    BY <1>0, <1>2 DEF InLineAt, LockedSteps, SendInsert, SendRollback, SendPersist, SwipeBackfill,
       SwipeVariant, SwipeMessage, SelectVariant, EditMessage, EditVariant, DeleteChat, At, Granted
  <2>. QED  BY <1>0, <1>2, <2>1 DEF Seqs, SendInsert, SendRollback, SendPersist, SwipeBackfill,
       SwipeVariant, SwipeMessage, SelectVariant, EditMessage, EditVariant, DeleteChat,
       WithMessage, WithoutMessage
<1>3. CASE GreetInsert(p) \/ OpenInsert(p)
  BY <1>0, <1>1, <1>3 DEF Seqs, GreetInsert, OpenInsert, CanInsert, WithMessage
<1>4. CASE ForkMessages(p)
  <2>1. PICK d : d = req[p].target
    OBVIOUS
  <2>2. d # c
    BY <1>0, <1>4, <2>1 DEF Builds, ForkMessages
  <2>3. CASE messages' = [messages EXCEPT ![d] =
                  [n \in Seqs(d) \union DOMAIN copy[p] |->
                     IF n \in DOMAIN copy[p] THEN copy[p][n] ELSE @[n]]]
    BY <1>0, <2>2, <2>3 DEF Seqs
  <2>. QED  BY <1>1, <1>4, <2>1, <2>3 DEF ForkMessages
<1>. QED  BY <1>1, <1>2, <1>3, <1>4, MessagesWriters

\* The row of a chat that comes to be.
LEMMA Created ==
  ASSUME CanonInv, NEW p \in Procs, NEW c \in ChatIds,
         \/ StartRow(p) /\ c = chatOf(p) /\ chats[c].status = "absent"
         \/ ForkRow(p) /\ c = req[p].target
  PROVE  Live(c)'
<1>0. DOMAIN chats = ChatIds
  BY DEF CanonInv, TypeOK, ChatsOK
<1>1. ASSUME NEW r, r.status = "live", chats' = [chats EXCEPT ![c] = r] PROVE Live(c)'
  BY <1>0, <1>1 DEF Live
<1>2. CASE StartRow(p) /\ c = chatOf(p) /\ chats[c].status = "absent"
  BY <1>1, <1>2 DEF StartRow, NewChat
<1>3. CASE ForkRow(p) /\ c = req[p].target
  <2>1. PICK api, s, k, m, a :
          chats' = [chats EXCEPT ![req[p].target] =
                     [NewChat(api) EXCEPT !.session = s, !.count = k, !.summary = m, !.anchor = a]]
    BY <1>3 DEF ForkRow
  <2>2. PICK r : r = [NewChat(api) EXCEPT !.session = s, !.count = k, !.summary = m, !.anchor = a]
    OBVIOUS
  <2>. QED  BY <1>1, <1>3, <2>1, <2>2 DEF NewChat
<1>. QED  BY <1>2, <1>3

LEMMA StepKeepsBuilders ==
  ASSUME OneWriter, NEW p \in Procs, Step(p)
  PROVE  BuildInv'
<1>. VariantInv /\ CanonInv /\ AbsentInv /\ BuildInv /\ AimInv /\ LockedInv /\ StartInv
  BY DEF OneWriter, VariantInv
<1>. SUFFICES ASSUME NEW c \in ChatIds, NEW q \in Procs, Builds(q, c)'
              PROVE  /\ Live(c)'
                     /\ (req[q].target = c \/ (chatOf(q) = c /\ req[q].kind \in StartKinds))'
                     /\ \A o \in Procs \ {q} : ~Builds(o, c)' /\ ~InLineAt(o, c)'
  BY DEF BuildInv
<1>1. CASE q # p
  <2>1. /\ Builds(q, c) /\ Live(c) /\ req'[q] = req[q]
        /\ req[q].target = c \/ (chatOf(q) = c /\ req[q].kind \in StartKinds)
        /\ \A o \in Procs \ {q} : ~Builds(o, c) /\ ~InLineAt(o, c)
    BY <1>1, OthersBuild DEF BuildInv
  <2>2. Live(c)'
    <3>1. ~DeleteChat(p) \/ c # chatOf(p)
      BY <1>1, <2>1 DEF DeleteChat, Granted, InLineAt
    <3>. QED  BY <2>1, <3>1, StatusStep DEF Live
  <2>3. ~Builds(p, c)' /\ ~InLineAt(p, c)'
    <3>1. ~Aims(p, c) /\ chats[c].status # "absent"
      BY <2>1 DEF AimInv, Live
    <3>. QED  BY <1>1, <2>1, <3>1, Comes
  <2>4. ASSUME NEW o \in Procs \ {q} PROVE ~Builds(o, c)' /\ ~InLineAt(o, c)'
    BY <2>1, <2>3, OthersBuild
  <2>. QED  BY <2>1, <2>2, <2>4 DEF chatOf
<1>2. CASE q = p
  <2>1. /\ req'[p] = req[p]
        /\ \/ Builds(p, c) /\ pc[p] # "wait"
           \/ StartRow(p) /\ c = chatOf(p) /\ chats[c].status = "absent"
           \/ ForkRow(p) /\ Aims(p, c)
    BY <1>2, Comes
  <2>2. \A o \in Procs \ {p} : ~Builds(o, c) /\ ~InLineAt(o, c)
    BY <2>1 DEF BuildInv, AbsentInv, AimInv
  <2>3. \A o \in Procs \ {p} : ~Builds(o, c)' /\ ~InLineAt(o, c)'
    BY <2>2, OthersBuild
  <2>4. CASE Builds(p, c) /\ pc[p] # "wait"
    <3>1. /\ Live(c)
          /\ req[p].target = c \/ (chatOf(p) = c /\ req[p].kind \in StartKinds)
      BY <2>4 DEF BuildInv
    <3>2. ~DeleteChat(p)
      BY <2>4 DEF DeleteChat, Granted
    <3>3. Live(c)'
      BY <3>1, <3>2, StatusStep DEF Live
    <3>. QED  BY <1>2, <2>1, <2>3, <3>1, <3>3 DEF chatOf
  <2>5. CASE StartRow(p) /\ c = chatOf(p) /\ chats[c].status = "absent"
    BY <1>2, <2>1, <2>3, <2>5, Created DEF StartInv, StartRow, chatOf
  <2>6. CASE ForkRow(p) /\ Aims(p, c)
    BY <1>2, <2>1, <2>3, <2>6, Created DEF Aims
  <2>. QED  BY <2>1, <2>4, <2>5, <2>6
<1>. QED  BY <1>1, <1>2

LEMMA StepKeepsWriter ==
  ASSUME OneWriter, NEW p \in Procs, Step(p)
  PROVE  OneWriter'
<1>. VariantInv /\ CanonInv /\ AbsentInv /\ BuildInv /\ AimInv /\ LockedInv /\ StartInv
  BY DEF OneWriter, VariantInv
<1>1. VariantInv' /\ BuildInv'
  BY StepKeepsRows, StepKeepsBuilders
<1>2. AimInv'
  <2>. SUFFICES ASSUME NEW c \in ChatIds, NEW q \in Procs, Aims(q, c)'
                PROVE  /\ chats'[c].status = "absent"
                       /\ \A o \in Procs \ {q} : c # chatOf(o)' /\ c # req'[o].target
    BY DEF AimInv
  <2>1. Aims(q, c) /\ (q = p => pc[p] \in {"fork.load", "fork.read"})
    BY Comes, OthersBuild
  <2>2. chats[c].status = "absent" /\ \A o \in Procs \ {q} : c # chatOf(o) /\ c # req[o].target
    BY <2>1 DEF AimInv
  <2>3. ASSUME NEW o \in Procs \ {q} PROVE c # chatOf(o)' /\ c # req'[o].target
    BY <2>2, Comes, OthersBuild DEF chatOf
  <2>4. chats'[c].status = "absent"
    <3>1. CASE q = p
      BY <2>1, <2>2, <3>1, StatusStep DEF StartRow, ForkRow, DeleteChat, Granted, At
    <3>2. CASE q # p
      BY <2>2, <3>2, StatusStep
    <3>. QED  BY <3>1, <3>2
  <2>. QED  BY <2>3, <2>4
<1>3. LockedInv'
  <2>. SUFFICES ASSUME NEW q \in Procs, pc'[q] \in LockedSteps PROVE Live(chatOf(q))'
    BY DEF LockedInv
  <2>1. CASE q # p
    <3>1. pc[q] \in LockedSteps /\ Holds(q) /\ Live(chatOf(q)) /\ chatOf(q)' = chatOf(q)
      BY <2>1, OthersStay, Running DEF LockedInv, chatOf
    <3>2. chatOf(q) \in ChatIds
      BY <3>1, Rows, Running
    <3>3. ~DeleteChat(p) \/ chatOf(p) # chatOf(q)
      BY <2>1, <3>1 DEF DeleteChat, Granted, Holds
    <3>. QED  BY <3>1, <3>2, <3>3, StatusStep DEF Live
  <2>2. CASE q = p
    <3>1. req'[p] = req[p] /\ LockedMove(p)
      BY <2>2, StepMoves DEF Moves, Goes, FreeMove, StartSend, At, LockedSteps, OpenSteps, Greeting,
         CanonInv, LineInv, Shapes
    <3>2. Live(chatOf(p)) /\ chatOf(p) \in ChatIds
      BY <3>1, Rows, Busy DEF LockedMove, LockedInv
    <3>3. ~DeleteChat(p)
      BY <2>2 DEF DeleteChat, Leave, CanonInv, LineInv, Shapes, LockedSteps
    <3>. QED  BY <2>2, <3>1, <3>2, <3>3, StatusStep DEF Live, chatOf
  <2>. QED  BY <2>1, <2>2
<1>4. StartInv'
  <2>. SUFFICES ASSUME NEW q \in Procs, pc'[q] = "start.row" PROVE req'[q].kind \in StartKinds
    BY DEF StartInv
  <2>1. PICK c \in ChatIds : c = chatOf(p)
    BY Busy, Rows
  <2>. QED  BY Comes, OthersBuild DEF StartInv
<1>5. AbsentInv'
  <2>. SUFFICES ASSUME NEW c \in ChatIds, chats'[c].status = "absent"
                PROVE  Seqs(c)' = {} /\ \A q \in Procs : ~Builds(q, c)' /\ ~InLineAt(q, c)'
    BY DEF AbsentInv
  <2>1. chats[c].status = "absent" /\ ~Live(c)'
    BY StatusStep DEF Live
  <2>2. Seqs(c)' = {}
    BY <2>1, AbsentStaysEmpty
  <2>3. ASSUME NEW q \in Procs PROVE ~Builds(q, c)' /\ ~InLineAt(q, c)'
    BY <1>1, <2>1, Comes, OthersBuild DEF BuildInv, AbsentInv
  <2>. QED  BY <2>2, <2>3
<1>. QED  BY <1>1, <1>2, <1>3, <1>4, <1>5 DEF OneWriter

\* Who starts to wait for a chat knows that it is there and done.
LEMMA CallKeepsWriter ==
  ASSUME ~Eager, OneWriter, NEW p \in Procs, Call(p)
  PROVE  OneWriter'
<1>. VariantInv /\ CanonInv /\ AbsentInv /\ BuildInv /\ AimInv /\ LockedInv /\ StartInv
  BY DEF OneWriter, VariantInv
<1>0. DOMAIN pc = Procs /\ DOMAIN req = Procs
  BY DEF CanonInv, LineInv, Shapes, TypeOK, RequestsOK
<1>1. PICK r : \E there \in {"wait", "start.row", "fork.load"} : Arriving(p, r, there)
  BY CallForms
<1>2. PICK there \in {"wait", "start.row", "fork.load"} : Arriving(p, r, there)
  BY <1>1
<1>3. /\ UNCHANGED <<chats, messages>> /\ pc[p] = "idle" /\ r.chat \in ChatIds
      /\ pc' = [pc EXCEPT ![p] = there] /\ req' = [req EXCEPT ![p] = r]
  BY <1>2 DEF Arriving, Arrives, tables
<1>4. pc'[p] = there /\ chatOf(p)' = r.chat /\ req'[p] = r
      /\ \A q \in Procs \ {p} : pc'[q] = pc[q] /\ chatOf(q)' = chatOf(q) /\ req'[q] = req[q]
  BY <1>0, <1>3 DEF chatOf
<1>5. \/ there = "wait" /\ AtLock(r)
      \/ there = "start.row" /\ AtStart(r)
      \/ there = "fork.load" /\ AtFork(r)
  BY <1>2 DEF Arriving
<1>6. /\ \A c : ~Builds(p, c)'
      /\ \A c : InLineAt(p, c)' <=> there = "wait" /\ c = r.chat
      /\ \A c : Aims(p, c)' <=> there = "fork.load" /\ c = r.target
      /\ \A q \in Procs \ {p} : \A c :
           /\ Builds(q, c)' <=> Builds(q, c)
           /\ InLineAt(q, c)' <=> InLineAt(q, c)
           /\ Aims(q, c)' <=> Aims(q, c)
  BY <1>4 DEF Builds, InLineAt, Aims, Greeting, OpenSteps, LockedSteps
<1>7. \A c : ~Builds(p, c) /\ ~InLineAt(p, c) /\ ~Aims(p, c)
  BY <1>3 DEF Builds, InLineAt, Aims, Greeting, OpenSteps, LockedSteps
<1>8. VariantInv'
  BY CallKeepsRows
<1>9. AbsentInv'
  BY <1>3, <1>5, <1>6 DEF AbsentInv, AtLock, Seqs
<1>10. BuildInv'
  <2>. SUFFICES ASSUME NEW c \in ChatIds, NEW q \in Procs, Builds(q, c)'
                PROVE  /\ Live(c)'
                       /\ (req[q].target = c \/ (chatOf(q) = c /\ req[q].kind \in StartKinds))'
                       /\ \A o \in Procs \ {q} : ~Builds(o, c)' /\ ~InLineAt(o, c)'
    BY DEF BuildInv
  <2>1. /\ q # p /\ Builds(q, c) /\ Live(c)
        /\ req[q].target = c \/ (chatOf(q) = c /\ req[q].kind \in StartKinds)
        /\ \A o \in Procs \ {q} : ~Builds(o, c) /\ ~InLineAt(o, c)
    BY <1>6 DEF BuildInv
  <2>2. ~(there = "wait" /\ c = r.chat)
    BY <1>5, <2>1 DEF AtLock, Starting, chatOf
  <2>. QED  BY <1>3, <1>4, <1>6, <2>1, <2>2 DEF Live
<1>11. AimInv'
  <2>. SUFFICES ASSUME NEW c \in ChatIds, NEW q \in Procs, Aims(q, c)'
                PROVE  /\ chats'[c].status = "absent"
                       /\ \A o \in Procs \ {q} : c # chatOf(o)' /\ c # req'[o].target
    BY DEF AimInv
  <2>1. CASE q = p
    BY <1>3, <1>4, <1>5, <1>6, <2>1 DEF AtFork, chatOf
  <2>2. CASE q # p
    <3>1. Aims(q, c) /\ chats[c].status = "absent" /\ req[q].target = c /\ c # NoOne
      BY <1>6, <2>2, NoOneAssumption DEF AimInv, Aims
    <3>2. c # r.chat /\ c # r.target
      BY <1>3, <1>5, <3>1 DEF AtLock, AtStart, AtFork, AbsentInv
    <3>. QED  BY <1>3, <1>4, <3>1, <3>2 DEF AimInv
  <2>. QED  BY <2>1, <2>2
<1>12. LockedInv'
  BY <1>3, <1>4 DEF LockedInv, LockedSteps, Live
<1>13. StartInv'
  BY <1>4, <1>5 DEF StartInv, AtStart
<1>. QED  BY <1>8, <1>9, <1>10, <1>11, <1>12, <1>13 DEF OneWriter

LEMMA NextKeepsWriter ==
  ASSUME ~Eager, OneWriter, [Next]_vars
  PROVE  OneWriter'
<1>. VariantInv /\ AbsentInv /\ BuildInv /\ AimInv /\ LockedInv /\ StartInv
  BY DEF OneWriter
<1>1. VariantInv'
  BY NextKeepsRows
<1>2. CASE UNCHANGED vars
  <2>1. UNCHANGED <<chats, messages, pc, req>>
    BY <1>2 DEF vars, storeVars
  <2>2. /\ \A p, c : Builds(p, c)' <=> Builds(p, c)
        /\ \A p, c : InLineAt(p, c)' <=> InLineAt(p, c)
        /\ \A p, c : Aims(p, c)' <=> Aims(p, c)
        /\ \A c : Live(c)' <=> Live(c)
    BY <2>1 DEF Builds, InLineAt, Aims, Live, chatOf
  <2>. QED  BY <1>1, <2>1, <2>2 DEF OneWriter, AbsentInv, BuildInv, AimInv, LockedInv, StartInv, Seqs,
            chatOf
<1>3. CASE Restart
  <2>1. pc' = [q \in Procs |-> "idle"] /\ UNCHANGED <<chats, messages>>
    BY <1>3 DEF Restart, tables
  <2>2. \A p \in Procs : \A c : ~Builds(p, c)' /\ ~InLineAt(p, c)' /\ ~Aims(p, c)'
    BY <2>1 DEF Builds, InLineAt, Aims, Greeting, OpenSteps, LockedSteps
  <2>. QED  BY <1>1, <2>1, <2>2 DEF OneWriter, AbsentInv, BuildInv, AimInv, LockedInv, StartInv, Seqs,
            LockedSteps
<1>. QED  BY <1>2, <1>3, StepKeepsWriter, CallKeepsWriter DEF Next

LEMMA InitWriter == Init => OneWriter
<1>. SUFFICES ASSUME Init PROVE OneWriter
  OBVIOUS
<1>1. VariantInv
  BY InitRows
<1>2. \A p \in Procs : \A c : ~Builds(p, c) /\ ~InLineAt(p, c) /\ ~Aims(p, c)
  BY DEF Init, Builds, InLineAt, Aims, Greeting, OpenSteps, LockedSteps
<1>3. ASSUME NEW c \in ChatIds, chats[c].status = "absent" PROVE Seqs(c) = {}
  <2>1. [NewChat("agent-sdk") EXCEPT !.count = 3].status = "live"
    BY DEF NewChat
  <2>. QED  BY <1>3, <2>1 DEF Init, Seqs
<1>. QED  BY <1>1, <1>2, <1>3 DEF OneWriter, AbsentInv, BuildInv, AimInv, LockedInv, StartInv, Init,
          LockedSteps

-----------------------------------------------------------------------------
(***************************************************************************)
(* The ledger: what the columns of a chat lag behind its messages.         *)
(***************************************************************************)
Uncounted(at) ==
  CASE at \in Unanswered \union {"greet.seed", "greet.update", "open.update"} -> 1
    [] at = "send.update" -> 2
    [] OTHER -> 0
Untotalled(at) ==
  IF at \in {"send.update", "open.update", "swipe.drop", "swipe.update"} THEN 1 ELSE 0

Balanced(c, rows, gens) ==
  /\ chats[c].count + rows = Cardinality(Seqs(c))
  /\ chats[c].total + gens = Generations(c)

SendSteps == {"send.insert", "send.update"} \union Unanswered
SwipeSteps == Swiping \union {"swipe.abandon", "swipe.variant", "swipe.message", "swipe.drop",
                              "swipe.update"}

\* What a writer read is still what the columns say.
AsRead(p, c) ==
  /\ pc[p] \in SendSteps => loc[p].row.count = chats[c].count
  /\ pc[p] \in SendSteps \union SwipeSteps => loc[p].row.total = chats[c].total
  /\ pc[p] \in Unanswered => messages[c][loc[p].seq].gens = 0
  /\ pc[p] \in Greeting \union OpenSteps => chats[c].count = 0 /\ chats[c].total = 0
Books(p, c) ==
  IF pc[p] = "fork.messages"
  THEN Seqs(c) = {} /\ chats[c].count = Cardinality(DOMAIN copy[p]) /\ chats[c].total = 0
  ELSE AsRead(p, c) /\ Balanced(c, Uncounted(pc[p]), Untotalled(pc[p]))

Writes(p, c) == Builds(p, c) \/ (pc[p] \in LockedSteps /\ chatOf(p) = c)
Kept(c) ==
  /\ \A p \in Procs : Writes(p, c) => Books(p, c)
  /\ (\A p \in Procs : ~Writes(p, c)) => Balanced(c, 0, 0)

LedgerInv == OneWriter /\ (used.crashes = 0 => \A c \in ChatIds : Live(c) => Kept(c))

-----------------------------------------------------------------------------
(***************************************************************************)
(* What a step does to the number of a chat's messages and to what they    *)
(* paid for.                                                               *)
(***************************************************************************)
\* A chat's rows, as a table.
IsRows(t) ==
  /\ MessageTable(t) /\ IsFiniteSet(DOMAIN t) /\ Cardinality(DOMAIN t) \in Nat
  /\ LastOf(t) \in Nat /\ \A n \in DOMAIN t : n <= LastOf(t)

\* The messages of a chat are finitely many, with a last one.
LEMMA RunIsRows ==
  ASSUME NEW t, MessageTable(t), Run(DOMAIN t)
  PROVE  IsRows(t)
<1>1. CASE DOMAIN t = {}
  BY <1>1, FS_EmptySet DEF IsRows, LastOf
<1>2. CASE DOMAIN t # {}
  <2>1. PICK first \in {0, 1} : \E last \in DOMAIN t \ {0} : DOMAIN t = first..last
    BY <1>2 DEF Run
  <2>2. PICK last \in DOMAIN t \ {0} : DOMAIN t = first..last
    BY <2>1
  <2>3. last \in Nat /\ IsFiniteSet(first..last)
    BY <2>2, FS_Interval DEF MessageTable
  <2>4. TopOf(DOMAIN t) = last
    <3>1. last \in DOMAIN t /\ \A m \in DOMAIN t : m <= last
      BY <2>2, <2>3
    <3>2. \A n \in DOMAIN t : (\A m \in DOMAIN t : m <= n) => n = last
      BY <2>2, <2>3, <3>1
    <3>. QED  BY <3>1, <3>2 DEF TopOf
  <2>5. Cardinality(DOMAIN t) \in Nat
    BY <2>2, <2>3, FS_CardinalityType
  <2>. QED  BY <1>2, <2>2, <2>3, <2>4, <2>5 DEF IsRows, LastOf
<1>. QED  BY <1>1, <1>2

\* What a chat's messages come to: how many they are, what they paid for.
Sheet(c) == <<Cardinality(Seqs(c)), Generations(c)>>

LEMMA SheetIs ==
  ASSUME CanonInv, NEW c \in ChatIds
  PROVE  IsRows(messages[c]) /\ Sheet(c) = <<Cardinality(DOMAIN messages[c]), TotalOf(messages[c])>>
<1>1. MessageTable(messages[c]) /\ Run(DOMAIN messages[c])
  BY DEF CanonInv, TypeOK, MessagesOK, CanonRuns, Seqs
<1>2. Generations(c) = TotalOf(messages[c])
  BY DEF LastOf, MaxSeq, Seqs, Generations, TotalOf
<1>. QED  BY <1>1, <1>2, RunIsRows DEF Sheet, Seqs

LEMMA SheetWillBe ==
  ASSUME CanonInv', NEW c \in ChatIds
  PROVE  IsRows(messages'[c]) /\ Sheet(c)' = <<Cardinality(DOMAIN messages'[c]), TotalOf(messages'[c])>>
<1>1. MessageTable(messages'[c]) /\ Run(DOMAIN messages'[c])
  BY DEF CanonInv, TypeOK, MessagesOK, CanonRuns, Seqs
<1>2. Generations(c)' = TotalOf(messages'[c])
  BY DEF LastOf, MaxSeq, Seqs, Generations, TotalOf
<1>. QED  BY <1>1, <1>2, RunIsRows DEF Sheet, Seqs

\* One row changes what it paid.
LEMMA RowPays ==
  ASSUME NEW t, IsRows(t), NEW u, IsRows(u), NEW s \in Nat, NEW d \in Int,
         Gens(u, s) = Gens(t, s) + d,
         \A n \in Nat : n # s => Gens(u, n) = Gens(t, n)
  PROVE  TotalOf(t) \in Nat /\ TotalOf(u) = TotalOf(t) + d
BY TotalChanges DEF IsRows

LEMMA RowComes ==
  ASSUME NEW t, IsRows(t), NEW u, IsRows(u), NEW s \in Nat \ DOMAIN t, NEW m, m.gens \in Nat,
         u = [n \in DOMAIN t \union {s} |-> IF n = s THEN m ELSE t[n]]
  PROVE  /\ Cardinality(DOMAIN u) = Cardinality(DOMAIN t) + 1
         /\ TotalOf(u) = TotalOf(t) + m.gens
<1>1. Cardinality(DOMAIN u) = Cardinality(DOMAIN t) + 1
  BY FS_AddElement DEF IsRows
<1>. PICK w \in Nat : w = m.gens
  OBVIOUS
<1>2. Gens(t, s) = 0 /\ Gens(u, s) = w /\ \A n \in Nat : n # s => Gens(u, n) = Gens(t, n)
  BY DEF Gens
<1>3. Gens(u, s) = Gens(t, s) + w
  BY <1>2
<1>4. TotalOf(u) = TotalOf(t) + w
  <2>1. s \in Nat /\ w \in Int
    OBVIOUS
  <2>. QED  BY <1>2, <1>3, <2>1, RowPays
<1>. QED  BY <1>1, <1>4

LEMMA RowGoes ==
  ASSUME NEW t, IsRows(t), NEW u, IsRows(u), NEW s \in DOMAIN t,
         u = [n \in DOMAIN t \ {s} |-> t[n]]
  PROVE  /\ Cardinality(DOMAIN u) = Cardinality(DOMAIN t) - 1
         /\ TotalOf(u) = TotalOf(t) - t[s].gens
<1>1. Cardinality(DOMAIN u) = Cardinality(DOMAIN t) - 1
  BY FS_RemoveElement DEF IsRows
<1>2. s \in Nat /\ t[s].gens \in Nat
  BY RowIs DEF IsRows, MessageTable
<1>3. PICK w \in Nat : w = t[s].gens
  BY <1>2
<1>4. Gens(t, s) = w /\ Gens(u, s) = 0 /\ \A n \in Nat : n # s => Gens(u, n) = Gens(t, n)
  BY <1>3 DEF Gens
<1>5. PICK d \in Int : d = 0 - w
  OBVIOUS
<1>6. Gens(u, s) = Gens(t, s) + d
  BY <1>4, <1>5
<1>7. TotalOf(t) \in Nat /\ TotalOf(u) = TotalOf(t) + d
  BY <1>2, <1>4, <1>6, RowPays
<1>. QED  BY <1>1, <1>3, <1>5, <1>7

LEMMA RowRewritten ==
  ASSUME NEW t, IsRows(t), NEW u, IsRows(u), NEW s \in DOMAIN t, DOMAIN u = DOMAIN t,
         NEW d \in Nat, u[s].gens = t[s].gens + d,
         \A n \in DOMAIN t : n # s => u[n].gens = t[n].gens
  PROVE  TotalOf(u) = TotalOf(t) + d
<1>1. s \in Nat /\ Gens(u, s) = Gens(t, s) + d /\ \A n \in Nat : n # s => Gens(u, n) = Gens(t, n)
  BY DEF Gens, IsRows, MessageTable
<1>. QED  BY <1>1, RowPays

LEMMA RowsUnpaid ==
  ASSUME NEW t, IsRows(t), \A n \in DOMAIN t : t[n].gens = 0
  PROVE  TotalOf(t) = 0
BY TotalOfNothing DEF IsRows

\* The other rewrites of a row are not about what it paid.
LEMMA GensStay ==
  ASSUME CanonInv, NEW p \in Procs, NEW c \in ChatIds,
         \/ SwipeBackfill(p) \/ SwipeVariant(p) \/ SelectVariant(p) \/ EditMessage(p)
         \/ EditVariant(p)
  PROVE  Seqs(c)' = Seqs(c) /\ \A i \in Seqs(c) : messages'[c][i].gens = messages[c][i].gens
<1>0. DOMAIN messages = ChatIds /\ MessagesOK
  BY DEF CanonInv, TypeOK, MessagesOK
<1>. PICK d : d = chatOf(p)
  OBVIOUS
<1>1. ASSUME UNCHANGED messages PROVE Seqs(c)' = Seqs(c) /\ \A i \in Seqs(c) : messages'[c][i] = messages[c][i]
  BY <1>1 DEF Seqs
<1>2. ASSUME NEW s, NEW m, messages' = [messages EXCEPT ![d][s] = m],
             c = d /\ s \in Seqs(d) => m.gens = messages[d][s].gens
      PROVE  Seqs(c)' = Seqs(c) /\ \A i \in Seqs(c) : messages'[c][i].gens = messages[c][i].gens
  BY <1>0, <1>2 DEF Seqs
<1>3. ASSUME c = d, NEW s \in Seqs(d) PROVE messages[d][s] \in Message
  BY <1>0, <1>3, RowIs DEF MessagesOK, Seqs
<1>4. ASSUME NEW s, NEW x, NEW y, NEW m,
             \/ m = [messages[d][s] EXCEPT !.variants = x]
             \/ m = [messages[d][s] EXCEPT !.body = x]
             \/ m = [messages[d][s] EXCEPT !.active = x, !.body = y],
             messages' = [messages EXCEPT ![d][s] = m]
      PROVE  Seqs(c)' = Seqs(c) /\ \A i \in Seqs(c) : messages'[c][i].gens = messages[c][i].gens
  <2>1. ASSUME c = d, s \in Seqs(d) PROVE m.gens = messages[d][s].gens
    <3>1. PICK r \in Message : r = messages[d][s]
      BY <1>3, <2>1
    <3>. QED  BY <1>4, <3>1 DEF Message
  <2>. QED  BY <1>2, <1>4, <2>1
<1>5. CASE SwipeBackfill(p)
  <2>1. PICK s, x : s = loc[p].seq /\ x = <<messages[d][s].body>>
    OBVIOUS
  <2>2. PICK m : m = [messages[d][s] EXCEPT !.variants = x]
    OBVIOUS
  <2>3. UNCHANGED messages \/ messages' = [messages EXCEPT ![d][s].variants = x]
    BY <1>5, <2>1 DEF SwipeBackfill, Tip, TipRow
  <2>4. [messages EXCEPT ![d][s].variants = x] = [messages EXCEPT ![d][s] = m]
    BY <2>2
  <2>5. CASE UNCHANGED messages
    BY <1>1, <2>5
  <2>6. CASE messages' = [messages EXCEPT ![d][s].variants = x]
    <3>1. messages' = [messages EXCEPT ![d][s] = m]
      BY <2>4, <2>6
    <3>. QED  BY <1>4, <2>2, <3>1
  <2>. QED  BY <2>3, <2>5, <2>6
<1>6. CASE SwipeVariant(p)
  <2>1. PICK s, x : s = loc[p].seq /\ x = Append(messages[d][s].variants, loc[p].body)
    OBVIOUS
  <2>2. PICK m : m = [messages[d][s] EXCEPT !.variants = x]
    OBVIOUS
  <2>3. messages' = [messages EXCEPT ![d][s] = m]
    BY <1>6, <2>1, <2>2 DEF SwipeVariant, Tip
  <2>. QED  BY <1>4, <2>2, <2>3
<1>7. CASE SelectVariant(p)
  <2>1. PICK s \in Named(d, req[p].msg) :
          messages' = [messages EXCEPT ![d][s].active = req[p].variant,
                         ![d][s].body = messages[d][s].variants[req[p].variant]]
    BY <1>7 DEF SelectVariant
  <2>2. CASE c # d
    BY <1>0, <2>1, <2>2 DEF Seqs
  <2>3. CASE c = d
    <3>1. PICK x, y : x = req[p].variant /\ y = messages[d][s].variants[req[p].variant]
      OBVIOUS
    <3>2. PICK m : m = [messages[d][s] EXCEPT !.active = x, !.body = y]
      OBVIOUS
    <3>3. messages' = [messages EXCEPT ![d][s] = m]
      BY <1>0, <2>1, <2>3, <3>1, <3>2 DEF Named
    <3>. QED  BY <1>4, <3>2, <3>3
  <2>. QED  BY <2>2, <2>3
<1>8. CASE EditMessage(p)
  <2>1. PICK s \in Named(d, req[p].msg) :
          messages' = [messages EXCEPT ![d][s] = [messages[d][s] EXCEPT !.body = nextBody]]
    BY <1>8 DEF EditMessage
  <2>2. PICK m : m = [messages[d][s] EXCEPT !.body = nextBody]
    OBVIOUS
  <2>. QED  BY <1>4, <2>1, <2>2
<1>9. CASE EditVariant(p)
  <2>1. PICK s, x : /\ s = loc[p].seq
                    /\ x = [messages[d][s].variants EXCEPT ![messages[d][s].active] = loc[p].body]
    OBVIOUS
  <2>2. PICK m : m = [messages[d][s] EXCEPT !.variants = x]
    OBVIOUS
  <2>3. messages' = [messages EXCEPT ![d][s] = m]
    BY <1>9, <2>1, <2>2 DEF EditVariant
  <2>. QED  BY <1>4, <2>2, <2>3
<1>. QED  BY <1>5, <1>6, <1>7, <1>8, <1>9

\* How a step changes a chat's messages, in number and in what they paid for.
WritesSheet(p, c) ==
  \/ /\ c = chatOf(p)
     /\ \/ SendInsert(p) \/ SendPersist(p) \/ SendRollback(p) \/ SwipeMessage(p)
        \/ (GreetInsert(p) \/ OpenInsert(p)) /\ pc'[p] # "idle"
  \/ c = req[p].target /\ ForkMessages(p) /\ pc'[p] # "idle"
SheetMove(p, c) ==
  LET n == Cardinality(Seqs(c))
      g == Generations(c)
  IN
  \/ Sheet(c)' = Sheet(c) /\ ~WritesSheet(p, c)
  \/ /\ c = chatOf(p)
     /\ \/ SendInsert(p) /\ Sheet(c)' = <<n + 1, g>>
        \/ GreetInsert(p) /\ pc'[p] # "idle" /\ Sheet(c)' = <<n + 1, g>>
        \/ SendPersist(p) /\ Sheet(c)' = <<n + 1, g + 1>>
        \/ OpenInsert(p) /\ pc'[p] # "idle" /\ Sheet(c)' = <<n + 1, g + 1>>
        \/ SendRollback(p) /\ Sheet(c)' = <<n - 1, g - messages[c][loc[p].seq].gens>>
        \/ SwipeMessage(p) /\ Sheet(c)' = <<n, g + 1>>
        \/ DeleteChat(p)
  \/ /\ c = req[p].target /\ ForkMessages(p) /\ pc'[p] # "idle"
     /\ Seqs(c) = {} => Sheet(c)' = <<Cardinality(DOMAIN copy[p]), 0>>

\* Who writes the sheet writes a row that was not there, or was another.
LEMMA SheetWritten ==
  ASSUME VariantInv, NEW p \in Procs, NEW c \in ChatIds, WritesSheet(p, c)
  PROVE  messages'[c] # messages[c]
<1>. CanonInv /\ RowsInHand
  BY DEF VariantInv
<1>0. DOMAIN messages = ChatIds /\ DOMAIN pc = Procs /\ MessagesOK
  BY DEF CanonInv, TypeOK, MessagesOK, LineInv, Shapes
<1>1. CASE SendInsert(p) /\ c = chatOf(p)
  BY <1>0, <1>1 DEF SendInsert, CanInsert, WithMessage, Seqs
<1>2. CASE SendPersist(p) /\ c = chatOf(p)
  BY <1>0, <1>2 DEF SendPersist, CanInsert, WithMessage, Seqs
<1>3. CASE (GreetInsert(p) \/ OpenInsert(p)) /\ pc'[p] # "idle" /\ c = chatOf(p)
  BY <1>0, <1>3 DEF GreetInsert, OpenInsert, CanInsert, WithMessage, Seqs, Return
<1>4. CASE SendRollback(p) /\ c = chatOf(p)
  <2>1. loc[p].seq \in Seqs(c)
    BY <1>4 DEF CanonInv, SendsAtTip, SendAtTip, SendRollback, Unanswered
  <2>. QED  BY <1>0, <1>4, <2>1 DEF SendRollback, WithoutMessage, Seqs
<1>5. CASE SwipeMessage(p) /\ c = chatOf(p)
  <2>1. PICK s : s = loc[p].seq
    OBVIOUS
  <2>2. s \in Seqs(c)
    BY <1>5, <2>1 DEF RowsInHand, RowInHand, Rewriting, SwipeMessage, At
  <2>3. PICK old \in Message : old = messages[c][s]
    BY <1>0, <2>2, RowIs DEF MessagesOK, Seqs
  <2>4. PICK m : m = [old EXCEPT !.active = Len(old.variants), !.body = loc[p].body, !.gens = @ + 1]
    OBVIOUS
  <2>5. m.gens = old.gens + 1 /\ old.gens \in Nat
    BY <2>4 DEF Message
  <2>6. messages' = [messages EXCEPT ![c][s] = m]
    BY <1>5, <2>1, <2>3, <2>4 DEF SwipeMessage, Tip, TipRow
  <2>7. messages'[c][s].gens = messages[c][s].gens + 1 /\ messages[c][s].gens \in Nat
    BY <1>0, <2>2, <2>3, <2>5, <2>6 DEF Seqs
  <2>. QED  BY <2>7
<1>6. CASE ForkMessages(p) /\ pc'[p] # "idle" /\ c = req[p].target
  <2>1. /\ Seqs(c) \intersect DOMAIN copy[p] = {}
        /\ messages' = [messages EXCEPT ![c] =
               [n \in Seqs(c) \union DOMAIN copy[p] |->
                  IF n \in DOMAIN copy[p] THEN copy[p][n] ELSE @[n]]]
    BY <1>0, <1>6 DEF ForkMessages, Return
  <2>2. DOMAIN copy[p] # {}
    BY <1>6 DEF CanonInv, ForksCopy, ForkMessages, ForkSteps
  <2>3. PICK n : n \in DOMAIN copy[p]
    BY <2>2
  <2>4. n \notin DOMAIN messages[c] /\ n \in DOMAIN messages'[c]
    BY <1>0, <2>1, <2>3 DEF Seqs
  <2>. QED  BY <2>4
<1>. QED  BY <1>1, <1>2, <1>3, <1>4, <1>5, <1>6 DEF WritesSheet

LEMMA SheetStep ==
  ASSUME VariantInv, NEW p \in Procs, Step(p), NEW c \in ChatIds
  PROVE  SheetMove(p, c)
<1>. CanonInv /\ CanonInv' /\ CopiesPlain /\ RowsInHand
  BY StepKeepsRows DEF VariantInv
<1>. DEFINE n == Cardinality(Seqs(c))
            g == Generations(c)
<1>0. /\ DOMAIN messages = ChatIds /\ loc[p] \in Locals /\ loc[p].seq \in Nat
      /\ DOMAIN pc = Procs /\ chatOf(p) \in ChatIds
  BY Busy, Rows, LocalsAre DEF CanonInv, TypeOK, MessagesOK, RequestsOK, LineInv, Shapes
<1>. PICK d \in ChatIds : d = chatOf(p)
  BY <1>0
<1>1. IsRows(messages[c]) /\ Sheet(c) = <<Cardinality(DOMAIN messages[c]), TotalOf(messages[c])>>
  BY SheetIs
<1>2. IsRows(messages'[c]) /\ Sheet(c)' = <<Cardinality(DOMAIN messages'[c]), TotalOf(messages'[c])>>
  BY SheetWillBe
<1>3. PICK t : t = messages[c]
  OBVIOUS
<1>4. PICK u : u = messages'[c]
  OBVIOUS
<1>5. IsRows(t) /\ n = Cardinality(DOMAIN t) /\ g = TotalOf(t) /\ TotalOf(t) \in Nat
  <2>1. Gens(t, 0) \in Nat
    BY <1>1, <1>3, GensType DEF IsRows
  <2>2. Gens(t, 0) = Gens(t, 0) + 0
    BY <2>1
  <2>3. TotalOf(t) \in Nat
    BY <1>1, <1>3, <2>2, RowPays
  <2>. QED  BY <1>1, <1>3, <2>3 DEF Sheet
<1>6. IsRows(u) /\ Sheet(c)' = <<Cardinality(DOMAIN u), TotalOf(u)>>
  BY <1>2, <1>4
<1>7. ASSUME u = t PROVE SheetMove(p, c)
  BY <1>1, <1>2, <1>3, <1>4, <1>7, SheetWritten DEF SheetMove
<1>8. ASSUME NEW s \in Nat \ Seqs(d), NEW m, m.gens \in Nat, messages' = WithMessage(d, s, m), u # t
      PROVE  c = d /\ Sheet(c)' = <<n + 1, g + m.gens>>
  <2>1. c = d
    BY <1>0, <1>3, <1>4, <1>8 DEF WithMessage
  <2>2. u = [i \in DOMAIN t \union {s} |-> IF i = s THEN m ELSE t[i]] /\ s \notin DOMAIN t
    BY <1>0, <1>3, <1>4, <1>8, <2>1 DEF WithMessage, Seqs
  <2>. QED  BY <1>5, <1>6, <1>8, <2>1, <2>2, RowComes
<1>9. ASSUME NEW s, NEW e \in Nat, messages' = [messages EXCEPT ![d] = [@ EXCEPT ![s] = u[s]]],
             s \in Seqs(d), c = d => u[s].gens = t[s].gens + e, u # t
      PROVE  c = d /\ Sheet(c)' = <<n, g + e>>
  <2>1. c = d
    BY <1>0, <1>3, <1>4, <1>9
  <2>2. s \in DOMAIN t /\ DOMAIN u = DOMAIN t /\ \A i \in DOMAIN t : i # s => u[i].gens = t[i].gens
    BY <1>0, <1>3, <1>4, <1>9, <2>1 DEF Seqs
  <2>. QED  BY <1>5, <1>6, <1>9, <2>1, <2>2, RowRewritten
<1>. SUFFICES ASSUME u # t PROVE SheetMove(p, c)
  BY <1>7
<1>10. ~UNCHANGED messages
  BY <1>3, <1>4
<1>11. CASE SendInsert(p)
  <2>1. loc[p].seq \in Nat \ Seqs(d) /\ messages' = WithMessage(d, loc[p].seq, NewMessage("user", nextBody, 0))
    BY <1>0, <1>11 DEF SendInsert, CanInsert
  <2>2. NewMessage("user", nextBody, 0).gens = 0 /\ g \in Nat
    BY <1>5 DEF NewMessage
  <2>3. c = d /\ Sheet(c)' = <<n + 1, g + 0>>
    BY <1>8, <2>1, <2>2
  <2>4. g + 0 = g
    BY <2>2
  <2>. QED  BY <1>11, <2>3, <2>4 DEF SheetMove
<1>12. CASE SendPersist(p)
  <2>1. PICK m \in AfterScripts(NewMessage("assistant", loc[p].body, 1)) :
          messages' = WithMessage(d, loc[p].seq + 1, m) /\ loc[p].seq + 1 \in Nat \ Seqs(d)
    BY <1>0, <1>12 DEF SendPersist, CanInsert
  <2>2. m.gens = 1
    BY <2>1 DEF AfterScripts, NewMessage
  <2>. QED  BY <1>8, <1>12, <2>1, <2>2 DEF SheetMove
<1>13. CASE GreetInsert(p)
  <2>1. /\ 1 \in Nat \ Seqs(d) /\ messages' = WithMessage(d, 1, NewMessage("assistant", nextBody, 0))
        /\ pc'[p] # "idle"
    BY <1>0, <1>10, <1>13 DEF GreetInsert, CanInsert
  <2>2. NewMessage("assistant", nextBody, 0).gens = 0 /\ g \in Nat
    BY <1>5 DEF NewMessage
  <2>3. c = d /\ Sheet(c)' = <<n + 1, g + 0>>
    BY <1>8, <2>1, <2>2
  <2>4. g + 0 = g
    BY <2>2
  <2>. QED  BY <1>13, <2>1, <2>3, <2>4 DEF SheetMove
<1>14. CASE OpenInsert(p)
  <2>1. /\ 1 \in Nat \ Seqs(d) /\ messages' = WithMessage(d, 1, NewMessage("assistant", loc[p].body, 1))
        /\ pc'[p] # "idle"
    BY <1>0, <1>10, <1>14 DEF OpenInsert, CanInsert
  <2>2. NewMessage("assistant", loc[p].body, 1).gens = 1
    BY DEF NewMessage
  <2>. QED  BY <1>8, <1>14, <2>1, <2>2 DEF SheetMove
<1>15. CASE SendRollback(p)
  <2>1. messages' = WithoutMessage(d, loc[p].seq)
    BY <1>15 DEF SendRollback
  <2>2. c = d /\ loc[p].seq \in Seqs(d)
    BY <1>0, <1>3, <1>4, <1>15, <2>1, TipIs DEF WithoutMessage, CanonInv, SendsAtTip, SendAtTip,
       SendRollback, Unanswered, Seqs
  <2>3. loc[p].seq \in DOMAIN t /\ u = [i \in DOMAIN t \ {loc[p].seq} |-> t[i]]
    BY <1>0, <1>3, <1>4, <2>1, <2>2 DEF WithoutMessage, Seqs
  <2>4. Sheet(c)' = <<n - 1, g - t[loc[p].seq].gens>>
    BY <1>5, <1>6, <2>3, RowGoes
  <2>. QED  BY <1>3, <1>15, <2>2, <2>4 DEF SheetMove
<1>16. CASE DeleteChat(p)
  <2>1. c = d
    BY <1>3, <1>4, <1>16 DEF DeleteChat
  <2>. QED  BY <1>16, <2>1 DEF SheetMove
<1>17. CASE ForkMessages(p)
  <2>1. PICK e : e = req[p].target
    OBVIOUS
  <2>2. /\ messages' = [messages EXCEPT ![e] =
               [i \in Seqs(e) \union DOMAIN copy[p] |->
                  IF i \in DOMAIN copy[p] THEN copy[p][i] ELSE @[i]]]
        /\ pc'[p] # "idle" /\ pc[p] = "fork.messages"
    BY <1>0, <1>10, <1>17, <2>1 DEF ForkMessages
  <2>3. c = e
    BY <1>3, <1>4, <2>2
  <2>4. ASSUME Seqs(c) = {} PROVE Sheet(c)' = <<Cardinality(DOMAIN copy[p]), 0>>
    <3>1. u = [i \in DOMAIN copy[p] |-> copy[p][i]]
      BY <1>0, <1>4, <2>2, <2>3, <2>4
    <3>2. \A i \in DOMAIN u : u[i].gens = 0
      BY <2>2, <3>1 DEF CopiesPlain, ForkSteps
    <3>3. TotalOf(u) = 0
      BY <1>6, <3>2, RowsUnpaid
    <3>4. DOMAIN u = DOMAIN copy[p]
      BY <3>1
    <3>. QED  BY <1>6, <3>3, <3>4
  <2>. QED  BY <1>17, <2>1, <2>2, <2>3, <2>4 DEF SheetMove
<1>18. CASE SwipeMessage(p)
  <2>1. /\ pc[p] = "swipe.message"
        /\ messages' = [messages EXCEPT ![d][loc[p].seq] =
             [messages[d][loc[p].seq] EXCEPT !.active = Len(messages[d][loc[p].seq].variants),
                                             !.body = loc[p].body, !.gens = @ + 1]]
    BY <1>18 DEF SwipeMessage, Tip, TipRow, At
  <2>2. PICK s : s = loc[p].seq
    OBVIOUS
  <2>3. s \in Seqs(d)
    BY <2>1, <2>2 DEF RowsInHand, RowInHand, Rewriting
  <2>4. PICK old \in Message : old = messages[d][s]
    BY <1>0, <2>3, RowIs DEF CanonInv, TypeOK, MessagesOK, Seqs
  <2>5. PICK m : m = [old EXCEPT !.active = Len(old.variants), !.body = loc[p].body, !.gens = @ + 1]
    OBVIOUS
  <2>6. m.gens = old.gens + 1
    BY <2>5 DEF Message
  <2>7. messages' = [messages EXCEPT ![d] = [@ EXCEPT ![s] = m]]
    BY <2>1, <2>2, <2>4, <2>5
  <2>8. c = d
    BY <1>0, <1>3, <1>4, <2>7
  <2>9. u[s] = m /\ t[s] = old
    BY <1>0, <1>3, <1>4, <2>3, <2>4, <2>7, <2>8 DEF Seqs
  <2>10. messages' = [messages EXCEPT ![d] = [@ EXCEPT ![s] = u[s]]]
    BY <2>7, <2>9
  <2>11. u[s].gens = t[s].gens + 1
    BY <2>6, <2>9
  <2>. QED  BY <1>9, <1>18, <2>3, <2>10, <2>11 DEF SheetMove
<1>19. CASE \/ SwipeBackfill(p) \/ SwipeVariant(p) \/ SelectVariant(p) \/ EditMessage(p)
            \/ EditVariant(p)
  <2>1. /\ DOMAIN u = DOMAIN t /\ \A i \in DOMAIN t : u[i].gens = t[i].gens
    BY <1>3, <1>4, <1>19, GensStay DEF Seqs
  <2>2. TotalOf(u) = TotalOf(t)
    <3>1. CASE DOMAIN t = {}
      <4>1. TotalOf(t) = 0 /\ TotalOf(u) = 0
        BY <1>5, <1>6, <2>1, <3>1, RowsUnpaid
      <4>. QED  BY <4>1
    <3>2. CASE DOMAIN t # {}
      <4>1. PICK s \in DOMAIN t : TRUE
        BY <3>2
      <4>2. u[s].gens = t[s].gens + 0
        BY <1>5, <2>1, RowIs DEF IsRows
      <4>3. TotalOf(u) = TotalOf(t) + 0
        BY <1>5, <1>6, <2>1, <4>2, RowRewritten
      <4>. QED  BY <1>5, <4>3
    <3>. QED  BY <3>1, <3>2
  <2>3. ~WritesSheet(p, c)
    BY <1>0, <1>19 DEF WritesSheet, SendInsert, SendPersist, SendRollback, SwipeMessage, GreetInsert,
       OpenInsert, ForkMessages, SwipeBackfill, SwipeVariant, SelectVariant, EditMessage, EditVariant,
       At, Granted
  <2>. QED  BY <1>1, <1>3, <1>5, <1>6, <2>1, <2>2, <2>3 DEF SheetMove
<1>. QED  BY <1>10, <1>11, <1>12, <1>13, <1>14, <1>15, <1>16, <1>17, <1>18, <1>19, MessagesWriters

-----------------------------------------------------------------------------
(***************************************************************************)
(* Who keeps the books of a chat: the one who writes it, or is let in.     *)
(***************************************************************************)
Mine(p, c) == Writes(p, c) \/ (pc[p] = "wait" /\ Holds(p) /\ chatOf(p) = c)

LEMMA Alone ==
  ASSUME OneWriter, NEW c \in ChatIds, NEW p \in Procs, Mine(p, c), NEW q \in Procs \ {p}
  PROVE  ~Writes(q, c)
<1>. CanonInv /\ BuildInv
  BY DEF OneWriter, VariantInv
<1>1. CASE Builds(p, c)
  BY <1>1 DEF BuildInv, Writes, InLineAt
<1>2. CASE InLineAt(p, c) /\ Holds(p)
  <2>1. ~Builds(q, c)
    BY <1>2 DEF BuildInv
  <2>2. ASSUME pc[q] \in LockedSteps, chatOf(q) = c PROVE FALSE
    BY <1>2, <2>2, Running DEF Holds, InLineAt
  <2>. QED  BY <2>1, <2>2 DEF Writes
<1>. QED  BY <1>1, <1>2, Running DEF Mine, Writes, InLineAt

\* The writer goes on, or is done with the chat.
LEMMA AfterWrites ==
  ASSUME OneWriter, NEW c \in ChatIds, NEW p \in Procs, Step(p), Mine(p, c)
  PROVE  Writes(p, c)' \/ pc'[p] \in {"idle", "wait"}
<1>1. Moves(p) /\ DOMAIN pc = Procs
  BY StepMoves DEF OneWriter, VariantInv, CanonInv, LineInv, Shapes
<1>2. CASE Goes(p) \/ StartSend(p)
  BY <1>1, <1>2 DEF Goes, StartSend, At
<1>3. CASE req'[p] = req[p] /\ LockedMove(p)
  BY <1>3 DEF LockedMove, Mine, Writes, Builds, Greeting, OpenSteps, LockedSteps, chatOf
<1>4. CASE req'[p] = req[p] /\ FreeMove(p)
  BY <1>4 DEF FreeMove, StartRow, ForkRow, At, Mine, Writes, Builds, Greeting, OpenSteps,
     LockedSteps, chatOf
<1>. QED  BY <1>1, <1>2, <1>3, <1>4 DEF Moves

\* What the others write is not this step's.
LEMMA OthersWrite ==
  ASSUME OneWriter, NEW p \in Procs, Step(p), NEW q \in Procs \ {p}, NEW c
  PROVE  Writes(q, c)' <=> Writes(q, c)
<1>1. CanonInv
  BY DEF OneWriter, VariantInv
<1>. QED  BY <1>1, OthersBuild DEF Writes, chatOf

\* Who does not keep a chat's books changes nothing they are about.
LEMMA Unwritten ==
  ASSUME OneWriter, NEW p \in Procs, Step(p), NEW c \in ChatIds, ~Mine(p, c)
  PROVE  /\ Sheet(c)' = Sheet(c)
         /\ \/ Columns(c)' = Columns(c)
            \/ StartRow(p) /\ c = chatOf(p) /\ chats[c].status = "absent" /\ Columns(c)' = <<"live", 0, 0>>
            \/ ForkRow(p) /\ c = req[p].target
               /\ Columns(c)' = <<"live", Cardinality(DOMAIN copy[p]), 0>>
<1>1. SheetMove(p, c) /\ ColumnsMove(p, c) /\ DOMAIN pc = Procs
  BY SheetStep, ColumnsStep DEF OneWriter, VariantInv, CanonInv, LineInv, Shapes
<1>2. c = chatOf(p) =>
        /\ pc[p] \notin LockedSteps \union Greeting \union OpenSteps
        /\ ~(pc[p] = "wait" /\ Holds(p))
  BY DEF Mine, Writes, Builds
<1>3. c = req[p].target => pc[p] # "fork.messages"
  BY DEF Mine, Writes, Builds
<1>4. Sheet(c)' = Sheet(c)
  BY <1>1, <1>2, <1>3 DEF SheetMove, SendInsert, SendPersist, SendRollback, SwipeMessage, GreetInsert,
     OpenInsert, ForkMessages, DeleteChat, At, Granted, LockedSteps, Greeting, OpenSteps
<1>5. ~(c = chatOf(p) /\ (SendUpdate(p) \/ SwipeUpdate(p) \/ GreetUpdate(p) \/ OpenUpdate(p) \/ DeleteChat(p)))
  BY <1>2 DEF SendUpdate, SwipeUpdate, GreetUpdate, OpenUpdate, DeleteChat, At, Granted, LockedSteps,
     Greeting, OpenSteps
<1>. QED  BY <1>1, <1>4, <1>5 DEF ColumnsMove

\* How far a step moves what the columns lag behind: only the steps that
\* write a row or a column do.
Posts(p) ==
  \/ SendInsert(p) \/ SendPersist(p) \/ SendRollback(p) \/ SendUpdate(p)
  \/ GreetInsert(p) \/ GreetThrows(p) \/ GreetUpdate(p) \/ OpenInsert(p) \/ OpenUpdate(p)
  \/ SwipeMessage(p) \/ SwipeUpdate(p) \/ ForkMessages(p) \/ DeleteChat(p)

LEMMA LagStays ==
  ASSUME CanonInv, NEW p \in Procs, Step(p), ~Posts(p), pc[p] # "fork.row"
  PROVE  /\ Uncounted(pc'[p]) = Uncounted(pc[p]) /\ Untotalled(pc'[p]) = Untotalled(pc[p])
         /\ pc[p] # "fork.messages" /\ pc'[p] # "fork.messages"
<1>1. DOMAIN pc = Procs
  BY DEF CanonInv, LineInv, Shapes
<1>. QED  BY <1>1 DEF Posts, Uncounted, Untotalled, Unanswered,
       Step, SendStep, CompactStep, SwipeStep, ReseedStep, StartStep, EditStep, BranchStep,
       BeginSend, SendStart, SendReply, SendFails,
       SendThrows, BeginCompact, CompactNothing, CompactTurn, CompactFails,
       CompactPersist, BeginSwipe, SwipeSeed, SwipeStart, SwipeReply, SwipeFails, SwipeAbandon,
       SwipeBackfill, SwipeVariant, SwipeDrop, SelectVariant,
       ReseedDrop, ReseedSeed, ReseedPoint, StartRow, GreetSeed,
       StartSend, OpenLoad, OpenStart, OpenReply, OpenFails,
       EditMessage, EditVariant, PatchChat, ForkLoad, ForkRead, ForkRow,
       ForkSeed, BeginProvider, ProviderSession, ProviderUpdate, Refuse, Deny,
       Granted, At, StartTurn, EndTurn, FailTurn, ReseedOrLeave, SeedFromCanon, Leave, Return

\* A send or a swipe keeps the row it read.
LEMMA RowStays ==
  ASSUME CanonInv, NEW p \in Procs, Step(p), pc'[p] \in SendSteps \union SwipeSteps
  PROVE  \/ BeginSend(p) \/ BeginSwipe(p)
         \/ /\ loc'[p].row = loc[p].row
            /\ pc'[p] \in SendSteps <=> pc[p] \in SendSteps
            /\ pc'[p] \in SwipeSteps <=> pc[p] \in SwipeSteps
            /\ pc'[p] \in Unanswered => SendInsert(p) \/ (pc[p] \in Unanswered /\ UNCHANGED messages)
            /\ loc'[p].seq = loc[p].seq
<1>1. DOMAIN pc = Procs /\ DOMAIN loc = Procs /\ loc[p] \in Locals
  BY DEF CanonInv, LineInv, Shapes, TypeOK, RequestsOK
<1>2. \/ BeginSend(p) \/ SendInsert(p) \/ SendStart(p) \/ SendReply(p) \/ SendFails(p)
      \/ SendPersist(p)
      \/ BeginSwipe(p) \/ SwipeSeed(p) \/ SwipeStart(p) \/ SwipeReply(p) \/ SwipeFails(p)
      \/ SwipeBackfill(p) \/ SwipeVariant(p) \/ SwipeMessage(p) \/ SwipeDrop(p)
  <2>1. CASE SendStep(p)
    BY <1>1, <2>1 DEF SendSteps, SwipeSteps, Unanswered, Swiping, SendStep, SendRollback,
       SendUpdate, SendThrows, Leave
  <2>2. CASE BeginCompact(p) \/ CompactNothing(p) \/ CompactStep(p)
    BY <1>1, <2>2 DEF SendSteps, SwipeSteps, Unanswered, Swiping, CompactStep, BeginCompact,
       CompactNothing, CompactTurn, CompactFails, CompactPersist, At, Leave
  <2>3. CASE SwipeStep(p) \/ SelectVariant(p) \/ ReseedStep(p)
    BY <1>1, <2>3 DEF SendSteps, SwipeSteps, Unanswered, Swiping, SwipeStep, ReseedStep,
       SwipeAbandon, SwipeUpdate, SelectVariant, ReseedDrop, ReseedSeed, ReseedPoint, At,
       ReseedOrLeave, SeedFromCanon, Leave
  <2>4. CASE StartStep(p)
    BY <1>1, <2>4 DEF SendSteps, SwipeSteps, Unanswered, Swiping, StartStep, StartRow, GreetInsert,
       GreetSeed, GreetThrows, GreetUpdate, StartSend, OpenLoad, OpenStart, OpenReply, OpenFails,
       OpenInsert, OpenUpdate, At, StartTurn, EndTurn, Return
  <2>5. CASE EditStep(p) \/ Refuse(p) \/ Deny(p)
    BY <1>1, <2>5 DEF SendSteps, SwipeSteps, Unanswered, Swiping, EditStep, EditMessage,
       EditVariant, DeleteChat, PatchChat, Refuse, Deny, ReseedOrLeave, Leave
  <2>6. CASE BranchStep(p)
    BY <1>1, <2>6 DEF SendSteps, SwipeSteps, Unanswered, Swiping, BranchStep, ForkLoad, ForkRead,
       ForkRow, ForkMessages, ForkSeed, BeginProvider, ProviderSession, ProviderUpdate, At,
       SeedFromCanon, Leave, Return
  <2>. QED  BY <2>1, <2>2, <2>3, <2>4, <2>5, <2>6 DEF Step
<1>3. CASE SendInsert(p) \/ SendPersist(p) \/ SwipeBackfill(p) \/ SwipeVariant(p) \/ SwipeMessage(p)
           \/ SwipeDrop(p)
  BY <1>1, <1>3 DEF SendInsert, SendPersist, SwipeBackfill, SwipeVariant, SwipeMessage, SwipeDrop, At,
     SendSteps, SwipeSteps, Unanswered, Swiping
<1>4. CASE SendStart(p) \/ SwipeStart(p) \/ SwipeSeed(p)
  BY <1>1, <1>4 DEF SendStart, SwipeStart, SwipeSeed, StartTurn, Opens, At, SendSteps, SwipeSteps,
     Unanswered, Swiping, Locals
<1>5. CASE SendReply(p) \/ SwipeReply(p) \/ SendFails(p) \/ SwipeFails(p)
  BY <1>1, <1>5 DEF SendReply, SwipeReply, SendFails, SwipeFails, EndTurn, FailTurn, At, SendSteps,
     SwipeSteps, Unanswered, Swiping, Locals, tables
<1>. QED  BY <1>2, <1>3, <1>4, <1>5

\* The one who keeps the books still reads the columns right.
LEMMA ReadsRight ==
  ASSUME OneWriter, NEW c \in ChatIds, NEW p \in Procs, Step(p), Mine(p, c), AsRead(p, c)
  PROVE  AsRead(p, c)'
<1>. CanonInv
  BY DEF OneWriter, VariantInv
<1>0. /\ DOMAIN pc = Procs /\ DOMAIN loc = Procs /\ loc[p] \in Locals /\ DOMAIN messages = ChatIds
      /\ ColumnsMove(p, c) /\ Moves(p)
  BY ColumnsStep, StepMoves DEF CanonInv, LineInv, Shapes, TypeOK, RequestsOK, MessagesOK
<1>1. ASSUME ~SendUpdate(p), ~SwipeUpdate(p), ~GreetUpdate(p), ~OpenUpdate(p), ~StartRow(p),
             ~ForkRow(p), ~DeleteChat(p)
      PROVE  chats'[c].count = chats[c].count /\ chats'[c].total = chats[c].total
  BY <1>0, <1>1 DEF ColumnsMove, Columns
<1>2. ASSUME pc'[p] \in SendSteps \union SwipeSteps
      PROVE  /\ pc'[p] \in SendSteps => loc'[p].row.count = chats'[c].count
             /\ loc'[p].row.total = chats'[c].total
  <2>1. ~SendUpdate(p) /\ ~SwipeUpdate(p) /\ ~GreetUpdate(p) /\ ~OpenUpdate(p) /\ ~StartRow(p)
        /\ ~ForkRow(p) /\ ~DeleteChat(p)
    BY <1>0, <1>2 DEF SendUpdate, SwipeUpdate, GreetUpdate, OpenUpdate, StartRow, ForkRow, DeleteChat,
       Leave, Return, At, SendSteps, SwipeSteps, Swiping, Unanswered
  <2>2. chats'[c].count = chats[c].count /\ chats'[c].total = chats[c].total
    BY <1>1, <2>1
  <2>3. CASE BeginSend(p) \/ BeginSwipe(p)
    <3>1. c = chatOf(p)
      BY <2>3 DEF Mine, Writes, Builds, BeginSend, BeginSwipe, Granted, LockedSteps, Greeting, OpenSteps
    <3>2. loc'[p].row = chats[c]
      BY <1>0, <2>3, <3>1 DEF BeginSend, BeginSwipe, Locals
    <3>. QED  BY <2>2, <3>2
  <2>4. CASE /\ loc'[p].row = loc[p].row
             /\ pc'[p] \in SendSteps <=> pc[p] \in SendSteps
             /\ pc'[p] \in SwipeSteps <=> pc[p] \in SwipeSteps
    BY <1>2, <2>2, <2>4 DEF AsRead
  <2>. QED  BY <1>2, <2>3, <2>4, RowStays
<1>3. ASSUME pc'[p] \in Unanswered PROVE messages'[c][loc'[p].seq].gens = 0
  <2>0. ~BeginSend(p) /\ ~BeginSwipe(p)
    BY <1>0, <1>3 DEF BeginSend, BeginSwipe, Unanswered
  <2>1. loc'[p].seq = loc[p].seq /\ (SendInsert(p) \/ (pc[p] \in Unanswered /\ UNCHANGED messages))
    BY <1>3, <2>0, RowStays DEF SendSteps
  <2>2. CASE SendInsert(p)
    <3>1. c = chatOf(p)
      BY <2>2 DEF Mine, Writes, Builds, SendInsert, At, LockedSteps, Greeting, OpenSteps
    <3>2. messages'[c][loc[p].seq] = NewMessage("user", nextBody, 0)
      BY <1>0, <2>2, <3>1 DEF SendInsert, WithMessage
    <3>. QED  BY <2>1, <3>2 DEF NewMessage
  <2>3. CASE pc[p] \in Unanswered /\ UNCHANGED messages
    BY <2>1, <2>3 DEF AsRead
  <2>. QED  BY <2>1, <2>2, <2>3
<1>4. ASSUME pc'[p] \in Greeting \union OpenSteps PROVE chats'[c].count = 0 /\ chats'[c].total = 0
  <2>1. pc[p] # "start.row"
    BY DEF Mine, Writes, Builds, LockedSteps, Greeting, OpenSteps
  <2>2. pc[p] \in Greeting \union OpenSteps
    BY <1>0, <1>4, <2>1 DEF Moves, Goes, StartSend, LockedMove, FreeMove, StartRow, ForkRow, At,
       LockedSteps, Greeting, OpenSteps
  <2>3. ~SendUpdate(p) /\ ~SwipeUpdate(p) /\ ~GreetUpdate(p) /\ ~OpenUpdate(p) /\ ~StartRow(p)
        /\ ~ForkRow(p) /\ ~DeleteChat(p)
    BY <1>0, <1>4, <2>1 DEF SendUpdate, SwipeUpdate, GreetUpdate, OpenUpdate, StartRow, ForkRow,
       DeleteChat, Leave, Return, At, Greeting, OpenSteps
  <2>. QED  BY <1>1, <2>2, <2>3 DEF AsRead
<1>5. (pc[p] \in SendSteps \union SwipeSteps)' <=> pc'[p] \in SendSteps \union SwipeSteps
  BY DEF SendSteps, SwipeSteps
<1>. QED  BY <1>2, <1>3, <1>4, <1>5 DEF AsRead, SendSteps, SwipeSteps

\* The books are kept: what the columns lag behind is what the next write adds.
LEMMA BooksStep ==
  ASSUME OneWriter, NEW c \in ChatIds, NEW p \in Procs, Step(p), Mine(p, c), Live(c), Books(p, c)
  PROVE  Live(c)' => Books(p, c)'
<1>. CanonInv /\ CanonInv'
  BY StepKeepsRows DEF OneWriter, VariantInv
<1>0. /\ DOMAIN pc = Procs /\ DOMAIN loc = Procs /\ DOMAIN chats = ChatIds /\ chats[c] \in ChatRow
      /\ ColumnsMove(p, c) /\ SheetMove(p, c)
  BY ColumnsStep, SheetStep DEF OneWriter, VariantInv, CanonInv, LineInv, Shapes, TypeOK, RequestsOK,
     ChatsOK
<1>1. PICK k \in Nat, t \in Nat : k = chats[c].count /\ t = chats[c].total
  BY <1>0, ChatRowIs
<1>2. PICK n, g : n = Cardinality(Seqs(c)) /\ g = Generations(c)
  OBVIOUS
<1>3. Sheet(c) = <<n, g>>
  BY <1>2 DEF Sheet
<1>4. pc[p] \notin {"fork.row", "start.row"} /\ pc'[p] # "fork.messages"
  <2>1. pc[p] \notin {"fork.row", "start.row"}
    BY DEF Mine, Writes, Builds, LockedSteps, Greeting, OpenSteps
  <2>. QED  BY <2>1, StepMoves DEF Moves, Goes, StartSend, LockedMove, FreeMove, StartRow, ForkRow, At,
            LockedSteps, Greeting, OpenSteps, CanonInv, LineInv, Shapes
<1>5. AsRead(p, c) /\ AsRead(p, c)'
  <2>1. AsRead(p, c)
    BY DEF Books, AsRead, SendSteps, SwipeSteps, Swiping, Unanswered, Greeting, OpenSteps
  <2>. QED  BY <2>1, ReadsRight
<1>6. pc[p] # "fork.messages" => k + Uncounted(pc[p]) = n /\ t + Untotalled(pc[p]) = g
  BY <1>1, <1>2 DEF Books, Balanced
<1>7. ASSUME NEW status, NEW k1, NEW t1, NEW n1, NEW g1, NEW a, NEW b,
             Columns(c)' = <<status, k1, t1>>, Sheet(c)' = <<n1, g1>>,
             Uncounted(pc'[p]) = a, Untotalled(pc'[p]) = b, k1 + a = n1, t1 + b = g1
      PROVE  Books(p, c)'
  BY <1>4, <1>5, <1>7 DEF Books, Balanced, Columns, Sheet
<1>8. ASSUME NEW a, NEW b, Columns(c)' = Columns(c), Sheet(c)' = <<a, b>>,
             k + Uncounted(pc'[p]) = a, t + Untotalled(pc'[p]) = b
      PROVE  Books(p, c)'
  BY <1>1, <1>7, <1>8 DEF Columns
<1>. c = chatOf(p) \/ pc[p] \in {"fork.messages", "fork.seed"}
  BY DEF Mine, Writes, Builds
<1>9. CASE ~Posts(p)
  <2>1. Columns(c)' = Columns(c) /\ Sheet(c)' = Sheet(c)
    BY <1>0, <1>4, <1>9 DEF ColumnsMove, SheetMove, Posts, StartRow, ForkRow, At
  <2>. QED  BY <1>3, <1>4, <1>6, <1>8, <1>9, <2>1, LagStays
<1>10. CASE SendInsert(p)
  <2>1. pc[p] = "send.insert" /\ pc'[p] = "send.turn" /\ c = chatOf(p)
    BY <1>0, <1>10 DEF SendInsert, At, Leave, Return
  <2>2. Columns(c)' = Columns(c) /\ Sheet(c)' = <<n + 1, g>>
    BY <1>0, <1>2, <1>3, <1>10, <2>1 DEF ColumnsMove, SheetMove, WritesSheet, SendInsert, SendPersist, SendRollback,
       SendUpdate, SwipeMessage, SwipeUpdate, GreetInsert, GreetUpdate, OpenInsert, OpenUpdate, StartRow,
       ForkRow, ForkMessages, DeleteChat, At, Granted
  <2>3. k = n /\ t = g
    BY <1>5, <1>6, <2>1 DEF Uncounted, Untotalled, Unanswered, AsRead, SendSteps, SwipeSteps
  <2>4. Uncounted(pc'[p]) = 1 /\ Untotalled(pc'[p]) = 0
    BY <2>1 DEF Uncounted, Untotalled, Unanswered
  <2>. QED  BY <1>8, <2>2, <2>3, <2>4
<1>11. CASE SendPersist(p)
  <2>1. pc[p] = "send.persist" /\ pc'[p] = "send.update" /\ c = chatOf(p)
    BY <1>0, <1>11 DEF SendPersist, At, Leave, Return
  <2>2. Columns(c)' = Columns(c) /\ Sheet(c)' = <<n + 1, g + 1>>
    BY <1>0, <1>2, <1>3, <1>11, <2>1 DEF ColumnsMove, SheetMove, WritesSheet, SendInsert, SendPersist, SendRollback,
       SendUpdate, SwipeMessage, SwipeUpdate, GreetInsert, GreetUpdate, OpenInsert, OpenUpdate, StartRow,
       ForkRow, ForkMessages, DeleteChat, At, Granted
  <2>3. k + 1 = n /\ t = g
    BY <1>5, <1>6, <2>1 DEF Uncounted, Untotalled, Unanswered, AsRead, SendSteps, SwipeSteps
  <2>4. Uncounted(pc'[p]) = 2 /\ Untotalled(pc'[p]) = 1
    BY <2>1 DEF Uncounted, Untotalled, Unanswered
  <2>. QED  BY <1>8, <2>2, <2>3, <2>4
<1>12. CASE SwipeMessage(p)
  <2>1. pc[p] = "swipe.message" /\ pc'[p] = "swipe.drop" /\ c = chatOf(p)
    BY <1>0, <1>12 DEF SwipeMessage, At, Leave, Return
  <2>2. Columns(c)' = Columns(c) /\ Sheet(c)' = <<n, g + 1>>
    BY <1>0, <1>2, <1>3, <1>12, <2>1 DEF ColumnsMove, SheetMove, WritesSheet, SendInsert, SendPersist, SendRollback,
       SendUpdate, SwipeMessage, SwipeUpdate, GreetInsert, GreetUpdate, OpenInsert, OpenUpdate, StartRow,
       ForkRow, ForkMessages, DeleteChat, At, Granted
  <2>3. k = n /\ t = g
    BY <1>5, <1>6, <2>1 DEF Uncounted, Untotalled, Unanswered, AsRead, SendSteps, SwipeSteps
  <2>4. Uncounted(pc'[p]) = 0 /\ Untotalled(pc'[p]) = 1
    BY <2>1 DEF Uncounted, Untotalled, Unanswered
  <2>. QED  BY <1>8, <2>2, <2>3, <2>4
<1>13. CASE SendRollback(p)
  <2>1. pc[p] = "send.rollback" /\ pc'[p] = "idle" /\ c = chatOf(p)
    BY <1>0, <1>13 DEF SendRollback, Leave
  <2>2. messages[c][loc[p].seq].gens = 0
    BY <1>5, <2>1 DEF AsRead, Unanswered
  <2>3. k + 1 = n /\ t = g
    BY <1>6, <2>1 DEF Uncounted, Untotalled, Unanswered
  <2>4. Columns(c)' = Columns(c) /\ Sheet(c)' = <<n - 1, g - messages[c][loc[p].seq].gens>>
    BY <1>0, <1>2, <1>3, <1>13, <2>1 DEF ColumnsMove, SheetMove, WritesSheet, SendInsert, SendPersist,
       SendUpdate, SwipeMessage, SwipeUpdate, GreetInsert, GreetUpdate, OpenInsert, OpenUpdate, StartRow,
       ForkRow, ForkMessages, DeleteChat, At, Granted
  <2>5. n - 1 = k /\ g - messages[c][loc[p].seq].gens = t
    BY <2>2, <2>3
  <2>6. Uncounted(pc'[p]) = 0 /\ Untotalled(pc'[p]) = 0
    BY <2>1 DEF Uncounted, Untotalled, Unanswered
  <2>. QED  BY <1>8, <2>4, <2>5, <2>6
<1>14. CASE SendUpdate(p)
  <2>1. pc[p] = "send.update" /\ pc'[p] \in {"idle", "compact.turn"} /\ c = chatOf(p)
    BY <1>0, <1>14 DEF SendUpdate, Leave
  <2>2. loc[p].row.count = k /\ loc[p].row.total = t
    BY <1>1, <1>5, <2>1 DEF AsRead, SendSteps
  <2>3. Columns(c)' = <<chats[c].status, k + 2, t + 1>>
    BY <1>14, <2>1, <2>2, ColumnsWritten DEF ColumnsWrite
  <2>4. Sheet(c)' = <<n, g>>
    BY <1>0, <1>3, <2>1 DEF SheetMove, SendInsert, SendPersist, SendRollback, SwipeMessage, GreetInsert,
       OpenInsert, ForkMessages, DeleteChat, At, Granted
  <2>5. k + 2 = n /\ t + 1 = g
    BY <1>6, <2>1 DEF Uncounted, Untotalled, Unanswered
  <2>6. Uncounted(pc'[p]) = 0 /\ Untotalled(pc'[p]) = 0
    BY <2>1 DEF Uncounted, Untotalled, Unanswered
  <2>. QED  BY <1>7, <2>3, <2>4, <2>5, <2>6
<1>15. CASE SwipeUpdate(p)
  <2>1. pc[p] = "swipe.update" /\ pc'[p] = "idle" /\ c = chatOf(p)
    BY <1>0, <1>15 DEF SwipeUpdate, Leave
  <2>2. loc[p].row.total = t
    BY <1>1, <1>5, <2>1 DEF AsRead, SwipeSteps
  <2>3. Columns(c)' = <<chats[c].status, k, t + 1>>
    BY <1>1, <1>15, <2>1, <2>2, ColumnsWritten DEF ColumnsWrite
  <2>4. Sheet(c)' = <<n, g>>
    BY <1>0, <1>3, <2>1 DEF SheetMove, SendInsert, SendPersist, SendRollback, SwipeMessage, GreetInsert,
       OpenInsert, ForkMessages, DeleteChat, At, Granted
  <2>5. k = n /\ t + 1 = g
    BY <1>6, <2>1 DEF Uncounted, Untotalled, Unanswered
  <2>6. Uncounted(pc'[p]) = 0 /\ Untotalled(pc'[p]) = 0
    BY <2>1 DEF Uncounted, Untotalled, Unanswered
  <2>. QED  BY <1>7, <2>3, <2>4, <2>5, <2>6
<1>16. CASE GreetInsert(p)
  <2>1. /\ pc[p] = "greet.insert" /\ pc'[p] \in {"idle", "greet.seed", "greet.update"}
        /\ c = chatOf(p)
    BY <1>0, <1>16 DEF GreetInsert, Return
  <2>2. /\ Columns(c)' = Columns(c)
        /\ Sheet(c)' = IF pc'[p] = "idle" THEN <<n, g>> ELSE <<n + 1, g>>
    BY <1>0, <1>2, <1>3, <1>16, <2>1 DEF ColumnsMove, SheetMove, WritesSheet, SendInsert, SendPersist,
       SendRollback, SendUpdate, SwipeMessage, SwipeUpdate, GreetUpdate, OpenInsert, OpenUpdate, StartRow,
       ForkRow, ForkMessages, DeleteChat, At, Granted
  <2>3. k = n /\ t = g
    BY <1>6, <2>1 DEF Uncounted, Untotalled, Unanswered
  <2>4. /\ Uncounted(pc'[p]) = IF pc'[p] = "idle" THEN 0 ELSE 1
        /\ Untotalled(pc'[p]) = 0
    BY <2>1 DEF Uncounted, Untotalled, Unanswered
  <2>. QED  BY <1>8, <2>2, <2>3, <2>4
<1>17. CASE OpenInsert(p)
  <2>1. /\ pc[p] = "open.insert" /\ pc'[p] \in {"idle", "open.update"} /\ c = chatOf(p)
    BY <1>0, <1>17 DEF OpenInsert, Return
  <2>2. /\ Columns(c)' = Columns(c)
        /\ Sheet(c)' = IF pc'[p] = "idle" THEN <<n, g>> ELSE <<n + 1, g + 1>>
    BY <1>0, <1>2, <1>3, <1>17, <2>1 DEF ColumnsMove, SheetMove, WritesSheet, SendInsert, SendPersist,
       SendRollback, SendUpdate, SwipeMessage, SwipeUpdate, GreetInsert, GreetUpdate, OpenUpdate, StartRow,
       ForkRow, ForkMessages, DeleteChat, At, Granted
  <2>3. k = n /\ t = g
    BY <1>6, <2>1 DEF Uncounted, Untotalled, Unanswered
  <2>4. /\ Uncounted(pc'[p]) = IF pc'[p] = "idle" THEN 0 ELSE 1
        /\ Untotalled(pc'[p]) = IF pc'[p] = "idle" THEN 0 ELSE 1
    BY <2>1 DEF Uncounted, Untotalled, Unanswered
  <2>. QED  BY <1>8, <2>2, <2>3, <2>4
<1>18. CASE GreetUpdate(p)
  <2>1. pc[p] = "greet.update" /\ pc'[p] = "start.send" /\ c = chatOf(p)
    BY <1>0, <1>18 DEF GreetUpdate, At
  <2>2. k = 0 /\ Columns(c)' = <<chats[c].status, 1, t>>
    BY <1>1, <1>5, <1>18, <2>1, ColumnsWritten DEF ColumnsWrite, AsRead, Greeting
  <2>3. Sheet(c)' = <<n, g>>
    BY <1>0, <1>3, <2>1 DEF SheetMove, SendInsert, SendPersist, SendRollback, SwipeMessage, GreetInsert,
       OpenInsert, ForkMessages, DeleteChat, At, Granted
  <2>4. k + 1 = n /\ t = g
    BY <1>6, <2>1 DEF Uncounted, Untotalled, Unanswered
  <2>5. Uncounted(pc'[p]) = 0 /\ Untotalled(pc'[p]) = 0
    BY <2>1 DEF Uncounted, Untotalled, Unanswered
  <2>. QED  BY <1>7, <2>2, <2>3, <2>4, <2>5
<1>19. CASE OpenUpdate(p)
  <2>1. pc[p] = "open.update" /\ pc'[p] = "idle" /\ c = chatOf(p)
    BY <1>0, <1>19 DEF OpenUpdate, Return
  <2>2. k = 0 /\ t = 0 /\ Columns(c)' = <<chats[c].status, 1, 1>>
    BY <1>1, <1>5, <1>19, <2>1, ColumnsWritten DEF ColumnsWrite, AsRead, OpenSteps
  <2>3. Sheet(c)' = <<n, g>>
    BY <1>0, <1>3, <2>1 DEF SheetMove, SendInsert, SendPersist, SendRollback, SwipeMessage, GreetInsert,
       OpenInsert, ForkMessages, DeleteChat, At, Granted
  <2>4. k + 1 = n /\ t + 1 = g
    BY <1>6, <2>1 DEF Uncounted, Untotalled, Unanswered
  <2>5. Uncounted(pc'[p]) = 0 /\ Untotalled(pc'[p]) = 0
    BY <2>1 DEF Uncounted, Untotalled, Unanswered
  <2>. QED  BY <1>7, <2>2, <2>3, <2>4, <2>5
<1>20. CASE GreetThrows(p)
  BY <1>20 DEF GreetThrows
<1>21. CASE DeleteChat(p)
  <2>0. chatOf(p) \in ChatIds
    BY <1>21 DEF DeleteChat, Granted
  <2>a. PICK r : r = [NoChat EXCEPT !.status = "deleted"]
    OBVIOUS
  <2>b. r.status = "deleted" /\ chats' = [chats EXCEPT ![chatOf(p)] = r]
    BY <1>21, <2>a DEF DeleteChat, NoChat, NewChat
  <2>1. chats'[chatOf(p)].status = "deleted"
    BY <1>0, <2>0, <2>b
  <2>. QED  BY <1>21, <2>1 DEF DeleteChat, Granted, Live
<1>22. CASE ForkMessages(p)
  <2>1. pc[p] = "fork.messages" /\ c = req[p].target
    BY <1>22 DEF ForkMessages, Mine, Writes, Builds, LockedSteps, Greeting, OpenSteps
  <2>2. Seqs(c) = {} /\ k = Cardinality(DOMAIN copy[p]) /\ t = 0
    BY <1>1, <2>1 DEF Books
  <2>3. pc'[p] = "fork.seed"
    BY <1>0, <1>22, <2>1, <2>2 DEF ForkMessages
  <2>4. Columns(c)' = Columns(c) /\ Sheet(c)' = <<k, t>>
    BY <1>0, <1>22, <2>1, <2>2, <2>3 DEF ColumnsMove, SheetMove, WritesSheet, SendInsert, SendPersist,
       SendRollback, SendUpdate, SwipeMessage, SwipeUpdate, GreetInsert, GreetUpdate, OpenInsert,
       OpenUpdate, StartRow, ForkRow, DeleteChat, At, Granted
  <2>5. Uncounted(pc'[p]) = 0 /\ Untotalled(pc'[p]) = 0
    BY <2>3 DEF Uncounted, Untotalled, Unanswered
  <2>. QED  BY <1>8, <2>4, <2>5
<1>. QED  BY <1>9, <1>10, <1>11, <1>12, <1>13, <1>14, <1>15, <1>16, <1>17, <1>18, <1>19, <1>20, <1>21,
             <1>22 DEF Posts

\* The books of another, and a chat whose books nobody keeps.
LEMMA OthersBooks ==
  ASSUME OneWriter, NEW c \in ChatIds, NEW p \in Procs, Step(p), ~Mine(p, c), Live(c),
         NEW q \in Procs \ {p}, Writes(q, c), Books(q, c)
  PROVE  Books(q, c)'
<1>. CanonInv /\ CanonInv'
  BY StepKeepsRows DEF OneWriter, VariantInv
<1>1. pc'[q] = pc[q] /\ loc'[q] = loc[q] /\ copy'[q] = copy[q]
  BY OthersStay
<1>2. Sheet(c)' = Sheet(c) /\ Columns(c)' = Columns(c)
  <2>1. ~(ForkRow(p) /\ c = req[p].target)
    BY DEF OneWriter, AimInv, Aims, ForkRow, At, Live
  <2>. QED  BY <2>1, Unwritten DEF Live
<1>3. /\ chats'[c].count = chats[c].count /\ chats'[c].total = chats[c].total
      /\ Cardinality(Seqs(c))' = Cardinality(Seqs(c)) /\ Generations(c)' = Generations(c)
  BY <1>2 DEF Columns, Sheet
<1>4. ASSUME pc[q] \in Unanswered PROVE messages'[c][loc[q].seq] = messages[c][loc[q].seq]
  <2>1. Holds(q) /\ chatOf(q) = c
    BY <1>4, Running DEF Writes, Builds, Unanswered, LockedSteps, Greeting, OpenSteps
  <2>2. loc[q].seq \in Seqs(c)
    BY <1>4, <2>1 DEF CanonInv, SendsAtTip, SendAtTip
  <2>3. ~(c = chatOf(p) /\ Holds(p))
    BY <2>1 DEF Holds
  <2>. QED  BY <2>2, <2>3, OldRowsStay
<1>5. AsRead(q, c) => AsRead(q, c)'
  BY <1>1, <1>3, <1>4 DEF AsRead
<1>6. Seqs(c) = {} => Seqs(c)' = {}
  <2>1. IsFiniteSet(Seqs(c))'
    BY SheetWillBe DEF IsRows, Seqs
  <2>. QED  BY <1>3, <2>1, FS_EmptySet
<1>. QED  BY <1>1, <1>3, <1>5, <1>6 DEF Books, Balanced

LEMMA NothingToCount ==
  ASSUME CanonInv', NEW c \in ChatIds, Seqs(c)' = {}
  PROVE  Sheet(c)' = <<0, 0>>
<1>1. IsRows(messages'[c]) /\ Sheet(c)' = <<Cardinality(DOMAIN messages'[c]), TotalOf(messages'[c])>>
  BY SheetWillBe
<1>2. DOMAIN messages'[c] = {}
  BY DEF Seqs
<1>3. TotalOf(messages'[c]) = 0
  BY <1>1, <1>2, RowsUnpaid
<1>. QED  BY <1>1, <1>2, <1>3, FS_EmptySet

-----------------------------------------------------------------------------
(***************************************************************************)
(* The ledger is kept by every step.                                       *)
(***************************************************************************)
\* A chat comes to be with its books in order.
LEMMA OpensTheBooks ==
  ASSUME OneWriter, NEW p \in Procs, Step(p), NEW c \in ChatIds, ~Live(c), Live(c)'
  PROVE  Kept(c)'
<1>. CanonInv /\ CanonInv' /\ AbsentInv
  BY StepKeepsRows DEF OneWriter, VariantInv
<1>0. DOMAIN pc = Procs
  BY DEF CanonInv, LineInv, Shapes, TypeOK, RequestsOK
<1>1. \/ StartRow(p) /\ c = chatOf(p)
      \/ ForkRow(p) /\ c = req[p].target
  BY StatusStep DEF Live
<1>2. chats[c].status = "absent"
  <2>1. CASE StartRow(p) /\ c = chatOf(p)
    BY <2>1, StatusStep DEF Live, ForkRow, DeleteChat, StartRow, At, Granted
  <2>2. CASE ForkRow(p) /\ c = req[p].target
    BY <2>2 DEF OneWriter, AimInv, Aims, ForkRow, At
  <2>. QED  BY <1>1, <2>1, <2>2
<1>3. Seqs(c)' = {} /\ Sheet(c)' = <<0, 0>>
  BY <1>2, AbsentStaysEmpty, NothingToCount
<1>4. ASSUME NEW q \in Procs \ {p} PROVE ~Writes(q, c)'
  BY <1>2, OthersWrite DEF AbsentInv, Writes, InLineAt
<1>5. ~Mine(p, c)
  BY <1>2 DEF AbsentInv, Mine, Writes, InLineAt
<1>6. CASE StartRow(p) /\ c = chatOf(p)
  <2>1. /\ pc'[p] \in {"open.load", "greet.insert", "start.send"} /\ req' = req
    BY <1>0, <1>2, <1>6 DEF StartRow
  <2>2. Columns(c)' = <<"live", 0, 0>>
    BY <1>5, <1>6, Unwritten DEF Columns, Live, StartRow, ForkRow, At
  <2>3. Writes(p, c)'
    BY <1>6, <2>1 DEF Writes, Builds, Greeting, OpenSteps, chatOf
  <2>4. Books(p, c)'
    BY <1>3, <2>1, <2>2 DEF Books, AsRead, Balanced, Sheet, Columns, Uncounted, Untotalled, SendSteps,
       SwipeSteps, Swiping, Unanswered
  <2>. QED  BY <1>4, <2>3, <2>4 DEF Kept
<1>7. CASE ForkRow(p) /\ c = req[p].target
  <2>1. pc'[p] = "fork.messages" /\ req' = req /\ copy' = copy
    BY <1>0, <1>7 DEF ForkRow, At
  <2>2. Columns(c)' = <<"live", Cardinality(DOMAIN copy[p]), 0>>
    <3>1. ~StartRow(p)
      BY <1>7 DEF StartRow, ForkRow, At
    <3>. QED  BY <1>5, <3>1, Unwritten DEF Columns, Live
  <2>3. Writes(p, c)'
    BY <1>7, <2>1 DEF Writes, Builds
  <2>4. Books(p, c)'
    BY <1>3, <2>1, <2>2 DEF Books, Columns
  <2>. QED  BY <1>4, <2>3, <2>4 DEF Kept
<1>. QED  BY <1>1, <1>6, <1>7

LEMMA KeepsTheBooks ==
  ASSUME OneWriter, NEW p \in Procs, Step(p), NEW c \in ChatIds, Live(c), Live(c)', Kept(c)
  PROVE  Kept(c)'
<1>1. CASE Mine(p, c)
  <2>1. ASSUME NEW q \in Procs \ {p} PROVE ~Writes(q, c) /\ ~Writes(q, c)'
    BY <1>1, <2>1, Alone, OthersWrite
  <2>2. Books(p, c)
    <3>1. CASE Writes(p, c)
      BY <3>1 DEF Kept
    <3>2. CASE ~Writes(p, c)
      <4>1. pc[p] = "wait" /\ Balanced(c, 0, 0)
        BY <1>1, <2>1, <3>2 DEF Mine, Kept
      <4>. QED  BY <4>1 DEF Books, AsRead, Uncounted, Untotalled, SendSteps, SwipeSteps, Swiping,
                Unanswered, Greeting, OpenSteps
    <3>. QED  BY <3>1, <3>2
  <2>3. Books(p, c)'
    BY <1>1, <2>2, BooksStep
  <2>4. Writes(p, c)' \/ pc'[p] \in {"idle", "wait"}
    BY <1>1, AfterWrites
  <2>5. pc'[p] \in {"idle", "wait"} => Balanced(c, 0, 0)'
    BY <2>3 DEF Books, Uncounted, Untotalled, Unanswered
  <2>. QED  BY <2>1, <2>3, <2>4, <2>5 DEF Kept
<1>2. CASE ~Mine(p, c)
  <2>1. ~Writes(p, c)'
    <3>1. ~Builds(p, c)'
      <4>1. ~(ForkRow(p) /\ Aims(p, c))
        BY DEF OneWriter, AimInv, Live
      <4>. QED  BY <1>2, <4>1, Comes DEF Mine, Writes, Live
    <3>2. ASSUME pc'[p] \in LockedSteps, chatOf(p)' = c PROVE FALSE
      <4>1. Moves(p) /\ DOMAIN pc = Procs
        BY StepMoves DEF OneWriter, VariantInv, CanonInv, LineInv, Shapes
      <4>2. req'[p] = req[p] /\ LockedMove(p)
        BY <3>2, <4>1 DEF Moves, Goes, FreeMove, StartSend, At, ForkRow, LockedSteps, OpenSteps, Greeting
      <4>. QED  BY <1>2, <3>2, <4>2 DEF LockedMove, Mine, Writes, chatOf
    <3>. QED  BY <3>1, <3>2 DEF Writes
  <2>2. ASSUME NEW q \in Procs, Writes(q, c)' PROVE Books(q, c)'
    <3>1. q # p /\ Writes(q, c)
      BY <2>1, <2>2, OthersWrite
    <3>. QED  BY <1>2, <3>1, OthersBooks DEF Kept
  <2>3. ASSUME \A q \in Procs : ~Writes(q, c)' PROVE Balanced(c, 0, 0)'
    <3>1. \A q \in Procs : ~Writes(q, c)
      BY <1>2, <2>3, OthersWrite DEF Mine
    <3>2. Sheet(c)' = Sheet(c) /\ Columns(c)' = Columns(c)
      <4>1. ~(ForkRow(p) /\ c = req[p].target)
        BY DEF OneWriter, AimInv, Aims, ForkRow, At, Live
      <4>. QED  BY <1>2, <4>1, Unwritten DEF Live
    <3>. QED  BY <3>1, <3>2 DEF Kept, Balanced, Sheet, Columns
  <2>. QED  BY <2>2, <2>3 DEF Kept
<1>. QED  BY <1>1, <1>2

\* A call touches no chat, and none writes before its turn.
LEMMA CallKeepsBooks ==
  ASSUME OneWriter, NEW p \in Procs, Call(p), NEW c \in ChatIds, Kept(c)
  PROVE  Kept(c)'
<1>0. DOMAIN pc = Procs /\ DOMAIN req = Procs
  BY DEF OneWriter, VariantInv, CanonInv, LineInv, Shapes, TypeOK, RequestsOK
<1>1. PICK r : \E there \in {"wait", "start.row", "fork.load"} : Arriving(p, r, there)
  BY CallForms DEF OneWriter, VariantInv
<1>2. PICK there \in {"wait", "start.row", "fork.load"} : Arriving(p, r, there)
  BY <1>1
<1>3. /\ UNCHANGED <<chats, messages, loc, copy>> /\ pc[p] = "idle"
      /\ pc' = [pc EXCEPT ![p] = there] /\ req' = [req EXCEPT ![p] = r]
  BY <1>2 DEF Arriving, Arrives, tables
<1>4. pc'[p] = there /\ \A q \in Procs \ {p} : pc'[q] = pc[q] /\ req'[q] = req[q]
  BY <1>0, <1>3
<1>5. ~Writes(p, c) /\ ~Writes(p, c)'
  BY <1>3, <1>4 DEF Writes, Builds, Greeting, OpenSteps, LockedSteps
<1>6. ASSUME NEW q \in Procs \ {p} PROVE (Writes(q, c)' <=> Writes(q, c)) /\ (Books(q, c) => Books(q, c)')
  BY <1>3, <1>4 DEF Writes, Builds, Books, AsRead, Balanced, Seqs, Generations, MaxSeq, chatOf
<1>7. Balanced(c, 0, 0) => Balanced(c, 0, 0)'
  BY <1>3 DEF Balanced, Seqs, Generations, MaxSeq
<1>. QED  BY <1>5, <1>6, <1>7 DEF Kept

LEMMA NextKeepsLedger ==
  ASSUME ~Eager, LedgerInv, [Next]_vars
  PROVE  LedgerInv'
<1>1. OneWriter /\ OneWriter' /\ UsedOK
  BY NextKeepsWriter DEF LedgerInv, OneWriter, VariantInv
<1>2. /\ used'.crashes = 0 => used.crashes = 0
      /\ Restart => used'.crashes # 0
  BY <1>1, UsedStep
<1>. SUFFICES ASSUME used'.crashes = 0, NEW c \in ChatIds, Live(c)' PROVE Kept(c)'
  BY <1>1 DEF LedgerInv
<1>3. Live(c) => Kept(c)
  BY <1>2 DEF LedgerInv
<1>4. ASSUME NEW p \in Procs, Step(p) PROVE Kept(c)'
  BY <1>1, <1>3, <1>4, OpensTheBooks, KeepsTheBooks
<1>5. ASSUME NEW p \in Procs, Call(p) PROVE Kept(c)'
  <2>1. chats' = chats
    BY <1>1, <1>5, CallForms DEF OneWriter, VariantInv, Arriving, Arrives, tables
  <2>. QED  BY <1>1, <1>3, <1>5, <2>1, CallKeepsBooks DEF Live
<1>6. CASE UNCHANGED vars
  <2>1. UNCHANGED <<chats, messages, pc, req, loc, copy>>
    BY <1>6 DEF vars, storeVars
  <2>2. Live(c) /\ \A q \in Procs : (Writes(q, c)' <=> Writes(q, c)) /\ (Books(q, c) => Books(q, c)')
    BY <2>1 DEF Live, Writes, Builds, Books, AsRead, Balanced, Seqs, Generations, MaxSeq, chatOf
  <2>3. Balanced(c, 0, 0) => Balanced(c, 0, 0)'
    BY <2>1 DEF Balanced, Seqs, Generations, MaxSeq
  <2>. QED  BY <1>3, <2>2, <2>3 DEF Kept
<1>. QED  BY <1>2, <1>4, <1>5, <1>6 DEF Next

LEMMA InitLedger == Init => LedgerInv
<1>. SUFFICES ASSUME Init PROVE LedgerInv
  OBVIOUS
<1>1. OneWriter /\ CanonInv
  BY InitWriter DEF OneWriter, VariantInv
<1>. SUFFICES ASSUME NEW c \in ChatIds, Live(c) PROVE Kept(c)
  BY <1>1 DEF LedgerInv
<1>2. \A p \in Procs : ~Writes(p, c)
  BY DEF Init, Writes, Builds, Greeting, OpenSteps, LockedSteps
<1>3. PICK r : r = [NewChat("agent-sdk") EXCEPT !.count = 3]
  OBVIOUS
<1>4. r.count = 3 /\ r.total = 0
  BY <1>3 DEF NewChat
<1>5. NoChat.status = "absent"
  BY DEF NoChat, NewChat
<1>6. chats[c] = r /\ messages[c] = ImportedCanon
  BY <1>3, <1>5 DEF Init, Live
<1>7. DOMAIN messages[c] = 0..2 /\ \A n \in DOMAIN messages[c] : messages[c][n].gens = 0
  BY <1>6 DEF ImportedCanon, NewMessage
<1>8. Cardinality(0..2) = 3
  <2>1. 0 \in Int /\ 2 \in Int /\ ~(0 > 2) /\ 2 - 0 + 1 = 3
    OBVIOUS
  <2>. QED  BY <2>1, FS_Interval
<1>9. IsRows(messages[c]) /\ Sheet(c) = <<Cardinality(DOMAIN messages[c]), TotalOf(messages[c])>>
  BY <1>1, SheetIs
<1>10. Sheet(c) = <<3, 0>>
  BY <1>7, <1>8, <1>9, RowsUnpaid
<1>11. Balanced(c, 0, 0)
  BY <1>4, <1>6, <1>10 DEF Balanced, Sheet
<1>. QED  BY <1>2, <1>11 DEF Kept

LEMMA LedgerAlways ==
  ASSUME ~Eager
  PROVE  Spec => []LedgerInv
<1>1. LedgerInv /\ [Next]_vars => LedgerInv'
  BY NextKeepsLedger
<1>. QED  BY InitLedger, <1>1, PTL DEF Spec

\* A chat nobody is at work on is balanced.
LEMMA QuietIsBalanced ==
  ASSUME LedgerInv, used.crashes = 0, NEW c \in ChatIds, Live(c), Quiet(c)
  PROVE  Balanced(c, 0, 0)
<1>1. \A p \in Procs : ~Writes(p, c)
  BY DEF Quiet, Touches, Writes, Builds, LockedSteps, Greeting, OpenSteps, chatOf
<1>. QED  BY <1>1 DEF LedgerInv, Kept

(***************************************************************************)
(* messageCount is the number of a chat's messages whenever no operation   *)
(* is at work on it: the send counts the two rows it wrote or takes its    *)
(* one back (send.ts), the greeting and the opening count their own, a     *)
(* fork counts what it copies.  Until a restart leaves an operation half   *)
(* done, and if no client acts on a chat whose startChat or fork has not   *)
(* answered yet.                                                           *)
(***************************************************************************)
THEOREM MessageCountIsRight ==
  ASSUME ~Eager
  PROVE  Spec => [](used.crashes = 0 => CountMatches)
<1>1. LedgerInv => (used.crashes = 0 => CountMatches)
  <2>. SUFFICES ASSUME LedgerInv, used.crashes = 0, NEW c \in ChatIds, Live(c), Quiet(c)
                PROVE  chats[c].count = Cardinality(Seqs(c))
    BY DEF CountMatches
  <2>1. chats[c].count \in Nat
    BY ChatRowIs DEF LedgerInv, OneWriter, VariantInv, CanonInv, TypeOK, ChatsOK
  <2>. QED  BY <2>1, QuietIsBalanced DEF Balanced
<1>. QED  BY <1>1, LedgerAlways, PTL

(***************************************************************************)
(* The token totals of a chat cover every generation it paid for, those of *)
(* abandoned variants included (swipe.ts:222-223), whenever no operation   *)
(* is at work on it, under the same two conditions.                        *)
(***************************************************************************)
THEOREM NoGenerationIsLost ==
  ASSUME ~Eager
  PROVE  Spec => [](used.crashes = 0 => TotalsCoverGenerations)
<1>1. LedgerInv => (used.crashes = 0 => TotalsCoverGenerations)
  <2>. SUFFICES ASSUME LedgerInv, used.crashes = 0, NEW c \in ChatIds, Live(c), Quiet(c)
                PROVE  chats[c].total = Generations(c)
    BY DEF TotalsCoverGenerations
  <2>1. chats[c].total \in Nat
    BY ChatRowIs DEF LedgerInv, OneWriter, VariantInv, CanonInv, TypeOK, ChatsOK
  <2>. QED  BY <2>1, QuietIsBalanced DEF Balanced
<1>. QED  BY <1>1, LedgerAlways, PTL
=============================================================================
