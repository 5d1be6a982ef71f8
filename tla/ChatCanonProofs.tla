---------------------------- MODULE ChatCanonProofs ----------------------------
(***************************************************************************)
(* Theorems of ChatService about its lock and what its tables hold, for    *)
(* any requests, chats and bounds: one holder of a chat's lock and one     *)
(* generation, rows and transcripts of their types, seqs without gaps, and *)
(* no two replies in a row.                                                *)
(***************************************************************************)
EXTENDS ChatProperties, SequenceTheorems, TLAPS, WellFoundedInduction, FiniteSetTheorems

\* The steps of the operations that run inside withChatLock.
LockedSteps ==
  {"send.insert", "send.turn", "send.reply", "send.rollback", "send.persist", "send.update",
   "compact.turn", "compact.persist",
   "swipe.seed", "swipe.turn", "swipe.reply", "swipe.abandon", "swipe.backfill",
   "swipe.variant", "swipe.message", "swipe.drop", "swipe.update",
   "reseed.drop", "reseed.seed", "reseed.point", "edit.variant",
   "provider.session", "provider.update"}

\* The steps of a generated opening, and of the other ones outside the lock.
OpenSteps == {"open.load", "open.turn", "open.reply", "open.insert", "open.update"}
FreeSteps ==
  {"wait", "start.row", "greet.insert", "greet.seed", "greet.update", "start.send",
   "fork.load", "fork.read", "fork.row", "fork.messages", "fork.seed"} \union OpenSteps

IsRequest(r) == {"kind", "chat"} \subseteq DOMAIN r

Shapes ==
  /\ pc \in [Procs -> {"idle"} \union FreeSteps \union LockedSteps]
  /\ queue \in [ChatIds -> Seq(Procs)]
  /\ req = [p \in Procs |-> req[p]] /\ \A p \in Procs : IsRequest(req[p])
  /\ \A p \in Procs : pc[p] # "idle" => chatOf(p) \in ChatIds

\* A request that runs under the lock is the head of its chat's line.
HeadRuns == \A p \in Procs : pc[p] \in LockedSteps => Holds(p)

\* Nobody generates an opening where no client asks for one.
NoOpening ==
  \A p \in Procs :
    pc[p] \in OpenSteps \/ (pc[p] = "start.row" /\ req[p].kind = "start.opening")
    => "start.opening" \in Kinds

LineInv == Shapes /\ HeadRuns /\ NoOpening

-----------------------------------------------------------------------------
(***************************************************************************)
(* What a step can do to a line: one lemma for each of the ways.           *)
(***************************************************************************)
\* An operation under the lock goes on.
LEMMA InLine ==
  ASSUME LineInv, NEW p \in Procs, pc[p] # "idle", Holds(p), NEW there \in LockedSteps,
         pc' = [pc EXCEPT ![p] = there], UNCHANGED <<queue, req>>
  PROVE  LineInv'
<1>1. Shapes'
  BY DEF LineInv, Shapes, chatOf
<1>2. HeadRuns'
  BY DEF LineInv, Shapes, HeadRuns, Holds, chatOf
<1>3. NoOpening'
  BY DEF LineInv, Shapes, NoOpening, LockedSteps, OpenSteps
<1>. QED  BY <1>1, <1>2, <1>3 DEF LineInv

\* An operation outside the lock goes on.
LEMMA OutOfLine ==
  ASSUME LineInv, NEW p \in Procs, pc[p] # "idle", NEW there \in FreeSteps \ {"start.row"},
         there \in OpenSteps => "start.opening" \in Kinds,
         pc' = [pc EXCEPT ![p] = there], UNCHANGED <<queue, req>>
  PROVE  LineInv'
<1>1. Shapes'
  BY DEF LineInv, Shapes, chatOf
<1>2. HeadRuns'
  BY DEF LineInv, Shapes, HeadRuns, Holds, chatOf, FreeSteps, OpenSteps, LockedSteps
<1>3. NoOpening'
  BY DEF LineInv, Shapes, NoOpening, OpenSteps
<1>. QED  BY <1>1, <1>2, <1>3 DEF LineInv

\* The holder leaves its line; whoever runs in another line still heads it.
LEMMA LeavesLine ==
  ASSUME LineInv, NEW p \in Procs, pc[p] # "idle", Holds(p), Leave(p)
  PROVE  LineInv'
<1>0. chatOf(p) \in ChatIds /\ queue[chatOf(p)] \in Seq(Procs) /\ queue[chatOf(p)] # <<>>
  BY DEF LineInv, Shapes, Holds
<1>1. Shapes'
  <2>1. Tail(queue[chatOf(p)]) \in Seq(Procs)
    BY <1>0
  <2>. QED  BY <1>0, <2>1 DEF LineInv, Shapes, Leave, chatOf, NoRequest, IsRequest
<1>2. HeadRuns'
  <2>. SUFFICES ASSUME NEW q \in Procs, pc'[q] \in LockedSteps PROVE Holds(q)'
    BY DEF HeadRuns
  <2>1. q # p /\ pc'[q] = pc[q] /\ req'[q] = req[q]
    BY DEF LineInv, Shapes, Leave, LockedSteps
  <2>2. Holds(q) /\ chatOf(q) # chatOf(p) /\ chatOf(q) \in ChatIds
    BY <2>1 DEF LineInv, HeadRuns, Holds, Shapes, LockedSteps
  <2>. QED  BY <2>1, <2>2 DEF Holds, Leave, chatOf, LineInv, Shapes
<1>3. NoOpening'
  BY DEF LineInv, Shapes, NoOpening, Leave, OpenSteps
<1>. QED  BY <1>1, <1>2, <1>3 DEF LineInv

\* An operation outside the lock returns, and no line changes.
LEMMA Returns ==
  ASSUME LineInv, NEW p \in Procs, Return(p)
  PROVE  LineInv'
<1>1. Shapes'
  BY DEF LineInv, Shapes, Return, chatOf, NoRequest, IsRequest
<1>2. HeadRuns'
  BY DEF LineInv, Shapes, HeadRuns, Holds, chatOf, LockedSteps, Return
<1>3. NoOpening'
  BY DEF LineInv, Shapes, NoOpening, Return, OpenSteps
<1>. QED  BY <1>1, <1>2, <1>3 DEF LineInv

\* A request that joins a line changes nobody's head, and does not run yet.
LEMMA Joins ==
  ASSUME LineInv, NEW p \in Procs, NEW c \in ChatIds, NEW r, IsRequest(r), r.chat = c,
         pc[p] \notin LockedSteps,
         pc' = [pc EXCEPT ![p] = "wait"],
         req' = [req EXCEPT ![p] = r],
         queue' = [queue EXCEPT ![c] = Append(@, p)]
  PROVE  LineInv'
<1>0. queue[c] \in Seq(Procs) /\ Append(queue[c], p) \in Seq(Procs)
  BY AppendProperties DEF LineInv, Shapes
<1>1. Shapes'
  <2>1. pc' \in [Procs -> {"idle"} \union FreeSteps \union LockedSteps]
    BY DEF LineInv, Shapes, FreeSteps
  <2>2. queue' \in [ChatIds -> Seq(Procs)]
    BY <1>0 DEF LineInv, Shapes
  <2>3. req' = [q \in Procs |-> req'[q]] /\ \A q \in Procs : IsRequest(req'[q])
    BY DEF LineInv, Shapes
  <2>4. \A q \in Procs : pc'[q] # "idle" => chatOf(q)' \in ChatIds
    BY DEF LineInv, Shapes, chatOf
  <2>. QED  BY <2>1, <2>2, <2>3, <2>4 DEF Shapes, IsRequest
<1>2. HeadRuns'
  <2>. SUFFICES ASSUME NEW q \in Procs, pc'[q] \in LockedSteps PROVE Holds(q)'
    BY DEF HeadRuns
  <2>1. q # p /\ pc'[q] = pc[q] /\ req'[q] = req[q]
    BY DEF LineInv, Shapes, LockedSteps
  <2>2. Holds(q) /\ chatOf(q) \in ChatIds
    BY <2>1 DEF LineInv, HeadRuns, Shapes, LockedSteps
  <2>3. queue[c] # <<>> => Append(queue[c], p) # <<>> /\ Head(Append(queue[c], p)) = Head(queue[c])
    BY <1>0
  <2>. QED  BY <2>1, <2>2, <2>3 DEF Holds, chatOf, LineInv, Shapes
<1>3. NoOpening'
  BY DEF LineInv, Shapes, NoOpening, OpenSteps
<1>. QED  BY <1>1, <1>2, <1>3 DEF LineInv

\* A request that starts outside the lock.
LEMMA StartsFree ==
  ASSUME LineInv, NEW p \in Procs, NEW r, IsRequest(r), r.chat \in ChatIds,
         NEW there \in FreeSteps,
         there \in OpenSteps \/ (there = "start.row" /\ r.kind = "start.opening")
           => "start.opening" \in Kinds,
         pc' = [pc EXCEPT ![p] = there],
         req' = [req EXCEPT ![p] = r],
         UNCHANGED queue
  PROVE  LineInv'
<1>1. Shapes'
  <2>1. pc' \in [Procs -> {"idle"} \union FreeSteps \union LockedSteps]
    BY DEF LineInv, Shapes
  <2>2. req' = [q \in Procs |-> req'[q]] /\ \A q \in Procs : IsRequest(req'[q])
    BY DEF LineInv, Shapes
  <2>3. \A q \in Procs : pc'[q] # "idle" => chatOf(q)' \in ChatIds
    BY DEF LineInv, Shapes, chatOf
  <2>. QED  BY <2>1, <2>2, <2>3 DEF LineInv, Shapes, IsRequest
<1>2. HeadRuns'
  BY DEF LineInv, Shapes, HeadRuns, Holds, chatOf, FreeSteps, OpenSteps, LockedSteps
<1>3. NoOpening'
  BY DEF LineInv, Shapes, NoOpening, OpenSteps
<1>. QED  BY <1>1, <1>2, <1>3 DEF LineInv

\* What HeadRuns says of one request.
LEMMA Locked ==
  ASSUME LineInv, NEW p \in Procs, pc[p] \in LockedSteps
  PROVE  Holds(p) /\ pc[p] # "idle"
BY DEF LineInv, HeadRuns, LockedSteps

-----------------------------------------------------------------------------
(***************************************************************************)
(* The operations, one lemma for each file of the domain.                  *)
(***************************************************************************)
\* send.ts: every step holds the lock it was granted, until it leaves.
LEMMA SendKeepsLine ==
  ASSUME LineInv, NEW p \in Procs, SendStep(p)
  PROVE  LineInv'
<1>. USE DEF LockedSteps, At, storeVars, tables, ids
<1>1. CASE BeginSend(p)
  BY <1>1, InLine DEF BeginSend, Granted
<1>2. CASE SendInsert(p)
  BY <1>2, Locked, InLine DEF SendInsert
<1>3. CASE SendStart(p)
  BY <1>3, Locked, InLine DEF SendStart, StartTurn
<1>4. CASE SendReply(p)
  BY <1>4, Locked, InLine DEF SendReply, EndTurn
<1>5. CASE SendFails(p)
  BY <1>5, Locked, InLine DEF SendFails, FailTurn
<1>6. CASE SendRollback(p)
  BY <1>6, Locked, LeavesLine DEF SendRollback
<1>7. CASE SendPersist(p)
  BY <1>7, Locked, InLine DEF SendPersist
<1>8. CASE SendUpdate(p)
  BY <1>8, Locked, InLine, LeavesLine DEF SendUpdate
<1>9. CASE SendThrows(p)
  BY <1>9, Locked, LeavesLine DEF SendThrows
<1>. QED  BY <1>1, <1>2, <1>3, <1>4, <1>5, <1>6, <1>7, <1>8, <1>9 DEF SendStep

\* compaction.ts.
LEMMA CompactionKeepsLine ==
  ASSUME LineInv, NEW p \in Procs, BeginCompact(p) \/ CompactNothing(p) \/ CompactStep(p)
  PROVE  LineInv'
<1>. USE DEF LockedSteps, At, storeVars, tables, ids
<1>1. CASE BeginCompact(p)
  BY <1>1, InLine DEF BeginCompact, Granted
<1>2. CASE CompactNothing(p)
  BY <1>2, LeavesLine DEF CompactNothing, Granted
<1>3. CASE CompactTurn(p)
  BY <1>3, Locked, InLine DEF CompactTurn
<1>4. CASE CompactFails(p)
  BY <1>4, Locked, LeavesLine DEF CompactFails
<1>5. CASE CompactPersist(p)
  BY <1>5, Locked, LeavesLine DEF CompactPersist
<1>. QED  BY <1>1, <1>2, <1>3, <1>4, <1>5 DEF CompactStep

\* What follows an edit or another variant: a re-seeding, or the return.
LEMMA ReseedKeepsLine ==
  ASSUME LineInv, NEW p \in Procs, pc[p] # "idle", Holds(p),
         NEW row, ReseedOrLeave(p, row)
  PROVE  LineInv'
<1>1. CASE row.api = "agent-sdk"
  BY <1>1, InLine DEF ReseedOrLeave, LockedSteps
<1>2. CASE row.api # "agent-sdk"
  BY <1>2, LeavesLine DEF ReseedOrLeave
<1>. QED  BY <1>1, <1>2

\* swipe.ts and context/session.ts.
LEMMA SwipeKeepsLine ==
  ASSUME LineInv, NEW p \in Procs, SwipeStep(p) \/ SelectVariant(p) \/ ReseedStep(p)
  PROVE  LineInv'
<1>. USE DEF LockedSteps, At, storeVars, tables, ids
<1>1. CASE BeginSwipe(p)
  BY <1>1, InLine DEF BeginSwipe, Granted
<1>2. CASE SwipeSeed(p)
  BY <1>2, Locked, InLine DEF SwipeSeed
<1>3. CASE SwipeStart(p)
  BY <1>3, Locked, InLine DEF SwipeStart, StartTurn
<1>4. CASE SwipeReply(p)
  BY <1>4, Locked, InLine DEF SwipeReply, EndTurn
<1>5. CASE SwipeFails(p)
  BY <1>5, Locked, InLine DEF SwipeFails, FailTurn
<1>6. CASE SwipeAbandon(p)
  BY <1>6, Locked, LeavesLine DEF SwipeAbandon
<1>7. CASE SwipeBackfill(p) \/ SwipeVariant(p) \/ SwipeMessage(p) \/ SwipeDrop(p)
  BY <1>7, Locked, InLine DEF SwipeBackfill, SwipeVariant, SwipeMessage, SwipeDrop
<1>8. CASE SwipeUpdate(p)
  BY <1>8, Locked, LeavesLine DEF SwipeUpdate
<1>9. CASE SelectVariant(p)
  BY <1>9, ReseedKeepsLine DEF SelectVariant, Granted
<1>10. CASE ReseedDrop(p)
  BY <1>10, Locked, InLine DEF ReseedDrop
<1>11. CASE ReseedSeed(p)
  BY <1>11, Locked, InLine DEF ReseedSeed, SeedFromCanon
<1>12. CASE ReseedPoint(p)
  BY <1>12, Locked, LeavesLine DEF ReseedPoint
<1>. QED  BY <1>1, <1>2, <1>3, <1>4, <1>5, <1>6, <1>7, <1>8, <1>9, <1>10, <1>11, <1>12
          DEF SwipeStep, ReseedStep

\* lifecycle.ts outside the lock: startChat, with or without an opening.
LEMMA StartKeepsLine ==
  ASSUME LineInv, NEW p \in Procs, StartStep(p)
  PROVE  LineInv'
<1>. USE DEF FreeSteps, OpenSteps, At, storeVars, tables, ids
<1>0. pc[p] \in OpenSteps => "start.opening" \in Kinds
  BY DEF LineInv, NoOpening
<1>1. CASE StartRow(p)
  <2>1. CASE pc' = [pc EXCEPT ![p] = "open.load"] /\ req[p].kind = "start.opening"
             /\ UNCHANGED <<queue, req>>
    <3>1. "start.opening" \in Kinds
      BY <1>1, <2>1 DEF StartRow, LineInv, NoOpening
    <3>. QED  BY <1>1, <2>1, <3>1, OutOfLine DEF StartRow
  <2>2. CASE Return(p)
    BY <2>2, Returns
  <2>3. CASE pc' = [pc EXCEPT ![p] = "greet.insert"] /\ UNCHANGED <<queue, req>>
    BY <1>1, <2>3, OutOfLine DEF StartRow
  <2>4. CASE pc' = [pc EXCEPT ![p] = "start.send"] /\ UNCHANGED <<queue, req>>
    BY <1>1, <2>4, OutOfLine DEF StartRow
  <2>. QED  BY <1>1, <2>1, <2>2, <2>3, <2>4 DEF StartRow
<1>2. CASE GreetInsert(p)
  <2>1. CASE Return(p)
    BY <2>1, Returns
  <2>2. CASE /\ UNCHANGED <<queue, req>>
             /\ \E there \in {"greet.seed", "greet.update"} : pc' = [pc EXCEPT ![p] = there]
    BY <1>2, <2>2, OutOfLine DEF GreetInsert
  <2>. QED  BY <1>2, <2>1, <2>2 DEF GreetInsert
<1>3. CASE GreetSeed(p)
  BY <1>3, OutOfLine DEF GreetSeed
<1>4. CASE GreetThrows(p)
  BY <1>4, Returns DEF GreetThrows
<1>5. CASE GreetUpdate(p)
  BY <1>5, OutOfLine DEF GreetUpdate
<1>6. CASE StartSend(p)
  <2>. DEFINE r == [req[p] EXCEPT !.kind = "send", !.seen = Shown(chatOf(p)),
                       !.expected = IF req[p].kind = "start.greeting" THEN 1 ELSE 0]
  <2>1. IsRequest(r) /\ r.chat = chatOf(p)
    BY DEF IsRequest, LineInv, Shapes, chatOf
  <2>2. req' = [req EXCEPT ![p] = r]
    BY <1>6 DEF StartSend, LineInv, Shapes
  <2>3. chatOf(p) \in ChatIds /\ pc[p] \notin LockedSteps
    BY <1>6 DEF StartSend, LineInv, Shapes, LockedSteps
  <2>4. pc' = [pc EXCEPT ![p] = "wait"] /\ queue' = [queue EXCEPT ![chatOf(p)] = Append(@, p)]
    BY <1>6 DEF StartSend
  <2>. HIDE DEF r
  <2>. QED  BY <2>1, <2>2, <2>3, <2>4, Joins
<1>7. CASE OpenLoad(p)
  BY <1>0, <1>7, OutOfLine, Returns DEF OpenLoad
<1>8. CASE OpenStart(p)
  BY <1>0, <1>8, OutOfLine DEF OpenStart, StartTurn
<1>9. CASE OpenReply(p)
  BY <1>0, <1>9, OutOfLine DEF OpenReply, EndTurn
<1>10. CASE OpenFails(p)
  BY <1>10, Returns DEF OpenFails
<1>11. CASE OpenInsert(p)
  BY <1>0, <1>11, OutOfLine, Returns DEF OpenInsert
<1>12. CASE OpenUpdate(p)
  BY <1>12, Returns DEF OpenUpdate
<1>. QED  BY <1>1, <1>2, <1>3, <1>4, <1>5, <1>6, <1>7, <1>8, <1>9, <1>10, <1>11, <1>12
          DEF StartStep

\* lifecycle.ts behind the lock: the edit, the deletion, the one-field updates.
LEMMA EditKeepsLine ==
  ASSUME LineInv, NEW p \in Procs, EditStep(p)
  PROVE  LineInv'
<1>1. CASE EditMessage(p)
  <2>1. pc[p] # "idle" /\ Holds(p)
    BY <1>1 DEF EditMessage, Granted
  <2>2. CASE ReseedOrLeave(p, chats[chatOf(p)])
    BY <2>1, <2>2, ReseedKeepsLine
  <2>3. CASE pc' = [pc EXCEPT ![p] = "edit.variant"] /\ UNCHANGED <<queue, req>>
    BY <2>1, <2>3, InLine DEF LockedSteps
  <2>. QED  BY <1>1, <2>2, <2>3 DEF EditMessage
<1>2. CASE EditVariant(p)
  BY <1>2, Locked, ReseedKeepsLine DEF EditVariant, LockedSteps
<1>3. CASE DeleteChat(p)
  BY <1>3, LeavesLine DEF DeleteChat, Granted
<1>4. CASE PatchChat(p)
  BY <1>4, LeavesLine DEF PatchChat, Granted
<1>. QED  BY <1>1, <1>2, <1>3, <1>4 DEF EditStep

\* branch.ts: the fork outside the lock, the provider switch under it.
LEMMA BranchKeepsLine ==
  ASSUME LineInv, NEW p \in Procs, BranchStep(p)
  PROVE  LineInv'
<1>. USE DEF At, storeVars, tables, ids
<1>1. CASE ForkLoad(p)
  BY <1>1, OutOfLine, Returns DEF ForkLoad, FreeSteps, OpenSteps
<1>2. CASE ForkRead(p)
  BY <1>2, OutOfLine, Returns DEF ForkRead, FreeSteps, OpenSteps
<1>3. CASE ForkRow(p)
  BY <1>3, OutOfLine DEF ForkRow, FreeSteps, OpenSteps
<1>4. CASE ForkMessages(p)
  BY <1>4, OutOfLine, Returns DEF ForkMessages, FreeSteps, OpenSteps
<1>5. CASE ForkSeed(p)
  BY <1>5, Returns DEF ForkSeed
<1>6. CASE BeginProvider(p)
  BY <1>6, InLine DEF BeginProvider, Granted, LockedSteps
<1>7. CASE ProviderSession(p)
  BY <1>7, Locked, InLine DEF ProviderSession, SeedFromCanon, LockedSteps
<1>8. CASE ProviderUpdate(p)
  BY <1>8, Locked, LeavesLine DEF ProviderUpdate, LockedSteps
<1>. QED  BY <1>1, <1>2, <1>3, <1>4, <1>5, <1>6, <1>7, <1>8 DEF BranchStep

\* The early returns and the refused credential leave the line they held.
LEMMA RefusalKeepsLine ==
  ASSUME LineInv, NEW p \in Procs, Refuse(p) \/ Deny(p)
  PROVE  LineInv'
BY LeavesLine DEF Refuse, Deny

-----------------------------------------------------------------------------
(***************************************************************************)
(* The requests, the restarts, and every step.                             *)
(***************************************************************************)
\* A request whose operation enters withChatLock at once.
LEMMA ArrivalKeepsLine ==
  ASSUME LineInv, NEW p \in Procs, NEW c \in ChatIds, NEW r, IsRequest(r), r.chat = c,
         ArrivesAtLock(p, c, r)
  PROVE  LineInv'
<1>1. pc[p] \notin LockedSteps
  BY DEF ArrivesAtLock, Arrives, LockedSteps
<1>. QED  BY <1>1, Joins DEF ArrivesAtLock, Arrives

\* Any request of a client: it joins a line, or starts outside every line.
LEMMA CallKeepsLine ==
  ASSUME LineInv, NEW p \in Procs, Call(p)
  PROVE  LineInv'
<1>. PICK kind \in Kinds, c \in ChatIds :
       \/ kind \in {"send", "swipe"} /\ CallTurn(p, c, kind)
       \/ kind = "edit" /\ CallEdit(p, c)
       \/ kind = "select" /\ CallSelect(p, c)
       \/ kind = "provider" /\ CallProvider(p, c)
       \/ kind \in {"compact", "delete", "patch"} /\ CallSimple(p, c, kind)
       \/ kind \in StartKinds /\ CallStart(p, c, kind)
       \/ kind = "fork" /\ CallFork(p, c)
  BY KindsAssumption DEF Call, LockKinds, StartKinds
<1>1. CASE CallTurn(p, c, kind)
  <2>. DEFINE r == [NoRequest EXCEPT !.kind = kind, !.chat = c,
                                     !.expected = MaxSeq(c), !.seen = Shown(c)]
  <2>1. IsRequest(r) /\ r.chat = c
    BY DEF NoRequest, IsRequest
  <2>2. ArrivesAtLock(p, c, r)
    BY <1>1 DEF CallTurn
  <2>. HIDE DEF r
  <2>. QED  BY <2>1, <2>2, ArrivalKeepsLine
<1>2. CASE CallEdit(p, c)
  <2>. PICK s \in Seqs(c) :
         ArrivesAtLock(p, c, [NoRequest EXCEPT !.kind = "edit", !.chat = c,
                                               !.msg = messages[c][s].id])
    BY <1>2 DEF CallEdit
  <2>. DEFINE r == [NoRequest EXCEPT !.kind = "edit", !.chat = c, !.msg = messages[c][s].id]
  <2>1. IsRequest(r) /\ r.chat = c
    BY DEF NoRequest, IsRequest
  <2>2. ArrivesAtLock(p, c, r)
    OBVIOUS
  <2>. HIDE DEF r
  <2>. QED  BY <2>1, <2>2, ArrivalKeepsLine
<1>3. CASE CallSelect(p, c)
  <2>. PICK s \in Seqs(c) : \E k \in DOMAIN messages[c][s].variants :
         ArrivesAtLock(p, c, [NoRequest EXCEPT !.kind = "select", !.chat = c,
                                               !.msg = messages[c][s].id, !.variant = k])
    BY <1>3, Zenon DEF CallSelect
  <2>. PICK k \in DOMAIN messages[c][s].variants :
         ArrivesAtLock(p, c, [NoRequest EXCEPT !.kind = "select", !.chat = c,
                                               !.msg = messages[c][s].id, !.variant = k])
    OBVIOUS
  <2>. DEFINE r == [NoRequest EXCEPT !.kind = "select", !.chat = c,
                                     !.msg = messages[c][s].id, !.variant = k]
  <2>1. IsRequest(r) /\ r.chat = c
    BY DEF NoRequest, IsRequest
  <2>2. ArrivesAtLock(p, c, r)
    OBVIOUS
  <2>. HIDE DEF r
  <2>. QED  BY <2>1, <2>2, ArrivalKeepsLine
<1>4. CASE CallProvider(p, c)
  <2>. PICK api \in Apis :
         ArrivesAtLock(p, c, [NoRequest EXCEPT !.kind = "provider", !.chat = c, !.api = api])
    BY <1>4 DEF CallProvider
  <2>. DEFINE r == [NoRequest EXCEPT !.kind = "provider", !.chat = c, !.api = api]
  <2>1. IsRequest(r) /\ r.chat = c
    BY DEF NoRequest, IsRequest
  <2>2. ArrivesAtLock(p, c, r)
    OBVIOUS
  <2>. HIDE DEF r
  <2>. QED  BY <2>1, <2>2, ArrivalKeepsLine
<1>5. CASE CallSimple(p, c, kind)
  <2>. DEFINE r == [NoRequest EXCEPT !.kind = kind, !.chat = c]
  <2>1. IsRequest(r) /\ r.chat = c
    BY DEF NoRequest, IsRequest
  <2>2. ArrivesAtLock(p, c, r)
    BY <1>5 DEF CallSimple
  <2>. HIDE DEF r
  <2>. QED  BY <2>1, <2>2, ArrivalKeepsLine
<1>6. CASE CallStart(p, c, kind)
  <2>. PICK api \in Apis :
         Arrives(p, [NoRequest EXCEPT !.kind = kind, !.chat = c, !.api = api], "start.row")
    BY <1>6 DEF CallStart
  <2>. DEFINE r == [NoRequest EXCEPT !.kind = kind, !.chat = c, !.api = api]
  <2>1. IsRequest(r) /\ r.chat \in ChatIds /\ r.kind \in Kinds
    BY DEF NoRequest, IsRequest
  <2>2. Arrives(p, r, "start.row") /\ UNCHANGED queue
    BY <1>6 DEF CallStart
  <2>3. "start.row" \in FreeSteps \ OpenSteps
    BY DEF FreeSteps, OpenSteps
  <2>. HIDE DEF r
  <2>. QED  BY ZenonT(60), <2>1, <2>2, <2>3, StartsFree DEF Arrives
<1>7. CASE CallFork(p, c)
  <2>. PICK d \in ChatIds, s \in Seqs(c), api \in Apis :
         /\ Arrives(p, [NoRequest EXCEPT !.kind = "fork", !.chat = c, !.target = d,
                                         !.seq = s, !.api = api], "fork.load")
         /\ UNCHANGED queue
    BY <1>7, Zenon DEF CallFork
  <2>. DEFINE r == [NoRequest EXCEPT !.kind = "fork", !.chat = c, !.target = d,
                                     !.seq = s, !.api = api]
  <2>1. IsRequest(r) /\ r.chat \in ChatIds
    BY DEF NoRequest, IsRequest
  <2>2. Arrives(p, r, "fork.load") /\ UNCHANGED queue
    OBVIOUS
  <2>. HIDE DEF r
  <2>. QED  BY <2>1, <2>2, StartsFree DEF Arrives, FreeSteps, OpenSteps
<1>. QED  BY <1>1, <1>2, <1>3, <1>4, <1>5, <1>6, <1>7

\* At the start nobody is in a line.
LEMMA InitLine == Init => LineInv
BY DEF Init, LineInv, Shapes, HeadRuns, NoOpening, NoRequest, IsRequest, LockedSteps, OpenSteps

\* A restart empties the lines and the request slots together.
LEMMA RestartKeepsLine ==
  ASSUME LineInv, Restart
  PROVE  LineInv'
BY DEF Restart, LineInv, Shapes, HeadRuns, NoOpening, NoRequest, IsRequest, LockedSteps, OpenSteps

\* LineInv is inductive.
LEMMA NextKeepsLine ==
  ASSUME LineInv, [Next]_vars
  PROVE  LineInv'
<1>1. CASE Restart
  BY <1>1, RestartKeepsLine
<1>2. CASE UNCHANGED vars
  BY <1>2 DEF vars, storeVars, LineInv, Shapes, HeadRuns, Holds, NoOpening, chatOf, IsRequest
<1>3. ASSUME NEW p \in Procs, Call(p) PROVE LineInv'
  BY <1>3, CallKeepsLine
<1>4. ASSUME NEW p \in Procs, Step(p) PROVE LineInv'
  BY <1>4, SendKeepsLine, CompactionKeepsLine, SwipeKeepsLine, StartKeepsLine,
     EditKeepsLine, BranchKeepsLine, RefusalKeepsLine DEF Step
<1>. QED  BY <1>1, <1>2, <1>3, <1>4 DEF Next

\* LineInv holds in every state.
LEMMA LineAlways == Spec => []LineInv
<1>1. LineInv /\ [Next]_vars => LineInv'
  BY NextKeepsLine
<1>. QED  BY InitLine, <1>1, PTL DEF Spec

(***************************************************************************)
(* The lock as the operations use it: whatever else happens to a chat      *)
(* (openings, forks, restarts), at most one send, swipe, edit, variant     *)
(* choice, compaction or provider switch is past its wait.                 *)
(***************************************************************************)
OneLockHolder ==
  \A p, q \in Procs :
    pc[p] \in LockedSteps /\ pc[q] \in LockedSteps /\ chatOf(p) = chatOf(q) => p = q

(***************************************************************************)
(* OneLockHolder holds for any requests, chats and bounds: a line has one  *)
(* head, and only the head of its chat's line runs.                        *)
(***************************************************************************)
THEOREM LockIsHeldOnce == Spec => []OneLockHolder
<1>1. LineInv => OneLockHolder
  BY Locked DEF OneLockHolder, Holds
<1>. QED  BY <1>1, LineAlways, PTL

(***************************************************************************)
(* "only one generation may be in flight per chat" (lock.ts:1), for any    *)
(* number of clients and chats, with any failures, forks, provider         *)
(* switches, deletions and restarts, as long as no chat is started with a  *)
(* generated opening: the one generation lifecycle.ts runs without the     *)
(* lock.                                                                   *)
(***************************************************************************)
THEOREM OneGenerationPerChat ==
  ASSUME "start.opening" \notin Kinds
  PROVE  Spec => []OneGenerationInFlight
<1>1. LineInv => OneGenerationInFlight
  <2>. SUFFICES ASSUME LineInv, NEW p \in Procs, NEW q \in Procs,
                       Generating(p), Generating(q), req[p].chat = req[q].chat
                PROVE  p = q
    BY DEF OneGenerationInFlight
  <2>1. pc[p] \in LockedSteps /\ pc[q] \in LockedSteps
    BY DEF Generating, LineInv, NoOpening, OpenSteps, LockedSteps
  <2>. QED  BY <2>1, Locked DEF Holds, chatOf
<1>. QED  BY <1>1, LineAlways, PTL

-----------------------------------------------------------------------------
(***************************************************************************)
(* Induction.  The library's induction theorems cannot be instantiated by  *)
(* the provers; a set of counterexamples and its least element can.        *)
(***************************************************************************)
\* A set of naturals that is not empty has a least element.
LEMMA LeastNatural ==
  ASSUME NEW S \in SUBSET Nat, S # {}
  PROVE  \E n \in S : \A m \in S : n <= m
<1>. DEFINE R == {ss \in Nat \X Nat : ss[1] < ss[2]}
<1>1. IsWellFoundedOn(R, Nat)
  BY NatLessThanWellFounded DEF OpToRel
<1>2. \A x, y \in Nat : x < y => <<x, y>> \in R
  OBVIOUS
<1>. HIDE DEF R
<1>3. PICK n \in S : \A m \in S : ~ (<<m, n>> \in R)
  <2>1. S \subseteq Nat
    OBVIOUS
  <2>. QED  BY <1>1, <2>1, WFMin, Zenon
<1>4. \A m \in S : n <= m
  <2>. TAKE m \in S
  <2>1. m \in Nat /\ n \in Nat /\ ~(m < n)
    BY <1>2, <1>3
  <2>. QED  BY <2>1
<1>. QED  BY <1>4

\* A set of naturals that is not empty and has a bound has a greatest element.
LEMMA GreatestNatural ==
  ASSUME NEW n \in Nat, NEW S \in SUBSET (0..n), S # {}
  PROVE  TopOf(S) \in S /\ \A m \in S : m <= TopOf(S)
<1>. DEFINE D == {n - m : m \in S}
<1>0. \A m \in S : m \in 0..n /\ n - m \in Nat
  OBVIOUS
<1>1. D \in SUBSET Nat /\ D # {}
  BY <1>0, Zenon
<1>2. PICK d \in D : \A e \in D : d <= e
  BY <1>1, LeastNatural
<1>3. PICK t \in S : d = n - t
  OBVIOUS
<1>4. \A m \in S : m <= t
  <2>. TAKE m \in S
  <2>1. d <= n - m
    BY <1>2
  <2>. QED  BY <1>3, <2>1
<1>. QED  BY <1>4 DEF TopOf

-----------------------------------------------------------------------------
(***************************************************************************)
(* The recursive functions behind History and Said have values, and these  *)
(* are of their types.                                                     *)
(***************************************************************************)
\* The recursion of FlattenSeq as an equation.
IsFlat(g, ss, n) == g = [i \in 1..n |-> IF i = 1 THEN ss[i] ELSE g[i - 1] \o ss[i]]

\* A function that satisfies the equation exists, for every length.
LEMMA FlatExists ==
  ASSUME NEW T, NEW ss \in Seq(Seq(T))
  PROVE  \A n \in 1..Len(ss) : \E g \in [1..n -> Seq(T)] : IsFlat(g, ss, n)
<1>. DEFINE P(n) == \E g \in [1..n -> Seq(T)] : IsFlat(g, ss, n)
            Bad == {n \in 1..Len(ss) : ~P(n)}
<1>0. Len(ss) \in Nat /\ \A i \in 1..Len(ss) : ss[i] \in Seq(T)
  OBVIOUS
<1>1. 1 \in 1..Len(ss) => P(1)
  <2>. SUFFICES ASSUME 1 \in 1..Len(ss) PROVE P(1)
    OBVIOUS
  <2>. DEFINE g == [i \in 1..1 |-> ss[i]]
  <2>1. g \in [1..1 -> Seq(T)]
    BY <1>0
  <2>2. IsFlat(g, ss, 1)
    BY DEF IsFlat
  <2>. QED  BY <2>1, <2>2
<1>2. ASSUME NEW n \in 2..Len(ss), P(n - 1) PROVE P(n)
  <2>1. PICK g \in [1..n - 1 -> Seq(T)] : IsFlat(g, ss, n - 1)
    BY <1>2
  <2>. DEFINE top == g[n - 1] \o ss[n]
              h == [i \in 1..n |-> IF i = n THEN top ELSE g[i]]
  <2>2. top \in Seq(T)
    <3>1. ss[n] \in Seq(T) /\ g[n - 1] \in Seq(T)
      BY <1>0, <2>1
    <3>. QED  BY <3>1, ConcatProperties
  <2>3. h \in [1..n -> Seq(T)]
    <3>. HIDE DEF top
    <3>. QED  BY <2>2
  <2>4. n # 1 /\ h[n] = g[n - 1] \o ss[n] /\ h[n - 1] = g[n - 1]
    <3>1. n \in 1..n /\ n - 1 \in 1..n /\ n # n - 1 /\ n # 1
      OBVIOUS
    <3>. QED  BY <3>1, Zenon
  <2>5. \A i \in 1..n - 1 : h[i] = g[i]
    <3>. HIDE DEF top
    <3>1. \A i \in 1..n - 1 : i \in 1..n /\ i # n
      OBVIOUS
    <3>. QED  BY <3>1, Zenon
  <2>6. ASSUME NEW i \in 1..n PROVE h[i] = IF i = 1 THEN ss[i] ELSE h[i - 1] \o ss[i]
    <3>. HIDE DEF h
    <3>1. CASE i = n
      BY <3>1, <2>4
    <3>2. CASE i # n
      <4>1. i \in 1..n - 1 /\ (i # 1 => i - 1 \in 1..n - 1)
        BY <3>2
      <4>2. g[i] = IF i = 1 THEN ss[i] ELSE g[i - 1] \o ss[i]
        BY <2>1, <4>1 DEF IsFlat
      <4>. QED  BY <4>1, <4>2, <2>5
    <3>. QED  BY <3>1, <3>2
  <2>. HIDE DEF h
  <2>7. IsFlat(h, ss, n)
    BY <2>3, <2>6 DEF IsFlat
  <2>. QED  BY <2>3, <2>7
<1>. HIDE DEF P
<1>3. Bad = {}
  <2>. SUFFICES ASSUME Bad # {} PROVE FALSE
    OBVIOUS
  <2>1. Bad \in SUBSET Nat
    OBVIOUS
  <2>2. PICK n \in Bad : \A m \in Bad : n <= m
    BY <2>1, LeastNatural
  <2>3. n \in 2..Len(ss) /\ n - 1 \notin Bad
    BY <1>1, <2>2
  <2>. QED  BY <2>2, <2>3, <1>2
<1>. QED  BY <1>3 DEF P

\* The recursion has one value: on sequences that begin alike, the same one.
LEMMA FlatUnique ==
  ASSUME NEW ss, NEW tt, NEW n \in Nat, NEW m \in Nat, n <= m, \A i \in 1..n : ss[i] = tt[i],
         NEW g, NEW h, IsFlat(g, ss, n), IsFlat(h, tt, m)
  PROVE  \A i \in 1..n : g[i] = h[i]
<1>. DEFINE Bad == {i \in 1..n : g[i] # h[i]}
<1>1. Bad = {}
  <2>. SUFFICES ASSUME Bad # {} PROVE FALSE
    OBVIOUS
  <2>1. Bad \in SUBSET Nat
    OBVIOUS
  <2>2. PICK i \in Bad : \A j \in Bad : i <= j
    BY <2>1, LeastNatural
  <2>3. i \in 1..n /\ i \in 1..m /\ g[i] # h[i] /\ (i # 1 => i - 1 \in 1..n /\ i - 1 \notin Bad)
    BY <2>2
  <2>4. i # 1 => g[i - 1] = h[i - 1]
    BY <2>3
  <2>5. g[i] = IF i = 1 THEN ss[i] ELSE g[i - 1] \o ss[i]
    BY <2>3 DEF IsFlat
  <2>6. h[i] = IF i = 1 THEN tt[i] ELSE h[i - 1] \o tt[i]
    BY <2>3 DEF IsFlat
  <2>. QED  BY <2>3, <2>4, <2>5, <2>6
<1>. QED  BY <1>1

\* Sequences of T one behind the other are a sequence of T.
LEMMA FlatType ==
  ASSUME NEW T, NEW ss \in Seq(Seq(T))
  PROVE  Lists!FlattenSeq(ss) \in Seq(T)
<1>1. CASE ss = <<>>
  BY <1>1 DEF Lists!FlattenSeq
<1>2. CASE ss # <<>>
  <2>. DEFINE f[i \in 1..Len(ss)] == IF i = 1 THEN ss[i] ELSE f[i - 1] \o ss[i]
  <2>1. Len(ss) \in Nat /\ Len(ss) # 0 /\ Len(ss) \in 1..Len(ss)
    BY <1>2
  <2>2. PICK g \in [1..Len(ss) -> Seq(T)] : IsFlat(g, ss, Len(ss))
    BY <2>1, FlatExists
  <2>3. f = CHOOSE h : IsFlat(h, ss, Len(ss))
    BY DEF IsFlat
  <2>4. IsFlat(f, ss, Len(ss))
    BY <2>2, <2>3
  <2>5. Lists!FlattenSeq(ss) = f[Len(ss)]
    BY <2>1 DEF Lists!FlattenSeq
  <2>. HIDE DEF f
  <2>6. f[Len(ss)] = g[Len(ss)]
    BY <2>1, <2>2, <2>4, FlatUnique
  <2>. QED  BY <2>1, <2>2, <2>5, <2>6
<1>. QED  BY <1>1, <1>2

\* The recursion of Said as an equation.
IsTold(g, frames, n) ==
  g = [i \in 0..n |->
        IF i = 0 THEN <<>>
        ELSE IF frames[i].kind = "summary" THEN frames[i].says
        ELSE g[i - 1] \o frames[i].says]

\* A function that satisfies the equation exists, for every length.
LEMMA ToldExists ==
  ASSUME NEW frames \in Seq(Frame)
  PROVE  \A n \in 0..Len(frames) : \E g \in [0..n -> Seq(Nat)] : IsTold(g, frames, n)
<1>. DEFINE P(n) == \E g \in [0..n -> Seq(Nat)] : IsTold(g, frames, n)
            Bad == {n \in 0..Len(frames) : ~P(n)}
<1>0. Len(frames) \in Nat /\ \A i \in 1..Len(frames) : frames[i].says \in Seq(Nat)
  <2>1. Len(frames) \in Nat /\ \A i \in 1..Len(frames) : frames[i] \in Frame
    OBVIOUS
  <2>2. \A f \in Frame : f.says \in Seq(Nat)
    BY DEF Frame
  <2>. QED  BY <2>1, <2>2
<1>1. P(0)
  <2>. DEFINE g == [i \in 0..0 |-> <<>>]
  <2>1. g \in [0..0 -> Seq(Nat)]
    OBVIOUS
  <2>2. IsTold(g, frames, 0)
    BY DEF IsTold
  <2>. QED  BY <2>1, <2>2
<1>2. ASSUME NEW n \in 1..Len(frames), P(n - 1) PROVE P(n)
  <2>1. PICK g \in [0..n - 1 -> Seq(Nat)] : IsTold(g, frames, n - 1)
    BY <1>2
  <2>. DEFINE top == IF frames[n].kind = "summary" THEN frames[n].says
                     ELSE g[n - 1] \o frames[n].says
              h == [i \in 0..n |-> IF i = n THEN top ELSE g[i]]
  <2>2. top \in Seq(Nat)
    <3>1. frames[n].says \in Seq(Nat) /\ g[n - 1] \in Seq(Nat)
      BY <1>0, <2>1
    <3>. QED  BY <3>1, ConcatProperties
  <2>3. h \in [0..n -> Seq(Nat)]
    <3>. HIDE DEF top
    <3>. QED  BY <2>2
  <2>4. n # 0 /\ h[n] = top /\ h[n - 1] = g[n - 1]
    <3>. HIDE DEF top
    <3>1. n \in 0..n /\ n - 1 \in 0..n /\ n # n - 1 /\ n # 0
      OBVIOUS
    <3>. QED  BY <3>1, Zenon
  <2>5. \A i \in 0..n - 1 : h[i] = g[i]
    <3>. HIDE DEF top
    <3>1. \A i \in 0..n - 1 : i \in 0..n /\ i # n
      OBVIOUS
    <3>. QED  BY <3>1, Zenon
  <2>6. ASSUME NEW i \in 0..n
        PROVE  h[i] = IF i = 0 THEN <<>>
                      ELSE IF frames[i].kind = "summary" THEN frames[i].says
                      ELSE h[i - 1] \o frames[i].says
    <3>. HIDE DEF h
    <3>1. CASE i = n
      BY <3>1, <2>4
    <3>2. CASE i # n
      <4>1. i \in 0..n - 1 /\ (i # 0 => i - 1 \in 0..n - 1)
        BY <3>2
      <4>2. g[i] = IF i = 0 THEN <<>>
                   ELSE IF frames[i].kind = "summary" THEN frames[i].says
                   ELSE g[i - 1] \o frames[i].says
        BY <2>1, <4>1 DEF IsTold
      <4>. QED  BY <4>1, <4>2, <2>5
    <3>. QED  BY <3>1, <3>2
  <2>. HIDE DEF h
  <2>7. IsTold(h, frames, n)
    BY <2>3, <2>6 DEF IsTold
  <2>. QED  BY <2>3, <2>7
<1>. HIDE DEF P
<1>3. Bad = {}
  <2>. SUFFICES ASSUME Bad # {} PROVE FALSE
    OBVIOUS
  <2>1. Bad \in SUBSET Nat
    OBVIOUS
  <2>2. PICK n \in Bad : \A m \in Bad : n <= m
    BY <2>1, LeastNatural
  <2>3. n \in 1..Len(frames) /\ n - 1 \notin Bad
    BY <1>1, <2>2
  <2>. QED  BY <2>2, <2>3, <1>2
<1>. QED  BY <1>3 DEF P

\* The recursion has one value: on frames that begin alike, the same one.
LEMMA ToldUnique ==
  ASSUME NEW ff, NEW hh, NEW n \in Nat, NEW m \in Nat, n <= m, \A i \in 1..n : ff[i] = hh[i],
         NEW g, NEW h, IsTold(g, ff, n), IsTold(h, hh, m)
  PROVE  \A i \in 0..n : g[i] = h[i]
<1>. DEFINE Bad == {i \in 0..n : g[i] # h[i]}
<1>1. Bad = {}
  <2>. SUFFICES ASSUME Bad # {} PROVE FALSE
    OBVIOUS
  <2>1. Bad \in SUBSET Nat
    OBVIOUS
  <2>2. PICK i \in Bad : \A j \in Bad : i <= j
    BY <2>1, LeastNatural
  <2>3. i \in 0..n /\ i \in 0..m /\ g[i] # h[i]
        /\ (i # 0 => i \in 1..n /\ i - 1 \in 0..n /\ i - 1 \notin Bad)
    BY <2>2
  <2>4. i # 0 => g[i - 1] = h[i - 1] /\ ff[i] = hh[i]
    BY <2>3
  <2>5. g[i] = IF i = 0 THEN <<>>
               ELSE IF ff[i].kind = "summary" THEN ff[i].says ELSE g[i - 1] \o ff[i].says
    BY <2>3 DEF IsTold
  <2>6. h[i] = IF i = 0 THEN <<>>
               ELSE IF hh[i].kind = "summary" THEN hh[i].says ELSE h[i - 1] \o hh[i].says
    BY <2>3 DEF IsTold
  <2>. QED  BY <2>3, <2>4, <2>5, <2>6
<1>. QED  BY <1>1

\* What frames say is a list of texts.
LEMMA SaidType ==
  ASSUME NEW frames \in Seq(Frame)
  PROVE  Said(frames) \in Seq(Nat)
<1>. DEFINE last[i \in 0..Len(frames)] ==
        IF i = 0 THEN <<>>
        ELSE IF frames[i].kind = "summary" THEN frames[i].says
        ELSE last[i - 1] \o frames[i].says
<1>0. Len(frames) \in Nat /\ Len(frames) \in 0..Len(frames)
  OBVIOUS
<1>1. PICK g \in [0..Len(frames) -> Seq(Nat)] : IsTold(g, frames, Len(frames))
  BY <1>0, ToldExists
<1>2. last = CHOOSE f : IsTold(f, frames, Len(frames))
  BY DEF IsTold
<1>3. IsTold(last, frames, Len(frames))
  BY <1>1, <1>2
<1>4. Said(frames) = last[Len(frames)]
  BY DEF Said
<1>. HIDE DEF last
<1>5. last[Len(frames)] = g[Len(frames)]
  BY <1>0, <1>1, <1>3, ToldUnique
<1>. QED  BY <1>0, <1>1, <1>4, <1>5

-----------------------------------------------------------------------------
(***************************************************************************)
(* The inductive invariant: TypeOK with CanonInv, which says what seqs a   *)
(* chat can have, where a send in flight stands among them, and what a     *)
(* fork has copied.                                                        *)
(***************************************************************************)
\* Seqs without gaps: from 1, or from 0 to at least 1 for an import.
Run(S) == S = {} \/ \E first \in {0, 1} : \E last \in S \ {0} : S = first..last
CanonRuns == \A c \in ChatIds : Run(Seqs(c))

\* No two replies in a row.
Alternates(t) ==
  \A s \in DOMAIN t : t[s].role = "assistant" /\ s - 1 \in DOMAIN t => t[s - 1].role = "user"
CanonAlternates == \A c \in ChatIds : Alternates(messages[c])

\* A send whose user row is written and not yet answered.
Unanswered == {"send.turn", "send.reply", "send.rollback", "send.persist"}

\* Before its insert a send is about to write behind the tip, unless somebody wrote
\* there; from then on the tip is its user row, and not the second row of an import.
SendAtTip(p, c, s) ==
  /\ pc[p] = "send.insert" => s \in Seqs(c) \/ s = MaxSeq(c) + 1
  /\ pc[p] \in Unanswered => /\ s \in Seqs(c) /\ s = MaxSeq(c) /\ s >= 1
                             /\ messages[c][s].role = "user"
                             /\ s = 1 => 0 \notin Seqs(c)
SendsAtTip == \A p \in Procs : SendAtTip(p, chatOf(p), loc[p].seq)

\* A fork has a point and a chat to write, and carries a canon of its own.
ForkSteps == {"fork.load", "fork.read", "fork.row", "fork.messages", "fork.seed"}
ForksCopy ==
  /\ DOMAIN copy = Procs
  /\ \A p \in Procs : pc[p] \in ForkSteps => req[p].target \in ChatIds /\ req[p].seq >= 1
  /\ \A p \in Procs : pc[p] \in ForkSteps \ {"fork.load", "fork.read"} =>
       /\ MessageTable(copy[p]) /\ Alternates(copy[p])
       /\ Run(DOMAIN copy[p]) /\ DOMAIN copy[p] # {}

CanonInv == LineInv /\ TypeOK /\ CanonRuns /\ CanonAlternates /\ SendsAtTip /\ ForksCopy

\* What a canon without gaps is, in numbers.
LEMMA RunIs ==
  ASSUME NEW S, Run(S), S # {}
  PROVE  \E first \in {0, 1} : \E last \in Nat \ {0} : S = first..last /\ TopOf(S) = last
<1>1. PICK first \in {0, 1}, last \in S \ {0} : S = first..last
  BY DEF Run
<1>2. last \in Nat \ {0} /\ first <= last /\ last \in S /\ \A m \in S : m <= last
  BY <1>1
<1>3. TopOf(S) = last
  <2>1. PICK t \in S : t = TopOf(S) /\ \A m \in S : m <= t
    BY <1>2 DEF TopOf
  <2>2. t <= last /\ last <= t /\ t \in Int
    BY <1>1, <1>2, <2>1
  <2>. QED  BY <1>2, <2>1, <2>2
<1>. QED  BY <1>1, <1>2, <1>3

\* An interval that begins at 0 or 1 and reaches 1 is such a canon.
LEMMA IsRun ==
  ASSUME NEW first \in {0, 1}, NEW last \in Nat \ {0}
  PROVE  Run(first..last)
<1>1. last \in (first..last) \ {0}
  OBVIOUS
<1>. QED  BY <1>1 DEF Run

\* maxSeq is the last seq of such a canon, and 0 for a chat without turns.
LEMMA TipIs ==
  ASSUME CanonRuns, NEW c \in ChatIds
  PROVE  /\ MaxSeq(c) \in Nat
         /\ Seqs(c) = {} => MaxSeq(c) = 0
         /\ Seqs(c) # {} => /\ MaxSeq(c) \in Seqs(c) \ {0}
                            /\ \E first \in {0, 1} : Seqs(c) = first..MaxSeq(c)
<1>1. CASE Seqs(c) = {}
  BY <1>1 DEF MaxSeq
<1>2. CASE Seqs(c) # {}
  <2>1. PICK first \in {0, 1}, last \in Nat \ {0} : Seqs(c) = first..last /\ TopOf(Seqs(c)) = last
    BY <1>2, RunIs DEF CanonRuns
  <2>. QED  BY <1>2, <2>1 DEF MaxSeq
<1>. QED  BY <1>1, <1>2

\* A row of a table, and the frame that says it.
LEMMA RowIs ==
  ASSUME NEW t, MessageTable(t), NEW s \in DOMAIN t
  PROVE  /\ s \in Nat /\ t[s] \in Message
         /\ t[s].id \in Nat /\ t[s].body \in Nat /\ t[s].active \in Nat /\ t[s].gens \in Nat
         /\ t[s].role \in {"user", "assistant"} /\ t[s].variants \in Seq(Nat)
         /\ CanonTurn(t[s]) \in Frame
<1>1. s \in Nat /\ t[s] \in Message
  BY DEF MessageTable
<1>2. /\ t[s].id \in Nat /\ t[s].body \in Nat /\ t[s].active \in Nat /\ t[s].gens \in Nat
      /\ t[s].role \in {"user", "assistant"} /\ t[s].variants \in Seq(Nat)
  BY <1>1 DEF Message
<1>3. <<t[s].body>> \in Seq(Nat)
  BY <1>2
<1>4. t[s].role \in FrameKinds
  BY <1>2 DEF FrameKinds
<1>5. CanonTurn(t[s]) \in Frame
  BY <1>3, <1>4 DEF CanonTurn, Frame
<1>. QED  BY <1>1, <1>2, <1>5

\* The stub in front of a greeting is a frame.
LEMMA StubIsFrame == Stub \in Frame
BY DEF Stub, Frame, FrameKinds

\* One or two frames are a list of frames.
LEMMA FewFrames == \A f, g \in Frame : <<f>> \in Seq(Frame) /\ <<f, g>> \in Seq(Frame)
OBVIOUS

\* The turns of a table, whichever seqs are kept, are frames.
LEMMA TurnsType ==
  ASSUME NEW t, MessageTable(t), NEW n \in Int, NEW kept
  PROVE  Lists!FlattenSeq([i \in 1..n + 1 |->
           IF i - 1 \in DOMAIN t /\ i - 1 \in kept
           THEN <<CanonTurn(t[i - 1])>> ELSE <<>>]) \in Seq(Frame)
<1>. DEFINE part(i) == IF i - 1 \in DOMAIN t /\ i - 1 \in kept
                       THEN <<CanonTurn(t[i - 1])>> ELSE <<>>
<1>1. \A i \in 1..n + 1 : part(i) \in Seq(Frame)
  BY RowIs
<1>. HIDE DEF part
<1>2. [i \in 1..n + 1 |-> part(i)] \in Seq(Seq(Frame))
  <2>1. CASE n + 1 >= 0
    BY <1>1, <2>1, IsASeq
  <2>2. CASE n + 1 < 0
    <3>1. 1..n + 1 = 1..0
      BY <2>2
    <3>. QED  BY <1>1, <3>1
  <2>. QED  BY <2>1, <2>2
<1>3. Lists!FlattenSeq([i \in 1..n + 1 |-> part(i)]) \in Seq(Frame)
  BY <1>2, FlatType
<1>. QED  BY <1>3 DEF part

\* loadCanonHistory returns turns, whatever range it is asked for.
LEMMA HistoryType ==
  ASSUME MessagesOK, CanonRuns, NEW c \in ChatIds, NEW after, NEW before
  PROVE  History(c, after, before) \in Seq(Frame)
<1>. DEFINE kept == {s \in Seqs(c) : after < s /\ s < before}
<1>1. MessageTable(messages[c]) /\ MaxSeq(c) \in Int
  BY TipIs DEF MessagesOK
<1>2. \A i \in 1..MaxSeq(c) + 1 :
        i - 1 \in Seqs(c) /\ after < i - 1 /\ i - 1 < before <=> i - 1 \in DOMAIN messages[c] /\ i - 1 \in kept
  BY DEF Seqs
<1>. HIDE DEF kept
<1>3. History(c, after, before) = Lists!FlattenSeq([i \in 1..MaxSeq(c) + 1 |->
           IF i - 1 \in DOMAIN messages[c] /\ i - 1 \in kept
           THEN <<CanonTurn(messages[c][i - 1])>> ELSE <<>>])
  BY <1>2, Zenon DEF History
<1>4. Lists!FlattenSeq([i \in 1..MaxSeq(c) + 1 |->
           IF i - 1 \in DOMAIN messages[c] /\ i - 1 \in kept
           THEN <<CanonTurn(messages[c][i - 1])>> ELSE <<>>]) \in Seq(Frame)
  BY <1>1, TurnsType, Zenon
<1>. QED  BY <1>3, <1>4

\* So does the whole canon, with the stub of a seed or without.
LEMMA CanonType ==
  ASSUME MessagesOK, CanonRuns, NEW c \in ChatIds
  PROVE  /\ Canon(c) \in Seq(Frame) /\ Shown(c) \in Seq(Nat)
         /\ StubFirst(Canon(c)) \in Seq(Frame)
<1>1. Canon(c) \in Seq(Frame)
  BY HistoryType DEF Canon
<1>2. \A f \in Seq(Frame) : StubFirst(f) \in Seq(Frame)
  <2>. TAKE f \in Seq(Frame)
  <2>1. <<Stub>> \in Seq(Frame)
    BY StubIsFrame
  <2>2. <<Stub>> \o f \in Seq(Frame)
    BY <2>1, ConcatProperties
  <2>. QED  BY <2>2 DEF StubFirst
<1>. QED  BY <1>1, <1>2, SaidType DEF Shown

-----------------------------------------------------------------------------
(***************************************************************************)
(* What the invariant says of one request and of its chat.                 *)
(***************************************************************************)
\* The columns of a chat.
LEMMA ChatRowIs ==
  ASSUME NEW r \in ChatRow
  PROVE  /\ r.status \in {"absent", "live", "deleted"} /\ r.api \in Apis
         /\ r.session \in Nat /\ r.count \in Nat /\ r.total \in Nat
         /\ r.summary \in Seq(Nat) /\ r.anchor \in Int /\ r.starred \in BOOLEAN
BY DEF ChatRow

\* The local variables of a request.
LEMMA LocalsAre ==
  ASSUME RequestsOK, NEW p \in Procs
  PROVE  /\ loc[p].row \in ChatRow /\ loc[p].seq \in Nat /\ loc[p].sid \in Nat
         /\ loc[p].seeded \in Nat /\ loc[p].body \in Nat
<1>1. loc[p] \in Locals
  BY DEF RequestsOK
<1>. QED  BY <1>1 DEF Locals

\* The parameters of a request.
LEMMA RequestIs ==
  ASSUME RequestsOK, NEW p \in Procs
  PROVE  /\ req[p].kind \in Kinds \union {"none", "send"}
         /\ req[p].chat \in ChatIds \union {NoOne} /\ req[p].target \in ChatIds \union {NoOne}
         /\ req[p].expected \in Nat /\ req[p].seq \in Nat /\ req[p].msg \in Nat
         /\ req[p].variant \in Nat /\ req[p].api \in Apis /\ req[p].seen \in Seq(Nat)
<1>1. req[p] \in Request
  BY DEF RequestsOK
<1>. QED  BY <1>1 DEF Request

\* The rows of the chat a request is about.
LEMMA Rows ==
  ASSUME CanonInv, NEW p \in Procs, pc[p] # "idle"
  PROVE  /\ chatOf(p) \in ChatIds /\ chats[chatOf(p)] \in ChatRow
         /\ MessageTable(messages[chatOf(p)]) /\ Seqs(chatOf(p)) \subseteq Nat
         /\ MaxSeq(chatOf(p)) \in Nat
<1>1. chatOf(p) \in ChatIds
  BY DEF CanonInv, LineInv, Shapes
<1>. QED  BY <1>1, TipIs DEF CanonInv, TypeOK, ChatsOK, MessagesOK, MessageTable, Seqs

\* The frames of a session, written or not.
LEMMA FramesAre ==
  ASSUME SessionsOK, NEW s
  PROVE  FramesOf(s) \in Seq(Frame)
BY DEF SessionsOK, FramesOf

-----------------------------------------------------------------------------
(***************************************************************************)
(* Which steps write which table.                                          *)
(***************************************************************************)
\* Every step is one of a request in flight.
LEMMA Busy ==
  ASSUME NEW p \in Procs, Step(p)
  PROVE  pc[p] # "idle"
BY DEF Step, SendStep, CompactStep, SwipeStep, ReseedStep, StartStep, EditStep, BranchStep,
       BeginSend, SendInsert, SendStart, SendReply, SendFails, SendRollback, SendPersist,
       SendUpdate, SendThrows, BeginCompact, CompactNothing, CompactTurn, CompactFails,
       CompactPersist, BeginSwipe, SwipeSeed, SwipeStart, SwipeReply, SwipeFails, SwipeAbandon,
       SwipeBackfill, SwipeVariant, SwipeMessage, SwipeDrop, SwipeUpdate, SelectVariant,
       ReseedDrop, ReseedSeed, ReseedPoint, StartRow, GreetInsert, GreetSeed, GreetThrows,
       GreetUpdate, StartSend, OpenLoad, OpenStart, OpenReply, OpenFails, OpenInsert,
       OpenUpdate, EditMessage, EditVariant, DeleteChat, PatchChat, ForkLoad, ForkRead, ForkRow,
       ForkMessages, ForkSeed, BeginProvider, ProviderSession, ProviderUpdate, Refuse, Deny,
       Granted, At, StartTurn, EndTurn, FailTurn

\* The table chats.
LEMMA ChatsWriters ==
  ASSUME NEW p \in Procs, Step(p)
  PROVE  \/ UNCHANGED chats
         \/ SendUpdate(p) \/ CompactPersist(p) \/ SwipeUpdate(p) \/ ReseedPoint(p)
         \/ StartRow(p) \/ GreetUpdate(p) \/ OpenUpdate(p) \/ DeleteChat(p) \/ PatchChat(p)
         \/ ForkRow(p) \/ ProviderUpdate(p)
BY DEF Step, SendStep, CompactStep, SwipeStep, ReseedStep, StartStep, EditStep, BranchStep,
       BeginSend, SendInsert, SendStart, SendReply, SendFails, SendRollback, SendPersist,
       SendThrows, BeginCompact, CompactNothing, CompactTurn, CompactFails,
       BeginSwipe, SwipeSeed, SwipeStart, SwipeReply, SwipeFails, SwipeAbandon,
       SwipeBackfill, SwipeVariant, SwipeMessage, SwipeDrop, SelectVariant,
       ReseedDrop, ReseedSeed, GreetInsert, GreetSeed, GreetThrows,
       StartSend, OpenLoad, OpenStart, OpenReply, OpenFails, OpenInsert,
       EditMessage, EditVariant, ForkLoad, ForkRead, ForkMessages, ForkSeed, BeginProvider,
       ProviderSession, Refuse, Deny, StartTurn, EndTurn, FailTurn, tables

\* The table messages.
LEMMA MessagesWriters ==
  ASSUME NEW p \in Procs, Step(p)
  PROVE  \/ UNCHANGED messages
         \/ SendInsert(p) \/ SendRollback(p) \/ SendPersist(p)
         \/ SwipeBackfill(p) \/ SwipeVariant(p) \/ SwipeMessage(p) \/ SelectVariant(p)
         \/ EditMessage(p) \/ EditVariant(p) \/ DeleteChat(p)
         \/ GreetInsert(p) \/ OpenInsert(p) \/ ForkMessages(p)
BY DEF Step, SendStep, CompactStep, SwipeStep, ReseedStep, StartStep, EditStep, BranchStep,
       BeginSend, SendStart, SendReply, SendFails, SendUpdate, SendThrows,
       BeginCompact, CompactNothing, CompactTurn, CompactFails, CompactPersist,
       BeginSwipe, SwipeSeed, SwipeStart, SwipeReply, SwipeFails, SwipeAbandon, SwipeDrop,
       SwipeUpdate, ReseedDrop, ReseedSeed, ReseedPoint, StartRow, GreetSeed, GreetThrows,
       GreetUpdate, StartSend, OpenLoad, OpenStart, OpenReply, OpenFails, OpenUpdate,
       PatchChat, ForkLoad, ForkRead, ForkRow, ForkSeed, BeginProvider,
       ProviderSession, ProviderUpdate, Refuse, Deny, StartTurn, EndTurn, FailTurn, tables

\* The table session_entries.
LEMMA SessionsWriters ==
  ASSUME NEW p \in Procs, Step(p)
  PROVE  \/ UNCHANGED sessions
         \/ SendStart(p) \/ SendReply(p) \/ CompactTurn(p)
         \/ SwipeSeed(p) \/ SwipeStart(p) \/ SwipeReply(p) \/ SwipeAbandon(p) \/ SwipeDrop(p)
         \/ ReseedDrop(p) \/ ReseedSeed(p) \/ GreetSeed(p) \/ OpenStart(p) \/ OpenReply(p)
         \/ DeleteChat(p) \/ ForkSeed(p) \/ ProviderSession(p)
BY DEF Step, SendStep, CompactStep, SwipeStep, ReseedStep, StartStep, EditStep, BranchStep,
       BeginSend, SendInsert, SendFails, SendRollback, SendPersist, SendUpdate, SendThrows,
       BeginCompact, CompactNothing, CompactFails, CompactPersist, BeginSwipe, SwipeFails,
       SwipeBackfill, SwipeVariant, SwipeMessage, SwipeUpdate, SelectVariant, ReseedPoint,
       StartRow, GreetInsert, GreetThrows, GreetUpdate, StartSend, OpenLoad, OpenFails,
       OpenInsert, OpenUpdate, EditMessage, EditVariant, PatchChat, ForkLoad, ForkRead, ForkRow,
       ForkMessages, BeginProvider, ProviderUpdate, Refuse, Deny, FailTurn, tables

-----------------------------------------------------------------------------
(***************************************************************************)
(* The table chats.                                                        *)
(***************************************************************************)
\* The updates of a chat the operations make.
LEMMA ChatRowSets ==
  ASSUME NEW r \in ChatRow
  PROVE  /\ \A n \in Nat : [r EXCEPT !.session = n] \in ChatRow
         /\ \A n, t \in Nat : [r EXCEPT !.session = n, !.total = t] \in ChatRow
         /\ \A n, k, t \in Nat : [r EXCEPT !.session = n, !.count = k, !.total = t] \in ChatRow
         /\ \A n, k \in Nat : [r EXCEPT !.count = k, !.session = n] \in ChatRow
         /\ \A n, k, t \in Nat : [r EXCEPT !.count = k, !.total = t, !.session = n] \in ChatRow
         /\ \A n \in Nat, m \in Seq(Nat), a \in Int :
              [r EXCEPT !.session = n, !.summary = m, !.anchor = a] \in ChatRow
         /\ \A n, k \in Nat, m \in Seq(Nat), a \in Int :
              [r EXCEPT !.session = n, !.count = k, !.summary = m, !.anchor = a] \in ChatRow
         /\ \A n \in Nat, api \in Apis : [r EXCEPT !.api = api, !.session = n] \in ChatRow
         /\ \A b \in BOOLEAN : [r EXCEPT !.starred = b] \in ChatRow
BY DEF ChatRow

\* The rows and the values that everything starts from.
LEMMA NewRows ==
  /\ \A api \in Apis : NewChat(api) \in ChatRow
  /\ NoChat \in ChatRow /\ [NoChat EXCEPT !.status = "deleted"] \in ChatRow
  /\ NoLocals \in Locals /\ NoRequest \in Request
<1>1. \A api \in Apis : NewChat(api) \in ChatRow
  BY DEF NewChat, ChatRow
<1>2. "agent-sdk" \in Apis
  BY DEF Apis
<1>3. NoChat \in ChatRow /\ [NoChat EXCEPT !.status = "deleted"] \in ChatRow
  <2>1. \A r \in ChatRow : \A x \in {"absent", "deleted"} : [r EXCEPT !.status = x] \in ChatRow
    BY DEF ChatRow
  <2>. QED  BY <1>1, <1>2, <2>1, Zenon DEF NoChat
<1>4. NoLocals \in Locals
  BY <1>3 DEF NoLocals, Locals
<1>5. NoRequest \in Request
  BY <1>2 DEF NoRequest, Request
<1>. QED  BY <1>1, <1>3, <1>4, <1>5

\* One row of the table is written.
LEMMA ChatWritten ==
  ASSUME ChatsOK, NEW c, NEW r, c \in ChatIds => r \in ChatRow,
         chats' = [chats EXCEPT ![c] = r]
  PROVE  ChatsOK'
BY DEF ChatsOK

\* Every step leaves rows of chats behind.
LEMMA ChatsStep ==
  ASSUME CanonInv, NEW p \in Procs, Step(p)
  PROVE  ChatsOK'
<1>. DEFINE c == chatOf(p)
<1>0. /\ ChatsOK /\ c \in ChatIds /\ chats[c] \in ChatRow /\ MaxSeq(c) \in Int
      /\ chats = [x \in ChatIds |-> chats[x]]
  BY Busy, Rows DEF CanonInv, TypeOK, ChatsOK
<1>1. /\ loc[p].row \in ChatRow /\ loc[p].sid \in Nat /\ loc[p].row.count \in Nat
      /\ loc[p].row.total \in Nat /\ loc[p].row.summary \in Seq(Nat) /\ loc[p].row.anchor \in Int
      /\ req[p].api \in Apis /\ nextSession \in Nat
  BY LocalsAre, ChatRowIs, RequestIs DEF CanonInv, TypeOK, RequestsOK
<1>2. /\ chats[c].session \in Nat /\ chats[c].summary \in Seq(Nat) /\ chats[c].anchor \in Int
      /\ chats[c].starred \in BOOLEAN
  BY <1>0, ChatRowIs
<1>. HIDE DEF c
<1>3. CASE UNCHANGED chats
  BY <1>0, <1>3 DEF ChatsOK
<1>4. CASE SendUpdate(p)
  <2>1. PICK s \in Nat : s = IF loc[p].row.api = "agent-sdk" THEN loc[p].sid ELSE chats[c].session
    BY <1>1, <1>2
  <2>2. PICK k \in Nat : k = loc[p].row.count + 2
    BY <1>1
  <2>3. PICK t \in Nat : t = loc[p].row.total + 1
    BY <1>1
  <2>8. PICK row \in ChatRow : row = [chats[c] EXCEPT !.session = s, !.count = k, !.total = t]
    BY <1>0, <1>1, <2>1, <2>2, ChatRowSets
  <2>9. chats' = [chats EXCEPT ![c] = row]
    BY <2>8, <1>0, <1>4, <2>1, <2>2, <2>3 DEF SendUpdate, c
  <2>. QED  BY <1>0, <2>9, ChatWritten
<1>5. CASE CompactPersist(p)
  <2>1. PICK found \in BOOLEAN :
       chats' = [chats EXCEPT
         ![c].session = loc[p].sid,
         ![c].summary = IF found THEN Said(FramesOf(loc[p].sid)) ELSE @,
         ![c].anchor = IF found THEN MaxSeq(c) ELSE @]
    BY <1>5 DEF CompactPersist, c
  <2>2. PICK m \in Seq(Nat) : m = IF found THEN Said(FramesOf(loc[p].sid)) ELSE chats[c].summary
    BY <1>2, SaidType, FramesAre DEF CanonInv, TypeOK
  <2>3. PICK a \in Int : a = IF found THEN MaxSeq(c) ELSE chats[c].anchor
    BY <1>0, <1>2
  <2>8. PICK row \in ChatRow : row = [chats[c] EXCEPT !.session = loc[p].sid, !.summary = m, !.anchor = a]
    BY <1>0, <1>1, <2>1, <2>2, <2>3, ChatRowSets
  <2>9. chats' = [chats EXCEPT ![c] = row]
    BY <2>8, <1>0, <2>1, <2>2, <2>3
  <2>. QED  BY <1>0, <2>9, ChatWritten
<1>6. CASE SwipeUpdate(p)
  <2>1. PICK s \in Nat : s = IF OnAgentSdk(p) THEN loc[p].sid ELSE chats[c].session
    BY <1>1, <1>2
  <2>2. PICK t \in Nat : t = loc[p].row.total + 1
    BY <1>1
  <2>8. PICK row \in ChatRow : row = [chats[c] EXCEPT !.session = s, !.total = t]
    BY <1>0, <1>1, <2>1, <2>2, ChatRowSets
  <2>9. chats' = [chats EXCEPT ![c] = row]
    BY <2>8, <1>0, <1>6, <2>1, <2>2 DEF SwipeUpdate, c
  <2>. QED  BY <1>0, <2>9, ChatWritten
<1>7. CASE ReseedPoint(p)
  <2>8. PICK row \in ChatRow : row = [chats[c] EXCEPT !.session = loc[p].sid]
    BY <1>0, <1>1, ChatRowSets
  <2>9. chats' = [chats EXCEPT ![c] = row]
    BY <2>8, <1>0, <1>7 DEF ReseedPoint, c
  <2>. QED  BY <1>0, <2>9, ChatWritten
<1>8. CASE StartRow(p)
  BY <1>0, <1>1, <1>3, <1>8, NewRows, ChatWritten DEF StartRow, c
<1>9. CASE GreetUpdate(p)
  <2>1. PICK s \in Nat : s = IF req[p].api = "agent-sdk" THEN loc[p].sid ELSE chats[c].session
    BY <1>1, <1>2
  <2>2. CASE Live(c)
    <3>8. PICK row \in ChatRow : row = [chats[c] EXCEPT !.count = 1, !.session = s]
      BY <1>0, <1>1, <2>1, <2>2, ChatRowSets
    <3>9. chats' = [chats EXCEPT ![c] = row]
      BY <3>8, <1>0, <1>9, <2>1, <2>2 DEF GreetUpdate, c
    <3>. QED  BY <1>0, <3>9, ChatWritten
  <2>. QED  BY <1>3, <1>9, <2>2 DEF GreetUpdate, c
<1>10. CASE OpenUpdate(p)
  <2>1. PICK s \in Nat : s = IF OnAgentSdk(p) THEN loc[p].sid ELSE chats[c].session
    BY <1>1, <1>2
  <2>2. CASE Live(c)
    <3>8. PICK row \in ChatRow : row = [chats[c] EXCEPT !.count = 1, !.total = 1, !.session = s]
      BY <1>0, <1>1, <2>1, <2>2, ChatRowSets
    <3>9. chats' = [chats EXCEPT ![c] = row]
      BY <3>8, <1>0, <1>10, <2>1, <2>2 DEF OpenUpdate, c
    <3>. QED  BY <1>0, <3>9, ChatWritten
  <2>. QED  BY <1>3, <1>10, <2>2 DEF OpenUpdate, c
<1>11. CASE DeleteChat(p)
  BY <1>0, <1>11, NewRows, ChatWritten DEF DeleteChat, c
<1>12. CASE PatchChat(p)
  <2>1. PICK b \in BOOLEAN : b = ~chats[c].starred
    BY <1>2
  <2>8. PICK row \in ChatRow : row = [chats[c] EXCEPT !.starred = b]
    BY <1>0, <1>1, <2>1, ChatRowSets
  <2>9. chats' = [chats EXCEPT ![c] = row]
    BY <2>8, <1>0, <1>12, <2>1 DEF PatchChat, c
  <2>. QED  BY <1>0, <2>9, ChatWritten
<1>13. CASE ForkRow(p)
  <2>1. PICK first \in {0, 1}, last \in Nat \ {0} : DOMAIN copy[p] = first..last
    BY <1>13, RunIs DEF ForkRow, At, CanonInv, ForksCopy, ForkSteps
  <2>2. PICK k \in Nat : k = Cardinality(DOMAIN copy[p])
    BY <2>1, FS_Interval
  <2>3. PICK m \in Seq(Nat) :
          m = IF Carried(loc[p].row, req[p].seq) THEN loc[p].row.summary ELSE <<>>
    BY <1>1, EmptySeq, Zenon
  <2>4. PICK a \in Int : a = IF Carried(loc[p].row, req[p].seq) THEN loc[p].row.anchor ELSE -1
    BY <1>1 DEF Carried
  <2>5. PICK s \in Nat : s = IF req[p].api = "agent-sdk" THEN nextSession ELSE 0
    BY <1>1
  <2>6. PICK r \in ChatRow : r = NewChat(req[p].api)
    BY <1>1, NewRows
  <2>8. PICK row \in ChatRow : row = [r EXCEPT !.session = s, !.count = k, !.summary = m, !.anchor = a]
    BY ChatRowSets, Zenon
  <2>9. chats' = [chats EXCEPT ![req[p].target] = row]
    BY <2>8, <1>13, <2>2, <2>3, <2>4, <2>5, <2>6 DEF ForkRow
  <2>. QED  BY <1>0, <2>9, ChatWritten
<1>14. CASE ProviderUpdate(p)
  <2>8. PICK row \in ChatRow : row = [chats[c] EXCEPT !.api = req[p].api, !.session = loc[p].sid]
    BY <1>0, <1>1, ChatRowSets
  <2>9. chats' = [chats EXCEPT ![c] = row]
    BY <2>8, <1>0, <1>14 DEF ProviderUpdate, c
  <2>. QED  BY <1>0, <2>9, ChatWritten
<1>. QED  BY ChatsWriters, <1>3, <1>4, <1>5, <1>6, <1>7, <1>8, <1>9, <1>10, <1>11, <1>12,
             <1>13, <1>14

-----------------------------------------------------------------------------
(***************************************************************************)
(* The table messages: rows that are rewritten in place, rows that come,   *)
(* rows that go.                                                           *)
(***************************************************************************)
\* The seqs and the roles stay, whatever the texts become.
KeepsTurns(c) ==
  /\ DOMAIN messages'[c] = DOMAIN messages[c]
  /\ \A s \in DOMAIN messages[c] : messages'[c][s].role = messages[c][s].role
SameTurns == \A c \in ChatIds : KeepsTurns(c)

\* A text or the variants of a message are replaced; its role stays.
LEMMA MessageSets ==
  ASSUME NEW r \in Message
  PROVE  /\ \A b \in Nat : LET m == [r EXCEPT !.body = b] IN m \in Message /\ m.role = r.role
         /\ \A v \in Seq(Nat) :
              LET m == [r EXCEPT !.variants = v] IN m \in Message /\ m.role = r.role
BY DEF Message

\* Another variant is shown; the role stays.
LEMMA ShownSets ==
  ASSUME NEW r \in Message, NEW k \in Nat, NEW b \in Nat
  PROVE  /\ [r EXCEPT !.active = k, !.body = b] \in Message
         /\ [r EXCEPT !.active = k, !.body = b].role = r.role
BY DEF Message

\* A new message is a row, of the role it is written with.
LEMMA NewMessageIs ==
  ASSUME NEW role \in {"user", "assistant"}, NEW b \in Nat, NEW g \in Nat
  PROVE  NewMessage(role, b, g) \in Message /\ NewMessage(role, b, g).role = role
<1>1. <<>> \in Seq(Nat)
  BY EmptySeq
<1>. QED  BY <1>1 DEF NewMessage, Message

\* A copy of a row in a fork: its role and its text.
LEMMA CopyIs ==
  ASSUME NEW r \in Message
  PROVE  LET m == CopyOf(r) IN
         /\ m \in Message /\ m.role = r.role /\ m.body = r.body
         /\ m.variants = <<>> /\ m.gens = 0
<1>1. PICK n \in Message : /\ n = NewMessage(r.role, r.body, 0)
                           /\ n.role = r.role /\ n.body = r.body
                           /\ n.variants = <<>> /\ n.gens = 0
  <2>1. r.role \in {"user", "assistant"} /\ r.body \in Nat
    BY DEF Message
  <2>2. NewMessage(r.role, r.body, 0) \in Message
    BY <2>1, NewMessageIs
  <2>. QED  BY <2>2 DEF NewMessage
<1>2. r.scripted \in SUBSET Nat
  BY DEF Message
<1>3. CopyOf(r) = [n EXCEPT !.scripted = r.scripted]
  BY <1>1 DEF CopyOf
<1>. QED  BY <1>1, <1>2, <1>3 DEF Message

\* A reply behind the scripts: the same row, whether or not one rewrote it.
LEMMA ScriptedIs ==
  ASSUME NEW role \in {"user", "assistant"}, NEW b \in Nat, NEW g \in Nat,
         NEW m \in AfterScripts(NewMessage(role, b, g))
  PROVE  /\ m \in Message /\ m.role = role /\ m.id = b /\ m.body = b /\ m.active = 0
         /\ m.variants = <<>> /\ m.gens = g
<1>1. PICK n \in Message : /\ n = NewMessage(role, b, g) /\ n.role = role /\ n.id = b /\ n.body = b
                           /\ n.active = 0 /\ n.variants = <<>> /\ n.gens = g
  <2>1. NewMessage(role, b, g) \in Message
    BY NewMessageIs
  <2>. QED  BY <2>1 DEF NewMessage
<1>2. {b} \in SUBSET Nat
  OBVIOUS
<1>3. m = n \/ m = [n EXCEPT !.scripted = {b}]
  BY <1>1 DEF AfterScripts
<1>. QED  BY <1>1, <1>2, <1>3 DEF Message

\* UPDATE of one message.
LEMMA RowWritten ==
  ASSUME MessagesOK, NEW c \in ChatIds, NEW s, NEW m,
         s \in Seqs(c) => m \in Message /\ m.role = messages[c][s].role,
         messages' = [messages EXCEPT ![c][s] = m]
  PROVE  MessagesOK' /\ SameTurns
BY DEF MessagesOK, MessageTable, Seqs, SameTurns, KeepsTurns

\* INSERT of one message.
LEMMA RowInserted ==
  ASSUME MessagesOK, NEW c \in ChatIds, NEW s \in Nat, NEW m \in Message,
         messages' = WithMessage(c, s, m)
  PROVE  /\ MessagesOK'
         /\ \A d \in ChatIds \ {c} : messages'[d] = messages[d]
         /\ Seqs(c)' = Seqs(c) \union {s} /\ messages'[c][s] = m
         /\ \A t \in Seqs(c) \ {s} : messages'[c][t] = messages[c][t]
BY DEF MessagesOK, MessageTable, Seqs, WithMessage

\* DELETE of one message.
LEMMA RowDeleted ==
  ASSUME MessagesOK, NEW c \in ChatIds, NEW s, messages' = WithoutMessage(c, s)
  PROVE  /\ MessagesOK'
         /\ \A d \in ChatIds \ {c} : messages'[d] = messages[d]
         /\ Seqs(c)' = Seqs(c) \ {s}
         /\ \A t \in Seqs(c) \ {s} : messages'[c][t] = messages[c][t]
BY DEF MessagesOK, MessageTable, Seqs, WithoutMessage

\* swipe.ts, the edit and the choice of a variant: rewritten in place.
LEMMA Rewrites ==
  ASSUME CanonInv, NEW p \in Procs,
         \/ SwipeBackfill(p) \/ SwipeVariant(p) \/ SwipeMessage(p) \/ SelectVariant(p)
         \/ EditMessage(p) \/ EditVariant(p)
  PROVE  MessagesOK' /\ SameTurns
<1>. DEFINE c == chatOf(p)
<1>1. pc[p] # "idle"
  BY DEF SwipeBackfill, SwipeVariant, SwipeMessage, SelectVariant, EditMessage, EditVariant,
         Granted, At
<1>2. /\ MessagesOK /\ c \in ChatIds /\ MessageTable(messages[c])
      /\ loc[p].body \in Nat /\ nextBody \in Nat /\ req[p].variant \in Nat
  BY <1>1, Rows, LocalsAre, RequestIs DEF CanonInv, TypeOK, RequestsOK
<1>. HIDE DEF c
<1>3. \A s \in Seqs(c) : /\ messages[c][s] \in Message /\ messages[c][s].body \in Nat
                         /\ messages[c][s].gens \in Nat /\ messages[c][s].variants \in Seq(Nat)
  BY <1>2, RowIs DEF Seqs
<1>4. ASSUME UNCHANGED messages PROVE MessagesOK' /\ SameTurns
  BY <1>2, <1>4 DEF MessagesOK, MessageTable, SameTurns, KeepsTurns
<1>5. CASE SwipeBackfill(p)
  <2>1. PICK s : s = Tip(p)
    OBVIOUS
  <2>2. PICK m : m = [messages[c][s] EXCEPT !.variants = <<messages[c][s].body>>]
    OBVIOUS
  <2>3. s \in Seqs(c) => m \in Message /\ m.role = messages[c][s].role
    <3>1. s \in Seqs(c) => <<messages[c][s].body>> \in Seq(Nat)
      BY <1>3
    <3>. QED  BY <1>3, <2>2, <3>1, MessageSets
  <2>4. UNCHANGED messages \/ messages' = [messages EXCEPT ![c][s] = m]
    BY <1>5, <2>1, <2>2 DEF SwipeBackfill, TipRow, c
  <2>. QED  BY <1>2, <1>4, <2>3, <2>4, RowWritten
<1>6. CASE SwipeVariant(p)
  <2>1. PICK s : s = Tip(p)
    OBVIOUS
  <2>2. PICK m : m = [messages[c][s] EXCEPT !.variants = Append(messages[c][s].variants, loc[p].body)]
    OBVIOUS
  <2>3. s \in Seqs(c) => m \in Message /\ m.role = messages[c][s].role
    <3>1. s \in Seqs(c) => Append(messages[c][s].variants, loc[p].body) \in Seq(Nat)
      BY <1>2, <1>3, AppendProperties
    <3>. QED  BY <1>3, <2>2, <3>1, MessageSets
  <2>4. messages' = [messages EXCEPT ![c][s] = m]
    BY <1>6, <2>1, <2>2 DEF SwipeVariant, c
  <2>. QED  BY <1>2, <2>3, <2>4, RowWritten
<1>7. CASE SwipeMessage(p)
  <2>1. PICK s : s = Tip(p)
    OBVIOUS
  <2>2. PICK m : m = [messages[c][s] EXCEPT !.active = Len(messages[c][s].variants),
                        !.body = loc[p].body, !.gens = messages[c][s].gens + 1]
    OBVIOUS
  <2>3. ASSUME s \in Seqs(c) PROVE m \in Message /\ m.role = messages[c][s].role
    <3>1. PICK k \in Nat : k = Len(messages[c][s].variants)
      BY <1>3, <2>3
    <3>2. PICK g \in Nat : g = messages[c][s].gens + 1
      BY <1>3, <2>3
    <3>3. PICK r \in Message : r = messages[c][s]
      BY <1>3, <2>3
    <3>4. PICK b \in Nat : b = loc[p].body
      BY <1>2
    <3>5. PICK w : w = [r EXCEPT !.active = k, !.body = b, !.gens = g]
      OBVIOUS
    <3>6. w \in Message /\ w.role = r.role
      BY <3>5 DEF Message
    <3>7. m = w
      BY <2>2, <3>1, <3>2, <3>3, <3>4, <3>5, Zenon
    <3>. QED  BY <3>3, <3>6, <3>7
  <2>4. messages' = [messages EXCEPT ![c][s] = m]
    BY <1>7, <2>1, <2>2 DEF SwipeMessage, TipRow, c
  <2>. QED  BY <1>2, <2>3, <2>4, RowWritten
<1>8. CASE SelectVariant(p)
  <2>1. PICK s \in Named(c, req[p].msg) :
          /\ req[p].variant \in DOMAIN messages[c][s].variants
          /\ messages' = [messages EXCEPT ![c][s].active = req[p].variant,
                            ![c][s].body = messages[c][s].variants[req[p].variant]]
    BY <1>8 DEF SelectVariant, c
  <2>2. PICK m : m = [messages[c][s] EXCEPT !.active = req[p].variant,
                        !.body = messages[c][s].variants[req[p].variant]]
    OBVIOUS
  <2>3. ASSUME s \in Seqs(c) PROVE m \in Message /\ m.role = messages[c][s].role
    <3>1. PICK b \in Nat : b = messages[c][s].variants[req[p].variant]
      BY <1>3, <2>1, <2>3
    <3>2. PICK k \in Nat : k = req[p].variant
      BY <1>2
    <3>3. PICK r \in Message : r = messages[c][s]
      BY <1>3, <2>3
    <3>4. PICK w : w = [r EXCEPT !.active = k, !.body = b]
      OBVIOUS
    <3>5. w \in Message /\ w.role = r.role
      BY <3>4, ShownSets, Zenon
    <3>6. m = w
      BY <2>2, <3>1, <3>2, <3>3, <3>4, Zenon
    <3>. QED  BY <3>3, <3>5, <3>6
  <2>4. messages' = [messages EXCEPT ![c][s] = m]
    BY <1>2, <2>1, <2>2 DEF Named, MessagesOK
  <2>. QED  BY <1>2, <2>3, <2>4, RowWritten
<1>9. CASE EditMessage(p)
  <2>1. PICK s \in Named(c, req[p].msg) : messages' = [messages EXCEPT ![c][s].body = nextBody]
    BY <1>9 DEF EditMessage, c
  <2>2. PICK m : m = [messages[c][s] EXCEPT !.body = nextBody]
    OBVIOUS
  <2>3. s \in Seqs(c) => m \in Message /\ m.role = messages[c][s].role
    BY <1>2, <1>3, <2>2, MessageSets
  <2>4. messages' = [messages EXCEPT ![c][s] = m]
    BY <1>2, <2>1, <2>2
  <2>. QED  BY <1>2, <2>3, <2>4, RowWritten
<1>10. CASE EditVariant(p)
  <2>1. PICK s : s = loc[p].seq
    OBVIOUS
  <2>2. PICK v : v = [messages[c][s].variants EXCEPT ![messages[c][s].active] = loc[p].body]
    OBVIOUS
  <2>3. PICK m : m = [messages[c][s] EXCEPT !.variants = v]
    OBVIOUS
  <2>4. s \in Seqs(c) => m \in Message /\ m.role = messages[c][s].role
    <3>1. \A w \in Seq(Nat), n \in Nat : \A i : [w EXCEPT ![i] = n] \in Seq(Nat)
      <4>. TAKE w \in Seq(Nat), n \in Nat
      <4>. TAKE i
      <4>1. CASE i \in 1..Len(w)
        BY <4>1, ExceptSeq
      <4>2. CASE i \notin 1..Len(w)
        <5>1. [w EXCEPT ![i] = n] = w
          BY <4>2
        <5>. QED  BY <5>1
      <4>. QED  BY <4>1, <4>2
    <3>2. s \in Seqs(c) => v \in Seq(Nat)
      BY <1>2, <1>3, <2>2, <3>1
    <3>. QED  BY <1>3, <2>3, <3>2, MessageSets
  <2>5. messages' = [messages EXCEPT ![c][s] = m]
    BY <1>10, <2>1, <2>2, <2>3 DEF EditVariant, c
  <2>. QED  BY <1>2, <2>4, <2>5, RowWritten
<1>. QED  BY <1>5, <1>6, <1>7, <1>8, <1>9, <1>10

\* A canon grows by one seq at its tip, or loses its tip, without a gap.
LEMMA RunGrows ==
  ASSUME CanonRuns, NEW c \in ChatIds
  PROVE  Run(Seqs(c) \union {MaxSeq(c) + 1})
<1>1. CASE Seqs(c) = {}
  <2>1. Seqs(c) \union {MaxSeq(c) + 1} = 1..1
    BY <1>1, TipIs
  <2>2. PICK last \in Nat \ {0} : last = 1
    OBVIOUS
  <2>3. Run(1..last)
    BY IsRun
  <2>. QED  BY <2>1, <2>2, <2>3
<1>2. CASE Seqs(c) # {}
  <2>1. PICK first \in {0, 1} : Seqs(c) = first..MaxSeq(c) /\ MaxSeq(c) \in Nat \ {0}
    BY <1>2, TipIs
  <2>2. PICK last \in Nat \ {0} : last = MaxSeq(c) + 1
    BY <2>1
  <2>3. Seqs(c) \union {MaxSeq(c) + 1} = first..last
    BY <2>1, <2>2
  <2>4. Run(first..last)
    BY IsRun
  <2>. QED  BY <2>3, <2>4
<1>. QED  BY <1>1, <1>2

\* It loses its tip without a gap, unless a turn 0 would be left alone.
LEMMA RunShrinks ==
  ASSUME CanonRuns, NEW c \in ChatIds, Seqs(c) # {}, MaxSeq(c) = 1 => 0 \notin Seqs(c)
  PROVE  Run(Seqs(c) \ {MaxSeq(c)})
<1>1. PICK first \in {0, 1} : Seqs(c) = first..MaxSeq(c) /\ MaxSeq(c) \in Nat \ {0}
  BY TipIs
<1>2. CASE MaxSeq(c) = 1
  BY <1>1, <1>2 DEF Run
<1>3. CASE MaxSeq(c) # 1
  <2>1. Seqs(c) \ {MaxSeq(c)} = first..MaxSeq(c) - 1 /\ MaxSeq(c) - 1 \in Nat \ {0}
    BY <1>1, <1>3
  <2>. QED  BY <2>1, IsRun
<1>. QED  BY <1>2, <1>3

\* The seqs of a canon without gaps that is not empty include 1.
LEMMA OneIsFirst ==
  ASSUME CanonRuns, NEW c \in ChatIds, 1 \notin Seqs(c)
  PROVE  Seqs(c) = {} /\ MaxSeq(c) = 0
BY TipIs

\* How a step of p may change the turns of a chat: not at all, by opening it, or
\* as the holder of its lock.
Changes(p, c) ==
  KeepsTurns(c) \/ (Seqs(c) = {} /\ 1 \in Seqs(c)') \/ (c = chatOf(p) /\ Holds(p))

\* One chat's canon is written, and stays one.
LEMMA CanonWritten ==
  ASSUME CanonRuns, CanonAlternates, NEW c \in ChatIds, NEW p \in Procs,
         \A d \in ChatIds \ {c} : messages'[d] = messages[d],
         Run(Seqs(c)'), Alternates(messages'[c]),
         (Seqs(c) = {} /\ 1 \in Seqs(c)') \/ (c = chatOf(p) /\ Holds(p))
  PROVE  CanonRuns' /\ CanonAlternates' /\ \A d \in ChatIds : Changes(p, d)
<1>1. \A d \in ChatIds \ {c} : KeepsTurns(d)
  BY DEF KeepsTurns
<1>2. CanonRuns'
  BY DEF CanonRuns, Seqs
<1>3. CanonAlternates'
  BY DEF CanonAlternates
<1>. QED  BY <1>1, <1>2, <1>3 DEF Changes

\* Every canon is rewritten in place.
LEMMA CanonRewritten ==
  ASSUME CanonInv, SameTurns, NEW p \in Procs
  PROVE  CanonRuns' /\ CanonAlternates' /\ \A d \in ChatIds : Changes(p, d)
<1>1. CanonRuns'
  BY DEF CanonInv, CanonRuns, Seqs, SameTurns, KeepsTurns
<1>2. CanonAlternates'
  <2>. SUFFICES ASSUME NEW c \in ChatIds, NEW s \in DOMAIN messages'[c],
                       messages'[c][s].role = "assistant", s - 1 \in DOMAIN messages'[c]
                PROVE  messages'[c][s - 1].role = "user"
    BY DEF CanonAlternates, Alternates
  <2>1. DOMAIN messages'[c] = DOMAIN messages[c]
        /\ \A t \in DOMAIN messages[c] : messages'[c][t].role = messages[c][t].role
    BY DEF SameTurns, KeepsTurns
  <2>. QED  BY <2>1 DEF CanonInv, CanonAlternates, Alternates
<1>. QED  BY <1>1, <1>2 DEF Changes, SameTurns

CanonStays(p) == MessagesOK' /\ CanonRuns' /\ CanonAlternates' /\ \A d \in ChatIds : Changes(p, d)

\* What a step under the lock may count on.
LEMMA Running ==
  ASSUME CanonInv, NEW p \in Procs, pc[p] \in LockedSteps
  PROVE  Holds(p) /\ pc[p] # "idle"
BY Locked DEF CanonInv

\* The seqs of a chat, as numbers.
LEMMA BehindTip ==
  ASSUME CanonRuns, NEW c \in ChatIds
  PROVE  MaxSeq(c) \in Nat /\ \A s \in Seqs(c) : s \in Nat /\ s <= MaxSeq(c)
BY TipIs

\* send.ts: the user turn behind the tip, its reply behind it, or its removal.
LEMMA SendsKeepCanon ==
  ASSUME CanonInv, NEW p \in Procs, SendInsert(p) \/ SendPersist(p) \/ SendRollback(p)
  PROVE  CanonStays(p)
<1>1. Holds(p) /\ pc[p] # "idle"
  BY Running DEF SendInsert, SendPersist, SendRollback, At, LockedSteps
<1>0. PICK c \in ChatIds, s \in Nat : c = chatOf(p) /\ s = loc[p].seq
  BY <1>1, Rows, LocalsAre DEF CanonInv, TypeOK
<1>2. /\ c \in ChatIds /\ MessagesOK /\ CanonRuns /\ CanonAlternates
      /\ s \in Nat /\ nextBody \in Nat /\ loc[p].body \in Nat
  BY <1>1, Rows, LocalsAre DEF CanonInv, TypeOK, RequestsOK
<1>3. /\ pc[p] = "send.insert" => s \in Seqs(c) \/ s = MaxSeq(c) + 1
      /\ pc[p] \in Unanswered => /\ s \in Seqs(c) /\ s = MaxSeq(c) /\ s >= 1
                                 /\ messages[c][s].role = "user"
                                 /\ s = 1 => 0 \notin Seqs(c)
  BY <1>0 DEF CanonInv, SendsAtTip, SendAtTip
<1>4. /\ MaxSeq(c) \in Nat /\ \A t \in Seqs(c) : t \in Nat /\ t <= MaxSeq(c)
      /\ Alternates(messages[c]) /\ Seqs(c)' = DOMAIN messages'[c] /\ Seqs(c) = DOMAIN messages[c]
  BY <1>2, BehindTip DEF CanonAlternates, Seqs
<1>5. CASE SendInsert(p)
  <2>1. s = MaxSeq(c) + 1 /\ messages' = WithMessage(c, s, NewMessage("user", nextBody, 0))
    BY <1>0, <1>3, <1>5 DEF SendInsert, At, CanInsert
  <2>2. PICK m \in Message : m = NewMessage("user", nextBody, 0) /\ m.role = "user"
    BY <1>2, NewMessageIs
  <2>3. /\ MessagesOK' /\ \A d \in ChatIds \ {c} : messages'[d] = messages[d]
        /\ Seqs(c)' = Seqs(c) \union {s} /\ messages'[c][s] = m
        /\ \A t \in Seqs(c) \ {s} : messages'[c][t] = messages[c][t]
    BY <1>2, <2>1, <2>2, RowInserted
  <2>4. Run(Seqs(c)')
    BY <1>2, <2>1, <2>3, RunGrows
  <2>5. Alternates(messages'[c])
    BY <1>4, <2>1, <2>2, <2>3 DEF Alternates
  <2>. QED  BY <1>0, <1>1, <1>2, <2>3, <2>4, <2>5, CanonWritten DEF CanonStays
<1>6. CASE SendPersist(p)
  <2>1. s = MaxSeq(c) /\ s \in Seqs(c) /\ messages[c][s].role = "user"
    BY <1>0, <1>3, <1>6 DEF SendPersist, At, Unanswered
  <2>2. PICK m \in Message : messages' = WithMessage(c, s + 1, m)
    <3>1. PICK m \in AfterScripts(NewMessage("assistant", loc[p].body, 1)) :
            messages' = WithMessage(c, s + 1, m)
      BY <1>0, <1>6 DEF SendPersist
    <3>. QED  BY <1>2, <3>1, ScriptedIs
  <2>3. PICK n \in Nat : n = s + 1
    BY <1>2
  <2>4. /\ MessagesOK' /\ \A d \in ChatIds \ {c} : messages'[d] = messages[d]
        /\ Seqs(c)' = Seqs(c) \union {n} /\ messages'[c][n] = m
        /\ \A t \in Seqs(c) \ {n} : messages'[c][t] = messages[c][t]
    BY <1>2, <2>1, <2>2, <2>3, RowInserted
  <2>5. Run(Seqs(c)')
    BY <1>2, <2>1, <2>3, <2>4, RunGrows
  <2>6. Alternates(messages'[c])
    BY <1>2, <1>4, <2>1, <2>3, <2>4 DEF Alternates
  <2>. QED  BY <1>0, <1>1, <1>2, <2>4, <2>5, <2>6, CanonWritten DEF CanonStays
<1>7. CASE SendRollback(p)
  <2>1. /\ s = MaxSeq(c) /\ s \in Seqs(c) /\ (s = 1 => 0 \notin Seqs(c))
        /\ messages' = WithoutMessage(c, s)
    BY <1>0, <1>3, <1>7 DEF SendRollback, Unanswered
  <2>2. /\ MessagesOK' /\ \A d \in ChatIds \ {c} : messages'[d] = messages[d]
        /\ Seqs(c)' = Seqs(c) \ {s}
        /\ \A t \in Seqs(c) \ {s} : messages'[c][t] = messages[c][t]
    BY <1>2, <2>1, RowDeleted
  <2>3. Run(Seqs(c)')
    BY <1>2, <2>1, <2>2, RunShrinks
  <2>4. Alternates(messages'[c])
    BY <1>4, <2>1, <2>2 DEF Alternates
  <2>. QED  BY <1>0, <1>1, <1>2, <2>2, <2>3, <2>4, CanonWritten DEF CanonStays
<1>. QED  BY <1>5, <1>6, <1>7

\* startChat's greeting and its opening: seq 1 of an empty chat.
LEMMA OpeningsKeepCanon ==
  ASSUME CanonInv, NEW p \in Procs, GreetInsert(p) \/ OpenInsert(p)
  PROVE  CanonStays(p)
<1>1. pc[p] # "idle"
  BY DEF GreetInsert, OpenInsert
<1>0. PICK c \in ChatIds : c = chatOf(p)
  BY <1>1, Rows
<1>2. /\ c \in ChatIds /\ MessagesOK /\ CanonRuns /\ CanonAlternates
      /\ nextBody \in Nat /\ loc[p].body \in Nat
  BY <1>1, Rows, LocalsAre DEF CanonInv, TypeOK, RequestsOK
<1>3. PICK m \in Message :
        UNCHANGED messages \/ (CanInsert(c, 1) /\ messages' = WithMessage(c, 1, m))
  <2>1. NewMessage("assistant", nextBody, 0) \in Message
        /\ NewMessage("assistant", loc[p].body, 1) \in Message
    BY <1>2, NewMessageIs
  <2>. QED  BY <1>0, <2>1 DEF GreetInsert, OpenInsert
<1>4. CASE UNCHANGED messages
  <2>1. SameTurns /\ MessagesOK'
    BY <1>2, <1>4 DEF MessagesOK, MessageTable, SameTurns, KeepsTurns
  <2>. QED  BY <2>1, CanonRewritten DEF CanonStays
<1>5. CASE CanInsert(c, 1) /\ messages' = WithMessage(c, 1, m)
  <2>1. Seqs(c) = {} /\ MaxSeq(c) = 0
    BY <1>2, <1>5, OneIsFirst DEF CanInsert
  <2>2. /\ MessagesOK' /\ \A d \in ChatIds \ {c} : messages'[d] = messages[d]
        /\ Seqs(c)' = Seqs(c) \union {1}
    BY <1>2, <1>5, RowInserted
  <2>3. Run(Seqs(c)')
    BY <1>2, <2>1, <2>2, RunGrows
  <2>4. Alternates(messages'[c])
    BY <2>1, <2>2 DEF Alternates, Seqs
  <2>. QED  BY <1>2, <2>1, <2>2, <2>3, <2>4, CanonWritten DEF CanonStays
<1>. QED  BY <1>3, <1>4, <1>5

\* The deletion empties the canon.
LEMMA DeletionKeepsCanon ==
  ASSUME CanonInv, NEW p \in Procs, DeleteChat(p)
  PROVE  CanonStays(p)
<1>0. PICK c \in ChatIds : c = chatOf(p)
  BY Rows DEF DeleteChat, Granted
<1>1. Holds(p) /\ c \in ChatIds /\ MessagesOK /\ CanonRuns /\ CanonAlternates
  BY DEF DeleteChat, Granted, CanonInv, TypeOK
<1>2. messages' = [messages EXCEPT ![c] = <<>>]
  BY <1>0 DEF DeleteChat
<1>3. Seqs(c)' = {} /\ DOMAIN messages'[c] = {} /\ \A d \in ChatIds \ {c} : messages'[d] = messages[d]
  BY <1>1, <1>2 DEF Seqs, MessagesOK
<1>4. MessagesOK'
  BY <1>1, <1>2 DEF MessagesOK, MessageTable
<1>5. Run(Seqs(c)') /\ Alternates(messages'[c])
  BY <1>3 DEF Run, Alternates
<1>. QED  BY <1>0, <1>1, <1>3, <1>4, <1>5, CanonWritten DEF CanonStays

\* branch.ts: a canon that begins at its first seq, written to a chat without turns.
LEMMA ForkKeepsCanon ==
  ASSUME CanonInv, NEW p \in Procs, ForkMessages(p)
  PROVE  CanonStays(p)
<1>1. pc[p] = "fork.messages"
  BY DEF ForkMessages
<1>2. /\ req[p].target \in ChatIds /\ MessagesOK /\ CanonRuns /\ CanonAlternates
      /\ MessageTable(copy[p]) /\ Alternates(copy[p])
      /\ Run(DOMAIN copy[p]) /\ DOMAIN copy[p] # {}
  BY <1>1 DEF CanonInv, TypeOK, ForksCopy, ForkSteps
<1>3. PICK d \in ChatIds : d = req[p].target
  BY <1>2
<1>10. PICK t : t = copy[p]
  OBVIOUS
<1>4. CASE UNCHANGED messages
  <2>1. SameTurns /\ MessagesOK'
    BY <1>2, <1>4 DEF MessagesOK, MessageTable, SameTurns, KeepsTurns
  <2>. QED  BY <2>1, CanonRewritten DEF CanonStays
<1>5. CASE /\ Seqs(d) \intersect DOMAIN t = {}
           /\ messages' = [messages EXCEPT ![d] =
                [s \in Seqs(d) \union DOMAIN t |-> IF s \in DOMAIN t THEN t[s] ELSE @[s]]]
  <2>1. 1 \in DOMAIN t
    <3>1. PICK first \in {0, 1}, last \in Nat \ {0} : DOMAIN t = first..last
      BY <1>2, <1>10, RunIs
    <3>. QED  BY <3>1
  <2>2. Seqs(d) = {}
    BY <1>2, <1>5, <2>1, OneIsFirst
  <2>3. /\ DOMAIN messages' = ChatIds /\ \A e \in ChatIds \ {d} : messages'[e] = messages[e]
        /\ DOMAIN messages'[d] = DOMAIN t /\ \A s \in DOMAIN t : messages'[d][s] = t[s]
    BY <1>2, <1>5, <2>2 DEF MessagesOK
  <2>4. MessagesOK'
    <3>1. MessageTable(messages'[d])
      BY <1>2, <1>10, <2>3 DEF MessageTable
    <3>. QED  BY <1>2, <2>3, <3>1 DEF MessagesOK
  <2>5. Alternates(messages'[d])
    BY <1>2, <1>10, <2>3 DEF Alternates
  <2>6. Run(Seqs(d)') /\ 1 \in Seqs(d)'
    BY <1>2, <1>10, <2>1, <2>3 DEF Seqs
  <2>. QED  BY <1>2, <2>2, <2>3, <2>4, <2>5, <2>6, CanonWritten DEF CanonStays
<1>. QED  BY <1>3, <1>4, <1>5, <1>10 DEF ForkMessages

\* Every step leaves canons behind.
LEMMA MessagesStep ==
  ASSUME CanonInv, NEW p \in Procs, Step(p)
  PROVE  CanonStays(p)
<1>1. CASE UNCHANGED messages
  <2>1. SameTurns /\ MessagesOK'
    BY <1>1 DEF CanonInv, TypeOK, MessagesOK, MessageTable, SameTurns, KeepsTurns
  <2>. QED  BY <2>1, CanonRewritten DEF CanonStays
<1>2. CASE \/ SwipeBackfill(p) \/ SwipeVariant(p) \/ SwipeMessage(p) \/ SelectVariant(p)
           \/ EditMessage(p) \/ EditVariant(p)
  <2>1. SameTurns /\ MessagesOK'
    BY <1>2, Rewrites
  <2>. QED  BY <2>1, CanonRewritten DEF CanonStays
<1>. QED  BY <1>1, <1>2, MessagesWriters, SendsKeepCanon, OpeningsKeepCanon,
             DeletionKeepsCanon, ForkKeepsCanon

-----------------------------------------------------------------------------
(***************************************************************************)
(* The sends in flight.                                                    *)
(***************************************************************************)
\* A step moves one request.
LEMMA OthersStay ==
  ASSUME CanonInv, NEW p \in Procs, Step(p), NEW q \in Procs \ {p}
  PROVE  pc'[q] = pc[q] /\ req'[q] = req[q] /\ loc'[q] = loc[q] /\ copy'[q] = copy[q]
<1>1. DOMAIN pc = Procs /\ DOMAIN req = Procs /\ DOMAIN loc = Procs /\ DOMAIN copy = Procs
  BY DEF CanonInv, LineInv, Shapes, TypeOK, RequestsOK, ForksCopy
<1>2. pc'[q] = pc[q]
  BY <1>1 DEF Step, SendStep, CompactStep, SwipeStep, ReseedStep, StartStep, EditStep, BranchStep,
       BeginSend, SendInsert, SendStart, SendReply, SendFails, SendRollback, SendPersist,
       SendUpdate, SendThrows, BeginCompact, CompactNothing, CompactTurn, CompactFails,
       CompactPersist, BeginSwipe, SwipeSeed, SwipeStart, SwipeReply, SwipeFails, SwipeAbandon,
       SwipeBackfill, SwipeVariant, SwipeMessage, SwipeDrop, SwipeUpdate, SelectVariant,
       ReseedDrop, ReseedSeed, ReseedPoint, StartRow, GreetInsert, GreetSeed, GreetThrows,
       GreetUpdate, StartSend, OpenLoad, OpenStart, OpenReply, OpenFails, OpenInsert,
       OpenUpdate, EditMessage, EditVariant, DeleteChat, PatchChat, ForkLoad, ForkRead, ForkRow,
       ForkMessages, ForkSeed, BeginProvider, ProviderSession, ProviderUpdate, Refuse, Deny,
       At, Granted, StartTurn, EndTurn, FailTurn, ReseedOrLeave, SeedFromCanon, Leave, Return
<1>3. req'[q] = req[q]
  BY <1>1 DEF Step, SendStep, CompactStep, SwipeStep, ReseedStep, StartStep, EditStep, BranchStep,
       BeginSend, SendInsert, SendStart, SendReply, SendFails, SendRollback, SendPersist,
       SendUpdate, SendThrows, BeginCompact, CompactNothing, CompactTurn, CompactFails,
       CompactPersist, BeginSwipe, SwipeSeed, SwipeStart, SwipeReply, SwipeFails, SwipeAbandon,
       SwipeBackfill, SwipeVariant, SwipeMessage, SwipeDrop, SwipeUpdate, SelectVariant,
       ReseedDrop, ReseedSeed, ReseedPoint, StartRow, GreetInsert, GreetSeed, GreetThrows,
       GreetUpdate, StartSend, OpenLoad, OpenStart, OpenReply, OpenFails, OpenInsert,
       OpenUpdate, EditMessage, EditVariant, DeleteChat, PatchChat, ForkLoad, ForkRead, ForkRow,
       ForkMessages, ForkSeed, BeginProvider, ProviderSession, ProviderUpdate, Refuse, Deny,
       At, Granted, StartTurn, EndTurn, FailTurn, ReseedOrLeave, SeedFromCanon, Leave, Return
<1>4. loc'[q] = loc[q]
  BY <1>1 DEF Step, SendStep, CompactStep, SwipeStep, ReseedStep, StartStep, EditStep, BranchStep,
       BeginSend, SendInsert, SendStart, SendReply, SendFails, SendRollback, SendPersist,
       SendUpdate, SendThrows, BeginCompact, CompactNothing, CompactTurn, CompactFails,
       CompactPersist, BeginSwipe, SwipeSeed, SwipeStart, SwipeReply, SwipeFails, SwipeAbandon,
       SwipeBackfill, SwipeVariant, SwipeMessage, SwipeDrop, SwipeUpdate, SelectVariant,
       ReseedDrop, ReseedSeed, ReseedPoint, StartRow, GreetInsert, GreetSeed, GreetThrows,
       GreetUpdate, StartSend, OpenLoad, OpenStart, OpenReply, OpenFails, OpenInsert,
       OpenUpdate, EditMessage, EditVariant, DeleteChat, PatchChat, ForkLoad, ForkRead, ForkRow,
       ForkMessages, ForkSeed, BeginProvider, ProviderSession, ProviderUpdate, Refuse, Deny,
       At, Granted, StartTurn, EndTurn, FailTurn, Opens, ReseedOrLeave, SeedFromCanon, Leave, Return
<1>5. copy'[q] = copy[q]
  BY <1>1 DEF Step, SendStep, CompactStep, SwipeStep, ReseedStep, StartStep, EditStep, BranchStep,
       BeginSend, SendInsert, SendStart, SendReply, SendFails, SendRollback, SendPersist,
       SendUpdate, SendThrows, BeginCompact, CompactNothing, CompactTurn, CompactFails,
       CompactPersist, BeginSwipe, SwipeSeed, SwipeStart, SwipeReply, SwipeFails, SwipeAbandon,
       SwipeBackfill, SwipeVariant, SwipeMessage, SwipeDrop, SwipeUpdate, SelectVariant,
       ReseedDrop, ReseedSeed, ReseedPoint, StartRow, GreetInsert, GreetSeed, GreetThrows,
       GreetUpdate, StartSend, OpenLoad, OpenStart, OpenReply, OpenFails, OpenInsert,
       OpenUpdate, EditMessage, EditVariant, DeleteChat, PatchChat, ForkLoad, ForkRead, ForkRow,
       ForkMessages, ForkSeed, BeginProvider, ProviderSession, ProviderUpdate, Refuse, Deny,
       At, Granted, StartTurn, EndTurn, FailTurn, ReseedOrLeave, SeedFromCanon, Leave, Return
<1>. QED  BY <1>2, <1>3, <1>4, <1>5

\* How a request comes to the steps of a send.
LEMMA SendsArrive ==
  ASSUME CanonInv, NEW p \in Procs, Step(p), pc'[p] \in {"send.insert"} \union Unanswered
  PROVE  BeginSend(p) \/ SendInsert(p) \/ SendStart(p) \/ SendReply(p) \/ SendFails(p)
<1>1. DOMAIN pc = Procs
  BY DEF CanonInv, LineInv, Shapes
<1>. QED  BY <1>1 DEF Unanswered, Step, SendStep, CompactStep, SwipeStep, ReseedStep, StartStep,
       EditStep, BranchStep, SendRollback, SendPersist,
       SendUpdate, SendThrows, BeginCompact, CompactNothing, CompactTurn, CompactFails,
       CompactPersist, BeginSwipe, SwipeSeed, SwipeStart, SwipeReply, SwipeFails, SwipeAbandon,
       SwipeBackfill, SwipeVariant, SwipeMessage, SwipeDrop, SwipeUpdate, SelectVariant,
       ReseedDrop, ReseedSeed, ReseedPoint, StartRow, GreetInsert, GreetSeed, GreetThrows,
       GreetUpdate, StartSend, OpenLoad, OpenStart, OpenReply, OpenFails, OpenInsert,
       OpenUpdate, EditMessage, EditVariant, DeleteChat, PatchChat, ForkLoad, ForkRead, ForkRow,
       ForkMessages, ForkSeed, BeginProvider, ProviderSession, ProviderUpdate, Refuse, Deny,
       At, Granted, StartTurn, EndTurn, FailTurn, ReseedOrLeave, SeedFromCanon, Leave, Return

\* The tip depends on the seqs only.
LEMMA TipStays ==
  ASSUME NEW c, KeepsTurns(c)
  PROVE  Seqs(c)' = Seqs(c) /\ MaxSeq(c)' = MaxSeq(c)
BY DEF KeepsTurns, Seqs, MaxSeq

\* The other sends of a chat: nobody else writes behind their tip.
LEMMA OtherSends ==
  ASSUME CanonInv, NEW p \in Procs, Step(p), NEW q \in Procs \ {p},
         NEW c \in ChatIds, c = chatOf(q), NEW s \in Nat, s = loc[q].seq,
         pc[q] \in {"send.insert"} \union Unanswered
  PROVE  SendAtTip(q, c, s)'
<1>1. pc'[q] = pc[q]
  BY OthersStay
<1>2. SendAtTip(q, c, s) /\ CanonRuns
  BY DEF CanonInv, SendsAtTip
<1>3. Changes(p, c) /\ CanonRuns' /\ MessagesOK'
  BY MessagesStep DEF CanonStays
<1>4. ~(c = chatOf(p) /\ Holds(p))
  <2>1. Holds(q)
    BY Running DEF Unanswered, LockedSteps
  <2>. QED  BY <2>1 DEF Holds
<1>5. CASE KeepsTurns(c)
  BY <1>1, <1>2, <1>5, TipStays DEF SendAtTip, KeepsTurns, Seqs
<1>6. CASE Seqs(c) = {} /\ 1 \in Seqs(c)'
  <2>1. MaxSeq(c) = 0
    BY <1>6 DEF MaxSeq
  <2>2. pc[q] = "send.insert" /\ s = 1
    BY <1>2, <1>6, <2>1 DEF SendAtTip, Unanswered
  <2>. QED  BY <1>1, <1>6, <2>2 DEF SendAtTip, Unanswered
<1>. QED  BY <1>3, <1>4, <1>5, <1>6 DEF Changes

\* The send that moves.
LEMMA ThisSend ==
  ASSUME CanonInv, NEW p \in Procs, Step(p), NEW c \in ChatIds, c = chatOf(p),
         NEW s \in Nat, s = loc'[p].seq,
         pc'[p] \in {"send.insert"} \union Unanswered
  PROVE  SendAtTip(p, c, s)'
<1>1. /\ DOMAIN pc = Procs /\ DOMAIN loc = Procs /\ MessagesOK /\ CanonRuns
      /\ loc[p].seq \in Nat /\ nextBody \in Nat
  BY LocalsAre DEF CanonInv, LineInv, Shapes, TypeOK, RequestsOK
<1>2. SendAtTip(p, c, loc[p].seq)
  BY DEF CanonInv, SendsAtTip
<1>3. MaxSeq(c) \in Nat /\ \A t \in Seqs(c) : t \in Nat /\ t <= MaxSeq(c)
  BY <1>1, BehindTip
<1>4. CASE BeginSend(p)
  <2>1. s = MaxSeq(c) + 1 /\ pc'[p] = "send.insert" /\ KeepsTurns(c)
    BY <1>1, <1>4 DEF BeginSend, tables, KeepsTurns
  <2>. QED  BY <2>1, TipStays DEF SendAtTip, Unanswered
<1>5. CASE SendInsert(p)
  <2>1. /\ s = loc[p].seq /\ pc[p] = "send.insert" /\ pc'[p] = "send.turn" /\ s \notin Seqs(c)
        /\ messages' = WithMessage(c, s, NewMessage("user", nextBody, 0))
    BY <1>1, <1>5 DEF SendInsert, At, CanInsert
  <2>2. s = MaxSeq(c) + 1
    BY <1>2, <2>1 DEF SendAtTip
  <2>3. PICK m \in Message : m = NewMessage("user", nextBody, 0) /\ m.role = "user"
    BY <1>1, NewMessageIs
  <2>4. Seqs(c)' = Seqs(c) \union {s} /\ messages'[c][s] = m
    BY <1>1, <2>1, <2>3, RowInserted
  <2>5. MaxSeq(c)' = s
    <3>1. s \in Seqs(c)' /\ \A t \in Seqs(c)' : t \in Nat /\ t <= s
      BY <1>3, <2>2, <2>4
    <3>2. TopOf(Seqs(c)') = s
      BY <3>1 DEF TopOf
    <3>. QED  BY <3>1, <3>2 DEF MaxSeq
  <2>6. s = 1 => 0 \notin Seqs(c)'
    BY <1>1, <1>3, <2>2, <2>4, TipIs
  <2>. QED  BY <1>3, <2>1, <2>2, <2>3, <2>4, <2>5, <2>6 DEF SendAtTip, Unanswered
<1>6. CASE SendStart(p) \/ SendReply(p) \/ SendFails(p)
  <2>1. pc[p] \in Unanswered /\ pc'[p] \in Unanswered /\ KeepsTurns(c)
    BY <1>1, <1>6 DEF SendStart, SendReply, SendFails, StartTurn, EndTurn, FailTurn, At,
       Unanswered, KeepsTurns, tables
  <2>2. loc'[p].seq = loc[p].seq
    BY <1>1, <1>6, LocalsAre DEF SendStart, SendReply, SendFails, StartTurn, EndTurn, FailTurn,
       Opens, CanonInv, TypeOK, RequestsOK, Locals
  <2>. QED  BY <1>2, <2>1, <2>2, TipStays DEF SendAtTip, KeepsTurns, Seqs, Unanswered
<1>. QED  BY <1>4, <1>5, <1>6, SendsArrive

\* Every send in flight still stands at the tip of its chat.
LEMMA SendsStep ==
  ASSUME CanonInv, NEW p \in Procs, Step(p), RequestsOK'
  PROVE  SendsAtTip'
<1>. SUFFICES ASSUME NEW q \in Procs PROVE SendAtTip(q, chatOf(q), loc[q].seq)'
  BY DEF SendsAtTip
<1>1. LineInv'
  BY NextKeepsLine DEF Next, CanonInv
<1>2. CASE pc'[q] \notin {"send.insert"} \union Unanswered
  BY <1>2 DEF SendAtTip
<1>3. CASE pc'[q] \in {"send.insert"} \union Unanswered
  <2>1. chatOf(q)' \in ChatIds /\ loc'[q].seq \in Nat
    <3>1. pc'[q] # "idle"
      BY <1>3 DEF Unanswered
    <3>. QED  BY <1>1, <3>1, LocalsAre DEF LineInv, Shapes, RequestsOK, Locals
  <2>2. PICK c \in ChatIds, s \in Nat : c = chatOf(q)' /\ s = loc'[q].seq
    BY <2>1
  <2>3. CASE q = p
    <3>1. chatOf(p)' = chatOf(p)
      BY <1>3, <2>3, SendsArrive DEF BeginSend, SendInsert, SendStart, SendReply, SendFails,
         StartTurn, EndTurn, FailTurn, chatOf
    <3>2. SendAtTip(p, c, s)'
      BY <1>3, <2>2, <2>3, <3>1, ThisSend
    <3>. QED  BY <2>2, <2>3, <3>2
  <2>4. CASE q # p
    <3>1. pc'[q] = pc[q] /\ chatOf(q)' = chatOf(q) /\ loc'[q] = loc[q]
      BY <2>4, OthersStay DEF chatOf
    <3>2. SendAtTip(q, c, s)'
      BY <1>3, <2>2, <2>4, <3>1, OtherSends
    <3>. QED  BY <2>2, <3>2
  <2>. QED  BY <2>3, <2>4
<1>. QED  BY <1>2, <1>3

-----------------------------------------------------------------------------
(***************************************************************************)
(* The table session_entries: frames that are appended, sessions that go.  *)
(***************************************************************************)
\* DbSessionStore.append.
LEMMA AppendedOK ==
  ASSUME SessionsOK, NEW s \in Nat, NEW c \in ChatIds, NEW frames \in Seq(Frame),
         sessions' = Appended(s, c, frames)
  PROVE  SessionsOK'
<1>1. CASE frames = <<>>
  BY <1>1 DEF Appended, SessionsOK
<1>2. CASE frames # <<>>
  <2>1. FramesOf(s) \in Seq(Frame)
    BY FramesAre
  <2>2. PICK all \in Seq(Frame) \ {<<>>} : all = FramesOf(s) \o frames
    <3>1. FramesOf(s) \o frames \in Seq(Frame) /\ FramesOf(s) \o frames # <<>>
      BY <1>2, <2>1, ConcatProperties
    <3>. QED  BY <3>1
  <2>3. sessions' = [t \in DOMAIN sessions \union {s} |->
                       IF t = s THEN [chat |-> c, frames |-> all] ELSE sessions[t]]
    BY <1>2, <2>2 DEF Appended
  <2>. QED  BY <2>3 DEF SessionsOK
<1>. QED  BY <1>1, <1>2

\* DELETE of sessions.
LEMMA DroppedOK ==
  ASSUME SessionsOK, NEW dead, sessions' = DroppedAll(dead)
  PROVE  SessionsOK'
BY DEF DroppedAll, SessionsOK

\* A turn of a user or of the model is a frame.
LEMMA TurnIsFrame ==
  ASSUME NEW role \in {"user", "assistant"}, NEW b \in Nat
  PROVE  Turn(role, b) \in Frame
<1>1. <<b>> \in Seq(Nat)
  OBVIOUS
<1>. QED  BY <1>1 DEF Turn, Frame, FrameKinds

\* A turn takes its prompt, behind the frames it resumes or behind a copy of them.
LEMMA OpensOK ==
  ASSUME SessionsOK, RequestsOK, NEW p \in Procs, chatOf(p) \in ChatIds, NEW s \in Nat,
         NEW prompt \in Frame,
         Opens(p, s, prompt) \/ UNCHANGED sessions
  PROVE  SessionsOK'
<1>1. nextSession \in Nat
  BY DEF RequestsOK
<1>2. <<prompt>> \in Seq(Frame) /\ FramesOf(s) \o <<prompt>> \in Seq(Frame)
  <2>1. <<prompt>> \in Seq(Frame)
    OBVIOUS
  <2>. QED  BY <2>1, FramesAre, ConcatProperties
<1>3. CASE UNCHANGED sessions
  BY <1>3 DEF SessionsOK
<1>4. CASE sessions' = Appended(s, chatOf(p), <<prompt>>)
  BY <1>2, <1>4, AppendedOK
<1>5. CASE sessions' = Appended(nextSession, chatOf(p), FramesOf(s) \o <<prompt>>)
  BY <1>1, <1>2, <1>5, AppendedOK
<1>. QED  BY <1>3, <1>4, <1>5 DEF Opens

\* What a swipe sends again.
LEMMA RegenIsFrame ==
  ASSUME MessagesOK, CanonRuns, NEW c \in ChatIds, NEW s
  PROVE  RegenPrompt(c, s) \in Frame
<1>1. CASE UsersBefore(c, s) = {}
  BY <1>1, StubIsFrame DEF RegenPrompt
<1>2. CASE UsersBefore(c, s) # {}
  <2>1. PICK S : S = UsersBefore(c, s)
    OBVIOUS
  <2>2. PICK n \in Nat : n = MaxSeq(c)
    BY BehindTip
  <2>3. S \in SUBSET (0..n)
    BY <2>1, <2>2, BehindTip DEF UsersBefore
  <2>4. TopOf(S) \in S
    BY <1>2, <2>1, <2>3, GreatestNatural
  <2>5. PICK u \in Seqs(c) : u = RegenFrom(c, s)
    BY <1>2, <2>1, <2>4 DEF RegenFrom, UsersBefore
  <2>6. messages[c][u].body \in Nat
    BY RowIs DEF MessagesOK, Seqs
  <2>7. Turn("user", messages[c][u].body) \in Frame
    BY <2>6, TurnIsFrame
  <2>. QED  BY <1>2, <2>5, <2>7 DEF RegenPrompt
<1>. QED  BY <1>1, <1>2

\* What a fork seeds.
LEMMA ForkFramesAre ==
  ASSUME CanonInv, NEW p \in Procs, pc[p] = "fork.seed"
  PROVE  ForkFrames(p) \in Seq(Frame)
<1>1. MessageTable(copy[p]) /\ Run(DOMAIN copy[p]) /\ DOMAIN copy[p] # {}
  BY DEF CanonInv, ForksCopy, ForkSteps
<1>2. PICK n \in Int : n = TopOf(DOMAIN copy[p])
  BY <1>1, RunIs
<1>3. PICK t, kept : t = copy[p] /\ MessageTable(t) /\ kept = DOMAIN t
  BY <1>1
<1>4. Lists!FlattenSeq([i \in 1..n + 1 |->
           IF i - 1 \in DOMAIN t /\ i - 1 \in kept
           THEN <<CanonTurn(t[i - 1])>> ELSE <<>>]) \in Seq(Frame)
  <2>1. MessageTable(t)
    BY <1>3
  <2>2. n \in Int
    OBVIOUS
  <2>. QED  BY <2>1, <2>2, TurnsType, Zenon
<1>5. \A i \in 1..n + 1 : i - 1 \in DOMAIN t /\ i - 1 \in kept <=> i - 1 \in DOMAIN copy[p]
  BY <1>3
<1>. QED  BY <1>2, <1>3, <1>4, <1>5, Zenon DEF ForkFrames

\* Every step leaves transcripts behind.
LEMMA SessionsStep ==
  ASSUME CanonInv, NEW p \in Procs, Step(p)
  PROVE  SessionsOK'
<1>1. /\ SessionsOK /\ RequestsOK /\ MessagesOK /\ CanonRuns /\ nextSession \in Nat /\ nextBody \in Nat
      /\ chatOf(p) \in ChatIds /\ loc[p].row.session \in Nat /\ loc[p].sid \in Nat
      /\ loc[p].seeded \in Nat /\ loc[p].body \in Nat
  <2>1. loc[p].row \in ChatRow
    BY LocalsAre DEF CanonInv, TypeOK
  <2>. QED  BY <2>1, Busy, Rows, LocalsAre, ChatRowIs DEF CanonInv, TypeOK, RequestsOK
<1>2. PICK c \in ChatIds : c = chatOf(p)
  BY <1>1
<1>3. CASE UNCHANGED sessions
  BY <1>1, <1>3 DEF SessionsOK
<1>4. CASE SendStart(p)
  <2>1. pc[p] = "send.turn" /\ (Opens(p, loc[p].row.session, UserTurn(p)) \/ UNCHANGED sessions)
    BY <1>4 DEF SendStart, StartTurn, At
  <2>2. loc[p].seq \in Seqs(c)
    BY <1>2, <2>1 DEF CanonInv, SendsAtTip, SendAtTip, Unanswered
  <2>3. messages[c][loc[p].seq].body \in Nat
    BY <1>1, <2>2, RowIs DEF MessagesOK, Seqs
  <2>4. UserTurn(p) \in Frame
    BY <1>2, <2>3, TurnIsFrame DEF UserTurn
  <2>. QED  BY <1>1, <2>1, <2>4, OpensOK
<1>5. CASE SwipeStart(p)
  <2>1. Opens(p, loc[p].seeded, RegenPrompt(chatOf(p), Tip(p))) \/ UNCHANGED sessions
    BY <1>5 DEF SwipeStart, StartTurn
  <2>2. RegenPrompt(chatOf(p), Tip(p)) \in Frame
    BY <1>1, RegenIsFrame
  <2>. QED  BY <1>1, <2>1, <2>2, OpensOK
<1>6. CASE OpenStart(p)
  <2>1. Opens(p, 0, Stub) \/ UNCHANGED sessions
    BY <1>6 DEF OpenStart, StartTurn
  <2>. QED  BY <1>1, <2>1, StubIsFrame, OpensOK
<1>7. CASE SendReply(p) \/ SwipeReply(p) \/ OpenReply(p)
  <2>1. PICK frames \in Seq(Frame) : frames = <<Turn("assistant", nextBody)>>
    <3>1. Turn("assistant", nextBody) \in Frame
      BY <1>1, TurnIsFrame
    <3>2. <<Turn("assistant", nextBody)>> \in Seq(Frame)
      BY <3>1, FewFrames, Zenon
    <3>. QED  BY <3>2, Zenon
  <2>2. UNCHANGED sessions \/ sessions' = Appended(loc[p].sid, c, frames)
    BY <1>2, <1>7, <2>1 DEF SendReply, SwipeReply, OpenReply, EndTurn
  <2>. QED  BY <1>1, <1>3, <2>2, AppendedOK
<1>8. CASE CompactTurn(p)
  <2>1. PICK said \in Seq(Nat) : said = Said(FramesOf(loc[p].sid))
    BY <1>1, FramesAre, SaidType
  <2>2. Summary(said) \in Frame
    BY DEF Summary, Frame, FrameKinds
  <2>3. PICK frames \in Seq(Frame) : frames = <<Summary(said)>>
    <3>1. <<Summary(said)>> \in Seq(Frame)
      BY <2>2, FewFrames, Zenon
    <3>. QED  BY <3>1, Zenon
  <2>4. sessions' = Appended(loc[p].sid, c, frames)
    BY <1>2, <1>8, <2>1, <2>3 DEF CompactTurn
  <2>. QED  BY <1>1, <2>4, AppendedOK
<1>9. CASE SwipeSeed(p)
  <2>1. PICK frames \in Seq(Frame) : frames = RegenHistory(c, Tip(p))
    BY <1>1, HistoryType DEF RegenHistory
  <2>2. UNCHANGED sessions \/ sessions' = Appended(nextSession, c, frames)
    BY <1>2, <1>9, <2>1 DEF SwipeSeed
  <2>. QED  BY <1>1, <1>3, <2>2, AppendedOK
<1>10. CASE SwipeAbandon(p) \/ SwipeDrop(p) \/ ReseedDrop(p) \/ DeleteChat(p)
  <2>1. PICK dead : UNCHANGED sessions \/ sessions' = DroppedAll(dead)
    BY <1>10 DEF SwipeAbandon, SwipeDrop, ReseedDrop, DeleteChat
  <2>. QED  BY <1>1, <1>3, <2>1, DroppedOK
<1>11. CASE ReseedSeed(p) \/ ProviderSession(p)
  <2>1. PICK frames \in Seq(Frame) : frames = StubFirst(Canon(c))
    BY <1>1, CanonType
  <2>2. PICK dead : \/ UNCHANGED sessions \/ sessions' = DroppedAll(dead)
                    \/ sessions' = Appended(nextSession, c, frames)
    BY <1>2, <1>11, <2>1 DEF ReseedSeed, ProviderSession, SeedFromCanon
  <2>. QED  BY <1>1, <1>3, <2>2, AppendedOK, DroppedOK
<1>12. CASE GreetSeed(p)
  <2>1. PICK frames \in Seq(Frame) : frames = <<Stub, Turn("assistant", loc[p].body)>>
    <3>1. Stub \in Frame /\ Turn("assistant", loc[p].body) \in Frame
      BY <1>1, StubIsFrame, TurnIsFrame
    <3>2. <<Stub, Turn("assistant", loc[p].body)>> \in Seq(Frame)
      BY <3>1, FewFrames, Zenon
    <3>. QED  BY <3>2, Zenon
  <2>2. sessions' = Appended(nextSession, c, frames)
    BY <1>2, <1>12, <2>1 DEF GreetSeed
  <2>. QED  BY <1>1, <2>2, AppendedOK
<1>13. CASE ForkSeed(p)
  <2>1. pc[p] = "fork.seed"
    BY <1>13 DEF ForkSeed
  <2>2. PICK frames \in Seq(Frame), d \in ChatIds : frames = ForkFrames(p) /\ d = req[p].target
    BY <2>1, ForkFramesAre DEF CanonInv, ForksCopy, ForkSteps
  <2>3. UNCHANGED sessions \/ sessions' = Appended(loc[p].sid, d, frames)
    BY <1>13, <2>2 DEF ForkSeed
  <2>. QED  BY <1>1, <1>3, <2>3, AppendedOK
<1>. QED  BY <1>3, <1>4, <1>5, <1>6, <1>7, <1>8, <1>9, <1>10, <1>11, <1>12, <1>13, SessionsWriters

-----------------------------------------------------------------------------
(***************************************************************************)
(* The requests in flight.                                                 *)
(***************************************************************************)
\* The counters of texts and of sessions.
LEMMA CountersStep ==
  ASSUME CanonInv, NEW p \in Procs, Step(p)
  PROVE  nextBody' \in Nat /\ nextSession' \in Nat
<1>1. nextBody \in Nat /\ nextSession \in Nat
  BY DEF CanonInv, TypeOK, RequestsOK
<1>2. nextBody' = nextBody \/ nextBody' = nextBody + 1
  BY DEF Step, SendStep, CompactStep, SwipeStep, ReseedStep, StartStep, EditStep, BranchStep,
       BeginSend, SendInsert, SendStart, SendReply, SendFails, SendRollback, SendPersist,
       SendUpdate, SendThrows, BeginCompact, CompactNothing, CompactTurn, CompactFails,
       CompactPersist, BeginSwipe, SwipeSeed, SwipeStart, SwipeReply, SwipeFails, SwipeAbandon,
       SwipeBackfill, SwipeVariant, SwipeMessage, SwipeDrop, SwipeUpdate, SelectVariant,
       ReseedDrop, ReseedSeed, ReseedPoint, StartRow, GreetInsert, GreetSeed, GreetThrows,
       GreetUpdate, StartSend, OpenLoad, OpenStart, OpenReply, OpenFails, OpenInsert,
       OpenUpdate, EditMessage, EditVariant, DeleteChat, PatchChat, ForkLoad, ForkRead, ForkRow,
       ForkMessages, ForkSeed, BeginProvider, ProviderSession, ProviderUpdate, Refuse, Deny,
       StartTurn, EndTurn, FailTurn, ids
<1>3. nextSession' = nextSession \/ nextSession' = nextSession + 1
  BY DEF Step, SendStep, CompactStep, SwipeStep, ReseedStep, StartStep, EditStep, BranchStep,
       BeginSend, SendInsert, SendStart, SendReply, SendFails, SendRollback, SendPersist,
       SendUpdate, SendThrows, BeginCompact, CompactNothing, CompactTurn, CompactFails,
       CompactPersist, BeginSwipe, SwipeSeed, SwipeStart, SwipeReply, SwipeFails, SwipeAbandon,
       SwipeBackfill, SwipeVariant, SwipeMessage, SwipeDrop, SwipeUpdate, SelectVariant,
       ReseedDrop, ReseedSeed, ReseedPoint, StartRow, GreetInsert, GreetSeed, GreetThrows,
       GreetUpdate, StartSend, OpenLoad, OpenStart, OpenReply, OpenFails, OpenInsert,
       OpenUpdate, EditMessage, EditVariant, DeleteChat, PatchChat, ForkLoad, ForkRead, ForkRow,
       ForkMessages, ForkSeed, BeginProvider, ProviderSession, ProviderUpdate, Refuse, Deny,
       StartTurn, EndTurn, FailTurn, Opens, SeedFromCanon, ids
<1>. QED  BY <1>1, <1>2, <1>3

\* The parameters of a request stay, until it ends or becomes a send.
LEMMA ParametersStep ==
  ASSUME CanonInv, NEW p \in Procs, Step(p)
  PROVE  req' \in [Procs -> Request]
<1>0. RequestsOK /\ MessagesOK /\ CanonRuns /\ chatOf(p) \in ChatIds /\ req[p] \in Request
  BY Busy, Rows DEF CanonInv, TypeOK, RequestsOK
<1>1. CASE UNCHANGED req
  BY <1>0, <1>1 DEF RequestsOK
<1>2. CASE req' = [req EXCEPT ![p] = NoRequest]
  BY <1>0, <1>2, NewRows DEF RequestsOK
<1>3. CASE StartSend(p)
  <2>1. PICK seen \in Seq(Nat) : seen = Shown(chatOf(p))
    BY <1>0, CanonType
  <2>2. PICK e \in Nat : e = IF req[p].kind = "start.greeting" THEN 1 ELSE 0
    OBVIOUS
  <2>3. PICK r \in Request : r = [req[p] EXCEPT !.kind = "send", !.seen = seen, !.expected = e]
    BY <1>0 DEF Request
  <2>4. req' = [req EXCEPT ![p] = r]
    BY <1>0, <1>3, <2>1, <2>2, <2>3 DEF StartSend, RequestsOK
  <2>. QED  BY <1>0, <2>4 DEF RequestsOK
<1>4. UNCHANGED req \/ req' = [req EXCEPT ![p] = NoRequest] \/ StartSend(p)
  BY DEF Step, SendStep, CompactStep, SwipeStep, ReseedStep, StartStep, EditStep, BranchStep,
       BeginSend, SendInsert, SendStart, SendReply, SendFails, SendRollback, SendPersist,
       SendUpdate, SendThrows, BeginCompact, CompactNothing, CompactTurn, CompactFails,
       CompactPersist, BeginSwipe, SwipeSeed, SwipeStart, SwipeReply, SwipeFails, SwipeAbandon,
       SwipeBackfill, SwipeVariant, SwipeMessage, SwipeDrop, SwipeUpdate, SelectVariant,
       ReseedDrop, ReseedSeed, ReseedPoint, StartRow, GreetInsert, GreetSeed, GreetThrows,
       GreetUpdate, OpenLoad, OpenStart, OpenReply, OpenFails, OpenInsert,
       OpenUpdate, EditMessage, EditVariant, DeleteChat, PatchChat, ForkLoad, ForkRead, ForkRow,
       ForkMessages, ForkSeed, BeginProvider, ProviderSession, ProviderUpdate, Refuse, Deny,
       StartTurn, EndTurn, FailTurn, ReseedOrLeave, SeedFromCanon, Leave, Return
<1>. QED  BY <1>1, <1>2, <1>3, <1>4

\* The values the operations keep across their awaits.
LEMMA LocalSets ==
  ASSUME NEW l \in Locals, NEW r \in ChatRow, NEW n \in Nat, NEW b \in Nat
  PROVE  /\ [l EXCEPT !.row = r] \in Locals
         /\ [l EXCEPT !.sid = n] \in Locals
         /\ [l EXCEPT !.seeded = n] \in Locals
         /\ [l EXCEPT !.body = n] \in Locals
         /\ [l EXCEPT !.row = r, !.seq = n] \in Locals
         /\ [l EXCEPT !.row = r, !.sid = n] \in Locals
         /\ [l EXCEPT !.row = r, !.seq = n, !.body = b] \in Locals
BY DEF Locals

\* The ways the local variables of a request are written.
Assigns(p, r, n, b) ==
  \/ UNCHANGED loc
  \/ loc' = [loc EXCEPT ![p] = NoLocals]
  \/ loc' = [loc EXCEPT ![p].row = r]
  \/ loc' = [loc EXCEPT ![p].sid = n]
  \/ loc' = [loc EXCEPT ![p].seeded = n]
  \/ loc' = [loc EXCEPT ![p].body = n]
  \/ loc' = [loc EXCEPT ![p].row = r, ![p].seq = n]
  \/ loc' = [loc EXCEPT ![p].row = r, ![p].sid = n]
  \/ loc' = [loc EXCEPT ![p].row = r, ![p].seq = n, ![p].body = b]

\* Written in one of these ways, the local variables keep their types.
LEMMA LocalsWritten ==
  ASSUME RequestsOK, NEW p \in Procs, NEW r \in ChatRow, NEW n \in Nat, NEW b \in Nat,
         Assigns(p, r, n, b)
  PROVE  loc' \in [Procs -> Locals]
<1>1. loc \in [Procs -> Locals] /\ loc[p] \in Locals
  BY DEF RequestsOK
<1>2. UNCHANGED loc \/ \E l \in Locals : loc' = [loc EXCEPT ![p] = l]
  <2>. PICK l \in Locals : l = loc[p]
    BY <1>1
  <2>1. CASE loc' = [loc EXCEPT ![p] = NoLocals]
    BY <2>1, NewRows
  <2>2. CASE loc' = [loc EXCEPT ![p].row = r]
    BY <1>1, <2>2, LocalSets
  <2>3. CASE loc' = [loc EXCEPT ![p].sid = n]
    BY <1>1, <2>3, LocalSets
  <2>4. CASE loc' = [loc EXCEPT ![p].seeded = n]
    BY <1>1, <2>4, LocalSets
  <2>5. CASE loc' = [loc EXCEPT ![p].body = n]
    BY <1>1, <2>5, LocalSets
  <2>6. CASE loc' = [loc EXCEPT ![p].row = r, ![p].seq = n]
    <3>1. PICK m \in Locals : m = [l EXCEPT !.row = r, !.seq = n]
      BY LocalSets
    <3>. QED  BY <1>1, <2>6, <3>1
  <2>7. CASE loc' = [loc EXCEPT ![p].row = r, ![p].sid = n]
    <3>1. PICK m \in Locals : m = [l EXCEPT !.row = r, !.sid = n]
      BY LocalSets
    <3>. QED  BY <1>1, <2>7, <3>1
  <2>8. CASE loc' = [loc EXCEPT ![p].row = r, ![p].seq = n, ![p].body = b]
    <3>1. PICK m \in Locals : m = [l EXCEPT !.row = r, !.seq = n, !.body = b]
      BY LocalSets
    <3>. QED  BY <1>1, <2>8, <3>1
  <2>. QED  BY <2>1, <2>2, <2>3, <2>4, <2>5, <2>6, <2>7, <2>8 DEF Assigns
<1>. QED  BY <1>1, <1>2

\* The steps that write local variables, other than on leaving.
LEMMA LocalsWriters ==
  ASSUME NEW p \in Procs, Step(p)
  PROVE  \/ UNCHANGED loc \/ loc' = [loc EXCEPT ![p] = NoLocals]
         \/ BeginSend(p) \/ BeginSwipe(p) \/ BeginCompact(p) \/ BeginProvider(p)
         \/ SendStart(p) \/ SwipeStart(p) \/ OpenStart(p)
         \/ SendReply(p) \/ SwipeReply(p) \/ OpenReply(p)
         \/ SwipeSeed(p) \/ ReseedSeed(p) \/ ProviderSession(p)
         \/ SelectVariant(p) \/ EditMessage(p) \/ EditVariant(p)
         \/ GreetInsert(p) \/ GreetSeed(p) \/ OpenLoad(p) \/ ForkLoad(p) \/ ForkRow(p)
BY DEF Step, SendStep, CompactStep, SwipeStep, ReseedStep, StartStep, EditStep, BranchStep,
       SendInsert, SendFails, SendRollback, SendPersist, SendUpdate, SendThrows, CompactNothing,
       CompactTurn, CompactFails, CompactPersist, SwipeFails, SwipeAbandon, SwipeBackfill,
       SwipeVariant, SwipeMessage, SwipeDrop, SwipeUpdate, ReseedDrop, ReseedPoint, StartRow,
       GreetThrows, GreetUpdate, StartSend, OpenFails, OpenInsert, OpenUpdate, DeleteChat,
       PatchChat, ForkRead, ForkMessages, ForkSeed, ProviderUpdate, Refuse, Deny, FailTurn,
       Leave, Return

\* Every step keeps the types of the local variables.
LEMMA LocalsStep ==
  ASSUME CanonInv, NEW p \in Procs, Step(p)
  PROVE  loc' \in [Procs -> Locals]
<1>0. /\ RequestsOK /\ MessagesOK /\ CanonRuns /\ nextSession \in Nat /\ nextBody \in Nat
      /\ chatOf(p) \in ChatIds /\ chats[chatOf(p)] \in ChatRow /\ loc[p].row \in ChatRow
      /\ loc[p].row.session \in Nat /\ loc[p].seeded \in Nat
      /\ chats[chatOf(p)].session \in Nat /\ MaxSeq(chatOf(p)) \in Nat
  <2>1. loc[p].row \in ChatRow /\ chats[chatOf(p)] \in ChatRow
    BY Busy, Rows, LocalsAre DEF CanonInv, TypeOK
  <2>. QED  BY <2>1, Busy, Rows, LocalsAre, ChatRowIs DEF CanonInv, TypeOK, RequestsOK
<1>1. PICK r \in ChatRow : r = chats[chatOf(p)]
  BY <1>0
<1>2. PICK n \in Nat : n = nextSession
  BY <1>0
<1>3. PICK b \in Nat : b = nextBody
  BY <1>0
<1>4. CASE UNCHANGED loc \/ loc' = [loc EXCEPT ![p] = NoLocals]
  <2>1. Assigns(p, r, n, b)
    BY <1>4 DEF Assigns
  <2>. QED  BY <1>0, <2>1, LocalsWritten
<1>5. CASE BeginSend(p) \/ BeginSwipe(p)
  <2>1. PICK s \in Nat : s = MaxSeq(chatOf(p)) + (IF BeginSend(p) THEN 1 ELSE 0)
    BY <1>0
  <2>2. loc' = [loc EXCEPT ![p].row = r, ![p].seq = s]
    BY <1>0, <1>1, <1>5, <2>1 DEF BeginSend, BeginSwipe
  <2>3. Assigns(p, r, s, b)
    BY <2>2 DEF Assigns
  <2>. QED  BY <1>0, <2>3, LocalsWritten
<1>6. CASE BeginCompact(p) \/ BeginProvider(p)
  <2>1. PICK s \in Nat : s = chats[chatOf(p)].session
    BY <1>0
  <2>2. Assigns(p, r, s, b)
    BY <1>1, <1>6, <2>1 DEF BeginCompact, BeginProvider, Assigns
  <2>. QED  BY <1>0, <2>2, LocalsWritten
<1>7. ASSUME NEW s \in Nat, NEW prompt, Opens(p, s, prompt) PROVE loc' \in [Procs -> Locals]
  <2>1. Assigns(p, r, s, b) \/ Assigns(p, r, n, b)
    BY <1>2, <1>7 DEF Opens, Assigns
  <2>. QED  BY <1>0, <2>1, LocalsWritten
<1>8. CASE SendStart(p) \/ SwipeStart(p) \/ OpenStart(p)
  <2>1. PICK s \in Nat : \E prompt : Opens(p, s, prompt) \/ UNCHANGED loc
    BY <1>0, <1>8 DEF SendStart, SwipeStart, OpenStart, StartTurn
  <2>. QED  BY <1>4, <1>7, <2>1
<1>9. CASE SendReply(p) \/ SwipeReply(p) \/ OpenReply(p) \/ GreetInsert(p)
  <2>1. Assigns(p, r, b, b)
    BY <1>3, <1>9 DEF SendReply, SwipeReply, OpenReply, GreetInsert, EndTurn, Return, Assigns
  <2>. QED  BY <1>0, <2>1, LocalsWritten
<1>10. CASE SwipeSeed(p) \/ ReseedSeed(p) \/ GreetSeed(p) \/ ForkRow(p)
  <2>1. Assigns(p, r, n, b)
    BY <1>2, <1>10 DEF SwipeSeed, ReseedSeed, SeedFromCanon, GreetSeed, ForkRow, Assigns
  <2>. QED  BY <1>0, <2>1, LocalsWritten
<1>11. CASE ProviderSession(p)
  <2>1. PICK zero \in Nat : zero = 0
    OBVIOUS
  <2>2. Assigns(p, r, n, b) \/ Assigns(p, r, zero, b)
    BY <1>2, <1>11, <2>1 DEF ProviderSession, SeedFromCanon, Assigns
  <2>. QED  BY <1>0, <2>2, LocalsWritten
<1>12. CASE SelectVariant(p) \/ OpenLoad(p) \/ ForkLoad(p)
  <2>1. Assigns(p, r, n, b)
    BY <1>1, <1>12 DEF SelectVariant, ReseedOrLeave, OpenLoad, ForkLoad, Leave, Return, Assigns
  <2>. QED  BY <1>0, <2>1, LocalsWritten
<1>13. CASE EditMessage(p)
  <2>1. PICK s \in Named(chatOf(p), req[p].msg) :
          \/ loc' = [loc EXCEPT ![p].row = r, ![p].seq = s, ![p].body = b]
          \/ ReseedOrLeave(p, r)
    BY <1>1, <1>3, <1>13 DEF EditMessage
  <2>2. s \in Nat
    BY <1>0, BehindTip DEF Named, Seqs
  <2>3. Assigns(p, r, s, b)
    BY <2>1 DEF ReseedOrLeave, Leave, Assigns
  <2>. QED  BY <1>0, <2>2, <2>3, LocalsWritten
<1>14. CASE EditVariant(p)
  <2>1. PICK row \in ChatRow : row = loc[p].row
    BY <1>0
  <2>2. Assigns(p, row, n, b)
    BY <1>14, <2>1 DEF EditVariant, ReseedOrLeave, Leave, Assigns
  <2>. QED  BY <1>0, <2>2, LocalsWritten
<1>. QED  BY <1>4, <1>5, <1>6, <1>8, <1>9, <1>10, <1>11, <1>12, <1>13, <1>14, LocalsWriters

-----------------------------------------------------------------------------
(***************************************************************************)
(* The forks in flight.                                                    *)
(***************************************************************************)
\* Every request slot keeps room for a copied canon.
LEMMA CopiesDomain ==
  ASSUME DOMAIN copy = Procs, NEW p \in Procs, Step(p)
  PROVE  DOMAIN copy' = Procs
BY DEF Step, BranchStep, ForkLoad, ForkRead, ForkRow, ForkMessages, ForkSeed, BeginProvider,
       ProviderSession, ProviderUpdate

\* How a request comes to the steps of a fork, and which of them reads the canon.
LEMMA ForksArrive ==
  ASSUME CanonInv, NEW p \in Procs, Step(p), pc'[p] \in ForkSteps
  PROVE  /\ pc[p] \in ForkSteps /\ req'[p] = req[p]
         /\ \/ ForkRead(p)
            \/ /\ pc'[p] # "fork.read" => pc[p] \in ForkSteps \ {"fork.load", "fork.read"}
               /\ copy'[p] = copy[p]
<1>1. DOMAIN pc = Procs
  BY DEF CanonInv, LineInv, Shapes
<1>2. ForkLoad(p) \/ ForkRead(p) \/ ForkRow(p) \/ ForkMessages(p)
  BY <1>1 DEF ForkSteps, Step, SendStep, CompactStep, SwipeStep, ReseedStep, StartStep, EditStep,
       BranchStep, BeginSend, SendInsert, SendStart, SendReply, SendFails, SendRollback,
       SendPersist, SendUpdate, SendThrows, BeginCompact, CompactNothing, CompactTurn,
       CompactFails, CompactPersist, BeginSwipe, SwipeSeed, SwipeStart, SwipeReply, SwipeFails,
       SwipeAbandon, SwipeBackfill, SwipeVariant, SwipeMessage, SwipeDrop, SwipeUpdate,
       SelectVariant, ReseedDrop, ReseedSeed, ReseedPoint, StartRow, GreetInsert, GreetSeed,
       GreetThrows, GreetUpdate, StartSend, OpenLoad, OpenStart, OpenReply, OpenFails, OpenInsert,
       OpenUpdate, EditMessage, EditVariant, DeleteChat, PatchChat, ForkSeed, BeginProvider,
       ProviderSession, ProviderUpdate, Refuse, Deny, At, Granted, StartTurn, EndTurn, FailTurn,
       ReseedOrLeave, SeedFromCanon, Leave, Return
<1>3. pc'[p] # "idle"
  BY DEF ForkSteps
<1>. QED  BY <1>1, <1>2, <1>3 DEF ForkLoad, ForkRead, ForkRow, ForkMessages, At, Return, ForkSteps

\* The part of a canon up to a seq is a canon of its own.
LEMMA RunPrefix ==
  ASSUME NEW S, Run(S), NEW at \in Nat \ {0}, NEW R, R = {s \in S : s <= at}, R # {}
  PROVE  Run(R)
<1>0. S # {}
  OBVIOUS
<1>1. PICK first \in {0, 1}, last \in Nat \ {0} : S = first..last
  BY <1>0, RunIs
<1>2. PICK to \in Nat \ {0} : to = IF last <= at THEN last ELSE at
  OBVIOUS
<1>3. R = first..to
  BY <1>1, <1>2
<1>4. Run(first..to)
  BY IsRun
<1>. QED  BY <1>3, <1>4

\* What forkChat reads is a canon of its own.
LEMMA ForkReads ==
  ASSUME CanonInv, NEW p \in Procs, ForkRead(p), pc'[p] \in ForkSteps
  PROVE  /\ MessageTable(copy'[p]) /\ Alternates(copy'[p])
         /\ Run(DOMAIN copy'[p]) /\ DOMAIN copy'[p] # {}
<1>1. pc[p] \in ForkSteps /\ pc[p] # "idle" /\ DOMAIN pc = Procs /\ DOMAIN copy = Procs
  BY DEF ForkRead, ForkSteps, CanonInv, LineInv, Shapes, ForksCopy
<1>2. PICK c \in ChatIds, at \in Nat \ {0} : c = chatOf(p) /\ at = req[p].seq
  <2>1. req[p].seq \in Nat /\ req[p].seq >= 1
    BY <1>1, RequestIs DEF CanonInv, TypeOK, ForksCopy
  <2>. QED  BY <1>1, <2>1, Rows
<1>3. /\ MessageTable(messages[c]) /\ Alternates(messages[c]) /\ Run(Seqs(c))
      /\ Seqs(c) = DOMAIN messages[c]
  BY DEF CanonInv, TypeOK, MessagesOK, CanonRuns, CanonAlternates, Seqs
<1>4. PICK R : R = {s \in Seqs(c) : s <= at}
  OBVIOUS
<1>5. PICK t : /\ R # {} /\ copy' = [copy EXCEPT ![p] = t]
               /\ t = [s \in R |-> CopyOf(messages[c][s])]
  <2>1. PICK t : t = [s \in R |-> CopyOf(messages[c][s])]
    OBVIOUS
  <2>2. ~Return(p)
    BY <1>1 DEF Return, ForkSteps
  <2>3. R # {} /\ copy' = [copy EXCEPT ![p] = t]
    BY <1>2, <1>4, <2>1, <2>2, Zenon DEF ForkRead
  <2>. QED  BY <2>1, <2>3
<1>6. \A s \in R : t[s] \in Message /\ t[s].role = messages[c][s].role /\ s \in Nat
  <2>. TAKE s \in R
  <2>1. /\ s \in DOMAIN messages[c] /\ s \in Nat /\ messages[c][s].body \in Nat
        /\ messages[c][s].role \in {"user", "assistant"}
    BY <1>3, <1>4, RowIs
  <2>2. t[s] = CopyOf(messages[c][s])
    BY <1>5
  <2>3. messages[c][s] \in Message
    BY <1>3, <2>1 DEF MessageTable
  <2>. QED  BY <2>1, <2>2, <2>3, CopyIs
<1>7. DOMAIN t = R /\ copy'[p] = t
  BY <1>1, <1>5
<1>8. Run(R)
  BY <1>3, <1>4, <1>5, RunPrefix
<1>9. Alternates(t)
  BY <1>3, <1>4, <1>6, <1>7 DEF Alternates
<1>10. MessageTable(t)
  BY <1>6, <1>7 DEF MessageTable
<1>. QED  BY <1>5, <1>7, <1>8, <1>9, <1>10

\* Every fork in flight carries one.
LEMMA ForksStep ==
  ASSUME CanonInv, NEW p \in Procs, Step(p)
  PROVE  ForksCopy'
<1>1. DOMAIN copy' = Procs
  BY CopiesDomain DEF CanonInv, ForksCopy
<1>2. ASSUME NEW q \in Procs, pc'[q] \in ForkSteps
      PROVE  req'[q].target \in ChatIds /\ req'[q].seq >= 1
  <2>1. pc[q] \in ForkSteps /\ req'[q] = req[q]
    BY <1>2, ForksArrive, OthersStay
  <2>. QED  BY <2>1 DEF CanonInv, ForksCopy
<1>3. ASSUME NEW q \in Procs, pc'[q] \in ForkSteps \ {"fork.load", "fork.read"}
      PROVE  /\ MessageTable(copy'[q]) /\ Alternates(copy'[q])
             /\ Run(DOMAIN copy'[q]) /\ DOMAIN copy'[q] # {}
  <2>1. CASE q = p /\ ForkRead(p)
    BY <1>3, <2>1, ForkReads
  <2>2. CASE ~(q = p /\ ForkRead(p))
    <3>1. pc[q] \in ForkSteps \ {"fork.load", "fork.read"} /\ copy'[q] = copy[q]
      BY <1>3, <2>2, ForksArrive, OthersStay
    <3>. QED  BY <3>1 DEF CanonInv, ForksCopy
  <2>. QED  BY <2>1, <2>2
<1>. QED  BY <1>1, <1>2, <1>3 DEF ForksCopy

-----------------------------------------------------------------------------
(***************************************************************************)
(* Every step.                                                             *)
(***************************************************************************)
\* Every step of a request in flight keeps the invariant.
LEMMA StepKeepsCanon ==
  ASSUME CanonInv, NEW p \in Procs, Step(p)
  PROVE  CanonInv'
<1>1. LineInv'
  BY NextKeepsLine DEF Next, CanonInv
<1>2. RequestsOK'
  BY <1>1, CountersStep, ParametersStep, LocalsStep DEF RequestsOK, LineInv, Shapes
<1>3. MessagesOK' /\ CanonRuns' /\ CanonAlternates'
  BY MessagesStep DEF CanonStays
<1>4. ChatsOK' /\ SessionsOK' /\ ForksCopy' /\ SendsAtTip'
  BY <1>2, ChatsStep, SessionsStep, ForksStep, SendsStep
<1>. QED  BY <1>1, <1>2, <1>3, <1>4 DEF CanonInv, TypeOK

\* A request that arrives has written nothing yet.
LEMMA ArrivalKeepsCanon ==
  ASSUME CanonInv, LineInv', NEW p \in Procs, NEW r \in Request,
         NEW there \in {"wait", "start.row", "fork.load"}, Arrives(p, r, there),
         there = "fork.load" => r.target \in ChatIds /\ r.seq >= 1
  PROVE  CanonInv'
<1>1. /\ UNCHANGED <<chats, messages, sessions, loc, copy, nextBody, nextSession>>
      /\ pc' = [pc EXCEPT ![p] = there] /\ req' = [req EXCEPT ![p] = r]
  BY DEF Arrives, tables, ids
<1>2. DOMAIN pc = Procs /\ req \in [Procs -> Request]
  BY DEF CanonInv, LineInv, Shapes, TypeOK, RequestsOK
<1>3. RequestsOK'
  BY <1>1, <1>2 DEF CanonInv, TypeOK, RequestsOK, LineInv, Shapes
<1>4. ChatsOK' /\ MessagesOK' /\ SessionsOK' /\ CanonRuns' /\ CanonAlternates'
  BY <1>1 DEF CanonInv, TypeOK, ChatsOK, MessagesOK, SessionsOK, CanonRuns, CanonAlternates, Seqs
<1>5. SendsAtTip'
  BY <1>1, <1>2 DEF CanonInv, SendsAtTip, SendAtTip, Unanswered, Seqs, MaxSeq, chatOf
<1>6. ForksCopy'
  BY <1>1, <1>2 DEF CanonInv, ForksCopy, ForkSteps
<1>. QED  BY <1>3, <1>4, <1>5, <1>6 DEF CanonInv, TypeOK

\* The parameters of the requests clients make.
LEMMA RequestSets ==
  ASSUME NEW kind \in Kinds, NEW c \in ChatIds
  PROVE  LET r == [NoRequest EXCEPT !.kind = kind, !.chat = c] IN
         /\ r \in Request
         /\ \A n \in Nat, seen \in Seq(Nat) :
              [NoRequest EXCEPT !.kind = kind, !.chat = c, !.expected = n, !.seen = seen] \in Request
         /\ \A n \in Nat :
              [NoRequest EXCEPT !.kind = kind, !.chat = c, !.msg = n] \in Request
         /\ \A n, k \in Nat :
              [NoRequest EXCEPT !.kind = kind, !.chat = c, !.msg = n, !.variant = k] \in Request
         /\ \A api \in Apis :
              [NoRequest EXCEPT !.kind = kind, !.chat = c, !.api = api] \in Request
<1>1. NoRequest \in Request
  BY NewRows
<1>. QED  BY <1>1 DEF Request

\* The parameters of a fork.
LEMMA ForkRequestIs ==
  ASSUME NEW kind \in Kinds, NEW c \in ChatIds, NEW d \in ChatIds, NEW n \in Nat, NEW api \in Apis
  PROVE  [NoRequest EXCEPT !.kind = kind, !.chat = c, !.target = d, !.seq = n, !.api = api] \in Request
<1>1. NoRequest \in Request
  BY NewRows
<1>. QED  BY <1>1 DEF Request

\* Any request of a client.
LEMMA CallKeepsCanon ==
  ASSUME CanonInv, NEW p \in Procs, Call(p)
  PROVE  CanonInv'
<1>0. LineInv' /\ MessagesOK /\ CanonRuns
  BY NextKeepsLine DEF Next, CanonInv, TypeOK
<1>1. \E r \in Request, there \in {"wait", "start.row", "fork.load"} :
        /\ Arrives(p, r, there)
        /\ there = "fork.load" => r.target \in ChatIds /\ r.seq >= 1
  <2>. PICK kind \in Kinds, c \in ChatIds :
         \/ CallTurn(p, c, kind)
         \/ kind = "edit" /\ CallEdit(p, c)
         \/ kind = "select" /\ CallSelect(p, c)
         \/ kind = "provider" /\ CallProvider(p, c)
         \/ CallSimple(p, c, kind)
         \/ CallStart(p, c, kind)
         \/ kind = "fork" /\ CallFork(p, c)
    BY KindsAssumption DEF Call, LockKinds, StartKinds
  <2>0. "wait" \in {"wait", "start.row", "fork.load"} /\ "wait" # "fork.load"
        /\ "start.row" \in {"wait", "start.row", "fork.load"} /\ "start.row" # "fork.load"
    OBVIOUS
  <2>1. CASE CallTurn(p, c, kind)
    <3>1. PICK n \in Nat, seen \in Seq(Nat) : n = MaxSeq(c) /\ seen = Shown(c)
      BY <1>0, CanonType, BehindTip
    <3>2. PICK r \in Request :
            r = [NoRequest EXCEPT !.kind = kind, !.chat = c, !.expected = n, !.seen = seen]
      BY RequestSets
    <3>3. Arrives(p, r, "wait")
      BY <2>1, <3>1, <3>2 DEF CallTurn, ArrivesAtLock
    <3>. QED  BY <2>0, <3>3, Zenon
  <2>2. CASE kind = "edit" /\ CallEdit(p, c)
    <3>1. PICK s \in Seqs(c) :
            ArrivesAtLock(p, c, [NoRequest EXCEPT !.kind = "edit", !.chat = c,
                                                  !.msg = messages[c][s].id])
      BY <2>2 DEF CallEdit
    <3>2. PICK n \in Nat : n = messages[c][s].id
      BY <1>0, RowIs DEF MessagesOK, Seqs
    <3>3. PICK r \in Request : r = [NoRequest EXCEPT !.kind = kind, !.chat = c, !.msg = n]
      BY RequestSets
    <3>4. Arrives(p, r, "wait")
      BY <2>2, <3>1, <3>2, <3>3 DEF ArrivesAtLock
    <3>. QED  BY <2>0, <3>4, Zenon
  <2>3. CASE kind = "select" /\ CallSelect(p, c)
    <3>0. PICK s \in Seqs(c) : \E k \in DOMAIN messages[c][s].variants :
            ArrivesAtLock(p, c, [NoRequest EXCEPT !.kind = "select", !.chat = c,
                                                  !.msg = messages[c][s].id, !.variant = k])
      BY <2>3, Zenon DEF CallSelect
    <3>1. PICK k \in DOMAIN messages[c][s].variants :
            ArrivesAtLock(p, c, [NoRequest EXCEPT !.kind = "select", !.chat = c,
                                                  !.msg = messages[c][s].id, !.variant = k])
      BY <3>0
    <3>2. PICK n \in Nat, v \in Seq(Nat) : n = messages[c][s].id /\ v = messages[c][s].variants
      BY <1>0, RowIs DEF MessagesOK, Seqs
    <3>3. k \in Nat
      BY <3>2
    <3>4. PICK r \in Request :
            r = [NoRequest EXCEPT !.kind = kind, !.chat = c, !.msg = n, !.variant = k]
      BY <3>3, RequestSets
    <3>5. Arrives(p, r, "wait")
      BY <2>3, <3>1, <3>2, <3>4 DEF ArrivesAtLock
    <3>. QED  BY <2>0, <3>5, Zenon
  <2>4. CASE kind = "provider" /\ CallProvider(p, c)
    <3>1. PICK api \in Apis :
            ArrivesAtLock(p, c, [NoRequest EXCEPT !.kind = "provider", !.chat = c, !.api = api])
      BY <2>4 DEF CallProvider
    <3>2. PICK r \in Request : r = [NoRequest EXCEPT !.kind = kind, !.chat = c, !.api = api]
      BY RequestSets
    <3>3. Arrives(p, r, "wait")
      BY <2>4, <3>1, <3>2 DEF ArrivesAtLock
    <3>. QED  BY <2>0, <3>3, Zenon
  <2>5. CASE CallSimple(p, c, kind)
    <3>1. PICK r \in Request : r = [NoRequest EXCEPT !.kind = kind, !.chat = c]
      BY RequestSets
    <3>2. Arrives(p, r, "wait")
      BY <2>5, <3>1 DEF CallSimple, ArrivesAtLock
    <3>. QED  BY <2>0, <3>2, Zenon
  <2>6. CASE CallStart(p, c, kind)
    <3>1. PICK api \in Apis :
            Arrives(p, [NoRequest EXCEPT !.kind = kind, !.chat = c, !.api = api], "start.row")
      BY <2>6 DEF CallStart
    <3>2. PICK r \in Request : r = [NoRequest EXCEPT !.kind = kind, !.chat = c, !.api = api]
      BY RequestSets
    <3>3. Arrives(p, r, "start.row")
      BY <3>1, <3>2
    <3>. QED  BY <2>0, <3>3, Zenon
  <2>7. CASE kind = "fork" /\ CallFork(p, c)
    <3>1. PICK d \in ChatIds, s \in Seqs(c), api \in Apis :
            /\ s >= 1
            /\ Arrives(p, [NoRequest EXCEPT !.kind = "fork", !.chat = c, !.target = d,
                                            !.seq = s, !.api = api], "fork.load")
      BY <2>7, Zenon DEF CallFork
    <3>2. s \in Nat
      BY <1>0, BehindTip
    <3>3. PICK r \in Request :
            r = [NoRequest EXCEPT !.kind = kind, !.chat = c, !.target = d, !.seq = s, !.api = api]
      BY <3>2, ForkRequestIs
    <3>6. r.target = d /\ r.seq = s
      BY <3>3 DEF NoRequest
    <3>4. Arrives(p, r, "fork.load") /\ r.target \in ChatIds /\ r.seq >= 1
      BY <2>7, <3>1, <3>3, <3>6
    <3>5. "fork.load" \in {"wait", "start.row", "fork.load"}
      OBVIOUS
    <3>. QED  BY <3>4, <3>5, Zenon
  <2>. QED  BY <2>1, <2>2, <2>3, <2>4, <2>5, <2>6, <2>7
<1>2. PICK r \in Request, there \in {"wait", "start.row", "fork.load"} :
        /\ Arrives(p, r, there)
        /\ there = "fork.load" => r.target \in ChatIds /\ r.seq >= 1
  BY <1>1
<1>. QED  BY <1>0, <1>2, ArrivalKeepsCanon

\* A restart keeps the tables and forgets the requests.
LEMMA RestartKeepsCanon ==
  ASSUME CanonInv, Restart
  PROVE  CanonInv'
<1>1. LineInv'
  BY NextKeepsLine DEF Next, CanonInv
<1>2. /\ UNCHANGED <<chats, messages, sessions, nextBody, nextSession>>
      /\ queue' = [c \in ChatIds |-> <<>>] /\ pc' = [p \in Procs |-> "idle"]
      /\ req' = [p \in Procs |-> NoRequest] /\ loc' = [p \in Procs |-> NoLocals]
      /\ copy' = [p \in Procs |-> <<>>]
  BY DEF Restart, tables, ids
<1>3. RequestsOK'
  BY <1>1, <1>2, NewRows DEF CanonInv, TypeOK, RequestsOK, LineInv, Shapes
<1>4. ChatsOK' /\ MessagesOK' /\ SessionsOK' /\ CanonRuns' /\ CanonAlternates'
  BY <1>2 DEF CanonInv, TypeOK, ChatsOK, MessagesOK, SessionsOK, CanonRuns, CanonAlternates, Seqs
<1>5. SendsAtTip' /\ ForksCopy'
  BY <1>2 DEF SendsAtTip, SendAtTip, ForksCopy, Unanswered, ForkSteps
<1>. QED  BY <1>1, <1>3, <1>4, <1>5 DEF CanonInv, TypeOK

\* CanonInv is inductive.
LEMMA NextKeepsCanon ==
  ASSUME CanonInv, [Next]_vars
  PROVE  CanonInv'
<1>1. CASE UNCHANGED vars
  <2>1. LineInv'
    BY NextKeepsLine DEF CanonInv
  <2>2. UNCHANGED <<chats, messages, sessions, queue, pc, req, loc, copy, nextBody, nextSession>>
    BY <1>1 DEF vars, storeVars
  <2>3. ChatsOK' /\ MessagesOK' /\ SessionsOK' /\ RequestsOK' /\ CanonRuns' /\ CanonAlternates'
    BY <2>2 DEF CanonInv, TypeOK, ChatsOK, MessagesOK, SessionsOK, RequestsOK, CanonRuns,
       CanonAlternates, Seqs
  <2>4. SendsAtTip' /\ ForksCopy'
    BY <2>2 DEF CanonInv, SendsAtTip, SendAtTip, ForksCopy, Seqs, MaxSeq, chatOf
  <2>. QED  BY <2>1, <2>3, <2>4 DEF CanonInv, TypeOK
<1>. QED  BY <1>1, StepKeepsCanon, CallKeepsCanon, RestartKeepsCanon DEF Next

\* At the start there are the imported chats and nobody is in a line.
LEMMA InitCanon == Init => CanonInv
<1>. SUFFICES ASSUME Init PROVE CanonInv
  OBVIOUS
<1>1. \A s \in 0..2 : ImportedCanon[s] \in Message
        /\ ImportedCanon[s].role = (IF s = 1 THEN "user" ELSE "assistant")
  BY NewMessageIs DEF ImportedCanon
<1>2. DOMAIN ImportedCanon = 0..2 /\ MessageTable(ImportedCanon) /\ Alternates(ImportedCanon)
  BY <1>1 DEF ImportedCanon, MessageTable, Alternates
<1>3. ASSUME NEW c \in ChatIds
      PROVE  MessageTable(messages[c]) /\ Alternates(messages[c]) /\ Run(Seqs(c))
  <2>1. CASE messages[c] = ImportedCanon
    <3>1. 2 \in (0..2) \ {0} /\ Run(0..2)
      BY DEF Run
    <3>. QED  BY <1>2, <2>1, <3>1 DEF Seqs
  <2>2. CASE messages[c] = <<>>
    BY <2>2 DEF MessageTable, Alternates, Run, Seqs
  <2>. QED  BY <2>1, <2>2 DEF Init
<1>4. MessagesOK /\ CanonRuns /\ CanonAlternates
  BY <1>3 DEF Init, MessagesOK, CanonRuns, CanonAlternates
<1>5. ChatsOK
  <2>1. PICK r \in ChatRow : r = NewChat("agent-sdk")
    BY NewRows DEF Apis
  <2>2. [r EXCEPT !.count = 3] \in ChatRow
    BY DEF ChatRow
  <2>3. [NewChat("agent-sdk") EXCEPT !.count = 3] \in ChatRow /\ NoChat \in ChatRow
    BY <2>1, <2>2, NewRows
  <2>. QED  BY <2>3 DEF Init, ChatsOK
<1>6. SessionsOK
  BY DEF Init, SessionsOK
<1>7. LineInv
  BY InitLine
<1>8. RequestsOK
  BY <1>7, NewRows DEF Init, RequestsOK, LineInv, Shapes
<1>9. SendsAtTip /\ ForksCopy
  BY DEF Init, SendsAtTip, SendAtTip, ForksCopy, Unanswered, ForkSteps
<1>. QED  BY <1>4, <1>5, <1>6, <1>7, <1>8, <1>9 DEF CanonInv, TypeOK

\* CanonInv holds in every state.
LEMMA CanonAlways == Spec => []CanonInv
<1>1. CanonInv /\ [Next]_vars => CanonInv'
  BY NextKeepsCanon
<1>. QED  BY InitCanon, <1>1, PTL DEF Spec

(***************************************************************************)
(* The tables hold rows of their schema and the requests in flight         *)
(* parameters and values of their types, in every state of the service,    *)
(* for any requests, chats, failures and restarts.                         *)
(***************************************************************************)
THEOREM TablesAreTyped == Spec => []TypeOK
<1>1. CanonInv => TypeOK
  BY DEF CanonInv
<1>. QED  BY <1>1, CanonAlways, PTL

(***************************************************************************)
(* No operation, failure, restart, opening or fork ever leaves a gap in    *)
(* the seqs of a chat: the tip and the number of turns tell the same.      *)
(***************************************************************************)
THEOREM SeqsHaveNoGap == Spec => []CanonContiguous
<1>1. CanonInv => CanonContiguous
  <2>. SUFFICES ASSUME CanonInv, NEW c \in ChatIds
                PROVE  \E first \in {0, 1} : Seqs(c) = first..MaxSeq(c)
    BY DEF CanonContiguous
  <2>1. CanonRuns
    BY DEF CanonInv
  <2>2. CASE Seqs(c) = {}
    <3>1. Seqs(c) = 1..MaxSeq(c)
      BY <2>1, <2>2, TipIs
    <3>. QED  BY <3>1
  <2>3. CASE Seqs(c) # {}
    BY <2>1, <2>3, TipIs
  <2>. QED  BY <2>2, <2>3
<1>. QED  BY <1>1, CanonAlways, PTL

(***************************************************************************)
(* No two replies ever stand in a row: a reply is written behind the user  *)
(* turn its send wrote, which the lock kept at the tip, or as the first    *)
(* turn of an empty chat.                                                  *)
(***************************************************************************)
THEOREM NoTwoRepliesInARow == Spec => []RepliesFollowTurns
<1>1. CanonInv => RepliesFollowTurns
  BY DEF CanonInv, CanonAlternates, Alternates, RepliesFollowTurns, Seqs
<1>. QED  BY <1>1, CanonAlways, PTL
=============================================================================
