------------------------------ MODULE ChatLogProofs ------------------------------
(***************************************************************************)
(* Without forks the chat service implements ChatLog, for any requests,    *)
(* chats, imports, failures and restarts, and for clients that act on a    *)
(* chat at any time: theorem ServiceImplementsLog.                         *)
(***************************************************************************)
EXTENDS ChatSessionProofs

-----------------------------------------------------------------------------
(***************************************************************************)
(* The canon a client may count on, as a function of the chat's table and  *)
(* its answered tip.                                                       *)
(***************************************************************************)
Entry(t, n) == [role |-> t[n].role, body |-> t[n].body]
First(t) == IF 0 \in DOMAIN t THEN 0 ELSE 1
Stretch(t, first, last) == [k \in 1..last - first + 1 |-> Entry(t, first + k - 1)]
Entries(t, last) == Stretch(t, First(t), last)
Filtered(t, S, top) ==
  Lists!FlattenSeq([i \in 1..top + 1 |-> IF i - 1 \in S THEN <<Entry(t, i - 1)>> ELSE <<>>])

\* What is left of a table when only the seqs first..last are kept.
LEMMA KeptEntries ==
  ASSUME NEW t, NEW first \in {0, 1}, NEW last \in Int, last >= first - 1, NEW top \in Nat, last <= top
  PROVE  Filtered(t, first..last, top) = Stretch(t, first, last)
<1>. DEFINE T == {Entry(t, n) : n \in Nat}
            part(n) == IF n \in first..last THEN <<Entry(t, n)>> ELSE <<>>
            parts(n) == [i \in 1..n |-> part(i - 1)]
            upto(n) == IF n - 1 < last THEN n - 1 ELSE last
            kept(n) == [k \in 1..upto(n) - first + 1 |-> Entry(t, first + k - 1)]
            P(n) == Lists!FlattenSeq(parts(n)) = kept(n)
            Bad == {n \in Nat : ~P(n)}
<1>1. \A n \in Nat : Entry(t, n) \in T
  OBVIOUS
<1>2. \A n \in Nat : part(n) \in Seq(T)
  <2>. TAKE n \in Nat
  <2>1. PICK x \in T : x = Entry(t, n)
    BY <1>1
  <2>2. <<x>> \in Seq(T) /\ <<>> \in Seq(T)
    OBVIOUS
  <2>. HIDE DEF T
  <2>. QED  BY <2>1, <2>2
<1>. HIDE DEF T
<1>3. P(0)
  <2>1. parts(0) = <<>>
    OBVIOUS
  <2>2. kept(0) = <<>>
    OBVIOUS
  <2>. HIDE DEF parts, kept
  <2>. QED  BY <2>1, <2>2 DEF Lists!FlattenSeq
<1>4. ASSUME NEW n \in Nat, P(n) PROVE P(n + 1)
  <2>1. parts(n) \in Seq(Seq(T)) /\ part(n) \in Seq(T) /\ Len(parts(n)) = n
    <3>1. \A i \in 1..n : part(i - 1) \in Seq(T)
      BY <1>2
    <3>. HIDE DEF part
    <3>. QED  BY <1>2, <3>1
  <2>2. parts(n + 1) = Append(parts(n), part(n))
    <3>1. \A i \in 1..n + 1 : part(i - 1) \in Seq(T)
      BY <1>2
    <3>. HIDE DEF part
    <3>2. parts(n + 1) \in Seq(Seq(T)) /\ Len(parts(n + 1)) = n + 1
      BY <3>1
    <3>3. /\ Append(parts(n), part(n)) \in Seq(Seq(T)) /\ Len(Append(parts(n), part(n))) = n + 1
          /\ Append(parts(n), part(n))[n + 1] = part(n)
          /\ \A i \in 1..n : Append(parts(n), part(n))[i] = parts(n)[i]
      <4>. HIDE DEF parts
      <4>. QED  BY <2>1, AppendProperties
    <3>4. ASSUME NEW i \in 1..n + 1 PROVE parts(n + 1)[i] = Append(parts(n), part(n))[i]
      <4>1. CASE i = n + 1
        BY <3>3, <4>1
      <4>2. CASE i # n + 1
        <5>1. i \in 1..n
          BY <4>2
        <5>. QED  BY <3>3, <5>1
      <4>. QED  BY <4>1, <4>2
    <3>. HIDE DEF parts
    <3>. QED  BY <3>2, <3>3, <3>4, SeqEqual
  <2>3. Lists!FlattenSeq(parts(n + 1)) = kept(n) \o part(n)
    <3>. HIDE DEF parts, part, kept
    <3>. QED  BY <1>4, <2>1, <2>2, FlatStep
  <2>4. kept(n) \o part(n) = kept(n + 1)
    <3>1. CASE n \in first..last
      <4>1. upto(n) = n - 1 /\ upto(n + 1) = n /\ part(n) = <<Entry(t, n)>> /\ n - first \in Nat
        BY <3>1
      <4>2. PICK m \in Nat : m = n - first
        BY <4>1
      <4>3. kept(n) = [k \in 1..m |-> Entry(t, first + k - 1)]
        BY <4>1, <4>2
      <4>4. kept(n + 1) = [k \in 1..m + 1 |-> Entry(t, first + k - 1)]
        BY <4>1, <4>2
      <4>5. first + (m + 1) - 1 = n
        BY <4>2
      <4>. HIDE DEF kept, part, upto
      <4>. QED  BY <4>1, <4>3, <4>4, <4>5
    <3>2. CASE n \notin first..last
      <4>1. kept(n + 1) = kept(n) /\ part(n) = <<>>
        BY <3>2
      <4>2. kept(n) \in Seq(T)
        BY <1>1
      <4>. HIDE DEF kept, part
      <4>. QED  BY <4>1, <4>2
    <3>. QED  BY <3>1, <3>2
  <2>. QED  BY <2>3, <2>4
<1>5. P(top + 1)
  <2>. HIDE DEF P
  <2>1. Bad = {}
    <3>. SUFFICES ASSUME Bad # {} PROVE FALSE
      OBVIOUS
    <3>1. Bad \in SUBSET Nat
      OBVIOUS
    <3>2. PICK n \in Bad : \A m \in Bad : n <= m
      BY <3>1, LeastNatural
    <3>3. n # 0
      BY <1>3, <3>2
    <3>4. PICK m \in Nat : m + 1 = n /\ m \notin Bad
      BY <3>2, <3>3
    <3>. QED  BY <1>4, <3>2, <3>4
  <2>. QED  BY <2>1
<1>6. upto(top + 1) = last
  OBVIOUS
<1>. QED  BY <1>5, <1>6 DEF Filtered, Stretch

\* The first seq of a table, and the seqs a client may count on.
LEMMA CountedSeqs ==
  ASSUME CanonInv, NEW c \in ChatIds
  PROVE  /\ First(messages[c]) \in {0, 1} /\ AnsweredTip(c) \in Nat /\ MaxSeq(c) \in Nat
         /\ First(messages[c]) - 1 <= AnsweredTip(c) /\ AnsweredTip(c) <= MaxSeq(c)
         /\ Seqs(c) = First(messages[c])..MaxSeq(c)
         /\ Seqs(c) \ InFlight(c) = First(messages[c])..AnsweredTip(c)
<1>1. /\ AnsweredTip(c) \in Nat /\ MaxSeq(c) \in Nat /\ CanonRuns
      /\ AnsweredTip(c) = IF Asked(c) THEN MaxSeq(c) - 1 ELSE MaxSeq(c)
  BY AnsweredIs DEF CanonInv, AnsweredTip
<1>2. First(messages[c]) \in {0, 1} /\ Seqs(c) = First(messages[c])..MaxSeq(c)
  <2>1. CASE Seqs(c) = {}
    BY <2>1, <1>1, TipIs DEF First, Seqs
  <2>2. CASE Seqs(c) # {}
    BY <2>2, <1>1, TipIs DEF First, Seqs
  <2>. QED  BY <2>1, <2>2
<1>3. ASSUME NEW q \in Procs, pc[q] \in Unanswered, chatOf(q) = c
      PROVE  /\ loc[q].seq = MaxSeq(c) /\ MaxSeq(c) \in Seqs(c)
             /\ MaxSeq(c) >= 1 /\ (MaxSeq(c) = 1 => 0 \notin Seqs(c))
  BY <1>3 DEF CanonInv, SendsAtTip, SendAtTip
<1>4. InFlight(c) = IF Asked(c) THEN {MaxSeq(c)} ELSE {}
  BY <1>3 DEF InFlight, Asked, Unanswered
<1>5. Asked(c) => MaxSeq(c) \in Seqs(c)
  BY <1>3 DEF Asked
<1>. QED  BY <1>1, <1>2, <1>4, <1>5

LEMMA CommittedIs ==
  CanonInv => \A c \in ChatIds : Committed(c) = Entries(messages[c], AnsweredTip(c))
<1>. SUFFICES ASSUME CanonInv, NEW c \in ChatIds
              PROVE  Committed(c) = Entries(messages[c], AnsweredTip(c))
  OBVIOUS
<1>0. PICK t : t = messages[c]
  OBVIOUS
<1>1. PICK first \in {0, 1}, last \in Int, top \in Nat :
         top = MaxSeq(c) /\ first = First(t) /\ last = AnsweredTip(c)
  BY <1>0, CountedSeqs
<1>2. last >= first - 1 /\ last <= top /\ Seqs(c) \ InFlight(c) = first..last
  BY <1>0, <1>1, CountedSeqs
<1>3. Committed(c) = Filtered(t, first..last, top)
  BY <1>0, <1>1, <1>2, Zenon DEF Committed, Filtered, Entry
<1>4. Filtered(t, first..last, top) = Stretch(t, first, last)
  BY <1>2, KeptEntries
<1>. QED  BY <1>0, <1>1, <1>3, <1>4 DEF Entries

LEMMA CommittedWillBe ==
  (CanonInv => \A c \in ChatIds : Committed(c) = Entries(messages[c], AnsweredTip(c)))'
BY CommittedIs, PTL

LEMMA SeqsWillBe ==
  (CanonInv => \A c \in ChatIds : Seqs(c) = First(messages[c])..MaxSeq(c) /\ MaxSeq(c) \in Nat)'
<1>1. CanonInv => \A c \in ChatIds : Seqs(c) = First(messages[c])..MaxSeq(c) /\ MaxSeq(c) \in Nat
  BY CountedSeqs
<1>. QED  BY <1>1, PTL

-----------------------------------------------------------------------------
(***************************************************************************)
(* The inductive invariant.  Every text was drawn from nextBody, and the   *)
(* requests still to draw leave nextBody within the bound of Bodies; the   *)
(* chat of a request under the lock is there; nobody forks.                *)
(***************************************************************************)
\* The texts a request may still draw.
Owing(at) ==
  CASE at \in {"start.row", "greet.insert"} -> 3
    [] at \in {"greet.seed", "greet.update", "start.send", "wait", "send.insert"} -> 2
    [] at \in {"send.turn", "send.reply", "swipe.seed", "swipe.turn", "swipe.reply",
               "open.load", "open.turn", "open.reply"} -> 1
    [] OTHER -> 0
Owed == {e \in Procs \X (1..3) : e[2] <= Owing(pc[e[1]])}
Funded ==
  /\ IsFiniteSet(Owed) /\ nextBody + Cardinality(Owed) <= 10 + 3 * used.requests
  /\ used.requests <= MaxRequests

\* The steps at which a request has a text in hand.
Answering == {"send.persist", "swipe.backfill", "swipe.variant", "swipe.message", "open.insert",
              "edit.variant"}
RowDrawn(m, n) == m.body \in 1..n - 1 /\ \A k \in DOMAIN m.variants : m.variants[k] \in 1..n - 1
TextsDrawn ==
  /\ nextBody >= 1
  /\ \A c \in ChatIds : \A s \in Seqs(c) : RowDrawn(messages[c][s], nextBody)
HandsDrawn == \A p \in Procs : pc[p] \in Answering => loc[p].body \in 1..nextBody - 1
NoForks == \A p \in Procs : pc[p] \notin ForkSteps

LogInv == CanonInv /\ UsedOK /\ LockedInv /\ NoForks /\ TextsDrawn /\ HandsDrawn /\ Funded

\* What a step draws, it owed.
LEMMA StepDraws ==
  ASSUME CanonInv, NEW p \in Procs, Step(p)
  PROVE  \/ nextBody' = nextBody /\ Owing(pc'[p]) <= Owing(pc[p])
         \/ nextBody' = nextBody + 1 /\ Owing(pc'[p]) + 1 <= Owing(pc[p])
<1>1. DOMAIN pc = Procs
  BY DEF CanonInv, LineInv, Shapes
<1>2. ASSUME NEW row, ReseedOrLeave(p, row) PROVE Owing(pc'[p]) = 0
  BY <1>1, <1>2 DEF ReseedOrLeave, Leave, Owing
<1>3. CASE SendStep(p)
  BY <1>1, <1>3 DEF SendStep, BeginSend, SendInsert, SendStart, SendReply, SendFails, SendRollback,
     SendPersist, SendUpdate, SendThrows, StartTurn, EndTurn, FailTurn, At, Granted, Leave, ids, Owing
<1>4. CASE BeginCompact(p) \/ CompactNothing(p) \/ CompactStep(p) \/ ReseedStep(p) \/ Refuse(p) \/ Deny(p)
  <2>1. nextBody' = nextBody
    BY <1>4 DEF BeginCompact, CompactNothing, CompactStep, CompactTurn, CompactFails,
       CompactPersist, ReseedStep, ReseedDrop, ReseedSeed, ReseedPoint, Refuse, Deny, ids
  <2>2. pc'[p] \in {"idle", "compact.turn", "compact.persist", "reseed.seed", "reseed.point"}
    BY <1>1, <1>4 DEF BeginCompact, CompactNothing, CompactStep, CompactTurn, CompactFails,
       CompactPersist, ReseedStep, ReseedDrop, ReseedSeed, ReseedPoint, SeedFromCanon, Refuse, Deny,
       At, Leave
  <2>3. Owing(pc'[p]) = 0 /\ Owing(pc[p]) \in 0..3
    BY <2>2 DEF Owing
  <2>. QED  BY <2>1, <2>3
<1>5. CASE SwipeStep(p)
  BY SMTT(60), <1>1, <1>5 DEF SwipeStep, BeginSwipe, SwipeSeed, SwipeStart, SwipeReply, SwipeFails,
     SwipeAbandon, SwipeBackfill, SwipeVariant, SwipeMessage, SwipeDrop, SwipeUpdate, StartTurn,
     EndTurn, FailTurn, At, Granted, Leave, ids, Owing
<1>6. CASE SelectVariant(p)
  <2>1. PICK row : ReseedOrLeave(p, row)
    BY <1>6 DEF SelectVariant
  <2>2. pc[p] = "wait" /\ nextBody' = nextBody
    BY <1>6 DEF SelectVariant, Granted, ids
  <2>. QED  BY <1>2, <2>1, <2>2 DEF Owing
<1>7. CASE EditMessage(p)
  <2>1. pc[p] = "wait" /\ nextBody' = nextBody + 1
    BY <1>7 DEF EditMessage, Granted
  <2>2. pc'[p] = "edit.variant" \/ \E row : ReseedOrLeave(p, row)
    BY <1>1, <1>7 DEF EditMessage
  <2>3. Owing(pc'[p]) = 0
    BY <1>2, <2>2 DEF Owing
  <2>4. Owing(pc[p]) = 2
    BY <2>1 DEF Owing
  <2>. QED  BY <2>1, <2>3, <2>4
<1>8. CASE EditVariant(p) \/ DeleteChat(p) \/ PatchChat(p)
  BY SMTT(60), <1>1, <1>2, <1>8 DEF EditVariant, DeleteChat, PatchChat, Granted, Leave, ids, Owing
<1>9. CASE StartStep(p)
  BY SMTT(60), <1>1, <1>9 DEF StartStep, StartRow, GreetInsert, GreetSeed, GreetThrows, GreetUpdate, StartSend,
     OpenLoad, OpenStart, OpenReply, OpenFails, OpenInsert, OpenUpdate, StartTurn, EndTurn, At,
     Return, ids, Owing
<1>10. CASE BranchStep(p)
  <2>1. nextBody' = nextBody
    BY <1>10 DEF BranchStep, ForkLoad, ForkRead, ForkRow, ForkMessages, ForkSeed, BeginProvider,
       ProviderSession, ProviderUpdate, SeedFromCanon, ids
  <2>2. pc'[p] \in {"idle", "fork.read", "fork.row", "fork.messages", "fork.seed", "provider.session",
                    "provider.update"}
    BY ZenonT(60), <1>1, <1>10 DEF BranchStep, ForkLoad, ForkRead, ForkRow, ForkMessages, ForkSeed,
       BeginProvider, ProviderSession, ProviderUpdate, SeedFromCanon, At, Leave, Return
  <2>3. Owing(pc'[p]) = 0 /\ Owing(pc[p]) \in 0..3
    BY <2>2 DEF Owing
  <2>. QED  BY <2>1, <2>3
<1>. QED  BY <1>3, <1>4, <1>5, <1>6, <1>7, <1>8, <1>9, <1>10 DEF Step, EditStep

\* A step spends a failure or nothing.
LEMMA StepSpends ==
  ASSUME UsedOK, NEW p \in Procs, Step(p)
  PROVE  used'.requests = used.requests /\ used'.crashes = used.crashes
<1>1. UNCHANGED used \/ Spend("failures")
  BY ZenonT(60) DEF Step, SendStep, CompactStep, SwipeStep, ReseedStep, StartStep, EditStep, BranchStep,
       BeginSend, SendInsert, SendStart, SendReply, SendFails, SendRollback, SendPersist,
       SendUpdate, SendThrows, BeginCompact, CompactNothing, CompactTurn, CompactFails,
       CompactPersist, BeginSwipe, SwipeSeed, SwipeStart, SwipeReply, SwipeFails, SwipeAbandon,
       SwipeBackfill, SwipeVariant, SwipeMessage, SwipeDrop, SwipeUpdate, SelectVariant,
       ReseedDrop, ReseedSeed, ReseedPoint, StartRow, GreetInsert, GreetSeed, GreetThrows,
       GreetUpdate, StartSend, OpenLoad, OpenStart, OpenReply, OpenFails, OpenInsert,
       OpenUpdate, EditMessage, EditVariant, DeleteChat, PatchChat, ForkLoad, ForkRead, ForkRow,
       ForkMessages, ForkSeed, BeginProvider, ProviderSession, ProviderUpdate, Refuse, Deny,
       StartTurn, EndTurn, FailTurn
<1>. QED  BY <1>1 DEF UsedOK, Spend

\* The budget covers every step.
LEMMA StepFunded ==
  ASSUME CanonInv, UsedOK, Funded, NEW p \in Procs, Step(p)
  PROVE  Funded'
<1>1. /\ \A q \in Procs \ {p} : pc'[q] = pc[q]
      /\ \A q \in Procs : Owing(pc[q]) \in 0..3 /\ Owing(pc'[q]) \in 0..3
  BY OthersStay DEF Owing
<1>2. used'.requests = used.requests /\ used.requests \in Nat /\ nextBody \in Nat
  BY StepSpends DEF UsedOK, CanonInv, TypeOK, RequestsOK
<1>3. IsFiniteSet(Owed) /\ Cardinality(Owed) \in Nat
  BY FS_CardinalityType DEF Funded
<1>4. CASE nextBody' = nextBody /\ Owing(pc'[p]) <= Owing(pc[p])
  <2>1. Owed' \subseteq Owed
    BY <1>1, <1>4 DEF Owed
  <2>2. IsFiniteSet(Owed') /\ Cardinality(Owed') \in Nat /\ Cardinality(Owed') <= Cardinality(Owed)
    BY <1>3, <2>1, FS_Subset, FS_CardinalityType
  <2>. QED  BY <1>2, <1>3, <1>4, <2>2 DEF Funded
<1>5. CASE nextBody' = nextBody + 1 /\ Owing(pc'[p]) + 1 <= Owing(pc[p])
  <2>. DEFINE x == <<p, Owing(pc[p])>>
  <2>1. x \in Owed /\ Owed' \subseteq Owed \ {x}
    BY <1>1, <1>5 DEF Owed
  <2>. HIDE DEF x
  <2>2. IsFiniteSet(Owed \ {x}) /\ Cardinality(Owed \ {x}) = Cardinality(Owed) - 1
    BY <1>3, <2>1, FS_RemoveElement
  <2>3. /\ IsFiniteSet(Owed') /\ Cardinality(Owed') \in Nat
        /\ Cardinality(Owed') <= Cardinality(Owed \ {x})
    BY <2>1, <2>2, FS_Subset, FS_CardinalityType
  <2>. QED  BY <1>2, <1>3, <1>5, <2>2, <2>3 DEF Funded
<1>. QED  BY <1>4, <1>5, StepDraws

\* One more element, at most.
LEMMA OneMore ==
  ASSUME NEW S, IsFiniteSet(S), NEW x
  PROVE  /\ IsFiniteSet(S \union {x}) /\ Cardinality(S \union {x}) \in Nat
         /\ Cardinality(S \union {x}) <= Cardinality(S) + 1
<1>1. Cardinality(S) \in Nat
  BY FS_CardinalityType
<1>2. /\ IsFiniteSet(S \union {x})
      /\ Cardinality(S \union {x}) = IF x \in S THEN Cardinality(S) ELSE Cardinality(S) + 1
  BY FS_AddElement
<1>. QED  BY <1>1, <1>2

\* A request may draw three.
LEMMA CallFunded ==
  ASSUME CanonInv, UsedOK, Funded, NEW p \in Procs, Call(p)
  PROVE  Funded'
<1>1. PICK there : /\ pc' = [pc EXCEPT ![p] = there] /\ UNCHANGED nextBody
                   /\ used.requests < MaxRequests /\ Spend("requests")
  BY CallForms DEF Arriving, Arrives, ids
<1>2. /\ used'.requests = used.requests + 1 /\ used.requests \in Nat /\ nextBody \in Nat
      /\ MaxRequests \in Nat /\ DOMAIN pc = Procs
  BY <1>1, BoundsAssumption DEF Spend, UsedOK, CanonInv, TypeOK, RequestsOK, LineInv, Shapes
<1>. DEFINE one == Owed \union {<<p, 1>>}
            two == one \union {<<p, 2>>}
            three == two \union {<<p, 3>>}
<1>3. Owed' \subseteq three
  BY <1>1, <1>2 DEF Owed
<1>4. /\ IsFiniteSet(one) /\ Cardinality(one) \in Nat /\ Cardinality(one) <= Cardinality(Owed) + 1
      /\ Cardinality(Owed) \in Nat
  BY OneMore, FS_CardinalityType DEF Funded
<1>. HIDE DEF one
<1>5. IsFiniteSet(two) /\ Cardinality(two) \in Nat /\ Cardinality(two) <= Cardinality(one) + 1
  BY <1>4, OneMore
<1>. HIDE DEF two
<1>6. IsFiniteSet(three) /\ Cardinality(three) \in Nat /\ Cardinality(three) <= Cardinality(two) + 1
  BY <1>5, OneMore
<1>. HIDE DEF three
<1>7. IsFiniteSet(Owed') /\ Cardinality(Owed') \in Nat /\ Cardinality(Owed') <= Cardinality(three)
  BY <1>3, <1>6, FS_Subset, FS_CardinalityType
<1>. QED  BY <1>1, <1>2, <1>4, <1>5, <1>6, <1>7 DEF Funded

\* The texts there are stay when there are more.
LEMMA DrawnStays ==
  ASSUME NEW m, NEW n \in Nat, NEW k \in Nat, n <= k, RowDrawn(m, n)
  PROVE  RowDrawn(m, k)
<1>1. 1..n - 1 \subseteq 1..k - 1
  OBVIOUS
<1>. QED  BY <1>1 DEF RowDrawn

LEMMA MoreTexts ==
  ASSUME CanonInv, NEW p \in Procs, Step(p)
  PROVE  nextBody \in Nat /\ nextBody' \in Nat /\ nextBody' \in {nextBody, nextBody + 1}
BY StepDraws, CountersStep DEF CanonInv, TypeOK, RequestsOK

\* A message written with a text.
LEMMA WrittenWith ==
  ASSUME NEW role, NEW b, NEW g, NEW m \in AfterScripts(NewMessage(role, b, g))
  PROVE  \A n : b \in 1..n - 1 => RowDrawn(m, n)
<1>1. m.role = role /\ m.body = b /\ m.variants = <<>>
  BY DEF NewMessage, AfterScripts
<1>. QED  BY <1>1 DEF RowDrawn

\* No script need match.
LEMMA Unscripted == ASSUME NEW m PROVE m \in AfterScripts(m)
BY DEF AfterScripts

-----------------------------------------------------------------------------
(***************************************************************************)
(* The rows that are rewritten in place: one row of the chat, of the same  *)
(* speaker; its text too, or only its variants.                            *)
(***************************************************************************)
Rewritten(c, s, m) ==
  /\ messages' = [messages EXCEPT ![c][s] = m]
  /\ s \in Seqs(c) => m.role = messages[c][s].role /\ RowDrawn(m, nextBody')
TextKept(c, s, m) == s \in Seqs(c) => m.body = messages[c][s].body

\* What a row says and what the request has in hand are texts there are.
LEMMA DrawnRow ==
  ASSUME CanonInv, TextsDrawn, NEW c \in ChatIds, NEW s \in Seqs(c)
  PROVE  /\ RowDrawn(messages[c][s], nextBody) /\ messages[c][s] \in Message
         /\ messages[c][s].variants \in Seq(Nat) /\ nextBody \in Nat
BY RowIs DEF TextsDrawn, CanonInv, TypeOK, MessagesOK, RequestsOK, Seqs

LEMMA OtherVariants ==
  ASSUME NEW r \in Message, NEW n \in Nat, RowDrawn(r, n), NEW v, NEW m, m = [r EXCEPT !.variants = v],
         \A k \in DOMAIN v : v[k] \in 1..n - 1
  PROVE  m.role = r.role /\ m.body = r.body /\ RowDrawn(m, n)
BY DEF Message, RowDrawn

\* A swipe keeps the old text and the new one as variants.
LEMMA SwipeKeepsText ==
  ASSUME CanonInv, TextsDrawn, HandsDrawn, NEW p \in Procs, SwipeBackfill(p) \/ SwipeVariant(p)
  PROVE  \/ UNCHANGED messages
         \/ \E s, m : Rewritten(chatOf(p), s, m) /\ TextKept(chatOf(p), s, m)
<1>1. PICK c \in ChatIds : c = chatOf(p)
  BY Rows DEF SwipeBackfill, SwipeVariant, At
<1>2. PICK s : s = Tip(p)
  OBVIOUS
<1>3. PICK r, v : r = messages[c][s] /\ v = r.variants
  OBVIOUS
<1>4. nextBody' = nextBody
  BY DEF SwipeBackfill, SwipeVariant, ids
<1>5. s \in Seqs(c) => /\ r \in Message /\ RowDrawn(r, nextBody) /\ v \in Seq(Nat)
                        /\ nextBody \in Nat
  BY <1>1, <1>3, DrawnRow
<1>6. loc[p].body \in 1..nextBody - 1
  BY DEF HandsDrawn, Answering, SwipeBackfill, SwipeVariant, At
<1>7. CASE SwipeBackfill(p) /\ v # <<>>
  BY <1>1, <1>2, <1>3, <1>7 DEF SwipeBackfill, TipRow
<1>8. CASE SwipeBackfill(p) /\ v = <<>>
  <2>1. PICK m : m = [r EXCEPT !.variants = <<r.body>>]
    OBVIOUS
  <2>2. messages' = [messages EXCEPT ![c][s] = m]
    BY <1>1, <1>2, <1>3, <1>8, <2>1 DEF SwipeBackfill, TipRow
  <2>3. s \in Seqs(c) => \A k \in DOMAIN <<r.body>> : <<r.body>>[k] \in 1..nextBody - 1
    BY <1>5 DEF RowDrawn
  <2>4. s \in Seqs(c) => m.role = r.role /\ m.body = r.body /\ RowDrawn(m, nextBody)
    BY <1>5, <2>1, <2>3, OtherVariants
  <2>. QED  BY <1>1, <1>3, <1>4, <2>2, <2>4 DEF Rewritten, TextKept
<1>9. CASE SwipeVariant(p)
  <2>1. PICK w : w = Append(v, loc[p].body)
    OBVIOUS
  <2>2. PICK m : m = [r EXCEPT !.variants = w]
    OBVIOUS
  <2>3. messages' = [messages EXCEPT ![c][s] = m]
    BY <1>1, <1>2, <1>3, <1>9, <2>1, <2>2 DEF SwipeVariant
  <2>4. s \in Seqs(c) => \A k \in DOMAIN w : w[k] \in 1..nextBody - 1
    <3>. SUFFICES ASSUME s \in Seqs(c), NEW k \in DOMAIN w PROVE w[k] \in 1..nextBody - 1
      OBVIOUS
    <3>1. Len(w) = Len(v) + 1 /\ k \in 1..Len(w) /\ DOMAIN v = 1..Len(v)
      BY <1>5, <1>6, <2>1
    <3>2. (k \in DOMAIN v /\ w[k] = v[k]) \/ w[k] = loc[p].body
      BY <1>5, <1>6, <2>1, <3>1
    <3>. QED  BY <1>3, <1>5, <1>6, <3>2 DEF RowDrawn
  <2>5. s \in Seqs(c) => m.role = r.role /\ m.body = r.body /\ RowDrawn(m, nextBody)
    BY SMTT(60), <1>5, <2>2, <2>4, OtherVariants
  <2>. QED  BY ZenonT(60), <1>1, <1>3, <1>4, <2>3, <2>5 DEF Rewritten, TextKept
<1>. QED  BY <1>7, <1>8, <1>9

\* The end of an edit of a message with variants.
LEMMA EditKeepsText ==
  ASSUME CanonInv, TextsDrawn, HandsDrawn, NEW p \in Procs, EditVariant(p)
  PROVE  \E s, m : Rewritten(chatOf(p), s, m) /\ TextKept(chatOf(p), s, m)
<1>1. PICK c \in ChatIds : c = chatOf(p)
  BY Rows DEF EditVariant
<1>2. PICK s : s = loc[p].seq
  OBVIOUS
<1>3. PICK r, v : r = messages[c][s] /\ v = r.variants
  OBVIOUS
<1>4. nextBody' = nextBody
  BY DEF EditVariant, ids
<1>5. s \in Seqs(c) => r \in Message /\ RowDrawn(r, nextBody) /\ nextBody \in Nat
  BY <1>1, <1>3, DrawnRow
<1>6. loc[p].body \in 1..nextBody - 1
  BY DEF HandsDrawn, Answering, EditVariant
<1>7. PICK w, m : w = [v EXCEPT ![r.active] = loc[p].body] /\ m = [r EXCEPT !.variants = w]
  OBVIOUS
<1>8. messages' = [messages EXCEPT ![c][s] = m]
  BY <1>1, <1>2, <1>3, <1>7 DEF EditVariant
<1>9. s \in Seqs(c) => \A k \in DOMAIN w : w[k] \in 1..nextBody - 1
  BY <1>3, <1>5, <1>6, <1>7 DEF RowDrawn
<1>10. s \in Seqs(c) => m.role = r.role /\ m.body = r.body /\ RowDrawn(m, nextBody)
  BY <1>5, <1>7, <1>9, OtherVariants
<1>. QED  BY <1>1, <1>3, <1>4, <1>8, <1>10 DEF Rewritten, TextKept

\* A swipe, a chosen variant and an edit give a message a text.
LEMMA TextsChange ==
  ASSUME CanonInv, TextsDrawn, HandsDrawn, NEW p \in Procs,
         SwipeMessage(p) \/ SelectVariant(p) \/ EditMessage(p)
  PROVE  \E s, m : Rewritten(chatOf(p), s, m)
<1>1. PICK c \in ChatIds : c = chatOf(p)
  BY Rows DEF SwipeMessage, SelectVariant, EditMessage, Granted, At
<1>2. nextBody \in Nat /\ MessagesOK
  BY DEF CanonInv, TypeOK, RequestsOK
<1>3. CASE SwipeMessage(p)
  <2>1. PICK s, r : s = Tip(p) /\ r = messages[c][s]
    OBVIOUS
  <2>2. PICK b \in 1..nextBody - 1 : b = loc[p].body
    BY <1>3 DEF HandsDrawn, Answering, SwipeMessage, At
  <2>3. PICK k, g : k = Len(r.variants) /\ g = r.gens + 1
    OBVIOUS
  <2>4. PICK m : m = [r EXCEPT !.active = k, !.body = b, !.gens = g]
    OBVIOUS
  <2>5. messages' = [messages EXCEPT ![c][s] = m]
    BY <1>1, <1>3, <2>1, <2>2, <2>3, <2>4 DEF SwipeMessage, TipRow
  <2>6. s \in Seqs(c) => r \in Message /\ RowDrawn(r, nextBody)
    BY <1>1, <2>1, DrawnRow
  <2>7. s \in Seqs(c) => m.role = r.role /\ RowDrawn(m, nextBody)
    <3>. SUFFICES ASSUME s \in Seqs(c) PROVE m.role = r.role /\ RowDrawn(m, nextBody)
      OBVIOUS
    <3>1. m.role = r.role /\ m.body = b /\ m.variants = r.variants
      BY <2>4, <2>6 DEF Message
    <3>. QED  BY <2>6, <3>1 DEF RowDrawn
  <2>8. nextBody' = nextBody
    BY <1>3 DEF SwipeMessage, ids
  <2>. QED  BY <1>1, <2>1, <2>5, <2>7, <2>8 DEF Rewritten
<1>4. CASE SelectVariant(p)
  <2>1. PICK s \in Named(c, req[p].msg) :
          /\ req[p].variant \in DOMAIN messages[c][s].variants
          /\ messages' = [messages EXCEPT ![c][s].active = req[p].variant,
                            ![c][s].body = messages[c][s].variants[req[p].variant]]
    BY <1>1, <1>4 DEF SelectVariant
  <2>2. s \in Seqs(c)
    BY DEF Named, Seqs
  <2>3. PICK r \in Message : r = messages[c][s] /\ RowDrawn(r, nextBody)
    BY <1>1, <2>2, DrawnRow
  <2>4. PICK b \in 1..nextBody - 1 : b = r.variants[req[p].variant]
    BY <2>1, <2>3 DEF RowDrawn
  <2>5. PICK k, m : k = req[p].variant /\ m = [r EXCEPT !.active = k, !.body = b]
    OBVIOUS
  <2>6. messages' = [messages EXCEPT ![c][s] = m]
    BY <1>2, <2>1, <2>2, <2>3, <2>4, <2>5 DEF MessagesOK, Seqs
  <2>7. m.role = r.role /\ RowDrawn(m, nextBody)
    <3>1. m.role = r.role /\ m.body = b /\ m.variants = r.variants
      BY <2>5 DEF Message
    <3>. QED  BY <2>3, <3>1 DEF RowDrawn
  <2>8. nextBody' = nextBody
    BY <1>4 DEF SelectVariant, ids
  <2>. QED  BY <1>1, <2>3, <2>6, <2>7, <2>8 DEF Rewritten
<1>5. CASE EditMessage(p)
  <2>1. PICK s \in Named(c, req[p].msg) : messages' = [messages EXCEPT ![c][s].body = nextBody]
    BY <1>1, <1>5 DEF EditMessage
  <2>2. s \in Seqs(c)
    BY DEF Named, Seqs
  <2>3. PICK r \in Message : r = messages[c][s] /\ RowDrawn(r, nextBody)
    BY <1>1, <2>2, DrawnRow
  <2>4. nextBody' = nextBody + 1 /\ nextBody >= 1
    BY <1>5 DEF EditMessage, TextsDrawn
  <2>5. PICK n \in Nat : n = nextBody + 1
    BY <1>2
  <2>6. PICK m : m = [r EXCEPT !.body = nextBody]
    OBVIOUS
  <2>7. messages' = [messages EXCEPT ![c][s] = m]
    BY <1>2, <2>1, <2>2, <2>3, <2>6 DEF MessagesOK, Seqs
  <2>8. RowDrawn(r, n) /\ nextBody \in 1..n - 1
    BY <1>2, <2>3, <2>4, <2>5, DrawnStays
  <2>9. m.role = r.role /\ RowDrawn(m, n)
    <3>1. m.role = r.role /\ m.body = nextBody /\ m.variants = r.variants
      BY <2>6 DEF Message
    <3>. QED  BY <2>8, <3>1 DEF RowDrawn
  <2>. QED  BY <1>1, <2>3, <2>4, <2>5, <2>7, <2>9 DEF Rewritten
<1>. QED  BY <1>3, <1>4, <1>5

-----------------------------------------------------------------------------
(***************************************************************************)
(* Every step keeps the invariant.                                         *)
(***************************************************************************)
LEMMA StepDrawsTexts ==
  ASSUME CanonInv, NoForks, TextsDrawn, HandsDrawn, NEW p \in Procs, Step(p)
  PROVE  TextsDrawn'
<1>. SUFFICES ASSUME NEW c \in ChatIds, NEW s, s \in Seqs(c)'
              PROVE  RowDrawn(messages'[c][s], nextBody')
  BY MoreTexts DEF TextsDrawn
<1>1. nextBody \in Nat /\ nextBody' \in Nat /\ nextBody' \in {nextBody, nextBody + 1} /\ nextBody >= 1
  BY MoreTexts DEF TextsDrawn
<1>2. CASE s \in Seqs(c) /\ messages'[c][s] = messages[c][s]
  <2>1. PICK m : m = messages[c][s] /\ RowDrawn(m, nextBody)
    BY <1>2 DEF TextsDrawn
  <2>. QED  BY <1>1, <1>2, <2>1, DrawnStays
<1>3. CASE messages'[c] = messages[c]
  BY <1>2, <1>3 DEF Seqs
<1>. PICK t : t = messages[c]
  OBVIOUS
<1>4. MessagesOK /\ nextBody \in Nat /\ \A q \in Procs : loc[q].seq \in Nat /\ loc[q].body \in Nat
  BY LocalsAre DEF CanonInv, TypeOK, RequestsOK
<1>5. ASSUME NEW at \in Nat, NEW role \in {"user", "assistant"}, NEW b \in 1..nextBody' - 1, NEW g \in Nat,
             NEW m \in AfterScripts(NewMessage(role, b, g)), messages' = WithMessage(c, at, m)
      PROVE  RowDrawn(messages'[c][s], nextBody')
  <2>1. m \in Message /\ RowDrawn(m, nextBody')
    <3>1. b \in Nat
      BY <1>1
    <3>. QED  BY <3>1, WrittenWith, ScriptedIs
  <2>2. /\ Seqs(c)' = Seqs(c) \union {at} /\ messages'[c][at] = m
        /\ \A u \in Seqs(c) \ {at} : messages'[c][u] = messages[c][u]
    BY <1>4, <1>5, <2>1, RowInserted
  <2>. QED  BY <1>2, <2>1, <2>2
<1>6. CASE c = chatOf(p) /\ SendInsert(p)
  <2>1. messages' = WithMessage(c, loc[p].seq, NewMessage("user", nextBody, 0))
    BY <1>6 DEF SendInsert
  <2>2. nextBody \in 1..nextBody' - 1
    BY <1>1, <1>6 DEF SendInsert
  <2>. QED  BY <1>4, <1>5, <2>1, <2>2, Unscripted
<1>7. CASE c = chatOf(p) /\ GreetInsert(p)
  <2>1. \/ messages' = messages
        \/ messages' = WithMessage(c, 1, NewMessage("assistant", nextBody, 0)) /\ nextBody' = nextBody + 1
    BY <1>7 DEF GreetInsert
  <2>2. nextBody' = nextBody + 1 => nextBody \in 1..nextBody' - 1
    BY <1>1
  <2>. QED  BY <1>3, <1>4, <1>5, <2>1, <2>2, Unscripted
<1>8. CASE c = chatOf(p) /\ (SendPersist(p) \/ OpenInsert(p))
  <2>1. \/ messages' = messages
        \/ \E at \in Nat : \E m \in AfterScripts(NewMessage("assistant", loc[p].body, 1)) :
             messages' = WithMessage(c, at, m)
    <3>1. CASE SendPersist(p)
      <4>1. loc[p].seq + 1 \in Nat
        BY <1>4, <1>8, <3>1 DEF SendPersist, At
      <4>. QED  BY <1>8, <3>1, <4>1 DEF SendPersist
    <3>2. CASE OpenInsert(p)
      <4>1. NewMessage("assistant", loc[p].body, 1) \in AfterScripts(NewMessage("assistant", loc[p].body, 1))
        BY DEF AfterScripts
      <4>2. \/ messages' = messages
            \/ messages' = WithMessage(c, 1, NewMessage("assistant", loc[p].body, 1))
        BY <1>8, <3>2 DEF OpenInsert
      <4>. QED  BY <4>1, <4>2
    <3>. QED  BY <1>8, <3>1, <3>2
  <2>2. loc[p].body \in 1..nextBody - 1
    BY <1>8 DEF HandsDrawn, Answering, SendPersist, OpenInsert, At
  <2>3. loc[p].body \in 1..nextBody' - 1
    BY <1>1, <2>2
  <2>. QED  BY <1>3, <1>5, <2>1, <2>3
<1>9. CASE c = chatOf(p) /\ SendRollback(p)
  <2>1. messages' = WithoutMessage(c, loc[p].seq)
    BY <1>9 DEF SendRollback
  <2>. QED  BY <1>2, <1>4, <2>1, RowDeleted
<1>10. CASE c = chatOf(p) /\ DeleteChat(p)
  BY <1>4, <1>10 DEF DeleteChat, MessagesOK, Seqs
<1>11. CASE /\ c = chatOf(p)
            /\ \/ SwipeBackfill(p) \/ SwipeVariant(p) \/ SwipeMessage(p) \/ SelectVariant(p)
               \/ EditMessage(p) \/ EditVariant(p)
  <2>1. UNCHANGED messages \/ \E at, m : Rewritten(c, at, m)
    BY <1>11, SwipeKeepsText, EditKeepsText, TextsChange
  <2>2. CASE UNCHANGED messages
    BY <1>3, <2>2
  <2>3. ASSUME NEW at, NEW m, Rewritten(c, at, m) PROVE RowDrawn(messages'[c][s], nextBody')
    <3>1. /\ messages' = [messages EXCEPT ![c][at] = m]
          /\ at \in Seqs(c) => RowDrawn(m, nextBody')
      BY <2>3 DEF Rewritten
    <3>2. s \in Seqs(c) /\ (messages'[c][s] = messages[c][s] \/ (s = at /\ messages'[c][s] = m))
      BY <1>4, <3>1 DEF MessagesOK, Seqs
    <3>. QED  BY <1>2, <3>1, <3>2
  <2>. QED  BY <2>1, <2>2, <2>3
<1>12. ~ForkMessages(p)
  BY DEF NoForks, ForkSteps, ForkMessages
<1>. QED  BY <1>3, <1>6, <1>7, <1>8, <1>9, <1>10, <1>11, <1>12, TableMoves

\* How a request comes to have a text in hand.
LEMMA HandsArrive ==
  ASSUME CanonInv, NEW p \in Procs, Step(p), pc'[p] \in Answering
  PROVE  \/ SendReply(p) \/ SwipeReply(p) \/ OpenReply(p) \/ EditMessage(p)
         \/ SwipeBackfill(p) \/ SwipeVariant(p)
<1>1. DOMAIN pc = Procs
  BY DEF CanonInv, LineInv, Shapes
<1>2. CASE SendStep(p)
  BY ZenonT(60), <1>1, <1>2 DEF Answering, SendStep, BeginSend, SendInsert, SendStart, SendFails,
     SendRollback, SendPersist, SendUpdate, SendThrows, At, Granted, StartTurn, EndTurn, FailTurn, Leave
<1>3. CASE BeginCompact(p) \/ CompactNothing(p) \/ CompactStep(p)
  BY ZenonT(60), <1>1, <1>3 DEF Answering, BeginCompact, CompactNothing, CompactStep, CompactTurn, CompactFails,
     CompactPersist, At, Granted, StartTurn, EndTurn, FailTurn, Leave
<1>4. CASE SwipeStep(p)
  BY ZenonT(60), <1>1, <1>4 DEF Answering, SwipeStep, BeginSwipe, SwipeSeed, SwipeStart, SwipeFails, SwipeAbandon,
     SwipeMessage, SwipeDrop, SwipeUpdate, At, Granted, StartTurn, EndTurn, FailTurn, Leave
<1>5. CASE SelectVariant(p) \/ ReseedStep(p) \/ Refuse(p) \/ Deny(p)
  BY ZenonT(60), <1>1, <1>5 DEF Answering, SelectVariant, ReseedStep, ReseedDrop, ReseedSeed, ReseedPoint,
     ReseedOrLeave, SeedFromCanon, Refuse, Deny, At, Granted, Leave, Return
<1>6. CASE StartStep(p)
  BY ZenonT(60), <1>1, <1>6 DEF Answering, StartStep, StartRow, GreetInsert, GreetSeed, GreetThrows, GreetUpdate,
     StartSend, OpenLoad, OpenStart, OpenFails, OpenInsert, OpenUpdate, At, StartTurn, EndTurn,
     FailTurn, Return
<1>7. CASE EditStep(p)
  BY ZenonT(60), <1>1, <1>7 DEF Answering, EditStep, EditVariant, DeleteChat, PatchChat, ReseedOrLeave,
     Granted, Leave
<1>8. CASE BranchStep(p)
  BY ZenonT(60), <1>1, <1>8 DEF Answering, BranchStep, ForkLoad, ForkRead, ForkRow, ForkMessages, ForkSeed,
     BeginProvider, ProviderSession, ProviderUpdate, SeedFromCanon, At, Granted, Leave, Return
<1>. QED  BY <1>2, <1>3, <1>4, <1>5, <1>6, <1>7, <1>8 DEF Step

LEMMA StepDrawsHands ==
  ASSUME CanonInv, TextsDrawn, HandsDrawn, NEW p \in Procs, Step(p)
  PROVE  HandsDrawn'
<1>. SUFFICES ASSUME NEW q \in Procs, pc'[q] \in Answering PROVE loc'[q].body \in 1..nextBody' - 1
  BY DEF HandsDrawn
<1>1. nextBody \in Nat /\ nextBody' \in Nat /\ nextBody' \in {nextBody, nextBody + 1} /\ nextBody >= 1
  BY MoreTexts DEF TextsDrawn
<1>2. ASSUME pc[q] \in Answering, loc'[q] = loc[q] PROVE loc'[q].body \in 1..nextBody' - 1
  BY <1>1, <1>2 DEF HandsDrawn
<1>3. CASE q # p
  BY <1>2, <1>3, OthersStay
<1>4. CASE q = p
  <2>1. loc \in [Procs -> Locals] /\ DOMAIN pc = Procs
    BY DEF CanonInv, TypeOK, RequestsOK, LineInv, Shapes
  <2>2. CASE SendReply(p) \/ SwipeReply(p) \/ OpenReply(p)
    <3>1. nextBody' = nextBody + 1 /\ loc' = [loc EXCEPT ![p].body = nextBody]
      BY <2>2 DEF SendReply, SwipeReply, OpenReply, EndTurn
    <3>2. loc'[p].body = nextBody
      BY <2>1, <3>1 DEF Locals
    <3>. QED  BY <1>1, <1>4, <3>1, <3>2
  <2>3. CASE EditMessage(p)
    <3>1. nextBody' = nextBody + 1
      BY <2>3 DEF EditMessage
    <3>2. PICK c, s : /\ c = chatOf(p)
                      /\ \/ loc' = [loc EXCEPT ![p].row = chats[c], ![p].seq = s, ![p].body = nextBody]
                         \/ ReseedOrLeave(p, chats[c])
      BY <2>3 DEF EditMessage
    <3>3. ~ReseedOrLeave(p, chats[c])
      BY <1>4, <2>1 DEF ReseedOrLeave, Leave, Answering
    <3>4. loc'[p].body = nextBody
      BY <2>1, <3>2, <3>3 DEF Locals
    <3>. QED  BY <1>1, <1>4, <3>1, <3>4
  <2>4. CASE SwipeBackfill(p) \/ SwipeVariant(p)
    BY <1>2, <1>4, <2>4 DEF SwipeBackfill, SwipeVariant, At, Answering
  <2>. QED  BY <1>4, <2>2, <2>3, <2>4, HandsArrive
<1>. QED  BY <1>3, <1>4

\* The chat of a request under the lock stays until the request is done.
LEMMA StepKeepsLocked ==
  ASSUME CanonInv, LockedInv, NEW p \in Procs, Step(p)
  PROVE  LockedInv'
<1>. SUFFICES ASSUME NEW q \in Procs, pc'[q] \in LockedSteps PROVE Live(chatOf(q))'
  BY DEF LockedInv
<1>1. CASE q # p
  <2>1. pc[q] \in LockedSteps /\ Holds(q) /\ Live(chatOf(q)) /\ chatOf(q)' = chatOf(q)
    BY <1>1, OthersStay, Running DEF LockedInv, chatOf
  <2>2. chatOf(q) \in ChatIds
    BY <2>1, Rows, Running
  <2>3. ~DeleteChat(p) \/ chatOf(p) # chatOf(q)
    BY <1>1, <2>1 DEF DeleteChat, Granted, Holds
  <2>. QED  BY <2>1, <2>2, <2>3, StatusStep DEF Live
<1>2. CASE q = p
  <2>1. req'[p] = req[p] /\ LockedMove(p)
    BY ZenonT(60), <1>2, StepMoves DEF Moves, Goes, FreeMove, StartSend, At, LockedSteps, OpenSteps, Greeting,
       CanonInv, LineInv, Shapes
  <2>2. Live(chatOf(p)) /\ chatOf(p) \in ChatIds
    BY <2>1, Rows, Busy DEF LockedMove, LockedInv
  <2>3. ~DeleteChat(p)
    BY <1>2 DEF DeleteChat, Leave, CanonInv, LineInv, Shapes, LockedSteps
  <2>. QED  BY <1>2, <2>1, <2>2, <2>3, StatusStep DEF Live, chatOf
<1>. QED  BY <1>1, <1>2

LEMMA StepKeepsNoForks ==
  ASSUME CanonInv, NoForks, NEW p \in Procs, Step(p)
  PROVE  NoForks'
<1>1. pc[p] \notin ForkSteps /\ DOMAIN pc = Procs
  BY DEF NoForks, CanonInv, LineInv, Shapes
<1>2. pc'[p] \notin ForkSteps
  BY <1>1, StepMoves DEF Moves, Goes, FreeMove, LockedMove, StartSend, ForkRow, At, LockedSteps, OpenSteps,
     Greeting, ForkSteps
<1>. QED  BY <1>2, OthersStay DEF NoForks

LEMMA RequestKinds ==
  (RequestsOK => \A p \in Procs : req[p].kind \in Kinds \union {"none", "send"})'
BY DEF RequestsOK, Request

LEMMA CallKeepsLog ==
  ASSUME "fork" \notin Kinds, LogInv, NEW p \in Procs, Call(p)
  PROVE  LogInv'
<1>. CanonInv /\ UsedOK /\ LockedInv /\ NoForks /\ TextsDrawn /\ HandsDrawn /\ Funded
  BY DEF LogInv
<1>1. CanonInv' /\ Funded' /\ UsedOK'
  BY CallKeepsCanon, CallFunded, UsedStep DEF Next
<1>2. PICK r, there : there \in {"wait", "start.row", "fork.load"} /\ Arriving(p, r, there)
  BY CallForms
<1>3. /\ pc' = [pc EXCEPT ![p] = there] /\ req' = [req EXCEPT ![p] = r]
      /\ UNCHANGED <<tables, loc, ids>> /\ DOMAIN pc = Procs /\ DOMAIN req = Procs
  BY <1>2 DEF Arriving, Arrives, CanonInv, LineInv, Shapes, TypeOK, RequestsOK
<1>4. there # "fork.load"
  <2>. SUFFICES ASSUME there = "fork.load" PROVE FALSE
    OBVIOUS
  <2>1. req'[p].kind = "fork"
    BY <1>2, <1>3 DEF Arriving, AtFork
  <2>2. req'[p].kind \in Kinds \union {"none", "send"}
    BY <1>1, RequestKinds DEF CanonInv, TypeOK
  <2>. QED  BY <2>1, <2>2
<1>5. \A q \in Procs : \/ pc'[q] = pc[q] /\ req'[q] = req[q] /\ loc'[q] = loc[q]
                      \/ pc'[q] \in {"wait", "start.row"}
  BY <1>2, <1>3, <1>4
<1>6. LockedInv'
  BY <1>3, <1>5 DEF LockedInv, LockedSteps, Live, chatOf, tables
<1>7. NoForks'
  BY <1>5 DEF NoForks, ForkSteps
<1>8. TextsDrawn' /\ HandsDrawn'
  BY <1>3, <1>5 DEF TextsDrawn, HandsDrawn, Answering, Seqs, tables, ids
<1>. QED  BY <1>1, <1>6, <1>7, <1>8 DEF LogInv

LEMMA RestartKeepsLog ==
  ASSUME LogInv, Restart
  PROVE  LogInv'
<1>. CanonInv /\ UsedOK /\ LockedInv /\ NoForks /\ TextsDrawn /\ HandsDrawn /\ Funded
  BY DEF LogInv
<1>1. CanonInv' /\ UsedOK' /\ \A q \in Procs : pc'[q] = "idle"
  BY RestartKeepsCanon, UsedStep DEF Next, Restart
<1>2. LockedInv' /\ NoForks' /\ HandsDrawn'
  BY <1>1 DEF LockedInv, NoForks, HandsDrawn, LockedSteps, ForkSteps, Answering
<1>3. TextsDrawn'
  BY DEF TextsDrawn, Restart, Seqs, tables, ids
<1>4. Funded'
  <2>1. Owed' = {}
    BY <1>1 DEF Owed, Owing
  <2>2. IsFiniteSet(Owed') /\ Cardinality(Owed') = 0
    BY <2>1, FS_EmptySet
  <2>3. used'.requests = used.requests /\ used.requests \in Nat /\ nextBody' = nextBody /\ nextBody \in Nat
    BY DEF Restart, Spend, UsedOK, ids, CanonInv, TypeOK, RequestsOK
  <2>4. Cardinality(Owed) \in Nat
    BY FS_CardinalityType DEF Funded
  <2>. QED  BY <2>2, <2>3, <2>4 DEF Funded
<1>. QED  BY <1>1, <1>2, <1>3, <1>4 DEF LogInv

LEMMA NextKeepsLog ==
  ASSUME "fork" \notin Kinds, LogInv, [Next]_vars
  PROVE  LogInv'
<1>. CanonInv /\ UsedOK /\ LockedInv /\ NoForks /\ TextsDrawn /\ HandsDrawn /\ Funded
  BY DEF LogInv
<1>1. ASSUME NEW p \in Procs, Step(p) PROVE LogInv'
  BY <1>1, StepKeepsCanon, UsedStep, StepKeepsLocked, StepKeepsNoForks, StepDrawsTexts,
     StepDrawsHands, StepFunded DEF LogInv, Next
<1>2. CASE UNCHANGED vars
  <2>1. CanonInv' /\ UsedOK'
    BY NextKeepsCanon, UsedStep
  <2>2. UNCHANGED <<chats, messages, queue, pc, req, loc, nextBody, used>>
    BY <1>2 DEF vars, storeVars
  <2>. QED  BY <2>1, <2>2 DEF LogInv, LockedInv, NoForks, TextsDrawn, HandsDrawn, Funded, Owed, Live, Seqs, chatOf
<1>. QED  BY <1>1, <1>2, CallKeepsLog, RestartKeepsLog DEF Next

LEMMA InitLog == Init => LogInv
<1>. SUFFICES ASSUME Init PROVE LogInv
  OBVIOUS
<1>1. CanonInv /\ LockedInv /\ UsedOK
  BY InitWriter DEF OneWriter, VariantInv
<1>2. NoForks /\ HandsDrawn
  BY DEF Init, NoForks, HandsDrawn, ForkSteps, Answering
<1>3. Funded
  <2>1. Owed = {}
    BY DEF Init, Owed, Owing
  <2>2. IsFiniteSet(Owed) /\ Cardinality(Owed) = 0
    BY <2>1, FS_EmptySet
  <2>. QED  BY <2>2, BoundsAssumption DEF Init, Funded
<1>4. TextsDrawn
  <2>. SUFFICES ASSUME NEW c \in ChatIds, NEW s \in Seqs(c) PROVE RowDrawn(messages[c][s], nextBody)
    BY DEF TextsDrawn, Init
  <2>1. messages[c] = ImportedCanon /\ s \in 0..2 /\ nextBody = 10
    BY DEF Init, Seqs, ImportedCanon
  <2>2. messages[c][s] = NewMessage(IF s = 1 THEN "user" ELSE "assistant", s + 1, 0)
    BY <2>1 DEF ImportedCanon
  <2>3. s + 1 \in 1..nextBody - 1
    BY <2>1
  <2>. QED  BY <2>2, <2>3, WrittenWith, Unscripted
<1>. QED  BY <1>1, <1>2, <1>3, <1>4 DEF LogInv

\* LogInv holds in every state.
LEMMA LogAlways ==
  ASSUME "fork" \notin Kinds
  PROVE  Spec => []LogInv
<1>1. LogInv /\ [Next]_vars => LogInv'
  BY NextKeepsLog
<1>. QED  BY InitLog, <1>1, PTL DEF Spec

\* Every message is a turn of the log.
TurnsThere == \A c \in ChatIds : \A s \in Seqs(c) : Entry(messages[c], s) \in Log!TurnOf(messages[c][s].role)
LEMMA TurnsAreThere == LogInv => TurnsThere
<1>. SUFFICES ASSUME LogInv, NEW c \in ChatIds, NEW s \in Seqs(c)
              PROVE  Entry(messages[c], s) \in Log!TurnOf(messages[c][s].role)
  BY DEF TurnsThere
<1>1. messages[c][s].body \in 1..nextBody - 1 /\ nextBody \in Nat
  BY DEF LogInv, TextsDrawn, RowDrawn, CanonInv, TypeOK, RequestsOK
<1>2. /\ nextBody + Cardinality(Owed) <= 10 + 3 * used.requests /\ Cardinality(Owed) \in Nat
      /\ used.requests <= MaxRequests /\ used.requests \in Nat /\ MaxRequests \in Nat
  BY FS_CardinalityType, BoundsAssumption DEF LogInv, Funded, UsedOK
<1>3. nextBody - 1 <= 9 + 3 * MaxRequests
  BY <1>1, <1>2
<1>4. messages[c][s].body \in Bodies
  BY <1>1, <1>2, <1>3 DEF Bodies
<1>. QED  BY <1>4 DEF Entry, Log!TurnOf
LEMMA TurnsWillBe == (LogInv => TurnsThere)'
BY TurnsAreThere, PTL

-----------------------------------------------------------------------------
(***************************************************************************)
(* The steps of ChatLog, in the terms of the service.                      *)
(***************************************************************************)
SameLog(d) == Committed(d)' = Committed(d)
SameLife(d) == Live(d)' <=> Live(d)

LEMMA LogStutters ==
  ASSUME used'.crashes = used.crashes, \A d \in ChatIds : SameLog(d) /\ SameLife(d)
  PROVE  UNCHANGED Log!vars
BY DEF Log!vars, SameLog, SameLife

LEMMA LogTouches ==
  ASSUME used'.crashes = used.crashes, NEW c \in ChatIds, Live(c),
         \A d \in ChatIds : SameLife(d), \A d \in ChatIds \ {c} : SameLog(d)
  PROVE  Log!OnlyTouches(c)
BY DEF Log!OnlyTouches, SameLog, SameLife

LEMMA LogCreates ==
  ASSUME used'.crashes = used.crashes, NEW c \in ChatIds, ~Live(c), Live(c)',
         \A d \in ChatIds : SameLog(d), \A d \in ChatIds \ {c} : SameLife(d)
  PROVE  Log!Next
<1>1. Log!Create(c)
  BY DEF Log!Create, SameLog, SameLife
<1>. QED  BY <1>1 DEF Log!Next

LEMMA LogDeletes ==
  ASSUME used'.crashes = used.crashes, NEW c \in ChatIds, Live(c), ~Live(c)', Committed(c)' = <<>>,
         \A d \in ChatIds \ {c} : SameLog(d) /\ SameLife(d)
  PROVE  Log!Next
<1>1. Log!Delete(c)
  BY DEF Log!Delete, SameLog, SameLife
<1>. QED  BY <1>1 DEF Log!Next

\* A chat's log stays, or grows by the user turn that was being answered.
Strands(d) ==
  \/ SameLog(d)
  \/ \E old, new, more : /\ old = Committed(d) /\ new = Committed(d)'
                         /\ more = SubSeq(new, Len(old) + 1, Len(new))
                         /\ new = old \o more /\ Len(more) = 1
                         /\ more[1] \in Log!TurnOf("user") /\ Live(d)
LEMMA LogRestarts ==
  ASSUME used'.crashes = used.crashes + 1, \A d \in ChatIds : SameLife(d) /\ Strands(d)
  PROVE  Log!Next
<1>1. Log!Restart
  BY DEF Log!Restart, Log!Grows, Log!Added, SameLife, Strands, SameLog
<1>. QED  BY <1>1 DEF Log!Next

-----------------------------------------------------------------------------
(***************************************************************************)
(* What a step does to the logs.                                           *)
(***************************************************************************)
\* Entries that stay, and entries behind them.
LEMMA StretchSame ==
  ASSUME NEW t, NEW u, NEW first \in {0, 1}, NEW last \in Int,
         \A i \in first..last : Entry(u, i) = Entry(t, i)
  PROVE  Stretch(u, first, last) = Stretch(t, first, last)
<1>1. \A k \in 1..last - first + 1 : first + k - 1 \in first..last
  OBVIOUS
<1>. QED  BY <1>1 DEF Stretch

Alike(t, u, first, last) == \A i \in first..last : Entry(u, i) = Entry(t, i)
Continues(old, new, u, last, k) ==
  \E more : /\ more = SubSeq(new, Len(old) + 1, Len(new)) /\ new = old \o more /\ Len(more) = k
            /\ \A i \in 1..k : more[i] = Entry(u, last + i)
LEMMA StretchGrows ==
  ASSUME NEW t, NEW u, NEW first \in {0, 1}, NEW last \in Int, last >= first - 1, NEW k \in Nat,
         Alike(t, u, first, last), NEW end, end = last + k
  PROVE  Continues(Stretch(t, first, last), Stretch(u, first, end), u, last, k)
<1>a. PICK old, new, more : /\ old = Stretch(t, first, last) /\ new = Stretch(u, first, end)
                          /\ more = SubSeq(new, Len(old) + 1, Len(new))
  OBVIOUS
<1>. SUFFICES new = old \o more /\ Len(more) = k /\ \A i \in 1..k : more[i] = Entry(u, last + i)
  BY <1>a, Zenon DEF Continues
<1>0. \A i \in first..last : Entry(u, i) = Entry(t, i)
  BY DEF Alike
<1>b. PICK n \in Nat : n = last - first + 1
  OBVIOUS
<1>. DEFINE T == {Entry(u, i) : i \in Int} \union {Entry(t, i) : i \in Int}
<1>1. \A i \in Int : Entry(t, i) \in T /\ Entry(u, i) \in T
  OBVIOUS
<1>. HIDE DEF T
<1>2. old = [i \in 1..n |-> Entry(t, first + i - 1)] /\ new = [i \in 1..n + k |-> Entry(u, first + i - 1)]
  BY <1>a, <1>b DEF Stretch
<1>3. old \in Seq(T) /\ new \in Seq(T) /\ Len(old) = n /\ Len(new) = n + k
  BY <1>1, <1>2
<1>4. more \in Seq(T) /\ Len(more) = k /\ \A i \in 1..k : more[i] = new[n + i]
  <2>1. PICK w \in Seq(T), m \in Int, l \in Int : w = new /\ Len(w) = n + k /\ m = n + 1 /\ l = Len(w)
    BY <1>3
  <2>. \A i \in m..l : w[i] \in T
    BY <2>1
  <2>2. more = SubSeq(w, m, l)
    BY <1>3, <1>a, <2>1
  <2>3. /\ SubSeq(w, m, l) \in Seq(T)
        /\ Len(SubSeq(w, m, l)) = IF m <= l THEN l - m + 1 ELSE 0
        /\ \A i \in 1..l - m + 1 : SubSeq(w, m, l)[i] = w[m + i - 1]
    BY <2>1, SubSeqProperties
  <2>4. PICK x : x = SubSeq(w, m, l) /\ x = more
    BY <2>2
  <2>5. /\ more \in Seq(T) /\ Len(more) = IF m <= l THEN l - m + 1 ELSE 0
        /\ \A i \in 1..l - m + 1 : more[i] = w[m + i - 1]
    BY <2>3, <2>4, Zenon
  <2>6. ASSUME NEW i \in 1..k PROVE more[i] = new[n + i]
    <3>1. i \in 1..l - m + 1 /\ m + i - 1 = n + i
      BY <2>1
    <3>. QED  BY <2>1, <2>5, <3>1
  <2>7. Len(more) = k
    BY <2>1, <2>5
  <2>. QED  BY <2>5, <2>6, <2>7
<1>5. /\ old \o more \in Seq(T) /\ Len(old \o more) = n + k
      /\ \A i \in 1..n + k : (old \o more)[i] = IF i <= n THEN old[i] ELSE more[i - n]
  <2>1. PICK a \in Seq(T), b \in Seq(T) : a = old /\ b = more
    BY <1>3, <1>4
  <2>2. /\ a \o b \in Seq(T) /\ Len(a \o b) = Len(a) + Len(b)
        /\ \A i \in 1..Len(a) + Len(b) : (a \o b)[i] = IF i <= Len(a) THEN a[i] ELSE b[i - Len(a)]
    BY ConcatProperties
  <2>3. Len(a) = n /\ Len(b) = k
    BY <1>3, <1>4, <2>1
  <2>4. PICK ab : ab = a \o b
    OBVIOUS
  <2>5. old \o more = ab
    BY <2>1, <2>4, Zenon
  <2>6. ab \in Seq(T) /\ Len(ab) = n + k
        /\ \A i \in 1..n + k : ab[i] = IF i <= n THEN old[i] ELSE more[i - n]
    BY <2>1, <2>2, <2>3, <2>4, ZenonT(60)
  <2>. QED  BY <2>5, <2>6, Zenon
<1>6. ASSUME NEW i \in 1..n + k PROVE (old \o more)[i] = new[i]
  <2>1. CASE i <= n
    <3>1. first + i - 1 \in first..last /\ i \in 1..n
      BY <1>b, <2>1
    <3>. QED  BY <1>0, <1>2, <1>5, <2>1, <3>1
  <2>2. CASE ~(i <= n)
    <3>1. i - n \in 1..k /\ n + (i - n) = i
      BY <2>2
    <3>. QED  BY <1>4, <1>5, <2>2, <3>1
  <2>. QED  BY <2>1, <2>2
<1>7. new = old \o more
  BY <1>3, <1>5, <1>6, SeqEqual
<1>8. ASSUME NEW i \in 1..k PROVE more[i] = Entry(u, last + i)
  <2>1. n + i \in 1..n + k /\ first + (n + i) - 1 = last + i
    BY <1>b
  <2>. QED  BY <1>2, <1>4, <2>1
<1>. QED  BY <1>4, <1>7, <1>8

\* The log of a chat before and after a step.
LEMMA LogBefore ==
  ASSUME CanonInv, NEW c \in ChatIds
  PROVE  /\ Committed(c) = Stretch(messages[c], First(messages[c]), AnsweredTip(c))
         /\ First(messages[c]) \in {0, 1} /\ AnsweredTip(c) \in Nat /\ First(messages[c]) - 1 <= AnsweredTip(c)
         /\ MaxSeq(c) \in Nat /\ AnsweredTip(c) = IF Asked(c) THEN MaxSeq(c) - 1 ELSE MaxSeq(c)
         /\ Seqs(c) = First(messages[c])..MaxSeq(c)
BY CommittedIs, CountedSeqs DEF Entries, AnsweredTip

LEMMA LogAfter ==
  ASSUME CanonInv', NEW c \in ChatIds
  PROVE  /\ Committed(c)' = Stretch(messages'[c], First(messages'[c]), AnsweredTip(c)')
         /\ AnsweredTip(c)' = IF Asked(c)' THEN MaxSeq(c)' - 1 ELSE MaxSeq(c)'
         /\ Seqs(c)' = First(messages'[c])..MaxSeq(c)' /\ MaxSeq(c)' \in Nat
<1>1. Committed(c)' = Entries(messages'[c], AnsweredTip(c)')
  BY CommittedWillBe
<1>2. Entries(messages'[c], AnsweredTip(c)') = Stretch(messages'[c], First(messages'[c]), AnsweredTip(c)')
  BY DEF Entries
<1>3. Seqs(c)' = First(messages'[c])..MaxSeq(c)' /\ MaxSeq(c)' \in Nat
  BY SeqsWillBe
<1>. QED  BY <1>1, <1>2, <1>3 DEF AnsweredTip

\* Who is being answered changes with the sends of the chat alone.
LEMMA OthersAsked ==
  ASSUME CanonInv, NEW p \in Procs, Step(p), NEW q \in Procs \ {p}, NEW d
  PROVE  (pc[q] \in Unanswered /\ chatOf(q) = d)' <=> (pc[q] \in Unanswered /\ chatOf(q) = d)
BY OthersStay DEF chatOf

LEMMA StaysPut ==
  ASSUME CanonInv, NEW p \in Procs, Step(p), pc'[p] \in Unanswered
  PROVE  chatOf(p)' = chatOf(p) /\ (pc[p] \in Unanswered \/ SendInsert(p))
<1>1. BeginSend(p) \/ SendInsert(p) \/ SendStart(p) \/ SendReply(p) \/ SendFails(p)
  BY SendsArrive
<1>2. DOMAIN pc = Procs
  BY DEF CanonInv, LineInv, Shapes
<1>3. req' = req
  BY <1>1 DEF BeginSend, SendInsert, SendStart, SendReply, SendFails, StartTurn, EndTurn, FailTurn
<1>. QED  BY <1>1, <1>2, <1>3 DEF BeginSend, SendStart, SendReply, SendFails, StartTurn, EndTurn, FailTurn,
     At, Unanswered, chatOf

LEMMA AskedStays ==
  ASSUME CanonInv, NEW p \in Procs, Step(p), NEW d \in ChatIds,
         d # chatOf(p) \/ (pc'[p] \in Unanswered <=> pc[p] \in Unanswered)
  PROVE  Asked(d)' <=> Asked(d)
<1>. DEFINE A(q) == pc[q] \in Unanswered /\ chatOf(q) = d
            B(q) == (pc[q] \in Unanswered /\ chatOf(q) = d)'
<1>1. \A q \in Procs \ {p} : B(q) <=> A(q)
  BY OthersAsked
<1>2. B(p) <=> A(p)
  <2>1. CASE pc'[p] \in Unanswered
    BY <2>1, StaysPut
  <2>2. CASE pc'[p] \notin Unanswered
    BY <2>2
  <2>. QED  BY <2>1, <2>2
<1>3. Asked(d) <=> \E q \in Procs : A(q)
  BY DEF Asked
<1>4. Asked(d)' <=> \E q \in Procs : B(q)
  BY DEF Asked
<1>. HIDE DEF A, B
<1>. QED  BY <1>1, <1>2, <1>3, <1>4

\* Under the lock, the chat's send is the holder's own.
LEMMA AskedByStep ==
  ASSUME CanonInv, NEW p \in Procs, Step(p), Holds(p), NEW c \in ChatIds, c = chatOf(p)
  PROVE  /\ Asked(c) <=> pc[p] \in Unanswered
         /\ Asked(c)' <=> pc'[p] \in Unanswered
<1>1. Asked(c) <=> pc[p] \in Unanswered
  BY AskedByHolder
<1>2. ASSUME NEW q \in Procs \ {p}, (pc[q] \in Unanswered /\ chatOf(q) = c)' PROVE FALSE
  <2>1. pc[q] \in Unanswered /\ chatOf(q) = c
    BY <1>2, OthersAsked
  <2>2. Holds(q)
    BY <2>1, Running DEF Unanswered, LockedSteps
  <2>. QED  BY <2>1, <2>2 DEF Holds
<1>3. pc'[p] \in Unanswered => chatOf(p)' = c
  BY StaysPut
<1>4. Asked(c)' <=> \E q \in Procs : (pc[q] \in Unanswered /\ chatOf(q) = c)'
  BY DEF Asked
<1>5. (pc[p] \in Unanswered /\ chatOf(p) = c)' <=> pc'[p] \in Unanswered
  BY <1>3
<1>. QED  BY <1>1, <1>2, <1>4, <1>5

\* A chat whose table and sends stay keeps its log.
LEMMA KeepsLog ==
  ASSUME CanonInv, CanonInv', NEW c \in ChatIds, Asked(c)' <=> Asked(c),
         Seqs(c)' = Seqs(c), \A i \in Seqs(c) : Entry(messages'[c], i) = Entry(messages[c], i)
  PROVE  SameLog(c)
<1>1. MaxSeq(c)' = MaxSeq(c) /\ First(messages'[c]) = First(messages[c])
  BY DEF MaxSeq, First, Seqs
<1>2. AnsweredTip(c)' = AnsweredTip(c)
  BY <1>1, LogBefore, LogAfter
<1>3. \A i \in First(messages[c])..AnsweredTip(c) : i \in Seqs(c)
  BY LogBefore
<1>4. Stretch(messages'[c], First(messages[c]), AnsweredTip(c)) = Committed(c)
  BY <1>3, LogBefore, StretchSame
<1>. QED  BY <1>1, <1>2, <1>4, LogAfter DEF SameLog

LEMMA OtherLogs ==
  ASSUME CanonInv, CanonInv', NoForks, NEW p \in Procs, Step(p), NEW d \in ChatIds, d # chatOf(p)
  PROVE  SameLog(d) /\ SameLife(d)
<1>1. ~ForkMessages(p) /\ ~ForkRow(p)
  BY DEF NoForks, ForkSteps, ForkMessages, ForkRow, At
<1>2. messages'[d] = messages[d]
  BY <1>1, TableMoves
<1>3. Asked(d)' <=> Asked(d)
  BY AskedStays
<1>4. SameLog(d)
  BY <1>2, <1>3, KeepsLog DEF Seqs
<1>5. chats'[d].status = chats[d].status
  BY <1>1, StatusStep
<1>. QED  BY <1>4, <1>5 DEF SameLife, Live

\* A row behind the tip is the new tip.
LEMMA InsertedAtTip ==
  ASSUME CanonInv, CanonInv', NEW c \in ChatIds, NEW s, s = MaxSeq(c) + 1, NEW m \in Message,
         messages' = WithMessage(c, s, m)
  PROVE  /\ First(messages'[c]) = First(messages[c]) /\ MaxSeq(c)' = s /\ s \in Seqs(c)'
         /\ messages'[c][s] = m /\ s \in Nat
         /\ \A i \in First(messages[c])..MaxSeq(c) : messages'[c][i] = messages[c][i]
<1>1. PICK first \in {0, 1}, tip \in Nat :
         first = First(messages[c]) /\ tip = MaxSeq(c) /\ Seqs(c) = first..tip
  BY LogBefore
<1>2. s \in Nat /\ s = tip + 1 /\ MessagesOK
  BY <1>1 DEF CanonInv, TypeOK
<1>3. /\ Seqs(c)' = Seqs(c) \union {s} /\ messages'[c][s] = m
      /\ \A i \in Seqs(c) \ {s} : messages'[c][i] = messages[c][i]
  BY <1>2, RowInserted
<1>4. First(messages'[c]) = first
  BY <1>1, <1>2, <1>3 DEF First, Seqs
<1>5. PICK last \in Nat : last = MaxSeq(c)' /\ Seqs(c)' = first..last
  BY <1>4, LogAfter
<1>6. last = s
  <2>1. s \in first..last
    BY <1>3, <1>5
  <2>2. last \in first..last
    BY <1>2, <2>1
  <2>3. last \in (first..tip) \union {s}
    BY <1>1, <1>3, <1>5, <2>2
  <2>. QED  BY <1>2, <2>1, <2>3
<1>. QED  BY <1>1, <1>2, <1>3, <1>4, <1>5, <1>6

\* send.ts: a user turn enters unseen, and leaves unseen when its generation fails.
LEMMA UserTurnUnseen ==
  ASSUME CanonInv, CanonInv', NEW p \in Procs, Step(p), SendInsert(p), NEW c \in ChatIds, c = chatOf(p)
  PROVE  SameLog(c)
<1>1. PICK s : s = loc[p].seq
  OBVIOUS
<1>2. pc[p] = "send.insert" /\ pc'[p] = "send.turn" /\ s \notin Seqs(c)
  BY <1>1 DEF SendInsert, At, CanInsert, CanonInv, LineInv, Shapes
<1>3. Holds(p) /\ s = MaxSeq(c) + 1
  BY <1>1, <1>2, Running DEF LockedSteps, CanonInv, SendsAtTip, SendAtTip
<1>4. ~Asked(c) /\ Asked(c)'
  BY <1>2, <1>3, AskedByStep DEF Unanswered
<1>5. PICK m \in Message : m = NewMessage("user", nextBody, 0)
  BY NewMessageIs DEF CanonInv, TypeOK, RequestsOK
<1>6. messages' = WithMessage(c, s, m)
  BY <1>1, <1>5 DEF SendInsert
<1>7. /\ First(messages'[c]) = First(messages[c]) /\ MaxSeq(c)' = s
      /\ \A i \in First(messages[c])..MaxSeq(c) : messages'[c][i] = messages[c][i]
  BY <1>3, <1>6, InsertedAtTip
<1>8. AnsweredTip(c) = MaxSeq(c) /\ AnsweredTip(c)' = MaxSeq(c)
  BY <1>3, <1>4, <1>7, LogBefore, LogAfter
<1>9. PICK t, u, first, last : /\ t = messages[c] /\ u = messages'[c]
                              /\ first = First(messages[c]) /\ last = AnsweredTip(c)
  OBVIOUS
<1>. first \in {0, 1} /\ last \in Int
  BY <1>9, LogBefore
<1>10. \A i \in first..last : Entry(u, i) = Entry(t, i)
  BY <1>7, <1>8, <1>9 DEF Entry
<1>11. Stretch(u, first, last) = Stretch(t, first, last)
  BY <1>10, StretchSame
<1>12. Committed(c) = Stretch(t, first, last)
  BY <1>9, LogBefore
<1>13. Committed(c)' = Stretch(u, first, last)
  BY <1>7, <1>8, <1>9, LogAfter
<1>. QED  BY <1>11, <1>12, <1>13 DEF SameLog

LEMMA FailureUnseen ==
  ASSUME CanonInv, CanonInv', NEW p \in Procs, Step(p), SendRollback(p), NEW c \in ChatIds, c = chatOf(p)
  PROVE  SameLog(c)
<1>1. PICK s : s = loc[p].seq
  OBVIOUS
<1>2. pc[p] = "send.rollback" /\ pc'[p] = "idle" /\ messages' = WithoutMessage(c, s)
  BY <1>1 DEF SendRollback, Leave, CanonInv, LineInv, Shapes
<1>3. Holds(p) /\ s \in Seqs(c) /\ s = MaxSeq(c) /\ s >= 1 /\ (s = 1 => 0 \notin Seqs(c))
  BY <1>1, <1>2, Running DEF LockedSteps, Unanswered, CanonInv, SendsAtTip, SendAtTip
<1>4. Asked(c) /\ ~Asked(c)'
  BY <1>2, <1>3, AskedByStep DEF Unanswered
<1>5. /\ Seqs(c)' = Seqs(c) \ {s}
      /\ \A i \in Seqs(c) \ {s} : messages'[c][i] = messages[c][i]
  BY <1>2, RowDeleted DEF CanonInv, TypeOK
<1>6. PICK first \in {0, 1}, tip \in Nat :
         first = First(messages[c]) /\ tip = MaxSeq(c) /\ Seqs(c) = first..tip
  BY LogBefore
<1>7. First(messages'[c]) = first
  BY <1>3, <1>5, <1>6 DEF First, Seqs
<1>8. PICK last \in Nat : last = MaxSeq(c)' /\ Seqs(c)' = first..last
  BY <1>7, LogAfter
<1>9. last = s - 1
  <2>1. CASE s = 1
    <3>1. first = 1 /\ Seqs(c)' = {}
      BY <1>3, <1>5, <1>6, <2>1
    <3>. QED  BY <1>8, <2>1, <3>1
  <2>2. CASE s # 1
    <3>1. s - 1 \in first..last
      BY <1>3, <1>5, <1>6, <1>8, <2>2
    <3>2. last \in first..last
      BY <3>1
    <3>3. last \in (first..tip) \ {s}
      BY <1>5, <1>6, <1>8, <3>2
    <3>. QED  BY <1>3, <1>6, <3>1, <3>3
  <2>. QED  BY <2>1, <2>2
<1>10. AnsweredTip(c) = tip - 1 /\ AnsweredTip(c)' = tip - 1
  BY <1>3, <1>4, <1>6, <1>8, <1>9, LogBefore, LogAfter
<1>11. \A i \in first..tip - 1 : Entry(messages'[c], i) = Entry(messages[c], i)
  <2>1. \A i \in first..tip - 1 : i \in Seqs(c) \ {s}
    BY <1>3, <1>6
  <2>. QED  BY <1>5, <2>1 DEF Entry
<1>12. Stretch(messages'[c], first, tip - 1) = Committed(c)
  BY <1>6, <1>10, <1>11, LogBefore, StretchSame
<1>. QED  BY <1>7, <1>10, <1>12, LogAfter DEF SameLog

\* The user turn and its reply come together.
LEMMA ReplyExchanges ==
  ASSUME LogInv, LogInv', NEW p \in Procs, Step(p), SendPersist(p), NEW c \in ChatIds, c = chatOf(p),
         Log!OnlyTouches(c)
  PROVE  Log!Next
<1>. CanonInv /\ CanonInv'
  BY DEF LogInv
<1>1. PICK s : s = loc[p].seq
  OBVIOUS
<1>2. pc[p] = "send.persist" /\ pc'[p] = "send.update"
  BY DEF SendPersist, At, CanonInv, LineInv, Shapes
<1>3. Holds(p) /\ s \in Seqs(c) /\ s = MaxSeq(c) /\ messages[c][s].role = "user"
  BY <1>1, <1>2, Running DEF LockedSteps, Unanswered, CanonInv, SendsAtTip, SendAtTip
<1>4. Asked(c) /\ ~Asked(c)'
  BY <1>2, <1>3, AskedByStep DEF Unanswered
<1>5. PICK m \in Message : m.role = "assistant" /\ messages' = WithMessage(c, s + 1, m)
  <2>1. PICK m \in AfterScripts(NewMessage("assistant", loc[p].body, 1)) :
          messages' = WithMessage(c, s + 1, m)
    BY <1>1 DEF SendPersist
  <2>2. loc[p].body \in Nat
    BY LocalsAre DEF CanonInv, TypeOK
  <2>. QED  BY <2>1, <2>2, ScriptedIs
<1>6. messages' = WithMessage(c, s + 1, m)
  BY <1>5
<1>7. /\ First(messages'[c]) = First(messages[c]) /\ MaxSeq(c)' = s + 1 /\ s + 1 \in Seqs(c)'
      /\ messages'[c][s + 1] = m
      /\ \A i \in First(messages[c])..MaxSeq(c) : messages'[c][i] = messages[c][i]
  BY <1>3, <1>6, InsertedAtTip
<1>8. PICK first \in {0, 1}, last \in Int : /\ first = First(messages[c]) /\ last = AnsweredTip(c)
                                          /\ last >= first - 1 /\ last + 1 = s /\ s \in Nat
                                          /\ Seqs(c) = first..s
  BY <1>3, <1>4, LogBefore
<1>9. Seqs(c)' = first..s + 1 /\ AnsweredTip(c)' = last + 2
  BY <1>4, <1>7, <1>8, LogAfter
<1>10. \A i \in first..last : Entry(messages'[c], i) = Entry(messages[c], i)
  BY <1>3, <1>7, <1>8 DEF Entry
<1>11. PICK old, new, more : /\ old = Committed(c) /\ new = Committed(c)'
                            /\ more = SubSeq(new, Len(old) + 1, Len(new))
  OBVIOUS
<1>12. old = Stretch(messages[c], first, last) /\ new = Stretch(messages'[c], first, last + 2)
  BY <1>7, <1>8, <1>9, <1>11, LogBefore, LogAfter
<1>13. new = old \o more /\ Len(more) = 2 /\ \A i \in 1..2 : more[i] = Entry(messages'[c], last + i)
  <2>1. PICK t, u : t = messages[c] /\ u = messages'[c]
    OBVIOUS
  <2>2. PICK k \in Nat : k = 2
    OBVIOUS
  <2>3. PICK end : end = last + k
    OBVIOUS
  <2>4. Alike(t, u, first, last) /\ last >= first - 1
    BY <1>8, <1>10, <2>1 DEF Alike
  <2>5. Continues(Stretch(t, first, last), Stretch(u, first, end), u, last, k)
    BY <2>3, <2>4, StretchGrows
  <2>6. old = Stretch(t, first, last) /\ new = Stretch(u, first, end)
    BY <1>12, <2>1, <2>2, <2>3
  <2>7. Continues(old, new, u, last, k)
    BY <2>5, <2>6, Zenon
  <2>8. new = old \o more /\ Len(more) = k /\ \A i \in 1..k : more[i] = Entry(u, last + i)
    BY <1>11, <2>7, Zenon DEF Continues
  <2>. QED  BY <2>1, <2>2, <2>8
<1>14. more[1] = Entry(messages'[c], s) /\ more[2] = Entry(messages'[c], s + 1)
  <2>1. 1 \in 1..2 /\ 2 \in 1..2 /\ last + 1 = s /\ last + 2 = s + 1
    BY <1>8
  <2>. QED  BY <1>13, <2>1, Zenon
<1>15. /\ more[1] \in Log!TurnOf(messages'[c][s].role)
       /\ more[2] \in Log!TurnOf(messages'[c][s + 1].role)
  <2>1. TurnsThere'
    BY TurnsWillBe
  <2>2. s \in Seqs(c)' /\ s + 1 \in Seqs(c)'
    BY <1>3, <1>7, <1>8, <1>9
  <2>. QED  BY <1>14, <2>1, <2>2 DEF TurnsThere
<1>16. messages'[c][s].role = "user" /\ messages'[c][s + 1].role = "assistant"
  BY <1>3, <1>5, <1>7, <1>8
<1>17. more[1] \in Log!TurnOf("user") /\ more[2] \in Log!TurnOf("assistant")
  BY <1>15, <1>16, Zenon
<1>18. Log!Exchange(c)
  BY <1>11, <1>13, <1>17 DEF Log!Exchange, Log!Grows, Log!Added
<1>. QED  BY <1>18 DEF Log!Next

\* A chat without messages is not being answered.
LEMMA NothingAsked ==
  CanonInv => \A c \in ChatIds : Seqs(c) = {} => ~Asked(c) /\ Committed(c) = <<>>
<1>. SUFFICES ASSUME CanonInv, NEW c \in ChatIds, Seqs(c) = {} PROVE ~Asked(c) /\ Committed(c) = <<>>
  OBVIOUS
<1>1. ~Asked(c)
  BY DEF Asked, CanonInv, SendsAtTip, SendAtTip
<1>2. MaxSeq(c) = 0 /\ AnsweredTip(c) = 0
  BY <1>1, LogBefore DEF MaxSeq
<1>3. First(messages[c]) = 1
  BY DEF First, Seqs
<1>. QED  BY <1>1, <1>2, <1>3, LogBefore DEF Stretch
LEMMA NothingWillBeAsked ==
  (CanonInv => \A c \in ChatIds : Seqs(c) = {} => ~Asked(c) /\ Committed(c) = <<>>)'
BY NothingAsked, PTL

\* A turn goes on until it is rolled back or answered.
LEMMA AnsweringStays ==
  ASSUME CanonInv, NEW p \in Procs, Step(p), ~SendInsert(p), ~SendRollback(p), ~SendPersist(p)
  PROVE  pc'[p] \in Unanswered <=> pc[p] \in Unanswered
<1>1. pc'[p] \in Unanswered => pc[p] \in Unanswered
  BY StaysPut
<1>2. ASSUME pc[p] \in Unanswered PROVE pc'[p] \in Unanswered
  <2>1. SendStart(p) \/ SendReply(p) \/ SendFails(p)
    BY <1>2, SendsGoOn
  <2>2. DOMAIN pc = Procs
    BY DEF CanonInv, LineInv, Shapes
  <2>. QED  BY <2>1, <2>2 DEF SendStart, SendReply, SendFails, StartTurn, EndTurn, FailTurn, At, Unanswered
<1>. QED  BY <1>1, <1>2

\* A step that leaves the chat's table alone leaves its log alone.
LEMMA QuietStep ==
  ASSUME CanonInv, CanonInv', NEW p \in Procs, Step(p), ~SendInsert(p), ~SendRollback(p), ~SendPersist(p),
         NEW c \in ChatIds, messages'[c] = messages[c]
  PROVE  SameLog(c)
<1>1. Asked(c)' <=> Asked(c)
  BY AnsweringStays, AskedStays
<1>. QED  BY <1>1, KeepsLog DEF Seqs

\* What a step under the lock touches.
LEMMA StepTouches ==
  ASSUME LogInv, LogInv', NEW p \in Procs, Step(p), NEW c \in ChatIds, c = chatOf(p), Live(c), Live(c)'
  PROVE  Log!OnlyTouches(c)
<1>. CanonInv /\ CanonInv' /\ NoForks /\ UsedOK
  BY DEF LogInv
<1>1. used'.crashes = used.crashes
  BY StepSpends
<1>2. \A d \in ChatIds \ {c} : SameLog(d) /\ SameLife(d)
  BY OtherLogs
<1>3. SameLife(c)
  BY DEF SameLife
<1>. QED  BY <1>1, <1>2, <1>3, LogTouches

\* A step without effect on any log or any chat's life.
LEMMA StepStutters ==
  ASSUME LogInv, LogInv', NEW p \in Procs, Step(p), NEW c \in ChatIds, c = chatOf(p), SameLog(c), SameLife(c)
  PROVE  UNCHANGED Log!vars
<1>. CanonInv /\ CanonInv' /\ NoForks /\ UsedOK
  BY DEF LogInv
<1>1. used'.crashes = used.crashes
  BY StepSpends
<1>2. \A d \in ChatIds \ {c} : SameLog(d) /\ SameLife(d)
  BY OtherLogs
<1>. QED  BY <1>1, <1>2, LogStutters

\* One row is rewritten, for its own speaker.
LEMMA RewrittenIs ==
  ASSUME CanonInv, NEW c \in ChatIds, NEW s, NEW m, Rewritten(c, s, m)
  PROVE  /\ Seqs(c)' = Seqs(c) /\ \A i \in Seqs(c) : messages'[c][i].role = messages[c][i].role
         /\ \A i \in Seqs(c) \ {s} : messages'[c][i] = messages[c][i]
         /\ s \in Seqs(c) => messages'[c][s] = m
<1>1. PICK t : t = messages[c]
  OBVIOUS
<1>2. messages'[c] = [t EXCEPT ![s] = m]
  BY <1>1 DEF Rewritten, CanonInv, TypeOK, MessagesOK
<1>3. PICK u : u = messages'[c] /\ u = [t EXCEPT ![s] = m]
  BY <1>2
<1>4. DOMAIN u = DOMAIN t /\ (s \in DOMAIN t => u[s] = m) /\ \A i \in DOMAIN t \ {s} : u[i] = t[i]
  BY <1>3
<1>5. s \in DOMAIN t => m.role = t[s].role
  BY <1>1 DEF Rewritten, Seqs
<1>. QED  BY <1>1, <1>3, <1>4, <1>5 DEF Seqs

\* A step of the log, or none.
LogMove == Log!Next \/ UNCHANGED Log!vars

\* An edit, a swipe, a chosen variant: one turn changes its text, or none does.
LEMMA RewriteMoves ==
  ASSUME LogInv, LogInv', NEW p \in Procs, Step(p), Holds(p), NEW c \in ChatIds, c = chatOf(p),
         pc[p] \notin Unanswered, pc'[p] \notin Unanswered, Live(c), Live(c)',
         NEW s, NEW m, Rewritten(c, s, m)
  PROVE  LogMove
<1>. CanonInv /\ CanonInv'
  BY DEF LogInv
<1>1. ~Asked(c) /\ ~Asked(c)'
  BY AskedByStep
<1>2. /\ Seqs(c)' = Seqs(c) /\ \A i \in Seqs(c) : messages'[c][i].role = messages[c][i].role
      /\ \A i \in Seqs(c) \ {s} : messages'[c][i] = messages[c][i]
  BY RewrittenIs
<1>3. CASE s \notin Seqs(c)
  <2>1. \A i \in Seqs(c) : Entry(messages'[c], i) = Entry(messages[c], i)
    BY <1>2, <1>3 DEF Entry
  <2>2. SameLog(c)
    BY <1>1, <1>2, <2>1, KeepsLog
  <2>3. SameLife(c)
    BY DEF SameLife
  <2>. QED  BY <2>2, <2>3, StepStutters DEF LogMove
<1>4. CASE s \in Seqs(c)
  <2>1. PICK t, u, first, last : /\ t = messages[c] /\ u = messages'[c]
                                /\ first = First(t) /\ last = MaxSeq(c)
    OBVIOUS
  <2>2. /\ first \in {0, 1} /\ last \in Nat /\ Seqs(c) = first..last
        /\ Committed(c) = Stretch(t, first, last)
    BY <1>1, <2>1, LogBefore
  <2>3. First(u) = first /\ MaxSeq(c)' = last
    BY <1>2, <2>1 DEF First, MaxSeq, Seqs
  <2>4. Committed(c)' = Stretch(u, first, last)
    BY <1>1, <2>1, <2>3, LogAfter
  <2>5. PICK old, new : /\ old = Committed(c) /\ new = Committed(c)'
                        /\ old = Stretch(t, first, last) /\ new = Stretch(u, first, last)
    BY <2>2, <2>4
  <2>6. PICK i \in 1..last - first + 1 : first + i - 1 = s
    <3>1. s - first + 1 \in 1..last - first + 1 /\ first + (s - first + 1) - 1 = s
      BY <1>4, <2>2
    <3>. QED  BY <3>1
  <2>7. PICK n \in Nat : n = last - first + 1
    BY <2>2
  <2>8. /\ old = [k \in 1..n |-> Entry(t, first + k - 1)] /\ new = [k \in 1..n |-> Entry(u, first + k - 1)]
        /\ i \in 1..n
    BY <2>5, <2>6, <2>7 DEF Stretch
  <2>9. Len(new) = Len(old) /\ DOMAIN old = 1..n /\ i \in DOMAIN old
    BY <2>8
  <2>10. new[i] = Entry(u, s) /\ old[i] = Entry(t, s)
    BY <2>6, <2>8
  <2>11. new[i] \in Log!TurnOf(old[i].role)
    <3>1. Entry(u, s) \in Log!TurnOf(u[s].role)
      <4>1. TurnsThere' /\ s \in Seqs(c)'
        BY <1>2, <1>4, TurnsWillBe
      <4>. QED  BY <2>1, <4>1 DEF TurnsThere
    <3>2. old[i].role = u[s].role
      BY <1>2, <1>4, <2>1, <2>10 DEF Entry
    <3>. QED  BY <2>10, <3>1, <3>2
  <2>12. ASSUME NEW j \in 1..n \ {i} PROVE new[j] = old[j]
    <3>1. first + j - 1 \in Seqs(c) \ {s}
      BY <2>2, <2>6, <2>7
    <3>2. Entry(u, first + j - 1) = Entry(t, first + j - 1)
      BY <1>2, <2>1, <3>1 DEF Entry
    <3>. QED  BY <2>8, <3>2
  <2>13. Log!OnlyTouches(c)
    BY StepTouches
  <2>14. \A j \in DOMAIN old \ {i} : new[j] = old[j]
    BY <2>9, <2>12
  <2>15. PICK at \in DOMAIN old : /\ new[at] \in Log!TurnOf(old[at].role)
                                  /\ \A j \in DOMAIN old \ {at} : new[j] = old[j]
    BY <2>9, <2>11, <2>14, Zenon
  <2>16. old = Committed(c) /\ new = Committed(c)' /\ Len(new) = Len(old)
    BY <2>5, <2>9
  <2>17. Log!Rewrite(c)
    BY <2>13, <2>15, <2>16 DEF Log!Rewrite
  <2>. QED  BY <2>17 DEF Log!Next, LogMove
<1>. QED  BY <1>3, <1>4

\* A greeting and a generated scene open a chat that has no messages.
LEMMA OpeningMoves ==
  ASSUME LogInv, LogInv', NEW p \in Procs, Step(p), GreetInsert(p) \/ OpenInsert(p),
         NEW c \in ChatIds, c = chatOf(p)
  PROVE  LogMove
<1>. CanonInv /\ CanonInv'
  BY DEF LogInv
<1>1. UNCHANGED chats /\ pc[p] \in {"greet.insert", "open.insert"} /\ SameLife(c)
      /\ ~SendInsert(p) /\ ~SendRollback(p) /\ ~SendPersist(p)
  BY DEF GreetInsert, OpenInsert, SendInsert, SendRollback, SendPersist, At, SameLife, Live
<1>2. CASE ~CanInsert(c, 1)
  <2>1. messages'[c] = messages[c]
    BY <1>2 DEF GreetInsert, OpenInsert
  <2>. QED  BY <1>1, <2>1, QuietStep, StepStutters DEF LogMove
<1>3. CASE CanInsert(c, 1)
  <2>1. Live(c) /\ Live(c)' /\ 1 \notin Seqs(c) /\ CanonRuns
    BY <1>1, <1>3 DEF CanInsert, Live, CanonInv
  <2>2. Seqs(c) = {} /\ MaxSeq(c) = 0
    BY <2>1, OneIsFirst
  <2>3. ~Asked(c) /\ Committed(c) = <<>>
    BY <2>2, NothingAsked
  <2>4. ~Asked(c)'
    BY <1>1, <2>3, AnsweringStays, AskedStays
  <2>5. PICK m \in Message : m.role = "assistant" /\ messages' = WithMessage(c, 1, m)
    <3>1. loc[p].body \in Nat /\ nextBody \in Nat
      BY LocalsAre DEF CanonInv, TypeOK, RequestsOK
    <3>2. /\ NewMessage("assistant", nextBody, 0) \in Message
          /\ NewMessage("assistant", nextBody, 0).role = "assistant"
          /\ NewMessage("assistant", loc[p].body, 1) \in Message
          /\ NewMessage("assistant", loc[p].body, 1).role = "assistant"
      BY <3>1, NewMessageIs
    <3>. QED  BY <1>3, <3>2 DEF GreetInsert, OpenInsert
  <2>6. PICK s : s = 1 /\ s = MaxSeq(c) + 1
    BY <2>2
  <2>7. messages' = WithMessage(c, s, m)
    BY <2>5, <2>6
  <2>8. /\ First(messages'[c]) = First(messages[c]) /\ MaxSeq(c)' = 1 /\ 1 \in Seqs(c)'
        /\ messages'[c][1] = m
    BY <2>6, <2>7, InsertedAtTip
  <2>9. First(messages[c]) = 1
    BY <2>2 DEF First, Seqs
  <2>10. PICK u : u = messages'[c]
    OBVIOUS
  <2>11. Committed(c)' = Stretch(u, 1, 1)
    BY <2>4, <2>8, <2>9, <2>10, LogAfter
  <2>12. Stretch(u, 1, 1) = <<Entry(u, 1)>>
    <3>1. 1..1 - 1 + 1 = {1} /\ \A k \in {1} : 1 + k - 1 = k
      OBVIOUS
    <3>2. Stretch(u, 1, 1) = [k \in 1..1 |-> Entry(u, k)]
      BY <3>1 DEF Stretch
    <3>. QED  BY <3>2
  <2>13. Entry(u, 1) \in Log!TurnOf("assistant")
    <3>1. TurnsThere' /\ 1 \in Seqs(c)'
      BY <2>8, TurnsWillBe
    <3>2. Entry(u, 1) \in Log!TurnOf(u[1].role)
      BY <2>10, <3>1 DEF TurnsThere
    <3>. QED  BY <2>5, <2>8, <2>10, <3>2
  <2>14. Log!OnlyTouches(c)
    BY <2>1, StepTouches
  <2>15. PICK turn \in Log!TurnOf("assistant") : Committed(c)' = <<turn>>
    BY <2>11, <2>12, <2>13
  <2>16. Log!Open(c)
    BY <2>3, <2>14, <2>15 DEF Log!Open
  <2>. QED  BY <2>16 DEF Log!Next, LogMove
<1>. QED  BY <1>2, <1>3

\* startChat writes the chat's row.
LEMMA CreationMoves ==
  ASSUME LogInv, LogInv', NEW p \in Procs, Step(p), StartRow(p), NEW c \in ChatIds, c = chatOf(p)
  PROVE  LogMove
<1>. CanonInv /\ CanonInv' /\ NoForks /\ UsedOK
  BY DEF LogInv
<1>1. /\ UNCHANGED messages /\ pc[p] = "start.row"
      /\ ~SendInsert(p) /\ ~SendRollback(p) /\ ~SendPersist(p)
  BY DEF StartRow, SendInsert, SendRollback, SendPersist, At
<1>2. SameLog(c)
  BY <1>1, QuietStep
<1>3. CASE chats[c].status = "absent"
  <2>1. chats' = [chats EXCEPT ![c] = NewChat(req[p].api)] /\ c \in DOMAIN chats
    BY <1>3 DEF StartRow, CanonInv, TypeOK, ChatsOK
  <2>2. ~Live(c) /\ Live(c)'
    BY <1>3, <2>1 DEF Live, NewChat
  <2>3. used'.crashes = used.crashes
    BY StepSpends
  <2>4. \A d \in ChatIds : SameLog(d)
    BY <1>2, OtherLogs
  <2>5. \A d \in ChatIds \ {c} : SameLife(d)
    BY OtherLogs
  <2>. QED  BY <2>2, <2>3, <2>4, <2>5, LogCreates DEF LogMove
<1>4. CASE chats[c].status # "absent"
  <2>1. SameLife(c)
    BY <1>4 DEF StartRow, SameLife, Live
  <2>. QED  BY <1>2, <2>1, StepStutters DEF LogMove
<1>. QED  BY <1>3, <1>4

\* A deleted chat takes its log along.
LEMMA DeletionMoves ==
  ASSUME LogInv, LogInv', NEW p \in Procs, Step(p), DeleteChat(p), NEW c \in ChatIds, c = chatOf(p)
  PROVE  LogMove
<1>. CanonInv /\ CanonInv' /\ NoForks /\ UsedOK
  BY DEF LogInv
<1>1. Live(c) /\ messages' = [messages EXCEPT ![c] = <<>>]
      /\ chats' = [chats EXCEPT ![c] = [NoChat EXCEPT !.status = "deleted"]]
      /\ c \in DOMAIN chats /\ c \in DOMAIN messages
  BY DEF DeleteChat, CanonInv, TypeOK, ChatsOK, MessagesOK
<1>2. ~Live(c)'
  BY <1>1 DEF Live, NoChat, NewChat
<1>3. Seqs(c)' = {}
  BY <1>1 DEF Seqs
<1>4. Committed(c)' = <<>>
  BY <1>3, NothingWillBeAsked
<1>5. used'.crashes = used.crashes
  BY StepSpends
<1>6. \A d \in ChatIds \ {c} : SameLog(d) /\ SameLife(d)
  BY OtherLogs
<1>. QED  BY <1>1, <1>2, <1>4, <1>5, <1>6, LogDeletes DEF LogMove

\* Every step of a request is a step of the log, or none.
LEMMA StepLogs ==
  ASSUME LogInv, LogInv', NEW p \in Procs, Step(p)
  PROVE  LogMove
<1>. CanonInv /\ CanonInv' /\ NoForks /\ LockedInv /\ TextsDrawn /\ HandsDrawn
  BY DEF LogInv
<1>1. PICK c \in ChatIds : c = chatOf(p)
  BY Busy, Rows
<1>2. ~ForkRow(p) /\ ~ForkMessages(p) /\ DOMAIN pc = Procs
  BY DEF NoForks, ForkSteps, ForkMessages, ForkRow, At, CanonInv, LineInv, Shapes
<1>3. ASSUME ~StartRow(p), ~DeleteChat(p) PROVE SameLife(c)
  <2>1. chats'[c].status = chats[c].status
    BY <1>1, <1>2, <1>3, StatusStep
  <2>. QED  BY <2>1 DEF SameLife, Live
<1>4. CASE SendInsert(p) \/ SendRollback(p)
  <2>1. SameLog(c)
    BY <1>1, <1>4, UserTurnUnseen, FailureUnseen
  <2>2. SameLife(c)
    BY <1>3, <1>4 DEF SendInsert, SendRollback, StartRow, DeleteChat, Granted, At
  <2>. QED  BY <1>1, <2>1, <2>2, StepStutters DEF LogMove
<1>5. CASE SendPersist(p)
  <2>1. Live(c) /\ SameLife(c)
    BY <1>1, <1>3, <1>5 DEF SendPersist, CanInsert, StartRow, DeleteChat, Granted, At
  <2>2. Log!OnlyTouches(c)
    BY <1>1, <2>1, StepTouches DEF SameLife
  <2>. QED  BY <1>1, <1>5, <2>2, ReplyExchanges DEF LogMove
<1>6. CASE \/ SwipeBackfill(p) \/ SwipeVariant(p) \/ SwipeMessage(p) \/ SelectVariant(p)
           \/ EditMessage(p) \/ EditVariant(p)
  <2>1. Holds(p) /\ Live(c)
    <3>1. CASE pc[p] \in LockedSteps
      BY <1>1, <3>1, Running DEF LockedInv
    <3>2. CASE pc[p] \notin LockedSteps
      BY <1>1, <1>6, <3>2 DEF SwipeBackfill, SwipeVariant, SwipeMessage, SelectVariant, EditMessage,
         EditVariant, At, Granted, LockedSteps
    <3>. QED  BY <3>1, <3>2
  <2>2. /\ ~StartRow(p) /\ ~DeleteChat(p) /\ ~SendInsert(p) /\ ~SendRollback(p) /\ ~SendPersist(p)
        /\ pc[p] \notin Unanswered
    BY <1>6 DEF SwipeBackfill, SwipeVariant, SwipeMessage, SelectVariant, EditMessage, EditVariant,
       At, Granted, Unanswered, StartRow, DeleteChat, SendInsert, SendRollback, SendPersist
  <2>3. Live(c)' /\ SameLife(c)
    BY <1>3, <2>1, <2>2 DEF SameLife
  <2>4. pc'[p] \notin Unanswered
    BY <2>2, AnsweringStays
  <2>5. UNCHANGED messages \/ \E s, m : Rewritten(c, s, m)
    BY <1>1, <1>6, SwipeKeepsText, EditKeepsText, TextsChange
  <2>6. CASE UNCHANGED messages
    BY <1>1, <2>2, <2>3, <2>6, QuietStep, StepStutters DEF LogMove
  <2>7. CASE \E s, m : Rewritten(c, s, m)
    <3>1. PICK s, m : Rewritten(c, s, m)
      BY <2>7
    <3>. QED  BY <1>1, <2>1, <2>2, <2>3, <2>4, <3>1, RewriteMoves
  <2>. QED  BY <2>5, <2>6, <2>7
<1>7. CASE GreetInsert(p) \/ OpenInsert(p)
  BY <1>1, <1>7, OpeningMoves
<1>8. CASE DeleteChat(p)
  BY <1>1, <1>8, DeletionMoves
<1>9. CASE StartRow(p)
  BY <1>1, <1>9, CreationMoves
<1>10. CASE /\ ~SendInsert(p) /\ ~SendRollback(p) /\ ~SendPersist(p) /\ ~StartRow(p) /\ ~DeleteChat(p)
            /\ messages'[c] = messages[c]
  BY <1>1, <1>3, <1>10, QuietStep, StepStutters DEF LogMove
<1>. QED  BY <1>1, <1>2, <1>4, <1>5, <1>6, <1>7, <1>8, <1>9, <1>10, TableMoves

\* A request that arrives changes nothing the log shows.
LEMMA CallLogs ==
  ASSUME LogInv, LogInv', NEW p \in Procs, Call(p)
  PROVE  LogMove
<1>. CanonInv /\ CanonInv' /\ UsedOK
  BY DEF LogInv
<1>1. PICK r, there : there \in {"wait", "start.row", "fork.load"} /\ Arriving(p, r, there)
  BY CallForms
<1>2. /\ pc[p] = "idle" /\ pc' = [pc EXCEPT ![p] = there] /\ req' = [req EXCEPT ![p] = r]
      /\ UNCHANGED tables /\ Spend("requests") /\ DOMAIN pc = Procs /\ DOMAIN req = Procs
  BY <1>1 DEF Arriving, Arrives, CanonInv, LineInv, Shapes, TypeOK, RequestsOK
<1>3. used'.crashes = used.crashes
  BY <1>2 DEF UsedOK, Spend
<1>4. ASSUME NEW d \in ChatIds PROVE SameLog(d) /\ SameLife(d)
  <2>1. \A q \in Procs : (pc[q] \in Unanswered /\ chatOf(q) = d)' <=> (pc[q] \in Unanswered /\ chatOf(q) = d)
    BY <1>1, <1>2 DEF Unanswered, chatOf
  <2>2. Asked(d)' <=> Asked(d)
    BY <2>1 DEF Asked
  <2>3. messages' = messages /\ chats' = chats
    BY <1>2 DEF tables
  <2>. QED  BY <2>2, <2>3, KeepsLog DEF Seqs, SameLife, Live
<1>. QED  BY <1>3, <1>4, LogStutters DEF LogMove

\* A restart strands the user turns that were being answered.
LEMMA RestartLogs ==
  ASSUME LogInv, LogInv', Restart
  PROVE  LogMove
<1>. CanonInv /\ CanonInv' /\ UsedOK /\ LockedInv
  BY DEF LogInv
<1>1. /\ messages' = messages /\ chats' = chats /\ \A q \in Procs : pc'[q] = "idle"
      /\ used'.crashes = used.crashes + 1
  BY DEF Restart, tables, UsedOK, Spend
<1>2. \A d \in ChatIds : ~Asked(d)'
  BY <1>1 DEF Asked, Unanswered
<1>3. ASSUME NEW d \in ChatIds, ~Asked(d) PROVE Strands(d)
  BY <1>1, <1>2, <1>3, KeepsLog DEF Seqs, Strands
<1>4. ASSUME NEW d \in ChatIds, Asked(d) PROVE Strands(d)
  <2>1. PICK q \in Procs : pc[q] \in Unanswered /\ chatOf(q) = d
    BY <1>4 DEF Asked
  <2>2. PICK s : s = MaxSeq(d) /\ s \in Seqs(d) /\ messages[d][s].role = "user"
    BY <2>1 DEF CanonInv, SendsAtTip, SendAtTip
  <2>3. Live(d)
    BY <2>1 DEF LockedInv, Unanswered, LockedSteps
  <2>4. PICK t, first, last : t = messages[d] /\ first = First(t) /\ last = AnsweredTip(d)
    OBVIOUS
  <2>5. /\ first \in {0, 1} /\ last \in Int /\ last >= first - 1 /\ last + 1 = s
        /\ Committed(d) = Stretch(t, first, last)
    BY <1>4, <2>2, <2>4, LogBefore
  <2>6. MaxSeq(d)' = s
    BY <1>1, <2>2 DEF MaxSeq, Seqs
  <2>7. Committed(d)' = Stretch(t, first, s)
    BY <1>1, <1>2, <2>4, <2>6, LogAfter
  <2>8. Alike(t, t, first, last)
    BY DEF Alike
  <2>9. PICK k \in Nat : k = 1 /\ s = last + k
    BY <2>5
  <2>10. Continues(Stretch(t, first, last), Stretch(t, first, s), t, last, k)
    BY <2>5, <2>8, <2>9, StretchGrows
  <2>11. PICK old, new : /\ old = Committed(d) /\ new = Committed(d)'
                         /\ Continues(old, new, t, last, k)
    BY <2>5, <2>7, <2>10, Zenon
  <2>12. PICK more : /\ more = SubSeq(new, Len(old) + 1, Len(new)) /\ new = old \o more /\ Len(more) = k
                     /\ \A i \in 1..k : more[i] = Entry(t, last + i)
    BY <2>11, Zenon DEF Continues
  <2>13. Len(more) = 1 /\ more[1] = Entry(t, s)
    BY <2>9, <2>12
  <2>14. Entry(t, s) \in Log!TurnOf("user")
    <3>1. Entry(t, s) \in Log!TurnOf(t[s].role)
      BY <2>2, <2>4, TurnsAreThere DEF TurnsThere
    <3>. QED  BY <2>2, <2>4, <3>1
  <2>. QED  BY <2>3, <2>11, <2>12, <2>13, <2>14, Zenon DEF Strands
<1>5. \A d \in ChatIds : SameLife(d)
  BY <1>1 DEF SameLife, Live
<1>. QED  BY <1>1, <1>3, <1>4, <1>5, LogRestarts DEF LogMove

LEMMA InitLogs == Init => Log!Init
<1>. SUFFICES ASSUME Init PROVE Log!Init
  OBVIOUS
<1>. LogInv /\ CanonInv
  BY InitLog DEF LogInv
<1>. DEFINE T == Log!TurnOf("user") \union Log!TurnOf("assistant")
<1>1. ASSUME NEW c \in ChatIds PROVE Committed(c) \in Seq(T)
  <2>1. PICK t, first, last : t = messages[c] /\ first = First(t) /\ last = AnsweredTip(c)
    OBVIOUS
  <2>2. /\ first \in {0, 1} /\ last \in Nat /\ first - 1 <= last /\ MaxSeq(c) \in Nat /\ last <= MaxSeq(c)
        /\ Seqs(c) = first..MaxSeq(c) /\ Committed(c) = Stretch(t, first, last)
    BY <2>1, LogBefore
  <2>3. ASSUME NEW i \in Seqs(c) PROVE Entry(t, i) \in T
    <3>1. MessageTable(t) /\ i \in DOMAIN t
      BY <2>1 DEF CanonInv, TypeOK, MessagesOK, Seqs
    <3>2. t[i].role \in {"user", "assistant"}
      BY <3>1, RowIs
    <3>3. Entry(t, i) \in Log!TurnOf(t[i].role)
      BY <2>1, TurnsAreThere DEF TurnsThere
    <3>. QED  BY <3>2, <3>3
  <2>4. PICK n \in Nat : n = last - first + 1
    BY <2>2
  <2>5. \A k \in 1..n : first + k - 1 \in Seqs(c)
    BY <2>2, <2>4
  <2>6. \A k \in 1..n : Entry(t, first + k - 1) \in T
    BY <2>3, <2>5
  <2>7. Committed(c) = [k \in 1..n |-> Entry(t, first + k - 1)]
    BY <2>2, <2>4 DEF Stretch
  <2>. HIDE DEF T
  <2>. QED  BY <2>6, <2>7
<1>2. used.crashes = 0
  BY DEF Init
<1>. HIDE DEF T
<1>3. [c \in ChatIds |-> Committed(c)] \in [ChatIds -> Seq(T)]
  BY <1>1
<1>. QED  BY <1>2, <1>3 DEF Log!Init, T

(***************************************************************************)
(* Without forks the chat service implements the atomic log ChatLog:       *)
(* sends, swipes, edits, chosen variants, openings, deletions and          *)
(* compactions of any number of concurrent clients, also of clients that   *)
(* act on a chat before its startChat is done, with failures and restarts, *)
(* change a chat's canon in whole steps.  A user turn enters with its      *)
(* reply, a failed generation leaves the log as it was ("the chat returns  *)
(* to its prior coherent tip", send.ts:218-220), and only a restart leaves *)
(* a user turn without an answer.                                          *)
(***************************************************************************)
THEOREM ServiceImplementsLog ==
  ASSUME "fork" \notin Kinds
  PROVE  Spec => ImplementsLog
<1>1. LogInv /\ LogInv' /\ [Next]_vars => [Log!Next]_(Log!vars)
  <2>. SUFFICES ASSUME LogInv, LogInv', [Next]_vars PROVE LogMove
    BY DEF LogMove
  <2>1. ASSUME NEW p \in Procs, Call(p) \/ Step(p) PROVE LogMove
    BY <2>1, CallLogs, StepLogs
  <2>2. CASE UNCHANGED vars
    <3>1. UNCHANGED <<chats, messages, pc, req, loc, used>>
      BY <2>2 DEF vars, storeVars
    <3>2. CanonInv /\ CanonInv'
      BY DEF LogInv
    <3>3. \A d \in ChatIds : SameLife(d)
      BY <3>1 DEF SameLife, Live
    <3>4. ASSUME NEW d \in ChatIds PROVE SameLog(d)
      <4>1. Asked(d)' <=> Asked(d)
        BY <3>1 DEF Asked, chatOf
      <4>. QED  BY <3>1, <3>2, <4>1, KeepsLog DEF Seqs
    <3>. QED  BY <3>1, <3>3, <3>4, LogStutters DEF LogMove
  <2>. QED  BY <2>1, <2>2, RestartLogs DEF Next
<1>2. Spec => []LogInv
  BY LogAlways
<1>. QED  BY <1>1, <1>2, InitLogs, PTL DEF Spec, ImplementsLog, Log!Spec
=============================================================================
