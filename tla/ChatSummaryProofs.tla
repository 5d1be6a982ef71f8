-------------------------- MODULE ChatSummaryProofs --------------------------
(***************************************************************************)
(* What a send tells the model, what the summary of a chat stands for, and *)
(* whose the sessions are, while nothing fails and nothing restarts.       *)
(***************************************************************************)
EXTENDS ChatSessionProofs

-----------------------------------------------------------------------------
(***************************************************************************)
(* What the summary of a chat stands for.                                  *)
(***************************************************************************)
\* A row's summary says what the messages up to its anchor say.
Covers(t, row) ==
  IF row.anchor = -1 THEN row.summary = <<>>
  ELSE row.anchor \in {0} \union DOMAIN t /\ row.summary = Words(t, row.anchor)

\* A fork has its row before it has its messages.
Copying(p, c) == pc[p] = "fork.messages" /\ req[p].target = c
Summed(c) ==
  /\ \A p \in Procs : Copying(p, c) => Covers(copy[p], chats[c])
  /\ (\A p \in Procs : ~Copying(p, c)) => Covers(messages[c], chats[c])
  /\ \A p \in Procs : Writes(p, c) /\ pc[p] \in SendSteps =>
       loc[p].row.summary = chats[c].summary /\ loc[p].row.anchor = chats[c].anchor

\* What a fork has read of its source.
Bare(c) == chats[c].status = "deleted" /\ Seqs(c) = {}
Sourced(p) ==
  /\ pc[p] = "fork.read" => Covers(messages[chatOf(p)], loc[p].row) \/ Bare(chatOf(p))
  /\ pc[p] = "fork.row" /\ loc[p].row.anchor <= req[p].seq => Covers(copy[p], loc[p].row)
Unsourced ==
  \A p \in Procs, c \in ChatIds : Copying(p, c) => \A q \in Procs \ {p} : chatOf(q) # c

\* Where nothing compacts there is no summary; where nothing rewrites a text
\* none goes stale.
Compacting == {"compact.turn", "compact.persist"}
Condenses == Managed \/ "compact" \in Kinds
Rewords == RewritingKinds \intersect Kinds # {}
Uncompacted ==
  /\ \A c \in ChatIds : chats[c].anchor = -1
  /\ \A p \in Procs : loc[p].row.anchor = -1 /\ pc[p] \notin Compacting
SumInv ==
  /\ SessionInv
  /\ ~Condenses => Uncompacted
  /\ ~Rewords => NoRewriting
  /\ Undisturbed => /\ Unsourced
                    /\ \A c \in ChatIds : Live(c) => Summed(c)
                    /\ \A p \in Procs : Sourced(p)

\* A summary that stands for one table stands for another that says the same
\* up to its anchor.
LEMMA CoversOn ==
  ASSUME NEW t, MessageTable(t), NEW u, MessageTable(u), NEW row, Covers(t, row),
         row.anchor # -1 => /\ row.anchor \in {0} \union DOMAIN u
                            /\ \A n \in 0..row.anchor : Word(u, n) = Word(t, n)
  PROVE  Covers(u, row)
<1>1. CASE row.anchor = -1
  BY <1>1 DEF Covers
<1>2. CASE row.anchor # -1
  <2>1. PICK a \in Nat : a = row.anchor
    BY <1>2 DEF Covers, MessageTable
  <2>2. Words(u, a) = Words(t, a)
    BY <1>2, <2>1, WordsAgree
  <2>. QED  BY <1>2, <2>1, <2>2 DEF Covers
<1>. QED  BY <1>1, <1>2

\* One that keeps its texts.
LEMMA CoversSame ==
  ASSUME NEW t, MessageTable(t), NEW u, MessageTable(u), NEW row, Covers(t, row),
         DOMAIN u = DOMAIN t, \A n \in DOMAIN t : u[n].body = t[n].body
  PROVE  Covers(u, row)
<1>1. \A n : Word(u, n) = Word(t, n)
  BY DEF Word
<1>2. row.anchor # -1 => row.anchor \in {0} \union DOMAIN u
  BY DEF Covers
<1>. QED  BY <1>1, <1>2, CoversOn

\* One with a message more at its end.
LEMMA CoversGrown ==
  ASSUME NEW t, MessageTable(t), NEW u, MessageTable(u), NEW row, Covers(t, row),
         NEW s \in Nat \ {0}, DOMAIN u = DOMAIN t \union {s},
         \A n \in DOMAIN t : n < s /\ u[n] = t[n]
  PROVE  Covers(u, row)
<1>1. row.anchor # -1 => row.anchor \in {0} \union DOMAIN u
  BY DEF Covers
<1>2. ASSUME row.anchor # -1, NEW n \in 0..row.anchor PROVE Word(u, n) = Word(t, n)
  <2>1. row.anchor \in Nat /\ row.anchor < s
    BY <1>2 DEF Covers, MessageTable
  <2>2. n # s
    BY <1>2, <2>1
  <2>. QED  BY <2>2 DEF Word
<1>. QED  BY <1>1, <1>2, CoversOn

\* Putting three texts together.
LEMMA OneAfterOther ==
  ASSUME NEW a \in Seq(Nat), NEW b \in Seq(Nat), NEW d \in Seq(Nat)
  PROVE  (a \o b) \o d = a \o (b \o d) /\ a \o <<>> = a
OBVIOUS

\* What a table says, in two parts.
LEMMA WordsSplit ==
  ASSUME NEW t, MessageTable(t), NEW u, MessageTable(u), NEW a \in Nat, NEW top \in Nat, a <= top,
         DOMAIN u = {n \in DOMAIN t : a < n}, \A n \in DOMAIN u : u[n] = t[n]
  PROVE  Words(t, top) = Words(t, a) \o Words(u, top)
<1>0. \A n \in Nat : Words(t, n) \in Seq(Nat) /\ Words(u, n) \in Seq(Nat)
  BY WordsType
<1>1. Words(u, a) = <<>>
  <2>1. \A n \in DOMAIN u : n <= -1 \/ n > a
    BY DEF MessageTable
  <2>2. Words(u, a) = Words(u, -1)
    BY <2>1, WordsEnd
  <2>. QED  BY <2>2, WordsStart
<1>2. Words(t, a) \o Words(u, a) = Words(t, a)
  BY <1>0, <1>1, OneAfterOther
<1>. DEFINE Bad == {n \in 0..top : a <= n /\ Words(t, n) # Words(t, a) \o Words(u, n)}
<1>3. Bad = {}
  <2>. SUFFICES ASSUME Bad # {} PROVE FALSE
    OBVIOUS
  <2>1. Bad \in SUBSET Nat
    OBVIOUS
  <2>2. PICK n \in Bad : \A m \in Bad : n <= m
    BY <2>1, LeastNatural
  <2>3. n \in Nat /\ a <= n /\ n <= top /\ Words(t, n) # Words(t, a) \o Words(u, n)
    BY <2>2
  <2>4. n # a
    BY <1>2, <2>3
  <2>5. PICK k \in Nat : k = n - 1 /\ a <= k /\ k <= top /\ k < n
    BY <2>3, <2>4
  <2>6. Words(t, k) = Words(t, a) \o Words(u, k)
    BY SMTT(40), <2>2, <2>5
  <2>7. /\ Words(t, n) = Words(t, n - 1) \o Word(t, n) /\ Word(t, n) \in Seq(Nat)
        /\ Words(u, n) = Words(u, n - 1) \o Word(u, n)
    BY <2>3, WordsStep
  <2>8. Word(u, n) = Word(t, n)
    BY SMTT(40), <2>3, <2>4 DEF Word
  <2>9. PICK x \in Seq(Nat), y \in Seq(Nat), z \in Seq(Nat) :
             x = Words(t, a) /\ y = Words(u, k) /\ z = Word(t, n)
    BY <1>0, <2>5, <2>7
  <2>10. (x \o y) \o z = x \o (y \o z)
    BY ZenonT(60), OneAfterOther
  <2>. QED  BY <2>3, <2>5, <2>6, <2>7, <2>8, <2>9, <2>10
<1>4. top \in 0..top
  OBVIOUS
<1>. QED  BY <1>3, <1>4

\* The history behind an anchor is the rest of what the chat says.
LEMMA HistoryAfter ==
  ASSUME CanonInv, NEW c \in ChatIds, NEW a \in Nat, a <= MaxSeq(c)
  PROVE  Words(messages[c], a) \o Said(History(c, a, MaxSeq(c) + 1)) = Texts(c)
<1>0. MessageTable(messages[c])
  BY DEF CanonInv, TypeOK, MessagesOK
<1>1. PICK top \in Nat : top = MaxSeq(c)
  BY TipIs DEF CanonInv
<1>2. PICK t : t = messages[c]
  OBVIOUS
<1>3. PICK u : u = [n \in {n \in DOMAIN t : a < n} |-> t[n]]
  OBVIOUS
<1>4. DOMAIN u = {n \in DOMAIN t : a < n} /\ \A n \in DOMAIN u : u[n] = t[n]
  BY <1>3
<1>5. MessageTable(u) /\ MessageTable(t)
  BY <1>0, <1>2, <1>4 DEF MessageTable
<1>. DEFINE turn(s) == IF s \in DOMAIN t /\ a < s /\ s < top + 1 THEN <<CanonTurn(t[s])>> ELSE <<>>
            heard == [i \in 1..top + 1 |-> turn(i - 1)]
            told == [i \in 1..top + 1 |-> Part(u, i - 1)]
<1>6. History(c, a, top + 1) = Lists!FlattenSeq(heard)
  BY <1>1, <1>2 DEF History, Seqs
<1>7. Turns(u, top) = Lists!FlattenSeq(told)
  BY DEF Turns
<1>8. heard = told
  <2>1. ASSUME NEW i \in 1..top + 1 PROVE turn(i - 1) = Part(u, i - 1)
    <3>1. i - 1 < top + 1
      BY <1>1
    <3>. QED  BY <1>4, <3>1 DEF Part
  <2>. HIDE DEF turn
  <2>. QED  BY <2>1
<1>. HIDE DEF heard, told
<1>9. Said(History(c, a, top + 1)) = Words(u, top)
  BY <1>6, <1>7, <1>8 DEF Words
<1>10. Words(t, top) = Words(t, a) \o Words(u, top)
  BY <1>1, <1>4, <1>5, WordsSplit
<1>. QED  BY <1>1, <1>2, <1>9, <1>10 DEF Texts

-----------------------------------------------------------------------------
(***************************************************************************)
(* Who writes the summary of a chat.                                       *)
(***************************************************************************)
SameSummary(c) == chats'[c].summary = chats[c].summary /\ chats'[c].anchor = chats[c].anchor
SummaryMoves(p, c) ==
  \/ SameSummary(c)
  \/ /\ CompactPersist(p) /\ c = chatOf(p)
     /\ chats'[c].summary = Told(loc[p].sid) /\ chats'[c].anchor = MaxSeq(c)
  \/ /\ StartRow(p) /\ c = chatOf(p) /\ chats[c].status = "absent"
     /\ chats'[c].anchor = -1 /\ chats'[c].summary = <<>>
  \/ /\ ForkRow(p) /\ c = req[p].target
     /\ IF Carried(loc[p].row, req[p].seq)
        THEN chats'[c].summary = loc[p].row.summary /\ chats'[c].anchor = loc[p].row.anchor
        ELSE chats'[c].summary = <<>> /\ chats'[c].anchor = -1
  \/ DeleteChat(p) /\ c = chatOf(p) /\ chats'[c].anchor = -1

LEMMA SummaryStep ==
  ASSUME CanonInv, NEW p \in Procs, Step(p), NEW c \in ChatIds
  PROVE  SummaryMoves(p, c)
<1>0. DOMAIN chats = ChatIds /\ chatOf(p) \in ChatIds
  BY Busy, Rows DEF CanonInv, TypeOK, ChatsOK
<1>. PICK d \in ChatIds : d = chatOf(p)
  BY <1>0
<1>1. PICK old \in ChatRow : old = chats[d]
  BY <1>0 DEF CanonInv, TypeOK, ChatsOK
<1>2. chats = [chats EXCEPT ![d] = old]
  BY <1>1 DEF CanonInv, TypeOK, ChatsOK
<1>3. ASSUME NEW r, chats' = [chats EXCEPT ![d] = r], r.summary = old.summary, r.anchor = old.anchor
      PROVE  SummaryMoves(p, c)
  BY <1>0, <1>1, <1>3 DEF SameSummary, SummaryMoves
<1>4. CASE UNCHANGED chats
  BY <1>4 DEF SameSummary, SummaryMoves
<1>5. CASE SendUpdate(p)
  <2>1. PICK s, k, n : /\ s = IF loc[p].row.api = "agent-sdk" THEN loc[p].sid ELSE old.session
                       /\ k = loc[p].row.count + 2 /\ n = loc[p].row.total + 1
    OBVIOUS
  <2>2. PICK r : r = [old EXCEPT !.session = s, !.count = k, !.total = n]
    OBVIOUS
  <2>3. r.summary = old.summary /\ r.anchor = old.anchor
    BY <2>2 DEF ChatRow
  <2>4. chats' = [chats EXCEPT ![d] = r]
    BY <1>0, <1>1, <1>5, <2>1, <2>2 DEF SendUpdate
  <2>. QED  BY <1>3, <2>3, <2>4
<1>6. CASE SwipeUpdate(p)
  <2>1. PICK s, n : /\ s = IF OnAgentSdk(p) THEN loc[p].sid ELSE old.session
                    /\ n = loc[p].row.total + 1
    OBVIOUS
  <2>2. PICK r : r = [old EXCEPT !.session = s, !.total = n]
    OBVIOUS
  <2>3. r.summary = old.summary /\ r.anchor = old.anchor
    BY <2>2 DEF ChatRow
  <2>4. chats' = [chats EXCEPT ![d] = r]
    BY <1>0, <1>1, <1>6, <2>1, <2>2 DEF SwipeUpdate
  <2>. QED  BY <1>3, <2>3, <2>4
<1>7. CASE GreetUpdate(p)
  <2>1. PICK s : s = IF req[p].api = "agent-sdk" THEN loc[p].sid ELSE old.session
    OBVIOUS
  <2>2. PICK r : r = [old EXCEPT !.count = 1, !.session = s]
    OBVIOUS
  <2>3. r.summary = old.summary /\ r.anchor = old.anchor
    BY <2>2 DEF ChatRow
  <2>4. Live(d) => chats' = [chats EXCEPT ![d] = r]
    BY <1>0, <1>1, <1>7, <2>1, <2>2 DEF GreetUpdate
  <2>5. ~Live(d) => UNCHANGED chats
    BY <1>7 DEF GreetUpdate
  <2>. QED  BY <1>3, <1>4, <2>3, <2>4, <2>5
<1>8. CASE OpenUpdate(p)
  <2>1. PICK s : s = IF OnAgentSdk(p) THEN loc[p].sid ELSE old.session
    OBVIOUS
  <2>2. PICK r : r = [old EXCEPT !.count = 1, !.total = 1, !.session = s]
    OBVIOUS
  <2>3. r.summary = old.summary /\ r.anchor = old.anchor
    BY <2>2 DEF ChatRow
  <2>4. Live(d) => chats' = [chats EXCEPT ![d] = r]
    BY <1>0, <1>1, <1>8, <2>1, <2>2 DEF OpenUpdate
  <2>5. ~Live(d) => UNCHANGED chats
    BY <1>8 DEF OpenUpdate
  <2>. QED  BY <1>3, <1>4, <2>3, <2>4, <2>5
<1>9. CASE ReseedPoint(p)
  <2>1. PICK s : s = loc[p].sid
    OBVIOUS
  <2>2. PICK r : r = [old EXCEPT !.session = s]
    OBVIOUS
  <2>3. r.summary = old.summary /\ r.anchor = old.anchor
    BY <2>2 DEF ChatRow
  <2>4. chats' = [chats EXCEPT ![d] = r]
    BY <1>0, <1>1, <1>9, <2>1, <2>2 DEF ReseedPoint
  <2>. QED  BY <1>3, <2>3, <2>4
<1>10. CASE PatchChat(p)
  <2>1. PICK b : b = ~old.starred
    OBVIOUS
  <2>2. PICK r : r = [old EXCEPT !.starred = b]
    OBVIOUS
  <2>3. r.summary = old.summary /\ r.anchor = old.anchor
    BY <2>2 DEF ChatRow
  <2>4. chats' = [chats EXCEPT ![d] = r]
    BY <1>0, <1>1, <1>10, <2>1, <2>2 DEF PatchChat
  <2>. QED  BY <1>3, <2>3, <2>4
<1>11. CASE ProviderUpdate(p)
  <2>1. PICK s, api : s = loc[p].sid /\ api = req[p].api
    OBVIOUS
  <2>2. PICK r : r = [old EXCEPT !.api = api, !.session = s]
    OBVIOUS
  <2>3. r.summary = old.summary /\ r.anchor = old.anchor
    BY <2>2 DEF ChatRow
  <2>4. chats' = [chats EXCEPT ![d] = r]
    BY <1>0, <1>1, <1>11, <2>1, <2>2 DEF ProviderUpdate
  <2>. QED  BY <1>3, <2>3, <2>4
<1>12. CASE CompactPersist(p)
  <2>1. PICK found \in BOOLEAN :
          chats' = [chats EXCEPT
            ![d].session = loc[p].sid,
            ![d].summary = IF found THEN Said(FramesOf(loc[p].sid)) ELSE @,
            ![d].anchor = IF found THEN MaxSeq(d) ELSE @]
    BY <1>12 DEF CompactPersist
  <2>2. PICK s, m, a : /\ s = loc[p].sid
                       /\ m = IF found THEN Said(FramesOf(loc[p].sid)) ELSE old.summary
                       /\ a = IF found THEN MaxSeq(d) ELSE old.anchor
    OBVIOUS
  <2>3. PICK r : r = [old EXCEPT !.session = s, !.summary = m, !.anchor = a]
    OBVIOUS
  <2>4. r.summary = m /\ r.anchor = a
    BY <2>3 DEF ChatRow
  <2>5. chats' = [chats EXCEPT ![d] = r]
    BY <1>0, <1>1, <2>1, <2>2, <2>3
  <2>6. CASE c # d
    BY <2>5, <2>6 DEF SameSummary, SummaryMoves
  <2>7. CASE c = d
    BY <1>0, <1>1, <1>12, <2>2, <2>4, <2>5, <2>7 DEF SameSummary, SummaryMoves, Told
  <2>. QED  BY <2>6, <2>7
<1>13. CASE StartRow(p)
  <2>1. PICK r : r = NewChat(req[p].api)
    OBVIOUS
  <2>2. r.summary = <<>> /\ r.anchor = -1
    BY <2>1 DEF NewChat
  <2>3. chats[d].status = "absent" => chats' = [chats EXCEPT ![d] = r]
    BY <1>13, <2>1 DEF StartRow
  <2>4. chats[d].status # "absent" => UNCHANGED chats
    BY <1>13 DEF StartRow
  <2>5. CASE c # d
    <3>1. chats'[c] = chats[c]
      BY <1>0, <2>3, <2>4, <2>5
    <3>. QED  BY <3>1 DEF SameSummary, SummaryMoves
  <2>6. CASE c = d
    BY <1>0, <1>4, <1>13, <2>2, <2>3, <2>4, <2>6 DEF SummaryMoves
  <2>. QED  BY <2>5, <2>6
<1>14. CASE ForkRow(p)
  <2>1. PICK api, s, k, m, a :
          /\ api = req[p].api /\ k = Cardinality(DOMAIN copy[p])
          /\ s = IF req[p].api = "agent-sdk" THEN nextSession ELSE 0
          /\ m = IF Carried(loc[p].row, req[p].seq) THEN loc[p].row.summary ELSE <<>>
          /\ a = IF Carried(loc[p].row, req[p].seq) THEN loc[p].row.anchor ELSE -1
    OBVIOUS
  <2>2. PICK r : r = [NewChat(api) EXCEPT !.session = s, !.count = k, !.summary = m, !.anchor = a]
    OBVIOUS
  <2>3. r.summary = m /\ r.anchor = a
    BY <2>2 DEF NewChat
  <2>4. chats' = [chats EXCEPT ![req[p].target] = r]
    BY <1>14, <2>1, <2>2 DEF ForkRow
  <2>5. CASE c # req[p].target
    BY <2>4, <2>5 DEF SameSummary, SummaryMoves
  <2>6. CASE c = req[p].target
    <3>1. chats'[c] = r
      BY <1>0, <2>4, <2>6
    <3>2. IF Carried(loc[p].row, req[p].seq)
          THEN chats'[c].summary = loc[p].row.summary /\ chats'[c].anchor = loc[p].row.anchor
          ELSE chats'[c].summary = <<>> /\ chats'[c].anchor = -1
      BY <2>1, <2>3, <3>1
    <3>. QED  BY <1>14, <2>6, <3>2 DEF SummaryMoves
  <2>. QED  BY <2>5, <2>6
<1>15. CASE DeleteChat(p)
  <2>1. PICK r : r = [NoChat EXCEPT !.status = "deleted"]
    OBVIOUS
  <2>2. r.anchor = -1 /\ chats' = [chats EXCEPT ![d] = r]
    BY <1>15, <2>1 DEF DeleteChat, NoChat, NewChat
  <2>3. CASE c # d
    BY <2>2, <2>3 DEF SameSummary, SummaryMoves
  <2>4. CASE c = d
    BY <1>0, <1>15, <2>2, <2>4 DEF SummaryMoves
  <2>. QED  BY <2>3, <2>4
<1>. QED  BY ChatsWriters, <1>4, <1>5, <1>6, <1>7, <1>8, <1>9, <1>10, <1>11, <1>12, <1>13, <1>14, <1>15

-----------------------------------------------------------------------------
(***************************************************************************)
(* What a summary says stays said.                                         *)
(***************************************************************************)
\* Nothing that is behind the summary of a row is rewritten.
Settled(row) == row.anchor = -1 \/ (~Rewords /\ NoRewriting)

\* A message comes only behind all the others.
LEMMA ComesLast ==
  ASSUME CanonInv, NEW p \in Procs, NEW c \in ChatIds, c = chatOf(p), messages'[c] # messages[c],
         SendInsert(p) \/ SendPersist(p) \/ GreetInsert(p) \/ OpenInsert(p)
  PROVE  \E s \in Nat \ {0} :
           /\ Seqs(c)' = Seqs(c) \union {s} /\ CanInsert(c, s)
           /\ \A n \in Seqs(c) : n < s /\ messages'[c][n] = messages[c][n]
<1>0. /\ CanonRuns /\ MessagesOK /\ RequestsOK /\ SendsAtTip /\ DOMAIN pc = Procs
      /\ pc[p] # "idle"
  BY DEF CanonInv, LineInv, Shapes, TypeOK, SendInsert, SendPersist, GreetInsert, OpenInsert, At
<1>1. /\ MaxSeq(c) \in Nat /\ \A n \in Seqs(c) : n \in Nat /\ n <= MaxSeq(c)
  BY <1>0, BehindTip
<1>2. loc[p].seq \in Nat /\ loc[p].body \in Nat /\ nextBody \in Nat
  BY <1>0, LocalsAre DEF RequestsOK
<1>3. \E s \in Nat \ {0}, m \in Message :
        /\ CanInsert(c, s) /\ messages' = WithMessage(c, s, m) /\ \A n \in Seqs(c) : n < s
  <2>1. CASE SendInsert(p)
    <3>1. CanInsert(c, loc[p].seq) /\ pc[p] = "send.insert"
      BY <2>1 DEF SendInsert, At
    <3>2. loc[p].seq = MaxSeq(c) + 1
      BY <1>0, <3>1 DEF SendsAtTip, SendAtTip, CanInsert
    <3>3. NewMessage("user", nextBody, 0) \in Message
      BY <1>2, NewMessageIs
    <3>4. messages' = WithMessage(c, loc[p].seq, NewMessage("user", nextBody, 0))
      BY <2>1 DEF SendInsert
    <3>5. loc[p].seq \in Nat \ {0} /\ \A n \in Seqs(c) : n < loc[p].seq
      BY <1>1, <1>2, <3>2
    <3>. QED  BY <3>1, <3>3, <3>4, <3>5
  <2>2. CASE SendPersist(p)
    <3>1. CanInsert(c, loc[p].seq + 1) /\ pc[p] \in Unanswered
      BY <2>2 DEF SendPersist, At, Unanswered
    <3>2. loc[p].seq = MaxSeq(c)
      BY <1>0, <3>1 DEF SendsAtTip, SendAtTip
    <3>3. PICK m \in AfterScripts(NewMessage("assistant", loc[p].body, 1)) :
            messages' = WithMessage(c, loc[p].seq + 1, m)
      BY <2>2 DEF SendPersist
    <3>4. m \in Message
      BY <1>2, <3>3, ScriptedIs
    <3>5. loc[p].seq + 1 \in Nat \ {0} /\ \A n \in Seqs(c) : n < loc[p].seq + 1
      BY <1>1, <1>2, <3>2
    <3>. QED  BY <3>1, <3>3, <3>4, <3>5
  <2>3. CASE GreetInsert(p) \/ OpenInsert(p)
    <3>1. CanInsert(c, 1)
      BY <2>3 DEF GreetInsert, OpenInsert
    <3>2. Seqs(c) = {}
      BY <1>0, <3>1, OneIsFirst DEF CanInsert
    <3>3. /\ NewMessage("assistant", nextBody, 0) \in Message
          /\ NewMessage("assistant", loc[p].body, 1) \in Message
      BY <1>2, NewMessageIs
    <3>4. \/ messages' = WithMessage(c, 1, NewMessage("assistant", nextBody, 0))
          \/ messages' = WithMessage(c, 1, NewMessage("assistant", loc[p].body, 1))
      BY <2>3, <3>1 DEF GreetInsert, OpenInsert
    <3>. QED  BY <3>1, <3>2, <3>3, <3>4
  <2>. QED  BY <2>1, <2>2, <2>3
<1>4. PICK s \in Nat \ {0}, m \in Message :
        /\ CanInsert(c, s) /\ messages' = WithMessage(c, s, m) /\ \A n \in Seqs(c) : n < s
  BY <1>3
<1>5. /\ Seqs(c)' = Seqs(c) \union {s}
      /\ \A t \in Seqs(c) \ {s} : messages'[c][t] = messages[c][t]
  BY <1>0, <1>4, RowInserted
<1>. QED  BY <1>4, <1>5 DEF CanInsert

\* A chat that is gone stays gone.
LEMMA BareStays ==
  ASSUME OneWriter, NEW q \in Procs, Step(q), NEW c \in ChatIds, Bare(c)
  PROVE  Bare(c)'
<1>. CanonInv /\ DOMAIN messages = ChatIds /\ chats[c].status = "deleted" /\ Seqs(c) = {}
  BY DEF OneWriter, VariantInv, CanonInv, TypeOK, MessagesOK, Bare
<1>1. chats'[c].status = "deleted"
  BY StatusStep DEF OneWriter, AimInv, Aims, ForkRow, At
<1>2. Seqs(c)' = {}
  <2>1. ~Live(c)
    BY DEF Live
  <2>2. CASE messages'[c] = messages[c]
    BY <2>2 DEF Seqs
  <2>3. CASE c = chatOf(q) /\ (SendInsert(q) \/ SendPersist(q) \/ GreetInsert(q) \/ OpenInsert(q))
    BY <2>1, <2>3 DEF SendInsert, SendPersist, GreetInsert, OpenInsert, CanInsert, Seqs
  <2>4. CASE c = chatOf(q) /\ (SendRollback(q) \/ SwipeBackfill(q) \/ SwipeVariant(q) \/ SwipeMessage(q)
                               \/ EditVariant(q))
    BY <2>1, <2>4 DEF OneWriter, LockedInv, LockedSteps, SendRollback, SwipeBackfill, SwipeVariant,
       SwipeMessage, EditVariant, At
  <2>5. CASE c = chatOf(q) /\ (SelectVariant(q) \/ EditMessage(q) \/ DeleteChat(q))
    BY <2>1, <2>5 DEF SelectVariant, EditMessage, DeleteChat
  <2>6. CASE c = req[q].target /\ ForkMessages(q)
    BY <2>1, <2>6 DEF ForkMessages, Seqs
  <2>. QED  BY <2>2, <2>3, <2>4, <2>5, <2>6, TableMoves
<1>. QED  BY <1>1, <1>2 DEF Bare

\* What a summary stands for stays there, or goes with its chat.
LEMMA SourceStays ==
  ASSUME OneWriter, CanonInv', NEW q \in Procs, Step(q), NEW c \in ChatIds,
         Writes(q, c) => Heard(q, c), ~Copying(q, c),
         NEW row, Settled(row), Covers(messages[c], row) \/ Bare(c)
  PROVE  Covers(messages'[c], row) \/ Bare(c)'
<1>. CanonInv
  BY DEF OneWriter, VariantInv
<1>0. /\ DOMAIN pc = Procs /\ MessageTable(messages[c]) /\ MessageTable(messages'[c])
  BY DEF CanonInv, LineInv, Shapes, TypeOK, MessagesOK
<1>1. CASE Bare(c)
  BY <1>1, BareStays
<1>2. CASE messages'[c] = messages[c] /\ ~Bare(c)
  BY <1>2
<1>3. CASE /\ c = chatOf(q) /\ messages'[c] # messages[c] /\ ~Bare(c)
           /\ SendInsert(q) \/ SendPersist(q) \/ GreetInsert(q) \/ OpenInsert(q)
  <2>1. PICK s \in Nat \ {0} :
           /\ Seqs(c)' = Seqs(c) \union {s} /\ CanInsert(c, s)
           /\ \A n \in Seqs(c) : n < s /\ messages'[c][n] = messages[c][n]
    BY <1>3, ComesLast
  <2>2. PICK t, u : t = messages[c] /\ u = messages'[c]
    OBVIOUS
  <2>3. DOMAIN u = DOMAIN t \union {s} /\ \A n \in DOMAIN t : n < s /\ u[n] = t[n]
    BY <2>1, <2>2 DEF Seqs
  <2>4. Covers(t, row) /\ MessageTable(t) /\ MessageTable(u)
    BY <1>0, <1>3, <2>2
  <2>5. Covers(u, row)
    BY <2>3, <2>4, CoversGrown
  <2>. QED  BY <2>2, <2>5
<1>4. CASE c = chatOf(q) /\ SendRollback(q)
  <2>1. Writes(q, c) /\ pc[q] = "send.rollback"
    BY <1>4 DEF SendRollback, Writes, LockedSteps
  <2>. QED  BY <2>1 DEF Heard, KnowsRow
<1>5. CASE /\ c = chatOf(q) /\ ~Bare(c)
           /\ \/ SwipeBackfill(q) \/ SwipeVariant(q) \/ SwipeMessage(q) \/ SelectVariant(q)
              \/ EditMessage(q) \/ EditVariant(q)
  <2>1. Rewords \/ ~NoRewriting
    <3>1. req[q].kind \in Kinds \union {"none", "send"}
      BY RequestIs DEF CanonInv, TypeOK
    <3>. QED  BY <1>5, <3>1 DEF SwipeBackfill, SwipeVariant, SwipeMessage, SelectVariant, EditMessage,
         EditVariant, At, Granted, Rewords, RewritingKinds, NoRewriting, SwipeSteps, Swiping
  <2>2. row.anchor = -1
    BY <2>1 DEF Settled
  <2>. QED  BY <1>5, <2>2 DEF Covers
<1>6. CASE c = chatOf(q) /\ DeleteChat(q)
  <2>1. chats'[c].status = "deleted" /\ messages'[c] = <<>>
    BY <1>6 DEF DeleteChat, NoChat, NewChat, CanonInv, TypeOK, ChatsOK, MessagesOK
  <2>. QED  BY <2>1 DEF Bare, Seqs
<1>7. CASE c = req[q].target /\ ForkMessages(q)
  BY <1>7 DEF Copying, ForkMessages
<1>. QED  BY <1>1, <1>2, <1>3, <1>4, <1>5, <1>6, <1>7, TableMoves

-----------------------------------------------------------------------------
(***************************************************************************)
(* A chat keeps a summary that stands for it.                              *)
(***************************************************************************)
Voices == OneWriter /\ HeldInv /\ \A d \in ChatIds : Live(d) => Voiced(d)

LEMMA CoversAs ==
  ASSUME NEW t, NEW row, NEW r, Covers(t, row), r.summary = row.summary, r.anchor = row.anchor
  PROVE  Covers(t, r)
BY DEF Covers

\* Who writes a chat hears it.
LEMMA WriterHears ==
  ASSUME Voices, NEW p \in Procs, NEW c \in ChatIds, Writes(p, c)
  PROVE  Heard(p, c) /\ Live(c)
<1>1. Live(c)
  BY DEF Voices, OneWriter, BuildInv, LockedInv, Writes
<1>. QED  BY <1>1 DEF Voices, Voiced

LEMMA PlaceHears ==
  ASSUME Voices, NEW p \in Procs, Step(p)
  PROVE  Writes(p, Place(p)) => Heard(p, Place(p))
<1>1. PICK c : c = Place(p)
  OBVIOUS
<1>2. c \in ChatIds
  BY <1>1, PlaceIs DEF Voices, OneWriter, VariantInv
<1>. QED  BY <1>1, <1>2, WriterHears

\* A copy is written under a writer's own hand.
LEMMA CopierWrites ==
  ASSUME NEW p, NEW c
  PROVE  (Copying(p, c) => Writes(p, c)) /\ (Copying(p, c)' => Writes(p, c)')
BY DEF Copying, Writes, Builds

\* The chat of somebody else.
LEMMA ElsewhereSummed ==
  ASSUME Voices, NEW p \in Procs, Step(p), NEW c \in ChatIds, Live(c), ~Mine(p, c), Summed(c)
  PROVE  Summed(c)'
<1>. OneWriter /\ HeldInv /\ CanonInv
  BY DEF Voices, OneWriter, VariantInv
<1>1. chats'[c] = chats[c] /\ messages'[c] = messages[c] /\ ~Writes(p, c)' /\ ~Writes(p, c)
  BY PlaceHears, Elsewhere DEF Mine
<1>2. ASSUME NEW q \in Procs \ {p}
      PROVE  /\ pc'[q] = pc[q] /\ req'[q] = req[q] /\ loc'[q] = loc[q] /\ copy'[q] = copy[q]
             /\ Writes(q, c)' <=> Writes(q, c)
             /\ Copying(q, c)' <=> Copying(q, c)
  BY <1>2, OthersStay, OthersWrite DEF Copying
<1>3. ~Copying(p, c) /\ ~Copying(p, c)'
  BY <1>1, CopierWrites
<1>4. ASSUME NEW q \in Procs, Copying(q, c)' PROVE Covers(copy'[q], chats'[c])
  BY <1>1, <1>2, <1>3, <1>4 DEF Summed
<1>5. ASSUME \A q \in Procs : ~Copying(q, c)' PROVE Covers(messages'[c], chats'[c])
  BY <1>1, <1>2, <1>3, <1>5 DEF Summed
<1>6. ASSUME NEW q \in Procs, Writes(q, c)', pc'[q] \in SendSteps
      PROVE  loc'[q].row.summary = chats'[c].summary /\ loc'[q].row.anchor = chats'[c].anchor
  BY <1>1, <1>2, <1>6 DEF Summed
<1>. QED  BY <1>4, <1>5, <1>6 DEF Summed

\* A fork writes what it has read.
LEMMA CopiesSummed ==
  ASSUME Voices, CanonInv', NEW p \in Procs, Step(p), NEW c \in ChatIds, Live(c), Copying(p, c), Summed(c)
  PROVE  /\ Covers(messages'[c], chats'[c]) /\ pc'[p] = "fork.seed"
<1>. OneWriter /\ HeldInv /\ CanonInv
  BY DEF Voices, OneWriter, VariantInv
<1>1. Seqs(c) = {}
  BY CopierWrites, WriterHears DEF Heard, KnowsTexts, Blank, Copying
<1>2. ForkMessages(p)
  BY DEF Copying, Step, SendStep, BeginSend, SendInsert, SendStart, SendReply, SendFails,
     SendRollback, SendPersist, SendUpdate, SendThrows, BeginCompact, CompactNothing, CompactStep,
     CompactTurn, CompactFails, CompactPersist, SwipeStep, BeginSwipe, SwipeSeed, SwipeStart,
     SwipeReply, SwipeFails, SwipeAbandon, SwipeBackfill, SwipeVariant, SwipeMessage, SwipeDrop,
     SwipeUpdate, SelectVariant, ReseedStep, ReseedDrop, ReseedSeed, ReseedPoint, StartStep,
     StartRow, GreetInsert, GreetSeed, GreetThrows, GreetUpdate, StartSend, OpenLoad, OpenStart,
     OpenReply, OpenFails, OpenInsert, OpenUpdate, EditStep, EditMessage, EditVariant, DeleteChat,
     PatchChat, Refuse, Deny, BranchStep, ForkLoad, ForkRead, ForkRow, ForkSeed,
     BeginProvider, ProviderSession, ProviderUpdate, StartTurn, EndTurn, FailTurn, At, Granted
<1>3. /\ DOMAIN pc = Procs /\ DOMAIN messages = ChatIds /\ MessageTable(copy[p])
      /\ MessageTable(messages'[c])
  BY DEF CanonInv, LineInv, Shapes, TypeOK, MessagesOK, ForksCopy, ForkSteps, Copying
<1>4. PICK t : t = copy[p]
  OBVIOUS
<1>5. chats' = chats /\ pc'[p] = "fork.seed"
  BY <1>1, <1>2, <1>3 DEF ForkMessages, Copying
<1>6. PICK u : u = messages'[c]
  OBVIOUS
<1>7. DOMAIN u = DOMAIN t /\ \A n \in DOMAIN t : u[n] = t[n]
  BY <1>1, <1>2, <1>3, <1>4, <1>6 DEF ForkMessages, Copying
<1>8. PICK row : row = chats[c]
  OBVIOUS
<1>9. Covers(t, row)
  BY <1>4, <1>8 DEF Summed
<1>10. Covers(u, row)
  BY <1>3, <1>4, <1>6, <1>7, <1>9, CoversSame
<1>. QED  BY <1>5, <1>6, <1>8, <1>10

\* Nobody begins to copy into a chat that is there.
LEMMA NoneCopies ==
  ASSUME OneWriter, NEW p \in Procs, Step(p), NEW c \in ChatIds, Live(c)
  PROVE  ~Copying(p, c)'
<1>. CanonInv /\ DOMAIN pc = Procs
  BY DEF OneWriter, VariantInv, CanonInv, LineInv, Shapes
<1>. SUFFICES ASSUME Copying(p, c)' PROVE FALSE
  OBVIOUS
<1>1. pc'[p] = "fork.messages" /\ req'[p].target = c
  BY DEF Copying
<1>2. ForkRow(p) /\ req'[p] = req[p]
  BY <1>1, StepMoves DEF Moves, Goes, StartSend, At, LockedMove, FreeMove, LockedSteps, Greeting,
     OpenSteps
<1>3. Aims(p, c)
  BY <1>1, <1>2 DEF ForkRow, At, Aims
<1>. QED  BY <1>3 DEF OneWriter, AimInv, Live

\* Who works on a chat hears it.
LEMMA WorkerHears ==
  ASSUME Voices, NEW p \in Procs, NEW c \in ChatIds, Live(c), Mine(p, c)
  PROVE  Heard(p, c)
<1>1. CASE Writes(p, c)
  BY <1>1, WriterHears
<1>2. CASE ~Writes(p, c)
  <2>1. pc[p] = "wait" /\ Voiced(c)
    BY <1>2 DEF Mine, Voices
  <2>2. \A q \in Procs : ~Writes(q, c)
    BY <1>2, Alone DEF Voices
  <2>3. Stable(c) /\ NoneHere(c)
    BY <2>1, <2>2 DEF Voiced
  <2>4. KnowsRow(p, c)
    BY <2>1 DEF KnowsRow, ReadsRow, OnTip, Swiping, OnAgent, Greeting, Forking
  <2>5. KnowsSession(p, c) /\ KnowsTexts(p, c)
    BY <2>1 DEF KnowsSession, KnowsTexts, Forking, Blank, OnTip, Swiping
  <2>6. Speaks(p, c)
    BY <2>1, <2>3 DEF Speaks, WillBe, Hand, SidSteps, Due, Stable
  <2>. QED  BY <2>3, <2>4, <2>5, <2>6 DEF Heard
<1>. QED  BY <1>1, <1>2

\* What a compaction keeps stands for the whole chat.
LEMMA PersistCovers ==
  ASSUME Voices, NEW p \in Procs, NEW c \in ChatIds, Live(c), Mine(p, c), CompactPersist(p),
         c = chatOf(p), chats'[c].summary = Told(loc[p].sid), chats'[c].anchor = MaxSeq(c)
  PROVE  Covers(messages'[c], chats'[c])
<1>1. CanonRuns /\ CanonInv
  BY DEF Voices, OneWriter, VariantInv, CanonInv
<1>2. pc[p] = "compact.persist" /\ messages' = messages
  BY DEF CompactPersist
<1>3. Heard(p, c)
  BY WorkerHears
<1>4. chats[c].api = "agent-sdk"
  BY <1>2, <1>3 DEF Heard, KnowsRow, OnAgent
<1>5. Told(loc[p].sid) = Texts(c)
  BY <1>2, <1>3, <1>4, HeardBefore
<1>6. MaxSeq(c) \in Nat /\ MaxSeq(c) \in {0} \union Seqs(c)
  BY <1>1, TipIs
<1>7. Texts(c) = Words(messages[c], MaxSeq(c))
  BY DEF Texts
<1>. QED  BY <1>2, <1>5, <1>6, <1>7 DEF Covers, Seqs

\* The chat of the step's own request.
LEMMA OwnCovers ==
  ASSUME Voices, CanonInv', NEW p \in Procs, Step(p), NEW c \in ChatIds, Live(c), Live(c)', Mine(p, c),
         ~Copying(p, c), Settled(chats[c]), Covers(messages[c], chats[c])
  PROVE  Covers(messages'[c], chats'[c])
<1>. OneWriter /\ HeldInv /\ CanonInv
  BY DEF Voices, OneWriter, VariantInv
<1>1. Heard(p, c)
  BY WorkerHears
<1>2. CASE SameSummary(c)
  <2>1. PICK row : row = chats[c]
    OBVIOUS
  <2>2. Covers(messages'[c], row) \/ Bare(c)'
    BY <1>1, <2>1, SourceStays
  <2>3. ~Bare(c)'
    BY DEF Bare, Live
  <2>4. PICK t, r : t = messages'[c] /\ r = chats'[c]
    OBVIOUS
  <2>5. Covers(t, row) /\ r.summary = row.summary /\ r.anchor = row.anchor
    BY <1>2, <2>1, <2>2, <2>3, <2>4 DEF SameSummary
  <2>6. Covers(t, r)
    BY <2>5, CoversAs
  <2>. QED  BY <2>4, <2>6
<1>3. CASE /\ CompactPersist(p) /\ c = chatOf(p)
           /\ chats'[c].summary = Told(loc[p].sid) /\ chats'[c].anchor = MaxSeq(c)
  BY <1>3, PersistCovers
<1>4. ~(StartRow(p) /\ c = chatOf(p) /\ chats[c].status = "absent")
  BY DEF Live
<1>5. ~(ForkRow(p) /\ c = req[p].target)
  BY DEF ForkRow, At, Aims, OneWriter, AimInv, Live
<1>6. ~(DeleteChat(p) /\ c = chatOf(p))
  BY DEF DeleteChat, NoChat, NewChat, Live, CanonInv, TypeOK, ChatsOK
<1>. QED  BY <1>2, <1>3, <1>4, <1>5, <1>6, SummaryStep DEF SummaryMoves

\* What a send has read of its row is still there.
LEMMA OwnRow ==
  ASSUME Voices, NEW p \in Procs, Step(p), NEW c \in ChatIds, Live(c), Mine(p, c), Summed(c),
         Writes(p, c)', pc'[p] \in SendSteps
  PROVE  loc'[p].row.summary = chats'[c].summary /\ loc'[p].row.anchor = chats'[c].anchor
<1>. OneWriter /\ HeldInv /\ CanonInv
  BY DEF Voices, OneWriter, VariantInv
<1>0. DOMAIN loc = Procs /\ loc[p] \in Locals
  BY DEF CanonInv, TypeOK, RequestsOK
<1>1. CASE BeginSend(p)
  <2>1. c = chatOf(p) /\ chats' = chats
    BY <1>1, MineAt DEF BeginSend, Granted, tables, Forking
  <2>2. PICK r, n : r = chats[c] /\ n = MaxSeq(c) + 1
    OBVIOUS
  <2>3. PICK l : l = [loc[p] EXCEPT !.row = r, !.seq = n]
    OBVIOUS
  <2>4. l.row = r
    BY <1>0, <2>3 DEF Locals
  <2>5. loc'[p] = l
    BY <1>0, <1>1, <2>1, <2>2, <2>3 DEF BeginSend
  <2>. QED  BY <2>1, <2>2, <2>4, <2>5
<1>2. CASE ~BeginSend(p)
  <2>1. pc'[p] \notin SwipeSteps
    BY DEF SendSteps, SwipeSteps, Unanswered, Swiping
  <2>2. ~BeginSwipe(p)
    BY <2>1 DEF BeginSwipe, Granted, SwipeSteps, Swiping, CanonInv, LineInv, Shapes
  <2>3. loc'[p].row = loc[p].row /\ pc[p] \in SendSteps
    BY <1>2, <2>2, RowStays
  <2>4. Writes(p, c)
    BY <2>3 DEF Mine, SendSteps, Unanswered
  <2>5. loc[p].row.summary = chats[c].summary /\ loc[p].row.anchor = chats[c].anchor
    BY <2>3, <2>4 DEF Summed
  <2>6. SameSummary(c)
    BY <2>3, SummaryStep DEF SummaryMoves, CompactPersist, StartRow, ForkRow, DeleteChat, At, Granted,
       SendSteps, Unanswered
  <2>. QED  BY <2>3, <2>5, <2>6 DEF SameSummary
<1>. QED  BY <1>1, <1>2

LEMMA KeepsSummed ==
  ASSUME Voices, CanonInv', NEW p \in Procs, Step(p), NEW c \in ChatIds, Live(c), Live(c)',
         Summed(c), Settled(chats[c])
  PROVE  Summed(c)'
<1>. OneWriter
  BY DEF Voices
<1>1. CASE ~Mine(p, c)
  BY <1>1, ElsewhereSummed
<1>2. CASE Mine(p, c)
  <2>1. ASSUME NEW q \in Procs \ {p}
        PROVE  ~Writes(q, c) /\ ~Writes(q, c)' /\ ~Copying(q, c) /\ ~Copying(q, c)'
    BY <1>2, <2>1, Alone, OthersWrite, CopierWrites
  <2>2. \A q \in Procs : ~Copying(q, c)'
    BY <2>1, NoneCopies
  <2>3. Covers(messages'[c], chats'[c])
    <3>1. CASE Copying(p, c)
      BY <3>1, CopiesSummed
    <3>2. CASE ~Copying(p, c)
      <4>1. Covers(messages[c], chats[c])
        BY <2>1, <3>2 DEF Summed
      <4>. QED  BY <1>2, <3>2, <4>1, OwnCovers
    <3>. QED  BY <3>1, <3>2
  <2>4. ASSUME NEW q \in Procs, Writes(q, c)', pc'[q] \in SendSteps
        PROVE  loc'[q].row.summary = chats'[c].summary /\ loc'[q].row.anchor = chats'[c].anchor
    BY <1>2, <2>1, <2>4, OwnRow
  <2>. QED  BY <2>2, <2>3, <2>4 DEF Summed
<1>. QED  BY <1>1, <1>2

\* A chat starts without a summary, or with the one its fork carries over.
LEMMA StartsSummed ==
  ASSUME Voices, NEW p \in Procs, Step(p), NEW c \in ChatIds, ~Live(c), Live(c)', Sourced(p)
  PROVE  Summed(c)'
<1>. OneWriter /\ HeldInv /\ CanonInv /\ DOMAIN pc = Procs
  BY DEF Voices, OneWriter, VariantInv, CanonInv, LineInv, Shapes
<1>1. /\ Writes(p, c)' /\ \A q \in Procs \ {p} : ~Writes(q, c)'
  BY StartsUnheard, OthersWrite
<1>2. \A q \in Procs \ {p} : ~Copying(q, c)'
  BY <1>1, CopierWrites
<1>3. \/ StartRow(p) /\ c = chatOf(p) /\ chats[c].status = "absent"
      \/ ForkRow(p) /\ c = req[p].target
  BY StatusStep DEF Live, DeleteChat
<1>4. CASE StartRow(p) /\ c = chatOf(p) /\ chats[c].status = "absent"
  <2>1. chats'[c].anchor = -1 /\ chats'[c].summary = <<>>
    <3>1. chats' = [chats EXCEPT ![c] = NewChat(req[p].api)]
      BY <1>4 DEF StartRow
    <3>. QED  BY <3>1 DEF NewChat, CanonInv, TypeOK, ChatsOK
  <2>2. pc'[p] \in {"open.load", "greet.insert", "start.send"}
    BY <1>4 DEF StartRow
  <2>3. ~Copying(p, c)' /\ pc'[p] \notin SendSteps
    BY <2>2 DEF Copying, SendSteps, Unanswered
  <2>4. Covers(messages'[c], chats'[c])
    BY <2>1 DEF Covers
  <2>. QED  BY <1>1, <1>2, <2>3, <2>4 DEF Summed
<1>5. CASE ForkRow(p) /\ c = req[p].target
  <2>1. /\ pc[p] = "fork.row" /\ pc'[p] = "fork.messages" /\ req' = req /\ copy' = copy
    BY <1>5 DEF ForkRow, At
  <2>2. Copying(p, c)' /\ pc'[p] \notin SendSteps
    BY <1>5, <2>1 DEF Copying, SendSteps, Unanswered
  <2>3. Covers(copy[p], chats'[c])
    <3>1. \/ /\ Carried(loc[p].row, req[p].seq)
             /\ chats'[c].summary = loc[p].row.summary /\ chats'[c].anchor = loc[p].row.anchor
          \/ chats'[c].summary = <<>> /\ chats'[c].anchor = -1
      <4>2. PICK api, s, k, m, a :
              /\ api = req[p].api /\ k = Cardinality(DOMAIN copy[p])
              /\ s = IF req[p].api = "agent-sdk" THEN nextSession ELSE 0
              /\ m = IF Carried(loc[p].row, req[p].seq) THEN loc[p].row.summary ELSE <<>>
              /\ a = IF Carried(loc[p].row, req[p].seq) THEN loc[p].row.anchor ELSE -1
        OBVIOUS
      <4>3. PICK r : r = [NewChat(api) EXCEPT !.session = s, !.count = k, !.summary = m, !.anchor = a]
        OBVIOUS
      <4>4. r.summary = m /\ r.anchor = a
        BY <4>3 DEF NewChat
      <4>5. chats' = [chats EXCEPT ![c] = r]
        BY <1>5, <4>2, <4>3 DEF ForkRow
      <4>6. chats'[c] = r
        BY <4>5 DEF CanonInv, TypeOK, ChatsOK
      <4>. QED  BY <4>2, <4>4, <4>6
    <3>2. CASE /\ Carried(loc[p].row, req[p].seq)
               /\ chats'[c].summary = loc[p].row.summary /\ chats'[c].anchor = loc[p].row.anchor
      <4>1. Covers(copy[p], loc[p].row)
        BY <2>1, <3>2 DEF Sourced, Carried
      <4>. QED  BY <3>2, <4>1, CoversAs
    <3>3. CASE chats'[c].summary = <<>> /\ chats'[c].anchor = -1
      BY <3>3 DEF Covers
    <3>. QED  BY <3>1, <3>2, <3>3
  <2>. QED  BY <1>1, <1>2, <2>1, <2>2, <2>3 DEF Summed
<1>. QED  BY <1>3, <1>4, <1>5

-----------------------------------------------------------------------------
(***************************************************************************)
(* What a fork has read of its source.                                     *)
(***************************************************************************)
\* The row a fork starts with.
LoadedRow(p, c) == c = chatOf(p) /\ Live(c) /\ loc'[p].row = chats[c] /\ messages' = messages

LEMMA LoadsRow ==
  ASSUME CanonInv, NEW p \in Procs, ForkLoad(p), pc'[p] = "fork.read"
  PROVE  LoadedRow(p, chatOf(p)) /\ req' = req
<1>1. DOMAIN pc = Procs /\ DOMAIN loc = Procs /\ loc[p] \in Locals
  BY DEF CanonInv, LineInv, Shapes, TypeOK, RequestsOK
<1>2. Live(chatOf(p)) /\ UNCHANGED <<queue, req>> /\ messages' = messages
  BY <1>1 DEF ForkLoad, Return, tables
<1>3. PICK r : r = chats[chatOf(p)]
  OBVIOUS
<1>4. PICK l : l = [loc[p] EXCEPT !.row = r]
  OBVIOUS
<1>5. l.row = r
  BY <1>1, <1>4 DEF Locals
<1>6. loc'[p] = l
  BY <1>1, <1>2, <1>3, <1>4 DEF ForkLoad
<1>. QED  BY <1>2, <1>3, <1>5, <1>6 DEF LoadedRow

\* What a fork copies says what its source says, up to its end.
LEMMA ReadsCovered ==
  ASSUME CanonInv, CanonInv', NEW p \in Procs, ForkRead(p), pc'[p] = "fork.row",
         NEW row, Covers(messages[chatOf(p)], row), row.anchor <= req[p].seq
  PROVE  Covers(copy'[p], row)
<1>1. /\ DOMAIN pc = Procs /\ DOMAIN copy = Procs /\ pc[p] = "fork.read" /\ pc[p] # "idle"
      /\ MessageTable(copy'[p])
  BY DEF CanonInv, LineInv, Shapes, ForksCopy, ForkSteps, ForkRead
<1>2. PICK c \in ChatIds : c = chatOf(p)
  BY <1>1, Rows
<1>3. PICK t, at : t = messages[c] /\ at = req[p].seq
  OBVIOUS
<1>4. MessageTable(t) /\ at \in Nat
  BY <1>2, <1>3, RequestIs DEF CanonInv, TypeOK, MessagesOK
<1>5. PICK range : range = {s \in DOMAIN t : s <= at}
  OBVIOUS
<1>6. /\ copy' = [copy EXCEPT ![p] = [s \in range |-> CopyOf(t[s])]]
  BY <1>1, <1>2, <1>3, <1>5 DEF ForkRead, Return, Seqs
<1>7. PICK u : u = [s \in range |-> CopyOf(t[s])]
  OBVIOUS
<1>8. copy'[p] = u /\ DOMAIN u = range /\ \A s \in range : u[s].body = t[s].body
  BY <1>1, <1>6, <1>7 DEF CopyOf, NewMessage
<1>9. row.anchor # -1 => row.anchor \in {0} \union DOMAIN u
  BY <1>2, <1>3, <1>5, <1>8 DEF Covers
<1>10. ASSUME row.anchor # -1, NEW n \in 0..row.anchor PROVE Word(u, n) = Word(t, n)
  <2>1. row.anchor \in Nat /\ row.anchor <= at
    BY <1>2, <1>3, <1>4, <1>10 DEF Covers, MessageTable
  <2>2. n \in Nat /\ n <= at
    BY <1>4, <1>10, <2>1
  <2>3. n \in DOMAIN u <=> n \in DOMAIN t
    BY <1>5, <1>8, <2>2
  <2>. QED  BY <1>5, <1>8, <2>3 DEF Word
<1>11. Covers(t, row) /\ MessageTable(u)
  BY <1>1, <1>2, <1>3, <1>8
<1>12. Covers(u, row)
  BY <1>4, <1>9, <1>10, <1>11, CoversOn
<1>. QED  BY <1>8, <1>12

\* The fork itself.
LEMMA OwnSource ==
  ASSUME Voices, CanonInv', NEW p \in Procs, Step(p), Unsourced,
         \A c \in ChatIds : Live(c) => Summed(c), Sourced(p)
  PROVE  Sourced(p)'
<1>. OneWriter /\ CanonInv /\ DOMAIN pc = Procs /\ DOMAIN loc = Procs
  BY DEF Voices, OneWriter, VariantInv, CanonInv, LineInv, Shapes, TypeOK, RequestsOK
<1>1. CASE pc'[p] \notin {"fork.read", "fork.row"}
  BY <1>1 DEF Sourced
<1>2. CASE pc'[p] \in {"fork.read", "fork.row"} /\ loc' = [loc EXCEPT ![p] = NoLocals]
  <2>1. loc'[p].row.anchor = -1 /\ loc'[p].row.summary = <<>>
    BY <1>2 DEF NoLocals, NoChat, NewChat
  <2>2. \A t : Covers(t, loc'[p].row)
    BY <2>1 DEF Covers
  <2>. QED  BY <2>2 DEF Sourced
<1>3. CASE pc'[p] \in {"fork.read", "fork.row"} /\ ForkLoad(p)
  <2>1. pc'[p] = "fork.read" /\ pc[p] = "fork.load"
    BY <1>3 DEF ForkLoad, Return
  <2>2. PICK c \in ChatIds : c = chatOf(p)
    BY <2>1, Rows
  <2>3. LoadedRow(p, c) /\ req' = req
    BY <1>3, <2>1, <2>2, LoadsRow
  <2>4. \A q \in Procs : ~Copying(q, c)
    BY <2>1, <2>2 DEF Unsourced, Copying
  <2>5. Covers(messages[c], chats[c])
    BY <2>3, <2>4 DEF LoadedRow, Summed
  <2>6. Covers(messages'[c], loc'[p].row)
    BY <2>3, <2>5 DEF LoadedRow
  <2>7. chatOf(p)' = c
    BY <2>2, <2>3 DEF chatOf
  <2>. QED  BY <2>1, <2>6, <2>7 DEF Sourced
<1>4. CASE pc'[p] \in {"fork.read", "fork.row"} /\ ForkRead(p)
  <2>1. pc'[p] = "fork.row" /\ pc[p] = "fork.read" /\ {s \in Seqs(chatOf(p)) : s <= req[p].seq} # {}
    BY <1>4 DEF ForkRead, Return
  <2>2. loc' = loc /\ req' = req
    BY <1>4, <2>1 DEF ForkRead
  <2>3. PICK row : row = loc[p].row
    OBVIOUS
  <2>4. Covers(messages[chatOf(p)], row)
    BY <2>1, <2>3 DEF Sourced, Bare
  <2>5. row.anchor <= req[p].seq => Covers(copy'[p], row)
    BY <1>4, <2>1, <2>4, ReadsCovered
  <2>. QED  BY <2>1, <2>2, <2>3, <2>5 DEF Sourced
<1>5. ~BeginSwipe(p) \/ pc'[p] \notin {"fork.read", "fork.row"}
  BY DEF BeginSwipe
<1>. QED  BY <1>1, <1>2, <1>3, <1>4, <1>5, EarlyAgain DEF Early

\* A fork somebody else makes.
LEMMA OthersSource ==
  ASSUME Voices, CanonInv', NEW q \in Procs, Step(q), NEW p \in Procs \ {q}, Unsourced,
         Settled(loc[p].row), Sourced(p)
  PROVE  Sourced(p)'
<1>. OneWriter /\ CanonInv
  BY DEF Voices, OneWriter, VariantInv
<1>1. pc'[p] = pc[p] /\ req'[p] = req[p] /\ loc'[p] = loc[p] /\ copy'[p] = copy[p]
  BY OthersStay
<1>2. chatOf(p)' = chatOf(p)
  BY <1>1 DEF chatOf
<1>3. ASSUME pc[p] = "fork.read" PROVE Covers(messages'[chatOf(p)], loc[p].row) \/ Bare(chatOf(p))'
  <2>1. PICK c \in ChatIds : c = chatOf(p)
    BY <1>3, Rows
  <2>2. ~Copying(q, c)
    BY <2>1 DEF Unsourced
  <2>3. PICK row : row = loc[p].row
    OBVIOUS
  <2>4. Covers(messages[c], row) \/ Bare(c)
    BY <1>3, <2>1, <2>3 DEF Sourced
  <2>5. Settled(row)
    BY <2>3
  <2>6. Covers(messages'[c], row) \/ Bare(c)'
    BY <2>2, <2>4, <2>5, WriterHears, SourceStays
  <2>. QED  BY <1>2, <2>1, <2>3, <2>6
<1>. QED  BY <1>1, <1>2, <1>3 DEF Sourced

\* Nobody forks a chat that is being copied into.
LEMMA StepUnsourced ==
  ASSUME Voices, NEW p \in Procs, Step(p), Unsourced
  PROVE  Unsourced'
<1>. OneWriter /\ CanonInv /\ DOMAIN pc = Procs
  BY DEF Voices, OneWriter, VariantInv, CanonInv, LineInv, Shapes
<1>. SUFFICES ASSUME NEW r \in Procs, NEW c \in ChatIds, Copying(r, c)', NEW q \in Procs \ {r},
                     chatOf(q)' = c
              PROVE  FALSE
  BY DEF Unsourced
<1>1. chatOf(q) = c
  <2>1. CASE q = p
    <3>1. DOMAIN req = Procs
      BY DEF CanonInv, TypeOK, RequestsOK
    <3>2. CASE Goes(p)
      <4>1. chatOf(p)' = NoOne
        BY <3>2 DEF Goes, chatOf, NoRequest
      <4>. QED  BY <2>1, <4>1, NoOneAssumption
    <3>3. CASE StartSend(p)
      <4>1. req'[p].chat = req[p].chat
        BY <3>1, <3>3, RequestIs DEF StartSend, CanonInv, TypeOK, RequestsOK, Request
      <4>. QED  BY <2>1, <4>1 DEF chatOf
    <3>4. CASE req'[p] = req[p]
      BY <2>1, <3>4 DEF chatOf
    <3>. QED  BY <3>2, <3>3, <3>4, StepMoves DEF Moves
  <2>2. CASE q # p
    BY <2>2, OthersStay DEF chatOf
  <2>. QED  BY <2>1, <2>2
<1>2. CASE r = p
  <2>1. pc'[p] = "fork.messages" /\ req'[p].target = c
    BY <1>2 DEF Copying
  <2>2. ForkRow(p) /\ req'[p] = req[p]
    BY <2>1, StepMoves DEF Moves, Goes, StartSend, At, LockedMove, FreeMove, LockedSteps, Greeting,
       OpenSteps
  <2>3. Aims(p, c)
    BY <2>1, <2>2 DEF ForkRow, At, Aims
  <2>. QED  BY <1>1, <1>2, <2>3 DEF OneWriter, AimInv
<1>3. CASE r # p
  <2>1. Copying(r, c)
    BY <1>3, OthersStay DEF Copying
  <2>. QED  BY <1>1, <2>1 DEF Unsourced
<1>. QED  BY <1>2, <1>3

-----------------------------------------------------------------------------
(***************************************************************************)
(* Where nothing compacts, no chat has a summary.                          *)
(***************************************************************************)
\* Where the row a request holds comes from.
RowKept(p) ==
  \/ loc' = [loc EXCEPT ![p] = NoLocals]
  \/ loc'[p].row \in {loc[p].row, chats[chatOf(p)]}

LEMMA RowReads ==
  ASSUME CanonInv, NEW p \in Procs, Step(p)
  PROVE  RowKept(p)
<1>1. DOMAIN loc = Procs /\ loc[p] \in Locals
  BY DEF CanonInv, TypeOK, RequestsOK
<1>. PICK l \in Locals : l = loc[p]
  BY <1>1
<1>. PICK r : r = chats[chatOf(p)]
  OBVIOUS
<1>2. ASSUME NEW k, loc' = [loc EXCEPT ![p] = k], k.row \in {l.row, r}
      PROVE  RowKept(p)
  BY <1>1, <1>2 DEF RowKept
<1>3. ASSUME NEW x, NEW n, NEW b
      PROVE  /\ [l EXCEPT !.sid = n].row = l.row /\ [l EXCEPT !.seeded = n].row = l.row
             /\ [l EXCEPT !.body = b].row = l.row /\ [l EXCEPT !.row = x].row = x
             /\ [l EXCEPT !.row = x, !.seq = n].row = x /\ [l EXCEPT !.row = x, !.sid = n].row = x
             /\ [l EXCEPT !.row = x, !.seq = n, !.body = b].row = x
  BY DEF Locals
<1>4. ASSUME NEW n, loc' = [loc EXCEPT ![p].sid = n] \/ loc' = [loc EXCEPT ![p].seeded = n]
                    \/ loc' = [loc EXCEPT ![p].body = n]
      PROVE  RowKept(p)
  <2>1. \/ loc' = [loc EXCEPT ![p] = [l EXCEPT !.sid = n]]
        \/ loc' = [loc EXCEPT ![p] = [l EXCEPT !.seeded = n]]
        \/ loc' = [loc EXCEPT ![p] = [l EXCEPT !.body = n]]
    BY <1>1, <1>4
  <2>. QED  BY <1>2, <1>3, <2>1
<1>5. ASSUME NEW x \in {l.row, r}, NEW n, NEW b,
             \/ loc' = [loc EXCEPT ![p].row = x] \/ loc' = [loc EXCEPT ![p].row = x, ![p].seq = n]
             \/ loc' = [loc EXCEPT ![p].row = x, ![p].sid = n]
             \/ loc' = [loc EXCEPT ![p].row = x, ![p].seq = n, ![p].body = b]
      PROVE  RowKept(p)
  <2>1. \/ loc' = [loc EXCEPT ![p] = [l EXCEPT !.row = x]]
        \/ loc' = [loc EXCEPT ![p] = [l EXCEPT !.row = x, !.seq = n]]
        \/ loc' = [loc EXCEPT ![p] = [l EXCEPT !.row = x, !.sid = n]]
        \/ loc' = [loc EXCEPT ![p] = [l EXCEPT !.row = x, !.seq = n, !.body = b]]
    BY <1>1, <1>5
  <2>2. /\ [l EXCEPT !.row = x].row = x /\ [l EXCEPT !.row = x, !.seq = n].row = x
        /\ [l EXCEPT !.row = x, !.sid = n].row = x
        /\ [l EXCEPT !.row = x, !.seq = n, !.body = b].row = x
    BY <1>3
  <2>3. \E k : loc' = [loc EXCEPT ![p] = k] /\ k.row = x
    BY <2>1, <2>2
  <2>. QED  BY <1>2, <1>5, <2>3
<1>6. loc' = loc => RowKept(p)
  BY DEF RowKept
<1>7. loc' = [loc EXCEPT ![p] = NoLocals] => RowKept(p)
  BY DEF RowKept
<1>8. CASE BeginSend(p) \/ BeginSwipe(p) \/ BeginCompact(p) \/ BeginProvider(p)
  BY <1>5, <1>8 DEF BeginSend, BeginSwipe, BeginCompact, BeginProvider
<1>9. CASE SendStart(p) \/ SwipeStart(p) \/ OpenStart(p)
  BY <1>4, <1>6, <1>9 DEF SendStart, SwipeStart, OpenStart, StartTurn, Opens
<1>10. CASE SendReply(p) \/ SwipeReply(p) \/ OpenReply(p)
  BY <1>4, <1>10 DEF SendReply, SwipeReply, OpenReply, EndTurn
<1>11. CASE SwipeSeed(p) \/ ReseedSeed(p) \/ ProviderSession(p) \/ GreetSeed(p) \/ ForkRow(p)
  BY <1>4, <1>6, <1>11 DEF SwipeSeed, ReseedSeed, ProviderSession, GreetSeed, ForkRow, SeedFromCanon
<1>12. ASSUME NEW x \in {l.row, r}, ReseedOrLeave(p, x) PROVE RowKept(p)
  BY <1>5, <1>7, <1>12 DEF ReseedOrLeave, Leave
<1>13. CASE SelectVariant(p)
  BY <1>12, <1>13 DEF SelectVariant
<1>14. CASE EditVariant(p)
  BY <1>12, <1>14 DEF EditVariant
<1>15. CASE EditMessage(p)
  <2>1. PICK s : \/ loc' = [loc EXCEPT ![p].row = r, ![p].seq = s, ![p].body = nextBody]
                 \/ ReseedOrLeave(p, r)
    BY <1>15 DEF EditMessage
  <2>. QED  BY <1>5, <1>12, <2>1
<1>16. CASE GreetInsert(p) \/ OpenLoad(p) \/ ForkLoad(p)
  BY <1>4, <1>5, <1>7, <1>16 DEF GreetInsert, OpenLoad, ForkLoad, Return
<1>. QED  BY LocalsWriters, <1>6, <1>7, <1>8, <1>9, <1>10, <1>11, <1>13, <1>14, <1>15, <1>16

\* How a request comes to compact.
LEMMA CompactionsCome ==
  ASSUME CanonInv, NEW p \in Procs, Step(p), pc'[p] \in Compacting
  PROVE  BeginCompact(p) \/ (SendUpdate(p) /\ Managed) \/ pc[p] \in Compacting
<1>1. DOMAIN pc = Procs
  BY DEF CanonInv, LineInv, Shapes
<1>2. CASE SendStep(p)
  BY <1>1, <1>2 DEF Compacting, SendStep, BeginSend, SendInsert, SendStart, SendReply, SendFails,
     SendRollback, SendPersist, SendUpdate, SendThrows, StartTurn, EndTurn, FailTurn, At, Leave
<1>3. CASE BeginCompact(p) \/ CompactNothing(p) \/ CompactStep(p) \/ ReseedStep(p) \/ Refuse(p) \/ Deny(p)
  BY <1>1, <1>3 DEF Compacting, CompactNothing, CompactStep, CompactTurn, CompactFails,
     CompactPersist, ReseedStep, ReseedDrop, ReseedSeed, ReseedPoint, SeedFromCanon, Refuse, Deny,
     At, Leave
<1>4. CASE SwipeStep(p)
  BY <1>1, <1>4 DEF Compacting, SwipeStep, BeginSwipe, SwipeSeed, SwipeStart, SwipeReply, SwipeFails,
     SwipeAbandon, SwipeBackfill, SwipeVariant, SwipeMessage, SwipeDrop, SwipeUpdate, StartTurn,
     EndTurn, FailTurn, At, Leave
<1>5. CASE SelectVariant(p) \/ EditStep(p)
  BY <1>1, <1>5 DEF Compacting, SelectVariant, EditStep, EditMessage, EditVariant, DeleteChat,
     PatchChat, ReseedOrLeave, Leave
<1>6. CASE StartStep(p)
  <2>1. Moves(p)
    BY StepMoves
  <2>. QED  BY <1>1, <1>6, <2>1 DEF Compacting, StartStep, StartRow, GreetInsert, GreetSeed,
     GreetThrows, GreetUpdate, StartSend, OpenLoad, OpenStart, OpenReply, OpenFails, OpenInsert,
     OpenUpdate, StartTurn, EndTurn, At, Return
<1>7. CASE BranchStep(p)
  BY <1>1, <1>7 DEF Compacting, BranchStep, ForkLoad, ForkRead, ForkRow, ForkMessages, ForkSeed,
     BeginProvider, ProviderSession, ProviderUpdate, SeedFromCanon, At, Leave, Return
<1>. QED  BY <1>2, <1>3, <1>4, <1>5, <1>6, <1>7 DEF Step

LEMMA StepUncompacted ==
  ASSUME CanonInv, NEW p \in Procs, Step(p), Uncompacted, ~Condenses
  PROVE  Uncompacted'
<1>1. DOMAIN loc = Procs /\ chatOf(p) \in ChatIds
  BY Busy, Rows DEF CanonInv, TypeOK, RequestsOK
<1>2. ASSUME NEW c \in ChatIds PROVE chats'[c].anchor = -1
  BY SummaryStep DEF SummaryMoves, SameSummary, Uncompacted, CompactPersist, Compacting, Carried
<1>3. ASSUME NEW q \in Procs PROVE loc'[q].row.anchor = -1 /\ pc'[q] \notin Compacting
  <2>1. CASE q # p
    BY <2>1, OthersStay DEF Uncompacted
  <2>2. CASE q = p
    <3>1. loc'[p].row.anchor = -1
      <4>1. CASE loc' = [loc EXCEPT ![p] = NoLocals]
        BY <1>1, <4>1 DEF NoLocals, NoChat, NewChat
      <4>2. CASE loc'[p].row \in {loc[p].row, chats[chatOf(p)]}
        BY <1>1, <4>2 DEF Uncompacted
      <4>. QED  BY <4>1, <4>2, RowReads DEF RowKept
    <3>2. pc'[p] \notin Compacting
      <4>1. req[p].kind \in Kinds \union {"none", "send"}
        BY RequestIs DEF CanonInv, TypeOK
      <4>. QED  BY <4>1, CompactionsCome DEF Condenses, Uncompacted, BeginCompact, Granted
    <3>. QED  BY <2>2, <3>1, <3>2
  <2>. QED  BY <2>1, <2>2
<1>. QED  BY <1>2, <1>3 DEF Uncompacted

-----------------------------------------------------------------------------
(***************************************************************************)
(* The invariant of the summaries, over every step of the service.         *)
(***************************************************************************)
\* A call does not fork a chat that is being copied into, nor one of the others.
LEMMA CallKeepsSums ==
  ASSUME ~Eager, Voices, NEW p \in Procs, Call(p), Unsourced,
         \A c \in ChatIds : Live(c) => Summed(c), \A q \in Procs : Sourced(q)
  PROVE  /\ Unsourced' /\ \A c \in ChatIds : Live(c)' => Summed(c)'
         /\ \A q \in Procs : Sourced(q)'
<1>. OneWriter
  BY DEF Voices
<1>0. DOMAIN pc = Procs /\ DOMAIN req = Procs
  BY DEF OneWriter, VariantInv, CanonInv, LineInv, Shapes, TypeOK, RequestsOK
<1>1. PICK r : \E there \in {"wait", "start.row", "fork.load"} : Arriving(p, r, there)
  BY CallForms
<1>2. PICK there \in {"wait", "start.row", "fork.load"} : Arriving(p, r, there)
  BY <1>1
<1>3. /\ UNCHANGED <<chats, messages, loc, copy>> /\ pc[p] = "idle"
      /\ pc' = [pc EXCEPT ![p] = there] /\ req' = [req EXCEPT ![p] = r]
  BY <1>2 DEF Arriving, Arrives, tables, ids
<1>4. /\ pc'[p] = there /\ req'[p] = r
      /\ \A q \in Procs \ {p} : pc'[q] = pc[q] /\ req'[q] = req[q] /\ chatOf(q)' = chatOf(q)
  BY <1>0, <1>3 DEF chatOf
<1>5. \A c : ~Copying(p, c) /\ ~Copying(p, c)' /\ ~Writes(p, c)'
  BY <1>3, <1>4 DEF Copying, Writes, Builds, Greeting, OpenSteps, LockedSteps
<1>6. \A q \in Procs : \A c : (Copying(q, c)' <=> Copying(q, c)) /\ (Writes(q, c)' => q # p /\ Writes(q, c))
  BY <1>4, <1>5 DEF Copying, Writes, Builds
<1>7. Unsourced'
  <2>. SUFFICES ASSUME NEW q \in Procs, NEW c \in ChatIds, Copying(q, c)', NEW o \in Procs \ {q},
                       chatOf(o)' = c
                PROVE  FALSE
    BY DEF Unsourced
  <2>1. Copying(q, c) /\ q # p
    BY <1>5, <1>6
  <2>2. o = p
    BY <1>4, <2>1 DEF Unsourced
  <2>3. r.chat = c
    BY <1>4, <2>2 DEF chatOf
  <2>4. req[q].target = c /\ Live(c)
    BY <2>1, CopierWrites, WriterHears DEF Copying
  <2>5. CASE AtLock(r)
    BY <2>3, <2>4, <2>5 DEF AtLock, Starting
  <2>6. CASE AtStart(r)
    BY <2>3, <2>4, <2>6 DEF AtStart
  <2>7. CASE AtFork(r)
    <3>1. Seqs(c) = {}
      BY <2>1, CopierWrites, WriterHears DEF Heard, KnowsTexts, Blank, Copying
    <3>. QED  BY <2>3, <2>7, <3>1 DEF AtFork
  <2>. QED  BY <1>2, <2>5, <2>6, <2>7 DEF Arriving
<1>8. ASSUME NEW c \in ChatIds, Live(c)' PROVE Summed(c)'
  <2>1. Summed(c) /\ chats'[c] = chats[c] /\ messages'[c] = messages[c]
    BY <1>3, <1>8 DEF Live
  <2>. QED  BY <1>3, <1>4, <1>6, <2>1 DEF Summed
<1>9. ASSUME NEW q \in Procs PROVE Sourced(q)'
  <2>1. CASE q = p
    BY <1>4, <2>1 DEF Sourced
  <2>2. CASE q # p
    <3>1. PICK c : c = chatOf(q)
      OBVIOUS
    <3>2. chatOf(q)' = c /\ Bare(c)' = Bare(c)
      BY <1>3, <1>4, <2>2, <3>1 DEF Bare, Seqs
    <3>. QED  BY <1>3, <1>4, <2>2, <3>1, <3>2 DEF Sourced
  <2>. QED  BY <2>1, <2>2
<1>. QED  BY <1>7, <1>8, <1>9

LEMMA StepKeepsSums ==
  ASSUME Voices, CanonInv', NEW p \in Procs, Step(p), Unsourced,
         \A c \in ChatIds : Live(c) => Summed(c), \A q \in Procs : Sourced(q),
         \A c \in ChatIds : Settled(chats[c]), \A q \in Procs : Settled(loc[q].row)
  PROVE  /\ Unsourced' /\ \A c \in ChatIds : Live(c)' => Summed(c)'
         /\ \A q \in Procs : Sourced(q)'
<1>1. Unsourced'
  BY StepUnsourced
<1>2. ASSUME NEW c \in ChatIds, Live(c)' PROVE Summed(c)'
  BY <1>2, KeepsSummed, StartsSummed
<1>3. ASSUME NEW q \in Procs PROVE Sourced(q)'
  <2>1. CASE q = p
    BY <2>1, OwnSource
  <2>2. CASE q # p
    BY <2>2, OthersSource
  <2>. QED  BY <2>1, <2>2
<1>. QED  BY <1>1, <1>2, <1>3

\* Nothing is rewritten but by requests that rewrite, and nothing compacted but
\* by those that compact.
LEMMA NextRewritesNothing ==
  ASSUME OneWriter, NoRewriting, ~Rewords, [Next]_vars
  PROVE  NoRewriting'
<1>0. DOMAIN pc = Procs /\ CanonInv
  BY DEF OneWriter, VariantInv, CanonInv, LineInv, Shapes
<1>1. ASSUME NEW p \in Procs, Step(p) PROVE NoRewriting'
  BY <1>0, <1>1, StepRewritesNothing DEF Rewords
<1>2. ASSUME NEW p \in Procs, Call(p) PROVE NoRewriting'
  <2>1. PICK r : \E there \in {"wait", "start.row", "fork.load"} : Arriving(p, r, there)
    BY <1>2, CallForms
  <2>2. PICK there \in {"wait", "start.row", "fork.load"} : pc' = [pc EXCEPT ![p] = there]
    BY <2>1 DEF Arriving, Arrives
  <2>. QED  BY <1>0, <2>2 DEF NoRewriting, SwipeSteps, Swiping
<1>3. CASE UNCHANGED vars
  BY <1>3 DEF vars, storeVars, NoRewriting
<1>4. CASE Restart
  BY <1>4 DEF Restart, NoRewriting, SwipeSteps, Swiping
<1>. QED  BY <1>1, <1>2, <1>3, <1>4 DEF Next

LEMMA NextUncompacted ==
  ASSUME OneWriter, Uncompacted, ~Condenses, [Next]_vars
  PROVE  Uncompacted'
<1>0. DOMAIN pc = Procs /\ CanonInv
  BY DEF OneWriter, VariantInv, CanonInv, LineInv, Shapes
<1>1. ASSUME NEW p \in Procs, Step(p) PROVE Uncompacted'
  BY <1>0, <1>1, StepUncompacted
<1>2. ASSUME NEW p \in Procs, Call(p) PROVE Uncompacted'
  <2>1. PICK r : \E there \in {"wait", "start.row", "fork.load"} : Arriving(p, r, there)
    BY <1>2, CallForms
  <2>2. PICK there \in {"wait", "start.row", "fork.load"} :
          pc' = [pc EXCEPT ![p] = there] /\ UNCHANGED <<chats, loc>>
    BY <2>1 DEF Arriving, Arrives, tables
  <2>. QED  BY <1>0, <2>2 DEF Uncompacted, Compacting
<1>3. CASE UNCHANGED vars
  BY <1>3 DEF vars, storeVars, Uncompacted
<1>4. CASE Restart
  <2>1. NoLocals.row.anchor = -1
    BY DEF NoLocals, NoChat, NewChat
  <2>2. UNCHANGED chats /\ \A q \in Procs : loc'[q] = NoLocals /\ pc'[q] = "idle"
    BY <1>4 DEF Restart, tables
  <2>. QED  BY <2>1, <2>2 DEF Uncompacted, Compacting
<1>. QED  BY <1>1, <1>2, <1>3, <1>4 DEF Next

LEMMA NextKeepsSums ==
  ASSUME ~Eager, ~Rewords \/ ~Condenses, SumInv, [Next]_vars
  PROVE  SumInv'
<1>1. SessionInv /\ SessionInv' /\ OneWriter /\ OneWriter' /\ CanonInv' /\ UsedOK
  BY NextKeepsVoice DEF SumInv, SessionInv, OneWriter, VariantInv
<1>2. ~Condenses => Uncompacted'
  BY <1>1, NextUncompacted DEF SumInv
<1>3. ~Rewords => NoRewriting'
  BY <1>1, NextRewritesNothing DEF SumInv
<1>4. /\ used'.crashes = 0 => used.crashes = 0
      /\ used'.failures = 0 => used.failures = 0
      /\ Restart => used'.crashes # 0
  BY <1>1, UsedStep
<1>5. ASSUME Undisturbed'
      PROVE  /\ Unsourced' /\ \A c \in ChatIds : Live(c)' => Summed(c)'
             /\ \A q \in Procs : Sourced(q)'
  <2>1. Undisturbed /\ ~Restart
    BY <1>4, <1>5 DEF Undisturbed
  <2>2. Voices
    BY <1>1, <2>1 DEF SessionInv, Voices
  <2>3. /\ Unsourced /\ \A c \in ChatIds : Live(c) => Summed(c)
        /\ \A q \in Procs : Sourced(q)
    BY <2>1 DEF SumInv
  <2>4. /\ \A c \in ChatIds : Settled(chats[c])
        /\ \A q \in Procs : Settled(loc[q].row)
    BY DEF SumInv, Settled, Uncompacted
  <2>5. ASSUME NEW p \in Procs, Step(p)
        PROVE  /\ Unsourced' /\ \A c \in ChatIds : Live(c)' => Summed(c)'
               /\ \A q \in Procs : Sourced(q)'
    BY <1>1, <2>2, <2>3, <2>4, <2>5, StepKeepsSums
  <2>6. ASSUME NEW p \in Procs, Call(p)
        PROVE  /\ Unsourced' /\ \A c \in ChatIds : Live(c)' => Summed(c)'
               /\ \A q \in Procs : Sourced(q)'
    BY <2>2, <2>3, <2>6, CallKeepsSums
  <2>7. CASE UNCHANGED vars
    <3>1. UNCHANGED <<chats, messages, pc, req, loc, copy>>
      BY <2>7 DEF vars, storeVars
    <3>2. ASSUME NEW q, NEW c
          PROVE  /\ Copying(q, c)' <=> Copying(q, c)
                 /\ Writes(q, c)' <=> Writes(q, c)
      BY <3>1 DEF Copying, Writes, Builds, chatOf
    <3>3. Unsourced'
      BY <2>3, <3>1, <3>2 DEF Unsourced, chatOf
    <3>4. ASSUME NEW c \in ChatIds, Live(c)' PROVE Summed(c)'
      <4>1. Summed(c)
        BY <2>3, <3>1, <3>4 DEF Live
      <4>. QED  BY <3>1, <3>2, <4>1 DEF Summed
    <3>5. ASSUME NEW q \in Procs PROVE Sourced(q)'
      BY <2>3, <3>1 DEF Sourced, Bare, Seqs, chatOf
    <3>. QED  BY <3>3, <3>4, <3>5
  <2>. QED  BY <2>1, <2>5, <2>6, <2>7 DEF Next
<1>. QED  BY <1>1, <1>2, <1>3, <1>5 DEF SumInv

LEMMA InitSums ==
  ASSUME Imported = {}
  PROVE  Init => SumInv
<1>. SUFFICES ASSUME Init PROVE SumInv
  OBVIOUS
<1>1. SessionInv
  BY InitVoice
<1>2. /\ NoChat.status = "absent" /\ NoChat.anchor = -1 /\ NoLocals.row = NoChat
  BY DEF NoChat, NewChat, NoLocals
<1>3. /\ \A c \in ChatIds : chats[c] = NoChat
      /\ \A p \in Procs : loc[p] = NoLocals /\ pc[p] = "idle"
  BY DEF Init
<1>4. Uncompacted /\ NoRewriting
  BY <1>2, <1>3 DEF Uncompacted, Compacting, NoRewriting, SwipeSteps, Swiping
<1>5. Unsourced /\ \A p \in Procs : Sourced(p)
  BY <1>3 DEF Unsourced, Copying, Sourced
<1>6. \A c \in ChatIds : ~Live(c)
  BY <1>2, <1>3 DEF Live
<1>. QED  BY <1>1, <1>4, <1>5, <1>6 DEF SumInv

LEMMA SumsAlways ==
  ASSUME ~Eager, Imported = {}, ~Rewords \/ ~Condenses
  PROVE  Spec => []SumInv
<1>1. SumInv /\ [Next]_vars => SumInv'
  BY NextKeepsSums
<1>. QED  BY InitSums, <1>1, PTL DEF Spec

-----------------------------------------------------------------------------
\* The turn of a send, where nothing disturbs the service.
LEMMA TurnOf ==
  ASSUME SumInv, Undisturbed, NEW p \in Procs, pc[p] = "send.turn"
  PROVE  /\ Voices /\ CanonInv /\ chatOf(p) \in ChatIds /\ Live(chatOf(p))
         /\ Writes(p, chatOf(p)) /\ Heard(p, chatOf(p)) /\ Summed(chatOf(p))
         /\ loc[p].seq \in Seqs(chatOf(p)) /\ loc[p].seq = MaxSeq(chatOf(p))
<1>1. Voices /\ CanonInv
  BY DEF SumInv, SessionInv, Voices, OneWriter, VariantInv
<1>2. chatOf(p) \in ChatIds
  BY <1>1 DEF CanonInv, LineInv, Shapes, LockedSteps
<1>3. Writes(p, chatOf(p))
  BY DEF Writes, LockedSteps
<1>4. Heard(p, chatOf(p)) /\ Live(chatOf(p))
  BY <1>1, <1>2, <1>3, WriterHears
<1>5. Summed(chatOf(p))
  BY <1>2, <1>4 DEF SumInv
<1>6. loc[p].seq \in Seqs(chatOf(p)) /\ loc[p].seq = MaxSeq(chatOf(p))
  BY <1>1 DEF CanonInv, SendsAtTip, SendAtTip, Unanswered
<1>. QED  BY <1>1, <1>2, <1>3, <1>4, <1>5, <1>6

\* Through the session it resumes.
LEMMA AgentTurn ==
  ASSUME SumInv, Undisturbed, NEW p \in Procs, pc[p] = "send.turn", loc[p].row.api = "agent-sdk"
  PROVE  ModelSees(p) = Shown(chatOf(p))
<1>1. PICK c \in ChatIds : c = chatOf(p)
  BY TurnOf
<1>2. /\ Voices /\ CanonInv /\ Heard(p, c) /\ loc[p].seq \in Seqs(c) /\ loc[p].seq = MaxSeq(c)
  BY <1>1, TurnOf
<1>3. loc[p].row.api = chats[c].api /\ loc[p].row.session = chats[c].session
  BY <1>2 DEF Heard, KnowsRow, ReadsRow
<1>4. Told(loc[p].row.session) = Before(c, loc[p].seq)
  BY <1>2, <1>3 DEF Heard, Speaks, Loose, WillBe, Hand, SidSteps, Due
<1>5. PICK s \in Seqs(c) : s = loc[p].seq /\ s = MaxSeq(c)
  BY <1>2
<1>6. PICK b : b = messages[c][s].body
  OBVIOUS
<1>7. /\ Before(c, s) \in Seq(Nat) /\ b \in Nat
      /\ Before(c, s + 1) = Before(c, s) \o <<b>>
  BY <1>2, <1>6, BeforeStep
<1>8. Texts(c) = Before(c, s) \o <<b>>
  <2>1. MaxSeq(c) \in Nat
    BY <1>2, TipIs DEF CanonInv
  <2>2. PICK n : n = s + 1
    OBVIOUS
  <2>3. n - 1 = MaxSeq(c)
    BY <1>5, <2>1, <2>2
  <2>4. Before(c, n) = Words(messages[c], n - 1)
    BY DEF Before
  <2>5. Before(c, n) = Texts(c)
    BY <2>3, <2>4 DEF Texts
  <2>. QED  BY <1>7, <2>2, <2>5
<1>9. Turn("user", b) \in Frame /\ Turn("user", b).kind = "user" /\ Turn("user", b).says = <<b>>
  BY <1>7, TurnIs DEF Turn
<1>10. FramesOf(loc[p].row.session) \in Seq(Frame)
  BY <1>2, FramesAre DEF CanonInv, TypeOK
<1>11. Said(FramesOf(loc[p].row.session) \o <<Turn("user", b)>>) = Told(loc[p].row.session) \o <<b>>
  BY <1>9, <1>10, SaysOneMore DEF Told
<1>12. UserTurn(p) = Turn("user", b)
  BY <1>1, <1>5, <1>6 DEF UserTurn
<1>13. ModelSees(p) = Texts(c)
  BY <1>4, <1>5, <1>8, <1>11, <1>12 DEF ModelSees
<1>14. Shown(c) = Texts(c)
  BY <1>2, ShownIs DEF CanonInv
<1>. QED  BY <1>1, <1>13, <1>14

\* Through the summary and the turns after its anchor.
LEMMA StatelessTurn ==
  ASSUME SumInv, Undisturbed, NEW p \in Procs, pc[p] = "send.turn", loc[p].row.api # "agent-sdk"
  PROVE  ModelSees(p) = Shown(chatOf(p))
<1>1. PICK c \in ChatIds : c = chatOf(p)
  BY TurnOf
<1>2. /\ Voices /\ CanonInv /\ Writes(p, c) /\ Summed(c) /\ OneWriter
  BY <1>1, TurnOf DEF Voices
<1>3. loc[p].row.summary = chats[c].summary /\ loc[p].row.anchor = chats[c].anchor
  BY <1>2 DEF Summed, SendSteps, Unanswered
<1>4. \A q \in Procs : ~Copying(q, c)
  <2>. SUFFICES ASSUME NEW q \in Procs, Copying(q, c) PROVE FALSE
    OBVIOUS
  <2>1. q # p
    BY DEF Copying
  <2>. QED  BY <1>2, <2>1, Alone, CopierWrites DEF Mine
<1>5. Covers(messages[c], chats[c])
  BY <1>2, <1>4 DEF Summed
<1>6. MaxSeq(c) \in Nat /\ (Seqs(c) # {} => \E first \in {0, 1} : Seqs(c) = first..MaxSeq(c))
  BY <1>2, TipIs DEF CanonInv
<1>7. Shown(c) = Texts(c)
  BY <1>2, ShownIs DEF CanonInv
<1>8. ModelSees(p) = chats[c].summary \o Said(History(c, chats[c].anchor, MaxSeq(c) + 1))
  BY <1>1, <1>3 DEF ModelSees
<1>9. CASE chats[c].anchor = -1
  <2>1. PICK n \in Nat : n = MaxSeq(c) + 1
    BY <1>6
  <2>2. Said(History(c, -1, n)) = Before(c, n)
    BY <1>2, <2>1, HistorySays
  <2>3. n - 1 = MaxSeq(c)
    BY <1>6, <2>1
  <2>4. Said(History(c, -1, n)) = Texts(c)
    BY <2>2, <2>3 DEF Before, Texts
  <2>5. Texts(c) \in Seq(Nat)
    BY <1>2, <1>6, WordsType DEF Texts, CanonInv, TypeOK, MessagesOK
  <2>6. chats[c].summary = <<>>
    BY <1>5, <1>9 DEF Covers
  <2>. QED  BY <1>1, <1>7, <1>8, <1>9, <2>1, <2>4, <2>5, <2>6
<1>10. CASE chats[c].anchor # -1
  <2>1. PICK a : a = chats[c].anchor
    OBVIOUS
  <2>2. a \in {0} \union Seqs(c) /\ chats[c].summary = Words(messages[c], a)
    BY <1>5, <1>10, <2>1 DEF Covers, Seqs
  <2>3. a \in Nat /\ a <= MaxSeq(c)
    BY <1>6, <2>2
  <2>. QED  BY <1>1, <1>2, <1>7, <1>8, <2>1, <2>2, <2>3, HistoryAfter
<1>. QED  BY <1>9, <1>10

(***************************************************************************)
(* While nothing fails and nothing restarts, a send tells the model the    *)
(* canon, all of it and nothing else, over a session or without one        *)
(* (runGeneration of send.ts), for clients that do not act on a chat       *)
(* before its startChat or fork has answered, and where a summary is not   *)
(* followed by a rewriting: swipe, select and edit leave it as it is.      *)
(***************************************************************************)
THEOREM TurnsSeeTheCanon ==
  ASSUME ~Eager, Imported = {}, ~Rewords \/ ~Condenses
  PROVE  Spec => [](Undisturbed => TurnSeesCanon)
<1>1. ASSUME SumInv, Undisturbed PROVE TurnSeesCanon
  BY <1>1, AgentTurn, StatelessTurn DEF TurnSeesCanon
<1>2. SumInv => (Undisturbed => TurnSeesCanon)
  BY <1>1
<1>. QED  BY SumsAlways, <1>2, PTL

(***************************************************************************)
(* Between operations the summary of a chat tells its messages up to the   *)
(* anchor, no more and no fewer (compaction.ts, branch.ts), while nothing  *)
(* fails and nothing restarts: no send, compaction, opening, fork or       *)
(* provider switch leaves a summary that tells of other messages than its  *)
(* chat has.  A rewriting after a compaction would.                        *)
(***************************************************************************)
THEOREM SummariesCoverTheCanon ==
  ASSUME ~Eager, Imported = {}, ~Rewords \/ ~Condenses
  PROVE  Spec => [](Undisturbed => SummaryCoversCanon)
<1>1. ASSUME SumInv, Undisturbed PROVE SummaryCoversCanon
  <2>. SUFFICES ASSUME NEW c \in ChatIds, Live(c), Quiet(c), chats[c].anchor # -1
                PROVE  chats[c].summary = Said(History(c, -1, chats[c].anchor + 1))
    BY DEF SummaryCoversCanon
  <2>1. CanonInv
    BY <1>1 DEF SumInv, SessionInv, OneWriter, VariantInv
  <2>2. \A q \in Procs : ~Copying(q, c)
    BY DEF Quiet, Touches, Copying
  <2>3. Covers(messages[c], chats[c])
    BY <1>1, <2>2 DEF SumInv, Summed
  <2>4. PICK a : a = chats[c].anchor
    OBVIOUS
  <2>5. a \in {0} \union Seqs(c) /\ chats[c].summary = Words(messages[c], a)
    BY <2>3, <2>4 DEF Covers, Seqs
  <2>6. MaxSeq(c) \in Nat /\ (Seqs(c) # {} => \E first \in {0, 1} : Seqs(c) = first..MaxSeq(c))
    BY <2>1, TipIs DEF CanonInv
  <2>7. PICK b \in Nat : b = a + 1 /\ b <= MaxSeq(c) + 1 /\ b - 1 = a
    BY <2>5, <2>6
  <2>8. Said(History(c, -1, b)) = Before(c, b)
    BY <2>1, <2>7, HistorySays
  <2>. QED  BY <2>4, <2>5, <2>7, <2>8 DEF Before
<1>2. SumInv => (Undisturbed => SummaryCoversCanon)
  BY <1>1
<1>. QED  BY SumsAlways, <1>2, PTL

-----------------------------------------------------------------------------
(***************************************************************************)
(* Whose the frames are.                                                   *)
(***************************************************************************)
Belonging(c) == {s \in DOMAIN sessions : sessions[s].chat = c}

\* The sessions a request is to leave or to take along, at each of its steps.
Framed == {"greet.insert", "greet.seed", "open.load", "open.turn", "reseed.seed"} \union Forking
Handing == {"send.reply", "send.persist", "send.update", "swipe.update", "reseed.point",
            "provider.update", "greet.update", "open.reply", "open.insert", "open.update"}
Swapping == {"swipe.reply", "swipe.backfill", "swipe.variant", "swipe.message", "swipe.drop"}
Keeps(p, c) ==
  IF WillBe(p, c) # "agent-sdk" \/ pc[p] \in Framed THEN {}
  ELSE IF pc[p] \in Handing THEN {loc[p].sid}
  ELSE IF pc[p] = "swipe.turn" THEN {chats[c].session, loc[p].seeded}
  ELSE IF pc[p] \in Swapping THEN {chats[c].session, loc[p].seeded, loc[p].sid}
  ELSE {chats[c].session}
Tidy(c) ==
  /\ ~Live(c) => Belonging(c) = {}
  /\ \A p \in Procs : Writes(p, c) => Belonging(c) \subseteq Keeps(p, c)
  /\ (\A p \in Procs : ~Writes(p, c)) =>
       Belonging(c) \subseteq {s \in {chats[c].session} : chats[c].api = "agent-sdk"}
TidyInv == SessionInv /\ (Undisturbed => \A c \in ChatIds : Tidy(c))

-----------------------------------------------------------------------------
(***************************************************************************)
(* What a step leaves to the chat it works on.                             *)
(***************************************************************************)
LEMMA BelongsMore ==
  ASSUME NEW c, NEW d, NEW n, NEW ff, sessions' = Appended(n, d, ff)
  PROVE  Belonging(c)' \subseteq Belonging(c) \union {n}
<1>1. CASE ff = <<>>
  BY <1>1 DEF Appended, Belonging
<1>2. CASE ff # <<>>
  BY <1>2, AppendsFrames DEF Belonging
<1>. QED  BY <1>1, <1>2

LEMMA BelongsLess ==
  ASSUME NEW c, NEW dead, sessions' = DroppedAll(dead)
  PROVE  Belonging(c)' = Belonging(c) \ dead
BY DropsFrames DEF Belonging

LEMMA BelongsStill ==
  ASSUME NEW c, sessions' = sessions
  PROVE  Belonging(c)' = Belonging(c)
BY DEF Belonging

\* The steps at which a chat keeps the session it points at.
Plain == {"idle", "wait", "send.insert", "send.turn", "compact.turn", "compact.persist", "swipe.seed",
          "edit.variant", "reseed.drop", "provider.session", "start.send"}

LEMMA KeepsItsOwn ==
  ASSUME NEW p, NEW c
  PROVE  /\ pc[p] \in Plain => Keeps(p, c) = {s \in {chats[c].session} : chats[c].api = "agent-sdk"}
         /\ pc'[p] \in Plain => Keeps(p, c)' = {s \in {chats'[c].session} : chats'[c].api = "agent-sdk"}
BY DEF Keeps, WillBe, Plain, Framed, Forking, Handing, Swapping

\* From one of these steps to another.
LEMMA PlainOn ==
  ASSUME NEW p, NEW c, Belonging(c) \subseteq Keeps(p, c), pc[p] \in Plain, pc'[p] \in Plain,
         sessions' = sessions, chats'[c].session = chats[c].session, chats'[c].api = chats[c].api
  PROVE  Belonging(c)' \subseteq Keeps(p, c)'
BY KeepsItsOwn, BelongsStill

LEMMA OwnsOn ==
  ASSUME NEW p \in Procs, NEW c \in ChatIds, Ready(p, c), Belonging(c) \subseteq Keeps(p, c),
         \/ BeginSend(p) \/ SendInsert(p) \/ SendThrows(p)
         \/ BeginSwipe(p) \/ BeginCompact(p) \/ CompactNothing(p) \/ (CompactFails(p) /\ UNCHANGED tables)
         \/ BeginProvider(p) \/ SelectVariant(p) \/ EditMessage(p) \/ EditVariant(p)
         \/ StartSend(p) \/ Refuse(p)
  PROVE  Belonging(c)' \subseteq Keeps(p, c)'
<1>0. DOMAIN pc = Procs
  BY ReadyIs DEF Ready
<1>1. CASE BeginSend(p) \/ SendInsert(p) \/ SendThrows(p) \/ BeginSwipe(p) \/ BeginCompact(p)
  BY <1>0, <1>1, PlainOn DEF BeginSend, SendInsert, SendThrows, BeginSwipe, BeginCompact, At, Granted, Leave, tables, Plain
<1>2. CASE CompactNothing(p) \/ (CompactFails(p) /\ UNCHANGED tables) \/ BeginProvider(p) \/ StartSend(p) \/ Refuse(p)
  BY <1>0, <1>2, PlainOn DEF CompactNothing, CompactFails, BeginProvider, StartSend, Refuse, At, Granted, Leave, tables, Plain
<1>3. CASE SelectVariant(p) \/ EditVariant(p)
  BY <1>0, <1>3, PlainOn DEF SelectVariant, EditVariant, ReseedOrLeave, Granted, Leave, Plain
<1>4. CASE EditMessage(p)
  <2>1. pc[p] = "wait" /\ UNCHANGED <<chats, sessions>>
    BY <1>4 DEF EditMessage, Granted
  <2>2. PICK s \in Named(chatOf(p), req[p].msg) :
          IF messages[chatOf(p)][s].active # 0 THEN pc' = [pc EXCEPT ![p] = "edit.variant"]
          ELSE ReseedOrLeave(p, chats[chatOf(p)])
    BY <1>4 DEF EditMessage
  <2>3. pc'[p] \in Plain
    <3>1. CASE messages[chatOf(p)][s].active # 0
      BY <1>0, <2>2, <3>1 DEF Plain
    <3>2. CASE ~(messages[chatOf(p)][s].active # 0)
      BY <1>0, <2>2, <3>2 DEF ReseedOrLeave, Leave, Plain
    <3>. QED  BY <3>1, <3>2
  <2>. QED  BY <2>1, <2>3, PlainOn DEF Plain
<1>. QED  BY <1>1, <1>2, <1>3, <1>4

\* The chat is pointed at what its request has in hand.
LEMMA OwnsRepoints ==
  ASSUME NEW p \in Procs, NEW c \in ChatIds, Ready(p, c), Belonging(c) \subseteq Keeps(p, c),
         \/ SendUpdate(p) \/ SwipeUpdate(p) \/ ReseedPoint(p) \/ GreetUpdate(p) \/ OpenUpdate(p)
         \/ CompactPersist(p) \/ PatchChat(p) \/ ProviderUpdate(p)
  PROVE  Belonging(c)' \subseteq Keeps(p, c)'
<1>0. chatOf(p) = c /\ Live(c) /\ OneWriter /\ HeldInv /\ Heard(p, c)
  BY MineAt DEF Ready, Forking, SendUpdate, SwipeUpdate, ReseedPoint, GreetUpdate, OpenUpdate,
     CompactPersist, PatchChat, ProviderUpdate, At, Granted
<1>1. /\ DOMAIN pc = Procs /\ RequestsOK /\ DOMAIN loc = Procs /\ DOMAIN req = Procs
      /\ DOMAIN chats = ChatIds /\ chats[c] \in ChatRow
  BY <1>0, ReadyIs
<1>2. PICK l \in Locals : l = loc[p]
  BY <1>1 DEF RequestsOK
<1>3. PICK row \in ChatRow : row = chats[c]
  BY <1>1
<1>4. sessions' = sessions
  BY DEF SendUpdate, SwipeUpdate, ReseedPoint, GreetUpdate, OpenUpdate, CompactPersist, PatchChat,
     ProviderUpdate
<1>5. PICK api : api = WillBe(p, c)
  OBVIOUS
<1>6. \E h : /\ chats'[c].session = h /\ chats'[c].api = api /\ pc'[p] \in Plain
             /\ \/ pc[p] \in Handing /\ (api = "agent-sdk" => h = l.sid)
                \/ pc[p] \in Plain /\ h = row.session /\ api = row.api
  <2>1. CASE SendUpdate(p)
    <3>1. l.row.api = row.api /\ pc[p] = "send.update" /\ api = row.api
      BY <1>0, <1>2, <1>3, <1>5, <2>1 DEF Heard, KnowsRow, ReadsRow, SendUpdate, WillBe
    <3>2. \E n, t : chats'[c] = [row EXCEPT !.session = IF row.api = "agent-sdk" THEN l.sid ELSE row.session,
                                           !.count = n, !.total = t]
      BY <1>0, <1>1, <1>2, <1>3, <2>1, <3>1 DEF SendUpdate
    <3>3. /\ chats'[c].session = IF row.api = "agent-sdk" THEN l.sid ELSE row.session
          /\ chats'[c].api = row.api
      BY <3>2 DEF ChatRow
    <3>4. pc'[p] \in Plain
      BY <1>1, <2>1 DEF SendUpdate, Leave, Plain
    <3>. QED  BY <3>1, <3>3, <3>4 DEF Handing
  <2>2. CASE SwipeUpdate(p)
    <3>1. l.row.api = row.api /\ pc[p] = "swipe.update" /\ api = row.api
      BY <1>0, <1>2, <1>3, <1>5, <2>2 DEF Heard, KnowsRow, ReadsRow, SwipeUpdate, WillBe
    <3>2. \E t : chats'[c] = [row EXCEPT !.session = IF row.api = "agent-sdk" THEN l.sid ELSE row.session,
                                        !.total = t]
      BY <1>0, <1>1, <1>2, <1>3, <2>2, <3>1 DEF SwipeUpdate, OnAgentSdk
    <3>3. /\ chats'[c].session = IF row.api = "agent-sdk" THEN l.sid ELSE row.session
          /\ chats'[c].api = row.api
      BY <3>2 DEF ChatRow
    <3>4. pc'[p] \in Plain
      BY <1>1, <2>2 DEF SwipeUpdate, Leave, Plain
    <3>. QED  BY <3>1, <3>3, <3>4 DEF Handing
  <2>3. CASE ReseedPoint(p)
    <3>1. pc[p] = "reseed.point" /\ api = row.api
      BY <1>3, <1>5, <2>3 DEF ReseedPoint, WillBe
    <3>2. chats'[c] = [row EXCEPT !.session = l.sid]
      BY <1>0, <1>1, <1>2, <1>3, <2>3 DEF ReseedPoint
    <3>3. chats'[c].session = l.sid /\ chats'[c].api = row.api
      BY <3>2 DEF ChatRow
    <3>4. pc'[p] \in Plain
      BY <1>1, <2>3 DEF ReseedPoint, Leave, Plain
    <3>. QED  BY <3>1, <3>3, <3>4 DEF Handing
  <2>4. CASE GreetUpdate(p)
    <3>1. row.api = req[p].api /\ pc[p] = "greet.update" /\ api = row.api
      BY <1>0, <1>3, <1>5, <2>4 DEF Heard, KnowsRow, Greeting, GreetUpdate, At, WillBe
    <3>2. chats'[c] = [row EXCEPT !.count = 1,
                                  !.session = IF row.api = "agent-sdk" THEN l.sid ELSE row.session]
      BY <1>0, <1>1, <1>2, <1>3, <2>4, <3>1 DEF GreetUpdate
    <3>3. /\ chats'[c].session = IF row.api = "agent-sdk" THEN l.sid ELSE row.session
          /\ chats'[c].api = row.api
      BY <3>2 DEF ChatRow
    <3>4. pc'[p] \in Plain
      BY <1>1, <2>4 DEF GreetUpdate, At, Plain
    <3>. QED  BY <3>1, <3>3, <3>4 DEF Handing
  <2>5. CASE OpenUpdate(p)
    <3>1. l.row.api = row.api /\ pc[p] = "open.update" /\ api = row.api
      BY <1>0, <1>2, <1>3, <1>5, <2>5 DEF Heard, KnowsRow, ReadsRow, OpenUpdate, WillBe
    <3>2. chats'[c] = [row EXCEPT !.count = 1, !.total = 1,
                                  !.session = IF row.api = "agent-sdk" THEN l.sid ELSE row.session]
      BY <1>0, <1>1, <1>2, <1>3, <2>5, <3>1 DEF OpenUpdate, OnAgentSdk
    <3>3. /\ chats'[c].session = IF row.api = "agent-sdk" THEN l.sid ELSE row.session
          /\ chats'[c].api = row.api
      BY <3>2 DEF ChatRow
    <3>4. pc'[p] \in Plain
      BY <1>1, <2>5 DEF OpenUpdate, Return, Plain
    <3>. QED  BY <3>1, <3>3, <3>4 DEF Handing
  <2>6. CASE CompactPersist(p)
    <3>1. pc[p] = "compact.persist" /\ api = row.api /\ l.sid = row.session
      BY <1>0, <1>2, <1>3, <1>5, <2>6 DEF Heard, KnowsSession, CompactPersist, WillBe
    <3>2. PICK found \in BOOLEAN :
            chats' = [chats EXCEPT
              ![c].session = l.sid,
              ![c].summary = IF found THEN Said(FramesOf(l.sid)) ELSE @,
              ![c].anchor = IF found THEN MaxSeq(c) ELSE @]
      BY <1>0, <1>2, <2>6 DEF CompactPersist
    <3>3. chats'[c].session = l.sid /\ chats'[c].api = row.api
      BY <1>0, <1>1, <1>3, <3>2 DEF ChatRow
    <3>4. pc'[p] \in Plain
      BY <1>1, <2>6 DEF CompactPersist, Leave, Plain
    <3>. QED  BY <3>1, <3>3, <3>4 DEF Plain
  <2>7. CASE PatchChat(p)
    <3>1. pc[p] = "wait" /\ api = row.api
      BY <1>3, <1>5, <2>7 DEF PatchChat, Granted, WillBe
    <3>2. \E s : chats'[c] = [row EXCEPT !.starred = s]
      BY <1>0, <1>1, <1>3, <2>7 DEF PatchChat
    <3>3. chats'[c].session = row.session /\ chats'[c].api = row.api
      BY <3>2 DEF ChatRow
    <3>4. pc'[p] \in Plain
      BY <1>1, <2>7 DEF PatchChat, Leave, Plain
    <3>. QED  BY <3>1, <3>3, <3>4 DEF Plain
  <2>8. CASE ProviderUpdate(p)
    <3>1. api = req[p].api /\ pc[p] = "provider.update"
      BY <1>5, <2>8 DEF WillBe, ProviderUpdate
    <3>2. chats'[c] = [row EXCEPT !.api = api, !.session = l.sid]
      BY <1>0, <1>1, <1>2, <1>3, <2>8, <3>1 DEF ProviderUpdate
    <3>3. chats'[c].session = l.sid /\ chats'[c].api = api
      BY <3>2 DEF ChatRow
    <3>4. pc'[p] \in Plain
      BY <1>1, <2>8 DEF ProviderUpdate, Leave, Plain
    <3>. QED  BY <3>1, <3>3, <3>4 DEF Handing
  <2>. QED  BY <2>1, <2>2, <2>3, <2>4, <2>5, <2>6, <2>7, <2>8
<1>7. PICK h : /\ chats'[c].session = h /\ chats'[c].api = api /\ pc'[p] \in Plain
               /\ \/ pc[p] \in Handing /\ (api = "agent-sdk" => h = l.sid)
                  \/ pc[p] \in Plain /\ h = row.session /\ api = row.api
  BY <1>6
<1>8. Keeps(p, c)' = {s \in {h} : api = "agent-sdk"}
  BY <1>7, KeepsItsOwn
<1>9. CASE pc[p] \in Plain /\ h = row.session /\ api = row.api
  BY <1>3, <1>4, <1>7, <1>9, PlainOn
<1>10. CASE pc[p] \in Handing /\ (api = "agent-sdk" => h = l.sid)
  <2>1. Keeps(p, c) = IF api = "agent-sdk" THEN {l.sid} ELSE {}
    BY <1>2, <1>5, <1>10 DEF Keeps, Framed, Forking, Handing
  <2>. QED  BY <1>4, <1>8, <1>10, <2>1, BelongsStill
<1>. QED  BY <1>7, <1>9, <1>10

-----------------------------------------------------------------------------
\* One session more, or the same with more in it.
LEMMA Takes ==
  ASSUME NEW c, NEW d, NEW n, NEW ff, sessions' = Appended(n, d, ff),
         NEW K, Belonging(c) \subseteq K, n \in K
  PROVE  Belonging(c)' \subseteq K
BY BelongsMore

\* A turn takes its prompt: the session it resumes is its own from now on.
LEMMA OwnsPrompts ==
  ASSUME ~SdkForks, NEW p \in Procs, NEW c \in ChatIds, Ready(p, c), Belonging(c) \subseteq Keeps(p, c),
         SendStart(p) \/ SwipeStart(p) \/ OpenStart(p)
  PROVE  Belonging(c)' \subseteq Keeps(p, c)'
<1>0. chatOf(p) = c /\ Live(c) /\ OneWriter /\ HeldInv /\ Heard(p, c)
  BY MineAt DEF Ready, Forking, SendStart, SwipeStart, OpenStart, StartTurn, At
<1>1. /\ DOMAIN pc = Procs /\ DOMAIN loc = Procs /\ TypeOK /\ RequestsOK
      /\ nextSession \notin DOMAIN sessions /\ 0 \notin DOMAIN sessions
  BY <1>0, ReadyIs
<1>2. PICK l \in Locals : l = loc[p]
  BY <1>1 DEF RequestsOK
<1>3. PICK here \in {"send.turn", "swipe.turn", "open.turn"} : pc[p] = here
  BY DEF SendStart, SwipeStart, OpenStart, StartTurn, At
<1>4. PICK at : at = IF here = "send.turn" THEN "send.reply"
                     ELSE IF here = "swipe.turn" THEN "swipe.reply" ELSE "open.reply"
  OBVIOUS
<1>5. PICK s : s = IF here = "send.turn" THEN l.row.session
                   ELSE IF here = "swipe.turn" THEN l.seeded ELSE 0
  OBVIOUS
<1>6. \E f : StartTurn(p, s, f, here, at)
  BY <1>0, <1>2, <1>3, <1>4, <1>5 DEF SendStart, SwipeStart, OpenStart, StartTurn, At, Tip
<1>7. PICK f : StartTurn(p, s, f, here, at)
  BY <1>6
<1>8. /\ pc'[p] = at /\ chats' = chats
      /\ IF OnAgentSdk(p) THEN Opens(p, s, f) ELSE UNCHANGED <<sessions, loc, nextSession>>
  BY <1>1, <1>7 DEF StartTurn, At
<1>9. l.row.api = chats[c].api /\ l.row.session = chats[c].session
  BY <1>0, <1>2, <1>3 DEF Heard, KnowsRow, ReadsRow, OnTip, Swiping
<1>10. WillBe(p, c) = chats[c].api /\ WillBe(p, c)' = chats[c].api
  BY <1>3, <1>4, <1>8 DEF WillBe
<1>11. CASE chats[c].api # "agent-sdk"
  <2>1. Belonging(c) = {} /\ sessions' = sessions
    BY <1>2, <1>8, <1>9, <1>10, <1>11 DEF Keeps, OnAgentSdk
  <2>. QED  BY <2>1, BelongsStill
<1>12. CASE chats[c].api = "agent-sdk"
  <2>1. Opens(p, s, f)
    BY <1>2, <1>8, <1>9, <1>12 DEF OnAgentSdk
  <2>2. \E n, ff : /\ sessions' = Appended(n, c, ff) /\ loc' = [loc EXCEPT ![p].sid = n]
                   /\ n = s \/ s \notin DOMAIN sessions
    BY <1>0, <2>1 DEF Opens
  <2>3. PICK n, ff : /\ sessions' = Appended(n, c, ff) /\ loc' = [loc EXCEPT ![p].sid = n]
                     /\ n = s \/ s \notin DOMAIN sessions
    BY <2>2
  <2>4. loc'[p] = [l EXCEPT !.sid = n]
    BY <1>1, <1>2, <2>3
  <2>5. loc'[p].sid = n /\ loc'[p].seeded = l.seeded
    BY <2>4 DEF Locals
  <2>6. PICK K : K = IF here = "swipe.turn" THEN {chats[c].session, l.seeded, n} ELSE {n}
    OBVIOUS
  <2>7. Keeps(p, c)' = K
    BY <1>3, <1>4, <1>8, <1>10, <1>12, <2>5, <2>6 DEF Keeps, Framed, Forking, Handing, Swapping
  <2>8. Belonging(c) \subseteq K
    <3>1. CASE here = "swipe.turn"
      BY <1>2, <1>3, <1>10, <1>12, <2>6, <3>1 DEF Keeps, Framed, Forking, Handing
    <3>2. CASE here = "send.turn"
      <4>1. Belonging(c) \subseteq {s}
        BY <1>3, <1>5, <1>9, <3>2, KeepsItsOwn DEF Plain
      <4>. QED  BY <2>3, <2>6, <3>2, <4>1 DEF Belonging
    <3>3. CASE here = "open.turn"
      BY <1>3, <3>3 DEF Keeps, Framed
    <3>. QED  BY <3>1, <3>2, <3>3
  <2>. QED  BY <2>3, <2>6, <2>7, <2>8, Takes
<1>. QED  BY <1>11, <1>12

\* The reply goes to the session in hand, and the rows that are written go nowhere.
LEMMA OwnsReplies ==
  ASSUME NEW p \in Procs, NEW c \in ChatIds, Ready(p, c), Belonging(c) \subseteq Keeps(p, c),
         \/ SendReply(p) \/ SwipeReply(p) \/ OpenReply(p) \/ SendPersist(p) \/ OpenInsert(p)
         \/ SwipeBackfill(p) \/ SwipeVariant(p) \/ SwipeMessage(p)
  PROVE  Belonging(c)' \subseteq Keeps(p, c)'
<1>0. chatOf(p) = c /\ Live(c) /\ OneWriter /\ HeldInv /\ Heard(p, c)
  BY MineAt DEF Ready, Forking, SendReply, SwipeReply, OpenReply, SendPersist, OpenInsert, SwipeBackfill,
     SwipeVariant, SwipeMessage, EndTurn, At
<1>1. DOMAIN pc = Procs /\ DOMAIN loc = Procs /\ RequestsOK
  BY <1>0, ReadyIs
<1>2. PICK l \in Locals : l = loc[p]
  BY <1>1 DEF RequestsOK
<1>3. PICK here : here = pc[p]
  OBVIOUS
<1>4. PICK at : at = pc'[p]
  OBVIOUS
<1>5. /\ chats' = chats
      /\ loc'[p].sid = l.sid /\ loc'[p].seeded = l.seeded
      /\ \/ here \in {"send.reply", "send.persist", "open.reply", "open.insert"}
            /\ at \in {"send.persist", "send.update", "open.insert", "open.update"}
         \/ here \in Swapping /\ at \in Swapping
  <2>1. CASE SendReply(p) \/ SwipeReply(p) \/ OpenReply(p)
    <3>1. /\ chats' = chats /\ loc' = [loc EXCEPT ![p].body = nextBody]
          /\ \/ here \in {"send.reply", "open.reply"} /\ at \in {"send.persist", "open.insert"}
             \/ here = "swipe.reply" /\ at = "swipe.backfill"
      BY <1>1, <1>3, <1>4, <2>1 DEF SendReply, SwipeReply, OpenReply, EndTurn, At
    <3>2. loc'[p] = [l EXCEPT !.body = nextBody]
      BY <1>1, <1>2, <3>1
    <3>3. loc'[p].sid = l.sid /\ loc'[p].seeded = l.seeded
      BY <3>2 DEF Locals
    <3>. QED  BY <3>1, <3>3 DEF Swapping
  <2>2. CASE SendPersist(p)
    BY <1>1, <1>2, <1>3, <1>4, <2>2 DEF SendPersist, At
  <2>3. CASE OpenInsert(p)
    <3>1. CanInsert(c, 1)
      BY <1>0, <2>3 DEF Heard, KnowsTexts, Blank, OpenInsert, CanInsert
    <3>. QED  BY <1>0, <1>1, <1>2, <1>3, <1>4, <2>3, <3>1 DEF OpenInsert
  <2>4. CASE SwipeBackfill(p) \/ SwipeVariant(p)
    BY <1>1, <1>2, <1>3, <1>4, <2>4 DEF SwipeBackfill, SwipeVariant, At, Swapping
  <2>5. CASE SwipeMessage(p)
    BY <1>1, <1>2, <1>3, <1>4, <2>5 DEF SwipeMessage, At, Swapping
  <2>. QED  BY <2>1, <2>2, <2>3, <2>4, <2>5
<1>6. PICK K : K = Keeps(p, c)
  OBVIOUS
<1>7. Keeps(p, c)' = K
  BY <1>2, <1>3, <1>4, <1>5, <1>6 DEF Keeps, WillBe, Framed, Forking, Handing, Swapping
<1>8. CASE sessions' = sessions
  BY <1>6, <1>7, <1>8, BelongsStill
<1>9. CASE sessions' # sessions
  <2>1. /\ SendReply(p) \/ SwipeReply(p) \/ OpenReply(p)
        /\ here \in {"send.reply", "swipe.reply", "open.reply"}
    BY <1>3, <1>9 DEF SendReply, SwipeReply, OpenReply, EndTurn, At, SendPersist, OpenInsert, SwipeBackfill,
       SwipeVariant, SwipeMessage
  <2>2. \E ff : OnAgentSdk(p) /\ sessions' = Appended(l.sid, c, ff)
    BY <1>0, <1>2, <1>9, <2>1 DEF SendReply, SwipeReply, OpenReply, EndTurn
  <2>3. l.row.api = chats[c].api
    BY <1>0, <1>2, <1>3, <2>1 DEF Heard, KnowsRow, ReadsRow, OnTip, Swiping
  <2>4. l.sid \in K
    BY <1>2, <1>3, <1>6, <2>1, <2>2, <2>3 DEF Keeps, WillBe, OnAgentSdk, Framed, Forking, Handing, Swapping
  <2>. QED  BY <1>6, <1>7, <2>2, <2>4, Takes
<1>. QED  BY <1>8, <1>9

-----------------------------------------------------------------------------
\* What a swipe seeds, and what it drops.
LEMMA OwnsSwipes ==
  ASSUME NEW p \in Procs, NEW c \in ChatIds, Ready(p, c), Belonging(c) \subseteq Keeps(p, c),
         SwipeSeed(p) \/ SwipeDrop(p)
  PROVE  Belonging(c)' \subseteq Keeps(p, c)'
<1>0. chatOf(p) = c /\ OneWriter /\ HeldInv /\ Heard(p, c)
  BY MineAt DEF Ready, Forking, SwipeSeed, SwipeDrop, At
<1>1. DOMAIN pc = Procs /\ DOMAIN loc = Procs /\ RequestsOK
  BY <1>0, ReadyIs
<1>2. PICK l \in Locals : l = loc[p]
  BY <1>1 DEF RequestsOK
<1>3. CASE SwipeSeed(p)
  <2>1. pc[p] = "swipe.seed" /\ pc'[p] = "swipe.turn" /\ chats' = chats
    BY <1>1, <1>3 DEF SwipeSeed, At
  <2>2. Belonging(c) \subseteq {s \in {chats[c].session} : chats[c].api = "agent-sdk"}
    BY <2>1, KeepsItsOwn DEF Plain
  <2>3. Keeps(p, c)' = IF chats[c].api = "agent-sdk" THEN {chats[c].session, loc'[p].seeded} ELSE {}
    BY <2>1 DEF Keeps, WillBe, Framed, Forking, Handing
  <2>4. CASE sessions' = sessions
    BY <2>2, <2>3, <2>4, BelongsStill
  <2>5. CASE sessions' # sessions
    <3>1. \E ff : OnAgentSdk(p) /\ sessions' = Appended(nextSession, c, ff)
                  /\ loc' = [loc EXCEPT ![p].seeded = nextSession]
      BY <1>0, <1>3, <2>5 DEF SwipeSeed
    <3>2. loc'[p] = [l EXCEPT !.seeded = nextSession]
      BY <1>1, <1>2, <3>1
    <3>3. loc'[p].seeded = nextSession
      BY <3>2 DEF Locals
    <3>4. loc[p].row.api = chats[c].api
      BY <1>0, <2>1 DEF Heard, KnowsRow, ReadsRow, OnTip, Swiping
    <3>5. PICK K : K = {chats[c].session, nextSession}
      OBVIOUS
    <3>6. Belonging(c) \subseteq K /\ nextSession \in K /\ Keeps(p, c)' = K
      BY <2>2, <2>3, <3>1, <3>3, <3>4, <3>5 DEF OnAgentSdk
    <3>. QED  BY <3>1, <3>6, Takes
  <2>. QED  BY <2>4, <2>5
<1>4. CASE SwipeDrop(p)
  <2>1. pc[p] = "swipe.drop" /\ pc'[p] = "swipe.update" /\ chats' = chats /\ loc' = loc
    BY <1>1, <1>4 DEF SwipeDrop, At
  <2>2. loc[p].row.api = chats[c].api /\ loc[p].row.session = chats[c].session
    BY <1>0, <2>1 DEF Heard, KnowsRow, ReadsRow
  <2>3. CASE chats[c].api # "agent-sdk"
    <3>1. sessions' = sessions /\ Belonging(c) = {}
      BY <1>4, <2>1, <2>2, <2>3 DEF SwipeDrop, OnAgentSdk, Keeps, WillBe
    <3>. QED  BY <3>1, BelongsStill
  <2>4. CASE chats[c].api = "agent-sdk"
    <3>1. PICK dead : dead = {chats[c].session, l.seeded} \ {l.sid} /\ sessions' = DroppedAll(dead)
      BY <1>2, <1>4, <2>2, <2>4 DEF SwipeDrop, OnAgentSdk
    <3>2. Belonging(c) \subseteq {chats[c].session, l.seeded, l.sid}
      BY <1>2, <2>1, <2>4 DEF Keeps, WillBe, Framed, Forking, Handing, Swapping
    <3>3. Keeps(p, c)' = {l.sid}
      BY <1>2, <2>1, <2>4 DEF Keeps, WillBe, Framed, Forking, Handing
    <3>. QED  BY <3>1, <3>2, <3>3, BelongsLess
  <2>. QED  BY <2>3, <2>4
<1>. QED  BY <1>3, <1>4

\* A re-seeding: the old session goes, a fresh one comes.
LEMMA OwnsReseeds ==
  ASSUME NEW p \in Procs, NEW c \in ChatIds, Ready(p, c), Belonging(c) \subseteq Keeps(p, c),
         ReseedDrop(p) \/ ReseedSeed(p) \/ GreetSeed(p)
  PROVE  Belonging(c)' \subseteq Keeps(p, c)'
<1>0. chatOf(p) = c /\ OneWriter /\ HeldInv /\ Heard(p, c)
  BY MineAt DEF Ready, Forking, ReseedDrop, ReseedSeed, GreetSeed, At
<1>1. DOMAIN pc = Procs /\ DOMAIN loc = Procs /\ RequestsOK
  BY <1>0, ReadyIs
<1>2. PICK l \in Locals : l = loc[p]
  BY <1>1 DEF RequestsOK
<1>3. CASE ReseedDrop(p)
  <2>1. pc[p] = "reseed.drop" /\ loc[p].row.session = chats[c].session
    BY <1>0, <1>3 DEF ReseedDrop, At, Heard, KnowsRow, ReadsRow
  <2>2. Belonging(c) \subseteq {chats[c].session}
    BY <2>1, KeepsItsOwn DEF Plain
  <2>3. PICK dead : dead = {chats[c].session} /\ sessions' = DroppedAll(dead)
    BY <1>3, <2>1 DEF ReseedDrop
  <2>. QED  BY <2>2, <2>3, BelongsLess
<1>4. CASE ReseedSeed(p) \/ GreetSeed(p)
  <2>1. /\ pc[p] \in {"reseed.seed", "greet.seed"} /\ pc'[p] \in {"reseed.point", "greet.update"}
        /\ chats' = chats
    BY <1>1, <1>4 DEF ReseedSeed, GreetSeed, SeedFromCanon, At
  <2>2. \E ff : sessions' = Appended(nextSession, c, ff) /\ loc' = [loc EXCEPT ![p].sid = nextSession]
    BY <1>0, <1>4 DEF ReseedSeed, GreetSeed, SeedFromCanon
  <2>3. loc'[p] = [l EXCEPT !.sid = nextSession]
    BY <1>1, <1>2, <2>2
  <2>4. loc'[p].sid = nextSession
    BY <2>3 DEF Locals
  <2>5. chats[c].api = "agent-sdk"
    BY <1>0, <2>1 DEF Heard, KnowsRow, OnAgent
  <2>6. Belonging(c) = {}
    BY <2>1 DEF Keeps, Framed
  <2>7. PICK K : K = {nextSession}
    OBVIOUS
  <2>8. Keeps(p, c)' = K
    BY <2>1, <2>4, <2>5, <2>7 DEF Keeps, WillBe, Framed, Forking, Handing
  <2>. QED  BY <2>2, <2>6, <2>7, <2>8, Takes
<1>. QED  BY <1>3, <1>4

\* A chat that has no frames yet.
LEMMA OwnsNothing ==
  ASSUME NEW p \in Procs, NEW c \in ChatIds, Ready(p, c), Belonging(c) \subseteq Keeps(p, c),
         GreetInsert(p) \/ OpenLoad(p) \/ ForkMessages(p)
  PROVE  Belonging(c)' \subseteq Keeps(p, c)'
<1>1. pc[p] \in {"greet.insert", "open.load", "fork.messages"} /\ sessions' = sessions
  BY DEF GreetInsert, OpenLoad, ForkMessages, tables
<1>2. Belonging(c) = {}
  BY <1>1 DEF Keeps, Framed, Forking
<1>. QED  BY <1>1, <1>2, BelongsStill

LEMMA OwnsForks ==
  ASSUME NEW p \in Procs, NEW c \in ChatIds, Ready(p, c), Belonging(c) \subseteq Keeps(p, c), ForkSeed(p)
  PROVE  Belonging(c)' \subseteq Keeps(p, c)'
<1>0. /\ pc[p] = "fork.seed" /\ req[p].target = c /\ Live(c) /\ OneWriter /\ HeldInv /\ Heard(p, c)
  BY MineAt DEF Ready, Forking, ForkSeed
<1>1. DOMAIN pc = Procs
  BY <1>0, ReadyIs
<1>2. pc'[p] = "idle" /\ chats' = chats
  BY <1>1 DEF ForkSeed, Return
<1>3. Belonging(c) = {}
  BY <1>0 DEF Keeps, Framed, Forking
<1>4. chats[c].api = req[p].api /\ (req[p].api = "agent-sdk" => loc[p].sid = chats[c].session)
  BY <1>0 DEF Heard, KnowsRow, KnowsSession, Forking
<1>5. PICK n : n = chats[c].session
  OBVIOUS
<1>6. Keeps(p, c)' = {s \in {n} : chats[c].api = "agent-sdk"}
  BY <1>2, <1>5, KeepsItsOwn DEF Plain
<1>7. CASE req[p].api = "agent-sdk"
  <2>1. \E ff : sessions' = Appended(n, c, ff)
    BY <1>0, <1>4, <1>5, <1>7 DEF ForkSeed
  <2>2. n \in Keeps(p, c)'
    BY <1>4, <1>6, <1>7
  <2>3. PICK ff : sessions' = Appended(n, c, ff)
    BY <2>1
  <2>4. Belonging(c)' \subseteq Belonging(c) \union {n}
    BY <2>3, BelongsMore
  <2>. QED  BY <1>3, <2>2, <2>4
<1>8. CASE req[p].api # "agent-sdk"
  BY <1>3, <1>8, BelongsStill DEF ForkSeed
<1>. QED  BY <1>7, <1>8

LEMMA OwnsCompacts ==
  ASSUME NEW p \in Procs, NEW c \in ChatIds, Ready(p, c), Belonging(c) \subseteq Keeps(p, c), CompactTurn(p)
  PROVE  Belonging(c)' \subseteq Keeps(p, c)'
<1>0. pc[p] = "compact.turn" /\ chatOf(p) = c /\ OneWriter /\ HeldInv /\ Heard(p, c)
  BY MineAt DEF Ready, Forking, CompactTurn, At
<1>1. DOMAIN pc = Procs
  BY <1>0, ReadyIs
<1>2. pc'[p] = "compact.persist" /\ chats' = chats
  BY <1>1 DEF CompactTurn, At
<1>3. chats[c].api = "agent-sdk" /\ loc[p].sid = chats[c].session
  BY <1>0 DEF Heard, KnowsRow, KnowsSession, OnAgent
<1>4. PICK n : n = chats[c].session
  OBVIOUS
<1>5. Belonging(c) \subseteq {n} /\ Keeps(p, c)' = {n}
  BY <1>0, <1>2, <1>3, <1>4, KeepsItsOwn DEF Plain
<1>6. \E ff : sessions' = Appended(n, c, ff)
  BY <1>0, <1>3, <1>4 DEF CompactTurn
<1>7. PICK K : K = {n}
  OBVIOUS
<1>8. Belonging(c) \subseteq K /\ n \in K /\ Keeps(p, c)' = K
  BY <1>5, <1>7
<1>. QED  BY <1>6, <1>8, Takes

\* Leaving agent-sdk drops the session, entering it makes one.
LEMMA OwnsSwitches ==
  ASSUME NEW p \in Procs, NEW c \in ChatIds, Ready(p, c), Belonging(c) \subseteq Keeps(p, c),
         ProviderSession(p)
  PROVE  Belonging(c)' \subseteq Keeps(p, c)'
<1>0. pc[p] = "provider.session" /\ chatOf(p) = c /\ OneWriter /\ HeldInv /\ Heard(p, c)
  BY MineAt DEF Ready, Forking, ProviderSession
<1>1. DOMAIN pc = Procs /\ DOMAIN loc = Procs /\ RequestsOK
  BY <1>0, ReadyIs
<1>2. PICK l \in Locals : l = loc[p]
  BY <1>1 DEF RequestsOK
<1>3. pc'[p] = "provider.update" /\ req' = req
  BY <1>1 DEF ProviderSession, SeedFromCanon
<1>4. /\ l.row.api = chats[c].api /\ l.row.session = chats[c].session /\ l.sid = chats[c].session
  BY <1>0, <1>2 DEF Heard, KnowsRow, ReadsRow, KnowsSession
<1>5. Belonging(c) \subseteq {s \in {chats[c].session} : chats[c].api = "agent-sdk"}
  BY <1>0, KeepsItsOwn DEF Plain
<1>6. Keeps(p, c)' = IF req[p].api = "agent-sdk" THEN {loc'[p].sid} ELSE {}
  BY <1>3 DEF Keeps, WillBe, Framed, Forking, Handing
<1>7. CASE Leaving(p)
  <2>1. PICK dead : dead = {chats[c].session} /\ sessions' = DroppedAll(dead)
    BY <1>2, <1>4, <1>7 DEF ProviderSession, Leaving, Entering
  <2>. QED  BY <1>5, <2>1, BelongsLess
<1>8. CASE Entering(p)
  <2>1. \E ff : sessions' = Appended(nextSession, c, ff) /\ loc' = [loc EXCEPT ![p].sid = nextSession]
    BY <1>0, <1>8 DEF ProviderSession, SeedFromCanon, Leaving, Entering
  <2>2. loc'[p] = [l EXCEPT !.sid = nextSession]
    BY <1>1, <1>2, <2>1
  <2>3. loc'[p].sid = nextSession
    BY <2>2 DEF Locals
  <2>4. PICK K : K = {nextSession}
    OBVIOUS
  <2>5. Belonging(c) \subseteq K /\ nextSession \in K /\ Keeps(p, c)' = K
    BY <1>2, <1>4, <1>5, <1>6, <1>8, <2>3, <2>4 DEF Entering
  <2>. QED  BY <2>1, <2>5, Takes
<1>9. CASE ~Leaving(p) /\ ~Entering(p)
  <2>1. sessions' = sessions /\ loc' = loc
    BY <1>9 DEF ProviderSession
  <2>2. Belonging(c) \subseteq Keeps(p, c)'
    BY <1>2, <1>4, <1>5, <1>6, <1>9, <2>1 DEF Leaving, Entering
  <2>. QED  BY <2>1, <2>2, BelongsStill
<1>. QED  BY <1>7, <1>8, <1>9

-----------------------------------------------------------------------------
\* A step of the request that is at work on a chat.
LEMMA OwnsStep ==
  ASSUME ~SdkForks, UsedOK, NEW p \in Procs, NEW c \in ChatIds, Ready(p, c), Step(p), Live(c)',
         Undisturbed', Belonging(c) \subseteq Keeps(p, c)
  PROVE  Belonging(c)' \subseteq Keeps(p, c)'
<1>0. Live(c) /\ Mine(p, c) /\ OneWriter /\ HeldInv /\ Heard(p, c)
  BY DEF Ready
<1>1. pc[p] \notin {"start.row", "fork.load", "fork.read", "fork.row", "send.rollback", "swipe.abandon"}
  BY <1>0 DEF Mine, Writes, Builds, Greeting, OpenSteps, LockedSteps, Heard, KnowsRow
<1>2. /\ ~SendFails(p) /\ ~SwipeFails(p) /\ ~Deny(p) /\ ~GreetThrows(p) /\ ~DeleteChat(p)
      /\ ~OpenFails(p) /\ (CompactFails(p) => UNCHANGED tables)
  BY <1>0, NothingFails
<1>3. CASE SendStep(p)
  BY <1>1, <1>2, <1>3, OwnsOn, OwnsPrompts, OwnsReplies, OwnsRepoints DEF SendStep, SendRollback
<1>4. CASE BeginCompact(p) \/ CompactNothing(p) \/ CompactStep(p)
  BY <1>2, <1>4, OwnsOn, OwnsCompacts, OwnsRepoints DEF CompactStep
<1>5. CASE SwipeStep(p)
  BY <1>1, <1>2, <1>5, OwnsOn, OwnsSwipes, OwnsPrompts, OwnsReplies, OwnsRepoints DEF SwipeStep, SwipeAbandon
<1>6. CASE SelectVariant(p) \/ ReseedStep(p)
  BY <1>6, OwnsOn, OwnsReseeds, OwnsRepoints DEF ReseedStep
<1>7. CASE StartStep(p)
  BY <1>1, <1>2, <1>7, OwnsOn, OwnsNothing, OwnsReseeds, OwnsRepoints, OwnsPrompts, OwnsReplies
  DEF StartStep, StartRow
<1>8. CASE EditStep(p)
  BY <1>2, <1>8, OwnsOn, OwnsRepoints DEF EditStep
<1>9. CASE BranchStep(p)
  BY <1>1, <1>9, OwnsOn, OwnsNothing, OwnsForks, OwnsSwitches, OwnsRepoints
  DEF BranchStep, ForkLoad, ForkRead, ForkRow, At
<1>10. CASE Refuse(p)
  BY <1>10, OwnsOn
<1>. QED  BY <1>2, <1>3, <1>4, <1>5, <1>6, <1>7, <1>8, <1>9, <1>10 DEF Step

\* Before a request writes it changes no session, but that a deletion drops some.
LEMMA EarlySessions ==
  ASSUME NEW p \in Procs, Step(p), pc[p] \in Early \ {"swipe.seed"}
  PROVE  sessions' = sessions \/ DeleteChat(p)
BY SessionsWriters DEF Early, SendStart, SendReply, CompactTurn, SwipeSeed, SwipeStart, SwipeReply,
   SwipeAbandon, SwipeDrop, ReseedDrop, ReseedSeed, GreetSeed, OpenStart, OpenReply, ForkSeed,
   ProviderSession, StartTurn, EndTurn, At

\* A chat that the step does not write gets no session.
LEMMA OthersBelong ==
  ASSUME Voices, NEW p \in Procs, Step(p), NEW c \in ChatIds, ~Mine(p, c)
  PROVE  Belonging(c)' \subseteq Belonging(c)
<1>0. OneWriter /\ HeldInv /\ CanonInv
  BY DEF Voices, OneWriter, VariantInv
<1>1. CASE c = Place(p)
  <2>1. pc[p] \in Early
    BY <1>0, <1>1, PlaceWritten DEF Mine
  <2>2. pc[p] # "swipe.seed"
    BY <1>1 DEF Mine, Writes, LockedSteps, Place, Forking
  <2>3. ~DeleteChat(p)
    BY <1>1 DEF DeleteChat, Granted, Mine, Place, Forking
  <2>. QED  BY <2>1, <2>2, <2>3, EarlySessions, BelongsStill
<1>2. CASE c # Place(p)
  <2>1. PICK d : d = Place(p)
    OBVIOUS
  <2>2. SessionsMove(d)
    BY <1>0, <2>1, PlaceHears, SessionsGo
  <2>3. ASSUME NEW s \in Belonging(c)' PROVE s \in Belonging(c)
    <3>1. s \in DOMAIN sessions' /\ sessions'[s].chat = c
      BY <2>3 DEF Belonging
    <3>2. SessionMove(d, s)
      BY <2>2 DEF SessionsMove
    <3>3. SameSession(s)
      BY <1>2, <2>1, <3>1, <3>2 DEF SessionMove
    <3>. QED  BY <3>1, <3>3 DEF SameSession, Belonging
  <2>. QED  BY <2>3
<1>. QED  BY <1>1, <1>2

LEMMA StepTidies ==
  ASSUME ~SdkForks, Voices, Undisturbed', NEW p \in Procs, Step(p), NEW c \in ChatIds, Tidy(c)
  PROVE  Tidy(c)'
<1>0. OneWriter /\ HeldInv /\ CanonInv /\ UsedOK
  BY DEF Voices, OneWriter, VariantInv
<1>1. CASE Mine(p, c) /\ Live(c) /\ Live(c)'
  <2>1. ASSUME NEW q \in Procs \ {p} PROVE ~Writes(q, c) /\ ~Writes(q, c)'
    BY <1>0, <1>1, <2>1, Alone, OthersWrite
  <2>2. Belonging(c) \subseteq Keeps(p, c) /\ Heard(p, c)
    <3>1. CASE Writes(p, c)
      BY <3>1, WriterHears DEF Tidy
    <3>2. CASE ~Writes(p, c)
      <4>1. pc[p] = "wait" /\ \A q \in Procs : ~Writes(q, c)
        BY <1>1, <2>1, <3>2 DEF Mine
      <4>2. Belonging(c) \subseteq Keeps(p, c)
        BY <4>1, KeepsItsOwn DEF Tidy, Plain
      <4>3. Stable(c) /\ NoneHere(c)
        BY <1>1, <4>1 DEF Voices, Voiced
      <4>4. KnowsRow(p, c)
        BY <4>1 DEF KnowsRow, ReadsRow, OnTip, Swiping, OnAgent, Greeting, Forking
      <4>5. KnowsSession(p, c) /\ KnowsTexts(p, c)
        BY <4>1 DEF KnowsSession, KnowsTexts, Forking, Blank, OnTip, Swiping
      <4>6. Speaks(p, c)
        BY <4>1, <4>3 DEF Speaks, WillBe, Hand, SidSteps, Due, Stable
      <4>. QED  BY <4>2, <4>3, <4>4, <4>5, <4>6 DEF Heard
    <3>. QED  BY <3>1, <3>2
  <2>3. Belonging(c)' \subseteq Keeps(p, c)'
    BY <1>0, <1>1, <2>2, OwnsStep DEF Ready
  <2>4. Writes(p, c)' \/ pc'[p] \in {"idle", "wait"}
    BY <1>0, <1>1, AfterWrites
  <2>5. pc'[p] \in {"idle", "wait"} =>
          Belonging(c)' \subseteq {s \in {chats'[c].session} : chats'[c].api = "agent-sdk"}
    BY <2>3, KeepsItsOwn DEF Plain
  <2>. QED  BY <1>1, <2>1, <2>3, <2>4, <2>5 DEF Tidy
<1>2. CASE ~Mine(p, c) /\ Live(c) /\ Live(c)'
  <2>1. chats'[c] = chats[c] /\ ~Writes(p, c)'
    BY <1>0, <1>2, PlaceHears, Elsewhere
  <2>2. Belonging(c)' \subseteq Belonging(c)
    BY <1>2, OthersBelong
  <2>3. ASSUME NEW q \in Procs, Writes(q, c)' PROVE Belonging(c)' \subseteq Keeps(q, c)'
    <3>1. q # p /\ Writes(q, c)
      BY <1>0, <2>1, <2>3, OthersWrite
    <3>2. pc'[q] = pc[q] /\ req'[q] = req[q] /\ loc'[q] = loc[q]
      BY <1>0, <3>1, OthersStay
    <3>3. Keeps(q, c)' = Keeps(q, c)
      BY <2>1, <3>2 DEF Keeps, WillBe
    <3>. QED  BY <2>2, <3>1, <3>3 DEF Tidy
  <2>4. (\A q \in Procs : ~Writes(q, c)') => \A q \in Procs : ~Writes(q, c)
    BY <1>0, <1>2, OthersWrite DEF Mine
  <2>. QED  BY <1>2, <2>1, <2>2, <2>3, <2>4 DEF Tidy
<1>3. CASE ~Live(c) /\ Live(c)'
  <2>1. StartRow(p) \/ ForkRow(p)
    BY <1>0, <1>3, StatusStep DEF Live
  <2>2. Belonging(c)' = {}
    BY <1>3, <2>1, BelongsStill DEF Tidy, StartRow, ForkRow
  <2>. QED  BY <1>3, <2>2 DEF Tidy
<1>4. CASE ~Live(c)'
  <2>1. Belonging(c)' = {}
    <3>1. CASE Live(c)
      <4>1. DeleteChat(p) /\ c = chatOf(p)
        BY <1>0, <1>4, <3>1, StatusStep DEF Live
      <4>2. sessions' = DroppedAll(Belonging(c))
        BY <4>1 DEF DeleteChat, Belonging
      <4>3. PICK dead : dead = Belonging(c) /\ sessions' = DroppedAll(dead)
        BY <4>2
      <4>. QED  BY <4>3, BelongsLess
    <3>2. CASE ~Live(c)
      <4>1. Belonging(c) = {}
        BY <3>2 DEF Tidy
      <4>2. CASE ~Mine(p, c)
        BY <4>1, <4>2, OthersBelong
      <4>3. CASE Mine(p, c)
        <5>1. ~Writes(p, c)
          BY <3>2, WriterHears
        <5>2. pc[p] = "wait" /\ chatOf(p) = c
          BY <4>3, <5>1 DEF Mine
        <5>3. ~DeleteChat(p)
          BY <3>2, <5>2 DEF DeleteChat
        <5>. QED  BY <4>1, <5>2, <5>3, EarlySessions, BelongsStill DEF Early
      <4>. QED  BY <4>2, <4>3
    <3>. QED  BY <3>1, <3>2
  <2>. QED  BY <2>1 DEF Tidy
<1>. QED  BY <1>1, <1>2, <1>3, <1>4

-----------------------------------------------------------------------------
\* Who writes the same chats with the same things in hand owes them the same.
LEMMA TidyStays ==
  ASSUME NEW c \in ChatIds, Tidy(c), UNCHANGED <<chats, sessions, loc>>,
         \A q \in Procs : Writes(q, c)' <=> Writes(q, c),
         \A q \in Procs : Writes(q, c) => pc'[q] = pc[q] /\ req'[q] = req[q]
  PROVE  Tidy(c)'
<1>1. Belonging(c)' = Belonging(c) /\ (Live(c)' <=> Live(c))
  BY BelongsStill DEF Live
<1>2. ASSUME NEW q \in Procs, Writes(q, c) PROVE Keeps(q, c)' = Keeps(q, c)
  BY <1>2 DEF Keeps, WillBe
<1>. QED  BY <1>1, <1>2 DEF Tidy

LEMMA CallTidies ==
  ASSUME OneWriter, NEW p \in Procs, Call(p), NEW c \in ChatIds, Tidy(c)
  PROVE  Tidy(c)'
<1>0. DOMAIN pc = Procs /\ DOMAIN req = Procs
  BY DEF OneWriter, VariantInv, CanonInv, LineInv, Shapes, TypeOK, RequestsOK
<1>1. PICK r : \E there \in {"wait", "start.row", "fork.load"} : Arriving(p, r, there)
  BY CallForms DEF OneWriter, VariantInv
<1>2. PICK there \in {"wait", "start.row", "fork.load"} : Arriving(p, r, there)
  BY <1>1
<1>3. /\ UNCHANGED <<chats, sessions, loc>> /\ pc[p] = "idle"
      /\ pc' = [pc EXCEPT ![p] = there] /\ req' = [req EXCEPT ![p] = r]
  BY <1>2 DEF Arriving, Arrives, tables, ids
<1>4. pc'[p] = there /\ \A q \in Procs \ {p} : pc'[q] = pc[q] /\ req'[q] = req[q]
  BY <1>0, <1>3
<1>5. ~Writes(p, c) /\ ~Writes(p, c)'
  BY <1>3, <1>4 DEF Writes, Builds, Greeting, OpenSteps, LockedSteps
<1>6. ASSUME NEW q \in Procs PROVE Writes(q, c)' <=> Writes(q, c)
  BY <1>4, <1>5 DEF Writes, Builds, chatOf
<1>. QED  BY <1>3, <1>4, <1>5, <1>6, TidyStays

LEMMA NextTidies ==
  ASSUME ~Eager, ~SdkForks, TidyInv, [Next]_vars
  PROVE  TidyInv'
<1>1. SessionInv /\ SessionInv' /\ OneWriter /\ UsedOK
  BY NextKeepsVoice DEF TidyInv, SessionInv, OneWriter, VariantInv
<1>2. /\ used'.crashes = 0 => used.crashes = 0
      /\ used'.failures = 0 => used.failures = 0
      /\ Restart => used'.crashes # 0
  BY <1>1, UsedStep
<1>3. ASSUME Undisturbed', NEW c \in ChatIds PROVE Tidy(c)'
  <2>1. Undisturbed /\ ~Restart
    BY <1>2, <1>3 DEF Undisturbed
  <2>2. Voices
    BY <1>1, <2>1 DEF SessionInv, Voices
  <2>3. Tidy(c)
    BY <2>1 DEF TidyInv
  <2>4. ASSUME NEW p \in Procs, Step(p) PROVE Tidy(c)'
    BY <1>3, <2>2, <2>3, <2>4, StepTidies
  <2>5. ASSUME NEW p \in Procs, Call(p) PROVE Tidy(c)'
    BY <1>1, <2>3, <2>5, CallTidies
  <2>6. CASE UNCHANGED vars
    <3>1. UNCHANGED <<chats, sessions, pc, req, loc>>
      BY <2>6 DEF vars, storeVars
    <3>2. ASSUME NEW q \in Procs PROVE Writes(q, c)' <=> Writes(q, c)
      BY <3>1 DEF Writes, Builds, chatOf
    <3>. QED  BY <2>3, <3>1, <3>2, TidyStays
  <2>. QED  BY <2>1, <2>4, <2>5, <2>6 DEF Next
<1>. QED  BY <1>1, <1>3 DEF TidyInv

LEMMA InitTidy ==
  ASSUME Imported = {}
  PROVE  Init => TidyInv
<1>. SUFFICES ASSUME Init PROVE TidyInv
  OBVIOUS
<1>1. SessionInv
  BY InitVoice
<1>2. DOMAIN sessions = {}
  BY DEF Init
<1>3. \A c \in ChatIds : Belonging(c) = {}
  BY <1>2 DEF Belonging
<1>. QED  BY <1>1, <1>3 DEF TidyInv, Tidy

LEMMA TidyAlways ==
  ASSUME ~Eager, Imported = {}, ~SdkForks
  PROVE  Spec => []TidyInv
<1>1. TidyInv /\ [Next]_vars => TidyInv'
  BY NextTidies
<1>. QED  BY InitTidy, <1>1, PTL DEF Spec

LEMMA QuietIsUnwritten ==
  ASSUME NEW c, Quiet(c), NEW p \in Procs
  PROVE  ~Writes(p, c)
BY DEF Quiet, Touches, Writes, Builds, LockedSteps, Greeting, OpenSteps, chatOf

\* A session says the canon of its chat, and a chat on openrouter has none (chat.sessionId
\* of send.ts, swipe.ts, branch.ts).
SessionsMirror ==
  /\ \A c \in ChatIds : Live(c) /\ Quiet(c) => Mirrors(c)
  /\ \A c \in ChatIds : Live(c) => NoneOnOpenRouter(c)

(***************************************************************************)
(* Between operations the session of a chat says what its canon says: a    *)
(* send, a swipe, an edit, a selection, a compaction, an opening, a fork   *)
(* and a provider switch all leave it so (send.ts, swipe.ts, lifecycle.ts, *)
(* compaction.ts, branch.ts); a chat on openrouter has no session.  While  *)
(* nothing fails and nothing restarts, for clients that do not act on a    *)
(* chat before its startChat or fork has answered.                         *)
(***************************************************************************)
THEOREM SessionsMirrorAlways ==
  ASSUME ~Eager, Imported = {}
  PROVE  Spec => [](Undisturbed => SessionsMirror)
<1>1. ASSUME SessionInv, Undisturbed PROVE SessionsMirror
  <2>1. OneWriter /\ CanonInv /\ \A c \in ChatIds : Live(c) => Voiced(c)
    BY <1>1 DEF SessionInv, OneWriter, VariantInv
  <2>2. ASSUME NEW c \in ChatIds, Live(c) PROVE NoneOnOpenRouter(c)
    BY <2>1, <2>2 DEF Voiced, NoneHere, NoneOnOpenRouter
  <2>3. ASSUME NEW c \in ChatIds, Live(c), Quiet(c) PROVE Mirrors(c)
    <3>1. Stable(c) /\ NoneHere(c)
      BY <2>1, <2>3, QuietIsUnwritten DEF Voiced
    <3>2. chats[c].api \in {"agent-sdk", "openrouter"}
      BY <2>1 DEF CanonInv, TypeOK, ChatsOK, ChatRow, Apis
    <3>3. Shown(c) = Texts(c)
      BY <2>1, ShownIs DEF CanonInv
    <3>. QED  BY <3>1, <3>2, <3>3 DEF Mirrors, Stable, NoneHere, Told
  <2>. QED  BY <2>2, <2>3 DEF SessionsMirror
<1>2. SessionInv => (Undisturbed => SessionsMirror)
  BY <1>1
<1>. QED  BY VoiceAlways, <1>2, PTL

(***************************************************************************)
(* And no frames are left behind: every session that has any belongs to a  *)
(* chat or is in the hands of an operation in flight, when the SDK goes on *)
(* in the session it resumes.                                              *)
(***************************************************************************)
THEOREM SessionsMirrorTheCanon ==
  ASSUME ~Eager, Imported = {}, ~SdkForks
  PROVE  Spec => [](Undisturbed => SessionMirrorsCanon)
<1>1. ASSUME TidyInv, Undisturbed PROVE \A s \in DOMAIN sessions : Owned(s)
  <2>. SUFFICES ASSUME NEW s \in DOMAIN sessions PROVE Owned(s)
    OBVIOUS
  <2>1. PICK c \in ChatIds : c = sessions[s].chat
    BY <1>1 DEF TidyInv, SessionInv, OneWriter, VariantInv, CanonInv, TypeOK, SessionsOK
  <2>2. Tidy(c) /\ s \in Belonging(c)
    BY <1>1, <2>1 DEF TidyInv, Belonging
  <2>3. CASE \A p \in Procs : ~Writes(p, c)
    BY <2>2, <2>3 DEF Tidy, Owned
  <2>4. ASSUME NEW p \in Procs, Writes(p, c) PROVE Owned(s)
    <3>1. s \in Keeps(p, c)
      BY <2>2, <2>4 DEF Tidy
    <3>2. s \in {chats[c].session, loc[p].sid, loc[p].seeded}
      BY <3>1 DEF Keeps
    <3>. QED  BY <3>2 DEF Owned
  <2>. QED  BY <2>3, <2>4
<1>2. TidyInv => (Undisturbed => \A s \in DOMAIN sessions : Owned(s))
  BY <1>1
<1>3. SessionsMirror /\ (\A s \in DOMAIN sessions : Owned(s)) => SessionMirrorsCanon
  BY DEF SessionsMirror, SessionMirrorsCanon
<1>. QED  BY SessionsMirrorAlways, TidyAlways, <1>2, <1>3, PTL
=============================================================================
