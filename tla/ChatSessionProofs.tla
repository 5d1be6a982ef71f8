-------------------------- MODULE ChatSessionProofs --------------------------
(***************************************************************************)
(* What the sessions of the chats say, for any chats, any requests and any *)
(* bounds: the inductive invariant of the steps that read and write the    *)
(* session of a chat, and that it holds of every step of the service while *)
(* nothing fails and nothing restarts.                                     *)
(***************************************************************************)
EXTENDS ChatRecordsProofs

(***************************************************************************)
(* What the client of a chat sees and what the database answers on, where  *)
(* no message is rewritten (no swipe, select or edit).                     *)
(***************************************************************************)
-----------------------------------------------------------------------------
(***************************************************************************)
(* Laws of FlattenSeq and Said: one element more.                          *)
(***************************************************************************)
LEMMA FlatIs ==
  ASSUME NEW T, NEW ss \in Seq(Seq(T)), ss # <<>>
  PROVE  \E g : IsFlat(g, ss, Len(ss)) /\ Lists!FlattenSeq(ss) = g[Len(ss)]
<1>. DEFINE f[i \in 1..Len(ss)] == IF i = 1 THEN ss[i] ELSE f[i - 1] \o ss[i]
<1>1. Len(ss) \in Nat /\ Len(ss) # 0 /\ Len(ss) \in 1..Len(ss)
  OBVIOUS
<1>2. PICK g \in [1..Len(ss) -> Seq(T)] : IsFlat(g, ss, Len(ss))
  BY <1>1, FlatExists
<1>3. f = CHOOSE h : IsFlat(h, ss, Len(ss))
  BY DEF IsFlat
<1>4. IsFlat(f, ss, Len(ss))
  BY <1>2, <1>3
<1>5. Lists!FlattenSeq(ss) = f[Len(ss)]
  BY <1>1 DEF Lists!FlattenSeq
<1>. HIDE DEF f
<1>6. f[Len(ss)] = g[Len(ss)]
  BY <1>1, <1>2, <1>4, FlatUnique
<1>. QED  BY <1>1, <1>2, <1>5, <1>6

\* The recursions at one index.
LEMMA FlatAt ==
  ASSUME NEW g, NEW ss, NEW n \in Nat, IsFlat(g, ss, n), NEW i \in 1..n
  PROVE  g[i] = IF i = 1 THEN ss[i] ELSE g[i - 1] \o ss[i]
BY DEF IsFlat

LEMMA ToldAt ==
  ASSUME NEW g, NEW ff, NEW n \in Nat, IsTold(g, ff, n), NEW i \in 0..n
  PROVE  g[i] = IF i = 0 THEN <<>>
                ELSE IF ff[i].kind = "summary" THEN ff[i].says
                ELSE g[i - 1] \o ff[i].says
BY DEF IsTold

LEMMA FlatGrows ==
  ASSUME NEW T, NEW ss, NEW x
  PROVE  ss \in Seq(Seq(T)) /\ x \in Seq(T)
           => Lists!FlattenSeq(Append(ss, x)) = Lists!FlattenSeq(ss) \o x
<1>1. CASE ss \in Seq(Seq(T)) /\ x \in Seq(T)
  <2>1. PICK n \in Nat : n = Len(ss)
    BY <1>1
  <2>2. PICK m \in Nat : m = n + 1
    OBVIOUS
  <2>3. PICK tt : tt = Append(ss, x)
    OBVIOUS
  <2>4. tt \in Seq(Seq(T)) /\ Len(tt) = m /\ tt[m] = x /\ \A i \in 1..n : ss[i] = tt[i]
    BY <1>1, <2>1, <2>2, <2>3, AppendProperties
  <2>5. PICK g : IsFlat(g, tt, m) /\ Lists!FlattenSeq(tt) = g[m]
    <3>1. tt # <<>>
      BY <1>1, <2>3, AppendProperties
    <3>. QED  BY <2>4, <3>1, FlatIs
  <2>6. CASE ss = <<>>
    <3>1. m \in 1..m /\ m = 1
      BY <2>1, <2>2, <2>6
    <3>2. g[m] = IF m = 1 THEN tt[m] ELSE g[m - 1] \o tt[m]
      BY <2>5, <3>1, FlatAt
    <3>3. Lists!FlattenSeq(ss) = <<>>
      BY <2>6 DEF Lists!FlattenSeq
    <3>4. <<>> \o x = x
      BY <1>1
    <3>. QED  BY <2>3, <2>4, <2>5, <3>1, <3>2, <3>3, <3>4
  <2>7. CASE ss # <<>>
    <3>1. n # 0
      BY <1>1, <2>1, <2>7, EmptySeq
    <3>2. PICK f : IsFlat(f, ss, n) /\ Lists!FlattenSeq(ss) = f[n]
      BY <1>1, <2>1, <2>7, FlatIs
    <3>3. \A i \in 1..n : ss[i] = tt[i]
      BY <2>4
    <3>4. g[m] = f[n] \o tt[m]
      <4>1. n \in 1..n /\ n <= m /\ m \in 1..m /\ m # 1
        BY <2>2, <3>1
      <4>2. IsFlat(f, ss, n) /\ IsFlat(g, tt, m)
        BY <2>5, <3>2
      <4>3. \A i \in 1..n : f[i] = g[i]
        BY <3>3, <4>1, <4>2, FlatUnique
      <4>4. PICK i \in 1..m : i = m
        BY <4>1
      <4>5. g[i] = IF i = 1 THEN tt[i] ELSE g[i - 1] \o tt[i]
        BY <4>2, FlatAt
      <4>6. i # 1 /\ i - 1 = n
        BY <2>2, <4>1, <4>4
      <4>. QED  BY <4>1, <4>3, <4>4, <4>5, <4>6
    <3>5. tt[m] = x
      BY <2>4
    <3>. QED  BY <2>3, <2>5, <3>2, <3>4, <3>5
  <2>. QED  BY <2>6, <2>7
<1>. QED  BY <1>1

LEMMA FlatStep ==
  ASSUME NEW T, NEW ss \in Seq(Seq(T)), NEW x \in Seq(T)
  PROVE  Lists!FlattenSeq(Append(ss, x)) = Lists!FlattenSeq(ss) \o x
BY FlatGrows

LEMMA SaidIs ==
  ASSUME NEW frames \in Seq(Frame)
  PROVE  \E g : IsTold(g, frames, Len(frames)) /\ Said(frames) = g[Len(frames)]
<1>. DEFINE last[i \in 0..Len(frames)] ==
        IF i = 0 THEN <<>>
        ELSE IF frames[i].kind = "summary" THEN frames[i].says
        ELSE last[i - 1] \o frames[i].says
<1>0. Len(frames) \in Nat /\ Len(frames) \in 0..Len(frames)
  OBVIOUS
<1>1. PICK g \in [0..Len(frames) -> Seq(Nat)] : IsTold(g, frames, Len(frames))
  BY <1>0, ToldExists
<1>2. last = CHOOSE f : IsTold(f, frames, Len(frames))
  BY DEF IsTold
<1>3. IsTold(last, frames, Len(frames))
  BY <1>1, <1>2
<1>4. Said(frames) = last[Len(frames)]
  BY DEF Said
<1>. HIDE DEF last
<1>5. last[Len(frames)] = g[Len(frames)]
  BY <1>0, <1>1, <1>3, ToldUnique
<1>. QED  BY <1>1, <1>4, <1>5

LEMMA SaidNothing == Said(<<>>) = <<>>
<1>1. <<>> \in Seq(Frame) /\ Len(<<>>) = 0
  OBVIOUS
<1>2. PICK g : IsTold(g, <<>>, 0) /\ Said(<<>>) = g[0]
  BY <1>1, SaidIs
<1>3. 0 \in 0..0
  OBVIOUS
<1>. QED  BY <1>2, <1>3 DEF IsTold

LEMMA SaidStep ==
  ASSUME NEW frames \in Seq(Frame), NEW f \in Frame
  PROVE  Said(Append(frames, f)) = IF f.kind = "summary" THEN f.says ELSE Said(frames) \o f.says
<1>1. PICK n \in Nat : n = Len(frames)
  OBVIOUS
<1>2. PICK m \in Nat : m = n + 1
  OBVIOUS
<1>3. PICK ff \in Seq(Frame) : /\ ff = Append(frames, f) /\ Len(ff) = m /\ ff[m] = f
                              /\ \A i \in 1..n : ff[i] = frames[i]
  <2>1. /\ Append(frames, f) \in Seq(Frame) /\ Len(Append(frames, f)) = Len(frames) + 1
        /\ Append(frames, f)[Len(frames) + 1] = f
        /\ \A i \in 1..Len(frames) : Append(frames, f)[i] = frames[i]
    BY AppendProperties
  <2>2. PICK ff : ff = Append(frames, f)
    OBVIOUS
  <2>. QED  BY <1>1, <1>2, <2>1, <2>2
<1>4. m # 0 /\ m \in 0..m /\ m - 1 = n /\ n <= m /\ n \in 0..n
  BY <1>2
<1>5. PICK h : IsTold(h, ff, m) /\ Said(ff) = h[m]
  BY <1>3, SaidIs
<1>6. PICK g : IsTold(g, frames, n) /\ Said(frames) = g[n]
  BY <1>1, SaidIs
<1>7. g[n] = h[n]
  <2>1. \A i \in 1..n : frames[i] = ff[i]
    BY <1>3
  <2>. QED  BY <1>4, <1>5, <1>6, <2>1, ToldUnique
<1>8. h[m] = IF m = 0 THEN <<>>
             ELSE IF ff[m].kind = "summary" THEN ff[m].says ELSE h[m - 1] \o ff[m].says
  BY <1>4, <1>5, ToldAt
<1>. QED  BY <1>3, <1>4, <1>5, <1>6, <1>7, <1>8

\* A stub in front says nothing.
LEMMA SaidStub ==
  ASSUME NEW frames \in Seq(Frame)
  PROVE  Said(<<Stub>> \o frames) = Said(frames)
<1>0. <<Stub>> \in Seq(Frame) /\ Len(<<Stub>>) = 1 /\ <<Stub>>[1] = Stub
  BY StubIsFrame
<1>1. PICK n \in Nat : n = Len(frames)
  OBVIOUS
<1>2. PICK m \in Nat : m = n + 1
  OBVIOUS
<1>3. PICK ff \in Seq(Frame) : /\ ff = <<Stub>> \o frames /\ Len(ff) = m /\ ff[1] = Stub
                              /\ \A i \in 1..n : ff[i + 1] = frames[i]
  <2>1. PICK one \in Seq(Frame) : one = <<Stub>> /\ Len(one) = 1 /\ one[1] = Stub
    BY <1>0
  <2>2. PICK ff : ff = one \o frames
    OBVIOUS
  <2>3. /\ ff \in Seq(Frame) /\ Len(ff) = m /\ ff[1] = Stub
        /\ \A i \in 1..n : ff[i + 1] = frames[i]
    BY <1>1, <1>2, <2>1, <2>2, ConcatProperties
  <2>. QED  BY <2>1, <2>2, <2>3
<1>4. PICK h : IsTold(h, ff, m) /\ Said(ff) = h[m]
  BY <1>3, SaidIs
<1>5. PICK g : IsTold(g, frames, n) /\ Said(frames) = g[n]
  BY <1>1, SaidIs
<1>6. h[1] = g[0]
  <2>1. 0 \in 0..n /\ 0 \in 0..m /\ 1 \in 0..m /\ 1 - 1 = 0 /\ 1 # 0
    BY <1>2
  <2>2. g[0] = <<>> /\ h[0] = <<>>
    BY <1>4, <1>5, <2>1, ToldAt
  <2>3. h[1] = IF 1 = 0 THEN <<>>
               ELSE IF ff[1].kind = "summary" THEN ff[1].says ELSE h[1 - 1] \o ff[1].says
    BY <1>4, <2>1, ToldAt
  <2>4. Stub.kind # "summary" /\ Stub.says = <<>> /\ <<>> \o <<>> = <<>>
    BY DEF Stub
  <2>. QED  BY <1>3, <2>1, <2>2, <2>3, <2>4
<1>. DEFINE Bad == {i \in 0..n : h[i + 1] # g[i]}
<1>7. Bad = {}
  <2>. SUFFICES ASSUME Bad # {} PROVE FALSE
    OBVIOUS
  <2>1. Bad \in SUBSET Nat
    OBVIOUS
  <2>2. PICK bad \in Bad : \A b \in Bad : bad <= b
    BY <2>1, LeastNatural
  <2>3. PICK i \in Nat : i \in 0..n /\ h[i + 1] # g[i] /\ \A b \in Bad : i <= b
    BY <2>2
  <2>4. i # 0
    BY <1>6, <2>3
  <2>5. PICK k \in Nat : k + 1 = i
    BY <2>3, <2>4
  <2>6. k \in 0..n /\ k \notin Bad /\ i - 1 = k
    BY <2>3, <2>5
  <2>7. h[i] = g[k]
    BY <2>5, <2>6
  <2>8. PICK j \in Nat : j = i + 1
    BY <2>3
  <2>9. j \in 0..m /\ j # 0 /\ j - 1 = i /\ ff[j] = frames[i]
    <3>1. i \in 1..n
      BY <2>3, <2>4
    <3>. QED  BY <1>2, <1>3, <2>8, <3>1
  <2>10. g[i] = IF i = 0 THEN <<>>
                ELSE IF frames[i].kind = "summary" THEN frames[i].says ELSE g[i - 1] \o frames[i].says
    <3>1. i \in 0..n /\ IsTold(g, frames, n)
      BY <1>5, <2>3
    <3>. QED  BY <3>1 DEF IsTold
  <2>11. h[j] = IF j = 0 THEN <<>>
                ELSE IF ff[j].kind = "summary" THEN ff[j].says ELSE h[j - 1] \o ff[j].says
    BY <1>4, <2>9, ToldAt
  <2>. QED  BY <2>3, <2>4, <2>6, <2>7, <2>8, <2>9, <2>10, <2>11
<1>8. n \in 0..n
  BY <1>1
<1>9. h[m] = g[n]
  BY <1>2, <1>7, <1>8
<1>. QED  BY <1>3, <1>4, <1>5, <1>9

-----------------------------------------------------------------------------
(***************************************************************************)
(* The texts of a table of messages up to a seq.                           *)
(***************************************************************************)
Part(t, n) == IF n \in DOMAIN t THEN <<CanonTurn(t[n])>> ELSE <<>>
Turns(t, top) == Lists!FlattenSeq([i \in 1..top + 1 |-> Part(t, i - 1)])
Words(t, top) == Said(Turns(t, top))
Word(t, n) == IF n \in DOMAIN t THEN <<t[n].body>> ELSE <<>>

LEMMA PartIs ==
  ASSUME NEW t, MessageTable(t), NEW n
  PROVE  Part(t, n) \in Seq(Frame)
<1>1. CASE n \in DOMAIN t
  <2>1. CanonTurn(t[n]) \in Frame
    BY <1>1, RowIs
  <2>. QED  BY <1>1, <2>1 DEF Part
<1>2. CASE n \notin DOMAIN t
  BY <1>2 DEF Part
<1>. QED  BY <1>1, <1>2

LEMMA NoTurns == ASSUME NEW t PROVE Turns(t, -1) = <<>>
<1>. DEFINE ss == [i \in 1..-1 + 1 |-> Part(t, i - 1)]
<1>1. ss = <<>>
  OBVIOUS
<1>. HIDE DEF ss
<1>2. Lists!FlattenSeq(ss) = <<>>
  BY <1>1 DEF Lists!FlattenSeq
<1>. QED  BY <1>2 DEF Turns, ss

LEMMA TurnsAre ==
  ASSUME NEW t, MessageTable(t), NEW n \in Nat
  PROVE  Turns(t, n) \in Seq(Frame) /\ Turns(t, n) = Turns(t, n - 1) \o Part(t, n)
         /\ Turns(t, n - 1) \in Seq(Frame)
<1>. DEFINE ss == [i \in 1..n |-> Part(t, i - 1)]
            tt == [i \in 1..n + 1 |-> Part(t, i - 1)]
            x == Part(t, n)
<1>1. \A i : Part(t, i) \in Seq(Frame)
  BY PartIs
<1>2. ss \in Seq(Seq(Frame)) /\ tt \in Seq(Seq(Frame)) /\ Len(ss) = n /\ Len(tt) = n + 1
  BY <1>1
<1>3. tt = Append(ss, x)
  <2>1. /\ Append(ss, x) \in Seq(Seq(Frame)) /\ Len(Append(ss, x)) = n + 1
        /\ Append(ss, x)[n + 1] = x /\ \A i \in 1..n : Append(ss, x)[i] = ss[i]
    BY <1>1, <1>2, AppendProperties
  <2>2. ASSUME NEW i \in 1..n + 1 PROVE tt[i] = Append(ss, x)[i]
    <3>1. CASE i = n + 1
      BY <2>1, <3>1
    <3>2. CASE i # n + 1
      <4>1. i \in 1..n
        BY <3>2
      <4>. QED  BY <2>1, <4>1
    <3>. QED  BY <3>1, <3>2
  <2>. HIDE DEF tt, ss, x
  <2>. QED  BY <1>2, <2>1, <2>2, SeqEqual
<1>4. Turns(t, n) = Lists!FlattenSeq(tt) /\ Turns(t, n - 1) = Lists!FlattenSeq(ss)
  <2>1. n - 1 + 1 = n
    OBVIOUS
  <2>. QED  BY <2>1 DEF Turns
<1>. HIDE DEF ss, tt
<1>. QED  BY <1>1, <1>2, <1>3, <1>4, FlatStep, FlatType DEF x

LEMMA WordsStart == ASSUME NEW t PROVE Words(t, -1) = <<>>
BY NoTurns, SaidNothing DEF Words

LEMMA TurnSays ==
  ASSUME NEW m
  PROVE  CanonTurn(m).kind = m.role /\ CanonTurn(m).says = <<m.body>>
BY DEF CanonTurn

LEMMA WordsStep ==
  ASSUME NEW t, MessageTable(t), NEW n \in Nat
  PROVE  /\ Words(t, n) = Words(t, n - 1) \o Word(t, n)
         /\ Words(t, n) \in Seq(Nat) /\ Words(t, n - 1) \in Seq(Nat) /\ Word(t, n) \in Seq(Nat)
<1>1. PICK ff \in Seq(Frame) : ff = Turns(t, n - 1)
  BY TurnsAre
<1>2. Turns(t, n) = ff \o Part(t, n) /\ Turns(t, n) \in Seq(Frame)
  BY <1>1, TurnsAre
<1>3. Words(t, n) \in Seq(Nat) /\ Words(t, n - 1) \in Seq(Nat)
  BY <1>1, <1>2, SaidType DEF Words
<1>4. CASE n \in DOMAIN t
  <2>1. PICK f \in Frame : f = CanonTurn(t[n])
    BY <1>4, RowIs
  <2>2. t[n].role \in {"user", "assistant"} /\ t[n].body \in Nat
    BY <1>4, RowIs
  <2>3. f.kind # "summary" /\ f.says = <<t[n].body>>
    BY <2>1, <2>2, TurnSays
  <2>4. ff \o <<f>> = Append(ff, f)
    BY <1>1, <2>1
  <2>5. Said(ff \o Part(t, n)) = Said(ff) \o <<t[n].body>>
    BY <1>4, <2>1, <2>3, <2>4, SaidStep DEF Part
  <2>6. Word(t, n) = <<t[n].body>> /\ <<t[n].body>> \in Seq(Nat)
    BY <1>4, <2>2 DEF Word
  <2>7. Words(t, n) = Words(t, n - 1) \o <<t[n].body>>
    BY <1>1, <1>2, <2>5 DEF Words
  <2>. QED  BY <1>3, <2>6, <2>7
<1>5. CASE n \notin DOMAIN t
  <2>1. ff \o Part(t, n) = ff
    BY <1>1, <1>5 DEF Part
  <2>2. Word(t, n) = <<>>
    BY <1>5 DEF Word
  <2>3. \A s \in Seq(Nat) : s \o <<>> = s
    OBVIOUS
  <2>4. Words(t, n) = Words(t, n - 1)
    BY <1>1, <1>2, <2>1 DEF Words
  <2>. HIDE DEF Words
  <2>5. Words(t, n - 1) \o <<>> = Words(t, n - 1) /\ <<>> \in Seq(Nat)
    BY <1>3, <2>3
  <2>. QED  BY <1>3, <2>2, <2>4, <2>5
<1>. QED  BY <1>4, <1>5

LEMMA WordsType ==
  ASSUME NEW t, MessageTable(t), NEW n \in Nat
  PROVE  Words(t, n) \in Seq(Nat) /\ Words(t, n - 1) \in Seq(Nat) /\ Words(t, -1) = <<>>
BY WordsStep, WordsStart

\* Tables that say the same up to a seq.
LEMMA WordsAgree ==
  ASSUME NEW t, MessageTable(t), NEW u, MessageTable(u), NEW top \in Nat \union {-1},
         \A n \in 0..top : Word(u, n) = Word(t, n)
  PROVE  Words(u, top) = Words(t, top)
<1>. DEFINE Bad == {n \in 0..top : Words(u, n) # Words(t, n)}
<1>1. Bad = {}
  <2>. SUFFICES ASSUME Bad # {} PROVE FALSE
    OBVIOUS
  <2>1. Bad \in SUBSET Nat
    OBVIOUS
  <2>2. PICK n \in Bad : \A m \in Bad : n <= m
    BY <2>1, LeastNatural
  <2>3. n \in Nat /\ n \in 0..top /\ (n = 0 \/ (n - 1 \in 0..top /\ n - 1 \notin Bad))
    BY <2>2
  <2>4. Words(u, n - 1) = Words(t, n - 1)
    <3>1. CASE n = 0
      <4>1. n - 1 = -1
        BY <3>1
      <4>. QED  BY <4>1, WordsStart
    <3>2. CASE n # 0
      BY <2>3, <3>2
    <3>. QED  BY <3>1, <3>2
  <2>. QED  BY <2>2, <2>3, <2>4, WordsStep
<1>2. CASE top = -1
  BY <1>2, WordsStart
<1>3. CASE top # -1
  <2>1. top \in 0..top
    BY <1>3
  <2>. QED  BY <1>1, <2>1
<1>. QED  BY <1>2, <1>3

\* Behind the last message nothing more is said.
LEMMA WordsEnd ==
  ASSUME NEW t, MessageTable(t), NEW last \in Nat \union {-1}, NEW top \in Nat \union {-1},
         last <= top, \A n \in DOMAIN t : n <= last \/ n > top
  PROVE  Words(t, top) = Words(t, last)
<1>. DEFINE Bad == {n \in 0..top : last <= n /\ Words(t, n) # Words(t, last)}
<1>1. Bad = {}
  <2>. SUFFICES ASSUME Bad # {} PROVE FALSE
    OBVIOUS
  <2>1. Bad \in SUBSET Nat
    OBVIOUS
  <2>2. PICK n \in Bad : \A m \in Bad : n <= m
    BY <2>1, LeastNatural
  <2>3. n \in Nat /\ last < n /\ n <= top /\ (n - 1 = last \/ (n - 1 \in 0..top /\ last <= n - 1))
    BY <2>2
  <2>4. n - 1 \notin Bad
    BY <2>2, <2>3
  <2>5. Words(t, n - 1) = Words(t, last)
    BY <2>3, <2>4
  <2>6. n \notin DOMAIN t
    BY <2>3
  <2>7. Word(t, n) = <<>>
    BY <2>6 DEF Word
  <2>8. Words(t, n) = Words(t, n - 1)
    <3>1. \A s \in Seq(Nat) : s \o <<>> = s
      OBVIOUS
    <3>2. Words(t, n) = Words(t, n - 1) \o Word(t, n) /\ Words(t, n - 1) \in Seq(Nat)
      BY <2>3, WordsStep
    <3>. QED  BY <2>7, <3>1, <3>2
  <2>. QED  BY <2>2, <2>5, <2>8
<1>2. CASE top = last
  BY <1>2
<1>3. CASE top # last
  <2>1. top \in 0..top /\ last <= top
    BY <1>3
  <2>. QED  BY <1>1, <2>1
<1>. QED  BY <1>2, <1>3

-----------------------------------------------------------------------------
\* What a chat's messages say.
Texts(c) == Words(messages[c], MaxSeq(c))

(***************************************************************************)
(* The tip of a chat without a user turn whose answer is not there yet.    *)
(***************************************************************************)
Asked(c) == \E q \in Procs : pc[q] \in Unanswered /\ chatOf(q) = c
AnsweredTip(c) == IF Asked(c) THEN MaxSeq(c) - 1 ELSE MaxSeq(c)

\* What the client of a waiting send saw: an earlier tip, this one and all its
\* texts, or this one and a user turn behind it that may go again.
Saw(r, c) ==
  \/ r.expected < AnsweredTip(c)
  \/ r.expected = AnsweredTip(c) /\ r.seen = Words(messages[c], AnsweredTip(c))
  \/ r.expected = AnsweredTip(c) + 1
ClientsInv ==
  \A p \in Procs :
    pc[p] = "wait" /\ req[p].kind = "send" /\ Live(chatOf(p)) => Saw(req[p], chatOf(p))
AcceptedInv == \A p \in Procs : pc[p] = "send.insert" => req[p].seen = Texts(chatOf(p))
GreetedInv ==
  \A p \in Procs :
    \/ pc[p] \in {"greet.seed", "greet.update"}
    \/ pc[p] = "start.send" /\ req[p].kind = "start.greeting"
    => MaxSeq(chatOf(p)) >= 1
NoRewriting == \A p \in Procs : pc[p] \notin SwipeSteps \union {"edit.variant"}
SeenInv == OneWriter /\ NoRewriting /\ GreetedInv /\ ClientsInv /\ AcceptedInv

-----------------------------------------------------------------------------
\* The client of a chat sees its texts.
LEMMA ShownIs ==
  ASSUME CanonRuns, NEW c \in ChatIds
  PROVE  Shown(c) = Texts(c)
<1>. DEFINE top == MaxSeq(c)
            t == messages[c]
            turn(s) == IF s \in Seqs(c) /\ -1 < s /\ s < top + 1
                       THEN <<CanonTurn(messages[c][s])>> ELSE <<>>
            heard == [i \in 1..top + 1 |-> turn(i - 1)]
            told == [i \in 1..top + 1 |-> Part(t, i - 1)]
<1>1. top \in Nat
  BY TipIs
<1>2. Canon(c) = Lists!FlattenSeq(heard)
  BY DEF Canon, History
<1>3. Turns(t, top) = Lists!FlattenSeq(told)
  BY DEF Turns
<1>4. heard = told
  <2>1. ASSUME NEW i \in 1..top + 1 PROVE turn(i - 1) = Part(t, i - 1)
    <3>1. -1 < i - 1 /\ i - 1 < top + 1
      BY <1>1
    <3>. HIDE DEF top
    <3>. QED  BY <3>1 DEF Part, Seqs
  <2>. HIDE DEF top, turn, t
  <2>. QED  BY <2>1
<1>. HIDE DEF heard, told
<1>5. Canon(c) = Turns(t, top)
  BY <1>2, <1>3, <1>4
<1>. QED  BY <1>5 DEF Shown, Texts, Words

\* maxSeq after a step.
LEMMA TipWillBe ==
  ASSUME CanonRuns', NEW c \in ChatIds
  PROVE  /\ MaxSeq(c)' \in Nat /\ \A s \in Seqs(c)' : s \in Nat /\ s <= MaxSeq(c)'
         /\ Seqs(c)' # {} => /\ MaxSeq(c)' \in Seqs(c)' \ {0}
                             /\ \E first \in {0, 1} : Seqs(c)' = first..MaxSeq(c)'
<1>1. CASE Seqs(c)' = {}
  BY <1>1 DEF MaxSeq
<1>2. CASE Seqs(c)' # {}
  <2>1. Run(Seqs(c)')
    BY DEF CanonRuns
  <2>2. PICK first \in {0, 1}, last \in Nat \ {0} : Seqs(c)' = first..last /\ TopOf(Seqs(c)') = last
    BY <1>2, <2>1, RunIs
  <2>3. MaxSeq(c)' = last
    BY <1>2, <2>2 DEF MaxSeq
  <2>. QED  BY <1>2, <2>2, <2>3
<1>. QED  BY <1>1, <1>2

\* Which chat's messages a step may write.
LEMMA TableMoves ==
  ASSUME CanonInv, NEW p \in Procs, Step(p), NEW c \in ChatIds
  PROVE  \/ messages'[c] = messages[c]
         \/ /\ c = chatOf(p)
            /\ \/ SendInsert(p) \/ SendRollback(p) \/ SendPersist(p)
               \/ SwipeBackfill(p) \/ SwipeVariant(p) \/ SwipeMessage(p) \/ SelectVariant(p)
               \/ EditMessage(p) \/ EditVariant(p) \/ DeleteChat(p)
               \/ GreetInsert(p) \/ OpenInsert(p)
         \/ c = req[p].target /\ ForkMessages(p)
<1>0. DOMAIN messages = ChatIds
  BY DEF CanonInv, TypeOK, MessagesOK
<1>1. CASE UNCHANGED messages
  BY <1>1
<1>2. CASE /\ c # chatOf(p)
           /\ \/ SendInsert(p) \/ SendRollback(p) \/ SendPersist(p) \/ SwipeBackfill(p)
              \/ SwipeVariant(p) \/ SwipeMessage(p) \/ SelectVariant(p) \/ EditMessage(p)
              \/ EditVariant(p) \/ DeleteChat(p) \/ GreetInsert(p) \/ OpenInsert(p)
  BY <1>0, <1>2 DEF SendInsert, SendRollback, SendPersist, SwipeBackfill, SwipeVariant, SwipeMessage,
     SelectVariant, EditMessage, EditVariant, DeleteChat, GreetInsert, OpenInsert,
     WithMessage, WithoutMessage
<1>3. CASE ForkMessages(p) /\ c # req[p].target
  <2>1. PICK d : d = req[p].target
    OBVIOUS
  <2>2. CASE messages' = [messages EXCEPT ![d] =
                  [n \in Seqs(d) \union DOMAIN copy[p] |->
                     IF n \in DOMAIN copy[p] THEN copy[p][n] ELSE @[n]]]
    BY <1>0, <1>3, <2>1, <2>2
  <2>. QED  BY <1>1, <1>3, <2>1, <2>2 DEF ForkMessages
<1>. QED  BY <1>1, <1>2, <1>3, MessagesWriters

\* Who is not writing a chat leaves its messages alone.
LEMMA Untouched ==
  ASSUME OneWriter, NEW p \in Procs, Step(p), NEW c \in ChatIds, ~Mine(p, c)
  PROVE  messages'[c] = messages[c]
<1>1. CanonInv
  BY DEF OneWriter, VariantInv
<1>2. c = chatOf(p) =>
        /\ pc[p] \notin LockedSteps \union Greeting \union OpenSteps
        /\ ~(pc[p] = "wait" /\ Holds(p))
  BY DEF Mine, Writes, Builds
<1>3. c = req[p].target => pc[p] # "fork.messages"
  BY DEF Mine, Writes, Builds
<1>. QED  BY <1>1, <1>2, <1>3, TableMoves DEF SendInsert, SendRollback, SendPersist, SwipeBackfill,
     SwipeVariant, SwipeMessage, SelectVariant, EditMessage, EditVariant, DeleteChat, GreetInsert,
     OpenInsert, ForkMessages, At, Granted, LockedSteps, Greeting, OpenSteps

\* What a send in flight may do.
LEMMA SendsGoOn ==
  ASSUME CanonInv, NEW p \in Procs, Step(p), pc[p] \in Unanswered
  PROVE  SendStart(p) \/ SendReply(p) \/ SendFails(p) \/ SendRollback(p) \/ SendPersist(p)
BY DEF Unanswered, Step, SendStep, CompactStep, SwipeStep, ReseedStep, StartStep,
       EditStep, BranchStep, BeginSend, SendInsert,
       SendUpdate, SendThrows, BeginCompact, CompactNothing, CompactTurn, CompactFails,
       CompactPersist, BeginSwipe, SwipeSeed, SwipeStart, SwipeReply, SwipeFails, SwipeAbandon,
       SwipeBackfill, SwipeVariant, SwipeMessage, SwipeDrop, SwipeUpdate, SelectVariant,
       ReseedDrop, ReseedSeed, ReseedPoint, StartRow, GreetInsert, GreetSeed, GreetThrows,
       GreetUpdate, StartSend, OpenLoad, OpenStart, OpenReply, OpenFails, OpenInsert,
       OpenUpdate, EditMessage, EditVariant, DeleteChat, PatchChat, ForkLoad, ForkRead, ForkRow,
       ForkMessages, ForkSeed, BeginProvider, ProviderSession, ProviderUpdate, Refuse, Deny,
       At, Granted, StartTurn, EndTurn, FailTurn

LEMMA AnsweredIs ==
  ASSUME CanonInv, NEW c \in ChatIds
  PROVE  AnsweredTip(c) \in Nat /\ MaxSeq(c) \in Nat
<1>1. MaxSeq(c) \in Nat
  BY TipIs DEF CanonInv
<1>2. ASSUME NEW q \in Procs, pc[q] \in Unanswered, chatOf(q) = c PROVE MaxSeq(c) >= 1
  BY <1>2 DEF CanonInv, SendsAtTip, SendAtTip
<1>. QED  BY <1>1, <1>2 DEF AnsweredTip, Asked

\* Nobody else has asked while p holds the lock.
LEMMA AskedByHolder ==
  ASSUME CanonInv, NEW p \in Procs, Holds(p), chatOf(p) \in ChatIds
  PROVE  Asked(chatOf(p)) <=> pc[p] \in Unanswered
<1>1. ASSUME NEW q \in Procs, pc[q] \in Unanswered, chatOf(q) = chatOf(p) PROVE q = p
  <2>1. Holds(q)
    BY <1>1, Running DEF Unanswered, LockedSteps
  <2>. QED  BY <1>1, <2>1 DEF Holds
<1>. QED  BY <1>1 DEF Asked

RewritingKinds == {"swipe", "edit", "select"}

\* How the answered tip moves: it stays with all its texts, or goes on by a
\* user turn and its answer.
LEMMA TipMoves ==
  ASSUME OneWriter, NoRewriting, RewritingKinds \intersect Kinds = {},
         NEW p \in Procs, Step(p), NEW c \in ChatIds, ~Builds(p, c), Live(c)'
  PROVE  \/ /\ AnsweredTip(c)' = AnsweredTip(c)
            /\ Words(messages'[c], AnsweredTip(c)) = Words(messages[c], AnsweredTip(c))
         \/ AnsweredTip(c)' >= AnsweredTip(c) + 2
<1>. CanonInv /\ CanonInv'
  BY StepKeepsRows DEF OneWriter, VariantInv
<1>0. /\ DOMAIN pc = Procs /\ DOMAIN messages = ChatIds /\ RequestsOK /\ DOMAIN chats = ChatIds
      /\ MessageTable(messages[c]) /\ MessageTable(messages'[c])
  BY DEF CanonInv, LineInv, Shapes, TypeOK, MessagesOK, ChatsOK
<1>1. PICK m \in Nat : m = MaxSeq(c)
  BY AnsweredIs
<1>2. \A q \in Procs \ {p} : pc'[q] = pc[q] /\ chatOf(q)' = chatOf(q)
  BY OthersStay DEF chatOf
<1>3. CASE c = chatOf(p) /\ SendInsert(p)
  <2>1. Holds(p) /\ pc[p] = "send.insert" /\ pc'[p] = "send.turn" /\ chatOf(p)' = c
    BY <1>0, <1>3, Running DEF SendInsert, At, LockedSteps, chatOf
  <2>2. ~Asked(c) /\ Asked(c)'
    <3>1. ~Asked(c)
      BY <1>3, <2>1, AskedByHolder DEF Unanswered
    <3>2. Asked(c)'
      BY <2>1 DEF Asked, Unanswered
    <3>. QED  BY <3>1, <3>2
  <2>3. loc[p].seq = m + 1
    BY <1>1, <1>3, <2>1 DEF CanonInv, SendsAtTip, SendAtTip, SendInsert, CanInsert
  <2>4. MaxSeq(c)' = m + 1
    <3>1. (SendAtTip(p, chatOf(p), loc[p].seq))' /\ loc' = loc
      BY <1>3 DEF CanonInv, SendsAtTip, SendInsert
    <3>. QED  BY <2>1, <2>3, <3>1 DEF SendAtTip, Unanswered
  <2>5. AnsweredTip(c) = m /\ AnsweredTip(c)' = m
    BY <1>1, <2>2, <2>4 DEF AnsweredTip
  <2>6. PICK x : messages' = [messages EXCEPT ![c] =
                      [n \in Seqs(c) \union {m + 1} |-> IF n = m + 1 THEN x ELSE @[n]]]
    BY <1>3, <2>3 DEF SendInsert, WithMessage
  <2>7. messages'[c] = [n \in Seqs(c) \union {m + 1} |-> IF n = m + 1 THEN x ELSE messages[c][n]]
    BY <1>0, <2>6
  <2>8. \A n \in 0..m : Word(messages'[c], n) = Word(messages[c], n)
    BY <1>1, <2>7 DEF Word, Seqs
  <2>9. Words(messages'[c], m) = Words(messages[c], m)
    BY <1>0, <1>1, <2>8, WordsAgree
  <2>. QED  BY <2>5, <2>9
<1>4. CASE c = chatOf(p) /\ SendRollback(p)
  <2>1. Holds(p) /\ pc[p] \in Unanswered /\ pc'[p] = "idle"
    BY <1>0, <1>4, Running DEF SendRollback, LockedSteps, Unanswered, Leave
  <2>2. Asked(c) /\ ~Asked(c)'
    <3>1. ASSUME NEW q \in Procs \ {p}, pc[q] \in Unanswered, chatOf(q) = c PROVE FALSE
      <4>1. Holds(q)
        BY <3>1, Running DEF Unanswered, LockedSteps
      <4>. QED  BY <1>4, <2>1, <3>1, <4>1 DEF Holds
    <3>2. pc'[p] \notin Unanswered
      BY <2>1 DEF Unanswered
    <3>. QED  BY <1>2, <1>4, <2>1, <3>1, <3>2 DEF Asked
  <2>3. loc[p].seq = m /\ m \in Seqs(c) /\ m >= 1
    BY <1>1, <1>4, <2>1 DEF CanonInv, SendsAtTip, SendAtTip
  <2>4. messages' = [messages EXCEPT ![c] = [n \in Seqs(c) \ {m} |-> @[n]]]
    BY <1>4, <2>3 DEF SendRollback, WithoutMessage
  <2>5. messages'[c] = [n \in Seqs(c) \ {m} |-> messages[c][n]]
    BY <1>0, <2>4
  <2>6. MaxSeq(c)' = m - 1
    <3>1. \A n \in Seqs(c) : n \in Nat /\ n <= m
      BY <1>1, BehindTip DEF CanonInv
    <3>2. Seqs(c)' = Seqs(c) \ {m}
      BY <2>5 DEF Seqs
    <3>3. CASE Seqs(c)' = {}
      <4>1. MaxSeq(c)' = 0
        BY <3>3 DEF MaxSeq
      <4>2. Seqs(c) = {m} /\ \E first \in {0, 1} : Seqs(c) = first..m
        BY <1>1, <2>3, <3>2, <3>3, TipIs DEF CanonInv
      <4>3. PICK first \in {0, 1} : Seqs(c) = first..m
        BY <4>2
      <4>4. first \in Seqs(c)
        BY <2>3, <4>3
      <4>. QED  BY <2>3, <4>1, <4>2, <4>4
    <3>4. CASE Seqs(c)' # {}
      <4>1. /\ MaxSeq(c)' \in Seqs(c)' \ {0}
            /\ \E first \in {0, 1} : Seqs(c)' = first..MaxSeq(c)'
        BY <3>4, TipWillBe DEF CanonInv
      <4>2. PICK k \in Nat : k = MaxSeq(c)' /\ k \in Seqs(c) /\ k < m /\ k # 0
        BY <2>3, <3>1, <3>2, <4>1
      <4>3. PICK first \in {0, 1} : Seqs(c)' = first..k
        BY <4>1, <4>2
      <4>4. PICK one \in {0, 1} : Seqs(c) = one..m
        BY <1>1, <2>3, TipIs DEF CanonInv
      <4>5. m - 1 \in Seqs(c)
        BY <4>2, <4>4
      <4>6. m - 1 \in first..k
        BY <3>2, <4>3, <4>5
      <4>. QED  BY <4>2, <4>6
    <3>. QED  BY <3>3, <3>4
  <2>7. AnsweredTip(c) = m - 1 /\ AnsweredTip(c)' = m - 1
    BY <1>1, <2>2, <2>6 DEF AnsweredTip
  <2>8. \A n \in 0..m - 1 : Word(messages'[c], n) = Word(messages[c], n)
    BY <1>1, <2>5 DEF Word, Seqs
  <2>9. Words(messages'[c], m - 1) = Words(messages[c], m - 1)
    <3>1. PICK k \in Nat : k = m - 1
      BY <2>3
    <3>2. \A n \in 0..k : Word(messages'[c], n) = Word(messages[c], n)
      BY <2>8, <3>1
    <3>. QED  BY <1>0, <3>1, <3>2, WordsAgree
  <2>. QED  BY <2>7, <2>9
<1>5. CASE c = chatOf(p) /\ SendPersist(p)
  <2>1. Holds(p) /\ pc[p] \in Unanswered /\ pc'[p] = "send.update"
    BY <1>0, <1>5, Running DEF SendPersist, At, LockedSteps, Unanswered
  <2>2. Asked(c) /\ ~Asked(c)'
    <3>1. ASSUME NEW q \in Procs \ {p}, pc[q] \in Unanswered, chatOf(q) = c PROVE FALSE
      <4>1. Holds(q)
        BY <3>1, Running DEF Unanswered, LockedSteps
      <4>. QED  BY <1>5, <2>1, <3>1, <4>1 DEF Holds
    <3>2. pc'[p] \notin Unanswered
      BY <2>1 DEF Unanswered
    <3>. QED  BY <1>2, <1>5, <2>1, <3>1, <3>2 DEF Asked
  <2>3. loc[p].seq = m
    BY <1>1, <1>5, <2>1 DEF CanonInv, SendsAtTip, SendAtTip
  <2>4. m + 1 \in Seqs(c)'
    <3>0. PICK x : messages' = WithMessage(c, m + 1, x)
      BY <1>5, <2>3 DEF SendPersist
    <3>1. messages' = [messages EXCEPT ![c] =
                      [n \in Seqs(c) \union {m + 1} |-> IF n = m + 1 THEN x ELSE @[n]]]
      BY <3>0 DEF WithMessage
    <3>. QED  BY <1>0, <3>1 DEF Seqs
  <2>5. MaxSeq(c)' \in Nat /\ m + 1 <= MaxSeq(c)'
    BY <2>4, TipWillBe DEF CanonInv
  <2>6. AnsweredTip(c) = m - 1 /\ AnsweredTip(c)' = MaxSeq(c)'
    BY <1>1, <2>2 DEF AnsweredTip
  <2>. QED  BY <2>5, <2>6
<1>6. CASE messages'[c] = messages[c]
  <2>1. Seqs(c)' = Seqs(c) /\ MaxSeq(c)' = MaxSeq(c)
    BY <1>6 DEF Seqs, MaxSeq
  <2>2. CASE Asked(c)' <=> Asked(c)
    BY <1>6, <2>1, <2>2 DEF AnsweredTip
  <2>3. ASSUME ~(Asked(c)' <=> Asked(c)) PROVE FALSE
    <3>1. ~((pc'[p] \in Unanswered /\ chatOf(p)' = c) <=> (pc[p] \in Unanswered /\ chatOf(p) = c))
      BY <1>2, <2>3 DEF Asked
    <3>2. \/ SendInsert(p) \/ SendRollback(p) \/ SendPersist(p)
          \/ SendStart(p) \/ SendReply(p) \/ SendFails(p)
      <4>1. CASE pc[p] \in Unanswered
        BY <4>1, SendsGoOn
      <4>2. CASE pc'[p] \in Unanswered
        BY <1>0, <4>2, SendsArrive DEF BeginSend, Unanswered
      <4>. QED  BY <3>1, <4>1, <4>2
    <3>3. ~SendStart(p) /\ ~SendReply(p) /\ ~SendFails(p)
      BY <1>0, <3>1 DEF SendStart, SendReply, SendFails, StartTurn, EndTurn, FailTurn, At, Unanswered,
         chatOf
    <3>4. c = chatOf(p)
      BY <1>0, <3>1, <3>2, <3>3 DEF SendInsert, SendRollback, SendPersist, At, Leave, Unanswered, chatOf
    <3>5. WritesSheet(p, c) \/ SendPersist(p)
      BY <3>2, <3>3, <3>4 DEF WritesSheet
    <3>6. WritesSheet(p, c)
      BY <3>4, <3>5 DEF WritesSheet
    <3>. QED  BY <1>6, <3>6, SheetWritten DEF OneWriter
  <2>. QED  BY <2>2, <2>3
<1>7. CASE c = chatOf(p) /\ DeleteChat(p)
  <2>1. PICK r : r = [NoChat EXCEPT !.status = "deleted"]
    OBVIOUS
  <2>2. r.status = "deleted" /\ chats' = [chats EXCEPT ![c] = r]
    BY <1>7, <2>1 DEF DeleteChat, NoChat, NewChat
  <2>3. chats'[c].status = "deleted"
    BY <1>0, <2>2
  <2>. QED  BY <2>3 DEF Live
<1>8. ~SwipeBackfill(p) /\ ~SwipeVariant(p) /\ ~SwipeMessage(p) /\ ~SelectVariant(p)
      /\ ~EditMessage(p) /\ ~EditVariant(p)
  <2>1. req[p].kind \in Kinds \union {"none", "send"}
    BY <1>0, RequestIs
  <2>. QED  BY <2>1 DEF RewritingKinds, NoRewriting, SwipeBackfill, SwipeVariant, SwipeMessage,
            SelectVariant, EditMessage, EditVariant, At, Granted, SwipeSteps, Swiping
<1>9. ~(c = chatOf(p) /\ (GreetInsert(p) \/ OpenInsert(p))) /\ ~(c = req[p].target /\ ForkMessages(p))
  BY DEF Builds, GreetInsert, OpenInsert, ForkMessages, Greeting, OpenSteps
<1>. QED  BY <1>3, <1>4, <1>5, <1>6, <1>7, <1>8, <1>9, TableMoves

-----------------------------------------------------------------------------
(***************************************************************************)
(* What the clients saw, over the steps.                                   *)
(***************************************************************************)
\* Swipes and edits come from their requests.
LEMMA StepRewritesNothing ==
  ASSUME CanonInv, NoRewriting, RewritingKinds \intersect Kinds = {}, NEW p \in Procs, Step(p)
  PROVE  NoRewriting'
<1>0. DOMAIN pc = Procs /\ RequestsOK
  BY DEF CanonInv, LineInv, Shapes, TypeOK
<1>1. req[p].kind \in Kinds \union {"none", "send"} /\ req[p].kind \notin RewritingKinds
  BY <1>0, RequestIs DEF RewritingKinds
<1>2. ~EditMessage(p) /\ ~BeginSwipe(p) /\ pc[p] \notin SwipeSteps \union {"edit.variant"}
  BY <1>1 DEF EditMessage, BeginSwipe, Granted, RewritingKinds, NoRewriting
<1>3. pc'[p] \notin SwipeSteps
  <2>1. pc[p] \in SendSteps => pc[p] \notin SwipeSteps
    BY <1>2
  <2>2. BeginSend(p) => pc'[p] \notin SwipeSteps
    BY <1>0 DEF BeginSend, SwipeSteps, Swiping
  <2>. QED  BY <1>2, <2>2, RowStays
<1>4. pc'[p] # "edit.variant"
  BY <1>0, <1>2 DEF Step, SendStep, CompactStep, SwipeStep, ReseedStep, StartStep,
       EditStep, BranchStep, BeginSend, SendInsert, SendStart, SendReply, SendFails, SendRollback,
       SendPersist, SendUpdate, SendThrows, BeginCompact, CompactNothing, CompactTurn, CompactFails,
       CompactPersist, BeginSwipe, SwipeSeed, SwipeStart, SwipeReply, SwipeFails, SwipeAbandon,
       SwipeBackfill, SwipeVariant, SwipeMessage, SwipeDrop, SwipeUpdate, SelectVariant,
       ReseedDrop, ReseedSeed, ReseedPoint, StartRow, GreetInsert, GreetSeed, GreetThrows,
       GreetUpdate, StartSend, OpenLoad, OpenStart, OpenReply, OpenFails, OpenInsert,
       OpenUpdate, EditVariant, DeleteChat, PatchChat, ForkLoad, ForkRead, ForkRow,
       ForkMessages, ForkSeed, BeginProvider, ProviderSession, ProviderUpdate, Refuse, Deny,
       At, Granted, StartTurn, EndTurn, FailTurn, ReseedOrLeave, SeedFromCanon, Leave, Return
<1>. QED  BY <1>2, <1>3, <1>4, OthersStay DEF NoRewriting

\* A greeting is there until the first send, and that send waits behind it.
Greeted(p) ==
  \/ pc[p] \in {"greet.seed", "greet.update"}
  \/ pc[p] = "start.send" /\ req[p].kind = "start.greeting"

LEMMA GreetedComes ==
  ASSUME CanonInv, NEW p \in Procs, Step(p), Greeted(p)'
  PROVE  /\ chatOf(p)' = chatOf(p)
         /\ \/ GreetInsert(p) /\ 1 \in Seqs(chatOf(p))'
            \/ Greeted(p) /\ UNCHANGED messages
<1>0. DOMAIN pc = Procs /\ DOMAIN req = Procs /\ DOMAIN messages = ChatIds /\ chatOf(p) \in ChatIds
      /\ Moves(p)
  BY Busy, StepMoves, Rows DEF CanonInv, LineInv, Shapes, TypeOK, RequestsOK, MessagesOK
<1>1. req'[p] = req[p] /\ FreeMove(p)
  BY <1>0 DEF Moves, Goes, StartSend, LockedMove, LockedSteps, Greeted, At
<1>2. GreetInsert(p) \/ GreetSeed(p) \/ GreetUpdate(p) \/ StartRow(p)
  <2>1. pc[p] \in {"start.row"} \union Greeting
    BY <1>1 DEF FreeMove, ForkRow, StartRow, Greeted, Greeting, OpenSteps, At
  <2>2. ~SendStep(p) /\ ~BeginCompact(p) /\ ~CompactNothing(p) /\ ~CompactStep(p)
    BY <2>1 DEF SendStep, CompactStep, BeginSend, SendInsert, SendStart, SendReply, SendFails,
       SendRollback, SendPersist, SendUpdate, SendThrows, BeginCompact, CompactNothing, CompactTurn,
       CompactFails, CompactPersist, Greeting, At, Granted, StartTurn, EndTurn, FailTurn
  <2>3. ~SwipeStep(p) /\ ~SelectVariant(p) /\ ~ReseedStep(p)
    BY <2>1 DEF SwipeStep, ReseedStep, BeginSwipe, SwipeSeed, SwipeStart, SwipeReply, SwipeFails,
       SwipeAbandon, SwipeBackfill, SwipeVariant, SwipeMessage, SwipeDrop, SwipeUpdate, SelectVariant,
       ReseedDrop, ReseedSeed, ReseedPoint, Greeting, At, Granted, StartTurn, EndTurn, FailTurn
  <2>4. ~EditStep(p) /\ ~Refuse(p) /\ ~Deny(p) /\ ~BranchStep(p)
    BY <2>1 DEF EditStep, BranchStep, EditMessage, EditVariant, DeleteChat, PatchChat, Refuse, Deny,
       ForkLoad, ForkRead, ForkRow, ForkMessages, ForkSeed, BeginProvider, ProviderSession,
       ProviderUpdate, Greeting, At, Granted
  <2>5. StartStep(p)
    BY <2>2, <2>3, <2>4 DEF Step
  <2>6. ~StartSend(p) /\ ~OpenLoad(p) /\ ~OpenStart(p) /\ ~OpenReply(p) /\ ~OpenFails(p)
        /\ ~OpenInsert(p) /\ ~OpenUpdate(p)
    BY <2>1 DEF StartSend, OpenLoad, OpenStart, OpenReply, OpenFails, OpenInsert, OpenUpdate,
       Greeting, At
  <2>7. ~GreetThrows(p)
    BY <1>0 DEF GreetThrows, Return, Greeted
  <2>. QED  BY <2>5, <2>6, <2>7 DEF StartStep
<1>3. chatOf(p)' = chatOf(p)
  BY <1>1 DEF chatOf
<1>4. CASE GreetInsert(p)
  <2>1. CanInsert(chatOf(p), 1)
    BY <1>0, <1>4 DEF GreetInsert, Return, Greeted
  <2>2. 1 \in Seqs(chatOf(p))'
    <3>1. PICK c \in ChatIds : c = chatOf(p)
      BY <1>0
    <3>2. PICK x : messages' = [messages EXCEPT ![c] =
                      [n \in Seqs(c) \union {1} |-> IF n = 1 THEN x ELSE @[n]]]
      BY <1>4, <2>1, <3>1 DEF GreetInsert, WithMessage
    <3>3. 1 \in Seqs(c)'
      BY <1>0, <3>2 DEF Seqs
    <3>. QED  BY <1>3, <3>1, <3>3 DEF Seqs
  <2>. QED  BY <1>3, <1>4, <2>2
<1>5. CASE GreetSeed(p) \/ GreetUpdate(p)
  BY <1>3, <1>5 DEF GreetSeed, GreetUpdate, Greeted, At
<1>6. CASE StartRow(p)
  BY <1>0, <1>1, <1>6 DEF StartRow, Greeted, Return
<1>. QED  BY <1>2, <1>4, <1>5, <1>6

LEMMA StepGreets ==
  ASSUME OneWriter, GreetedInv, NEW p \in Procs, Step(p)
  PROVE  GreetedInv'
<1>. CanonInv /\ CanonInv'
  BY StepKeepsRows DEF OneWriter, VariantInv
<1>. SUFFICES ASSUME NEW q \in Procs, Greeted(q)' PROVE MaxSeq(chatOf(q))' >= 1
  BY DEF GreetedInv, Greeted
<1>1. ASSUME NEW c \in ChatIds, messages'[c] = messages[c] PROVE MaxSeq(c)' = MaxSeq(c)
  BY <1>1 DEF MaxSeq, Seqs
<1>2. CASE q # p
  <2>1. Greeted(q) /\ chatOf(q)' = chatOf(q) /\ MaxSeq(chatOf(q)) >= 1
    BY <1>2, OthersStay DEF Greeted, GreetedInv, chatOf
  <2>2. PICK c \in ChatIds : c = chatOf(q)
    BY <2>1, Rows DEF Greeted
  <2>3. Writes(q, c)
    BY <2>1, <2>2 DEF Writes, Builds, Greeted, Greeting
  <2>4. MaxSeq(c)' = MaxSeq(c)
    BY <1>1, <1>2, <2>3, Alone, Untouched
  <2>. QED  BY <2>1, <2>2, <2>4
<1>3. CASE q = p
  <2>1. PICK c \in ChatIds : c = chatOf(p)
    BY Busy, Rows
  <2>2. \/ 1 \in Seqs(c)'
        \/ Greeted(p) /\ UNCHANGED messages
    BY <1>3, <2>1, GreetedComes DEF Seqs
  <2>3. chatOf(p)' = c
    BY <1>3, <2>1, GreetedComes
  <2>4. CASE 1 \in Seqs(c)'
    <3>1. MaxSeq(c)' \in Nat /\ 1 <= MaxSeq(c)'
      BY <2>4, TipWillBe DEF CanonInv
    <3>. QED  BY <1>3, <2>3, <3>1
  <2>5. CASE Greeted(p) /\ UNCHANGED messages
    <3>1. MaxSeq(c) >= 1
      BY <2>1, <2>5 DEF GreetedInv, Greeted
    <3>. QED  BY <1>1, <1>3, <2>3, <2>5, <3>1
  <2>. QED  BY <2>2, <2>4, <2>5
<1>. QED  BY <1>2, <1>3

\* A send is accepted at the tip its client saw.
LEMMA StepAccepts ==
  ASSUME OneWriter, ClientsInv, AcceptedInv, NEW p \in Procs, Step(p)
  PROVE  AcceptedInv'
<1>. CanonInv
  BY DEF OneWriter, VariantInv
<1>0. DOMAIN pc = Procs
  BY DEF CanonInv, LineInv, Shapes
<1>. SUFFICES ASSUME NEW q \in Procs, pc'[q] = "send.insert"
              PROVE  req'[q].seen = Texts(chatOf(q))'
  BY DEF AcceptedInv
<1>1. ASSUME NEW c, messages'[c] = messages[c] PROVE Texts(c)' = Texts(c)
  BY <1>1 DEF Texts, MaxSeq, Seqs
<1>2. CASE q # p
  <2>1. pc[q] = "send.insert" /\ req'[q] = req[q] /\ chatOf(q)' = chatOf(q)
    BY <1>2, OthersStay DEF chatOf
  <2>2. PICK c \in ChatIds : c = chatOf(q)
    BY <2>1, Rows
  <2>3. Writes(q, c)
    BY <2>1, <2>2 DEF Writes, LockedSteps
  <2>4. messages'[c] = messages[c]
    BY <1>2, <2>3, Alone, Untouched
  <2>. QED  BY <1>1, <2>1, <2>2, <2>4 DEF AcceptedInv, Texts, MaxSeq, Seqs
<1>3. CASE q = p
  <2>1. BeginSend(p)
    BY <1>0, <1>3, SendsArrive DEF SendInsert, SendStart, SendReply, SendFails, StartTurn, EndTurn,
       FailTurn, At
  <2>2. PICK c \in ChatIds : c = chatOf(p)
    BY Busy, Rows
  <2>3. /\ pc[p] = "wait" /\ Holds(p) /\ req[p].kind = "send" /\ Live(c) /\ req[p].expected = MaxSeq(c)
        /\ req' = req /\ messages' = messages
    BY <2>1, <2>2 DEF BeginSend, Granted, tables
  <2>4. ~Asked(c)
    BY <2>2, <2>3, AskedByHolder DEF Unanswered
  <2>5. AnsweredTip(c) = MaxSeq(c) /\ MaxSeq(c) \in Nat
    BY <2>4, AnsweredIs DEF AnsweredTip
  <2>6. Saw(req[p], c)
    BY <2>2, <2>3 DEF ClientsInv
  <2>7. req[p].seen = Texts(c)
    BY <2>3, <2>5, <2>6 DEF Saw, Texts
  <2>8. Texts(c)' = Texts(c) /\ chatOf(p)' = c
    BY <1>1, <2>2, <2>3 DEF chatOf
  <2>9. Texts(chatOf(p))' = Texts(c)'
    BY <2>8 DEF Texts, MaxSeq, Seqs
  <2>. QED  BY <1>3, <2>3, <2>7, <2>8, <2>9
<1>. QED  BY <1>2, <1>3

\* What a client saw stays an earlier tip, or the answered one.
LEMMA SawStays ==
  ASSUME OneWriter, NoRewriting, RewritingKinds \intersect Kinds = {},
         NEW p \in Procs, Step(p), NEW c \in ChatIds, ~Builds(p, c), Live(c)',
         NEW r, r.expected \in Nat, Saw(r, c)
  PROVE  Saw(r, c)'
<1>. CanonInv /\ CanonInv'
  BY StepKeepsRows DEF OneWriter, VariantInv
<1>1. PICK n \in Nat : n = AnsweredTip(c)
  BY AnsweredIs
<1>2. CASE AnsweredTip(c)' = n /\ Words(messages'[c], n) = Words(messages[c], n)
  BY <1>1, <1>2 DEF Saw
<1>3. CASE AnsweredTip(c)' >= n + 2
  <2>1. AnsweredTip(c)' \in Int
    <3>1. MaxSeq(c)' \in Nat
      BY TipWillBe DEF CanonInv
    <3>. QED  BY <3>1 DEF AnsweredTip
  <2>. QED  BY <1>1, <1>3, <2>1 DEF Saw
<1>. QED  BY <1>1, <1>2, <1>3, TipMoves

LEMMA StepKeepsClients ==
  ASSUME OneWriter, NoRewriting, GreetedInv, ClientsInv, RewritingKinds \intersect Kinds = {},
         NEW p \in Procs, Step(p)
  PROVE  ClientsInv'
<1>. CanonInv /\ CanonInv' /\ BuildInv /\ AbsentInv /\ AimInv
  BY StepKeepsRows DEF OneWriter, VariantInv
<1>0. DOMAIN pc = Procs /\ DOMAIN req = Procs /\ RequestsOK /\ RequestsOK'
  BY DEF CanonInv, LineInv, Shapes, TypeOK, RequestsOK
<1>. SUFFICES ASSUME NEW q \in Procs, pc'[q] = "wait", req'[q].kind = "send", Live(chatOf(q))'
              PROVE  Saw(req[q], chatOf(q))'
  BY DEF ClientsInv
<1>1. CASE q # p
  <2>1. pc[q] = "wait" /\ req'[q] = req[q] /\ chatOf(q)' = chatOf(q)
    BY <1>1, OthersStay DEF chatOf
  <2>2. PICK c \in ChatIds : c = chatOf(q)
    BY <2>1, Rows
  <2>3. InLineAt(q, c)
    BY <2>1, <2>2 DEF InLineAt
  <2>4. ~Builds(p, c) /\ chats[c].status # "absent"
    BY <1>1, <2>3 DEF BuildInv, AbsentInv
  <2>5. Live(c)'
    BY <2>1, <2>2 DEF Live
  <2>6. Live(c)
    <3>1. ~(ForkRow(p) /\ c = req[p].target)
      BY <2>4 DEF AimInv, Aims, ForkRow, At
    <3>. QED  BY <2>4, <2>5, <3>1, StatusStep DEF Live
  <2>7. Saw(req[q], c) /\ req[q].expected \in Nat
    BY <1>0, <2>1, <2>2, <2>6, RequestIs DEF ClientsInv
  <2>8. PICK r : r = req[q]
    OBVIOUS
  <2>9. Saw(r, c)'
    BY <2>4, <2>5, <2>7, <2>8, SawStays
  <2>. QED  BY <2>1, <2>2, <2>8, <2>9 DEF Saw, AnsweredTip, Asked, MaxSeq, Seqs
<1>2. CASE q = p
  <2>1. StartSend(p)
    <3>1. Moves(p)
      BY StepMoves
    <3>. QED  BY <1>2, <3>1 DEF Moves, Goes, LockedMove, FreeMove, LockedSteps, Greeting, OpenSteps,
              ForkRow, At
  <2>2. PICK c \in ChatIds : c = chatOf(p)
    BY Busy, Rows
  <2>3. PICK r : /\ r = req'[p] /\ r.chat = c /\ r.seen = Shown(c)
                 /\ r.expected = IF req[p].kind = "start.greeting" THEN 1 ELSE 0
    <3>1. req[p] \in Request
      BY <1>0 DEF RequestsOK
    <3>2. PICK e : e = IF req[p].kind = "start.greeting" THEN 1 ELSE 0
      OBVIOUS
    <3>3. req' = [req EXCEPT ![p].kind = "send", ![p].seen = Shown(c), ![p].expected = e]
      BY <2>1, <2>2, <3>2 DEF StartSend
    <3>4. req'[p].chat = req[p].chat /\ req'[p].seen = Shown(c) /\ req'[p].expected = e
      BY <1>0, <3>1, <3>3 DEF Request
    <3>. QED  BY <2>2, <3>2, <3>4 DEF chatOf
  <2>4. pc[p] = "start.send" /\ pc'[p] = "wait" /\ messages' = messages
    BY <1>0, <2>1 DEF StartSend, At, tables
  <2>5. Builds(p, c)
    BY <2>2, <2>4 DEF Builds
  <2>6. ~Asked(c)'
    <3>1. ASSUME NEW o \in Procs \ {p}, pc'[o] \in Unanswered, chatOf(o)' = c PROVE FALSE
      <4>1. pc[o] \in Unanswered /\ chatOf(o) = c
        BY <3>1, OthersStay DEF chatOf
      <4>2. ~InLineAt(o, c)
        BY <2>5 DEF BuildInv
      <4>. QED  BY <4>1, <4>2 DEF InLineAt, Unanswered, LockedSteps
    <3>2. pc'[p] \notin Unanswered
      BY <2>4 DEF Unanswered
    <3>. QED  BY <3>1, <3>2 DEF Asked
  <2>7. PICK m \in Nat : m = MaxSeq(c)
    BY AnsweredIs
  <2>8. AnsweredTip(c)' = m
    BY <2>4, <2>6, <2>7 DEF AnsweredTip, MaxSeq, Seqs
  <2>9. r.seen = Words(messages'[c], m)
    BY <2>3, <2>4, <2>7, ShownIs DEF Texts, CanonInv
  <2>10. r.expected <= m /\ r.expected \in Nat
    <3>1. CASE req[p].kind = "start.greeting"
      BY <2>2, <2>3, <2>4, <2>7, <3>1 DEF GreetedInv
    <3>2. CASE req[p].kind # "start.greeting"
      BY <2>3, <2>7, <3>2
    <3>. QED  BY <3>1, <3>2
  <2>11. Saw(r, c)'
    BY <2>8, <2>9, <2>10 DEF Saw
  <2>12. chatOf(p)' = c
    BY <2>3 DEF chatOf
  <2>. QED  BY <1>2, <2>3, <2>11, <2>12 DEF Saw, AnsweredTip, Asked, MaxSeq, Seqs
<1>. QED  BY <1>1, <1>2

\* A client that sends has the chat before its eyes as it is listed.
LEMMA CallSees ==
  ASSUME DOMAIN pc = Procs, DOMAIN req = Procs, NEW p \in Procs, Call(p), req'[p].kind = "send"
  PROVE  \E c \in ChatIds :
           req'[p].chat = c /\ req'[p].expected = MaxSeq(c) /\ req'[p].seen = Shown(c)
<1>. PICK kind \in Kinds, c \in ChatIds :
         \/ kind \in {"send", "swipe"} /\ CallTurn(p, c, kind)
         \/ kind = "edit" /\ CallEdit(p, c)
         \/ kind = "select" /\ CallSelect(p, c)
         \/ kind = "provider" /\ CallProvider(p, c)
         \/ kind \in {"compact", "delete", "patch"} /\ CallSimple(p, c, kind)
         \/ kind \in StartKinds /\ CallStart(p, c, kind)
         \/ kind = "fork" /\ CallFork(p, c)
  BY KindsAssumption DEF Call, LockKinds, StartKinds
<1>0. ASSUME NEW r, NEW there, Arrives(p, r, there) PROVE req'[p] = r
  BY <1>0 DEF Arrives
<1>1. CASE kind \in {"send", "swipe"} /\ CallTurn(p, c, kind)
  <2>1. PICK r, e, w : /\ r = [NoRequest EXCEPT !.kind = kind, !.chat = c, !.expected = e, !.seen = w]
                       /\ e = MaxSeq(c) /\ w = Shown(c)
                       /\ Arrives(p, r, "wait")
    BY <1>1 DEF CallTurn, ArrivesAtLock
  <2>2. r.chat = c /\ r.expected = e /\ r.seen = w
    BY <2>1 DEF NoRequest
  <2>. QED  BY <1>0, <2>1, <2>2
<1>2. CASE kind = "edit" /\ CallEdit(p, c)
  <2>1. PICK m, r : r = [NoRequest EXCEPT !.kind = "edit", !.chat = c, !.msg = m] /\ Arrives(p, r, "wait")
    BY <1>2 DEF CallEdit, ArrivesAtLock
  <2>2. r.kind = "edit"
    BY <2>1 DEF NoRequest
  <2>. QED  BY <1>0, <2>1, <2>2
<1>3. CASE kind = "select" /\ CallSelect(p, c)
  <2>1. PICK m, k, r : /\ r = [NoRequest EXCEPT !.kind = "select", !.chat = c, !.msg = m, !.variant = k]
                       /\ Arrives(p, r, "wait")
    BY <1>3 DEF CallSelect, ArrivesAtLock
  <2>2. r.kind = "select"
    BY <2>1 DEF NoRequest
  <2>. QED  BY <1>0, <2>1, <2>2
<1>4. CASE kind = "provider" /\ CallProvider(p, c)
  <2>1. PICK a, r : r = [NoRequest EXCEPT !.kind = "provider", !.chat = c, !.api = a] /\ Arrives(p, r, "wait")
    BY <1>4 DEF CallProvider, ArrivesAtLock
  <2>2. r.kind = "provider"
    BY <2>1 DEF NoRequest
  <2>. QED  BY <1>0, <2>1, <2>2
<1>5. CASE kind \in {"compact", "delete", "patch"} /\ CallSimple(p, c, kind)
  <2>1. PICK r : r = [NoRequest EXCEPT !.kind = kind, !.chat = c] /\ Arrives(p, r, "wait")
    BY <1>5 DEF CallSimple, ArrivesAtLock
  <2>2. r.kind = kind
    BY <2>1 DEF NoRequest
  <2>. QED  BY <1>0, <1>5, <2>1, <2>2
<1>6. CASE kind \in StartKinds /\ CallStart(p, c, kind)
  <2>1. PICK a, r : r = [NoRequest EXCEPT !.kind = kind, !.chat = c, !.api = a] /\ Arrives(p, r, "start.row")
    BY <1>6 DEF CallStart
  <2>2. r.kind = kind
    BY <2>1 DEF NoRequest
  <2>. QED  BY <1>0, <1>6, <2>1, <2>2 DEF StartKinds
<1>7. CASE kind = "fork" /\ CallFork(p, c)
  <2>1. PICK d, s, a, r : /\ r = [NoRequest EXCEPT !.kind = "fork", !.chat = c, !.target = d,
                                          !.seq = s, !.api = a]
                          /\ Arrives(p, r, "fork.load")
    BY <1>7, Zenon DEF CallFork
  <2>2. r.kind = "fork"
    BY <2>1 DEF NoRequest
  <2>. QED  BY <1>0, <2>1, <2>2
<1>. QED  BY <1>1, <1>2, <1>3, <1>4, <1>5, <1>6, <1>7

LEMMA CallKeepsSeen ==
  ASSUME ~Eager, SeenInv, NEW p \in Procs, Call(p)
  PROVE  SeenInv'
<1>. /\ OneWriter /\ CanonInv /\ OneWriter'
     /\ NoRewriting /\ GreetedInv /\ ClientsInv /\ AcceptedInv
  BY CallKeepsWriter DEF SeenInv, OneWriter, VariantInv
<1>0. DOMAIN pc = Procs /\ DOMAIN req = Procs
  BY DEF CanonInv, LineInv, Shapes, TypeOK, RequestsOK
<1>1. PICK r : \E there \in {"wait", "start.row", "fork.load"} : Arriving(p, r, there)
  BY CallForms
<1>2. PICK there \in {"wait", "start.row", "fork.load"} : Arriving(p, r, there)
  BY <1>1
<1>3. /\ UNCHANGED <<chats, messages>> /\ pc[p] = "idle"
      /\ pc' = [pc EXCEPT ![p] = there] /\ req' = [req EXCEPT ![p] = r]
  BY <1>2 DEF Arriving, Arrives, tables
<1>4. pc'[p] = there /\ req'[p] = r
      /\ \A q \in Procs \ {p} : pc'[q] = pc[q] /\ req'[q] = req[q] /\ chatOf(q)' = chatOf(q)
  BY <1>0, <1>3 DEF chatOf
<1>5. \A c : /\ MaxSeq(c)' = MaxSeq(c) /\ Texts(c)' = Texts(c) /\ (Live(c)' <=> Live(c))
             /\ (Asked(c)' <=> Asked(c)) /\ AnsweredTip(c)' = AnsweredTip(c)
  <2>1. \A c : MaxSeq(c)' = MaxSeq(c) /\ Texts(c)' = Texts(c) /\ (Live(c)' <=> Live(c))
    BY <1>3 DEF MaxSeq, Seqs, Texts, Live
  <2>2. \A c : Asked(c)' <=> Asked(c)
    BY <1>3, <1>4 DEF Asked, Unanswered
  <2>. QED  BY <2>1, <2>2 DEF AnsweredTip
<1>6. NoRewriting'
  BY <1>4 DEF NoRewriting, SwipeSteps, Swiping
<1>7. GreetedInv'
  <2>. SUFFICES ASSUME NEW q \in Procs, Greeted(q)' PROVE MaxSeq(chatOf(q))' >= 1
    BY DEF GreetedInv, Greeted
  <2>1. q # p /\ Greeted(q) /\ chatOf(q)' = chatOf(q)
    BY <1>4 DEF Greeted
  <2>2. MaxSeq(chatOf(q)) >= 1
    BY <2>1 DEF GreetedInv, Greeted
  <2>. QED  BY <1>3, <2>1, <2>2 DEF MaxSeq, Seqs
<1>8. AcceptedInv'
  <2>. SUFFICES ASSUME NEW q \in Procs, pc'[q] = "send.insert" PROVE req'[q].seen = Texts(chatOf(q))'
    BY DEF AcceptedInv
  <2>1. q # p
    BY <1>4
  <2>. QED  BY <1>3, <1>4, <2>1 DEF AcceptedInv, Texts, MaxSeq, Seqs
<1>9. ClientsInv'
  <2>. SUFFICES ASSUME NEW q \in Procs, pc'[q] = "wait", req'[q].kind = "send", Live(chatOf(q))'
                PROVE  Saw(req[q], chatOf(q))'
    BY DEF ClientsInv
  <2>1. CASE q # p
    <3>1. pc[q] = "wait" /\ req'[q] = req[q] /\ chatOf(q)' = chatOf(q) /\ Live(chatOf(q))
      BY <1>3, <1>4, <2>1 DEF Live, chatOf
    <3>2. PICK c : c = chatOf(q)
      OBVIOUS
    <3>3. Saw(req[q], c)
      BY <3>1, <3>2 DEF ClientsInv
    <3>4. AnsweredTip(c)' = AnsweredTip(c)
      BY <1>5
    <3>5. chatOf(q)' = c
      BY <3>1, <3>2
    <3>6. AnsweredTip(chatOf(q))' = AnsweredTip(c)
      BY <3>4, <3>5 DEF AnsweredTip, Asked, MaxSeq, Seqs
    <3>. QED  BY <1>3, <3>1, <3>3, <3>5, <3>6 DEF Saw
  <2>2. CASE q = p
    <3>1. PICK c \in ChatIds : /\ req'[p].chat = c /\ req'[p].expected = MaxSeq(c)
                               /\ req'[p].seen = Shown(c)
      BY <1>0, <2>2, CallSees
    <3>2. chatOf(p)' = c /\ req'[p].seen = Texts(c)
      BY <3>1, ShownIs DEF chatOf, CanonInv
    <3>3. AnsweredTip(c)' = AnsweredTip(c) /\ messages' = messages
      BY <1>3, <1>5
    <3>4. AnsweredTip(chatOf(p))' = AnsweredTip(c)
      BY <3>2, <3>3 DEF AnsweredTip, Asked, MaxSeq, Seqs
    <3>5. MaxSeq(c) \in Nat
      BY AnsweredIs
    <3>6. \/ AnsweredTip(c) = MaxSeq(c)
          \/ MaxSeq(c) = AnsweredTip(c) + 1
      BY <3>5 DEF AnsweredTip
    <3>. QED  BY <2>2, <3>1, <3>2, <3>3, <3>4, <3>6 DEF Saw, Texts
  <2>. QED  BY <2>1, <2>2
<1>. QED  BY <1>6, <1>7, <1>8, <1>9 DEF SeenInv

LEMMA NextKeepsSeen ==
  ASSUME ~Eager, RewritingKinds \intersect Kinds = {}, SeenInv, [Next]_vars
  PROVE  SeenInv'
<1>. OneWriter /\ CanonInv /\ OneWriter'
  BY NextKeepsWriter DEF SeenInv, OneWriter, VariantInv
<1>1. ASSUME NEW p \in Procs, Step(p) PROVE SeenInv'
  BY <1>1, StepRewritesNothing, StepGreets, StepKeepsClients, StepAccepts DEF SeenInv
<1>2. CASE UNCHANGED vars
  <2>1. UNCHANGED <<chats, messages, pc, req>>
    BY <1>2 DEF vars, storeVars
  <2>2. \A c : MaxSeq(c)' = MaxSeq(c) /\ AnsweredTip(c)' = AnsweredTip(c)
    BY <2>1 DEF MaxSeq, Seqs, AnsweredTip, Asked, chatOf
  <2>3. NoRewriting' /\ AcceptedInv'
    BY <2>1 DEF SeenInv, NoRewriting, AcceptedInv, Texts, MaxSeq, Seqs, chatOf
  <2>4. GreetedInv'
    BY <2>1 DEF SeenInv, GreetedInv, MaxSeq, Seqs, chatOf
  <2>5. ClientsInv'
    <3>. SUFFICES ASSUME NEW q \in Procs, pc'[q] = "wait", req'[q].kind = "send", Live(chatOf(q))'
                  PROVE  Saw(req[q], chatOf(q))'
      BY DEF ClientsInv
    <3>1. PICK c, r : c = chatOf(q) /\ r = req[q]
      OBVIOUS
    <3>2. Saw(r, c)
      BY <2>1, <3>1 DEF SeenInv, ClientsInv, Live, chatOf
    <3>3. AnsweredTip(c)' = AnsweredTip(c)
      BY <2>2
    <3>4. AnsweredTip(chatOf(q))' = AnsweredTip(c)'
      BY <2>1, <3>1 DEF AnsweredTip, Asked, MaxSeq, Seqs, chatOf
    <3>5. chatOf(q)' = c /\ req'[q] = r
      BY <2>1, <3>1 DEF chatOf
    <3>. QED  BY <2>1, <3>2, <3>3, <3>4, <3>5 DEF Saw
  <2>. QED  BY <2>3, <2>4, <2>5 DEF SeenInv
<1>3. CASE Restart
  <2>1. \A q \in Procs : pc'[q] = "idle"
    BY <1>3 DEF Restart
  <2>. QED  BY <2>1 DEF SeenInv, NoRewriting, GreetedInv, ClientsInv, AcceptedInv, SwipeSteps, Swiping
<1>. QED  BY <1>1, <1>2, <1>3, CallKeepsSeen DEF Next

LEMMA InitSeen == Init => SeenInv
<1>1. Init => \A q \in Procs : pc[q] = "idle"
  BY DEF Init
<1>. QED  BY <1>1, InitWriter DEF SeenInv, NoRewriting, GreetedInv, ClientsInv, AcceptedInv, SwipeSteps,
          Swiping

(***************************************************************************)
(* "a stale device can't inject an incoherent turn" (data-model.md:103):   *)
(* a send that is accepted answers the canon its client saw, to the last   *)
(* text, whatever other sends succeed, fail or are cut off by a restart in *)
(* between.  The check of expectedSeq (send.ts) is enough for that, as     *)
(* long as no request rewrites a text in place, which expectedSeq does not *)
(* show, and no client acts on a chat whose startChat or fork has not      *)
(* answered yet.                                                           *)
(***************************************************************************)
THEOREM AcceptedSendsAreNotStale ==
  ASSUME ~Eager, RewritingKinds \intersect Kinds = {}
  PROVE  Spec => []AcceptedTurnIsCoherent
<1>1. SeenInv /\ [Next]_vars => SeenInv'
  BY NextKeepsSeen
<1>2. SeenInv => AcceptedTurnIsCoherent
  <2>. SUFFICES ASSUME SeenInv, NEW p \in Procs, pc[p] = "send.insert"
                PROVE  req[p].seen = Shown(chatOf(p))
    BY DEF AcceptedTurnIsCoherent
  <2>1. CanonInv
    BY DEF SeenInv, OneWriter, VariantInv
  <2>. QED  BY <2>1, ShownIs, Rows DEF SeenInv, AcceptedInv, CanonInv
<1>. QED  BY InitSeen, <1>1, <1>2, PTL DEF Spec

\* What a chat's messages before a seq say; what a session says.
Before(c, s) == Words(messages[c], s - 1)
Told(s) == Said(FramesOf(s))

-----------------------------------------------------------------------------
(***************************************************************************)
(* What appending and dropping do to what sessions say.                    *)
(***************************************************************************)
LEMMA AppendsFrames ==
  ASSUME NEW s, NEW c, NEW ff, ff # <<>>, sessions' = Appended(s, c, ff)
  PROVE  /\ DOMAIN sessions' = DOMAIN sessions \union {s}
         /\ sessions'[s].chat = c /\ FramesOf(s)' = FramesOf(s) \o ff
         /\ \A t \in DOMAIN sessions \ {s} : sessions'[t] = sessions[t]
         /\ \A t : t # s => FramesOf(t)' = FramesOf(t)
<1>1. sessions' = [t \in DOMAIN sessions \union {s} |->
          IF t = s THEN [chat |-> c, frames |-> FramesOf(s) \o ff] ELSE sessions[t]]
  BY DEF Appended
<1>2. sessions'[s] = [chat |-> c, frames |-> FramesOf(s) \o ff]
  BY <1>1
<1>3. sessions'[s].chat = c /\ sessions'[s].frames = FramesOf(s) \o ff
  BY <1>2
<1>4. \A t \in DOMAIN sessions \ {s} : sessions'[t] = sessions[t]
  BY <1>1
<1>. QED  BY <1>1, <1>3, <1>4 DEF FramesOf

LEMMA DropsFrames ==
  ASSUME NEW dead, sessions' = DroppedAll(dead)
  PROVE  /\ DOMAIN sessions' = DOMAIN sessions \ dead
         /\ \A t \in DOMAIN sessions \ dead : sessions'[t] = sessions[t]
         /\ \A t : t \notin dead => FramesOf(t)' = FramesOf(t)
BY DEF DroppedAll, FramesOf

\* One frame more.
LEMMA SaysOneMore ==
  ASSUME NEW ff, ff \in Seq(Frame), NEW f, f \in Frame
  PROVE  /\ ff \o <<f>> \in Seq(Frame)
         /\ f.kind = "summary" => Said(ff \o <<f>>) = f.says
         /\ f.kind # "summary" => Said(ff \o <<f>>) = Said(ff) \o f.says
<1>1. PICK gg \in Seq(Frame) : gg = ff
  OBVIOUS
<1>2. PICK g \in Frame : g = f
  OBVIOUS
<1>3. gg \o <<g>> = Append(gg, g) /\ Append(gg, g) \in Seq(Frame)
  OBVIOUS
<1>. QED  BY <1>1, <1>2, <1>3, SaidStep

LEMMA TurnIs ==
  ASSUME NEW role \in {"user", "assistant"}, NEW b \in Nat
  PROVE  /\ Turn(role, b) \in Frame /\ Turn(role, b).kind # "summary"
         /\ Turn(role, b).says = <<b>>
<1>1. <<b>> \in Seq(Nat) /\ role \in FrameKinds
  BY DEF FrameKinds
<1>. QED  BY <1>1 DEF Turn, Frame

LEMMA StubIs == Stub \in Frame /\ Stub.kind # "summary" /\ Stub.says = <<>>
BY StubIsFrame DEF Stub

\* A frame that tells what f says comes to a session that says nothing else new.
LEMMA AppendsTold ==
  ASSUME TypeOK, NEW s, NEW c, NEW f, f \in Frame, sessions' = Appended(s, c, <<f>>)
  PROVE  /\ Told(s)' = IF f.kind = "summary" THEN f.says ELSE Told(s) \o f.says
         /\ s \in DOMAIN sessions'
<1>0. FramesOf(s) \in Seq(Frame) /\ <<f>> # <<>>
  BY FramesAre DEF TypeOK
<1>1. FramesOf(s)' = FramesOf(s) \o <<f>> /\ s \in DOMAIN sessions'
  BY <1>0, AppendsFrames
<1>2. PICK ff : ff = FramesOf(s)
  OBVIOUS
<1>3. Said(ff \o <<f>>) = IF f.kind = "summary" THEN f.says ELSE Said(ff) \o f.says
  BY <1>0, <1>2, SaysOneMore
<1>. QED  BY <1>1, <1>2, <1>3 DEF Told

\* A session that had no frames says what it is seeded with.
LEMMA SeedsTold ==
  ASSUME NEW s, s \notin DOMAIN sessions, NEW c, NEW ff, ff \in Seq(Frame),
         sessions' = Appended(s, c, ff)
  PROVE  Told(s)' = Said(ff)
<1>0. FramesOf(s) = <<>>
  BY DEF FramesOf
<1>1. CASE ff = <<>>
  <2>1. sessions' = sessions
    BY <1>1 DEF Appended
  <2>2. FramesOf(s)' = <<>>
    BY <2>1 DEF FramesOf
  <2>. QED  BY <1>1, <2>2 DEF Told
<1>2. CASE ff # <<>>
  <2>1. PICK gg \in Seq(Frame) : gg = ff
    OBVIOUS
  <2>2. FramesOf(s)' = <<>> \o gg
    BY <1>0, <1>2, <2>1, AppendsFrames
  <2>3. <<>> \o gg = gg
    OBVIOUS
  <2>. QED  BY <2>1, <2>2, <2>3 DEF Told
<1>. QED  BY <1>1, <1>2

\* A session that goes on, with a prompt that says x: under its id or a new one.
LEMMA OpensTold ==
  ASSUME TypeOK, nextSession \notin DOMAIN sessions,
         NEW p \in Procs, NEW s, NEW f, f \in Frame, f.kind # "summary", Opens(p, s, f)
  PROVE  \E n, ff :
           /\ loc' = [loc EXCEPT ![p].sid = n] /\ loc'[p].sid = n
           /\ sessions' = Appended(n, chatOf(p), ff) /\ ff # <<>>
           /\ Told(n)' = Told(s) \o f.says /\ n \in DOMAIN sessions'
           /\ \/ n = s /\ s \in DOMAIN sessions /\ nextSession' = nextSession
              \/ n = nextSession /\ nextSession' = nextSession + 1
                 /\ (s \in DOMAIN sessions => SdkForks)
<1>0. FramesOf(s) \in Seq(Frame) /\ DOMAIN loc = Procs /\ loc[p] \in Locals
  BY FramesAre DEF TypeOK, RequestsOK
<1>1. CASE /\ s \in DOMAIN sessions /\ sessions' = Appended(s, chatOf(p), <<f>>)
           /\ loc' = [loc EXCEPT ![p].sid = s] /\ nextSession' = nextSession
  <2>1. loc'[p].sid = s
    BY <1>0, <1>1 DEF Locals
  <2>2. Told(s)' = Told(s) \o f.says /\ s \in DOMAIN sessions'
    BY <1>1, AppendsTold
  <2>3. <<f>> # <<>>
    OBVIOUS
  <2>. QED  BY <1>1, <2>1, <2>2, <2>3
<1>2. CASE /\ s \in DOMAIN sessions => SdkForks
           /\ sessions' = Appended(nextSession, chatOf(p), FramesOf(s) \o <<f>>)
           /\ loc' = [loc EXCEPT ![p].sid = nextSession] /\ nextSession' = nextSession + 1
  <2>1. PICK n : n = nextSession
    OBVIOUS
  <2>2. loc'[p].sid = n
    BY <1>0, <1>2, <2>1 DEF Locals
  <2>3. PICK ff : ff = FramesOf(s)
    OBVIOUS
  <2>4. PICK gg : gg = ff \o <<f>>
    OBVIOUS
  <2>5. ff \in Seq(Frame) /\ gg \in Seq(Frame) /\ gg # <<>> /\ Said(gg) = Said(ff) \o f.says
    <3>1. gg \in Seq(Frame) /\ Said(gg) = Said(ff) \o f.says
      BY <1>0, <2>3, <2>4, SaysOneMore
    <3>2. PICK hh \in Seq(Frame) : hh = ff
      BY <1>0, <2>3
    <3>3. hh \o <<f>> # <<>>
      BY <3>2
    <3>. QED  BY <2>4, <3>1, <3>2, <3>3
  <2>6. sessions' = Appended(n, chatOf(p), gg)
    BY <1>2, <2>1, <2>3, <2>4
  <2>7. Told(n)' = Said(gg)
    BY <2>1, <2>5, <2>6, SeedsTold
  <2>8. n \in DOMAIN sessions'
    BY <2>5, <2>6, AppendsFrames
  <2>9. Told(n)' = Told(s) \o f.says
    BY <2>3, <2>5, <2>7 DEF Told
  <2>10. loc' = [loc EXCEPT ![p].sid = n]
    BY <1>2, <2>1
  <2>. QED  BY <1>2, <2>1, <2>2, <2>5, <2>6, <2>8, <2>9, <2>10
<1>. QED  BY <1>1, <1>2 DEF Opens

-----------------------------------------------------------------------------
(***************************************************************************)
(* What histories and copies say, and what becomes of a chat's texts.      *)
(***************************************************************************)
LEMMA HistorySays ==
  ASSUME CanonInv, NEW c \in ChatIds, NEW b \in Nat, b <= MaxSeq(c) + 1
  PROVE  Said(History(c, -1, b)) = Before(c, b) /\ History(c, -1, b) \in Seq(Frame)
<1>0. MessageTable(messages[c])
  BY DEF CanonInv, TypeOK, MessagesOK
<1>1. PICK top \in Nat : top = MaxSeq(c)
  BY TipIs DEF CanonInv
<1>2. PICK t : t = messages[c]
  OBVIOUS
<1>3. PICK u : u = [n \in {n \in DOMAIN t : n < b} |-> t[n]]
  OBVIOUS
<1>4. DOMAIN u = {n \in DOMAIN t : n < b} /\ \A n \in DOMAIN u : u[n] = t[n]
  BY <1>3
<1>5. MessageTable(u) /\ MessageTable(t)
  BY <1>0, <1>2, <1>4 DEF MessageTable
<1>. DEFINE turn(s) == IF s \in DOMAIN t /\ -1 < s /\ s < b THEN <<CanonTurn(t[s])>> ELSE <<>>
            heard == [i \in 1..top + 1 |-> turn(i - 1)]
            told == [i \in 1..top + 1 |-> Part(u, i - 1)]
<1>6. History(c, -1, b) = Lists!FlattenSeq(heard)
  BY <1>1, <1>2 DEF History, Seqs
<1>7. Turns(u, top) = Lists!FlattenSeq(told)
  BY DEF Turns
<1>8. heard = told
  <2>1. ASSUME NEW i \in 1..top + 1 PROVE turn(i - 1) = Part(u, i - 1)
    <3>1. -1 < i - 1
      BY <1>1
    <3>. QED  BY <1>4, <3>1 DEF Part
  <2>. HIDE DEF turn
  <2>. QED  BY <2>1
<1>. HIDE DEF heard, told
<1>9. Said(History(c, -1, b)) = Words(u, top) /\ History(c, -1, b) \in Seq(Frame)
  <2>1. History(c, -1, b) = Turns(u, top)
    BY <1>6, <1>7, <1>8
  <2>2. Turns(u, top) \in Seq(Frame)
    BY <1>5, TurnsAre
  <2>. QED  BY <2>1, <2>2 DEF Words
<1>10. PICK k \in Nat \union {-1} : k = b - 1 /\ k <= top
  BY <1>1
<1>11. Words(u, top) = Words(u, k)
  <2>1. \A n \in DOMAIN u : n <= k
    BY <1>4, <1>5, <1>10 DEF MessageTable
  <2>. QED  BY <1>1, <1>5, <1>10, <2>1, WordsEnd
<1>12. Words(u, k) = Words(t, k)
  <2>1. \A n \in 0..k : Word(u, n) = Word(t, n)
    <3>. TAKE n \in 0..k
    <3>1. n < b
      BY <1>10
    <3>2. n \in DOMAIN u <=> n \in DOMAIN t
      BY <1>4, <3>1
    <3>. QED  BY <1>4, <3>2 DEF Word
  <2>. QED  BY <1>5, <1>10, <2>1, WordsAgree
<1>. QED  BY <1>2, <1>9, <1>10, <1>11, <1>12 DEF Before

LEMMA ForkSays ==
  ASSUME NEW p \in Procs
  PROVE  Said(ForkFrames(p)) = Words(copy[p], TopOf(DOMAIN copy[p]))
BY DEF ForkFrames, Words, Turns, Part

\* A chat without messages has no texts.
LEMMA NoTexts ==
  ASSUME CanonInv, NEW c \in ChatIds, Seqs(c) = {}
  PROVE  MaxSeq(c) = 0 /\ Texts(c) = <<>> /\ Before(c, 1) = <<>>
<1>0. MessageTable(messages[c])
  BY DEF CanonInv, TypeOK, MessagesOK
<1>1. MaxSeq(c) = 0
  BY DEF MaxSeq
<1>2. Word(messages[c], 0) = <<>>
  BY DEF Word, Seqs
<1>3. 0 \in Nat /\ 0 - 1 = -1 /\ 1 - 1 = 0 /\ <<>> \o <<>> = <<>>
  OBVIOUS
<1>4. PICK z : z = 0
  OBVIOUS
<1>5. Words(messages[c], z) = Words(messages[c], z - 1) \o Word(messages[c], z)
  BY <1>0, <1>3, <1>4, WordsStep
<1>6. Words(messages[c], 0) = <<>>
  BY <1>2, <1>3, <1>4, <1>5, WordsStart
<1>. QED  BY <1>1, <1>3, <1>6 DEF Texts, Before

\* A row at the end of a chat: its text comes last.
LEMMA TextsGrow ==
  ASSUME CanonInv, CanonInv', NEW c \in ChatIds, NEW m \in Message, NEW s \in Nat,
         s = MaxSeq(c) + 1, messages' = WithMessage(c, s, m)
  PROVE  /\ MaxSeq(c)' = s /\ Seqs(c)' # {} /\ messages'[c][s] = m
         /\ Texts(c)' = Append(Texts(c), m.body) /\ Before(c, s)' = Texts(c)
<1>0. /\ MessagesOK /\ MessageTable(messages[c]) /\ MessageTable(messages'[c])
      /\ CanonRuns /\ CanonRuns'
  BY DEF CanonInv, TypeOK, MessagesOK
<1>1. PICK n \in Nat : n = MaxSeq(c) /\ s = n + 1
  BY TipIs DEF CanonInv
<1>2. /\ Seqs(c)' = Seqs(c) \union {s} /\ messages'[c][s] = m
      /\ \A i \in Seqs(c) \ {s} : messages'[c][i] = messages[c][i]
  BY <1>0, RowInserted
<1>3. \A i \in Seqs(c) : i \in Nat /\ i <= n
  BY <1>0, <1>1, BehindTip
<1>4. MaxSeq(c)' = s
  <2>1. MaxSeq(c)' \in Seqs(c)' /\ s <= MaxSeq(c)' /\ MaxSeq(c)' \in Nat
    BY <1>0, <1>2, TipWillBe
  <2>. QED  BY <1>1, <1>2, <1>3, <2>1
<1>5. PICK t : t = messages[c] /\ DOMAIN t = Seqs(c)
  BY DEF Seqs
<1>6. PICK u : u = messages'[c] /\ DOMAIN u = Seqs(c)'
  BY DEF Seqs
<1>7. Words(u, n) = Words(t, n)
  <2>1. \A i \in 0..n : Word(u, i) = Word(t, i)
    <3>. TAKE i \in 0..n
    <3>1. i # s
      BY <1>1
    <3>. QED  BY <1>2, <1>5, <1>6, <3>1 DEF Word
  <2>. QED  BY <1>0, <1>1, <1>5, <1>6, <2>1, WordsAgree
<1>8. Words(u, s) = Words(u, n) \o <<m.body>>
  <2>1. Word(u, s) = <<m.body>> /\ s - 1 = n
    BY <1>1, <1>2, <1>6 DEF Word
  <2>2. Words(u, s) = Words(u, s - 1) \o Word(u, s)
    BY <1>0, <1>6, WordsStep
  <2>. QED  BY <2>1, <2>2
<1>9. Words(t, n) \in Seq(Nat)
  BY <1>0, <1>1, <1>5, WordsType
<1>10. Words(t, n) \o <<m.body>> = Append(Words(t, n), m.body)
  <2>1. PICK w \in Seq(Nat) : w = Words(t, n)
    BY <1>9
  <2>2. m.body \in Nat
    BY DEF Message
  <2>3. w \o <<m.body>> = Append(w, m.body)
    BY <2>1, <2>2
  <2>. QED  BY <2>1, <2>3
<1>11. Texts(c)' = Words(u, s) /\ Texts(c) = Words(t, n) /\ Before(c, s)' = Words(u, n)
  BY <1>1, <1>4, <1>5, <1>6 DEF Texts, Before
<1>12. Seqs(c)' # {}
  BY <1>2
<1>. QED  BY <1>2, <1>4, <1>7, <1>8, <1>10, <1>11, <1>12

\* Rows that keep their texts: so does the chat.
LEMMA TextsStay ==
  ASSUME CanonInv, CanonInv', NEW c \in ChatIds, Seqs(c)' = Seqs(c),
         \A s \in Seqs(c) : messages'[c][s].body = messages[c][s].body
  PROVE  /\ MaxSeq(c)' = MaxSeq(c) /\ Texts(c)' = Texts(c)
         /\ \A b \in Nat : Before(c, b)' = Before(c, b)
<1>0. MessageTable(messages[c]) /\ MessageTable(messages'[c])
  BY DEF CanonInv, TypeOK, MessagesOK
<1>1. MaxSeq(c)' = MaxSeq(c)
  BY DEF MaxSeq
<1>2. PICK t : t = messages[c] /\ DOMAIN t = Seqs(c)
  BY DEF Seqs
<1>3. PICK u : u = messages'[c] /\ DOMAIN u = Seqs(c)
  BY DEF Seqs
<1>4. \A n \in Nat : Word(u, n) = Word(t, n)
  BY <1>2, <1>3 DEF Word
<1>5. ASSUME NEW k \in Nat \union {-1} PROVE Words(u, k) = Words(t, k)
  BY <1>0, <1>2, <1>3, <1>4, WordsAgree
<1>6. PICK n \in Nat : n = MaxSeq(c)
  BY TipIs DEF CanonInv
<1>7. Texts(c)' = Texts(c)
  BY <1>1, <1>2, <1>3, <1>5, <1>6 DEF Texts
<1>8. ASSUME NEW b \in Nat PROVE Words(u, b - 1) = Words(t, b - 1)
  <2>1. b - 1 \in Nat \union {-1}
    OBVIOUS
  <2>. QED  BY <1>5, <2>1
<1>. QED  BY <1>1, <1>2, <1>3, <1>7, <1>8 DEF Before

\* The tip gets another text.
LEMMA TipRewritten ==
  ASSUME CanonInv, CanonInv', NEW c \in ChatIds, Seqs(c)' = Seqs(c), Seqs(c) # {},
         NEW s \in Nat, s = MaxSeq(c), NEW b \in Nat, messages'[c][s].body = b,
         \A i \in Seqs(c) \ {s} : messages'[c][i] = messages[c][i]
  PROVE  /\ MaxSeq(c)' = s /\ Texts(c)' = Append(Before(c, s), b)
<1>0. MessageTable(messages[c]) /\ MessageTable(messages'[c])
  BY DEF CanonInv, TypeOK, MessagesOK
<1>1. MaxSeq(c)' = s /\ s \in Seqs(c) /\ s # 0
  <2>1. MaxSeq(c)' = MaxSeq(c)
    BY DEF MaxSeq
  <2>. QED  BY <2>1, TipIs DEF CanonInv
<1>2. PICK t : t = messages[c] /\ DOMAIN t = Seqs(c)
  BY DEF Seqs
<1>3. PICK u : u = messages'[c] /\ DOMAIN u = Seqs(c)
  BY DEF Seqs
<1>4. PICK k \in Nat : k = s - 1
  BY <1>1
<1>5. Words(u, k) = Words(t, k)
  <2>1. \A i \in 0..k : Word(u, i) = Word(t, i)
    <3>. TAKE i \in 0..k
    <3>1. i # s
      BY <1>4
    <3>. QED  BY <1>2, <1>3, <3>1 DEF Word
  <2>. QED  BY <1>0, <1>2, <1>3, <1>4, <2>1, WordsAgree
<1>6. Word(u, s) = <<b>>
  BY <1>1, <1>3 DEF Word
<1>7. Words(u, s) = Words(u, k) \o <<b>>
  BY <1>0, <1>3, <1>4, <1>6, WordsStep
<1>8. PICK w \in Seq(Nat) : w = Words(t, k)
  BY <1>0, <1>2, <1>4, WordsType
<1>9. w \o <<b>> = Append(w, b)
  BY <1>8
<1>. QED  BY <1>1, <1>2, <1>3, <1>4, <1>5, <1>7, <1>8, <1>9 DEF Texts, Before

\* The texts before a row, and its own.
LEMMA BeforeStep ==
  ASSUME CanonInv, NEW c \in ChatIds, NEW s \in Seqs(c)
  PROVE  /\ Before(c, s) \in Seq(Nat) /\ messages[c][s].body \in Nat
         /\ Before(c, s + 1) = Before(c, s) \o <<messages[c][s].body>>
<1>0. MessageTable(messages[c])
  BY DEF CanonInv, TypeOK, MessagesOK
<1>1. PICK n \in Nat : n = s /\ n + 1 - 1 = n
  BY <1>0 DEF MessageTable, Seqs
<1>2. Word(messages[c], n) = <<messages[c][n].body>>
  BY <1>1 DEF Word, Seqs
<1>3. messages[c][s].body \in Nat
  BY <1>0, RowIs DEF Seqs
<1>4. /\ Words(messages[c], n) = Words(messages[c], n - 1) \o Word(messages[c], n)
      /\ Words(messages[c], n - 1) \in Seq(Nat)
  BY <1>0, <1>1, WordsStep
<1>. QED  BY <1>1, <1>2, <1>3, <1>4 DEF Before

-----------------------------------------------------------------------------
(***************************************************************************)
(* Whose a session is.                                                     *)
(***************************************************************************)
\* Before a request has made or taken up a session.
Early == {"idle", "wait", "start.row", "swipe.seed", "fork.load", "fork.read", "fork.row"}
Hands(p) == {loc[p].sid, loc[p].seeded}
EmptyHanded == \A p \in Procs : pc[p] \in Early => loc[p].sid = 0 /\ loc[p].seeded = 0

\* A chat claims its session and what its writer has in hand.
Claims(c) == ({chats[c].session} \union UNION {Hands(p) : p \in {q \in Procs : Writes(q, c)}}) \ {0}
Numbered ==
  /\ nextSession >= 1
  /\ \A s \in DOMAIN sessions : 1 <= s /\ s < nextSession
  /\ \A c \in ChatIds : chats[c].session < nextSession
  /\ \A p \in Procs : loc[p].sid < nextSession /\ loc[p].seeded < nextSession
Apart == \A c, d \in ChatIds : c # d => Claims(c) \intersect Claims(d) = {}
Bound == \A c \in ChatIds : \A s \in Claims(c) \intersect DOMAIN sessions : sessions[s].chat = c
HeldInv == EmptyHanded /\ Numbered /\ Apart /\ Bound

-----------------------------------------------------------------------------
(***************************************************************************)
(* What the session of a chat says at a step of its writer.                *)
(***************************************************************************)
\* The steps at which it is the one in the writer's hands.
SidSteps == {"send.reply", "send.persist", "send.update", "compact.turn", "compact.persist",
             "swipe.reply", "swipe.backfill", "swipe.variant", "swipe.message", "swipe.drop",
             "swipe.update", "reseed.point", "provider.session", "provider.update",
             "greet.update", "open.reply", "open.insert", "open.update",
             "fork.messages", "fork.seed"}
Hand(p, c) ==
  IF pc[p] = "swipe.turn" THEN loc[p].seeded
  ELSE IF pc[p] \in SidSteps THEN loc[p].sid ELSE chats[c].session

\* What that session says.
Due(p, c) ==
  IF pc[p] \in {"send.turn", "swipe.reply"} THEN Before(c, loc[p].seq)
  ELSE IF pc[p] = "swipe.turn" THEN Before(c, RegenFrom(c, loc[p].seq))
  ELSE IF pc[p] \in {"send.persist", "open.insert"} THEN Append(Texts(c), loc[p].body)
  ELSE IF pc[p] \in {"swipe.backfill", "swipe.variant", "swipe.message"}
       THEN Append(Before(c, loc[p].seq), loc[p].body)
  ELSE IF pc[p] = "fork.seed" THEN <<>>
  ELSE Texts(c)
\* The session is about to be replaced.
Loose == {"edit.variant", "reseed.drop", "reseed.seed", "greet.seed"}
WillBe(p, c) == IF pc[p] = "provider.update" THEN req[p].api ELSE chats[c].api
Speaks(p, c) ==
  (pc[p] \notin Loose /\ WillBe(p, c) = "agent-sdk") => Told(Hand(p, c)) = Due(p, c)

\* What a writer knows of its chat: its row, its session, its tip, its texts.
OnTip == Swiping \union {"swipe.variant", "swipe.message"}
ReadsRow == {"send.insert", "send.turn", "send.reply", "send.persist", "send.update",
             "edit.variant", "reseed.drop", "provider.session",
             "open.turn", "open.reply", "open.insert", "open.update",
             "swipe.drop", "swipe.update"} \union OnTip
OnAgent == {"compact.turn", "compact.persist", "reseed.drop", "reseed.seed", "reseed.point",
            "greet.seed"}
Blank == {"greet.insert", "open.load", "open.turn", "open.reply", "open.insert", "fork.messages"}
Forking == {"fork.messages", "fork.seed"}
KnowsRow(p, c) ==
  /\ pc[p] \notin {"send.rollback", "swipe.abandon"}
  /\ pc[p] \in ReadsRow => /\ loc[p].row.api = chats[c].api
                           /\ loc[p].row.session = chats[c].session
  /\ pc[p] \in OnAgent => chats[c].api = "agent-sdk"
  /\ pc[p] \in Greeting \union Forking => chats[c].api = req[p].api
KnowsSession(p, c) ==
  /\ pc[p] \in {"compact.turn", "compact.persist", "provider.session"} =>
       loc[p].sid = chats[c].session
  /\ (pc[p] = "provider.update" /\ req[p].api # "agent-sdk") => loc[p].sid = 0
  /\ (pc[p] \in {"send.reply", "swipe.reply", "open.reply"} /\ loc[p].row.api = "agent-sdk") =>
       loc[p].sid \in DOMAIN sessions
  /\ pc[p] \in Forking => /\ loc[p].sid # 0 /\ loc[p].sid \notin DOMAIN sessions
                          /\ req[p].api = "agent-sdk" => loc[p].sid = chats[c].session
KnowsTexts(p, c) ==
  /\ pc[p] \in Blank => Seqs(c) = {}
  /\ pc[p] = "greet.seed" => Texts(c) = <<loc[p].body>>
  /\ pc[p] = "fork.seed" => /\ Seqs(c) = DOMAIN copy[p]
                            /\ \A s \in Seqs(c) : messages[c][s] = copy[p][s]
  /\ pc[p] = "send.insert" => loc[p].seq = MaxSeq(c) + 1
  /\ pc[p] \in OnTip => loc[p].seq = MaxSeq(c) /\ Seqs(c) # {}
  /\ pc[p] \in {"swipe.seed", "swipe.turn"} => messages[c][loc[p].seq].role = "assistant"

NoneHere(c) == chats[c].api = "openrouter" => chats[c].session = 0
Stable(c) == chats[c].api = "agent-sdk" => Told(chats[c].session) = Texts(c)
Heard(p, c) ==
  NoneHere(c) /\ KnowsRow(p, c) /\ KnowsSession(p, c) /\ KnowsTexts(p, c) /\ Speaks(p, c)
Voiced(c) ==
  /\ NoneHere(c)
  /\ \A p \in Procs : Writes(p, c) => Heard(p, c)
  /\ (\A p \in Procs : ~Writes(p, c)) => Stable(c)

Undisturbed == used.crashes = 0 /\ used.failures = 0
SessionInv ==
  OneWriter /\ (Undisturbed => HeldInv /\ \A c \in ChatIds : Live(c) => Voiced(c))

-----------------------------------------------------------------------------
(***************************************************************************)
(* What a chat's writer hears, step by step.                               *)
(***************************************************************************)
Ready(p, c) == OneWriter /\ HeldInv /\ Live(c) /\ Mine(p, c) /\ Heard(p, c)

LEMMA ReadyIs ==
  ASSUME OneWriter, HeldInv, NEW c \in ChatIds
  PROVE  /\ CanonInv /\ CanonRuns /\ TypeOK /\ MessagesOK /\ SessionsOK /\ RequestsOK
         /\ DOMAIN pc = Procs /\ DOMAIN req = Procs /\ DOMAIN loc = Procs
         /\ DOMAIN chats = ChatIds /\ DOMAIN messages = ChatIds /\ DOMAIN copy = Procs
         /\ nextSession \notin DOMAIN sessions /\ 0 \notin DOMAIN sessions /\ nextSession # 0
         /\ Told(0) = <<>> /\ chats[c] \in ChatRow /\ MaxSeq(c) \in Nat
         /\ nextBody \in Nat /\ nextSession \in Nat
<1>1. CanonInv /\ CanonRuns /\ TypeOK /\ MessagesOK /\ SessionsOK /\ RequestsOK /\ ChatsOK
  BY DEF OneWriter, VariantInv, CanonInv, TypeOK
<1>2. /\ DOMAIN pc = Procs /\ DOMAIN req = Procs /\ DOMAIN loc = Procs
      /\ DOMAIN chats = ChatIds /\ DOMAIN messages = ChatIds /\ DOMAIN copy = Procs
      /\ chats[c] \in ChatRow /\ nextBody \in Nat /\ nextSession \in Nat
  BY <1>1 DEF CanonInv, LineInv, Shapes, ForksCopy, ChatsOK, MessagesOK, RequestsOK
<1>3. nextSession \notin DOMAIN sessions /\ 0 \notin DOMAIN sessions /\ nextSession # 0
  BY <1>2 DEF HeldInv, Numbered
<1>4. Told(0) = <<>>
  BY <1>3, SaidNothing DEF Told, FramesOf
<1>. QED  BY <1>1, <1>2, <1>3, <1>4, TipIs

LEMMA MineAt ==
  ASSUME NEW p, NEW c, Mine(p, c)
  PROVE  IF pc[p] \in Forking THEN req[p].target = c ELSE chatOf(p) = c
BY DEF Mine, Writes, Builds, Forking, Greeting, OpenSteps, LockedSteps

\* The session in hand, by its name.
LEMMA SpeaksThen ==
  ASSUME NEW p, NEW c, NEW h, (WillBe(p, c) = "agent-sdk")' => h = Hand(p, c)' /\ Told(h)' = Due(p, c)'
  PROVE  Speaks(p, c)'
BY DEF Speaks, Told, FramesOf

LEMMA SpokeOf ==
  ASSUME NEW p, NEW c, Speaks(p, c), pc[p] \notin Loose, WillBe(p, c) = "agent-sdk"
  PROVE  \E h : h = Hand(p, c) /\ Told(h) = Due(p, c)
BY DEF Speaks

\* Steps that write no table.
LEMMA TablesStay ==
  ASSUME NEW c, UNCHANGED tables
  PROVE  /\ chats'[c] = chats[c] /\ Seqs(c)' = Seqs(c) /\ MaxSeq(c)' = MaxSeq(c)
         /\ Texts(c)' = Texts(c) /\ \A b \in Nat : Before(c, b)' = Before(c, b)
         /\ \A h : Told(h)' = Told(h)
         /\ messages'[c] = messages[c] /\ sessions' = sessions
BY DEF tables, Seqs, MaxSeq, Texts, Before, Told, FramesOf

LEMMA Pauses ==
  ASSUME NEW p \in Procs, NEW c \in ChatIds, Ready(p, c), UNCHANGED tables,
         pc'[p] \in {"idle", "wait"},
         pc[p] \in {"wait", "send.insert", "compact.turn", "start.send"}
  PROVE  Heard(p, c)'
<1>1. /\ chats'[c] = chats[c] /\ Texts(c)' = Texts(c) /\ \A h : Told(h)' = Told(h)
  BY TablesStay
<1>2. chats[c].api = "agent-sdk" => Told(chats[c].session) = Texts(c)
  BY DEF Ready, Heard, Speaks, KnowsSession, Hand, Due, WillBe, Loose, SidSteps
<1>3. Speaks(p, c)'
  <2>1. PICK h : h = chats[c].session
    OBVIOUS
  <2>2. chats[c].api = "agent-sdk" => Told(h)' = Texts(c)'
    BY <1>1, <1>2, <2>1
  <2>3. Hand(p, c)' = h /\ Due(p, c)' = Texts(c)' /\ WillBe(p, c)' = chats[c].api
    BY <1>1, <2>1 DEF Hand, Due, WillBe, SidSteps
  <2>. QED  BY <2>2, <2>3, SpeaksThen
<1>4. NoneHere(c)'
  BY <1>1 DEF Ready, Heard, NoneHere
<1>. QED  BY <1>3, <1>4 DEF Heard, KnowsRow, KnowsSession, KnowsTexts, ReadsRow, OnTip, Swiping, OnAgent,
     Blank, Forking, Greeting

\* An operation begins: it reads the row, and the tip.
LEMMA Begins ==
  ASSUME NEW p \in Procs, NEW c \in ChatIds, Ready(p, c),
         \/ BeginSend(p) \/ BeginCompact(p) \/ BeginSwipe(p) \/ BeginProvider(p) \/ OpenLoad(p)
  PROVE  Heard(p, c)'
<1>0. chatOf(p) = c /\ Live(c) /\ OneWriter /\ HeldInv
  BY MineAt DEF Ready, Forking, BeginSend, BeginCompact, BeginSwipe, BeginProvider, OpenLoad, Granted
<1>1. DOMAIN pc = Procs /\ DOMAIN loc = Procs /\ CanonInv /\ RequestsOK
  BY <1>0, ReadyIs
<1>2. /\ chats'[c] = chats[c] /\ Texts(c)' = Texts(c) /\ \A h : Told(h)' = Told(h)
      /\ Seqs(c)' = Seqs(c) /\ MaxSeq(c)' = MaxSeq(c) /\ messages' = messages /\ sessions' = sessions
      /\ req' = req
  BY <1>0, TablesStay DEF BeginSend, BeginCompact, BeginSwipe, BeginProvider, OpenLoad, tables
<1>3. chats[c].api = "agent-sdk" => Told(chats[c].session) = Texts(c)
  BY DEF Ready, Heard, Speaks, KnowsSession, Hand, Due, WillBe, Loose, SidSteps, BeginSend, BeginCompact,
     BeginSwipe, BeginProvider, OpenLoad, Granted
<1>4. PICK l \in Locals : l = loc[p]
  BY <1>1 DEF RequestsOK
<1>5. /\ pc'[p] \in {"send.insert", "compact.turn", "swipe.seed", "provider.session", "open.turn"}
      /\ loc'[p].row = chats[c]
      /\ pc'[p] = "send.insert" => loc'[p].seq = MaxSeq(c) + 1
      /\ pc'[p] = "swipe.seed" =>
           loc'[p].seq = MaxSeq(c) /\ Seqs(c) # {} /\ messages[c][MaxSeq(c)].role = "assistant"
      /\ pc'[p] = "compact.turn" => chats[c].api = "agent-sdk"
      /\ pc'[p] \in {"compact.turn", "provider.session"} => loc'[p].sid = chats[c].session
      /\ pc'[p] = "open.turn" => Seqs(c) = {}
  <2>1. CASE BeginSend(p)
    BY <1>0, <1>1, <1>4, <2>1 DEF BeginSend, Locals
  <2>2. CASE BeginCompact(p)
    BY <1>0, <1>1, <1>4, <2>2 DEF BeginCompact, Locals
  <2>3. CASE BeginSwipe(p)
    BY <1>0, <1>1, <1>4, <2>3 DEF BeginSwipe, Locals
  <2>4. CASE BeginProvider(p)
    BY <1>0, <1>1, <1>4, <2>4 DEF BeginProvider, Locals
  <2>5. CASE OpenLoad(p)
    BY <1>0, <1>1, <1>4, <2>5 DEF OpenLoad, Locals, Ready, Heard, KnowsTexts, Blank
  <2>. QED  BY <2>1, <2>2, <2>3, <2>4, <2>5
<1>6. Speaks(p, c)'
  <2>1. PICK h : h = chats[c].session
    OBVIOUS
  <2>2. chats[c].api = "agent-sdk" => Told(h)' = Texts(c)'
    BY <1>2, <1>3, <2>1
  <2>3. Hand(p, c)' = h /\ Due(p, c)' = Texts(c)' /\ WillBe(p, c)' = chats[c].api
    BY <1>2, <1>5, <2>1 DEF Hand, Due, WillBe, SidSteps
  <2>. QED  BY <2>2, <2>3, SpeaksThen
<1>7. NoneHere(c)'
  BY <1>2 DEF Ready, Heard, NoneHere
<1>8. KnowsRow(p, c)' /\ KnowsSession(p, c)'
  BY <1>2, <1>5 DEF KnowsRow, KnowsSession, ReadsRow, OnTip, Swiping, OnAgent, Forking, Greeting
<1>9. KnowsTexts(p, c)'
  BY <1>2, <1>5 DEF KnowsTexts, OnTip, Swiping, Blank
<1>. QED  BY <1>6, <1>7, <1>8, <1>9 DEF Heard

-----------------------------------------------------------------------------
(***************************************************************************)
(* Generations.                                                            *)
(***************************************************************************)
LEMMA ToldType ==
  ASSUME SessionsOK, NEW h
  PROVE  Told(h) \in Seq(Nat)
BY FramesAre, SaidType DEF Told

\* What a writer of an agent-sdk chat hears before its step.
LEMMA HeardBefore ==
  ASSUME NEW p, NEW c, Heard(p, c), chats[c].api = "agent-sdk"
  PROVE  /\ pc[p] \in {"wait", "send.insert", "swipe.seed", "open.load", "open.turn", "start.send"}
              => Told(chats[c].session) = Texts(c)
         /\ pc[p] = "send.turn" => Told(chats[c].session) = Before(c, loc[p].seq)
         /\ pc[p] = "swipe.turn" => Told(loc[p].seeded) = Before(c, RegenFrom(c, loc[p].seq))
         /\ pc[p] = "swipe.reply" => Told(loc[p].sid) = Before(c, loc[p].seq)
         /\ pc[p] \in {"send.persist", "open.insert"} => Told(loc[p].sid) = Append(Texts(c), loc[p].body)
         /\ pc[p] \in {"swipe.backfill", "swipe.variant", "swipe.message"} =>
              Told(loc[p].sid) = Append(Before(c, loc[p].seq), loc[p].body)
         /\ pc[p] \in {"send.reply", "open.reply", "send.update", "compact.turn", "compact.persist",
                       "swipe.drop", "swipe.update", "reseed.point", "provider.session",
                       "greet.update", "open.update", "fork.messages"} =>
              Told(loc[p].sid) = Texts(c)
<1>1. pc[p] \notin Loose /\ pc[p] # "provider.update" => Told(Hand(p, c)) = Due(p, c)
  BY DEF Heard, Speaks, WillBe
<1>. QED  BY <1>1 DEF Hand, Due, SidSteps, Loose

\* What is to be shown of one after its step.
LEMMA HearsAfter ==
  ASSUME NEW p, NEW c, NEW at, pc'[p] = at, at # "swipe.turn",
         NEW s, loc'[p].seq = s, NEW b, loc'[p].body = b, NEW h, NEW says,
         NoneHere(c)', KnowsRow(p, c)', KnowsSession(p, c)', KnowsTexts(p, c)',
         (at \notin Loose /\ (IF at = "provider.update" THEN req'[p].api ELSE chats'[c].api) = "agent-sdk") =>
           /\ Told(h)' = says
           /\ h = IF at \in SidSteps THEN loc'[p].sid ELSE chats'[c].session
           /\ says = IF at \in {"send.turn", "swipe.reply"} THEN Before(c, s)'
                     ELSE IF at \in {"send.persist", "open.insert"} THEN Append(Texts(c)', b)
                     ELSE IF at \in {"swipe.backfill", "swipe.variant", "swipe.message"}
                          THEN Append(Before(c, s)', b)
                     ELSE IF at = "fork.seed" THEN <<>>
                     ELSE Texts(c)'
  PROVE  Heard(p, c)'
<1>0. Before(c, s)' = Before(c, loc[p].seq)'
  BY DEF Before
<1>1. CASE pc'[p] \notin Loose /\ WillBe(p, c)' = "agent-sdk"
  <2>1. /\ at \notin Loose
        /\ (IF at = "provider.update" THEN req'[p].api ELSE chats'[c].api) = "agent-sdk"
    BY <1>1 DEF WillBe
  <2>2. h = Hand(p, c)'
    BY <2>1 DEF Hand
  <2>3. says = Due(p, c)'
    BY <1>0, <2>1 DEF Due
  <2>4. Speaks(p, c)'
    BY <2>1, <2>2, <2>3, SpeaksThen
  <2>. QED  BY <2>4 DEF Heard
<1>. QED  BY <1>1 DEF Heard, Speaks

LEMMA Replies ==
  ASSUME NEW p \in Procs, NEW c \in ChatIds, Ready(p, c), SendReply(p) \/ SwipeReply(p) \/ OpenReply(p)
  PROVE  Heard(p, c)'
<1>0. chatOf(p) = c /\ Live(c) /\ OneWriter /\ HeldInv /\ Heard(p, c)
  BY MineAt DEF Ready, Forking, SendReply, SwipeReply, OpenReply, EndTurn, At
<1>1. /\ DOMAIN pc = Procs /\ DOMAIN loc = Procs /\ TypeOK /\ SessionsOK /\ RequestsOK
      /\ nextBody \in Nat
  BY <1>0, ReadyIs
<1>2. PICK here \in {"send.reply", "swipe.reply", "open.reply"} :
        EndTurn(p, here, IF here = "send.reply" THEN "send.persist"
                         ELSE IF here = "swipe.reply" THEN "swipe.backfill" ELSE "open.insert")
  BY DEF SendReply, SwipeReply, OpenReply
<1>3. PICK at : at = IF here = "send.reply" THEN "send.persist"
                     ELSE IF here = "swipe.reply" THEN "swipe.backfill" ELSE "open.insert"
  OBVIOUS
<1>4. PICK l \in Locals : l = loc[p]
  BY <1>1 DEF RequestsOK
<1>5. PICK b \in Nat : b = nextBody
  BY <1>1
<1>6. /\ pc[p] = here /\ pc'[p] = at /\ UNCHANGED <<chats, messages, req>>
      /\ loc'[p] = [l EXCEPT !.body = b]
      /\ sessions' = IF OnAgentSdk(p) THEN Appended(l.sid, c, <<Turn("assistant", b)>>) ELSE sessions
  BY <1>0, <1>1, <1>2, <1>3, <1>4, <1>5 DEF EndTurn, At
<1>7. loc'[p].row = l.row /\ loc'[p].sid = l.sid /\ loc'[p].seq = l.seq /\ loc'[p].body = b
  BY <1>6 DEF Locals
<1>8. l.row.api = chats[c].api /\ l.row.session = chats[c].session
  BY <1>0, <1>4, <1>6 DEF Heard, KnowsRow, ReadsRow, OnTip, Swiping
<1>9. /\ Texts(c)' = Texts(c) /\ Seqs(c)' = Seqs(c) /\ MaxSeq(c)' = MaxSeq(c)
      /\ Before(c, l.seq)' = Before(c, l.seq)
  BY <1>6 DEF Texts, Seqs, MaxSeq, Before
<1>10. PICK told \in Seq(Nat) : told = IF here = "swipe.reply" THEN Before(c, l.seq) ELSE Texts(c)
  <2>1. MessageTable(messages[c]) /\ MaxSeq(c) \in Nat /\ l.seq \in Nat
    BY <1>0, <1>1, <1>4, ReadyIs DEF MessagesOK, TypeOK, Locals
  <2>. QED  BY <2>1, WordsType DEF Before, Texts
<1>11. ASSUME chats[c].api = "agent-sdk" PROVE Told(l.sid)' = Append(told, b)
  <2>1. Told(l.sid) = told
    BY <1>0, <1>4, <1>6, <1>10, <1>11, HeardBefore
  <2>2. sessions' = Appended(l.sid, c, <<Turn("assistant", b)>>)
    BY <1>4, <1>6, <1>8, <1>11 DEF OnAgentSdk
  <2>3. PICK f : f = Turn("assistant", b)
    OBVIOUS
  <2>4. f \in Frame /\ f.kind # "summary" /\ f.says = <<b>>
    BY <2>3, TurnIs
  <2>5. PICK h : h = l.sid
    OBVIOUS
  <2>6. sessions' = Appended(h, c, <<f>>)
    BY <2>2, <2>3, <2>5
  <2>7. Told(h)' = Told(h) \o f.says
    BY <1>1, <2>4, <2>6, AppendsTold
  <2>8. Told(h) = told /\ Told(l.sid)' = Told(h)'
    BY <2>1, <2>5
  <2>9. told \o <<b>> = Append(told, b)
    OBVIOUS
  <2>. QED  BY <2>4, <2>7, <2>8, <2>9
<1>12. KnowsRow(p, c)' /\ NoneHere(c)'
  BY <1>0, <1>3, <1>4, <1>6, <1>7, <1>8 DEF KnowsRow, Heard, NoneHere, ReadsRow, OnTip, Swiping, OnAgent, Forking, Greeting
<1>13. KnowsSession(p, c)'
  BY <1>3, <1>6 DEF KnowsSession, Forking
<1>14. KnowsTexts(p, c)'
  BY <1>0, <1>3, <1>4, <1>6, <1>7, <1>9 DEF Heard, KnowsTexts, Blank, OnTip, Swiping
<1>15. PICK h, says : h = l.sid /\ says = Append(told, b)
  OBVIOUS
<1>16. says = IF at \in {"send.persist", "open.insert"} THEN Append(Texts(c)', b)
              ELSE Append(Before(c, l.seq)', b)
  BY <1>3, <1>9, <1>10, <1>15
<1>17. at \in {"send.persist", "swipe.backfill", "open.insert"}
  BY <1>3
<1>18. chats'[c].api = "agent-sdk" => Told(h)' = says
  BY <1>6, <1>11, <1>15
<1>19. PICK s : s = l.seq
  OBVIOUS
<1>20. pc'[p] = at /\ at # "swipe.turn" /\ loc'[p].seq = s /\ loc'[p].body = b
  BY <1>6, <1>7, <1>17, <1>19
<1>21. h = IF at \in SidSteps THEN loc'[p].sid ELSE chats'[c].session
  BY <1>7, <1>15, <1>17 DEF SidSteps
<1>22. says = IF at \in {"send.turn", "swipe.reply"} THEN Before(c, s)'
              ELSE IF at \in {"send.persist", "open.insert"} THEN Append(Texts(c)', b)
              ELSE IF at \in {"swipe.backfill", "swipe.variant", "swipe.message"}
                   THEN Append(Before(c, s)', b)
              ELSE IF at = "fork.seed" THEN <<>>
              ELSE Texts(c)'
  BY <1>16, <1>17, <1>19
<1>23. at # "provider.update"
  BY <1>17
<1>. QED  BY <1>12, <1>13, <1>14, <1>18, <1>20, <1>21, <1>22, <1>23, HearsAfter

\* The prompt of a swipe leads from the seeded history to the tip.
LEMMA RegenSays ==
  ASSUME CanonInv, NEW c \in ChatIds, Seqs(c) # {}, NEW s, s = MaxSeq(c),
         messages[c][s].role = "assistant"
  PROVE  /\ RegenFrom(c, s) \in Nat /\ RegenFrom(c, s) <= s
         /\ RegenPrompt(c, s) \in Frame /\ RegenPrompt(c, s).kind # "summary"
         /\ Before(c, RegenFrom(c, s)) \o RegenPrompt(c, s).says = Before(c, s)
<1>0. MessageTable(messages[c]) /\ CanonRuns /\ MessagesOK /\ Alternates(messages[c])
  BY DEF CanonInv, TypeOK, MessagesOK, CanonAlternates
<1>1. PICK first \in {0, 1} : Seqs(c) = first..s
  BY <1>0, TipIs
<1>2. s \in Nat /\ s \in Seqs(c)
  BY <1>0, TipIs
<1>3. Before(c, s) \in Seq(Nat)
  BY <1>2, BeforeStep
<1>4. CASE UsersBefore(c, s) = {}
  <2>1. RegenFrom(c, s) = s /\ RegenPrompt(c, s) = Stub
    BY <1>4 DEF RegenFrom, RegenPrompt
  <2>2. PICK w \in Seq(Nat) : w = Before(c, s)
    BY <1>3
  <2>3. w \o <<>> = w
    OBVIOUS
  <2>. QED  BY <1>2, <2>1, <2>2, <2>3, StubIs
<1>5. CASE UsersBefore(c, s) # {}
  <2>1. PICK u \in Seqs(c) : u < s
    BY <1>5 DEF UsersBefore
  <2>2. PICK k \in Nat : k = s - 1 /\ k + 1 = s /\ k \in Seqs(c) /\ k < s
    BY <1>1, <1>2, <2>1
  <2>3. messages[c][k].role = "user"
    BY <1>0, <1>2, <2>2 DEF Alternates, Seqs
  <2>4. k \in UsersBefore(c, s)
    BY <2>2, <2>3 DEF UsersBefore
  <2>5. UsersBefore(c, s) \in SUBSET (0..k)
    BY <1>1, <1>2, <2>2 DEF UsersBefore
  <2>6. TopOf(UsersBefore(c, s)) \in UsersBefore(c, s) /\ k <= TopOf(UsersBefore(c, s))
    BY <2>2, <2>4, <2>5, GreatestNatural
  <2>7. RegenFrom(c, s) = k
    BY <1>5, <2>2, <2>5, <2>6 DEF RegenFrom
  <2>8. RegenPrompt(c, s) = Turn("user", messages[c][k].body)
    BY <1>5, <2>7 DEF RegenPrompt
  <2>9. messages[c][k].body \in Nat /\ Before(c, k + 1) = Before(c, k) \o <<messages[c][k].body>>
    BY <2>2, BeforeStep
  <2>10. PICK b \in Nat : b = messages[c][k].body
    BY <2>9
  <2>11. /\ RegenPrompt(c, s) \in Frame /\ RegenPrompt(c, s).kind # "summary"
         /\ RegenPrompt(c, s).says = <<b>>
    BY <2>8, <2>10, TurnIs
  <2>12. Before(c, s) = Before(c, k) \o <<b>>
    BY <2>2, <2>9, <2>10
  <2>13. k <= s
    BY <1>2, <2>2
  <2>. QED  BY <2>2, <2>7, <2>11, <2>12, <2>13
<1>. QED  BY <1>4, <1>5

LEMMA Prompts ==
  ASSUME NEW p \in Procs, NEW c \in ChatIds, Ready(p, c), SendStart(p) \/ SwipeStart(p) \/ OpenStart(p)
  PROVE  Heard(p, c)'
<1>0. chatOf(p) = c /\ Live(c) /\ OneWriter /\ HeldInv /\ Heard(p, c)
  BY MineAt DEF Ready, Forking, SendStart, SwipeStart, OpenStart, StartTurn, At
<1>1. /\ DOMAIN pc = Procs /\ DOMAIN loc = Procs /\ TypeOK /\ SessionsOK /\ RequestsOK /\ CanonInv
      /\ nextSession \notin DOMAIN sessions /\ Told(0) = <<>> /\ MaxSeq(c) \in Nat
      /\ MessageTable(messages[c])
  BY <1>0, ReadyIs DEF MessagesOK
<1>2. PICK l \in Locals : l = loc[p]
  BY <1>1 DEF RequestsOK
<1>3. PICK here \in {"send.turn", "swipe.turn", "open.turn"} : pc[p] = here
  BY DEF SendStart, SwipeStart, OpenStart, StartTurn, At
<1>4. PICK at : at = IF here = "send.turn" THEN "send.reply"
                     ELSE IF here = "swipe.turn" THEN "swipe.reply" ELSE "open.reply"
  OBVIOUS
<1>5. PICK s : s = IF here = "send.turn" THEN l.row.session
                   ELSE IF here = "swipe.turn" THEN l.seeded ELSE 0
  OBVIOUS
<1>6. PICK f : f = IF here = "send.turn" THEN UserTurn(p)
                   ELSE IF here = "swipe.turn" THEN RegenPrompt(c, l.seq) ELSE Stub
  OBVIOUS
<1>7. StartTurn(p, s, f, here, at)
  BY <1>0, <1>2, <1>3, <1>4, <1>5, <1>6 DEF SendStart, SwipeStart, OpenStart, StartTurn, At, Tip
<1>8. /\ pc'[p] = at /\ UNCHANGED <<chats, messages, req>>
      /\ IF OnAgentSdk(p) THEN Opens(p, s, f) ELSE UNCHANGED <<sessions, loc, nextSession>>
  BY <1>1, <1>7 DEF StartTurn, At
<1>9. l.row.api = chats[c].api /\ l.row.session = chats[c].session
  BY <1>0, <1>2, <1>3 DEF Heard, KnowsRow, ReadsRow, OnTip, Swiping
<1>10. PICK told \in Seq(Nat) : told = IF here = "swipe.turn" THEN Before(c, l.seq) ELSE Texts(c)
  <2>1. l.seq \in Nat
    BY DEF Locals
  <2>. QED  BY <1>1, <2>1, WordsType DEF Before, Texts
<1>11. ASSUME chats[c].api = "agent-sdk"
       PROVE  f \in Frame /\ f.kind # "summary" /\ Told(s) \o f.says = told
  <2>1. CASE here = "send.turn"
    <3>1. l.seq = MaxSeq(c) /\ l.seq \in Seqs(c)
      BY <1>0, <1>1, <1>2, <1>3, <2>1 DEF CanonInv, SendsAtTip, SendAtTip, Unanswered
    <3>2. Told(s) = Before(c, l.seq)
      BY <1>0, <1>2, <1>3, <1>5, <1>9, <1>11, <2>1, HeardBefore
    <3>3. /\ messages[c][l.seq].body \in Nat
          /\ Before(c, l.seq + 1) = Before(c, l.seq) \o <<messages[c][l.seq].body>>
      BY <1>1, <3>1, BeforeStep
    <3>4. f = Turn("user", messages[c][l.seq].body)
      BY <1>0, <1>2, <1>6, <2>1 DEF UserTurn
    <3>5. Before(c, l.seq + 1) = Texts(c)
      <4>1. PICK n \in Nat : n = l.seq /\ n + 1 - 1 = n
        BY <1>1, <3>1
      <4>. QED  BY <3>1, <4>1 DEF Before, Texts
    <3>. QED  BY <1>10, <2>1, <3>2, <3>3, <3>4, <3>5, TurnIs
  <2>2. CASE here = "swipe.turn"
    <3>1. l.seq = MaxSeq(c) /\ Seqs(c) # {} /\ messages[c][l.seq].role = "assistant"
      BY <1>0, <1>2, <1>3, <2>2 DEF Heard, KnowsTexts, OnTip, Swiping
    <3>2. Told(s) = Before(c, RegenFrom(c, l.seq))
      BY <1>0, <1>2, <1>3, <1>5, <1>11, <2>2, HeardBefore
    <3>. QED  BY <1>1, <1>6, <1>10, <2>2, <3>1, <3>2, RegenSays
  <2>3. CASE here = "open.turn"
    <3>1. Seqs(c) = {}
      BY <1>0, <1>3, <2>3 DEF Heard, KnowsTexts, Blank
    <3>2. told = <<>> /\ Told(s) = <<>> /\ f = Stub
      BY <1>1, <1>5, <1>6, <1>10, <2>3, <3>1, NoTexts
    <3>3. <<>> \o <<>> = <<>>
      OBVIOUS
    <3>. QED  BY <3>2, <3>3, StubIs
  <2>. QED  BY <2>1, <2>2, <2>3
<1>12. PICK n : /\ loc'[p].row = l.row /\ loc'[p].seq = l.seq
                /\ chats[c].api = "agent-sdk" =>
                     loc'[p].sid = n /\ Told(n)' = told /\ n \in DOMAIN sessions'
  <2>1. CASE chats[c].api = "agent-sdk"
    <3>1. f \in Frame /\ f.kind # "summary" /\ Told(s) \o f.says = told /\ Opens(p, s, f)
      BY <1>2, <1>8, <1>9, <1>11, <2>1 DEF OnAgentSdk
    <3>2. PICK n : /\ loc' = [loc EXCEPT ![p].sid = n] /\ loc'[p].sid = n
                   /\ Told(n)' = Told(s) \o f.says /\ n \in DOMAIN sessions'
      BY <1>1, <3>1, OpensTold
    <3>3. loc'[p] = [l EXCEPT !.sid = n]
      BY <1>1, <1>2, <3>2
    <3>4. loc'[p].row = l.row /\ loc'[p].seq = l.seq
      BY <3>3 DEF Locals
    <3>. QED  BY <3>1, <3>2, <3>4
  <2>2. CASE chats[c].api # "agent-sdk"
    BY <1>2, <1>8, <1>9, <2>2 DEF OnAgentSdk
  <2>. QED  BY <2>1, <2>2
<1>13. /\ Texts(c)' = Texts(c) /\ Seqs(c)' = Seqs(c) /\ MaxSeq(c)' = MaxSeq(c)
       /\ Before(c, l.seq)' = Before(c, l.seq)
  BY <1>8 DEF Texts, Seqs, MaxSeq, Before
<1>14. KnowsRow(p, c)' /\ NoneHere(c)'
  BY <1>0, <1>3, <1>4, <1>8, <1>9, <1>12 DEF KnowsRow, Heard, NoneHere, ReadsRow, OnTip, Swiping, OnAgent, Forking,
     Greeting
<1>15. KnowsSession(p, c)'
  BY <1>3, <1>4, <1>8, <1>9, <1>12 DEF KnowsSession, Forking
<1>16. KnowsTexts(p, c)'
  BY <1>0, <1>2, <1>3, <1>4, <1>8, <1>12, <1>13 DEF Heard, KnowsTexts, Blank, OnTip, Swiping
<1>17. told = IF at = "swipe.reply" THEN Before(c, l.seq)' ELSE Texts(c)'
  BY <1>3, <1>4, <1>10, <1>13
<1>18. at \in {"send.reply", "swipe.reply", "open.reply"}
  BY <1>4
<1>19. chats'[c].api = "agent-sdk" => Told(n)' = told /\ n = loc'[p].sid
  BY <1>8, <1>12
<1>20. PICK b : b = loc'[p].body
  OBVIOUS
<1>. QED  BY <1>8, <1>12, <1>14, <1>15, <1>16, <1>17, <1>18, <1>19, <1>20, HearsAfter DEF SidSteps, Loose

\* A step behind which the chat's own session is heard.
LEMMA HearsRow ==
  ASSUME NEW p, NEW c, NEW at, pc'[p] = at, at \notin SidSteps, at \notin {"send.turn", "swipe.turn"},
         NoneHere(c)', KnowsRow(p, c)', KnowsSession(p, c)', KnowsTexts(p, c)',
         NEW h, h = chats'[c].session,
         (at \notin Loose /\ chats'[c].api = "agent-sdk") => Told(h)' = Texts(c)'
  PROVE  Heard(p, c)'
<1>1. PICK s, b : s = loc'[p].seq /\ b = loc'[p].body
  OBVIOUS
<1>2. PICK says : says = Texts(c)'
  OBVIOUS
<1>3. at \notin {"provider.update", "swipe.reply", "send.persist", "open.insert", "swipe.backfill",
                 "swipe.variant", "swipe.message", "fork.seed"}
  BY DEF SidSteps
<1>4. (at \notin Loose /\ (IF at = "provider.update" THEN req'[p].api ELSE chats'[c].api) = "agent-sdk") =>
        Told(h)' = says
  BY <1>2, <1>3
<1>5. h = IF at \in SidSteps THEN loc'[p].sid ELSE chats'[c].session
  OBVIOUS
<1>6. says = IF at \in {"send.turn", "swipe.reply"} THEN Before(c, s)'
             ELSE IF at \in {"send.persist", "open.insert"} THEN Append(Texts(c)', b)
             ELSE IF at \in {"swipe.backfill", "swipe.variant", "swipe.message"}
                  THEN Append(Before(c, s)', b)
             ELSE IF at = "fork.seed" THEN <<>>
             ELSE Texts(c)'
  BY <1>2, <1>3
<1>. QED  BY <1>1, <1>4, <1>5, <1>6, HearsAfter

\* A step behind which the one in hand is.
LEMMA HearsHand ==
  ASSUME NEW p, NEW c, NEW at, pc'[p] = at,
         at \in {"send.reply", "send.update", "compact.turn", "compact.persist", "swipe.drop",
                 "swipe.update", "reseed.point", "provider.session", "greet.update", "open.reply",
                 "open.update", "fork.messages"},
         NoneHere(c)', KnowsRow(p, c)', KnowsSession(p, c)', KnowsTexts(p, c)',
         NEW h, h = loc'[p].sid, chats'[c].api = "agent-sdk" => Told(h)' = Texts(c)'
  PROVE  Heard(p, c)'
<1>1. PICK s, b : s = loc'[p].seq /\ b = loc'[p].body
  OBVIOUS
<1>2. PICK says : says = Texts(c)'
  OBVIOUS
<1>4. (at \notin Loose /\ (IF at = "provider.update" THEN req'[p].api ELSE chats'[c].api) = "agent-sdk") =>
        Told(h)' = says
  BY <1>2
<1>5. h = IF at \in SidSteps THEN loc'[p].sid ELSE chats'[c].session
  BY DEF SidSteps
<1>6. says = IF at \in {"send.turn", "swipe.reply"} THEN Before(c, s)'
             ELSE IF at \in {"send.persist", "open.insert"} THEN Append(Texts(c)', b)
             ELSE IF at \in {"swipe.backfill", "swipe.variant", "swipe.message"}
                  THEN Append(Before(c, s)', b)
             ELSE IF at = "fork.seed" THEN <<>>
             ELSE Texts(c)'
  BY <1>2
<1>7. at # "swipe.turn"
  OBVIOUS
<1>. QED  BY <1>1, <1>4, <1>5, <1>6, <1>7, HearsAfter

\* One that ends: nothing is in hand.
LEMMA HearsEnd ==
  ASSUME NEW p, NEW c, pc'[p] \in {"idle", "wait", "start.send"}, NoneHere(c)',
         pc'[p] = "start.send" => chats'[c].api = req'[p].api,
         NEW h, h = chats'[c].session, chats'[c].api = "agent-sdk" => Told(h)' = Texts(c)'
  PROVE  Heard(p, c)'
<1>1. KnowsRow(p, c)' /\ KnowsSession(p, c)' /\ KnowsTexts(p, c)'
  BY DEF KnowsRow, KnowsSession, KnowsTexts, ReadsRow, OnTip, Swiping, OnAgent, Blank, Forking, Greeting
<1>2. PICK at : at = pc'[p]
  OBVIOUS
<1>3. at \notin SidSteps /\ at \notin {"send.turn", "swipe.turn"}
  BY <1>2 DEF SidSteps
<1>. QED  BY <1>1, <1>2, <1>3, HearsRow

-----------------------------------------------------------------------------
LEMMA InsertsTurn ==
  ASSUME NEW p \in Procs, NEW c \in ChatIds, Ready(p, c), CanonInv', SendInsert(p)
  PROVE  Heard(p, c)'
<1>0. chatOf(p) = c /\ Live(c) /\ OneWriter /\ HeldInv /\ Heard(p, c) /\ pc[p] = "send.insert"
  BY MineAt DEF Ready, Forking, SendInsert, At
<1>1. DOMAIN pc = Procs /\ CanonInv /\ nextBody \in Nat /\ MaxSeq(c) \in Nat /\ RequestsOK /\ DOMAIN loc = Procs
  BY <1>0, ReadyIs
<1>2. PICK m : m = NewMessage("user", nextBody, 0)
  OBVIOUS
<1>3. m \in Message
  <2>1. <<>> \in Seq(Nat)
    OBVIOUS
  <2>. QED  BY <1>1, <1>2, <2>1 DEF NewMessage, Message
<1>4. PICK l \in Locals : l = loc[p]
  BY <1>1 DEF RequestsOK
<1>5. PICK s \in Nat : s = l.seq /\ s = MaxSeq(c) + 1
  BY <1>0, <1>1, <1>4 DEF Heard, KnowsTexts
<1>6. /\ messages' = WithMessage(c, s, m) /\ pc'[p] = "send.turn" /\ loc' = loc /\ req' = req
      /\ chats' = chats /\ sessions' = sessions
  BY <1>0, <1>1, <1>2, <1>4, <1>5 DEF SendInsert, At
<1>7. Before(c, s)' = Texts(c) /\ MaxSeq(c)' = s
  BY <1>1, <1>3, <1>5, <1>6, TextsGrow
<1>8. PICK h : h = chats[c].session
  OBVIOUS
<1>9. chats[c].api = "agent-sdk" => Told(h)' = Texts(c)
  <2>1. Told(h)' = Told(h)
    BY <1>6 DEF Told, FramesOf
  <2>. QED  BY <1>0, <1>8, <2>1, HeardBefore
<1>10. NoneHere(c)' /\ KnowsRow(p, c)'
  BY <1>0, <1>6 DEF Heard, NoneHere, KnowsRow, ReadsRow, OnTip, Swiping, OnAgent, Forking, Greeting
<1>11. KnowsSession(p, c)' /\ KnowsTexts(p, c)'
  BY <1>6 DEF KnowsSession, KnowsTexts, OnTip, Swiping, Blank, Forking
<1>12. PICK says : says = Before(c, s)'
  OBVIOUS
<1>13. PICK at : at = "send.turn"
  OBVIOUS
<1>14. PICK b : b = loc'[p].body
  OBVIOUS
<1>15. (at \notin Loose /\ (IF at = "provider.update" THEN req'[p].api ELSE chats'[c].api) = "agent-sdk") =>
        Told(h)' = says
  BY <1>6, <1>7, <1>9, <1>12, <1>13
<1>16. h = IF at \in SidSteps THEN loc'[p].sid ELSE chats'[c].session
  BY <1>6, <1>8, <1>13 DEF SidSteps
<1>17. says = IF at \in {"send.turn", "swipe.reply"} THEN Before(c, s)'
             ELSE IF at \in {"send.persist", "open.insert"} THEN Append(Texts(c)', b)
             ELSE IF at \in {"swipe.backfill", "swipe.variant", "swipe.message"}
                  THEN Append(Before(c, s)', b)
             ELSE IF at = "fork.seed" THEN <<>>
             ELSE Texts(c)'
  BY <1>12, <1>13
<1>18. pc'[p] = at /\ at # "swipe.turn" /\ loc'[p].seq = s
  BY <1>4, <1>5, <1>6, <1>13
<1>. QED  BY <1>10, <1>11, <1>14, <1>15, <1>16, <1>17, <1>18, HearsAfter

LEMMA InsertsReply ==
  ASSUME NEW p \in Procs, NEW c \in ChatIds, Ready(p, c), CanonInv', SendPersist(p) \/ OpenInsert(p)
  PROVE  Heard(p, c)'
<1>0. chatOf(p) = c /\ Live(c) /\ OneWriter /\ HeldInv /\ Heard(p, c)
  BY MineAt DEF Ready, Forking, SendPersist, OpenInsert, At
<1>1. /\ DOMAIN pc = Procs /\ CanonInv /\ MaxSeq(c) \in Nat /\ RequestsOK
      /\ DOMAIN loc = Procs /\ DOMAIN req = Procs
  BY <1>0, ReadyIs
<1>2. PICK l \in Locals : l = loc[p]
  BY <1>1 DEF RequestsOK
<1>3. PICK here \in {"send.persist", "open.insert"} : pc[p] = here
  BY DEF SendPersist, OpenInsert, At
<1>4. PICK at : at = IF here = "send.persist" THEN "send.update" ELSE "open.update"
  OBVIOUS
<1>5. PICK s \in Nat : s = MaxSeq(c) + 1 /\ s = IF here = "send.persist" THEN l.seq + 1 ELSE 1
  <2>1. CASE here = "send.persist"
    <3>1. l.seq = MaxSeq(c)
      BY <1>0, <1>1, <1>2, <1>3, <2>1 DEF CanonInv, SendsAtTip, SendAtTip, Unanswered
    <3>. QED  BY <1>1, <2>1, <3>1
  <2>2. CASE here = "open.insert"
    <3>1. Seqs(c) = {}
      BY <1>0, <1>3, <2>2 DEF Heard, KnowsTexts, Blank
    <3>2. MaxSeq(c) = 0
      BY <3>1 DEF MaxSeq
    <3>. QED  BY <2>2, <3>2
  <2>. QED  BY <2>1, <2>2
<1>6. PICK m \in AfterScripts(NewMessage("assistant", l.body, 1)) : messages' = WithMessage(c, s, m)
  <2>1. CASE SendPersist(p)
    BY <1>0, <1>2, <1>3, <1>5, <2>1 DEF SendPersist, At
  <2>2. CASE OpenInsert(p)
    <3>1. Seqs(c) = {}
      BY <1>0, <2>2 DEF Heard, KnowsTexts, Blank, OpenInsert
    <3>2. CanInsert(c, 1) /\ here = "open.insert"
      BY <1>0, <1>3, <2>2, <3>1 DEF CanInsert, OpenInsert
    <3>. QED  BY <1>0, <1>2, <1>5, <2>2, <3>2 DEF OpenInsert, AfterScripts
  <2>. QED  BY <2>1, <2>2
<1>7. m \in Message /\ m.body = l.body
  <2>1. l.body \in Nat
    BY DEF Locals
  <2>. QED  BY <1>6, <2>1, ScriptedIs
<1>8. /\ messages' = WithMessage(c, s, m) /\ pc'[p] = at /\ loc' = loc /\ req' = req
      /\ chats' = chats /\ sessions' = sessions
  <2>1. CASE SendPersist(p)
    BY <1>0, <1>1, <1>2, <1>3, <1>4, <1>5, <1>6, <2>1 DEF SendPersist, At
  <2>2. CASE OpenInsert(p)
    <3>1. Seqs(c) = {}
      BY <1>0, <2>2 DEF Heard, KnowsTexts, Blank, OpenInsert
    <3>2. CanInsert(c, 1) /\ here = "open.insert"
      BY <1>0, <1>3, <2>2, <3>1 DEF CanInsert, OpenInsert
    <3>. QED  BY <1>0, <1>1, <1>2, <1>4, <1>5, <1>6, <2>2, <3>2 DEF OpenInsert
  <2>. QED  BY <2>1, <2>2
<1>9. Texts(c)' = Append(Texts(c), l.body)
  BY <1>1, <1>5, <1>7, <1>8, TextsGrow
<1>10. PICK h : h = l.sid
  OBVIOUS
<1>11. chats[c].api = "agent-sdk" => Told(h)' = Texts(c)'
  <2>1. Told(h)' = Told(h)
    BY <1>8 DEF Told, FramesOf
  <2>2. chats[c].api = "agent-sdk" => Told(h) = Append(Texts(c), l.body)
    BY <1>0, <1>2, <1>3, <1>10, HeardBefore
  <2>. QED  BY <1>9, <2>1, <2>2
<1>12. NoneHere(c)' /\ KnowsRow(p, c)'
  BY <1>0, <1>3, <1>4, <1>8 DEF Heard, NoneHere, KnowsRow, ReadsRow, OnTip, Swiping, OnAgent, Forking, Greeting,
     OpenSteps
<1>13. KnowsSession(p, c)' /\ KnowsTexts(p, c)'
  BY <1>4, <1>8 DEF KnowsSession, KnowsTexts, OnTip, Swiping, Blank, Forking
<1>14. at \in {"send.update", "open.update"} /\ pc'[p] = at /\ h = loc'[p].sid /\ chats'[c].api = chats[c].api
  BY <1>2, <1>4, <1>8, <1>10
<1>. QED  BY <1>11, <1>12, <1>13, <1>14, HearsHand

LEMMA InsertsGreeting ==
  ASSUME NEW p \in Procs, NEW c \in ChatIds, Ready(p, c), CanonInv', GreetInsert(p)
  PROVE  Heard(p, c)'
<1>0. chatOf(p) = c /\ Live(c) /\ OneWriter /\ HeldInv /\ Heard(p, c) /\ pc[p] = "greet.insert"
  BY MineAt DEF Ready, Forking, GreetInsert, At
<1>1. /\ DOMAIN pc = Procs /\ CanonInv /\ nextBody \in Nat /\ RequestsOK /\ DOMAIN loc = Procs
      /\ DOMAIN req = Procs
  BY <1>0, ReadyIs
<1>2. Seqs(c) = {} /\ chats[c].api = req[p].api
  BY <1>0 DEF Heard, KnowsTexts, KnowsRow, Blank, Greeting
<1>3. PICK b \in Nat : b = nextBody
  BY <1>1
<1>4. PICK m : m = NewMessage("assistant", b, 0)
  OBVIOUS
<1>5. m \in Message /\ m.body = b
  <2>1. <<>> \in Seq(Nat)
    OBVIOUS
  <2>. QED  BY <1>4, <2>1 DEF NewMessage, Message
<1>6. PICK l \in Locals : l = loc[p]
  BY <1>1 DEF RequestsOK
<1>7. /\ messages' = WithMessage(c, 1, m) /\ req' = req
      /\ pc'[p] = IF req[p].api = "agent-sdk" THEN "greet.seed" ELSE "greet.update"
      /\ loc'[p] = [l EXCEPT !.body = b] /\ chats' = chats /\ sessions' = sessions
  <2>1. CanInsert(c, 1)
    BY <1>0, <1>2 DEF CanInsert
  <2>. QED  BY <1>0, <1>1, <1>3, <1>4, <1>6, <2>1 DEF GreetInsert
<1>8. loc'[p].body = b
  BY <1>7 DEF Locals
<1>9. Texts(c)' = <<b>>
  <2>1. MaxSeq(c) = 0 /\ Texts(c) = <<>>
    BY <1>1, <1>2, NoTexts
  <2>2. PICK s \in Nat : s = 1 /\ s = MaxSeq(c) + 1
    BY <2>1
  <2>3. Texts(c)' = Append(Texts(c), m.body)
    BY <1>1, <1>5, <1>7, <2>2, TextsGrow
  <2>4. Append(<<>>, b) = <<b>>
    OBVIOUS
  <2>. QED  BY <1>5, <2>1, <2>3, <2>4
<1>10. NoneHere(c)' /\ KnowsRow(p, c)'
  BY <1>0, <1>2, <1>7 DEF Heard, NoneHere, KnowsRow, ReadsRow, OnTip, Swiping, OnAgent, Forking, Greeting
<1>11. KnowsSession(p, c)' /\ KnowsTexts(p, c)'
  BY <1>7, <1>8, <1>9 DEF KnowsSession, KnowsTexts, OnTip, Swiping, Blank, Forking
<1>12. Speaks(p, c)'
  BY <1>2, <1>7 DEF Speaks, Loose, WillBe
<1>. QED  BY <1>10, <1>11, <1>12 DEF Heard

\* The chat is pointed at the session that says its texts.
LEMMA Repoints ==
  ASSUME NEW p \in Procs, NEW c \in ChatIds, Ready(p, c),
         \/ SendUpdate(p) \/ SwipeUpdate(p) \/ ReseedPoint(p) \/ GreetUpdate(p) \/ OpenUpdate(p)
         \/ CompactPersist(p) \/ PatchChat(p) \/ ProviderUpdate(p)
  PROVE  Heard(p, c)'
<1>0. chatOf(p) = c /\ Live(c) /\ OneWriter /\ HeldInv /\ Heard(p, c)
  BY MineAt DEF Ready, Forking, SendUpdate, SwipeUpdate, ReseedPoint, GreetUpdate, OpenUpdate,
     CompactPersist, PatchChat, ProviderUpdate, At, Granted
<1>1. /\ DOMAIN pc = Procs /\ RequestsOK /\ DOMAIN loc = Procs /\ DOMAIN req = Procs
      /\ DOMAIN chats = ChatIds /\ chats[c] \in ChatRow
  BY <1>0, ReadyIs
<1>2. PICK l \in Locals : l = loc[p]
  BY <1>1 DEF RequestsOK
<1>3. PICK row \in ChatRow : row = chats[c]
  BY <1>1
<1>4. messages' = messages /\ sessions' = sessions
  BY DEF SendUpdate, SwipeUpdate, ReseedPoint, GreetUpdate, OpenUpdate, CompactPersist, PatchChat,
     ProviderUpdate
<1>5. Texts(c)' = Texts(c) /\ \A h : Told(h)' = Told(h)
  BY <1>4 DEF Texts, MaxSeq, Seqs, Told, FramesOf
<1>6. row.api = "openrouter" => row.session = 0
  BY <1>0, <1>3 DEF Heard, NoneHere
<1>7. row.api \in Apis
  BY DEF ChatRow
<1>8. \E h : /\ chats'[c].session = h
             /\ chats'[c].api = "agent-sdk" => Told(h) = Texts(c)
             /\ chats'[c].api = "openrouter" => h = 0
             /\ \/ pc'[p] = "idle"
                \/ pc'[p] = "start.send" /\ chats'[c].api = req'[p].api
                \/ pc'[p] = "compact.turn" /\ chats'[c].api = "agent-sdk" /\ loc'[p].sid = h
  <2>1. CASE SendUpdate(p)
    <3>1. l.row.api = row.api /\ (row.api = "agent-sdk" => Told(l.sid) = Texts(c))
      BY <1>0, <1>2, <1>3, <2>1, HeardBefore DEF Heard, KnowsRow, ReadsRow, SendUpdate
    <3>2. \E n, t : chats'[c] = [row EXCEPT !.session = IF row.api = "agent-sdk" THEN l.sid ELSE row.session,
                                           !.count = n, !.total = t]
      BY <1>0, <1>1, <1>2, <1>3, <2>1, <3>1 DEF SendUpdate
    <3>3. /\ chats'[c].session = IF row.api = "agent-sdk" THEN l.sid ELSE row.session
          /\ chats'[c].api = row.api
      BY <3>2 DEF ChatRow
    <3>4. pc'[p] = "idle" \/ (pc'[p] = "compact.turn" /\ row.api = "agent-sdk" /\ loc'[p].sid = l.sid)
      BY <1>0, <1>1, <1>2, <2>1, <3>1 DEF SendUpdate, Leave
    <3>. QED  BY <1>6, <3>1, <3>3, <3>4
  <2>2. CASE SwipeUpdate(p)
    <3>1. l.row.api = row.api /\ (row.api = "agent-sdk" => Told(l.sid) = Texts(c))
      BY <1>0, <1>2, <1>3, <2>2, HeardBefore DEF Heard, KnowsRow, ReadsRow, SwipeUpdate
    <3>2. \E t : chats'[c] = [row EXCEPT !.session = IF row.api = "agent-sdk" THEN l.sid ELSE row.session,
                                        !.total = t]
      BY <1>0, <1>1, <1>2, <1>3, <2>2, <3>1 DEF SwipeUpdate, OnAgentSdk
    <3>3. /\ chats'[c].session = IF row.api = "agent-sdk" THEN l.sid ELSE row.session
          /\ chats'[c].api = row.api
      BY <3>2 DEF ChatRow
    <3>4. pc'[p] = "idle"
      BY <1>1, <2>2 DEF SwipeUpdate, Leave
    <3>. QED  BY <1>6, <3>1, <3>3, <3>4
  <2>3. CASE ReseedPoint(p)
    <3>1. row.api = "agent-sdk" /\ Told(l.sid) = Texts(c)
      BY <1>0, <1>2, <1>3, <2>3, HeardBefore DEF Heard, KnowsRow, OnAgent, ReseedPoint
    <3>2. chats'[c] = [row EXCEPT !.session = l.sid]
      BY <1>0, <1>1, <1>2, <1>3, <2>3 DEF ReseedPoint
    <3>3. chats'[c].session = l.sid /\ chats'[c].api = row.api
      BY <3>2 DEF ChatRow
    <3>4. pc'[p] = "idle"
      BY <1>1, <2>3 DEF ReseedPoint, Leave
    <3>. QED  BY <3>1, <3>3, <3>4
  <2>4. CASE GreetUpdate(p)
    <3>1. row.api = req[p].api /\ (row.api = "agent-sdk" => Told(l.sid) = Texts(c))
      BY <1>0, <1>2, <1>3, <2>4, HeardBefore DEF Heard, KnowsRow, Greeting, GreetUpdate, At
    <3>2. chats'[c] = [row EXCEPT !.count = 1,
                                  !.session = IF row.api = "agent-sdk" THEN l.sid ELSE row.session]
      BY <1>0, <1>1, <1>2, <1>3, <2>4, <3>1 DEF GreetUpdate
    <3>3. /\ chats'[c].session = IF row.api = "agent-sdk" THEN l.sid ELSE row.session
          /\ chats'[c].api = row.api
      BY <3>2 DEF ChatRow
    <3>4. pc'[p] = "start.send" /\ req' = req
      BY <1>1, <2>4 DEF GreetUpdate, At
    <3>. QED  BY <1>6, <3>1, <3>3, <3>4
  <2>5. CASE OpenUpdate(p)
    <3>1. l.row.api = row.api /\ (row.api = "agent-sdk" => Told(l.sid) = Texts(c))
      BY <1>0, <1>2, <1>3, <2>5, HeardBefore DEF Heard, KnowsRow, ReadsRow, OpenUpdate
    <3>2. chats'[c] = [row EXCEPT !.count = 1, !.total = 1,
                                  !.session = IF row.api = "agent-sdk" THEN l.sid ELSE row.session]
      BY <1>0, <1>1, <1>2, <1>3, <2>5, <3>1 DEF OpenUpdate, OnAgentSdk
    <3>3. /\ chats'[c].session = IF row.api = "agent-sdk" THEN l.sid ELSE row.session
          /\ chats'[c].api = row.api
      BY <3>2 DEF ChatRow
    <3>4. pc'[p] = "idle"
      BY <1>1, <2>5 DEF OpenUpdate, Return
    <3>. QED  BY <1>6, <3>1, <3>3, <3>4
  <2>6. CASE CompactPersist(p)
    <3>1. row.api = "agent-sdk" /\ Told(l.sid) = Texts(c)
      BY ZenonT(60), <1>0, <1>2, <1>3, <2>6, HeardBefore DEF Heard, KnowsRow, OnAgent, CompactPersist
    <3>2. PICK found \in BOOLEAN :
            chats' = [chats EXCEPT
              ![c].session = l.sid,
              ![c].summary = IF found THEN Said(FramesOf(l.sid)) ELSE @,
              ![c].anchor = IF found THEN MaxSeq(c) ELSE @]
      BY <1>0, <1>2, <2>6 DEF CompactPersist
    <3>3. chats'[c].session = l.sid /\ chats'[c].api = row.api
      BY <1>0, <1>1, <1>3, <3>2 DEF ChatRow
    <3>4. pc'[p] = "idle"
      BY <1>1, <2>6 DEF CompactPersist, Leave
    <3>. QED  BY <3>1, <3>3, <3>4
  <2>7. CASE PatchChat(p)
    <3>1. row.api = "agent-sdk" => Told(row.session) = Texts(c)
      BY <1>0, <1>3, <2>7, HeardBefore DEF PatchChat, Granted
    <3>2. \E s : chats'[c] = [row EXCEPT !.starred = s]
      BY <1>0, <1>1, <1>3, <2>7 DEF PatchChat
    <3>3. chats'[c].session = row.session /\ chats'[c].api = row.api
      BY <3>2 DEF ChatRow
    <3>4. pc'[p] = "idle"
      BY <1>1, <2>7 DEF PatchChat, Leave
    <3>. QED  BY <1>6, <3>1, <3>3, <3>4
  <2>8. CASE ProviderUpdate(p)
    <3>1. PICK api \in Apis : api = req[p].api
      BY <1>1 DEF RequestsOK, Request
    <3>2. (api = "agent-sdk" => Told(l.sid) = Texts(c)) /\ (api = "openrouter" => l.sid = 0)
      BY <1>0, <1>2, <2>8, <3>1 DEF Heard, Speaks, Loose, WillBe, Hand, Due, SidSteps, KnowsSession,
         ProviderUpdate
    <3>3. chats'[c] = [row EXCEPT !.api = api, !.session = l.sid]
      BY <1>0, <1>1, <1>2, <1>3, <2>8, <3>1 DEF ProviderUpdate
    <3>4. chats'[c].session = l.sid /\ chats'[c].api = api
      BY <3>3 DEF ChatRow
    <3>5. pc'[p] = "idle"
      BY <1>1, <2>8 DEF ProviderUpdate, Leave
    <3>. QED  BY <3>2, <3>4, <3>5
  <2>. QED  BY <2>1, <2>2, <2>3, <2>4, <2>5, <2>6, <2>7, <2>8
<1>9. PICK h : /\ chats'[c].session = h
               /\ chats'[c].api = "agent-sdk" => Told(h) = Texts(c)
               /\ chats'[c].api = "openrouter" => h = 0
               /\ \/ pc'[p] = "idle"
                  \/ pc'[p] = "start.send" /\ chats'[c].api = req'[p].api
                  \/ pc'[p] = "compact.turn" /\ chats'[c].api = "agent-sdk" /\ loc'[p].sid = h
  BY <1>8
<1>10. NoneHere(c)'
  BY <1>9 DEF NoneHere
<1>11. chats'[c].api = "agent-sdk" => Told(h)' = Texts(c)'
  BY <1>5, <1>9
<1>12. CASE pc'[p] \in {"idle", "start.send"}
  BY <1>9, <1>10, <1>11, <1>12, HearsEnd
<1>13. CASE pc'[p] = "compact.turn"
  <2>1. PICK at : at = "compact.turn" /\ pc'[p] = at
    BY <1>13
  <2>2. KnowsRow(p, c)' /\ KnowsSession(p, c)' /\ KnowsTexts(p, c)'
    BY <1>9, <1>13 DEF KnowsRow, KnowsSession, KnowsTexts, ReadsRow, OnTip, Swiping, OnAgent, Blank, Forking,
       Greeting
  <2>3. h = loc'[p].sid
    BY <1>9, <1>13
  <2>4. at \in {"send.reply", "send.update", "compact.turn", "compact.persist", "swipe.drop",
                 "swipe.update", "reseed.point", "provider.session", "greet.update", "open.reply",
                 "open.update", "fork.messages"}
    BY <2>1
  <2>. QED  BY <1>10, <1>11, <2>1, <2>2, <2>3, <2>4, HearsHand
<1>. QED  BY <1>9, <1>12, <1>13

\* The /compact turn says again what the transcript said.
LEMMA Compacts ==
  ASSUME NEW p \in Procs, NEW c \in ChatIds, Ready(p, c), CompactTurn(p)
  PROVE  Heard(p, c)'
<1>0. chatOf(p) = c /\ Live(c) /\ OneWriter /\ HeldInv /\ Heard(p, c) /\ pc[p] = "compact.turn"
  BY MineAt DEF Ready, Forking, CompactTurn, At
<1>1. /\ DOMAIN pc = Procs /\ TypeOK /\ SessionsOK
  BY <1>0, ReadyIs
<1>2. PICK h : h = loc[p].sid
  OBVIOUS
<1>3. PICK f : f = Summary(Told(h))
  OBVIOUS
<1>4. f \in Frame /\ f.kind = "summary" /\ f.says = Told(h)
  <2>1. Told(h) \in Seq(Nat)
    BY <1>1, ToldType
  <2>. QED  BY <1>3, <2>1 DEF Summary, Frame, FrameKinds
<1>5. /\ sessions' = Appended(h, c, <<f>>) /\ pc'[p] = "compact.persist"
      /\ UNCHANGED <<chats, messages, req, loc>>
  BY <1>0, <1>1, <1>2, <1>3 DEF CompactTurn, At, Told
<1>6. Told(h)' = Told(h)
  BY <1>1, <1>4, <1>5, AppendsTold
<1>7. Texts(c)' = Texts(c)
  BY <1>5 DEF Texts, MaxSeq, Seqs
<1>8. Told(h) = Texts(c) /\ chats[c].api = "agent-sdk" /\ h = chats[c].session
  BY <1>0, <1>2, HeardBefore DEF Heard, KnowsRow, KnowsSession, OnAgent
<1>9. NoneHere(c)' /\ KnowsRow(p, c)'
  BY <1>0, <1>5, <1>8 DEF Heard, NoneHere, KnowsRow, ReadsRow, OnTip, Swiping, OnAgent, Forking, Greeting
<1>10. KnowsSession(p, c)' /\ KnowsTexts(p, c)'
  BY <1>2, <1>5, <1>8 DEF KnowsSession, KnowsTexts, OnTip, Swiping, Blank, Forking
<1>11. PICK at : at = "compact.persist" /\ pc'[p] = at
  BY <1>5
<1>12. h = loc'[p].sid /\ Told(h)' = Texts(c)'
  BY <1>2, <1>5, <1>6, <1>7, <1>8
<1>13. at \in {"send.reply", "send.update", "compact.turn", "compact.persist", "swipe.drop",
                 "swipe.update", "reseed.point", "provider.session", "greet.update", "open.reply",
                 "open.update", "fork.messages"}
  BY <1>11
<1>. QED  BY <1>9, <1>10, <1>11, <1>12, <1>13, HearsHand

\* Behind the regeneration: the new text is heard behind the texts before the tip.
LEMMA HearsVariant ==
  ASSUME NEW p, NEW c, NEW at, pc'[p] = at, at \in {"swipe.variant", "swipe.message"},
         NoneHere(c)', KnowsRow(p, c)', KnowsSession(p, c)', KnowsTexts(p, c)',
         NEW s, loc'[p].seq = s, NEW b, loc'[p].body = b, NEW h, h = loc'[p].sid,
         chats'[c].api = "agent-sdk" => Told(h)' = Append(Before(c, s)', b)
  PROVE  Heard(p, c)'
<1>1. PICK says : says = Append(Before(c, s)', b)
  OBVIOUS
<1>2. (at \notin Loose /\ (IF at = "provider.update" THEN req'[p].api ELSE chats'[c].api) = "agent-sdk") =>
        Told(h)' = says
  BY <1>1
<1>3. h = IF at \in SidSteps THEN loc'[p].sid ELSE chats'[c].session
  BY DEF SidSteps
<1>4. says = IF at \in {"send.turn", "swipe.reply"} THEN Before(c, s)'
             ELSE IF at \in {"send.persist", "open.insert"} THEN Append(Texts(c)', b)
             ELSE IF at \in {"swipe.backfill", "swipe.variant", "swipe.message"}
                  THEN Append(Before(c, s)', b)
             ELSE IF at = "fork.seed" THEN <<>>
             ELSE Texts(c)'
  BY <1>1
<1>5. at # "swipe.turn"
  OBVIOUS
<1>. QED  BY <1>2, <1>3, <1>4, <1>5, HearsAfter

LEMMA WritesVariant ==
  ASSUME NEW p \in Procs, NEW c \in ChatIds, Ready(p, c), CanonInv', SwipeBackfill(p) \/ SwipeVariant(p)
  PROVE  Heard(p, c)'
<1>0. chatOf(p) = c /\ Live(c) /\ OneWriter /\ HeldInv /\ Heard(p, c)
  BY MineAt DEF Ready, Forking, SwipeBackfill, SwipeVariant, At
<1>1. /\ DOMAIN pc = Procs /\ CanonInv /\ CanonRuns /\ RequestsOK /\ DOMAIN loc = Procs /\ MessagesOK
      /\ DOMAIN messages = ChatIds
  BY <1>0, ReadyIs
<1>2. PICK l \in Locals : l = loc[p]
  BY <1>1 DEF RequestsOK
<1>3. PICK here \in {"swipe.backfill", "swipe.variant"} : pc[p] = here
  BY DEF SwipeBackfill, SwipeVariant, At
<1>4. PICK at : at = IF here = "swipe.backfill" THEN "swipe.variant" ELSE "swipe.message"
  OBVIOUS
<1>5. PICK s \in Nat : s = l.seq /\ s = MaxSeq(c) /\ s \in Seqs(c)
  <2>1. l.seq = MaxSeq(c) /\ Seqs(c) # {}
    BY <1>0, <1>2, <1>3 DEF Heard, KnowsTexts, OnTip, Swiping
  <2>. QED  BY <1>1, <2>1, TipIs
<1>6. PICK m \in Message : m = messages[c][s]
  BY <1>1, <1>5, RowIs DEF MessagesOK, Seqs
<1>7. PICK b : b = l.body
  OBVIOUS
<1>8. pc'[p] = at /\ loc' = loc /\ req' = req /\ chats' = chats /\ sessions' = sessions
  BY <1>1, <1>3, <1>4 DEF SwipeBackfill, SwipeVariant, At
<1>9. UNCHANGED messages \/ \E v : messages' = [messages EXCEPT ![c][s].variants = v]
  <2>1. CASE SwipeBackfill(p)
    <3>1. PICK v : v = <<m.body>>
      OBVIOUS
    <3>2. UNCHANGED messages \/ messages' = [messages EXCEPT ![c][s].variants = v]
      BY <1>0, <1>2, <1>5, <1>6, <2>1, <3>1 DEF SwipeBackfill, TipRow, Tip
    <3>. QED  BY <3>2
  <2>2. CASE SwipeVariant(p)
    <3>1. PICK v : v = Append(messages[c][s].variants, b)
      OBVIOUS
    <3>2. messages' = [messages EXCEPT ![c][s].variants = v]
      BY <1>0, <1>2, <1>5, <1>6, <1>7, <2>2, <3>1 DEF SwipeVariant, Tip
    <3>. QED  BY <3>2
  <2>. QED  BY <2>1, <2>2
<1>10. /\ Seqs(c)' = Seqs(c) /\ \A i \in Seqs(c) : messages'[c][i].body = messages[c][i].body
  <2>1. CASE UNCHANGED messages
    BY <2>1 DEF Seqs
  <2>2. CASE \E v : messages' = [messages EXCEPT ![c][s].variants = v]
    <3>1. PICK v : messages' = [messages EXCEPT ![c][s].variants = v]
      BY <2>2
    <3>2. PICK n : n = [m EXCEPT !.variants = v]
      OBVIOUS
    <3>3. n.body = m.body
      BY <3>2 DEF Message
    <3>4. messages' = [messages EXCEPT ![c][s] = n]
      BY <1>6, <3>1, <3>2
    <3>. QED  BY <1>1, <1>6, <3>3, <3>4 DEF Seqs
  <2>. QED  BY <1>9, <2>1, <2>2
<1>11. MaxSeq(c)' = MaxSeq(c) /\ Before(c, s)' = Before(c, s)
  BY <1>1, <1>10, TextsStay
<1>12. PICK h : h = l.sid
  OBVIOUS
<1>13. chats[c].api = "agent-sdk" => Told(h)' = Append(Before(c, s)', b)
  <2>1. Told(h)' = Told(h)
    BY <1>8 DEF Told, FramesOf
  <2>2. chats[c].api = "agent-sdk" => Told(h) = Append(Before(c, l.seq), l.body)
    BY <1>0, <1>2, <1>3, <1>12, HeardBefore
  <2>. QED  BY <1>5, <1>7, <1>11, <2>1, <2>2
<1>14. NoneHere(c)' /\ KnowsRow(p, c)'
  BY <1>0, <1>3, <1>4, <1>8 DEF Heard, NoneHere, KnowsRow, ReadsRow, OnTip, Swiping, OnAgent, Forking, Greeting
<1>15. KnowsSession(p, c)'
  BY <1>4, <1>8 DEF KnowsSession, Forking
<1>16. KnowsTexts(p, c)'
  BY <1>2, <1>4, <1>5, <1>8, <1>10, <1>11 DEF KnowsTexts, OnTip, Swiping, Blank
<1>17. at \in {"swipe.variant", "swipe.message"} /\ loc'[p].seq = s /\ loc'[p].body = b /\ h = loc'[p].sid
       /\ chats'[c].api = chats[c].api
  BY <1>2, <1>4, <1>5, <1>7, <1>8, <1>12
<1>. QED  BY <1>8, <1>13, <1>14, <1>15, <1>16, <1>17, HearsVariant

LEMMA WritesSwiped ==
  ASSUME NEW p \in Procs, NEW c \in ChatIds, Ready(p, c), CanonInv', SwipeMessage(p)
  PROVE  Heard(p, c)'
<1>0. chatOf(p) = c /\ Live(c) /\ OneWriter /\ HeldInv /\ Heard(p, c) /\ pc[p] = "swipe.message"
  BY MineAt DEF Ready, Forking, SwipeMessage, At
<1>1. /\ DOMAIN pc = Procs /\ CanonInv /\ CanonRuns /\ RequestsOK /\ DOMAIN loc = Procs /\ MessagesOK
      /\ DOMAIN messages = ChatIds
  BY <1>0, ReadyIs
<1>2. PICK l \in Locals : l = loc[p]
  BY <1>1 DEF RequestsOK
<1>3. Seqs(c) # {}
  BY <1>0 DEF Heard, KnowsTexts, OnTip
<1>4. PICK s \in Nat : s = l.seq /\ s = MaxSeq(c) /\ s \in Seqs(c)
  <2>1. l.seq = MaxSeq(c)
    BY <1>0, <1>2 DEF Heard, KnowsTexts, OnTip
  <2>. QED  BY <1>1, <1>3, <2>1, TipIs
<1>5. PICK m \in Message : m = messages[c][s]
  BY <1>1, <1>4, RowIs DEF MessagesOK, Seqs
<1>6. PICK b \in Nat : b = l.body
  BY DEF Locals
<1>7. PICK a : a = Len(m.variants)
  OBVIOUS
<1>8. PICK n : n = [m EXCEPT !.active = a, !.body = b, !.gens = @ + 1]
  OBVIOUS
<1>9. n.body = b
  BY <1>8 DEF Message
<1>10. /\ messages' = [messages EXCEPT ![c][s] = n]
       /\ pc'[p] = "swipe.drop" /\ loc' = loc /\ req' = req /\ chats' = chats /\ sessions' = sessions
  BY <1>0, <1>1, <1>2, <1>4, <1>5, <1>6, <1>7, <1>8 DEF SwipeMessage, At, Tip, TipRow
<1>11. /\ Seqs(c)' = Seqs(c) /\ messages'[c][s].body = b
       /\ \A i \in Seqs(c) \ {s} : messages'[c][i] = messages[c][i]
  BY <1>1, <1>4, <1>9, <1>10 DEF Seqs
<1>12. Texts(c)' = Append(Before(c, s), b)
  BY <1>1, <1>3, <1>4, <1>11, TipRewritten
<1>13. PICK h : h = l.sid
  OBVIOUS
<1>14. chats[c].api = "agent-sdk" => Told(h)' = Texts(c)'
  <2>1. Told(h)' = Told(h)
    BY <1>10 DEF Told, FramesOf
  <2>2. chats[c].api = "agent-sdk" => Told(h) = Append(Before(c, l.seq), l.body)
    BY <1>0, <1>2, <1>13, HeardBefore
  <2>. QED  BY <1>4, <1>6, <1>12, <2>1, <2>2
<1>15. NoneHere(c)' /\ KnowsRow(p, c)'
  BY <1>0, <1>10 DEF Heard, NoneHere, KnowsRow, ReadsRow, OnTip, Swiping, OnAgent, Forking, Greeting
<1>16. KnowsSession(p, c)' /\ KnowsTexts(p, c)'
  BY <1>10 DEF KnowsSession, KnowsTexts, OnTip, Swiping, Blank, Forking
<1>17. PICK at : at = "swipe.drop" /\ pc'[p] = at
  BY <1>10
<1>18. h = loc'[p].sid /\ chats'[c].api = chats[c].api
  BY <1>2, <1>10, <1>13
<1>19. at \in {"send.reply", "send.update", "compact.turn", "compact.persist", "swipe.drop",
                 "swipe.update", "reseed.point", "provider.session", "greet.update", "open.reply",
                 "open.update", "fork.messages"}
  BY <1>17
<1>. QED  BY <1>14, <1>15, <1>16, <1>17, <1>18, <1>19, HearsHand

\* The replaced sessions go, the one in hand stays.
LEMMA DropsReplaced ==
  ASSUME NEW p \in Procs, NEW c \in ChatIds, Ready(p, c), SwipeDrop(p)
  PROVE  Heard(p, c)'
<1>0. chatOf(p) = c /\ Live(c) /\ OneWriter /\ HeldInv /\ Heard(p, c) /\ pc[p] = "swipe.drop"
  BY MineAt DEF Ready, Forking, SwipeDrop, At
<1>1. /\ DOMAIN pc = Procs /\ RequestsOK /\ DOMAIN loc = Procs
  BY <1>0, ReadyIs
<1>2. PICK h : h = loc[p].sid
  OBVIOUS
<1>3. /\ pc'[p] = "swipe.update" /\ loc' = loc /\ req' = req /\ chats' = chats /\ messages' = messages
  BY <1>1 DEF SwipeDrop, At
<1>4. Texts(c)' = Texts(c)
  BY <1>3 DEF Texts, MaxSeq, Seqs
<1>5. Told(h)' = Told(h)
  <2>1. CASE sessions' = sessions
    BY <2>1 DEF Told, FramesOf
  <2>2. CASE sessions' = DroppedAll({loc[p].row.session, loc[p].seeded} \ {h})
    <3>1. PICK dead : dead = {loc[p].row.session, loc[p].seeded} \ {h}
      OBVIOUS
    <3>2. h \notin dead
      BY <3>1
    <3>3. FramesOf(h)' = FramesOf(h)
      BY <2>2, <3>1, <3>2, DropsFrames
    <3>. QED  BY <3>3 DEF Told
  <2>. QED  BY <1>2, <2>1, <2>2 DEF SwipeDrop
<1>6. chats[c].api = "agent-sdk" => Told(h)' = Texts(c)'
  BY <1>0, <1>2, <1>4, <1>5, HeardBefore
<1>7. NoneHere(c)' /\ KnowsRow(p, c)'
  BY <1>0, <1>3 DEF Heard, NoneHere, KnowsRow, ReadsRow, OnTip, Swiping, OnAgent, Forking, Greeting
<1>8. KnowsSession(p, c)' /\ KnowsTexts(p, c)'
  BY <1>3 DEF KnowsSession, KnowsTexts, OnTip, Swiping, Blank, Forking
<1>9. PICK at : at = "swipe.update" /\ pc'[p] = at
  BY <1>3
<1>10. h = loc'[p].sid /\ chats'[c].api = chats[c].api
  BY <1>2, <1>3
<1>11. at \in {"send.reply", "send.update", "compact.turn", "compact.persist", "swipe.drop",
                 "swipe.update", "reseed.point", "provider.session", "greet.update", "open.reply",
                 "open.update", "fork.messages"}
  BY <1>9
<1>. QED  BY <1>6, <1>7, <1>8, <1>9, <1>10, <1>11, HearsHand

\* A fresh session says the history before the prompt of the swipe.
LEMMA SeedsSwipe ==
  ASSUME NEW p \in Procs, NEW c \in ChatIds, Ready(p, c), SwipeSeed(p)
  PROVE  Heard(p, c)'
<1>0. chatOf(p) = c /\ Live(c) /\ OneWriter /\ HeldInv /\ Heard(p, c) /\ pc[p] = "swipe.seed"
  BY MineAt DEF Ready, Forking, SwipeSeed, At
<1>1. /\ DOMAIN pc = Procs /\ CanonInv /\ RequestsOK /\ DOMAIN loc = Procs /\ MaxSeq(c) \in Nat
      /\ nextSession \notin DOMAIN sessions /\ Told(0) = <<>>
  BY <1>0, ReadyIs
<1>2. PICK l \in Locals : l = loc[p]
  BY <1>1 DEF RequestsOK
<1>3. PICK s \in Nat : /\ s = l.seq /\ s = MaxSeq(c) /\ Seqs(c) # {}
                       /\ messages[c][s].role = "assistant"
  BY <1>0, <1>1, <1>2 DEF Heard, KnowsTexts, OnTip, Swiping
<1>4. PICK r \in Nat : r = RegenFrom(c, s) /\ r <= s
  BY <1>1, <1>3, RegenSays
<1>5. PICK ff \in Seq(Frame) : ff = History(c, -1, r) /\ Said(ff) = Before(c, r)
  <2>1. r <= MaxSeq(c) + 1
    BY <1>3, <1>4
  <2>. QED  BY <1>1, <2>1, HistorySays
<1>6. l.row.api = chats[c].api /\ l.row.session = chats[c].session
  BY <1>0, <1>2 DEF Heard, KnowsRow, ReadsRow, OnTip, Swiping
<1>7. l.seeded = 0
  BY <1>0, <1>2 DEF HeldInv, EmptyHanded, Early
<1>8. PICK n : n = nextSession
  OBVIOUS
<1>9. /\ pc'[p] = "swipe.turn" /\ UNCHANGED <<chats, messages, req>>
      /\ IF chats[c].api = "agent-sdk" /\ ff # <<>>
         THEN sessions' = Appended(n, c, ff) /\ loc' = [loc EXCEPT ![p].seeded = n]
         ELSE sessions' = sessions /\ loc' = loc
  BY <1>0, <1>1, <1>2, <1>3, <1>4, <1>5, <1>6, <1>8 DEF SwipeSeed, At, Tip, RegenHistory, OnAgentSdk
<1>10. PICK k \in Locals : /\ k = loc'[p] /\ k.row = l.row /\ k.seq = s
                           /\ chats[c].api = "agent-sdk" => Told(k.seeded)' = Before(c, r)
  <2>1. CASE chats[c].api = "agent-sdk" /\ ff # <<>>
    <3>1. loc'[p] = [l EXCEPT !.seeded = n]
      BY <1>1, <1>2, <1>9, <2>1
    <3>2. PICK k : k = loc'[p]
      OBVIOUS
    <3>3. k.row = l.row /\ k.seq = s /\ k.seeded = n
      BY <1>3, <3>1, <3>2 DEF Locals
    <3>4. n \in Nat
      BY <1>8, <1>1 DEF RequestsOK
    <3>5. k \in Locals
      BY <3>1, <3>2, <3>4 DEF Locals
    <3>6. n \notin DOMAIN sessions /\ sessions' = Appended(n, c, ff)
      BY <1>1, <1>8, <1>9, <2>1
    <3>7. Told(n)' = Before(c, r)
      BY <1>5, <3>6, SeedsTold
    <3>. QED  BY <3>2, <3>3, <3>5, <3>7
  <2>2. CASE ~(chats[c].api = "agent-sdk" /\ ff # <<>>)
    <3>1. loc' = loc /\ sessions' = sessions
      BY <1>9, <2>2
    <3>2. PICK z : z = 0
      OBVIOUS
    <3>3. Told(z)' = <<>>
      BY <1>1, <3>1, <3>2 DEF Told, FramesOf
    <3>4. chats[c].api = "agent-sdk" => Before(c, r) = <<>>
      BY <1>5, <2>2, SaidNothing
    <3>5. l.seeded = z
      BY <1>7, <3>2
    <3>6. loc'[p] = l
      BY <1>2, <3>1
    <3>. QED  BY <1>3, <3>3, <3>4, <3>5, <3>6
  <2>. QED  BY <2>1, <2>2
<1>11. RegenFrom(c, s)' = r /\ Seqs(c)' = Seqs(c) /\ MaxSeq(c)' = MaxSeq(c)
  BY <1>4, <1>9 DEF RegenFrom, UsersBefore, Seqs, MaxSeq
<1>12. RegenFrom(c, loc[p].seq)' = r
  BY <1>4, <1>9, <1>10 DEF RegenFrom, UsersBefore, Seqs
<1>13. Before(c, RegenFrom(c, loc[p].seq))' = Before(c, r)
  BY <1>9, <1>12 DEF Before
<1>14. Speaks(p, c)'
  <2>1. PICK h : h = k.seeded
    OBVIOUS
  <2>2. h = Hand(p, c)'
    BY <1>9, <1>10, <2>1 DEF Hand
  <2>3. Due(p, c)' = Before(c, r)
    BY <1>9, <1>13 DEF Due
  <2>4. WillBe(p, c)' = chats[c].api
    BY <1>9 DEF WillBe
  <2>. QED  BY <1>10, <2>1, <2>2, <2>3, <2>4, SpeaksThen
<1>15. NoneHere(c)' /\ KnowsRow(p, c)'
  BY <1>0, <1>6, <1>9, <1>10 DEF Heard, NoneHere, KnowsRow, ReadsRow, OnTip, Swiping, OnAgent, Forking, Greeting
<1>16. KnowsSession(p, c)'
  BY <1>9 DEF KnowsSession, Forking
<1>17. KnowsTexts(p, c)'
  BY <1>3, <1>9, <1>10, <1>11 DEF KnowsTexts, OnTip, Swiping, Blank
<1>. QED  BY <1>14, <1>15, <1>16, <1>17 DEF Heard

\* The session goes, or is about to, and the row of the chat is in hand.
LEMMA HearsLoose ==
  ASSUME NEW p, NEW c, pc'[p] \in Loose \/ (pc'[p] = "idle" /\ chats'[c].api # "agent-sdk"),
         NoneHere(c)', pc'[p] \in Loose => KnowsRow(p, c)' /\ KnowsTexts(p, c)'
  PROVE  Heard(p, c)'
<1>1. CASE pc'[p] \in Loose
  <2>1. Speaks(p, c)'
    BY <1>1 DEF Speaks
  <2>2. KnowsSession(p, c)'
    BY <1>1 DEF KnowsSession, Forking, Loose
  <2>. QED  BY <1>1, <2>1, <2>2 DEF Heard
<1>2. CASE pc'[p] = "idle" /\ chats'[c].api # "agent-sdk"
  <2>1. PICK h : h = chats'[c].session
    OBVIOUS
  <2>. QED  BY <1>2, <2>1, HearsEnd
<1>. QED  BY <1>1, <1>2

LEMMA RewritesTexts ==
  ASSUME NEW p \in Procs, NEW c \in ChatIds, Ready(p, c),
         SelectVariant(p) \/ EditMessage(p) \/ EditVariant(p)
  PROVE  Heard(p, c)'
<1>0. chatOf(p) = c /\ Live(c) /\ OneWriter /\ HeldInv /\ Heard(p, c)
  BY MineAt DEF Ready, Forking, SelectVariant, EditMessage, EditVariant, Granted
<1>1. /\ DOMAIN pc = Procs /\ RequestsOK /\ DOMAIN loc = Procs
  BY <1>0, ReadyIs
<1>2. PICK l \in Locals : l = loc[p]
  BY <1>1 DEF RequestsOK
<1>3. chats' = chats /\ NoneHere(c)'
  BY <1>0 DEF SelectVariant, EditMessage, EditVariant, Heard, NoneHere
<1>4. ASSUME NEW row, row.api = chats[c].api, row.session = chats[c].session, ReseedOrLeave(p, row)
      PROVE  Heard(p, c)'
  <2>1. CASE row.api = "agent-sdk"
    <3>1. pc'[p] = "reseed.drop" /\ loc'[p] = [l EXCEPT !.row = row]
      BY <1>1, <1>2, <1>4, <2>1 DEF ReseedOrLeave
    <3>2. loc'[p].row = row
      BY <3>1 DEF Locals
    <3>3. KnowsRow(p, c)' /\ KnowsTexts(p, c)'
      BY <1>3, <1>4, <2>1, <3>1, <3>2 DEF KnowsRow, KnowsTexts, ReadsRow, OnTip, Swiping, OnAgent, Forking,
         Greeting, Blank
    <3>4. pc'[p] \in Loose
      BY <3>1 DEF Loose
    <3>. QED  BY <1>3, <3>3, <3>4, HearsLoose
  <2>2. CASE row.api # "agent-sdk"
    <3>1. pc'[p] = "idle" /\ chats'[c].api # "agent-sdk"
      BY <1>1, <1>3, <1>4, <2>2 DEF ReseedOrLeave, Leave
    <3>2. pc'[p] \notin Loose
      BY <3>1 DEF Loose
    <3>. QED  BY <1>3, <3>1, <3>2, HearsLoose
  <2>. QED  BY <2>1, <2>2
<1>5. CASE SelectVariant(p)
  <2>1. PICK row : row = chats[c]
    OBVIOUS
  <2>2. ReseedOrLeave(p, row)
    BY <1>0, <1>5, <2>1 DEF SelectVariant
  <2>. QED  BY <1>4, <2>1, <2>2
<1>6. CASE EditMessage(p)
  <2>1. PICK row : row = chats[c]
    OBVIOUS
  <2>2. PICK s : \/ /\ pc' = [pc EXCEPT ![p] = "edit.variant"]
                    /\ loc' = [loc EXCEPT ![p].row = row, ![p].seq = s, ![p].body = nextBody]
                 \/ ReseedOrLeave(p, row)
    BY <1>0, <1>6, <2>1 DEF EditMessage
  <2>3. CASE /\ pc' = [pc EXCEPT ![p] = "edit.variant"]
             /\ loc' = [loc EXCEPT ![p].row = row, ![p].seq = s, ![p].body = nextBody]
    <3>1. PICK b : b = nextBody
      OBVIOUS
    <3>2. loc'[p] = [l EXCEPT !.row = row, !.seq = s, !.body = b] /\ pc'[p] = "edit.variant"
      BY <1>1, <1>2, <2>3, <3>1
    <3>3. loc'[p].row = row
      BY <3>2 DEF Locals
    <3>4. KnowsRow(p, c)' /\ KnowsTexts(p, c)'
      BY <1>3, <2>1, <3>2, <3>3 DEF KnowsRow, KnowsTexts, ReadsRow, OnTip, Swiping, OnAgent, Forking,
         Greeting, Blank
    <3>5. pc'[p] \in Loose
      BY <3>2 DEF Loose
    <3>. QED  BY <1>3, <3>4, <3>5, HearsLoose
  <2>. QED  BY <1>4, <2>1, <2>2, <2>3
<1>7. CASE EditVariant(p)
  <2>1. PICK row : row = l.row
    OBVIOUS
  <2>2. row.api = chats[c].api /\ row.session = chats[c].session
    BY <1>0, <1>2, <1>7, <2>1 DEF Heard, KnowsRow, ReadsRow, EditVariant
  <2>3. ReseedOrLeave(p, row)
    BY <1>2, <1>7, <2>1 DEF EditVariant
  <2>. QED  BY <1>4, <2>2, <2>3
<1>. QED  BY <1>5, <1>6, <1>7

LEMMA DropsOld ==
  ASSUME NEW p \in Procs, NEW c \in ChatIds, Ready(p, c), ReseedDrop(p)
  PROVE  Heard(p, c)'
<1>0. chatOf(p) = c /\ OneWriter /\ HeldInv /\ Heard(p, c) /\ pc[p] = "reseed.drop"
  BY MineAt DEF Ready, Forking, ReseedDrop, At
<1>1. pc'[p] = "reseed.seed" /\ loc' = loc /\ req' = req /\ chats' = chats
  BY <1>0, ReadyIs DEF ReseedDrop, At
<1>2. NoneHere(c)' /\ KnowsRow(p, c)' /\ KnowsTexts(p, c)'
  BY <1>0, <1>1 DEF Heard, NoneHere, KnowsRow, KnowsTexts, ReadsRow, OnTip, Swiping, OnAgent, Forking,
     Greeting, Blank
<1>3. pc'[p] \in Loose
  BY <1>1 DEF Loose
<1>. QED  BY <1>2, <1>3, HearsLoose

\* seedSessionFromCanon: the fresh session says the canon.
LEMMA SeedsCanon ==
  ASSUME CanonInv, NEW c \in ChatIds, NEW n, n \notin DOMAIN sessions,
         sessions' = Appended(n, c, StubFirst(Canon(c)))
  PROVE  Told(n)' = Texts(c)
<1>1. CanonRuns
  BY DEF CanonInv
<1>2. PICK b \in Nat : b = MaxSeq(c) + 1 /\ b <= MaxSeq(c) + 1
  <2>1. MaxSeq(c) \in Nat
    BY <1>1, TipIs
  <2>. QED  BY <2>1
<1>3. PICK ff \in Seq(Frame) : ff = Canon(c)
  <2>1. Canon(c) \in Seq(Frame)
    BY <1>2, HistorySays DEF Canon
  <2>. QED  BY <2>1
<1>4. Said(ff) = Texts(c)
  BY <1>1, <1>3, ShownIs DEF Shown
<1>5. PICK gg : gg = StubFirst(ff)
  OBVIOUS
<1>6. gg \in Seq(Frame) /\ Said(gg) = Said(ff)
  <2>1. CASE gg = ff
    BY <2>1
  <2>2. CASE gg = <<Stub>> \o ff
    <3>1. PICK g \in Frame : g = Stub
      BY StubIsFrame
    <3>2. <<g>> \o ff \in Seq(Frame)
      OBVIOUS
    <3>3. Said(<<Stub>> \o ff) = Said(ff)
      BY SaidStub
    <3>. QED  BY <2>2, <3>1, <3>2, <3>3
  <2>. QED  BY <1>5, <2>1, <2>2 DEF StubFirst
<1>7. Told(n)' = Said(gg)
  BY <1>3, <1>5, <1>6, SeedsTold
<1>. QED  BY <1>4, <1>6, <1>7

LEMMA Reseeds ==
  ASSUME NEW p \in Procs, NEW c \in ChatIds, Ready(p, c), ReseedSeed(p)
  PROVE  Heard(p, c)'
<1>0. chatOf(p) = c /\ OneWriter /\ HeldInv /\ Heard(p, c) /\ pc[p] = "reseed.seed"
  BY MineAt DEF Ready, Forking, ReseedSeed
<1>1. DOMAIN pc = Procs /\ DOMAIN loc = Procs /\ RequestsOK /\ CanonInv /\ nextSession \notin DOMAIN sessions
  BY <1>0, ReadyIs
<1>2. PICK l \in Locals : l = loc[p]
  BY <1>1 DEF RequestsOK
<1>3. PICK n : n = nextSession
  OBVIOUS
<1>4. /\ pc'[p] = "reseed.point" /\ loc'[p] = [l EXCEPT !.sid = n]
      /\ chats' = chats /\ messages' = messages /\ req' = req
      /\ sessions' = Appended(n, c, StubFirst(Canon(c)))
  BY <1>0, <1>1, <1>2, <1>3 DEF ReseedSeed, SeedFromCanon
<1>5. loc'[p].sid = n
  BY <1>4 DEF Locals
<1>6. Told(n)' = Texts(c)
  BY <1>1, <1>3, <1>4, SeedsCanon
<1>7. Texts(c)' = Texts(c)
  BY <1>4 DEF Texts, MaxSeq, Seqs
<1>8. NoneHere(c)' /\ KnowsRow(p, c)'
  BY <1>0, <1>4 DEF Heard, NoneHere, KnowsRow, ReadsRow, OnTip, Swiping, OnAgent, Forking, Greeting
<1>9. KnowsSession(p, c)' /\ KnowsTexts(p, c)'
  BY <1>4 DEF KnowsSession, KnowsTexts, OnTip, Swiping, Blank, Forking
<1>10. PICK at : at = "reseed.point" /\ pc'[p] = at
  BY <1>4
<1>11. n = loc'[p].sid /\ Told(n)' = Texts(c)'
  BY <1>5, <1>6, <1>7
<1>12. at \in {"send.reply", "send.update", "compact.turn", "compact.persist", "swipe.drop",
                 "swipe.update", "reseed.point", "provider.session", "greet.update", "open.reply",
                 "open.update", "fork.messages"}
  BY <1>10
<1>. QED  BY <1>8, <1>9, <1>10, <1>11, <1>12, HearsHand

\* A list of two.
LEMMA PairIs ==
  ASSUME NEW S, NEW a \in S, NEW b \in S
  PROVE  <<>> \o <<a>> = <<a>> /\ <<a>> \o <<b>> = <<a, b>>
<1>1. <<a>> \o <<b>> = <<a, b>>
  <2>1. <<a>> \in Seq(S) /\ <<b>> \in Seq(S) /\ <<a, b>> \in Seq(S)
    OBVIOUS
  <2>2. PICK u \in Seq(S) : u = <<a>> \o <<b>>
    BY <2>1, ConcatProperties, Zenon
  <2>3. Len(u) = 2 /\ u[1] = a /\ u[2] = b
    BY <2>1, <2>2
  <2>4. PICK v \in Seq(S) : v = <<a, b>>
    BY <2>1, ConcatProperties, Zenon
  <2>5. Len(v) = 2 /\ v[1] = a /\ v[2] = b
    BY <2>4
  <2>6. \A i \in 1..Len(u) : u[i] = v[i]
    BY <2>3, <2>5
  <2>7. u = v
    BY <2>3, <2>5, <2>6, SeqEqual
  <2>. QED  BY <2>2, <2>4, <2>7
<1>4. <<>> \o <<a>> = <<a>>
  OBVIOUS
<1>. QED BY <1>1, <1>4

LEMMA SeedsGreeting ==
  ASSUME NEW p \in Procs, NEW c \in ChatIds, Ready(p, c), GreetSeed(p)
  PROVE  Heard(p, c)'
<1>0. chatOf(p) = c /\ OneWriter /\ HeldInv /\ Heard(p, c) /\ pc[p] = "greet.seed"
  BY MineAt DEF Ready, Forking, GreetSeed, At
<1>1. DOMAIN pc = Procs /\ DOMAIN loc = Procs /\ RequestsOK /\ CanonInv /\ nextSession \notin DOMAIN sessions
  BY <1>0, ReadyIs
<1>2. PICK l \in Locals : l = loc[p]
  BY <1>1 DEF RequestsOK
<1>3. PICK n : n = nextSession
  OBVIOUS
<1>4. PICK b \in Nat : b = l.body
  BY DEF Locals
<1>5. PICK f : f = Turn("assistant", b)
  OBVIOUS
<1>6. f \in Frame /\ f.kind # "summary" /\ f.says = <<b>>
  BY <1>5, TurnIs
<1>7. PICK ff : ff = <<Stub, f>>
  OBVIOUS
<1>8. ff \in Seq(Frame) /\ Said(ff) = <<b>>
  <2>1. PICK g0 \in Frame : g0 = Stub
    BY StubIsFrame
  <2>2. PICK g \in Frame : g = f
    BY <1>6
  <2>3. <<g0>> \in Seq(Frame) /\ <<>> \in Seq(Frame) /\ <<g0, g>> \in Seq(Frame)
    OBVIOUS
  <2>4. <<>> \o <<g0>> = <<g0>> /\ <<g0>> \o <<g>> = <<g0, g>>
    BY PairIs
  <2>5. g0.kind # "summary" /\ g0.says = <<>>
    BY <2>1, StubIs
  <2>6. Said(<<>> \o <<g0>>) = Said(<<>>) \o g0.says
    BY <2>3, <2>5, SaysOneMore
  <2>7. Said(<<g0>> \o <<g>>) = Said(<<g0>>) \o g.says
    BY <1>6, <2>2, <2>3, SaysOneMore
  <2>8. <<>> \o <<>> = <<>> /\ <<>> \o <<b>> = <<b>>
    OBVIOUS
  <2>9. ff = <<g0, g>>
    BY <1>7, <2>1, <2>2
  <2>10. Said(<<g0>>) = <<>>
    BY <2>4, <2>5, <2>6, <2>8, SaidNothing
  <2>11. Said(<<g0, g>>) = <<b>>
    BY <1>6, <2>2, <2>4, <2>7, <2>8, <2>10
  <2>. QED  BY <2>3, <2>9, <2>11
<1>9. /\ pc'[p] = "greet.update" /\ loc'[p] = [l EXCEPT !.sid = n]
      /\ chats' = chats /\ messages' = messages /\ req' = req
      /\ sessions' = Appended(n, c, ff)
  BY <1>0, <1>1, <1>2, <1>3, <1>4, <1>5, <1>7 DEF GreetSeed, At
<1>10. loc'[p].sid = n
  BY <1>9 DEF Locals
<1>11. Told(n)' = <<b>>
  <2>1. n \notin DOMAIN sessions
    BY <1>1, <1>3
  <2>. QED  BY <1>8, <1>9, <2>1, SeedsTold
<1>12. Texts(c)' = <<b>>
  <2>1. Texts(c)' = Texts(c)
    BY <1>9 DEF Texts, MaxSeq, Seqs
  <2>. QED  BY <1>0, <1>2, <1>4, <2>1 DEF Heard, KnowsTexts
<1>13. NoneHere(c)' /\ KnowsRow(p, c)'
  BY <1>0, <1>9 DEF Heard, NoneHere, KnowsRow, ReadsRow, OnTip, Swiping, OnAgent, Forking, Greeting
<1>14. KnowsSession(p, c)' /\ KnowsTexts(p, c)'
  BY <1>9 DEF KnowsSession, KnowsTexts, OnTip, Swiping, Blank, Forking
<1>15. PICK at : at = "greet.update" /\ pc'[p] = at
  BY <1>9
<1>16. n = loc'[p].sid /\ Told(n)' = Texts(c)'
  BY <1>10, <1>11, <1>12
<1>17. at \in {"send.reply", "send.update", "compact.turn", "compact.persist", "swipe.drop",
                 "swipe.update", "reseed.point", "provider.session", "greet.update", "open.reply",
                 "open.update", "fork.messages"}
  BY <1>15
<1>. QED  BY <1>13, <1>14, <1>15, <1>16, <1>17, HearsHand

\* Leaving agent-sdk there is no session left, entering it there is one of the canon.
LEMMA Switches ==
  ASSUME NEW p \in Procs, NEW c \in ChatIds, Ready(p, c), ProviderSession(p)
  PROVE  Heard(p, c)'
<1>0. chatOf(p) = c /\ OneWriter /\ HeldInv /\ Heard(p, c) /\ pc[p] = "provider.session"
  BY MineAt DEF Ready, Forking, ProviderSession
<1>1. /\ DOMAIN pc = Procs /\ DOMAIN loc = Procs /\ RequestsOK /\ CanonInv
      /\ nextSession \notin DOMAIN sessions /\ chats[c] \in ChatRow
  BY <1>0, ReadyIs
<1>2. PICK l \in Locals : l = loc[p]
  BY <1>1 DEF RequestsOK
<1>3. PICK n : n = nextSession
  OBVIOUS
<1>4. PICK api \in Apis : api = chats[c].api
  BY <1>1 DEF ChatRow
<1>5. /\ l.row.api = api /\ l.sid = chats[c].session
      /\ (api = "openrouter" => l.sid = 0) /\ (api = "agent-sdk" => Told(l.sid) = Texts(c))
  <2>1. l.row.api = api
    BY <1>0, <1>2, <1>4 DEF Heard, KnowsRow, ReadsRow
  <2>2. l.sid = chats[c].session
    BY <1>0, <1>2 DEF Heard, KnowsSession
  <2>3. api = "openrouter" => l.sid = 0
    BY <1>0, <1>4, <2>2 DEF Heard, NoneHere
  <2>4. api = "agent-sdk" => Told(l.sid) = Texts(c)
    BY <1>0, <1>2, <1>4, HeardBefore
  <2>. QED  BY <2>1, <2>2, <2>3, <2>4
<1>6. pc'[p] = "provider.update" /\ chats' = chats /\ messages' = messages /\ req' = req
  BY <1>1 DEF ProviderSession, SeedFromCanon
<1>7. Texts(c)' = Texts(c)
  BY <1>6 DEF Texts, MaxSeq, Seqs
<1>8. PICK h : /\ h = loc'[p].sid
               /\ req[p].api = "agent-sdk" => Told(h)' = Texts(c)
               /\ req[p].api # "agent-sdk" => h = 0
  <2>1. CASE Leaving(p) /\ loc' = [loc EXCEPT ![p].sid = 0]
    <3>1. loc'[p] = [l EXCEPT !.sid = 0]
      BY <1>1, <1>2, <2>1
    <3>2. loc'[p].sid = 0
      BY <3>1 DEF Locals
    <3>. QED  BY <2>1, <3>2 DEF Leaving
  <2>2. CASE Entering(p) /\ SeedFromCanon(p, "provider.update")
    <3>1. loc'[p] = [l EXCEPT !.sid = n] /\ sessions' = Appended(n, c, StubFirst(Canon(c)))
      BY <1>0, <1>1, <1>2, <1>3, <2>2 DEF SeedFromCanon
    <3>2. loc'[p].sid = n
      BY <3>1 DEF Locals
    <3>3. Told(n)' = Texts(c)
      BY <1>1, <1>3, <3>1, SeedsCanon
    <3>. QED  BY <2>2, <3>2, <3>3 DEF Entering
  <2>3. CASE ~Leaving(p) /\ ~Entering(p) /\ sessions' = sessions /\ loc' = loc
    <3>1. PICK h : h = l.sid
      OBVIOUS
    <3>2. Told(h)' = Told(h)
      BY <2>3 DEF Told, FramesOf
    <3>. QED  BY <1>2, <1>5, <2>3, <3>1, <3>2 DEF Leaving, Entering, Apis
  <2>. QED  BY <2>1, <2>2, <2>3 DEF ProviderSession
<1>9. Speaks(p, c)'
  <2>1. h = Hand(p, c)' /\ Due(p, c)' = Texts(c) /\ WillBe(p, c)' = req[p].api
    BY <1>6, <1>7, <1>8 DEF Hand, SidSteps, Due, WillBe
  <2>. QED  BY <1>8, <2>1, SpeaksThen
<1>10. NoneHere(c)' /\ KnowsRow(p, c)'
  BY <1>0, <1>6 DEF Heard, NoneHere, KnowsRow, ReadsRow, OnTip, Swiping, OnAgent, Forking, Greeting
<1>11. KnowsSession(p, c)' /\ KnowsTexts(p, c)'
  BY <1>6, <1>8 DEF KnowsSession, KnowsTexts, OnTip, Swiping, Blank, Forking
<1>. QED  BY <1>9, <1>10, <1>11 DEF Heard

\* A fork writes its copy where there was nothing.
LEMMA CopiesMessages ==
  ASSUME NEW p \in Procs, NEW c \in ChatIds, Ready(p, c), ForkMessages(p)
  PROVE  Heard(p, c)'
<1>0. /\ Live(c) /\ OneWriter /\ HeldInv /\ Heard(p, c) /\ pc[p] = "fork.messages"
      /\ req[p].target = c
  BY MineAt DEF Ready, Forking, ForkMessages
<1>1. /\ DOMAIN pc = Procs /\ DOMAIN messages = ChatIds /\ DOMAIN copy = Procs /\ Told(0) = <<>>
  BY <1>0, ReadyIs
<1>2. Seqs(c) = {}
  BY <1>0 DEF Heard, KnowsTexts, Blank
<1>3. /\ pc'[p] = "fork.seed" /\ UNCHANGED <<chats, sessions, req, loc, copy>>
      /\ messages' = [messages EXCEPT ![c] =
               [s \in Seqs(c) \union DOMAIN copy[p] |->
                  IF s \in DOMAIN copy[p] THEN copy[p][s] ELSE @[s]]]
  BY <1>0, <1>1, <1>2 DEF ForkMessages
<1>4. Seqs(c)' = DOMAIN copy[p] /\ \A s \in DOMAIN copy[p] : messages'[c][s] = copy[p][s]
  BY <1>1, <1>2, <1>3 DEF Seqs
<1>5. NoneHere(c)' /\ KnowsRow(p, c)' /\ KnowsSession(p, c)'
  BY <1>0, <1>3 DEF Heard, NoneHere, KnowsRow, KnowsSession, ReadsRow, OnTip, Swiping, OnAgent, Forking,
     Greeting
<1>6. KnowsTexts(p, c)'
  BY <1>3, <1>4 DEF KnowsTexts, Blank, OnTip, Swiping
<1>7. PICK at, h, s, b : at = "fork.seed" /\ h = loc[p].sid /\ s = loc'[p].seq /\ b = loc'[p].body
  OBVIOUS
<1>8. Told(h)' = <<>>
  <2>1. h \notin DOMAIN sessions'
    BY <1>0, <1>3, <1>7 DEF Heard, KnowsSession, Forking
  <2>. QED  BY <2>1, SaidNothing DEF Told, FramesOf
<1>9. PICK says : says = <<>>
  OBVIOUS
<1>10. pc'[p] = at /\ at # "swipe.turn" /\ loc'[p].seq = s /\ loc'[p].body = b
  BY <1>3, <1>7
<1>11. h = IF at \in SidSteps THEN loc'[p].sid ELSE chats'[c].session
  BY <1>3, <1>7 DEF SidSteps
<1>12. says = IF at \in {"send.turn", "swipe.reply"} THEN Before(c, s)'
             ELSE IF at \in {"send.persist", "open.insert"} THEN Append(Texts(c)', b)
             ELSE IF at \in {"swipe.backfill", "swipe.variant", "swipe.message"}
                  THEN Append(Before(c, s)', b)
             ELSE IF at = "fork.seed" THEN <<>>
             ELSE Texts(c)'
  BY <1>7, <1>9
<1>13. (at \notin Loose /\ (IF at = "provider.update" THEN req'[p].api ELSE chats'[c].api) = "agent-sdk") =>
         Told(h)' = says
  BY <1>8, <1>9
<1>. QED  BY <1>5, <1>6, <1>10, <1>11, <1>12, <1>13, HearsAfter

\* And seeds its session with it.
LEMMA SeedsFork ==
  ASSUME NEW p \in Procs, NEW c \in ChatIds, Ready(p, c), ForkSeed(p)
  PROVE  Heard(p, c)'
<1>0. /\ Live(c) /\ OneWriter /\ HeldInv /\ Heard(p, c) /\ pc[p] = "fork.seed"
      /\ req[p].target = c
  BY MineAt DEF Ready, Forking, ForkSeed
<1>1. /\ DOMAIN pc = Procs /\ CanonInv /\ MessagesOK /\ MaxSeq(c) \in Nat
  BY <1>0, ReadyIs
<1>2. PICK n : n = loc[p].sid
  OBVIOUS
<1>3. PICK ff : ff = ForkFrames(p)
  OBVIOUS
<1>4. /\ pc'[p] = "idle" /\ UNCHANGED <<chats, messages>>
      /\ req[p].api = "agent-sdk" => sessions' = Appended(n, c, ff)
  BY <1>0, <1>1, <1>2, <1>3 DEF ForkSeed, Return
<1>5. chats[c].api = req[p].api /\ n \notin DOMAIN sessions
      /\ (req[p].api = "agent-sdk" => n = chats[c].session)
  BY <1>0, <1>2 DEF Heard, KnowsRow, KnowsSession, Forking
<1>6. Said(ff) = Texts(c)
  <2>1. PICK t : t = messages[c] /\ DOMAIN t = Seqs(c) /\ MessageTable(t)
    BY <1>1 DEF Seqs, MessagesOK
  <2>2. PICK u : u = copy[p] /\ MessageTable(u) /\ DOMAIN u # {}
    BY <1>0, <1>1 DEF CanonInv, ForksCopy, ForkSteps
  <2>3. Seqs(c) = DOMAIN u /\ \A s \in Seqs(c) : t[s] = u[s]
    BY <1>0, <2>1, <2>2 DEF Heard, KnowsTexts
  <2>4. PICK top \in Nat : top = MaxSeq(c) /\ top = TopOf(DOMAIN u)
    BY <1>1, <2>2, <2>3 DEF MaxSeq
  <2>5. Words(u, top) = Words(t, top)
    <3>1. \A i \in 0..top : Word(u, i) = Word(t, i)
      BY <2>1, <2>3 DEF Word
    <3>. QED  BY <2>1, <2>2, <2>4, <3>1, WordsAgree
  <2>6. Said(ff) = Words(u, top)
    BY <1>3, <2>2, <2>4, ForkSays
  <2>. QED  BY <2>1, <2>4, <2>5, <2>6 DEF Texts
<1>7. ff \in Seq(Frame)
  BY <1>0, <1>1, <1>3, ForkFramesAre
<1>8. req[p].api = "agent-sdk" => Told(n)' = Said(ff)
  BY <1>4, <1>5, <1>7, SeedsTold
<1>9. Texts(c)' = Texts(c)
  BY <1>4 DEF Texts, MaxSeq, Seqs
<1>10. NoneHere(c)'
  BY <1>0, <1>4 DEF Heard, NoneHere
<1>11. PICK h : h = chats'[c].session
  OBVIOUS
<1>12. chats'[c].api = "agent-sdk" => Told(h)' = Texts(c)'
  <2>1. chats[c].api = "agent-sdk" => h = n
    BY <1>4, <1>5, <1>11
  <2>. QED  BY <1>4, <1>5, <1>6, <1>8, <1>9, <2>1
<1>. QED  BY <1>4, <1>10, <1>11, <1>12, HearsEnd

-----------------------------------------------------------------------------
(***************************************************************************)
(* Together.                                                               *)
(***************************************************************************)
\* What cannot happen to a chat that stays, when nothing fails.
LEMMA NothingFails ==
  ASSUME UsedOK, NEW p, NEW c, Live(c), Live(c)', Mine(p, c), Undisturbed', OneWriter,
         c \in ChatIds, p \in Procs
  PROVE  /\ ~SendFails(p) /\ ~SwipeFails(p) /\ ~Deny(p) /\ ~GreetThrows(p) /\ ~DeleteChat(p)
         /\ ~OpenFails(p)
         /\ CompactFails(p) => UNCHANGED tables
<1>0. used.failures \in Nat /\ DOMAIN used = {"requests", "failures", "crashes"}
  BY DEF UsedOK
<1>1. ~Spend("failures")
  BY <1>0 DEF Spend, Undisturbed, UsedOK
<1>2. DOMAIN chats = ChatIds
  BY DEF OneWriter, VariantInv, CanonInv, TypeOK, ChatsOK
<1>3. ~GreetThrows(p) /\ ~OpenFails(p)
  <2>1. pc[p] \in {"greet.seed", "open.turn", "open.reply"} => chatOf(p) = c
    BY MineAt DEF Forking
  <2>. QED  BY <1>1, <2>1 DEF GreetThrows, OpenFails
<1>4. ~DeleteChat(p)
  <2>1. DeleteChat(p) => chatOf(p) = c
    BY MineAt DEF Forking, DeleteChat, Granted
  <2>2. [NoChat EXCEPT !.status = "deleted"].status = "deleted"
    BY DEF NoChat, NewChat
  <2>3. DeleteChat(p) => chats'[c].status = "deleted"
    BY <1>2, <2>1, <2>2 DEF DeleteChat
  <2>. QED  BY <2>3 DEF Live
<1>. QED  BY <1>1, <1>3, <1>4 DEF SendFails, SwipeFails, Deny, FailTurn, CompactFails

\* Where the writer of a chat is.
LEMMA StepHeard ==
  ASSUME UsedOK, NEW p \in Procs, NEW c \in ChatIds, Ready(p, c), Step(p), Live(c)', Undisturbed', CanonInv'
  PROVE  Heard(p, c)'
<1>0. Live(c) /\ Mine(p, c) /\ OneWriter /\ HeldInv /\ Heard(p, c) /\ DOMAIN pc = Procs
  BY ReadyIs DEF Ready
<1>1. pc[p] \notin {"start.row", "fork.load", "fork.read", "fork.row", "send.rollback", "swipe.abandon"}
  BY <1>0 DEF Mine, Writes, Builds, Greeting, OpenSteps, LockedSteps, Heard, KnowsRow
<1>2. /\ ~SendFails(p) /\ ~SwipeFails(p) /\ ~Deny(p) /\ ~GreetThrows(p) /\ ~DeleteChat(p)
      /\ ~OpenFails(p) /\ (CompactFails(p) => UNCHANGED tables)
  BY <1>0, NothingFails
<1>3. CASE SendThrows(p) \/ CompactNothing(p) \/ CompactFails(p) \/ Refuse(p) \/ StartSend(p)
  <2>1. UNCHANGED tables /\ pc'[p] \in {"idle", "wait"}
        /\ pc[p] \in {"wait", "send.insert", "compact.turn", "start.send"}
    BY <1>0, <1>2, <1>3 DEF SendThrows, CompactNothing, CompactFails, Refuse, StartSend, Leave, Granted, At
  <2>. QED  BY <2>1, Pauses
<1>4. CASE SendStep(p)
  BY <1>1, <1>2, <1>3, <1>4, Begins, InsertsTurn, Prompts, Replies, InsertsReply, Repoints DEF SendStep, SendRollback
<1>5. CASE BeginCompact(p) \/ CompactNothing(p) \/ CompactStep(p)
  BY <1>2, <1>3, <1>5, Begins, Compacts, Repoints DEF CompactStep
<1>6. CASE SwipeStep(p)
  BY <1>1, <1>2, <1>6, Begins, SeedsSwipe, Prompts, Replies, WritesVariant, WritesSwiped, DropsReplaced, Repoints
  DEF SwipeStep, SwipeAbandon
<1>7. CASE SelectVariant(p) \/ ReseedStep(p)
  BY <1>7, RewritesTexts, DropsOld, Reseeds, Repoints DEF ReseedStep
<1>8. CASE StartStep(p)
  BY <1>1, <1>2, <1>3, <1>8, InsertsGreeting, SeedsGreeting, Repoints, Begins, Prompts, Replies, InsertsReply
  DEF StartStep, StartRow
<1>9. CASE EditStep(p)
  BY <1>2, <1>9, RewritesTexts, Repoints DEF EditStep
<1>10. CASE BranchStep(p)
  BY <1>1, <1>10, CopiesMessages, SeedsFork, Begins, Switches, Repoints
  DEF BranchStep, ForkLoad, ForkRead, ForkRow, At
<1>. QED  BY <1>2, <1>3, <1>4, <1>5, <1>6, <1>7, <1>8, <1>9, <1>10 DEF Step

LEMMA WordsOfNothing ==
  ASSUME NEW t, MessageTable(t), DOMAIN t = {}
  PROVE  Words(t, 0) = <<>>
<1>1. Word(t, 0) = <<>>
  BY DEF Word
<1>2. 0 \in Nat /\ 0 - 1 = -1 /\ <<>> \o <<>> = <<>>
  OBVIOUS
<1>3. PICK z \in Nat : z = 0
  OBVIOUS
<1>4. Words(t, z) = Words(t, z - 1) \o Word(t, z)
  BY WordsStep
<1>5. Words(t, -1) = <<>>
  BY WordsStart
<1>. QED  BY <1>1, <1>2, <1>3, <1>4, <1>5

\* A chat comes to be with nothing said, in it or for it.
LEMMA StartsUnheard ==
  ASSUME OneWriter, HeldInv, NEW p \in Procs, Step(p), NEW c \in ChatIds, ~Live(c), Live(c)'
  PROVE  /\ Heard(p, c)' /\ Writes(p, c)'
         /\ \A q \in Procs \ {p} : ~Writes(q, c)'
<1>. CanonInv /\ CanonInv' /\ AbsentInv
  BY StepKeepsRows DEF OneWriter, VariantInv
<1>0. /\ DOMAIN pc = Procs /\ DOMAIN loc = Procs /\ DOMAIN chats = ChatIds /\ RequestsOK
      /\ nextSession \notin DOMAIN sessions /\ 0 \notin DOMAIN sessions /\ nextSession # 0
  BY ReadyIs
<1>1. \/ StartRow(p) /\ c = chatOf(p)
      \/ ForkRow(p) /\ c = req[p].target
  BY StatusStep DEF Live
<1>2. chats[c].status = "absent"
  <2>1. CASE StartRow(p) /\ c = chatOf(p)
    BY <2>1, StatusStep DEF Live, ForkRow, DeleteChat, StartRow, At, Granted
  <2>2. CASE ForkRow(p) /\ c = req[p].target
    BY <2>2 DEF OneWriter, AimInv, Aims, ForkRow, At
  <2>. QED  BY <1>1, <2>1, <2>2
<1>3. Seqs(c)' = {} /\ Texts(c)' = <<>>
  <2>1. Seqs(c)' = {}
    BY <1>2, AbsentStaysEmpty
  <2>2. PICK t : t = messages'[c] /\ MessageTable(t) /\ DOMAIN t = {}
    BY <2>1 DEF Seqs, CanonInv, TypeOK, MessagesOK
  <2>3. MaxSeq(c)' = 0
    BY <2>1 DEF MaxSeq
  <2>. QED  BY <2>1, <2>2, <2>3, WordsOfNothing DEF Texts
<1>4. ASSUME NEW q \in Procs \ {p} PROVE ~Writes(q, c)'
  BY <1>2, OthersWrite DEF AbsentInv, Writes, InLineAt
<1>5. ASSUME NEW h, h \notin DOMAIN sessions, sessions' = sessions PROVE Told(h)' = <<>>
  BY <1>5, SaidNothing DEF Told, FramesOf
<1>6. CASE StartRow(p) /\ c = chatOf(p)
  <2>1. PICK r : r = NewChat(req[p].api)
    OBVIOUS
  <2>2. r.api = req[p].api /\ r.session = 0
    BY <2>1 DEF NewChat
  <2>3. /\ pc'[p] \in {"open.load", "greet.insert", "start.send"} /\ req' = req
        /\ chats'[c] = r /\ sessions' = sessions
    BY <1>0, <1>2, <1>6, <2>1 DEF StartRow
  <2>4. Writes(p, c)'
    BY <1>6, <2>3 DEF Writes, Builds, Greeting, OpenSteps, chatOf
  <2>5. NoneHere(c)' /\ KnowsRow(p, c)'
    BY <2>2, <2>3 DEF NoneHere, KnowsRow, ReadsRow, OnTip, Swiping, OnAgent, Forking, Greeting
  <2>6. KnowsSession(p, c)' /\ KnowsTexts(p, c)'
    BY <1>3, <2>3 DEF KnowsSession, KnowsTexts, OnTip, Swiping, Blank, Forking
  <2>7. PICK at : at = pc'[p]
    OBVIOUS
  <2>8. at \notin SidSteps /\ at \notin {"send.turn", "swipe.turn"}
    BY <2>3, <2>7 DEF SidSteps
  <2>9. PICK h : h = 0
    OBVIOUS
  <2>10. h = chats'[c].session /\ Told(h)' = Texts(c)'
    BY <1>0, <1>3, <1>5, <2>2, <2>3, <2>9
  <2>11. Heard(p, c)'
    BY <2>5, <2>6, <2>7, <2>8, <2>10, HearsRow
  <2>. QED  BY <1>4, <2>4, <2>11
<1>7. CASE ForkRow(p) /\ c = req[p].target
  <2>1. PICK n : n = nextSession
    OBVIOUS
  <2>2. PICK k, m, a, s :
          /\ s = IF req[p].api = "agent-sdk" THEN n ELSE 0
          /\ chats' = [chats EXCEPT ![c] = [NewChat(req[p].api) EXCEPT
               !.session = s, !.count = k, !.summary = m, !.anchor = a]]
    BY <1>7, <2>1 DEF ForkRow
  <2>3. PICK r : r = [NewChat(req[p].api) EXCEPT !.session = s, !.count = k, !.summary = m, !.anchor = a]
    OBVIOUS
  <2>4. r.api = req[p].api /\ r.session = s
    BY <2>3 DEF NewChat
  <2>5. PICK l \in Locals : l = loc[p]
    BY <1>0 DEF RequestsOK
  <2>6. /\ pc'[p] = "fork.messages" /\ req' = req /\ sessions' = sessions /\ chats'[c] = r
        /\ loc'[p] = [l EXCEPT !.sid = n]
    BY <1>0, <1>7, <2>1, <2>2, <2>3, <2>5 DEF ForkRow, At
  <2>7. loc'[p].sid = n
    BY <2>6 DEF Locals
  <2>8. Writes(p, c)'
    BY <1>7, <2>6 DEF Writes, Builds
  <2>9. NoneHere(c)' /\ KnowsRow(p, c)'
    BY <2>2, <2>4, <2>6 DEF NoneHere, KnowsRow, ReadsRow, OnTip, Swiping, OnAgent, Forking, Greeting
  <2>10. KnowsSession(p, c)' /\ KnowsTexts(p, c)'
    BY <1>0, <1>3, <2>1, <2>2, <2>4, <2>6, <2>7 DEF KnowsSession, KnowsTexts, OnTip, Swiping, Blank, Forking
  <2>11. PICK at : at = "fork.messages" /\ pc'[p] = at
    BY <2>6
  <2>12. at \in {"send.reply", "send.update", "compact.turn", "compact.persist", "swipe.drop",
                 "swipe.update", "reseed.point", "provider.session", "greet.update", "open.reply",
                 "open.update", "fork.messages"}
    BY <2>11
  <2>13. n = loc'[p].sid /\ Told(n)' = Texts(c)'
    BY <1>0, <1>3, <1>5, <2>1, <2>6, <2>7
  <2>14. Heard(p, c)'
    BY <2>9, <2>10, <2>11, <2>12, <2>13, HearsHand
  <2>. QED  BY <1>4, <2>8, <2>14
<1>. QED  BY <1>1, <1>6, <1>7

-----------------------------------------------------------------------------
(***************************************************************************)
(* What a step does to the sessions, by whose they are.                    *)
(***************************************************************************)
\* The chat a request works on.
Place(p) == IF pc[p] \in {"fork.row"} \union Forking THEN req[p].target ELSE chatOf(p)

SameSession(s) ==
  /\ s \in DOMAIN sessions' <=> s \in DOMAIN sessions
  /\ s \in DOMAIN sessions => sessions'[s] = sessions[s]
\* The id a step takes, if it takes one.
Taken(s) == s = nextSession /\ nextSession' = nextSession + 1
SessionMove(c, s) ==
  \/ SameSession(s)
  \/ /\ \/ s \in Claims(c) \/ Taken(s)
        \/ s \in DOMAIN sessions /\ sessions[s].chat = c
     /\ s \in DOMAIN sessions' => sessions'[s].chat = c
SessionsMove(c) == \A s : SessionMove(c, s)

LEMMA AppendMoves ==
  ASSUME NEW c, NEW s, NEW ff, sessions' = Appended(s, c, ff), s \in Claims(c) \/ Taken(s)
  PROVE  SessionsMove(c)
<1>1. CASE ff = <<>>
  BY <1>1 DEF Appended, SessionsMove, SessionMove, SameSession
<1>2. CASE ff # <<>>
  <2>1. /\ DOMAIN sessions' = DOMAIN sessions \union {s} /\ sessions'[s].chat = c
        /\ \A t \in DOMAIN sessions \ {s} : sessions'[t] = sessions[t]
    BY <1>2, AppendsFrames
  <2>2. ASSUME NEW t, t # s PROVE SessionMove(c, t)
    BY <2>1, <2>2 DEF SessionMove, SameSession
  <2>3. SessionMove(c, s)
    BY <2>1 DEF SessionMove, Taken
  <2>4. ASSUME NEW t PROVE SessionMove(c, t)
    BY <2>2, <2>3
  <2>. QED  BY <2>4 DEF SessionsMove
<1>. QED  BY <1>1, <1>2

LEMMA DropMoves ==
  ASSUME NEW c, NEW dead, sessions' = DroppedAll(dead),
         \A s \in dead : s \in DOMAIN sessions => s \in Claims(c) \/ sessions[s].chat = c
  PROVE  SessionsMove(c)
<1>1. /\ DOMAIN sessions' = DOMAIN sessions \ dead
      /\ \A t \in DOMAIN sessions \ dead : sessions'[t] = sessions[t]
  BY DropsFrames
<1>. QED  BY <1>1 DEF SessionsMove, SessionMove, SameSession

LEMMA StayMoves ==
  ASSUME NEW c, sessions' = sessions
  PROVE  SessionsMove(c)
BY DEF SessionsMove, SessionMove, SameSession

LEMMA PlaceIs ==
  ASSUME CanonInv, NEW p \in Procs, Step(p)
  PROVE  Place(p) \in ChatIds
<1>1. chatOf(p) \in ChatIds
  BY Busy, Rows
<1>. QED  BY <1>1 DEF Place, Forking, CanonInv, ForksCopy, ForkSteps

\* Whoever is past its beginnings writes where it works.
LEMMA PlaceWritten ==
  ASSUME CanonInv, NEW p \in Procs, pc[p] \notin Early
  PROVE  Writes(p, Place(p))
<1>1. pc[p] \in {"idle"} \union FreeSteps \union LockedSteps
  BY DEF CanonInv, LineInv, Shapes
<1>. QED  BY <1>1 DEF Writes, Builds, Place, Early, FreeSteps, LockedSteps, OpenSteps, Greeting, Forking

\* What is in hand is the chat's that is worked on.
LEMMA InHand ==
  ASSUME CanonInv, EmptyHanded, NEW p \in Procs, NEW s \in Hands(p), s # 0
  PROVE  s \in Claims(Place(p))
<1>1. pc[p] \notin Early
  BY DEF EmptyHanded, Hands
<1>. QED  BY <1>1, PlaceWritten DEF Claims

LEMMA NotWritten ==
  ASSUME OneWriter, NEW p \in Procs, Step(p), NEW d, d # Place(p)
  PROVE  ~Mine(p, d) /\ ~Writes(p, d)'
<1>1. Moves(p) /\ DOMAIN pc = Procs
  BY StepMoves DEF OneWriter, VariantInv, CanonInv, LineInv, Shapes
<1>2. ~Mine(p, d)
  BY DEF Mine, Writes, Builds, Place, LockedSteps, OpenSteps, Greeting, Forking
<1>3. CASE Goes(p) \/ StartSend(p)
  BY <1>1, <1>2, <1>3 DEF Goes, StartSend, At, Writes, Builds, Greeting, OpenSteps, LockedSteps
<1>4. CASE req'[p] = req[p] /\ LockedMove(p)
  BY <1>2, <1>4 DEF LockedMove, Writes, Builds, Place, Greeting, OpenSteps, LockedSteps, Forking, chatOf
<1>5. CASE req'[p] = req[p] /\ FreeMove(p)
  BY <1>2, <1>5 DEF FreeMove, StartRow, ForkRow, At, Writes, Builds, Place, Greeting, OpenSteps,
     LockedSteps, Forking, chatOf
<1>. QED  BY <1>1, <1>2, <1>3, <1>4, <1>5 DEF Moves

LEMMA SessionsGo ==
  ASSUME OneWriter, HeldInv, NEW p \in Procs, Step(p), NEW c, c = Place(p), Writes(p, c) => Heard(p, c)
  PROVE  SessionsMove(c)
<1>. CanonInv
  BY DEF OneWriter, VariantInv
<1>0. /\ DOMAIN pc = Procs /\ DOMAIN loc = Procs /\ EmptyHanded /\ 0 \notin DOMAIN sessions
      /\ c \in ChatIds
  BY PlaceIs, ReadyIs DEF HeldInv
<1>1. \A s \in Hands(p) \ {0} : s \in Claims(c)
  BY <1>0, InHand
<1>2. \A s \in DOMAIN sessions : s = chats[c].session => s \in Claims(c)
  BY <1>0 DEF Claims
<1>3. pc[p] \notin Early => Heard(p, c)
  BY PlaceWritten
<1>4. pc[p] \notin {"fork.row"} \union Forking => c = chatOf(p)
  BY DEF Place
<1>5. ASSUME NEW s, NEW f, Opens(p, s, f), s = chats[c].session \/ s \in Hands(p) \/ s = 0, c = chatOf(p)
      PROVE  SessionsMove(c)
  <2>1. CASE s \in DOMAIN sessions /\ sessions' = Appended(s, c, <<f>>)
    <3>1. s \in Claims(c)
      BY <1>0, <1>1, <1>2, <1>5, <2>1
    <3>. QED  BY <2>1, <3>1, AppendMoves
  <2>2. CASE sessions' = Appended(nextSession, c, FramesOf(s) \o <<f>>) /\ nextSession' = nextSession + 1
    <3>1. PICK n, ff : n = nextSession /\ ff = FramesOf(s) \o <<f>> /\ sessions' = Appended(n, c, ff)
      BY <2>2
    <3>2. Taken(n)
      BY <2>2, <3>1 DEF Taken
    <3>. QED  BY <3>1, <3>2, AppendMoves
  <2>. QED  BY <1>5, <2>1, <2>2 DEF Opens
<1>6. CASE UNCHANGED sessions
  BY <1>6, StayMoves
<1>7. CASE SendStart(p) \/ SwipeStart(p) \/ OpenStart(p)
  <2>1. pc[p] \in {"send.turn", "swipe.turn", "open.turn"}
    BY <1>7 DEF SendStart, SwipeStart, OpenStart, StartTurn, At
  <2>2. c = chatOf(p) /\ loc[p].row.session = chats[c].session
    <3>1. pc[p] \notin Early
      BY <2>1 DEF Early
    <3>2. Heard(p, c)
      BY <1>3, <3>1
    <3>. QED  BY <1>4, <2>1, <3>2 DEF Heard, KnowsRow, ReadsRow, OnTip, Swiping, Forking
  <2>3. CASE ~OnAgentSdk(p)
    BY <1>7, <2>3, StayMoves DEF SendStart, SwipeStart, OpenStart, StartTurn
  <2>4. CASE OnAgentSdk(p)
    <3>1. \E s, f : Opens(p, s, f) /\ s \in {loc[p].row.session, loc[p].seeded, 0}
      BY <1>7, <2>4 DEF SendStart, SwipeStart, OpenStart, StartTurn
    <3>2. PICK s, f : Opens(p, s, f) /\ s \in {loc[p].row.session, loc[p].seeded, 0}
      BY <3>1
    <3>. QED  BY <1>5, <2>2, <3>2 DEF Hands
  <2>. QED  BY <2>3, <2>4
<1>8. CASE SendReply(p) \/ SwipeReply(p) \/ OpenReply(p)
  <2>1. pc[p] \in {"send.reply", "swipe.reply", "open.reply"} /\ EndTurn(p, pc[p], pc'[p])
    BY <1>0, <1>8 DEF SendReply, SwipeReply, OpenReply, EndTurn, At
  <2>2. c = chatOf(p) /\ (OnAgentSdk(p) => loc[p].sid \in DOMAIN sessions)
    <3>1. pc[p] \notin Early
      BY <2>1 DEF Early
    <3>2. Heard(p, c)
      BY <1>3, <3>1
    <3>. QED  BY <1>4, <2>1, <3>2 DEF Heard, KnowsSession, Forking, OnAgentSdk
  <2>3. CASE ~OnAgentSdk(p)
    BY <2>1, <2>3, StayMoves DEF EndTurn
  <2>4. CASE OnAgentSdk(p)
    <3>1. PICK s, ff : s = loc[p].sid /\ sessions' = Appended(s, c, ff)
      BY <2>1, <2>2, <2>4 DEF EndTurn
    <3>2. s \in Claims(c)
      BY <1>0, <1>1, <2>2, <2>4, <3>1 DEF Hands
    <3>. QED  BY <3>1, <3>2, AppendMoves
  <2>. QED  BY <2>3, <2>4
<1>9. CASE CompactTurn(p)
  <2>1. c = chatOf(p)
    BY <1>4, <1>9 DEF CompactTurn, At, Forking
  <2>2. PICK s, ff : s = loc[p].sid /\ sessions' = Appended(s, c, ff) /\ s \in DOMAIN sessions
    BY <1>9, <2>1 DEF CompactTurn
  <2>3. s \in Claims(c)
    BY <1>0, <1>1, <2>2 DEF Hands
  <2>. QED  BY <2>2, <2>3, AppendMoves
<1>10. ASSUME SeedFromCanon(p, pc'[p]), c = chatOf(p) PROVE SessionsMove(c)
  <2>1. PICK n, ff : n = nextSession /\ sessions' = Appended(n, c, ff) /\ nextSession' = nextSession + 1
    BY <1>10 DEF SeedFromCanon
  <2>. QED  BY <2>1, AppendMoves DEF Taken
<1>11. CASE SwipeSeed(p) \/ GreetSeed(p)
  <2>1. c = chatOf(p)
    BY <1>4, <1>11 DEF SwipeSeed, GreetSeed, At, Forking
  <2>2. CASE UNCHANGED sessions
    BY <2>2, StayMoves
  <2>3. CASE ~UNCHANGED sessions
    <3>1. PICK n, ff : n = nextSession /\ sessions' = Appended(n, c, ff) /\ nextSession' = nextSession + 1
      BY <1>11, <2>1, <2>3 DEF SwipeSeed, GreetSeed
    <3>. QED  BY <3>1, AppendMoves DEF Taken
  <2>. QED  BY <2>2, <2>3
<1>12. CASE ReseedSeed(p)
  <2>1. c = chatOf(p)
    BY <1>4, <1>12 DEF ReseedSeed, Forking
  <2>2. SeedFromCanon(p, pc'[p])
    BY <1>0, <1>12 DEF ReseedSeed, SeedFromCanon
  <2>. QED  BY <1>10, <2>1, <2>2
<1>13. ASSUME NEW dead, sessions' = DroppedAll(dead),
              dead \subseteq Hands(p) \union {chats[c].session, 0}
       PROVE  SessionsMove(c)
  <2>1. \A s \in dead : s \in DOMAIN sessions => s \in Claims(c)
    BY <1>0, <1>1, <1>2, <1>13
  <2>. QED  BY <1>13, <2>1, DropMoves
<1>14. CASE SwipeAbandon(p)
  <2>1. PICK dead : dead = {loc[p].seeded} /\ sessions' = DroppedAll(dead)
    BY <1>14 DEF SwipeAbandon
  <2>. QED  BY <1>13, <2>1 DEF Hands
<1>15. CASE SwipeDrop(p) \/ ReseedDrop(p) \/ (ProviderSession(p) /\ Leaving(p))
  <2>1. pc[p] \in {"swipe.drop", "reseed.drop", "provider.session"}
    BY <1>15 DEF SwipeDrop, ReseedDrop, ProviderSession, At
  <2>2. loc[p].row.session = chats[c].session
    <3>1. pc[p] \notin Early
      BY <2>1 DEF Early
    <3>2. Heard(p, c)
      BY <1>3, <3>1
    <3>. QED  BY <2>1, <3>2 DEF Heard, KnowsRow, ReadsRow
  <2>3. CASE UNCHANGED sessions
    BY <2>3, StayMoves
  <2>4. CASE ~UNCHANGED sessions
    <3>1. \E dead : dead \subseteq {loc[p].row.session, loc[p].seeded} /\ sessions' = DroppedAll(dead)
      <4>1. CASE SwipeDrop(p)
        <5>1. PICK dead : /\ dead = {loc[p].row.session, loc[p].seeded} \ {loc[p].sid}
                          /\ sessions' = DroppedAll(dead)
          BY <2>4, <4>1 DEF SwipeDrop
        <5>. QED  BY <5>1
      <4>2. CASE ReseedDrop(p) \/ (ProviderSession(p) /\ Leaving(p))
        <5>1. sessions' = DroppedAll({loc[p].row.session})
          BY <4>2 DEF ReseedDrop, ProviderSession, Leaving, Entering
        <5>. QED  BY <5>1
      <4>. QED  BY <1>15, <4>1, <4>2
    <3>2. PICK dead : dead \subseteq {loc[p].row.session, loc[p].seeded} /\ sessions' = DroppedAll(dead)
      BY <3>1
    <3>. QED  BY <1>13, <2>2, <3>2 DEF Hands
  <2>. QED  BY <2>3, <2>4
<1>16. CASE ProviderSession(p) /\ ~Leaving(p)
  <2>1. c = chatOf(p)
    BY <1>4, <1>16 DEF ProviderSession, Forking
  <2>2. CASE UNCHANGED sessions
    BY <2>2, StayMoves
  <2>3. CASE ~UNCHANGED sessions
    <3>1. SeedFromCanon(p, pc'[p])
      BY <1>0, <1>16, <2>3 DEF ProviderSession, SeedFromCanon
    <3>. QED  BY <1>10, <2>1, <3>1
  <2>. QED  BY <2>2, <2>3
<1>17. CASE DeleteChat(p)
  <2>1. c = chatOf(p)
    BY <1>4, <1>17 DEF DeleteChat, Granted, Forking
  <2>2. PICK dead : dead = {s \in DOMAIN sessions : sessions[s].chat = c} /\ sessions' = DroppedAll(dead)
    BY <1>17, <2>1 DEF DeleteChat
  <2>. QED  BY <2>2, DropMoves
<1>18. CASE ForkSeed(p)
  <2>1. pc[p] = "fork.seed" /\ c = req[p].target
    BY <1>18 DEF ForkSeed, Place, Forking
  <2>2. loc[p].sid # 0
    <3>1. pc[p] \notin Early
      BY <2>1 DEF Early
    <3>2. Heard(p, c)
      BY <1>3, <3>1
    <3>. QED  BY <2>1, <3>2 DEF Heard, KnowsSession, Forking
  <2>3. CASE UNCHANGED sessions
    BY <2>3, StayMoves
  <2>4. CASE ~UNCHANGED sessions
    <3>1. PICK s, ff : s = loc[p].sid /\ sessions' = Appended(s, c, ff)
      BY <1>18, <2>1, <2>4 DEF ForkSeed
    <3>2. s \in Claims(c)
      BY <1>1, <2>2, <3>1 DEF Hands
    <3>. QED  BY <3>1, <3>2, AppendMoves
  <2>. QED  BY <2>3, <2>4
<1>. QED  BY <1>6, <1>7, <1>8, <1>9, <1>11, <1>12, <1>14, <1>15, <1>16, <1>17, <1>18, SessionsWriters

\* The session column of the chat a step works on, and what its request has in hand
\* behind the step.
Had(p, c, s) == s \in Hands(p) \union {0, chats[c].session} \/ Taken(s)

LEMMA CountsOn ==
  ASSUME NEW p \in Procs, Step(p)
  PROVE  nextSession' = nextSession \/ nextSession' = nextSession + 1
<1>1. CASE SendStep(p)
  BY <1>1 DEF SendStep, BeginSend, SendInsert, SendStart, SendReply, SendFails, SendRollback,
     SendPersist, SendUpdate, SendThrows, StartTurn, Opens, EndTurn, FailTurn, ids
<1>2. CASE BeginCompact(p) \/ CompactNothing(p) \/ CompactStep(p) \/ ReseedStep(p) \/ Refuse(p) \/ Deny(p)
  BY <1>2 DEF BeginCompact, CompactNothing, CompactStep, CompactTurn, CompactFails, CompactPersist,
     ReseedStep, ReseedDrop, ReseedSeed, ReseedPoint, SeedFromCanon, Refuse, Deny, ids
<1>3. CASE SwipeStep(p) \/ SelectVariant(p)
  BY <1>3 DEF SwipeStep, BeginSwipe, SwipeSeed, SwipeStart, SwipeReply, SwipeFails, SwipeAbandon,
     SwipeBackfill, SwipeVariant, SwipeMessage, SwipeDrop, SwipeUpdate, SelectVariant, StartTurn,
     Opens, EndTurn, FailTurn, ids
<1>4. CASE StartStep(p)
  BY <1>4 DEF StartStep, StartRow, GreetInsert, GreetSeed, GreetThrows, GreetUpdate, StartSend,
     OpenLoad, OpenStart, OpenReply, OpenFails, OpenInsert, OpenUpdate, StartTurn, Opens, EndTurn, ids
<1>5. CASE EditStep(p)
  BY <1>5 DEF EditStep, EditMessage, EditVariant, DeleteChat, PatchChat, ids
<1>6. CASE BranchStep(p)
  BY <1>6 DEF BranchStep, ForkLoad, ForkRead, ForkRow, ForkMessages, ForkSeed, BeginProvider,
     ProviderSession, ProviderUpdate, SeedFromCanon, ids
<1>. QED  BY <1>1, <1>2, <1>3, <1>4, <1>5, <1>6 DEF Step

LEMMA RowsMove ==
  ASSUME CanonInv, NEW p \in Procs, Step(p), NEW c, c = Place(p)
  PROVE  /\ \A d \in ChatIds \ {c} : chats'[d] = chats[d]
         /\ Had(p, c, chats'[c].session)
<1>0. DOMAIN chats = ChatIds /\ c \in ChatIds /\ chats[c] \in ChatRow
  BY PlaceIs DEF CanonInv, TypeOK, ChatsOK
<1>. PICK old \in ChatRow : old = chats[c]
  BY <1>0
<1>1. pc[p] \notin {"fork.row"} \union Forking => c = chatOf(p)
  BY DEF Place
<1>2. ASSUME NEW r, chats' = [chats EXCEPT ![c] = r], Had(p, c, r.session)
      PROVE  /\ \A d \in ChatIds \ {c} : chats'[d] = chats[d]
             /\ Had(p, c, chats'[c].session)
  BY <1>0, <1>2
<1>3. CASE UNCHANGED chats
  BY <1>3 DEF Had
<1>4. CASE SendUpdate(p) \/ SwipeUpdate(p) \/ GreetUpdate(p) \/ OpenUpdate(p) \/ ReseedPoint(p)
           \/ CompactPersist(p) \/ PatchChat(p) \/ DeleteChat(p) \/ ProviderUpdate(p)
  <2>1. c = chatOf(p)
    BY <1>1, <1>4 DEF SendUpdate, SwipeUpdate, GreetUpdate, OpenUpdate, ReseedPoint, CompactPersist,
       PatchChat, DeleteChat, ProviderUpdate, At, Granted, Forking
  <2>0. chats = [chats EXCEPT ![c] = old]
    BY DEF CanonInv, TypeOK, ChatsOK
  <2>2. \E r : chats' = [chats EXCEPT ![c] = r] /\ r.session \in {loc[p].sid, old.session, 0}
    <3>1. CASE SendUpdate(p)
      <4>1. PICK s, k, n : /\ s = IF loc[p].row.api = "agent-sdk" THEN loc[p].sid ELSE old.session
                           /\ k = loc[p].row.count + 2 /\ n = loc[p].row.total + 1
        OBVIOUS
      <4>2. PICK r : r = [old EXCEPT !.session = s, !.count = k, !.total = n]
        OBVIOUS
      <4>3. r.session = s
        BY <4>2 DEF ChatRow
      <4>4. chats' = [chats EXCEPT ![c] = r]
        BY <1>0, <2>1, <3>1, <4>1, <4>2 DEF SendUpdate
      <4>. QED  BY <4>1, <4>3, <4>4
    <3>2. CASE SwipeUpdate(p)
      <4>1. PICK s, n : /\ s = IF OnAgentSdk(p) THEN loc[p].sid ELSE old.session
                        /\ n = loc[p].row.total + 1
        OBVIOUS
      <4>2. PICK r : r = [old EXCEPT !.session = s, !.total = n]
        OBVIOUS
      <4>3. r.session = s
        BY <4>2 DEF ChatRow
      <4>4. chats' = [chats EXCEPT ![c] = r]
        BY <1>0, <2>1, <3>2, <4>1, <4>2 DEF SwipeUpdate
      <4>. QED  BY <4>1, <4>3, <4>4
    <3>3. CASE GreetUpdate(p)
      <4>1. PICK s : s = IF req[p].api = "agent-sdk" THEN loc[p].sid ELSE old.session
        OBVIOUS
      <4>2. PICK r : r = [old EXCEPT !.count = 1, !.session = s]
        OBVIOUS
      <4>3. r.session = s
        BY <4>2 DEF ChatRow
      <4>4. Live(c) => chats' = [chats EXCEPT ![c] = r]
        BY <1>0, <2>1, <3>3, <4>1, <4>2 DEF GreetUpdate
      <4>5. ~Live(c) => chats' = [chats EXCEPT ![c] = old]
        BY <2>0, <2>1, <3>3 DEF GreetUpdate
      <4>. QED  BY <4>1, <4>3, <4>4, <4>5
    <3>4. CASE OpenUpdate(p)
      <4>1. PICK s : s = IF OnAgentSdk(p) THEN loc[p].sid ELSE old.session
        OBVIOUS
      <4>2. PICK r : r = [old EXCEPT !.count = 1, !.total = 1, !.session = s]
        OBVIOUS
      <4>3. r.session = s
        BY <4>2 DEF ChatRow
      <4>4. Live(c) => chats' = [chats EXCEPT ![c] = r]
        BY <1>0, <2>1, <3>4, <4>1, <4>2 DEF OpenUpdate
      <4>5. ~Live(c) => chats' = [chats EXCEPT ![c] = old]
        BY <2>0, <2>1, <3>4 DEF OpenUpdate
      <4>. QED  BY <4>1, <4>3, <4>4, <4>5
    <3>5. CASE ReseedPoint(p)
      <4>1. PICK s, r : s = loc[p].sid /\ r = [old EXCEPT !.session = s]
        OBVIOUS
      <4>2. r.session = s
        BY <4>1 DEF ChatRow
      <4>3. chats' = [chats EXCEPT ![c] = r]
        BY <1>0, <2>1, <3>5, <4>1 DEF ReseedPoint
      <4>. QED  BY <4>1, <4>2, <4>3
    <3>6. CASE CompactPersist(p)
      <4>1. PICK found \in BOOLEAN :
              chats' = [chats EXCEPT
                ![c].session = loc[p].sid,
                ![c].summary = IF found THEN Said(FramesOf(loc[p].sid)) ELSE @,
                ![c].anchor = IF found THEN MaxSeq(c) ELSE @]
        BY <2>1, <3>6 DEF CompactPersist
      <4>2. PICK s, m, a : /\ s = loc[p].sid
                           /\ m = IF found THEN Said(FramesOf(loc[p].sid)) ELSE old.summary
                           /\ a = IF found THEN MaxSeq(c) ELSE old.anchor
        OBVIOUS
      <4>3. PICK r : r = [old EXCEPT !.session = s, !.summary = m, !.anchor = a]
        OBVIOUS
      <4>4. r.session = s
        BY <4>3 DEF ChatRow
      <4>5. chats' = [chats EXCEPT ![c] = r]
        BY <1>0, <4>1, <4>2, <4>3
      <4>. QED  BY <4>2, <4>4, <4>5
    <3>7. CASE PatchChat(p)
      <4>1. PICK r : r = [old EXCEPT !.starred = ~old.starred]
        OBVIOUS
      <4>2. r.session = old.session
        BY <4>1 DEF ChatRow
      <4>3. chats' = [chats EXCEPT ![c] = r]
        BY <1>0, <2>1, <3>7, <4>1 DEF PatchChat
      <4>. QED  BY <4>2, <4>3
    <3>8. CASE DeleteChat(p)
      <4>1. PICK r : r = [NoChat EXCEPT !.status = "deleted"]
        OBVIOUS
      <4>2. r.session = 0
        BY <4>1 DEF NoChat, NewChat
      <4>3. chats' = [chats EXCEPT ![c] = r]
        BY <2>1, <3>8, <4>1 DEF DeleteChat
      <4>. QED  BY <4>2, <4>3
    <3>9. CASE ProviderUpdate(p)
      <4>1. PICK a, s : a = req[p].api /\ s = loc[p].sid
        OBVIOUS
      <4>2. PICK r : r = [old EXCEPT !.api = a, !.session = s]
        OBVIOUS
      <4>3. r.session = s
        BY <4>2 DEF ChatRow
      <4>4. chats' = [chats EXCEPT ![c] = r]
        BY <1>0, <2>1, <3>9, <4>1, <4>2 DEF ProviderUpdate
      <4>. QED  BY <4>1, <4>3, <4>4
    <3>. QED  BY <1>4, <3>1, <3>2, <3>3, <3>4, <3>5, <3>6, <3>7, <3>8, <3>9
  <2>3. PICK r : chats' = [chats EXCEPT ![c] = r] /\ r.session \in {loc[p].sid, old.session, 0}
    BY <2>2
  <2>. QED  BY <1>2, <2>3 DEF Had, Hands
<1>5. CASE StartRow(p)
  <2>1. c = chatOf(p)
    BY <1>1, <1>5 DEF StartRow, Forking
  <2>2. CASE chats[c].status = "absent"
    <3>1. PICK r : r = NewChat(req[p].api)
      OBVIOUS
    <3>2. r.session = 0 /\ chats' = [chats EXCEPT ![c] = r]
      BY <1>5, <2>1, <2>2, <3>1 DEF StartRow, NewChat
    <3>. QED  BY <1>2, <3>2 DEF Had
  <2>. QED  BY <1>3, <1>5, <2>1, <2>2 DEF StartRow
<1>6. CASE ForkRow(p)
  <2>1. c = req[p].target
    BY <1>6 DEF ForkRow, At, Place
  <2>2. PICK k, m, a, s :
          /\ s = IF req[p].api = "agent-sdk" THEN nextSession ELSE 0
          /\ chats' = [chats EXCEPT ![c] = [NewChat(req[p].api) EXCEPT
               !.session = s, !.count = k, !.summary = m, !.anchor = a]]
    BY <1>6, <2>1 DEF ForkRow
  <2>3. PICK r : r = [NewChat(req[p].api) EXCEPT !.session = s, !.count = k, !.summary = m, !.anchor = a]
    OBVIOUS
  <2>4. r.session = s
    BY <2>3 DEF NewChat
  <2>5. s = 0 \/ Taken(s)
    BY <1>6, <2>2 DEF ForkRow, Taken
  <2>6. Had(p, c, r.session)
    BY <2>4, <2>5 DEF Had
  <2>. QED  BY <1>2, <2>2, <2>3, <2>6
<1>. QED  BY <1>3, <1>4, <1>5, <1>6, ChatsWriters

\* The fields of what a request holds, as its step assigns them.
LEMMA LocalFields ==
  ASSUME NEW l \in Locals, NEW r, NEW n, NEW b
  PROVE  /\ [l EXCEPT !.sid = n].sid = n /\ [l EXCEPT !.sid = n].seeded = l.seeded
         /\ [l EXCEPT !.seeded = n].seeded = n /\ [l EXCEPT !.seeded = n].sid = l.sid
         /\ [l EXCEPT !.body = b].sid = l.sid /\ [l EXCEPT !.body = b].seeded = l.seeded
         /\ [l EXCEPT !.row = r].sid = l.sid /\ [l EXCEPT !.row = r].seeded = l.seeded
         /\ [l EXCEPT !.row = r, !.seq = n].sid = l.sid
         /\ [l EXCEPT !.row = r, !.seq = n].seeded = l.seeded
         /\ [l EXCEPT !.row = r, !.sid = n].sid = n
         /\ [l EXCEPT !.row = r, !.sid = n].seeded = l.seeded
         /\ [l EXCEPT !.row = r, !.seq = n, !.body = b].sid = l.sid
         /\ [l EXCEPT !.row = r, !.seq = n, !.body = b].seeded = l.seeded
BY DEF Locals

\* Back at its beginnings a request has let go of everything, or never had anything.
LEMMA EarlyAgain ==
  ASSUME CanonInv, NEW p \in Procs, Step(p), pc'[p] \in Early
  PROVE  \/ loc' = [loc EXCEPT ![p] = NoLocals]
         \/ BeginSwipe(p) \/ ForkLoad(p) \/ ForkRead(p)
<1>1. DOMAIN pc = Procs /\ DOMAIN loc = Procs
  BY DEF CanonInv, LineInv, Shapes, TypeOK, RequestsOK
<1>2. CASE SendStep(p)
  BY <1>1, <1>2 DEF Early, SendStep, BeginSend, SendInsert, SendStart, SendReply, SendFails,
     SendRollback, SendPersist, SendUpdate, SendThrows, StartTurn, EndTurn, FailTurn, At, Leave
<1>3. CASE BeginCompact(p) \/ CompactNothing(p) \/ CompactStep(p) \/ ReseedStep(p) \/ Refuse(p) \/ Deny(p)
  BY <1>1, <1>3 DEF Early, BeginCompact, CompactNothing, CompactStep, CompactTurn, CompactFails,
     CompactPersist, ReseedStep, ReseedDrop, ReseedSeed, ReseedPoint, SeedFromCanon, Refuse, Deny,
     At, Leave
<1>4. CASE SwipeStep(p)
  BY <1>1, <1>4 DEF Early, SwipeStep, SwipeSeed, SwipeStart, SwipeReply, SwipeFails,
     SwipeAbandon, SwipeBackfill, SwipeVariant, SwipeMessage, SwipeDrop, SwipeUpdate, StartTurn,
     EndTurn, FailTurn, At, Leave
<1>5. CASE SelectVariant(p) \/ EditStep(p)
  BY <1>1, <1>5 DEF Early, SelectVariant, EditStep, EditMessage, EditVariant, DeleteChat, PatchChat,
     ReseedOrLeave, Leave
<1>6. CASE StartRow(p) \/ GreetInsert(p) \/ GreetSeed(p) \/ GreetThrows(p) \/ GreetUpdate(p)
            \/ StartSend(p)
  BY <1>1, <1>6 DEF Early, StartRow, GreetInsert, GreetSeed, GreetThrows, GreetUpdate, StartSend, At,
     Return
<1>7. CASE OpenLoad(p) \/ OpenStart(p) \/ OpenReply(p) \/ OpenFails(p) \/ OpenInsert(p)
            \/ OpenUpdate(p)
  BY <1>1, <1>7 DEF Early, OpenLoad, OpenStart, OpenReply, OpenFails, OpenInsert, OpenUpdate,
     StartTurn, EndTurn, At, Return
<1>8. CASE BranchStep(p)
  BY <1>1, <1>8 DEF Early, BranchStep, ForkRow, ForkMessages, ForkSeed, BeginProvider,
     ProviderSession, ProviderUpdate, SeedFromCanon, At, Leave, Return
<1>. QED  BY <1>2, <1>3, <1>4, <1>5, <1>6, <1>7, <1>8 DEF Step, StartStep

LEMMA StaysEmpty ==
  ASSUME CanonInv, EmptyHanded, NEW p \in Procs, Step(p), pc'[p] \in Early
  PROVE  loc'[p].sid = 0 /\ loc'[p].seeded = 0
<1>1. DOMAIN loc = Procs /\ loc[p] \in Locals
  BY DEF CanonInv, TypeOK, RequestsOK
<1>. PICK l \in Locals : l = loc[p]
  BY <1>1
<1>2. NoLocals.sid = 0 /\ NoLocals.seeded = 0
  BY DEF NoLocals
<1>3. CASE loc' = [loc EXCEPT ![p] = NoLocals]
  BY <1>1, <1>2, <1>3
<1>4. CASE BeginSwipe(p)
  <2>1. l.sid = 0 /\ l.seeded = 0
    BY <1>4 DEF BeginSwipe, Granted, EmptyHanded, Early
  <2>2. PICK r, n : loc' = [loc EXCEPT ![p].row = r, ![p].seq = n]
    BY <1>4 DEF BeginSwipe
  <2>3. loc'[p] = [l EXCEPT !.row = r, !.seq = n]
    BY <1>1, <2>2
  <2>. QED  BY <2>1, <2>3, LocalFields
<1>5. CASE ForkLoad(p) /\ ~(loc' = [loc EXCEPT ![p] = NoLocals])
  <2>1. l.sid = 0 /\ l.seeded = 0
    BY <1>5 DEF ForkLoad, EmptyHanded, Early
  <2>2. PICK r : loc' = [loc EXCEPT ![p].row = r]
    BY <1>5 DEF ForkLoad, Return
  <2>3. loc'[p] = [l EXCEPT !.row = r]
    BY <1>1, <2>2
  <2>. QED  BY <2>1, <2>3, LocalFields
<1>6. CASE ForkRead(p) /\ ~(loc' = [loc EXCEPT ![p] = NoLocals])
  <2>1. l.sid = 0 /\ l.seeded = 0
    BY <1>6 DEF ForkRead, EmptyHanded, Early
  <2>2. loc' = loc
    BY <1>6 DEF ForkRead, Return
  <2>. QED  BY <2>1, <2>2
<1>. QED  BY <1>3, <1>4, <1>5, <1>6, EarlyAgain

LEMMA HandsMove ==
  ASSUME OneWriter, HeldInv, NEW p \in Procs, Step(p), NEW c, c = Place(p), Writes(p, c) => Heard(p, c)
  PROVE  Had(p, c, loc'[p].sid) /\ Had(p, c, loc'[p].seeded)
<1>. CanonInv
  BY DEF OneWriter, VariantInv
<1>0. /\ DOMAIN pc = Procs /\ DOMAIN loc = Procs /\ c \in ChatIds /\ loc[p] \in Locals
  BY PlaceIs, ReadyIs DEF CanonInv, TypeOK, RequestsOK
<1>. PICK l \in Locals : l = loc[p]
  BY <1>0
<1>1. pc[p] \notin Early => Heard(p, c)
  BY PlaceWritten
<1>2. pc[p] \notin {"fork.row"} \union Forking => c = chatOf(p)
  BY DEF Place
<1>3. ASSUME NEW m, loc'[p] = m, m.sid \in {l.sid, l.seeded, 0, chats[c].session} \/ Taken(m.sid),
             m.seeded \in {l.sid, l.seeded, 0} \/ Taken(m.seeded)
      PROVE  Had(p, c, loc'[p].sid) /\ Had(p, c, loc'[p].seeded)
  BY <1>3 DEF Had, Hands
<1>4. CASE UNCHANGED loc
  BY <1>3, <1>4
<1>5. CASE loc' = [loc EXCEPT ![p] = NoLocals]
  <2>1. loc'[p] = NoLocals /\ NoLocals.sid = 0 /\ NoLocals.seeded = 0
    BY <1>0, <1>5 DEF NoLocals
  <2>. QED  BY <1>3, <2>1
<1>6. CASE BeginSend(p) \/ BeginSwipe(p)
  <2>1. PICK r, n : loc' = [loc EXCEPT ![p].row = r, ![p].seq = n]
    BY <1>6 DEF BeginSend, BeginSwipe
  <2>2. PICK m : m = [l EXCEPT !.row = r, !.seq = n]
    OBVIOUS
  <2>3. loc'[p] = m /\ m.sid = l.sid /\ m.seeded = l.seeded
    BY <1>0, <2>1, <2>2, LocalFields
  <2>. QED  BY <1>3, <2>3
<1>7. CASE BeginCompact(p) \/ BeginProvider(p)
  <2>1. pc[p] = "wait"
    BY <1>7 DEF BeginCompact, BeginProvider, Granted
  <2>2. c = chatOf(p)
    BY <1>2, <2>1 DEF Forking
  <2>3. PICK r, n : n = chats[c].session /\ loc' = [loc EXCEPT ![p].row = r, ![p].sid = n]
    BY <1>7, <2>2 DEF BeginCompact, BeginProvider
  <2>4. PICK m : m = [l EXCEPT !.row = r, !.sid = n]
    OBVIOUS
  <2>5. loc'[p] = m /\ m.sid = n /\ m.seeded = l.seeded
    BY <1>0, <2>3, <2>4, LocalFields
  <2>. QED  BY <1>3, <2>3, <2>5
<1>8. ASSUME NEW n, loc' = [loc EXCEPT ![p].sid = n],
             n \in {l.sid, l.seeded, 0, chats[c].session} \/ Taken(n)
      PROVE  Had(p, c, loc'[p].sid) /\ Had(p, c, loc'[p].seeded)
  <2>1. PICK m : m = [l EXCEPT !.sid = n]
    OBVIOUS
  <2>2. loc'[p] = m /\ m.sid = n /\ m.seeded = l.seeded
    BY <1>0, <1>8, <2>1, LocalFields
  <2>. QED  BY <1>3, <1>8, <2>2
<1>9. CASE SendStart(p) \/ SwipeStart(p) \/ OpenStart(p)
  <2>1. pc[p] \in {"send.turn", "swipe.turn", "open.turn"}
    BY <1>9 DEF SendStart, SwipeStart, OpenStart, StartTurn, At
  <2>2. loc[p].row.session = chats[c].session
    <3>1. pc[p] \notin Early
      BY <2>1 DEF Early
    <3>2. Heard(p, c)
      BY <1>1, <3>1
    <3>. QED  BY <2>1, <3>2 DEF Heard, KnowsRow, ReadsRow, OnTip, Swiping
  <2>3. CASE ~OnAgentSdk(p)
    BY <1>4, <1>9, <2>3 DEF SendStart, SwipeStart, OpenStart, StartTurn
  <2>4. CASE OnAgentSdk(p)
    <3>1. \E s, f : Opens(p, s, f) /\ s \in {loc[p].row.session, loc[p].seeded, 0}
      BY <1>9, <2>4 DEF SendStart, SwipeStart, OpenStart, StartTurn
    <3>2. PICK s, f : Opens(p, s, f) /\ s \in {loc[p].row.session, loc[p].seeded, 0}
      BY <3>1
    <3>3. PICK n : loc' = [loc EXCEPT ![p].sid = n] /\ (n = s \/ Taken(n))
      BY <3>2 DEF Opens, Taken
    <3>. QED  BY <1>8, <2>2, <3>2, <3>3
  <2>. QED  BY <2>3, <2>4
<1>10. CASE SendReply(p) \/ SwipeReply(p) \/ OpenReply(p) \/ (GreetInsert(p) /\ pc'[p] # "idle")
  <2>1. PICK b : loc' = [loc EXCEPT ![p].body = b]
    BY <1>0, <1>10 DEF SendReply, SwipeReply, OpenReply, EndTurn, GreetInsert, Return
  <2>2. PICK m : m = [l EXCEPT !.body = b]
    OBVIOUS
  <2>3. loc'[p] = m /\ m.sid = l.sid /\ m.seeded = l.seeded
    BY <1>0, <2>1, <2>2, LocalFields
  <2>. QED  BY <1>3, <2>3
<1>11. CASE SwipeSeed(p) /\ ~UNCHANGED loc
  <2>1. PICK n : loc' = [loc EXCEPT ![p].seeded = n] /\ Taken(n)
    BY <1>11 DEF SwipeSeed, Taken
  <2>2. PICK m : m = [l EXCEPT !.seeded = n]
    OBVIOUS
  <2>3. loc'[p] = m /\ m.sid = l.sid /\ m.seeded = n
    BY <1>0, <2>1, <2>2, LocalFields
  <2>. QED  BY <1>3, <2>1, <2>3
<1>12. CASE ReseedSeed(p) \/ GreetSeed(p) \/ ForkRow(p) \/ (ProviderSession(p) /\ ~UNCHANGED loc)
  <2>1. PICK n : loc' = [loc EXCEPT ![p].sid = n] /\ (n = 0 \/ Taken(n))
    BY <1>12 DEF ReseedSeed, GreetSeed, ForkRow, ProviderSession, SeedFromCanon, Taken
  <2>. QED  BY <1>8, <2>1
<1>13. CASE SelectVariant(p) \/ EditVariant(p) \/ (EditMessage(p) /\ pc'[p] # "edit.variant")
  <2>1. \/ loc' = [loc EXCEPT ![p] = NoLocals]
        \/ \E r : loc' = [loc EXCEPT ![p].row = r]
    BY <1>0, <1>13 DEF SelectVariant, EditVariant, EditMessage, ReseedOrLeave, Leave
  <2>2. CASE \E r : loc' = [loc EXCEPT ![p].row = r]
    <3>1. PICK r : loc' = [loc EXCEPT ![p].row = r]
      BY <2>2
    <3>2. PICK m : m = [l EXCEPT !.row = r]
      OBVIOUS
    <3>3. loc'[p] = m /\ m.sid = l.sid /\ m.seeded = l.seeded
      BY <1>0, <3>1, <3>2, LocalFields
    <3>. QED  BY <1>3, <3>3
  <2>. QED  BY <1>5, <2>1, <2>2
<1>14. CASE EditMessage(p) /\ pc'[p] = "edit.variant"
  <2>0. PICK r, b : r = chats[chatOf(p)] /\ b = nextBody
    OBVIOUS
  <2>1. PICK s : loc' = [loc EXCEPT ![p].row = r, ![p].seq = s, ![p].body = b]
    <3>1. PICK s : IF messages[chatOf(p)][s].active # 0
                   THEN loc' = [loc EXCEPT ![p].row = r, ![p].seq = s, ![p].body = b]
                   ELSE ReseedOrLeave(p, r)
      BY <1>14, <2>0 DEF EditMessage
    <3>2. ~ReseedOrLeave(p, r)
      BY <1>0, <1>14 DEF ReseedOrLeave, Leave
    <3>. QED  BY <3>1, <3>2
  <2>2. PICK m : m = [l EXCEPT !.row = r, !.seq = s, !.body = b]
    OBVIOUS
  <2>3. loc'[p] = m /\ m.sid = l.sid /\ m.seeded = l.seeded
    BY <1>0, <2>1, <2>2, LocalFields
  <2>. QED  BY <1>3, <2>3
<1>15. CASE (OpenLoad(p) \/ ForkLoad(p)) /\ pc'[p] # "idle"
  <2>1. PICK r : loc' = [loc EXCEPT ![p].row = r]
    BY <1>0, <1>15 DEF OpenLoad, ForkLoad, Return
  <2>2. PICK m : m = [l EXCEPT !.row = r]
    OBVIOUS
  <2>3. loc'[p] = m /\ m.sid = l.sid /\ m.seeded = l.seeded
    BY <1>0, <2>1, <2>2, LocalFields
  <2>. QED  BY <1>3, <2>3
<1>16. CASE (OpenLoad(p) \/ ForkLoad(p) \/ GreetInsert(p)) /\ pc'[p] = "idle"
  BY <1>0, <1>5, <1>16 DEF OpenLoad, ForkLoad, GreetInsert, Return
<1>. QED  BY <1>4, <1>5, <1>6, <1>7, <1>9, <1>10, <1>11, <1>12, <1>13, <1>14, <1>15, <1>16, LocalsWriters

LEMMA ClaimsAre ==
  ASSUME CanonInv, Numbered, NEW c \in ChatIds, NEW s \in Claims(c)
  PROVE  s \in Nat /\ 1 <= s /\ s < nextSession
<1>1. chats[c].session \in Nat /\ chats[c].session < nextSession
  BY ChatRowIs DEF CanonInv, TypeOK, ChatsOK, Numbered
<1>2. ASSUME NEW q \in Procs, s \in Hands(q) PROVE s \in Nat /\ s < nextSession
  BY <1>2, LocalsAre DEF CanonInv, TypeOK, Hands, Numbered
<1>3. s # 0 /\ (s = chats[c].session \/ \E q \in Procs : s \in Hands(q))
  BY DEF Claims
<1>4. s \in Nat /\ s < nextSession
  BY <1>1, <1>2, <1>3
<1>. QED  BY <1>3, <1>4

\* Only the chat a step works on comes to claim anything, and only a new session.
LEMMA ClaimsMove ==
  ASSUME OneWriter, HeldInv, NEW p \in Procs, Step(p), NEW c, c = Place(p), Writes(p, c) => Heard(p, c),
         NEW d \in ChatIds, NEW s, s \in Claims(d)'
  PROVE  s \in Claims(d) \/ (d = c /\ Taken(s))
<1>. CanonInv
  BY DEF OneWriter, VariantInv
<1>0. c \in ChatIds /\ EmptyHanded
  BY PlaceIs DEF HeldInv
<1>1. s # 0 /\ (s = chats'[d].session \/ \E q \in Procs : Writes(q, d)' /\ s \in Hands(q)')
  BY DEF Claims
<1>2. ASSUME Had(p, c, s) PROVE s \in Claims(c) \/ Taken(s)
  <2>1. s \in Hands(p) => s \in Claims(c)
    BY <1>0, <1>1, InHand
  <2>2. s = chats[c].session => s \in Claims(c)
    BY <1>1 DEF Claims
  <2>. QED  BY <1>1, <1>2, <2>1, <2>2 DEF Had
<1>3. CASE s = chats'[d].session
  <2>1. CASE d = c
    BY <1>2, <1>3, <2>1, RowsMove
  <2>2. CASE d # c
    <3>1. chats'[d] = chats[d]
      BY <2>2, RowsMove
    <3>. QED  BY <1>1, <1>3, <3>1 DEF Claims
  <2>. QED  BY <2>1, <2>2
<1>4. ASSUME NEW q \in Procs, Writes(q, d)', s \in Hands(q)' PROVE s \in Claims(d) \/ (d = c /\ Taken(s))
  <2>1. CASE q = p
    <3>1. d = c
      BY <1>4, <2>1, NotWritten
    <3>2. s = loc'[p].sid \/ s = loc'[p].seeded
      BY <1>4, <2>1 DEF Hands
    <3>3. Had(p, c, s)
      BY <3>2, HandsMove
    <3>. QED  BY <1>2, <3>1, <3>3
  <2>2. CASE q # p
    <3>1. Writes(q, d) /\ loc'[q] = loc[q]
      BY <1>4, <2>2, OthersWrite, OthersStay
    <3>2. s \in Hands(q)
      BY <1>4, <3>1 DEF Hands
    <3>. QED  BY <1>1, <3>1, <3>2 DEF Claims
  <2>. QED  BY <2>1, <2>2
<1>. QED  BY <1>1, <1>3, <1>4

\* What the other chats claim stays as it is.
LEMMA OthersSessions ==
  ASSUME OneWriter, HeldInv, NEW p \in Procs, Step(p), NEW c, c = Place(p), Writes(p, c) => Heard(p, c),
         NEW d \in ChatIds, d # c, NEW s, s \in Claims(d) \/ s = 0
  PROVE  SameSession(s)
<1>. CanonInv /\ Numbered /\ Apart /\ Bound
  BY DEF OneWriter, VariantInv, HeldInv
<1>0. c \in ChatIds /\ 0 \notin DOMAIN sessions /\ nextSession # 0
  BY PlaceIs, ReadyIs
<1>1. s # nextSession
  BY <1>0, ClaimsAre DEF Numbered
<1>2. s \notin Claims(c)
  BY <1>0 DEF Apart, Claims
<1>3. ~(s \in DOMAIN sessions /\ sessions[s].chat = c)
  BY <1>0 DEF Bound
<1>4. SessionMove(c, s)
  BY SessionsGo DEF SessionsMove
<1>. QED  BY <1>1, <1>2, <1>3, <1>4 DEF SessionMove, Taken

LEMMA HeldStep ==
  ASSUME OneWriter, HeldInv, NEW p \in Procs, Step(p), NEW c, c = Place(p), Writes(p, c) => Heard(p, c)
  PROVE  HeldInv'
<1>. CanonInv /\ CanonInv' /\ EmptyHanded /\ Numbered /\ Apart /\ Bound
  BY StepKeepsRows DEF OneWriter, VariantInv, HeldInv
<1>0. c \in ChatIds /\ nextSession \in Nat
  BY PlaceIs, ReadyIs
<1>1. nextSession' = nextSession \/ nextSession' = nextSession + 1
  BY CountsOn
<1>2. ASSUME NEW s, Had(p, c, s) PROVE s \in Nat /\ s < nextSession'
  <2>1. CASE Taken(s)
    BY <1>0, <2>1 DEF Taken
  <2>2. CASE s \in Hands(p)
    <3>1. s \in Nat /\ s < nextSession
      BY <2>2, LocalsAre DEF CanonInv, TypeOK, Hands, Numbered
    <3>. QED  BY <1>0, <1>1, <3>1
  <2>3. CASE s = chats[c].session
    <3>1. s \in Nat /\ s < nextSession
      BY <1>0, <2>3, ChatRowIs DEF CanonInv, TypeOK, ChatsOK, Numbered
    <3>. QED  BY <1>0, <1>1, <3>1
  <2>4. CASE s = 0
    BY <1>0, <1>1, <2>4 DEF Numbered
  <2>. QED  BY <1>2, <2>1, <2>2, <2>3, <2>4 DEF Had
<1>3. EmptyHanded'
  <2>. SUFFICES ASSUME NEW q \in Procs, pc'[q] \in Early PROVE loc'[q].sid = 0 /\ loc'[q].seeded = 0
    BY DEF EmptyHanded, Early
  <2>1. CASE q = p
    BY <2>1, StaysEmpty
  <2>2. CASE q # p
    BY <2>2, OthersStay DEF EmptyHanded
  <2>. QED  BY <2>1, <2>2
<1>4. Numbered'
  <2>1. nextSession' >= 1
    BY <1>0, <1>1 DEF Numbered
  <2>2. ASSUME NEW s \in DOMAIN sessions' PROVE 1 <= s /\ s < nextSession'
    <3>1. SessionMove(c, s)
      BY SessionsGo DEF SessionsMove
    <3>2. CASE s \in DOMAIN sessions
      <4>1. s \in Nat /\ 1 <= s /\ s < nextSession
        BY <3>2 DEF Numbered, CanonInv, TypeOK, SessionsOK
      <4>. QED  BY <1>0, <1>1, <4>1
    <3>3. CASE s \in Claims(c)
      <4>1. s \in Nat /\ 1 <= s /\ s < nextSession
        BY <1>0, <3>3, ClaimsAre
      <4>. QED  BY <1>0, <1>1, <4>1
    <3>4. CASE Taken(s)
      BY <1>0, <3>4 DEF Taken, Numbered
    <3>. QED  BY <2>2, <3>1, <3>2, <3>3, <3>4 DEF SessionMove, SameSession
  <2>3. ASSUME NEW d \in ChatIds PROVE chats'[d].session < nextSession'
    <3>1. CASE d = c
      BY <1>2, <3>1, RowsMove
    <3>2. CASE d # c
      <4>1. chats'[d] = chats[d] /\ chats[d].session \in Nat /\ chats[d].session < nextSession
        BY <3>2, RowsMove, ChatRowIs DEF CanonInv, TypeOK, ChatsOK, Numbered
      <4>. QED  BY <1>0, <1>1, <4>1
    <3>. QED  BY <3>1, <3>2
  <2>4. ASSUME NEW q \in Procs PROVE loc'[q].sid < nextSession' /\ loc'[q].seeded < nextSession'
    <3>1. CASE q = p
      BY <1>2, <3>1, HandsMove
    <3>2. CASE q # p
      <4>1. /\ loc'[q] = loc[q] /\ loc[q].sid \in Nat /\ loc[q].seeded \in Nat
            /\ loc[q].sid < nextSession /\ loc[q].seeded < nextSession
        BY <3>2, OthersStay, LocalsAre DEF CanonInv, TypeOK, Numbered
      <4>. QED  BY <1>0, <1>1, <4>1
    <3>. QED  BY <3>1, <3>2
  <2>. QED  BY <2>1, <2>2, <2>3, <2>4 DEF Numbered
<1>5. Apart'
  <2>. SUFFICES ASSUME NEW a \in ChatIds, NEW b \in ChatIds, a # b, NEW s, s \in Claims(a)', s \in Claims(b)'
                PROVE  FALSE
    BY DEF Apart
  <2>1. s \in Claims(a) \/ (a = c /\ Taken(s))
    BY ClaimsMove
  <2>2. s \in Claims(b) \/ (b = c /\ Taken(s))
    BY ClaimsMove
  <2>3. ASSUME NEW d \in ChatIds, s \in Claims(d) PROVE ~Taken(s)
    BY <1>0, <2>3, ClaimsAre DEF Taken
  <2>. QED  BY <2>1, <2>2, <2>3 DEF Apart
<1>6. Bound'
  <2>. SUFFICES ASSUME NEW d \in ChatIds, NEW s, s \in Claims(d)', s \in DOMAIN sessions'
                PROVE  sessions'[s].chat = d
    BY DEF Bound
  <2>1. s \in Claims(d) \/ (d = c /\ Taken(s))
    BY ClaimsMove
  <2>2. CASE d # c
    <3>1. SameSession(s)
      BY <2>1, <2>2, OthersSessions
    <3>. QED  BY <2>1, <2>2, <3>1 DEF SameSession, Bound
  <2>3. CASE d = c
    <3>1. SessionMove(c, s)
      BY SessionsGo DEF SessionsMove
    <3>2. CASE SameSession(s)
      <4>1. s \in DOMAIN sessions /\ sessions'[s] = sessions[s]
        BY <3>2 DEF SameSession
      <4>2. ~Taken(s)
        BY <1>0, <4>1 DEF Taken, Numbered
      <4>. QED  BY <2>1, <2>3, <4>1, <4>2 DEF Bound
    <3>. QED  BY <2>3, <3>1, <3>2 DEF SessionMove
  <2>. QED  BY <2>2, <2>3
<1>. QED  BY <1>3, <1>4, <1>5, <1>6 DEF HeldInv

-----------------------------------------------------------------------------
(***************************************************************************)
(* Nobody else's words change.                                             *)
(***************************************************************************)
\* A chat that is not the step's to write, with what it claims.
LEMMA Elsewhere ==
  ASSUME OneWriter, HeldInv, NEW p \in Procs, Step(p), NEW c \in ChatIds, Live(c), ~Mine(p, c),
         Writes(p, Place(p)) => Heard(p, Place(p))
  PROVE  /\ chats'[c] = chats[c] /\ messages'[c] = messages[c] /\ ~Writes(p, c)'
         /\ \A s : s \in Claims(c) \/ s = 0 => SameSession(s)
<1>. CanonInv
  BY DEF OneWriter, VariantInv
<1>1. messages'[c] = messages[c]
  BY Untouched
<1>2. CASE c # Place(p)
  <2>1. chats'[c] = chats[c]
    BY <1>2, RowsMove
  <2>2. ~Writes(p, c)'
    BY <1>2, NotWritten
  <2>3. \A s : s \in Claims(c) \/ s = 0 => SameSession(s)
    BY <1>2, OthersSessions
  <2>. QED  BY <1>1, <2>1, <2>2, <2>3
<1>3. CASE c = Place(p)
  <2>0. DOMAIN pc = Procs
    BY DEF CanonInv, LineInv, Shapes
  <2>1. pc[p] \in Early
    BY <1>3, PlaceWritten DEF Mine
  <2>2. pc[p] # "idle" /\ pc[p] # "swipe.seed"
    BY <1>3, Busy DEF Mine, Writes, LockedSteps, Place, Forking
  <2>3. pc[p] # "wait"
    <3>1. ASSUME pc[p] = "wait" PROVE Holds(p)
      BY <3>1 DEF Step, SendStep, BeginSend, SendInsert, SendStart, SendReply, SendFails,
         SendRollback, SendPersist, SendUpdate, SendThrows, BeginCompact, CompactNothing, CompactStep,
         CompactTurn, CompactFails, CompactPersist, SwipeStep, BeginSwipe, SwipeSeed, SwipeStart,
         SwipeReply, SwipeFails, SwipeAbandon, SwipeBackfill, SwipeVariant, SwipeMessage, SwipeDrop,
         SwipeUpdate, SelectVariant, ReseedStep, ReseedDrop, ReseedSeed, ReseedPoint, StartStep,
         StartRow, GreetInsert, GreetSeed, GreetThrows, GreetUpdate, StartSend, OpenLoad, OpenStart,
         OpenReply, OpenFails, OpenInsert, OpenUpdate, EditStep, EditMessage, EditVariant, DeleteChat,
         PatchChat, Refuse, Deny, BranchStep, ForkLoad, ForkRead, ForkRow, ForkMessages, ForkSeed,
         BeginProvider, ProviderSession, ProviderUpdate, StartTurn, EndTurn, FailTurn, At, Granted
    <3>. QED  BY <1>3, <3>1 DEF Mine, Place, Forking
  <2>4. pc[p] # "fork.row"
    BY <1>3 DEF OneWriter, AimInv, Aims, Place, Live
  <2>5. pc[p] \in {"start.row", "fork.load", "fork.read"} /\ c = chatOf(p)
    BY <1>3, <2>1, <2>2, <2>3, <2>4 DEF Early, Place, Forking
  <2>6. sessions' = sessions
    BY <2>5, SessionsWriters DEF SendStart, SendReply, CompactTurn, SwipeSeed, SwipeStart, SwipeReply,
       SwipeAbandon, SwipeDrop, ReseedDrop, ReseedSeed, GreetSeed, OpenStart, OpenReply, DeleteChat,
       ForkSeed, ProviderSession, StartTurn, EndTurn, At, Granted
  <2>7. chats' = chats
    BY <2>5, ChatsWriters DEF SendUpdate, CompactPersist, SwipeUpdate, ReseedPoint, StartRow,
       GreetUpdate, OpenUpdate, DeleteChat, PatchChat, ForkRow, ProviderUpdate, At, Granted, Live
  <2>8. ~Writes(p, c)'
    <3>1. Moves(p)
      BY StepMoves
    <3>2. pc'[p] \in {"idle", "fork.read", "fork.row"}
      BY <2>0, <2>5, <3>1 DEF Moves, Goes, StartSend, LockedMove, FreeMove, ForkRow, At, Live,
         LockedSteps, Greeting, OpenSteps
    <3>. QED  BY <3>2 DEF Writes, Builds, LockedSteps, Greeting, OpenSteps
  <2>. QED  BY <1>1, <2>6, <2>7, <2>8 DEF SameSession
<1>. QED  BY <1>2, <1>3

LEMMA SameTold ==
  ASSUME NEW s, SameSession(s)
  PROVE  Told(s)' = Told(s)
BY DEF SameSession, Told, FramesOf

\* What one who does not move hears in a chat that does not change.
LEMMA HearsOn ==
  ASSUME NEW q, NEW c, Heard(q, c), chats'[c] = chats[c], messages'[c] = messages[c],
         pc'[q] = pc[q], req'[q] = req[q], loc'[q] = loc[q], copy'[q] = copy[q],
         \A s \in {chats[c].session, loc[q].sid, loc[q].seeded} : SameSession(s)
  PROVE  Heard(q, c)'
<1>1. /\ Seqs(c)' = Seqs(c) /\ MaxSeq(c)' = MaxSeq(c) /\ Texts(c)' = Texts(c)
      /\ \A b : Before(c, b)' = Before(c, b)
      /\ \A b : RegenFrom(c, b)' = RegenFrom(c, b)
  BY DEF Seqs, MaxSeq, Texts, Before, RegenFrom, UsersBefore
<1>2. NoneHere(c)' /\ KnowsRow(q, c)'
  BY DEF Heard, NoneHere, KnowsRow
<1>3. KnowsSession(q, c)'
  <2>1. loc[q].sid \in DOMAIN sessions' <=> loc[q].sid \in DOMAIN sessions
    BY DEF SameSession
  <2>. QED  BY <2>1 DEF Heard, KnowsSession
<1>4. KnowsTexts(q, c)'
  BY <1>1 DEF Heard, KnowsTexts
<1>5. Speaks(q, c)'
  <2>1. PICK h : h = Hand(q, c)
    OBVIOUS
  <2>2. Hand(q, c)' = h /\ WillBe(q, c)' = WillBe(q, c)
    BY <2>1 DEF Hand, WillBe
  <2>3. Told(h)' = Told(h)
    BY <2>1, SameTold DEF Hand
  <2>4. Due(q, c)' = Due(q, c)
    BY <1>1 DEF Due
  <2>. QED  BY <2>1, <2>2, <2>3, <2>4 DEF Heard, Speaks
<1>. QED  BY <1>2, <1>3, <1>4, <1>5 DEF Heard

LEMMA KeepsTheVoice ==
  ASSUME OneWriter, HeldInv, NEW p \in Procs, Step(p), Undisturbed',
         NEW c \in ChatIds, Live(c), Live(c)', \A d \in ChatIds : Live(d) => Voiced(d)
  PROVE  Voiced(c)'
<1>. CanonInv /\ CanonInv' /\ UsedOK /\ Voiced(c)
  BY StepKeepsRows DEF OneWriter, VariantInv
<1>1. CASE Mine(p, c)
  <2>1. ASSUME NEW q \in Procs \ {p} PROVE ~Writes(q, c) /\ ~Writes(q, c)'
    BY <1>1, <2>1, Alone, OthersWrite
  <2>2. Heard(p, c)
    <3>1. CASE Writes(p, c)
      BY <3>1 DEF Voiced
    <3>2. CASE ~Writes(p, c)
      <4>1. pc[p] = "wait" /\ Stable(c) /\ NoneHere(c)
        BY <1>1, <2>1, <3>2 DEF Mine, Voiced
      <4>2. KnowsRow(p, c)
        BY <4>1 DEF KnowsRow, ReadsRow, OnTip, Swiping, OnAgent, Greeting, Forking
      <4>3. KnowsSession(p, c) /\ KnowsTexts(p, c)
        BY <4>1 DEF KnowsSession, KnowsTexts, Forking, Blank, OnTip, Swiping
      <4>4. Speaks(p, c)
        BY <4>1 DEF Speaks, WillBe, Hand, SidSteps, Due, Stable
      <4>. QED  BY <4>1, <4>2, <4>3, <4>4 DEF Heard
    <3>. QED  BY <3>1, <3>2
  <2>3. Heard(p, c)'
    BY <1>1, <2>2, StepHeard DEF Ready
  <2>4. Writes(p, c)' \/ pc'[p] \in {"idle", "wait"}
    BY <1>1, AfterWrites
  <2>5. pc'[p] \in {"idle", "wait"} => Stable(c)'
    BY <2>3 DEF Heard, Speaks, WillBe, Hand, SidSteps, Due, Stable, Loose
  <2>. QED  BY <2>1, <2>3, <2>4, <2>5 DEF Voiced, Heard
<1>2. CASE ~Mine(p, c)
  <2>1. Writes(p, Place(p)) => Heard(p, Place(p))
    <3>1. Place(p) \in ChatIds
      BY PlaceIs
    <3>2. Writes(p, Place(p)) => Live(Place(p))
      BY <3>1 DEF OneWriter, BuildInv, LockedInv, Writes
    <3>. QED  BY <3>1, <3>2 DEF Voiced
  <2>2. /\ chats'[c] = chats[c] /\ messages'[c] = messages[c] /\ ~Writes(p, c)'
        /\ \A s : s \in Claims(c) \/ s = 0 => SameSession(s)
    BY <1>2, <2>1, Elsewhere
  <2>3. ASSUME NEW q \in Procs, Writes(q, c)' PROVE Heard(q, c)'
    <3>1. q # p /\ Writes(q, c)
      BY <2>2, <2>3, OthersWrite
    <3>2. pc'[q] = pc[q] /\ req'[q] = req[q] /\ loc'[q] = loc[q] /\ copy'[q] = copy[q]
      BY <3>1, OthersStay
    <3>3. ASSUME NEW s \in {chats[c].session, loc[q].sid, loc[q].seeded} PROVE SameSession(s)
      <4>1. s \in Claims(c) \/ s = 0
        BY <3>1, <3>3 DEF Claims, Hands
      <4>. QED  BY <2>2, <4>1
    <3>4. Heard(q, c)
      BY <3>1 DEF Voiced
    <3>. QED  BY <2>2, <3>2, <3>3, <3>4, HearsOn
  <2>4. ASSUME \A q \in Procs : ~Writes(q, c)' PROVE Stable(c)'
    <3>1. \A q \in Procs : ~Writes(q, c)
      BY <1>2, <2>4, OthersWrite DEF Mine
    <3>2. Stable(c)
      BY <3>1 DEF Voiced
    <3>3. PICK s : s = chats[c].session
      OBVIOUS
    <3>4. Told(s)' = Told(s)
      <4>1. s \in Claims(c) \/ s = 0
        BY <3>3 DEF Claims
      <4>. QED  BY <2>2, <4>1, SameTold
    <3>5. Texts(c)' = Texts(c)
      BY <2>2 DEF Texts, MaxSeq, Seqs
    <3>. QED  BY <2>2, <3>2, <3>3, <3>4, <3>5 DEF Stable
  <2>5. NoneHere(c)'
    BY <2>2 DEF Voiced, NoneHere
  <2>. QED  BY <2>3, <2>4, <2>5 DEF Voiced
<1>. QED  BY <1>1, <1>2

LEMMA StartsItsVoice ==
  ASSUME OneWriter, HeldInv, NEW p \in Procs, Step(p), NEW c \in ChatIds, ~Live(c), Live(c)'
  PROVE  Voiced(c)'
<1>1. /\ Heard(p, c)' /\ Writes(p, c)'
      /\ \A q \in Procs \ {p} : ~Writes(q, c)'
  BY StartsUnheard
<1>. QED  BY <1>1 DEF Voiced, Heard

-----------------------------------------------------------------------------
(***************************************************************************)
(* The invariant of the transcripts, over every step of the service.       *)
(***************************************************************************)
\* A call writes no table and holds nothing yet.
LEMMA CallKeepsVoice ==
  ASSUME OneWriter, HeldInv, \A c \in ChatIds : Live(c) => Voiced(c), NEW p \in Procs, Call(p)
  PROVE  HeldInv' /\ \A c \in ChatIds : Live(c)' => Voiced(c)'
<1>0. DOMAIN pc = Procs /\ DOMAIN req = Procs
  BY DEF OneWriter, VariantInv, CanonInv, LineInv, Shapes, TypeOK, RequestsOK
<1>1. PICK r : \E there \in {"wait", "start.row", "fork.load"} : Arriving(p, r, there)
  BY CallForms DEF OneWriter, VariantInv
<1>2. PICK there \in {"wait", "start.row", "fork.load"} : Arriving(p, r, there)
  BY <1>1
<1>3. /\ UNCHANGED <<chats, messages, sessions, nextSession, loc, copy>> /\ pc[p] = "idle"
      /\ pc' = [pc EXCEPT ![p] = there] /\ req' = [req EXCEPT ![p] = r]
  BY <1>2 DEF Arriving, Arrives, tables, ids
<1>4. pc'[p] = there /\ \A q \in Procs \ {p} : pc'[q] = pc[q] /\ req'[q] = req[q]
  BY <1>0, <1>3
<1>5. \A c : ~Writes(p, c) /\ ~Writes(p, c)'
  BY <1>3, <1>4 DEF Writes, Builds, Greeting, OpenSteps, LockedSteps
<1>6. ASSUME NEW q \in Procs, NEW c PROVE Writes(q, c)' <=> Writes(q, c)
  BY <1>4, <1>5 DEF Writes, Builds, chatOf
<1>7. \A c : Claims(c)' = Claims(c)
  <2>1. ASSUME NEW c PROVE {q \in Procs : Writes(q, c)}' = {q \in Procs : Writes(q, c)}
    BY <1>6
  <2>2. ASSUME NEW q PROVE Hands(q)' = Hands(q)
    BY <1>3 DEF Hands
  <2>. QED  BY <1>3, <2>1, <2>2 DEF Claims
<1>8. HeldInv'
  <2>1. EmptyHanded'
    <3>. SUFFICES ASSUME NEW q \in Procs, pc'[q] \in Early PROVE loc[q].sid = 0 /\ loc[q].seeded = 0
      BY <1>3 DEF EmptyHanded, Early
    <3>1. pc[q] \in Early
      BY <1>3, <1>4 DEF Early
    <3>. QED  BY <3>1 DEF HeldInv, EmptyHanded
  <2>2. Numbered'
    BY <1>3 DEF HeldInv, Numbered
  <2>3. Apart' /\ Bound'
    BY <1>3, <1>7 DEF HeldInv, Apart, Bound
  <2>. QED  BY <2>1, <2>2, <2>3 DEF HeldInv
<1>9. ASSUME NEW s PROVE SameSession(s)
  BY <1>3 DEF SameSession
<1>10. ASSUME NEW c \in ChatIds, Live(c)' PROVE Voiced(c)'
  <2>1. Voiced(c)
    BY <1>3, <1>10 DEF Live
  <2>2. NoneHere(c)'
    BY <1>3, <2>1 DEF Voiced, NoneHere
  <2>3. ASSUME NEW q \in Procs, Writes(q, c)' PROVE Heard(q, c)'
    <3>1. q # p /\ Writes(q, c)
      BY <1>5, <1>6, <2>3
    <3>2. Heard(q, c)
      BY <2>1, <3>1 DEF Voiced
    <3>. QED  BY <1>3, <1>4, <1>9, <3>1, <3>2, HearsOn
  <2>4. ASSUME \A q \in Procs : ~Writes(q, c)' PROVE Stable(c)'
    <3>1. Stable(c)
      BY <1>6, <2>1, <2>4 DEF Voiced
    <3>. QED  BY <1>3, <3>1 DEF Stable, Told, FramesOf, Texts, MaxSeq, Seqs
  <2>. QED  BY <2>2, <2>3, <2>4 DEF Voiced
<1>. QED  BY <1>8, <1>10

LEMMA NextKeepsVoice ==
  ASSUME ~Eager, SessionInv, [Next]_vars
  PROVE  SessionInv'
<1>1. OneWriter /\ OneWriter' /\ UsedOK
  BY NextKeepsWriter DEF SessionInv, OneWriter, VariantInv
<1>2. /\ used'.crashes = 0 => used.crashes = 0
      /\ used'.failures = 0 => used.failures = 0
      /\ Restart => used'.crashes # 0
  BY <1>1, UsedStep
<1>. SUFFICES ASSUME Undisturbed'
              PROVE  HeldInv' /\ \A c \in ChatIds : Live(c)' => Voiced(c)'
  BY <1>1 DEF SessionInv
<1>3. HeldInv /\ \A c \in ChatIds : Live(c) => Voiced(c)
  BY <1>2 DEF SessionInv, Undisturbed
<1>4. ASSUME NEW p \in Procs, Step(p) PROVE HeldInv' /\ \A c \in ChatIds : Live(c)' => Voiced(c)'
  <2>1. HeldInv'
    <3>1. PICK c : c = Place(p)
      OBVIOUS
    <3>2. c \in ChatIds
      BY <1>1, <1>4, <3>1, PlaceIs DEF OneWriter, VariantInv
    <3>3. Writes(p, c) => Live(c)
      BY <1>1, <3>2 DEF OneWriter, BuildInv, LockedInv, Writes
    <3>4. Writes(p, c) => Heard(p, c)
      BY <1>3, <3>2, <3>3 DEF Voiced
    <3>. QED  BY <1>1, <1>3, <1>4, <3>1, <3>4, HeldStep
  <2>2. ASSUME NEW c \in ChatIds, Live(c)' PROVE Voiced(c)'
    BY <1>1, <1>3, <1>4, <2>2, KeepsTheVoice, StartsItsVoice
  <2>. QED  BY <2>1, <2>2
<1>5. ASSUME NEW p \in Procs, Call(p) PROVE HeldInv' /\ \A c \in ChatIds : Live(c)' => Voiced(c)'
  BY <1>1, <1>3, <1>5, CallKeepsVoice
<1>6. CASE UNCHANGED vars
  <2>1. UNCHANGED <<chats, messages, sessions, pc, req, loc, copy, nextSession>>
    BY <1>6 DEF vars, storeVars
  <2>2. ASSUME NEW q, NEW c PROVE Writes(q, c)' <=> Writes(q, c)
    BY <2>1 DEF Writes, Builds, chatOf
  <2>3. \A c : Claims(c)' = Claims(c)
    <3>1. ASSUME NEW c PROVE {q \in Procs : Writes(q, c)}' = {q \in Procs : Writes(q, c)}
      BY <2>2
    <3>2. ASSUME NEW q PROVE Hands(q)' = Hands(q)
      BY <2>1 DEF Hands
    <3>. QED  BY <2>1, <3>1, <3>2 DEF Claims
  <2>4. HeldInv'
    BY <1>3, <2>1, <2>3 DEF HeldInv, EmptyHanded, Numbered, Apart, Bound
  <2>5. ASSUME NEW c \in ChatIds, Live(c)' PROVE Voiced(c)'
    <3>1. Voiced(c)
      BY <1>3, <2>1, <2>5 DEF Live
    <3>2. ASSUME NEW q \in Procs, Writes(q, c)' PROVE Heard(q, c)'
      BY <2>1, <2>2, <3>1, <3>2, HearsOn DEF Voiced, SameSession
    <3>3. (\A q \in Procs : ~Writes(q, c)') => Stable(c)'
      BY <2>1, <2>2, <3>1 DEF Voiced, Stable, Told, FramesOf, Texts, MaxSeq, Seqs
    <3>. QED  BY <2>1, <3>1, <3>2, <3>3 DEF Voiced, NoneHere
  <2>. QED  BY <2>4, <2>5
<1>. QED  BY <1>2, <1>4, <1>5, <1>6 DEF Next, Undisturbed

LEMMA InitVoice ==
  ASSUME Imported = {}
  PROVE  Init => SessionInv
<1>. SUFFICES ASSUME Init PROVE SessionInv
  OBVIOUS
<1>1. OneWriter
  BY InitWriter
<1>2. NoChat.session = 0 /\ NoChat.status = "absent"
  BY DEF NoChat, NewChat
<1>3. \A c \in ChatIds : chats[c] = NoChat
  BY DEF Init
<1>4. ASSUME NEW p \in Procs PROVE loc[p].sid = 0 /\ loc[p].seeded = 0
  BY DEF Init, NoLocals
<1>5. \A c \in ChatIds : Claims(c) = {}
  BY <1>2, <1>3, <1>4 DEF Claims, Hands
<1>6. HeldInv
  BY <1>2, <1>3, <1>4, <1>5 DEF HeldInv, EmptyHanded, Numbered, Apart, Bound, Init
<1>. QED  BY <1>1, <1>2, <1>3, <1>6 DEF SessionInv, Live

LEMMA VoiceAlways ==
  ASSUME ~Eager, Imported = {}
  PROVE  Spec => []SessionInv
<1>1. SessionInv /\ [Next]_vars => SessionInv'
  BY NextKeepsVoice
<1>. QED  BY InitVoice, <1>1, PTL DEF Spec
=============================================================================
