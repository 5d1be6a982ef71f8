---------------------------- MODULE ChatLockProofs ----------------------------
(***************************************************************************)
(* Theorems of ChatLock, for any set of chats and any number of calls.     *)
(***************************************************************************)
EXTENDS ChatLock, SequenceTheorems, TLAPS

(***************************************************************************)
(* What a chain is: its tail is the latest call of its chat, and every     *)
(* call waits for the latest call of its chat that came before it.         *)
(***************************************************************************)
TailIsLatest ==
  \A c \in Chats :
    /\ \A n \in Calls : chat[n] = c => n <= chains[c]
    /\ chains[c] # 0 => chat[chains[c]] = c

PriorIsLatestBefore ==
  \A n \in Calls :
    /\ prior[n] < n
    /\ prior[n] # 0 => chat[prior[n]] = chat[n]
    /\ \A m \in Calls : chat[m] = chat[n] /\ m < n => m <= prior[n]

ChainInv == TypeOK /\ TailIsLatest /\ PriorIsLatestBefore /\ ArrivalOrder

-----------------------------------------------------------------------------
(***************************************************************************)
(* A call that arrives extends the three sequences and changes none of the *)
(* entries they have.                                                      *)
(***************************************************************************)
LEMMA WithChatLockExtends ==
  ASSUME TypeOK, NEW c \in Chats, WithChatLock(c)
  PROVE  /\ calls \in Nat /\ calls + 1 \in 1..MaxCalls /\ calls' = calls + 1
         /\ chat' \in [1..calls+1 -> Chats]
         /\ \A i \in 1..calls : chat'[i] = chat[i]
         /\ chat'[calls+1] = c
         /\ prior' \in [1..calls+1 -> 0..MaxCalls]
         /\ \A i \in 1..calls : prior'[i] = prior[i]
         /\ prior'[calls+1] = chains[c]
         /\ state' \in [1..calls+1 -> CallStates]
         /\ \A i \in 1..calls : state'[i] = state[i]
         /\ state'[calls+1] = "chained"
<1>1. calls \in Nat /\ calls + 1 \in 1..MaxCalls /\ calls' = calls + 1
  BY MaxCallsAssumption DEF TypeOK, WithChatLock
<1>2. /\ chat' \in [1..calls+1 -> Chats]
      /\ \A i \in 1..calls : chat'[i] = chat[i]
      /\ chat'[calls+1] = c
  <2>1. chat \in Seq(Chats) /\ Len(chat) = calls /\ chat' = Append(chat, c)
    BY <1>1 DEF TypeOK, WithChatLock, Calls
  <2>2. chat' \in Seq(Chats) /\ Len(chat') = calls + 1
    BY <2>1, AppendProperties
  <2>3. chat' \in [1..calls+1 -> Chats]
    BY <2>2, LenProperties
  <2>. QED  BY <2>1, <2>3, AppendProperties
<1>3. /\ prior' \in [1..calls+1 -> 0..MaxCalls]
      /\ \A i \in 1..calls : prior'[i] = prior[i]
      /\ prior'[calls+1] = chains[c]
  <2>1. chains[c] \in 0..MaxCalls
    BY <1>1, MaxCallsAssumption DEF TypeOK
  <2>2. prior \in Seq(0..MaxCalls) /\ Len(prior) = calls /\ prior' = Append(prior, chains[c])
    <3>1. prior \in [1..calls -> 0..MaxCalls]
      BY DEF TypeOK, Calls
    <3>2. ASSUME NEW S, prior \in [1..calls -> S]
          PROVE  prior \in Seq(S) /\ Len(prior) = calls
      BY <1>1, <3>2
    <3>3. prior \in Seq(0..MaxCalls) /\ Len(prior) = calls
      BY <3>1, <3>2
    <3>. QED  BY <3>3 DEF WithChatLock
  <2>3. prior' \in Seq(0..MaxCalls) /\ Len(prior') = calls + 1
    BY <2>1, <2>2, AppendProperties
  <2>4. prior' \in [1..calls+1 -> 0..MaxCalls]
    BY <2>3, LenProperties
  <2>. QED  BY <2>1, <2>2, <2>4, AppendProperties
<1>4. /\ state' \in [1..calls+1 -> CallStates]
      /\ \A i \in 1..calls : state'[i] = state[i]
      /\ state'[calls+1] = "chained"
  <2>1. "chained" \in CallStates
    BY DEF CallStates
  <2>2. state \in Seq(CallStates) /\ Len(state) = calls /\ state' = Append(state, "chained")
    BY <1>1 DEF TypeOK, WithChatLock, Calls
  <2>3. state' \in Seq(CallStates) /\ Len(state') = calls + 1
    BY <2>1, <2>2, AppendProperties
  <2>4. state' \in [1..calls+1 -> CallStates]
    BY <2>3, LenProperties
  <2>. QED  BY <2>1, <2>2, <2>4, AppendProperties
<1>. QED  BY <1>1, <1>2, <1>3, <1>4

-----------------------------------------------------------------------------
LEMMA InitChainInv == Init => ChainInv
BY MaxCallsAssumption
   DEF Init, ChainInv, TypeOK, TailIsLatest, PriorIsLatestBefore, ArrivalOrder, Calls, Settled

(***************************************************************************)
(* A call that arrives: the tail it finds is the latest call of its chat.  *)
(***************************************************************************)
LEMMA WithChatLockKeepsChainInv ==
  ASSUME ChainInv, NEW c \in Chats, WithChatLock(c)
  PROVE  ChainInv'
<1>. USE MaxCallsAssumption
<1>. DEFINE n == calls + 1
<1>0. /\ calls \in Nat /\ n \in 1..MaxCalls /\ calls' = n
      /\ Calls = 1..calls /\ Calls' = 1..n
  BY DEF ChainInv, TypeOK, WithChatLock, Calls
<1>1. /\ chat' \in [1..n -> Chats]
      /\ \A i \in 1..calls : chat'[i] = chat[i]
      /\ chat'[n] = c
  BY WithChatLockExtends DEF ChainInv
<1>2. /\ prior' \in [1..n -> 0..MaxCalls]
      /\ \A i \in 1..calls : prior'[i] = prior[i]
      /\ prior'[n] = chains[c]
  BY WithChatLockExtends DEF ChainInv
<1>3. /\ state' \in [1..n -> CallStates]
      /\ \A i \in 1..calls : state'[i] = state[i]
      /\ state'[n] = "chained"
  BY WithChatLockExtends DEF ChainInv
<1>4. /\ chains' = [chains EXCEPT ![c] = n]
      /\ chains \in [Chats -> 0..calls]
  BY DEF ChainInv, TypeOK, WithChatLock
<1>5. TypeOK'
  BY <1>0, <1>1, <1>2, <1>3, <1>4 DEF TypeOK
<1>6. TailIsLatest'
  BY <1>0, <1>1, <1>4 DEF ChainInv, TailIsLatest
<1>7. PriorIsLatestBefore'
  <2>1. ASSUME NEW i \in 1..calls
        PROVE  /\ prior'[i] < i
               /\ prior'[i] # 0 => chat'[prior'[i]] = chat'[i]
               /\ \A j \in 1..n : chat'[j] = chat'[i] /\ j < i => j <= prior'[i]
    <3>1. prior[i] \in 0..MaxCalls /\ prior[i] < i
      BY <1>0 DEF ChainInv, PriorIsLatestBefore, TypeOK
    <3>. QED  BY SMTT(40), <1>0, <1>1, <1>2, <3>1 DEF ChainInv, PriorIsLatestBefore
  <2>2. /\ prior'[n] < n
        /\ prior'[n] # 0 => chat'[prior'[n]] = chat'[n]
        /\ \A j \in 1..n : chat'[j] = chat'[n] /\ j < n => j <= prior'[n]
    <3>1. chains[c] \in 0..calls /\ prior'[n] = chains[c] /\ prior'[n] < n
      BY <1>0, <1>2, <1>4
    <3>2. ASSUME chains[c] # 0 PROVE chat'[chains[c]] = c
      <4>1. chains[c] \in 1..calls
        BY <1>0, <3>1, <3>2
      <4>. QED  BY <1>1, <3>2, <4>1 DEF ChainInv, TailIsLatest
    <3>3. ASSUME NEW j \in 1..n, chat'[j] = c, j < n PROVE j <= chains[c]
      <4>1. j \in 1..calls
        BY <1>0, <3>3
      <4>. QED  BY <1>0, <1>1, <3>3, <4>1 DEF ChainInv, TailIsLatest
    <3>. QED  BY <1>0, <1>1, <3>1, <3>2, <3>3
  <2>. QED  BY <1>0, <2>1, <2>2 DEF PriorIsLatestBefore
<1>8. ArrivalOrder'
  BY <1>0, <1>1, <1>3 DEF ChainInv, ArrivalOrder, Settled
<1>. QED  BY <1>5, <1>6, <1>7, <1>8 DEF ChainInv

(***************************************************************************)
(* A function that starts: the call it waited for has settled, and so has  *)
(* everything before that one.                                             *)
(***************************************************************************)
LEMMA EarlierSettled ==
  ASSUME ChainInv, NEW n \in Calls, RunFn(n), NEW m \in Calls, chat[m] = chat[n], m < n
  PROVE  Settled(m)
<1>. USE MaxCallsAssumption
<1>1. m <= prior[n] /\ prior[n] < n /\ prior[n] \in Nat /\ m # 0 /\ m \in Nat
  BY DEF ChainInv, PriorIsLatestBefore, TypeOK, Calls
<1>2. prior[n] # 0 /\ prior[n] \in Calls
  BY <1>1 DEF Calls, ChainInv, TypeOK
<1>3. chat[prior[n]] = chat[n] /\ Settled(prior[n]) /\ state[prior[n]] # "chained"
  BY <1>2 DEF ChainInv, PriorIsLatestBefore, RunFn, Settled
<1>4. CASE m < prior[n]
  BY <1>2, <1>3, <1>4 DEF ChainInv, ArrivalOrder
<1>. QED  BY <1>1, <1>3, <1>4

LEMMA RunFnKeepsChainInv ==
  ASSUME ChainInv, NEW n \in Calls, RunFn(n)
  PROVE  ChainInv'
<1>. USE MaxCallsAssumption
<1>1. TypeOK'
  BY DEF ChainInv, TypeOK, RunFn, Calls, CallStates
<1>2. TailIsLatest' /\ PriorIsLatestBefore'
  BY DEF ChainInv, TailIsLatest, PriorIsLatestBefore, RunFn, Calls
<1>3. ArrivalOrder'
  BY EarlierSettled DEF ChainInv, ArrivalOrder, RunFn, Settled, Calls, TypeOK
<1>. QED  BY <1>1, <1>2, <1>3 DEF ChainInv

LEMMA SettleFnKeepsChainInv ==
  ASSUME ChainInv, NEW n \in Calls, SettleFn(n)
  PROVE  ChainInv'
<1>. USE MaxCallsAssumption
<1>1. TypeOK'
  BY DEF ChainInv, TypeOK, SettleFn, Calls, CallStates
<1>2. TailIsLatest' /\ PriorIsLatestBefore'
  BY DEF ChainInv, TailIsLatest, PriorIsLatestBefore, SettleFn, Calls
<1>3. ArrivalOrder'
  BY DEF ChainInv, ArrivalOrder, SettleFn, Settled, Calls, TypeOK
<1>. QED  BY <1>1, <1>2, <1>3 DEF ChainInv

LEMMA StepKeepsChainInv == ChainInv /\ [Next]_lockVars => ChainInv'
<1>. SUFFICES ASSUME ChainInv, [Next]_lockVars PROVE ChainInv'
  OBVIOUS
<1>1. CASE UNCHANGED lockVars
  BY <1>1 DEF lockVars, ChainInv, TypeOK, TailIsLatest, PriorIsLatestBefore, ArrivalOrder,
              Calls, Settled
<1>. QED
  BY <1>1, WithChatLockKeepsChainInv, RunFnKeepsChainInv, SettleFnKeepsChainInv DEF Next

LEMMA ChainInvHolds == Spec => []ChainInv
BY InitChainInv, StepKeepsChainInv, PTL DEF Spec

(***************************************************************************)
(* The map of chains and the calls keep their types.                       *)
(***************************************************************************)
THEOREM TypeCorrect == Spec => []TypeOK
<1>1. ChainInv => TypeOK  BY DEF ChainInv
<1>. QED  BY <1>1, ChainInvHolds, PTL

(***************************************************************************)
(* Calls of one chat start in the order of arrival, each after every       *)
(* earlier one has settled (lock.ts:8-9).                                  *)
(***************************************************************************)
THEOREM ServedInOrder == Spec => []ArrivalOrder
<1>1. ChainInv => ArrivalOrder  BY DEF ChainInv
<1>. QED  BY <1>1, ChainInvHolds, PTL

(***************************************************************************)
(* At most one function runs per chat (lock.ts:1).                         *)
(***************************************************************************)
THEOREM OneAtATime == Spec => []MutualExclusion
<1>1. ChainInv => MutualExclusion
  <2>. SUFFICES ASSUME ChainInv, NEW m \in Calls, NEW n \in Calls,
                       chat[m] = chat[n], state[m] = "running", state[n] = "running"
                PROVE  m = n
    BY DEF MutualExclusion
  <2>0. m # 0 /\ n # 0
    BY DEF Calls, ChainInv, TypeOK
  <2>1. ~Settled(m) /\ ~Settled(n)
    BY <2>0 DEF Settled
  <2>2. ~(m < n) /\ ~(n < m)
    BY <2>1 DEF ChainInv, ArrivalOrder
  <2>. QED  BY <2>2 DEF Calls, ChainInv, TypeOK
<1>. QED  BY <1>1, ChainInvHolds, PTL

-----------------------------------------------------------------------------
(***************************************************************************)
(* The refinement, action by action and chat by chat.                      *)
(***************************************************************************)
LEMMA WithChatLockIsAsk ==
  ASSUME ChainInv, NEW c \in Chats, NEW d \in Chats, WithChatLock(d)
  PROVE  [Mutex(c)!Next]_<<WaitingOn(c), InsideOf(c)>>
<1>. USE MaxCallsAssumption
<1>. DEFINE n == calls + 1
<1>1. /\ calls \in Nat /\ n \in 1..MaxCalls
      /\ Calls = 1..calls /\ Calls' = Calls \union {n} /\ n \notin Calls
  BY DEF ChainInv, TypeOK, WithChatLock, Calls
<1>2. /\ \A i \in Calls : chat'[i] = chat[i] /\ state'[i] = state[i]
      /\ chat'[n] = d /\ state'[n] = "chained"
  BY <1>1, WithChatLockExtends DEF ChainInv
<1>3. InsideOf(c)' = InsideOf(c)
  BY <1>1, <1>2 DEF InsideOf
<1>4. CASE c = d
  <2>1. WaitingOn(c)' = WaitingOn(c) \union {n}
    BY <1>1, <1>2, <1>4 DEF WaitingOn
  <2>2. \A u \in WaitingOn(c) \union InsideOf(c) : u < n
    BY <1>1 DEF WaitingOn, InsideOf
  <2>3. Mutex(c)!Ask
    BY <1>1, <1>3, <2>1, <2>2 DEF Mutex!Ask
  <2>. QED  BY <2>3 DEF Mutex!Next
<1>5. CASE c # d
  <2>1. WaitingOn(c)' = WaitingOn(c)
    BY <1>1, <1>2, <1>5 DEF WaitingOn
  <2>. QED  BY <1>3, <2>1
<1>. QED  BY <1>4, <1>5

LEMMA RunFnIsEnter ==
  ASSUME ChainInv, NEW c \in Chats, NEW n \in Calls, RunFn(n)
  PROVE  [Mutex(c)!Next]_<<WaitingOn(c), InsideOf(c)>>
<1>1. /\ calls \in Nat /\ Calls = 1..calls /\ Calls' = Calls
      /\ chat' = chat /\ state[n] = "chained"
      /\ state'[n] = "running" /\ \A i \in Calls \ {n} : state'[i] = state[i]
  BY MaxCallsAssumption DEF ChainInv, TypeOK, RunFn, Calls
<1>2. CASE chat[n] = c
  <2>1. ASSUME NEW m \in Calls, chat[m] = c, m < n
        PROVE  state[m] \notin {"chained", "running"}
    <3>1. Settled(m)
      BY <1>2, <2>1, EarlierSettled
    <3>. QED  BY <1>1, <3>1 DEF Settled
  <2>2. ASSUME NEW m \in Calls, chat[m] = c, n < m
        PROVE  state[m] = "chained"
    <3>1. ~Settled(n)
      BY <1>1 DEF Settled
    <3>. QED  BY <1>2, <2>2, <3>1 DEF ChainInv, ArrivalOrder
  <2>3. InsideOf(c) = {}
    <3>. SUFFICES ASSUME NEW m \in Calls, chat[m] = c, state[m] = "running" PROVE FALSE
      BY DEF InsideOf
    <3>. QED  BY <1>1, <2>1, <2>2
  <2>4. n \in WaitingOn(c) /\ \A u \in WaitingOn(c) : n <= u
    BY <1>1, <1>2, <2>1 DEF WaitingOn
  <2>5. InsideOf(c)' = {n}
    BY <1>1, <1>2, <2>3 DEF InsideOf
  <2>6. WaitingOn(c)' = WaitingOn(c) \ {n}
    BY <1>1 DEF WaitingOn
  <2>7. Mutex(c)!Enter
    BY <2>3, <2>4, <2>5, <2>6 DEF Mutex!Enter
  <2>. QED  BY <2>7 DEF Mutex!Next
<1>3. CASE chat[n] # c
  BY <1>1, <1>3 DEF WaitingOn, InsideOf
<1>. QED  BY <1>2, <1>3

LEMMA SettleFnIsLeave ==
  ASSUME ChainInv, NEW c \in Chats, NEW n \in Calls, SettleFn(n)
  PROVE  [Mutex(c)!Next]_<<WaitingOn(c), InsideOf(c)>>
<1>1. /\ Calls' = Calls /\ chat' = chat /\ state[n] = "running"
      /\ state'[n] \in {"fulfilled", "rejected"}
      /\ \A i \in Calls \ {n} : state'[i] = state[i]
  BY MaxCallsAssumption DEF ChainInv, TypeOK, SettleFn, Calls
<1>2. WaitingOn(c)' = WaitingOn(c)
  BY <1>1 DEF WaitingOn
<1>3. CASE chat[n] = c
  <2>1. n \in InsideOf(c) /\ InsideOf(c)' = InsideOf(c) \ {n}
    BY <1>1, <1>3 DEF InsideOf
  <2>. QED  BY <1>2, <2>1 DEF Mutex!Leave, Mutex!Next
<1>4. CASE chat[n] # c
  <2>1. InsideOf(c)' = InsideOf(c)
    BY <1>1, <1>4 DEF InsideOf
  <2>. QED  BY <1>2, <2>1
<1>. QED  BY <1>3, <1>4

(***************************************************************************)
(* The map of promise tails implements, for every chat, a first-come       *)
(* first-served mutex (lock.ts:7-19).                                      *)
(***************************************************************************)
THEOREM ChainImplementsMutex == Spec => ImplementsMutex
<1>1. Init => \A c \in Chats : Mutex(c)!Init
  <2>. SUFFICES ASSUME Init, NEW c \in Chats PROVE Mutex(c)!Init
    OBVIOUS
  <2>1. Calls = {}
    BY DEF Init, Calls
  <2>. QED  BY <2>1 DEF Mutex!Init, WaitingOn, InsideOf
<1>2. ChainInv /\ [Next]_lockVars
        => [\A c \in Chats : [Mutex(c)!Next]_<<WaitingOn(c), InsideOf(c)>>]_lockVars
  <2>. SUFFICES ASSUME ChainInv, Next, NEW c \in Chats
                PROVE  [Mutex(c)!Next]_<<WaitingOn(c), InsideOf(c)>>
    OBVIOUS
  <2>. QED  BY WithChatLockIsAsk, RunFnIsEnter, SettleFnIsLeave DEF Next
<1>. QED  BY <1>1, <1>2, ChainInvHolds, PTL DEF Spec, ImplementsMutex
=============================================================================
