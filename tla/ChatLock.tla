------------------------------- MODULE ChatLock -------------------------------
(***************************************************************************)
(* withChatLock (src/server/domain/_shared/lock.ts) as the code builds it: *)
(* a map from a chat to the TAIL of a chain of promises.  A call chains    *)
(* its function behind the promise it finds in the map and leaves its own  *)
(* promise there; nothing else records who holds the lock or who waits.    *)
(*                                                                         *)
(* A call is identified by its number, given in the order of arrival over  *)
(* all chats; 0 stands for Promise.resolve(), the chain of a chat that has *)
(* none yet.  Entries of the map are never removed, as in the code.        *)
(***************************************************************************)
EXTENDS Integers, Sequences

CONSTANTS Chats,        \* chat ids
          MaxCalls      \* bound on the number of calls of a behaviour

ASSUME MaxCallsAssumption == MaxCalls \in Nat

VARIABLES chains,       \* Chats -> call whose promise is the chain's tail
          calls,        \* number of calls made so far
          chat,         \* call -> its chat
          prior,        \* call -> the call its function waits for (0: none)
          state         \* call -> "chained" | "running" | "fulfilled" | "rejected"

lockVars == <<chains, calls, chat, prior, state>>

Calls == 1..calls
Settled(n) == n \in {0} \union {m \in Calls : state[m] \in {"fulfilled", "rejected"}}

Init ==
  /\ chains = [c \in Chats |-> 0]
  /\ calls = 0
  /\ chat = <<>> /\ prior = <<>> /\ state = <<>>

\* What would go wrong: a map that keeps the first promise, then(fn) without the
\* rejection handler, and a call that does not wait.
WithChatLockKeepingHead(c) ==
  /\ calls < MaxCalls
  /\ calls' = calls + 1
  /\ chat' = Append(chat, c)
  /\ prior' = Append(prior, chains[c])
  /\ state' = Append(state, "chained")
  /\ chains' = [chains EXCEPT ![c] = IF @ = 0 THEN calls + 1 ELSE @]

RunFnOnSuccess(n) ==
  /\ n \in Calls
  /\ state[n] = "chained"
  /\ prior[n] \in {0} \union {m \in Calls : state[m] = "fulfilled"}
  /\ state' = [state EXCEPT ![n] = "running"]
  /\ UNCHANGED <<chains, calls, chat, prior>>

RunFnAtOnce(n) ==
  /\ n \in Calls
  /\ state[n] = "chained"
  /\ state' = [state EXCEPT ![n] = "running"]
  /\ UNCHANGED <<chains, calls, chat, prior>>

\* withChatLock(chatId, fn): read the tail, chain fn behind it, become the tail.
WithChatLock(c) ==
  /\ calls < MaxCalls
  /\ calls' = calls + 1
  /\ chat' = Append(chat, c)
  /\ prior' = Append(prior, chains[c])
  /\ state' = Append(state, "chained")
  /\ chains' = [chains EXCEPT ![c] = calls + 1]

\* prior.then(fn, fn): fn starts once its predecessor settled, either way.
RunFn(n) ==
  /\ n \in Calls
  /\ state[n] = "chained"
  /\ Settled(prior[n])
  /\ state' = [state EXCEPT ![n] = "running"]
  /\ UNCHANGED <<chains, calls, chat, prior>>

\* fn's promise settles; the caller sees the rejection, the chain does not.
SettleFn(n) ==
  /\ n \in Calls
  /\ state[n] = "running"
  /\ \E r \in {"fulfilled", "rejected"} : state' = [state EXCEPT ![n] = r]
  /\ UNCHANGED <<chains, calls, chat, prior>>

Next ==
  \/ \E c \in Chats : WithChatLock(c)
  \/ \E n \in Calls : RunFn(n) \/ SettleFn(n)

Spec == Init /\ [][Next]_lockVars

\* Every function passed to the lock settles, and the event loop runs the
\* continuation of a settled promise.
FairSpec ==
  /\ Spec
  /\ \A n \in 1..MaxCalls : WF_lockVars(RunFn(n) \/ SettleFn(n))

-----------------------------------------------------------------------------
CallStates == {"chained", "running", "fulfilled", "rejected"}

TypeOK ==
  /\ calls \in 0..MaxCalls
  /\ chat \in [Calls -> Chats]
  /\ prior \in [Calls -> 0..MaxCalls]
  /\ state \in [Calls -> CallStates]
  /\ chains \in [Chats -> 0..calls]

(***************************************************************************)
(* "only one generation may be in flight per chat" (lock.ts:1): no two     *)
(* functions of one chat run at the same time.                             *)
(***************************************************************************)
MutualExclusion ==
  \A m, n \in Calls :
    /\ chat[m] = chat[n]
    /\ state[m] = "running" /\ state[n] = "running"
    => m = n

(***************************************************************************)
(* A call never starts before every earlier call of its chat has settled:  *)
(* the tail of the chain speaks for the whole chain behind it.             *)
(***************************************************************************)
ArrivalOrder ==
  \A m, n \in Calls :
    /\ chat[m] = chat[n] /\ m < n
    /\ state[n] # "chained"
    => Settled(m)

(***************************************************************************)
(* A rejected function does not poison the chain, and calls of one chat    *)
(* never wait on another: every call eventually settles.                   *)
(***************************************************************************)
EveryCallSettles ==
  \A n \in 1..MaxCalls : (n \in Calls) ~> (n \in Calls /\ Settled(n))

-----------------------------------------------------------------------------
(***************************************************************************)
(* The refinement: for each chat, the calls chained and not yet started    *)
(* are the waiting tickets of FifoMutex, the running ones are inside.      *)
(***************************************************************************)
WaitingOn(c) == {n \in Calls : chat[n] = c /\ state[n] = "chained"}
InsideOf(c) == {n \in Calls : chat[n] = c /\ state[n] = "running"}

Mutex(c) == INSTANCE FifoMutex
              WITH Tickets <- 1..MaxCalls, waiting <- WaitingOn(c), inside <- InsideOf(c)

(***************************************************************************)
(* The chain of promises implements a first-come first-served mutex for    *)
(* every chat (lock.ts:7-19): every behaviour starts like one, and every   *)
(* step is, for each chat, a step of one or a stutter.                     *)
(***************************************************************************)
ImplementsMutex ==
  /\ \A c \in Chats : Mutex(c)!Init
  /\ [][\A c \in Chats : [Mutex(c)!Next]_<<WaitingOn(c), InsideOf(c)>>]_lockVars
=============================================================================
