----------------------------- MODULE WarmModels -----------------------------
(***************************************************************************)
(* embeddings/: a local model that is loaded when it is first wanted, kept *)
(* warm, and unloaded when nobody has wanted it for a while, shared by     *)
(* every caller of the process.  What runs between two awaits is a step.   *)
(***************************************************************************)
EXTENDS Integers, Sequences, FiniteSets, SequencesExt

CONSTANTS Callers,   \* requests and background passes that may use the model
          Boot,      \* the warm-up at server boot
          MaxLoads,  \* bound: loads of one life of the process
          IdleTicks  \* the idle window, in ticks of the clock

ASSUME WarmAssumption == Boot \notin Callers /\ MaxLoads \in Nat /\ IdleTicks \in Nat \ {0}

VARIABLES models,    \* every instance loaded so far: its state, and what its session was told
          warm,      \* the WarmModel: instance, resolved, inFlight, and the age of lastUsedAt
          users,     \* where each caller is, on which instance, and what its prompt was read with
          crossed    \* callers whose session another one set or wrote while they had it

modelVars == <<models, warm, users, crossed>>

Users == Callers \cup {Boot}
Idle  == [at |-> "idle", on |-> 0, heard |-> {}]
WarmInit ==
    /\ models = <<>>
    \* lastUsedAt starts at 0: long ago.
    /\ warm = [instance |-> 0, resolved |-> 0, inFlight |-> 0, age |-> IdleTicks]
    /\ users = [u \in Users |-> IF u = Boot THEN [Idle EXCEPT !.at = "boot"] ELSE Idle]
    /\ crossed = {}

-----------------------------------------------------------------------------
(* The WarmModel                                                           *)

\* get: the promise of the instance, loading one if there is none.
Get(u, w) ==
    IF w.instance # 0
    THEN /\ warm' = w /\ UNCHANGED models
         /\ users' = [users EXCEPT ![u] = [Idle EXCEPT !.at = "waiting", !.on = w.instance]]
    ELSE LET i == Len(models) + 1
         IN  /\ i <= MaxLoads
             /\ models' = Append(models, [state |-> "loading", told |-> {}])
             /\ warm' = [w EXCEPT !.instance = i]
             /\ users' = [users EXCEPT ![u] = [Idle EXCEPT !.at = "waiting", !.on = i]]

\* use counts the caller before it waits for the instance.
Use(c) ==
    /\ users[c].at = "idle"
    /\ Get(c, [warm EXCEPT !.inFlight = @ + 1, !.age = 0])
    /\ crossed' = crossed \ {c}

\* warmUp, once at boot, does not.
WarmUp ==
    /\ users[Boot].at = "boot"
    /\ Get(Boot, warm)
    /\ UNCHANGED crossed

Load(i) ==
    /\ models[i].state = "loading"
    /\ \/ /\ models' = [models EXCEPT ![i].state = "live"]
          /\ warm' = [warm EXCEPT !.resolved = i]
       \/ /\ models' = [models EXCEPT ![i].state = "failed"]
          /\ warm' = [warm EXCEPT !.instance = 0, !.resolved = 0]
    /\ UNCHANGED <<users, crossed>>

\* The finally of use; the end of warmUp.  A warm-up that failed sets no time.
Done(u, failed) ==
    warm' = IF u # Boot THEN [warm EXCEPT !.inFlight = @ - 1, !.age = 0]
            ELSE IF failed THEN warm ELSE [warm EXCEPT !.age = 0]

\* The load failed: every caller that waits for it is told so.
Reject(u) ==
    /\ users[u].at = "waiting" /\ models[users[u].on].state = "failed"
    /\ users' = [users EXCEPT ![u] = Idle]
    /\ Done(u, TRUE)
    /\ UNCHANGED <<models, crossed>>

\* Mutant: an inference that runs does not keep the model.
SweepInUse ==
    /\ warm.resolved # 0 /\ warm.age = IdleTicks
    /\ models' = [models EXCEPT ![warm.resolved].state = "unloading"]
    /\ warm' = [warm EXCEPT !.instance = 0, !.resolved = 0]
    /\ UNCHANGED <<users, crossed>>

\* maybeEvict up to its await: the instance is detached before it is unloaded.
Sweep ==
    /\ warm.instance # 0 /\ warm.resolved # 0
    /\ warm.inFlight = 0
    /\ warm.age = IdleTicks
    /\ models' = [models EXCEPT ![warm.resolved].state = "unloading"]
    /\ warm' = [warm EXCEPT !.instance = 0, !.resolved = 0]
    /\ UNCHANGED <<users, crossed>>

\* An unload that fails is logged, and what it did not free stays.
Unload(i) ==
    /\ models[i].state = "unloading"
    /\ \E end \in {"unloaded", "leaked"} : models' = [models EXCEPT ![i].state = end]
    /\ UNCHANGED <<warm, users, crossed>>

Tick ==
    /\ warm.age < IdleTicks
    /\ warm' = [warm EXCEPT !.age = @ + 1]
    /\ UNCHANGED <<models, users, crossed>>

-----------------------------------------------------------------------------
(* summarizer.ts: one chat session per instance.  Its history is set to    *)
(* the caller's own before each prompt; the first prompt with a schema     *)
(* waits for its grammar in between.  A prompt is read with the history it *)
(* finds, and adds itself to it.                                           *)

Resolved(u) == users[u].at = "waiting" /\ models[users[u].on].state \notin {"loading", "failed"}
Sharing(u)  == {v \in Users \ {u} : users[v].at \in {"grammar", "prompt"} /\ users[v].on = users[u].on}

SetChatHistory(u) ==
    /\ Resolved(u)
    /\ models' = [models EXCEPT ![users[u].on].told = {u}]
    /\ users' = [users EXCEPT ![u].at = "grammar"]
    /\ crossed' = crossed \cup IF Sharing(u) = {} THEN {} ELSE Sharing(u) \cup {u}
    /\ UNCHANGED warm

Prompt(u) ==
    /\ users[u].at = "grammar"
    /\ users' = [users EXCEPT ![u].at = "prompt", ![u].heard = models[users[u].on].told]
    /\ UNCHANGED <<models, warm, crossed>>

Answer(u) ==
    /\ users[u].at = "prompt"
    /\ users' = [users EXCEPT ![u] = Idle]
    /\ models' = [models EXCEPT ![users[u].on].told = users[u].heard \cup {u, "reply"}]
    /\ crossed' = crossed \cup Sharing(u)
    /\ Done(u, FALSE)

WarmNext ==
    \/ \E c \in Callers : Use(c)
    \/ WarmUp
    \/ \E i \in DOMAIN models : Load(i) \/ Unload(i)
    \/ \E u \in Users : Reject(u) \/ SetChatHistory(u) \/ Prompt(u) \/ Answer(u)
    \/ Sweep
    \/ Tick

-----------------------------------------------------------------------------
(* embedder.ts embedBatch: the texts of a batch are padded to its longest, *)
(* so they are packed by length under a budget of padded tokens.           *)

\* The order of the lengths, equal ones as they came.
ByLength(lens) ==
    SetToSortSeq(DOMAIN lens, LAMBDA a, b : lens[a] < lens[b] \/ (lens[a] = lens[b] /\ a < b))

\* The batches, each a sequence of the texts' places; a text over the budget goes alone.
Pack(lens, budget) ==
    FoldLeft(LAMBDA packs, i :
                LET group == Last(packs)
                IN  IF group # <<>> /\ lens[i] * (Len(group) + 1) > budget THEN Append(packs, <<i>>)
                    ELSE Append(Front(packs), Append(group, i)),
             << <<>> >>, ByLength(lens))

\* The vectors come back to the places the texts were taken from.
EmbedBatch(lens, budget) ==
    LET packs == Pack(lens, budget)
    IN  [i \in DOMAIN lens |-> {p \in DOMAIN packs : i \in ToSet(packs[p])}]

-----------------------------------------------------------------------------
(* What it owes                                                            *)

\* Nothing is read with a model that was freed: an inference of a caller has its instance
\* loaded to the end, and whoever waits has one that is loaded or will be.  The warm-up at
\* boot is not counted, and the sweep may free what it is warming.
UsesRunOnLiveModels ==
    \A c \in Callers :
        /\ users[c].at \in {"grammar", "prompt"} => models[users[c].on].state = "live"
        /\ users[c].at = "waiting" => models[users[c].on].state \in {"loading", "live", "failed"}

\* The memory is held by the one instance the next caller gets, or is being given back: a
\* failed load is forgotten, and only an unload that fails leaks.
NothingHeldTwice ==
    /\ \A i \in DOMAIN models :
          /\ models[i].state = "loading" => warm.instance = i /\ warm.resolved = 0
          /\ models[i].state = "live"    => warm.instance = i /\ warm.resolved = i
    /\ warm.instance # 0 => models[warm.instance].state \in {"loading", "live"}
    /\ warm.inFlight = Cardinality({c \in Callers : users[c].at # "idle"})

\* Each summary is its own: its prompt is read with the history it set and nothing of an
\* earlier one, unless two callers had the session at once.
SummariesIndependent ==
    \A u \in Users : users[u].at = "prompt" => users[u].heard = {u} \/ u \in crossed

\* Every text is in one batch, and no batch of several is over the budget.
BatchesFit(lens, budget) ==
    LET packs == Pack(lens, budget)
    IN  /\ \A i \in DOMAIN lens : Cardinality(EmbedBatch(lens, budget)[i]) = 1
        /\ FoldLeft(LAMBDA n, p : n + Len(p), 0, packs) = Len(lens)
        /\ \A p \in DOMAIN packs : Len(packs[p]) > 1 =>
              Len(packs[p]) * Max({lens[i] : i \in ToSet(packs[p])}) <= budget
=============================================================================
