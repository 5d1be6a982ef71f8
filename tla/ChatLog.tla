-------------------------------- MODULE ChatLog --------------------------------
(***************************************************************************)
(* What the chat service promises about a chat's canon, with no locks, no  *)
(* awaits and no sessions: a log of turns that changes in whole, coherent  *)
(* steps.  A user turn enters together with its reply; a turn already      *)
(* there keeps its place and its speaker when its text is rewritten; only  *)
(* a restart of the server can leave a user turn without an answer.        *)
(***************************************************************************)
EXTENDS Naturals, Sequences

CONSTANTS Ids,          \* chat ids
          Texts         \* the texts a turn can have

VARIABLES restarts,     \* restarts of the server so far
          exists,       \* the chats that exist
          log           \* Ids -> sequence of turns

vars == <<restarts, exists, log>>

TurnOf(role) == {[role |-> role, body |-> b] : b \in Texts}

Init ==
  /\ restarts = 0
  /\ exists \in SUBSET Ids
  /\ log \in [Ids -> Seq(TurnOf("user") \union TurnOf("assistant"))]

Create(c) ==
  /\ c \notin exists /\ exists' = exists \union {c}
  /\ UNCHANGED <<restarts, log>>

\* The turns a step adds at the end of c's log.
Added(c) == SubSeq(log'[c], Len(log[c]) + 1, Len(log'[c]))
Grows(c) == log'[c] = log[c] \o Added(c)
OnlyTouches(c) ==
  /\ c \in exists /\ UNCHANGED <<restarts, exists>>
  /\ \A d \in Ids \ {c} : log'[d] = log[d]

\* The chat opens with a greeting or with a generated scene.
Open(c) ==
  /\ OnlyTouches(c) /\ log[c] = <<>>
  /\ \E turn \in TurnOf("assistant") : log'[c] = <<turn>>

\* A user turn and its reply, together.
Exchange(c) ==
  /\ OnlyTouches(c) /\ Grows(c) /\ Len(Added(c)) = 2
  /\ Added(c)[1] \in TurnOf("user") /\ Added(c)[2] \in TurnOf("assistant")

\* An edit, a swipe, a chosen variant: one turn, one new text.
Rewrite(c) ==
  /\ OnlyTouches(c) /\ Len(log'[c]) = Len(log[c])
  /\ \E i \in DOMAIN log[c] :
       /\ log'[c][i] \in TurnOf(log[c][i].role)
       /\ \A j \in DOMAIN log[c] \ {i} : log'[c][j] = log[c][j]

Delete(c) ==
  /\ c \in exists /\ exists' = exists \ {c}
  /\ log' = [log EXCEPT ![c] = <<>>]
  /\ UNCHANGED restarts

\* A restart may strand the user turns that were being answered.
Restart ==
  /\ restarts' = restarts + 1
  /\ \A c \in Ids :
       \/ log'[c] = log[c]
       \/ /\ c \in exists /\ Grows(c) /\ Len(Added(c)) = 1
          /\ Added(c)[1] \in TurnOf("user")
  /\ UNCHANGED exists

Next ==
  \/ \E c \in Ids : Create(c) \/ Open(c) \/ Exchange(c) \/ Rewrite(c) \/ Delete(c)
  \/ Restart

Spec == Init /\ [][Next]_vars
=============================================================================
