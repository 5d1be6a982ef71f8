------------------------------ MODULE FifoMutex ------------------------------
(***************************************************************************)
(* What a per-chat lock promises its callers: one holder at a time, served *)
(* in the order of arrival, and a holder that leaves -- however its work   *)
(* ended -- lets the next one in.  One instance stands for one chat.       *)
(* Callers are told apart by tickets, numbered in the order of arrival.    *)
(***************************************************************************)
EXTENDS Naturals

CONSTANT Tickets        \* the numbers that can be drawn

VARIABLES waiting,      \* tickets of the callers that wait for the lock
          inside        \* tickets of the callers whose work is running

vars == <<waiting, inside>>

Init == waiting = {} /\ inside = {}

\* A caller arrives behind everyone who is still here.
Ask ==
  \E t \in Tickets :
    /\ \A u \in waiting \union inside : u < t
    /\ waiting' = waiting \union {t}
    /\ UNCHANGED inside

\* The one that waited longest starts its work in the empty room.
Enter ==
  /\ inside = {}
  /\ \E t \in waiting :
       /\ \A u \in waiting : t <= u
       /\ inside' = {t}
       /\ waiting' = waiting \ {t}

\* The one inside leaves, by a return or by a throw.
Leave ==
  /\ \E t \in inside : inside' = inside \ {t}
  /\ UNCHANGED waiting

Next == Ask \/ Enter \/ Leave

Spec == Init /\ [][Next]_vars
=============================================================================
