------------------------------- MODULE ChatTurn -------------------------------
(***************************************************************************)
(* One generation, as an operation awaits it: runTurn for agent-sdk        *)
(* (src/server/providers/claude-sdk/api.ts over DbSessionStore), or the    *)
(* stateless openrouter runner.  It starts, and then replies or fails; the *)
(* frames of an agent-sdk turn go to session_entries as they are produced. *)
(*                                                                         *)
(* The Agent SDK itself is external.  Resuming a session that has no       *)
(* frames starts a fresh one; resuming one that has keeps its id, or, when *)
(* SdkForks, may go on under a new id with a copy of the frames.           *)
(***************************************************************************)
EXTENDS ChatStore

CONSTANT SdkForks       \* may the SDK fork the session it resumes?

ASSUME SdkForksAssumption == SdkForks \in BOOLEAN

OnAgentSdk(p) == loc[p].row.api = "agent-sdk"

\* The SDK's session for a turn that resumes s (0: no resume) takes the prompt.
Opens(p, s, prompt) ==
  \/ /\ s \in DOMAIN sessions
     /\ sessions' = Appended(s, chatOf(p), <<prompt>>)
     /\ loc' = [loc EXCEPT ![p].sid = s]
     /\ UNCHANGED nextSession
  \/ /\ s \in DOMAIN sessions => SdkForks
     /\ sessions' = Appended(nextSession, chatOf(p), FramesOf(s) \o <<prompt>>)
     /\ loc' = [loc EXCEPT ![p].sid = nextSession]
     /\ nextSession' = nextSession + 1

StartTurn(p, s, prompt, here, there) ==
  /\ At(p, here, there)
  /\ IF OnAgentSdk(p) THEN Opens(p, s, prompt) ELSE UNCHANGED <<sessions, loc, nextSession>>
  /\ UNCHANGED <<chats, messages, queue, req, nextBody, used>>

\* With the AI_OUTPUT scripts run before the SDK stores the reply.
EndTurnScripted(p, here, there) ==
  /\ At(p, here, there)
  /\ nextBody' = nextBody + 1
  /\ loc' = [loc EXCEPT ![p].body = nextBody]
  /\ sessions' = IF OnAgentSdk(p)
                 THEN Appended(loc[p].sid, chatOf(p),
                        <<[Turn("assistant", nextBody) EXCEPT !.scripted = OutputScripts]>>)
                 ELSE sessions
  /\ UNCHANGED <<chats, messages, queue, req, nextSession, used>>

\* The model answers with a text nobody wrote before.
EndTurn(p, here, there) ==
  /\ At(p, here, there)
  /\ nextBody' = nextBody + 1
  /\ loc' = [loc EXCEPT ![p].body = nextBody]
  /\ sessions' = IF OnAgentSdk(p)
                 THEN Appended(loc[p].sid, chatOf(p), <<Turn("assistant", nextBody)>>)
                 ELSE sessions
  /\ UNCHANGED <<chats, messages, queue, req, nextSession, used>>

\* A TurnError, before the prompt reached the session (here = the start of the
\* turn) or after: frames already appended stay.
FailTurn(p, here, there) ==
  /\ CanFail /\ Spend("failures")
  /\ At(p, here, there)
  /\ UNCHANGED <<tables, queue, req, loc, ids>>
=============================================================================
