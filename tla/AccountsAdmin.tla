---------------------------- MODULE AccountsAdmin ----------------------------
(***************************************************************************)
(* What an administrator does to users and sessions, and the sessions that *)
(* logins mint and logouts end.                                            *)
(***************************************************************************)
EXTENDS AccountsIdentity

\* What follows requireAdmin.  Nobody disables himself; only what takes an
\* administrator away needs the count.
First(r, me) ==
    CASE r.op = "setRole" -> IF r.to = "user" THEN "load" ELSE "write"
      [] r.op = "setEnabled" -> IF r.to THEN "write" ELSE IF me = r.target THEN "idle" ELSE "load"
      [] r.op = "createUser" -> "exists"
      [] r.op = "resetPassword" -> "write"
      [] r.op = "revokeSession" -> "revoke"
      [] r.op = "revokeUser" -> "sweep"
      [] r.op = "config" -> "merge"

IsAdmin(p) ==
    /\ At(p, "isAdmin")
    /\ LET next == First(loc[p], loc[p].me)
       IN  IF users[loc[p].me].role # "admin" \/ next = "idle" THEN Done(p)
           ELSE Goto(p, next, loc[p])
    /\ UNCHANGED <<tables, memory, world, ops, past>>

LoadUser(p) ==
    /\ At(p, "load")
    /\ LET u == users[loc[p].target]
       IN  Goto(p, IF u.role = "admin" /\ u.on THEN "count" ELSE "write",
                [loc[p] EXCEPT !.role = u.role, !.on = u.on])
    /\ UNCHANGED <<tables, memory, world, ops, past>>

\* Mutant: the count does not leave the target out.
CountAll(p) ==
    /\ At(p, "count")
    /\ LET n == OtherAdmins(0)
       IN  IF n = 0 THEN Done(p)
           ELSE Goto(p, "write", [loc[p] EXCEPT !.n = OtherAdmins(loc[p].target)])
    /\ UNCHANGED <<tables, memory, world, ops, past>>

\* otherEnabledAdminCount, and the refusal of the last one.
CountAdmins(p) ==
    /\ At(p, "count")
    /\ LET n == OtherAdmins(loc[p].target)
       IN  IF n = 0 THEN Done(p) ELSE Goto(p, "write", [loc[p] EXCEPT !.n = n])
    /\ UNCHANGED <<tables, memory, world, ops, past>>

\* The update of setRole, setEnabled and resetPassword.  A lock and a new password end
\* an era of the user: what was minted before must not answer any more.
WriteUser(p) ==
    /\ At(p, "write")
    /\ LET r == loc[p]
           u == users[r.target]
           takes == (r.op = "setRole" /\ r.to = "user") \/ (r.op = "setEnabled" /\ ~r.to)
           stale == takes /\ (r.role # u.role \/ r.on # u.on
                              \/ (r.n # None /\ r.n # OtherAdmins(r.target)))
           ends == r.op = "resetPassword" \/ (r.op = "setEnabled" /\ ~r.to)
       IN  /\ users' = [users EXCEPT ![r.target] =
                 [CASE r.op = "setRole"       -> [u EXCEPT !.role = r.to]
                    [] r.op = "setEnabled"    -> [u EXCEPT !.on = r.to]
                    [] r.op = "resetPassword" -> [u EXCEPT !.pw = r.to]
                  EXCEPT !.era = IF ends THEN @ + 1 ELSE @]]
           /\ past' = [past EXCEPT !.unseated = @ \/ stale]
           /\ IF ends THEN Goto(p, "sweep", r) ELSE Done(p)
    /\ UNCHANGED <<sessions, prefs, stored, memory, world, ops>>

\* Mutant: the early return is for the users who have sessions.
SweepNone(p) ==
    /\ At(p, "sweep")
    /\ IF Unrevoked(loc[p].target) = {} THEN Goto(p, "sweepWrite", loc[p]) ELSE Done(p)
    /\ UNCHANGED <<tables, memory, world, ops, past>>

\* revokeAllForUser looks before it writes; the write takes what is there then.
Sweep(p) ==
    /\ At(p, "sweep")
    /\ IF Unrevoked(loc[p].target) = {} THEN Done(p) ELSE Goto(p, "sweepWrite", loc[p])
    /\ UNCHANGED <<tables, memory, world, ops, past>>

SweepWrite(p) ==
    /\ At(p, "sweepWrite")
    /\ sessions' = [s \in DOMAIN sessions |->
          [sessions[s] EXCEPT !.revoked = @ \/ sessions[s].user = loc[p].target]]
    /\ Done(p)
    /\ UNCHANGED <<users, prefs, stored, memory, world, ops, past>>

Revoke(p) ==
    /\ At(p, "revoke")
    /\ sessions' = [sessions EXCEPT ![loc[p].target].revoked = TRUE]
    /\ Done(p)
    /\ UNCHANGED <<users, prefs, stored, memory, world, ops, past>>

\* createUser: the handle is free, the password is hashed, the row is inserted; if the
\* handle was taken meanwhile the insert fails.
Exists(p) ==
    /\ At(p, "exists")
    /\ IF ByHandle(loc[p].target) = {} THEN Goto(p, "insertUser", loc[p]) ELSE Done(p)
    /\ UNCHANGED <<tables, memory, world, ops, past>>

InsertUser(p) ==
    /\ At(p, "insertUser")
    /\ \E role \in {"admin", "user"} :
          users' = IF Taken(0, None, loc[p].target) THEN users
                   ELSE Append(users, NewUser(loc[p].target, None, role, loc[p].to, "admin"))
    /\ Done(p)
    /\ UNCHANGED <<sessions, prefs, stored, memory, world, ops, past>>

-----------------------------------------------------------------------------

\* /api/auth/login: the row is read, then scrypt runs on what was read.  An attempt
\* that fails changes no table.
Login(p) ==
    /\ Begin(p) /\ mix.mode = "local"
    /\ \E u \in DOMAIN users, w \in Passwords :
          /\ users[u].on /\ users[u].pw = w
          /\ Goto(p, "mint", [Idle EXCEPT !.op = "login", !.row = u, !.era = users[u].era])
    /\ UNCHANGED <<tables, memory, world, past>>

\* sessions.create, which looks at nothing.
Mint(p) ==
    /\ At(p, "mint")
    /\ LET r == loc[p]
       IN  /\ sessions' = Append(sessions, [user |-> r.row, revoked |-> FALSE, seen |-> clock,
                                            used |-> clock, expires |-> clock + Ttl, era |-> r.era])
           /\ past' = IF r.era = users[r.row].era THEN past
                      ELSE [past EXCEPT !.raced = @ \cup {Len(sessions) + 1}]
    /\ Done(p)
    /\ UNCHANGED <<users, prefs, stored, memory, world, ops>>

\* /api/auth/logout: one statement.
Logout(p) ==
    /\ Begin(p) /\ "logout" \in mix.verbs
    /\ \E s \in DOMAIN sessions : sessions' = [sessions EXCEPT ![s].revoked = TRUE]
    /\ UNCHANGED <<users, prefs, stored, memory, world, pc, loc, past>>

AdminSteps(p) ==
    \/ IsAdmin(p) \/ LoadUser(p) \/ CountAdmins(p) \/ WriteUser(p) \/ Sweep(p) \/ SweepWrite(p)
    \/ Revoke(p) \/ Exists(p) \/ InsertUser(p) \/ Login(p) \/ Mint(p) \/ Logout(p)
=============================================================================
