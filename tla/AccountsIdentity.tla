--------------------------- MODULE AccountsIdentity ---------------------------
(***************************************************************************)
(* From a credential to a row of users, and from there to the handler.     *)
(* A request comes with a session cookie, with the name a proxy vouches    *)
(* for, or with nothing from the local network, and then it is the owner.  *)
(***************************************************************************)
EXTENDS AccountsStore

AdminOps == {"setRole", "setEnabled", "createUser", "resetPassword", "revokeSession",
             "revokeUser", "config"}

\* The requests a client can send, each with what it asks for.
Asked(op, target, to) == [Idle EXCEPT !.op = op, !.target = target, !.to = to]
Calls ==
    {c \in UNION {
        {Asked("setRole", u, r) : u \in DOMAIN users, r \in {"admin", "user"}},
        {Asked("setEnabled", u, b) : u \in DOMAIN users, b \in BOOLEAN},
        {Asked("createUser", h, w) : h \in Handles, w \in Passwords},
        {Asked("resetPassword", u, w) : u \in DOMAIN users, w \in Passwords},
        {Asked("revokeSession", s, None) : s \in DOMAIN sessions},
        {Asked("revokeUser", u, None) : u \in DOMAIN users},
        {Asked("config", f, v) : f \in Fields, v \in Values},
        {Asked("global", f, v) : f \in Fields, v \in Values},
        {Asked("prefsGet", None, None)}, {Asked("prefsSet", None, v) : v \in Values},
        {Asked("me", None, None)}} : c.op \in mix.verbs}

\* createAuthResolver.resolve with the owner fallback: no table is read, and the role
\* is administrator.
AskLan(p) ==
    /\ Begin(p) /\ mix.lan
    /\ \E c \in Calls \ {Asked("me", None, None)} :
          Goto(p, "ensure", [c EXCEPT !.handle = Owner, !.role = "admin"])
    /\ UNCHANGED <<tables, memory, world, past>>

\* sessions.validate: the row with its user, refused or taken.  The identity it makes
\* has no groups.  /api/auth/me ends here.
AskCookie(p) ==
    /\ Begin(p) /\ mix.mode \in {"local", "oidc"}
    /\ \E c \in Calls, s \in DOMAIN sessions :
          LET u == users[sessions[s].user]
              next == IF c.op = "me" THEN "idle" ELSE IF u.ext = None THEN "byHandle" ELSE "byExt"
              r == [c EXCEPT !.ext = u.ext, !.handle = u.handle]
          IN  /\ IF ~Answers(s) THEN Done(p)
                 ELSE IF clock - sessions[s].seen > Throttle
                      THEN Goto(p, "slide", [r EXCEPT !.row = s])
                      ELSE Goto(p, next, IF next = "idle" THEN Idle ELSE r)
              /\ sessions' = IF Answers(s) THEN [sessions EXCEPT ![s].used = clock] ELSE sessions
    /\ UNCHANGED <<users, prefs, stored, memory, world, past>>

\* The throttled write: only the times, and whatever happened to the row since.
Slide(p) ==
    /\ At(p, "slide")
    /\ LET next == IF loc[p].op = "me" THEN "idle"
                   ELSE IF loc[p].ext = None THEN "byHandle" ELSE "byExt"
       IN  Goto(p, next, IF next = "idle" THEN Idle ELSE [loc[p] EXCEPT !.row = None])
    /\ sessions' = [sessions EXCEPT ![loc[p].row].seen = clock,
                                    ![loc[p].row].expires = clock + Ttl]
    /\ past' = [past EXCEPT !.unslid = @ \ {loc[p].row}]
    /\ UNCHANGED <<users, prefs, stored, memory, world, ops>>

\* resolveForwardHeader: the proxy says who it is, on every request, with the person's
\* stable id or, as Authelia and a proxy without a header for it do, by name alone.
AskForward(p) ==
    /\ Begin(p) /\ mix.mode = "forward-header"
    /\ \E c \in Calls \ {Asked("me", None, None)}, e \in Subs :
          LET r == [c EXCEPT !.handle = idp[e].now, !.boss = e \in Bosses]
          IN  \/ Goto(p, "byExt", [r EXCEPT !.ext = e])
              \/ e \in mix.nameless /\ Goto(p, "byHandle", [r EXCEPT !.who = e])
    /\ UNCHANGED <<tables, memory, world, past>>

\* The start of /api/auth/login in oidc mode: a transaction is kept.
Authorize(p) ==
    /\ Begin(p) /\ mix.mode = "oidc"
    /\ Cardinality(txs) < mix.logins
    /\ \E e \in Subs : txs' = txs \cup {[who |-> e, till |-> clock + TxTtl]}
    /\ UNCHANGED <<tables, cache, world, pc, loc, past>>

\* /api/auth/callback: the transaction is taken, expired or not; the code is exchanged
\* for what the provider says now.
Callback(p) ==
    /\ At(p, "idle")
    /\ \E tx \in txs :
          /\ txs' = txs \ {tx}
          /\ IF tx.till < clock THEN Done(p)
             ELSE Goto(p, "byExt", [Idle EXCEPT !.op = "callback", !.ext = tx.who,
                                       !.handle = idp[tx.who].now, !.boss = tx.who \in Bosses])
    /\ UNCHANGED <<tables, cache, world, ops, past>>

-----------------------------------------------------------------------------
(* provisionIdentity, and what the seam does with its answer               *)

\* Disabled: refused.  A callback mints a session; a request meets the gates and asks
\* ensureUser for the row of its handle.
Resolved(p, r) ==
    IF ~r.on \/ (r.op \in AdminOps /\ r.role # "admin") THEN Done(p)
    ELSE Goto(p, IF r.op = "callback" THEN "mint" ELSE "ensure", r)

Found(p, u) ==
    LET row == users[u]
        fix == {c \in {"ext", "handle"} : /\ row[c] # loc[p][c]
                                          /\ c = "ext" => loc[p].ext # None}
        r == [loc[p] EXCEPT !.row = u, !.fix = fix, !.role = row.role, !.on = row.on,
                            !.era = row.era]
    IN  IF fix = {} THEN Resolved(p, r) ELSE Goto(p, "patch", r)

SelectByExt(p) ==
    /\ At(p, "byExt")
    /\ IF ByExt(loc[p].ext) = {} THEN Goto(p, "byHandle", loc[p])
       ELSE Found(p, The(ByExt(loc[p].ext)))
    /\ UNCHANGED <<tables, memory, world, ops, past>>

SelectByHandle(p) ==
    /\ At(p, "byHandle")
    /\ IF ByHandle(loc[p].handle) = {} THEN Goto(p, "create", loc[p])
       ELSE Found(p, The(ByHandle(loc[p].handle)))
    /\ UNCHANGED <<tables, memory, world, ops, past>>

\* handle and externalId are unique columns.  Mutant: only handle is.
TakenName(u, ext, handle) == \E v \in DOMAIN users \ {u} : users[v].handle = handle
Taken(u, ext, handle) ==
    \E v \in DOMAIN users \ {u} : users[v].handle = handle \/ (ext # None /\ users[v].ext = ext)

\* The patch: a rename, a person linked to a row that was there.  A conflict ends the
\* request.  Role and lock stay.
Patch(p) ==
    /\ At(p, "patch")
    /\ LET u == loc[p].row
           old == users[u]
           new == [old EXCEPT !.ext = IF "ext" \in loc[p].fix THEN loc[p].ext ELSE @,
                              !.handle = IF "handle" \in loc[p].fix THEN loc[p].handle ELSE @]
           inUse == \E q \in Procs \ {p} : ~At(q, "idle") /\ loc[q].handle = old.handle
       IN  IF Taken(u, new.ext, new.handle)
           THEN Done(p) /\ UNCHANGED <<users, past>>
           ELSE /\ users' = [users EXCEPT ![u] = [new EXCEPT !.own = IF @ = None THEN new.ext ELSE @]]
                /\ past' = IF new.handle # old.handle /\ inUse
                           THEN [past EXCEPT !.crossed = @ \cup {old.handle}] ELSE past
                /\ Resolved(p, loc[p])
    /\ UNCHANGED <<sessions, prefs, stored, memory, world, ops>>

\* The row of a request: linked to its person, if it carries the id.
Made(r, role) ==
    [NewUser(r.handle, r.ext, role, None, "seam") EXCEPT !.own = IF @ = None THEN r.who ELSE @]

\* The insert does not tolerate another that won.
Create(p) ==
    /\ At(p, "create")
    /\ IF Taken(0, loc[p].ext, loc[p].handle)
       THEN Done(p) /\ UNCHANGED users
       ELSE LET role == Role(loc[p].handle, loc[p].boss)
            IN  /\ users' = Append(users, Made(loc[p], role))
                /\ Resolved(p, [loc[p] EXCEPT !.row = Len(users) + 1, !.role = role])
    /\ UNCHANGED <<sessions, prefs, stored, memory, world, ops, past>>

-----------------------------------------------------------------------------
(* ensureUser and requireAdmin                                             *)

Entry(op) ==
    CASE op \in {"prefsGet", "prefsSet"} -> "prefs"
      [] op = "global"                   -> "global"
      [] op \in AdminOps                 -> "isAdmin"

Ensure(p) ==
    /\ At(p, "ensure")
    /\ LET S == ByHandle(loc[p].handle)
       IN  IF S = {} THEN Goto(p, "ensureInsert", loc[p])
           ELSE Goto(p, Entry(loc[p].op), [loc[p] EXCEPT !.me = The(S)])
    /\ UNCHANGED <<tables, memory, world, ops, past>>

\* The insert that tolerates another, and the read after it.
EnsureInsert(p) ==
    /\ At(p, "ensureInsert")
    /\ LET h == loc[p].handle
           S == ByHandle(h)
       IN  /\ users' = IF S = {} THEN Append(users, NewUser(h, None, OwnerRole(h), None, "handler"))
                       ELSE users
           /\ Goto(p, Entry(loc[p].op),
                   [loc[p] EXCEPT !.me = IF S = {} THEN Len(users) + 1 ELSE The(S)])
    /\ UNCHANGED <<sessions, prefs, stored, memory, world, ops, past>>

IdentitySteps(p) ==
    \/ AskLan(p) \/ AskCookie(p) \/ AskForward(p) \/ Authorize(p) \/ Callback(p)
    \/ Slide(p) \/ SelectByExt(p) \/ SelectByHandle(p) \/ Patch(p) \/ Create(p)
    \/ Ensure(p) \/ EnsureInsert(p)
=============================================================================
