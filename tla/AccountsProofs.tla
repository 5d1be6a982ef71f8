---------------------------- MODULE AccountsProofs ----------------------------
(***************************************************************************)
(* Theorems of Accounts, for any people, users, settings, requests and     *)
(* renames.                                                                *)
(***************************************************************************)
EXTENDS Accounts, FiniteSetTheorems, SequenceTheorems, TLAPS

-----------------------------------------------------------------------------
(***************************************************************************)
(* The inductive invariant: the tables, and what a request remembers fits  *)
(* the statement it is about to make.                                      *)
(***************************************************************************)
SessionRow == [user : Nat, revoked : BOOLEAN, seen : Nat, used : Nat, expires : Nat, era : Nat]

UsersOK ==
  /\ users \in Seq(UserRow)
  /\ \A u, v \in DOMAIN users :
        u # v => /\ users[u].handle # users[v].handle
                 /\ users[u].ext # None => users[u].ext # users[v].ext

SessionsOK ==
  /\ clock \in Nat
  /\ sessions \in Seq(SessionRow)
  /\ \A s \in DOMAIN sessions :
        /\ sessions[s].user \in DOMAIN users
        /\ sessions[s].seen <= clock /\ sessions[s].used <= clock

SettingsOK ==
  /\ DOMAIN prefs \subseteq DOMAIN users
  /\ stored \in [Fields -> Values \cup {None}]
  /\ cache \in [Fields -> Values]

WorldOK ==
  /\ mix \in Mixes
  /\ txs \subseteq [who : Subs, till : Nat]
  /\ txs # {} => mix.mode = "oidc"
  /\ idp \in [Subs -> [now : Handles, had : SUBSET Handles]]
  /\ DOMAIN pc = Procs /\ DOMAIN loc = Procs

Store == UsersOK /\ SessionsOK /\ SettingsOK /\ WorldOK /\ past \in Past

\* What a request remembers; what it asks for is typed by its kind.
Local(r) ==
  r \in [op : {r.op}, ext : Subs \cup {None}, who : Subs \cup {None}, handle : Handles \cup {None}, boss : BOOLEAN,
         row : Nat \cup {None}, fix : SUBSET {"ext", "handle"}, role : {"admin", "user", None},
         on : BOOLEAN, era : Nat, me : Nat \cup {None}, target : {r.target}, to : {r.to},
         n : Nat \cup {None}, base : {r.base}]

OnUser == {"setRole", "setEnabled", "resetPassword", "revokeUser"}
OnHandlers == AdminOps \cup {"prefsGet", "prefsSet", "global"}

Sane(r) ==
  /\ r.op \in OnUser => r.target \in DOMAIN users
  /\ r.op = "setRole" => r.to \in {"admin", "user"}
  /\ r.op = "setEnabled" => r.to \in BOOLEAN
  /\ r.op \in {"resetPassword", "createUser"} => r.to \in Passwords
  /\ r.op = "createUser" => r.target \in Handles
  /\ r.op = "revokeSession" => r.target \in DOMAIN sessions
  /\ r.op \in {"config", "global"} => r.target \in Fields /\ r.to \in Values

\* What the statement at label l relies on.
Needs(l, r) ==
  /\ l \in {"byExt", "byHandle", "patch", "create", "slide"} =>
        r.op \in OnHandlers \cup {"callback"} \/ (l = "slide" /\ r.op = "me")
  /\ l \in {"slide", "byExt", "byHandle", "patch", "create", "ensure", "ensureInsert"} =>
        r.handle \in Handles
  /\ l \in {"byExt", "patch"} => r.ext # None
  /\ l = "slide" => r.row \in DOMAIN sessions
  /\ l \in {"patch", "mint"} => r.row \in DOMAIN users
  /\ l \in {"ensure", "ensureInsert"} => r.op \in OnHandlers
  /\ l \in {"prefs", "prefsInsert", "prefsWrite", "global", "isAdmin"} => r.me \in DOMAIN users
  /\ l \in {"prefs", "prefsInsert"} => r.op \in {"prefsGet", "prefsSet"}
  /\ l = "global" => r.op = "global"
  /\ l = "isAdmin" => r.op \in AdminOps
  /\ l \in {"load", "count"} => r.op \in {"setRole", "setEnabled"}
  /\ l = "write" => r.op \in {"setRole", "setEnabled", "resetPassword"}
  /\ l \in {"sweep", "sweepWrite"} => r.op \in {"setEnabled", "resetPassword", "revokeUser"}
  /\ l = "revoke" => r.op = "revokeSession"
  /\ l \in {"exists", "insertUser"} => r.op = "createUser"
  /\ l \in {"merge", "upsert"} => r.op = "config"
  /\ l = "upsert" => r.base \in [Fields -> Values \cup {None}]

Fits(q) == Local(loc[q]) /\ Sane(loc[q]) /\ Needs(pc[q], loc[q])

TypeInv == Store /\ \A q \in Procs : Fits(q)

-----------------------------------------------------------------------------
(***************************************************************************)
(* Frames.                                                                 *)
(***************************************************************************)
LEMMA Constants ==
  /\ Owner \in Handles /\ Initial \in Passwords /\ EnvOf \in [Fields -> Values]
  /\ None \notin Values /\ None \notin Passwords /\ None \notin Handles /\ None \notin Subs
  /\ None \notin Nat /\ None \notin Verbs
  /\ Ttl \in Nat /\ Throttle \in Nat /\ TxTtl \in Nat /\ 0 < Throttle /\ Throttle < Ttl
BY AccountsAssumption

\* Rows of users and of sessions are never deleted.
Grows == DOMAIN users \subseteq DOMAIN users' /\ DOMAIN sessions \subseteq DOMAIN sessions'
Others(p) == \A q \in Procs \ {p} : pc'[q] = pc[q] /\ loc'[q] = loc[q]

\* What was asked for, and what the next statement relies on, stays true.
LEMMA StillFits ==
  ASSUME Grows, NEW l, NEW r, Local(r), Sane(r), Needs(l, r)
  PROVE  (Sane(r) /\ Needs(l, r))'
<1>1. Sane(r)'
  BY DEF Sane, Grows
<1>2. Needs(l, r)'
  BY DEF Needs, Grows
<1>. QED  BY <1>1, <1>2

LEMMA OneStep ==
  ASSUME TypeInv, NEW p \in Procs, Store', Grows, Others(p), Fits(p)'
  PROVE  TypeInv'
<1>. SUFFICES ASSUME NEW q \in Procs, q # p PROVE Fits(q)'
  BY DEF TypeInv
<1>1. pc'[q] = pc[q] /\ loc'[q] = loc[q] /\ Local(loc[q]) /\ Sane(loc[q]) /\ Needs(pc[q], loc[q])
  BY DEF Others, TypeInv, Fits
<1>2. PICK l, r : l = pc[q] /\ r = loc[q]
  OBVIOUS
<1>3. (Sane(r) /\ Needs(l, r))'
  BY <1>1, <1>2, StillFits
<1>4. Local(loc[q])'
  BY <1>1 DEF Local
<1>. QED  BY <1>1, <1>2, <1>3, <1>4 DEF Fits

\* A request goes on to l, remembering r.
LEMMA Advance ==
  ASSUME TypeInv, NEW p \in Procs, NEW l, NEW r, Goto(p, l, r),
         Store', Grows, Local(r), Sane(r), Needs(l, r)
  PROVE  TypeInv'
<1>1. DOMAIN pc = Procs /\ DOMAIN loc = Procs
  BY DEF TypeInv, Store, WorldOK
<1>2. pc'[p] = l /\ loc'[p] = r /\ Others(p)
  BY <1>1 DEF Goto, Others
<1>3. (Sane(r) /\ Needs(l, r))'
  BY StillFits
<1>4. Local(loc[p])'
  BY <1>2 DEF Local
<1>5. Fits(p)'
  BY <1>2, <1>3, <1>4 DEF Fits
<1>. QED  BY <1>2, <1>5, OneStep

\* A step that writes no table.
LEMMA Quiet ==
  ASSUME TypeInv, NEW p \in Procs, NEW l, NEW r, Goto(p, l, r),
         UNCHANGED <<tables, memory, world, past>>, Local(r), Sane(r), Needs(l, r)
  PROVE  TypeInv'
<1>1. DOMAIN pc' = Procs /\ DOMAIN loc' = Procs
  BY DEF TypeInv, Store, WorldOK, Goto
<1>2. UNCHANGED <<users, sessions, prefs, stored, cache, txs, idp, clock, mix, past>>
  BY DEF tables, memory, world
<1>3. Store'
  BY <1>1, <1>2 DEF TypeInv, Store, UsersOK, SessionsOK, SettingsOK, WorldOK, Past
<1>4. Grows
  BY <1>2 DEF Grows
<1>. QED  BY <1>3, <1>4, Advance

\* A request that is over remembers nothing.
LEMMA IdleFits == Local(Idle) /\ Sane(Idle) /\ Needs("idle", Idle)
<1>1. Local(Idle)
  BY DEF Local, Idle
<1>2. Sane(Idle)
  BY Constants DEF Sane, Idle, OnUser, Verbs
<1>3. Needs("idle", Idle)
  BY DEF Needs
<1>. QED  BY <1>1, <1>2, <1>3

LEMMA Stops ==
  ASSUME TypeInv, NEW p \in Procs, Done(p), UNCHANGED <<tables, memory, world, past>>
  PROVE  TypeInv'
BY IdleFits, Quiet DEF Done

\* A request that is over, after its last write.
LEMMA Ends ==
  ASSUME TypeInv, NEW p \in Procs, Done(p), Store', Grows
  PROVE  TypeInv'
BY IdleFits, Advance DEF Done

-----------------------------------------------------------------------------
(***************************************************************************)
(* From a credential to a row.                                             *)
(***************************************************************************)
\* A request that starts knows what it is asked for, and nothing else.
LEMMA AskedIs ==
  ASSUME NEW op, NEW target, NEW to
  PROVE  LET a == Asked(op, target, to)
         IN  Local(a) /\ a.op = op /\ a.target = target /\ a.to = to
<1>. DEFINE a == Asked(op, target, to)
<1>1. a \in [op : {op}, ext : {None}, who : {None}, handle : {None}, boss : BOOLEAN, row : {None}, fix : {{}},
            role : {None}, on : BOOLEAN, era : {0}, me : {None}, target : {target}, to : {to},
            n : {None}, base : {None}]
  BY DEF Asked, Idle
<1>. HIDE DEF a
<1>2. a.op = op /\ a.target = target /\ a.to = to
  BY <1>1
<1>3. Local(a)
  BY <1>1, <1>2 DEF Local
<1>. QED  BY <1>2, <1>3 DEF a

\* A call names nobody by itself.
LEMMA Unnamed ==
  ASSUME NEW c \in Calls
  PROVE  c.ext = None /\ c.who = None /\ c.op # "callback"
<1>1. \A op, target, to : LET a == Asked(op, target, to)
                          IN  a.ext = None /\ a.who = None /\ a.op = op
  BY DEF Asked, Idle
<1>. QED  BY <1>1 DEF Calls

\* The calls a client can make ask for rows that are there.
LEMMA Asking ==
  ASSUME TypeInv, NEW c \in Calls
  PROVE  /\ Local(c) /\ Sane(c) /\ c.op \in OnHandlers \cup {"me"}
         /\ c.op = "me" => c = Asked("me", None, None)
<1>. DEFINE Is(op, target, to) == c = Asked(op, target, to)
<1>1. \/ \E u \in DOMAIN users, x \in {"admin", "user"} : Is("setRole", u, x)
      \/ \E u \in DOMAIN users, x \in BOOLEAN : Is("setEnabled", u, x)
      \/ \E h \in Handles, x \in Passwords : Is("createUser", h, x)
      \/ \E u \in DOMAIN users, x \in Passwords : Is("resetPassword", u, x)
      \/ \E s \in DOMAIN sessions : Is("revokeSession", s, None)
      \/ \E u \in DOMAIN users : Is("revokeUser", u, None)
      \/ \E f \in Fields, x \in Values : Is("config", f, x) \/ Is("global", f, x)
      \/ Is("prefsGet", None, None) \/ (\E x \in Values : Is("prefsSet", None, x))
      \/ Is("me", None, None)
  BY DEF Calls
<1>2. \A op, target, to : Is(op, target, to) => Local(c) /\ c.op = op /\ c.target = target /\ c.to = to
  BY AskedIs
<1>3. c.op = "me" => Is("me", None, None)
  <2>. HIDE DEF Is
  <2>. QED  BY <1>1, <1>2
<1>4. ASSUME NEW op, NEW target, NEW to, Is(op, target, to), op \in OnHandlers \cup {"me"},
             /\ op \in OnUser => target \in DOMAIN users
             /\ op = "setRole" => to \in {"admin", "user"}
             /\ op = "setEnabled" => to \in BOOLEAN
             /\ op \in {"resetPassword", "createUser"} => to \in Passwords
             /\ op = "createUser" => target \in Handles
             /\ op = "revokeSession" => target \in DOMAIN sessions
             /\ op \in {"config", "global"} => target \in Fields /\ to \in Values
      PROVE  Local(c) /\ Sane(c) /\ c.op \in OnHandlers \cup {"me"}
  <2>. HIDE DEF Is
  <2>. QED  BY <1>2, <1>4 DEF Sane
<1>5. Local(c) /\ Sane(c) /\ c.op \in OnHandlers \cup {"me"}
  <2>. HIDE DEF Is
  <2>. QED  BY <1>1, <1>4 DEF OnUser, OnHandlers, AdminOps
<1>. QED  BY <1>3, <1>5

\* The rows, one by one.
LEMMA Rows ==
  ASSUME TypeInv
  PROVE  /\ Len(users) \in Nat /\ DOMAIN users = 1..Len(users)
         /\ \A u \in DOMAIN users : users[u] \in UserRow
         /\ Len(sessions) \in Nat /\ DOMAIN sessions = 1..Len(sessions)
         /\ \A s \in DOMAIN sessions : sessions[s] \in SessionRow /\ sessions[s].user \in DOMAIN users
<1>1. users \in Seq(UserRow) /\ sessions \in Seq(SessionRow)
  BY DEF TypeInv, Store, UsersOK, SessionsOK
<1>2. \A s \in DOMAIN sessions : sessions[s].user \in DOMAIN users
  BY DEF TypeInv, Store, SessionsOK
<1>. HIDE DEF TypeInv
<1>. QED  BY <1>1, <1>2, ElementOfSeq, LenProperties

\* Times that are written into the row of a session.
LEMMA UsedRow ==
  ASSUME NEW row \in SessionRow, NEW t \in Nat
  PROVE  LET r == [row EXCEPT !.used = t]
         IN  /\ r \in SessionRow /\ r.user = row.user /\ r.revoked = row.revoked
             /\ r.era = row.era /\ r.seen = row.seen /\ r.expires = row.expires /\ r.used = t
<1>1. [row EXCEPT !.used = t] \in SessionRow
  BY DEF SessionRow
<1>. QED  BY <1>1 DEF SessionRow

\* Times that are written into a session keep its row.
LEMMA TouchSession ==
  ASSUME TypeInv, NEW s \in DOMAIN sessions, NEW row \in SessionRow,
         row.user = sessions[s].user, row.seen <= clock, row.used <= clock,
         sessions' = [sessions EXCEPT ![s] = row],
         UNCHANGED <<users, prefs, stored, memory, world, pc, loc>> \/
         (UNCHANGED <<users, prefs, stored, memory, world>> /\ \E p, l, r : Goto(p, l, r)),
         past' \in Past
  PROVE  Store' /\ Grows
<1>1. sessions' \in Seq(SessionRow) /\ DOMAIN sessions' = DOMAIN sessions
  BY ExceptSeq DEF TypeInv, Store, SessionsOK
<1>2. \A t \in DOMAIN sessions : sessions'[t] = IF t = s THEN row ELSE sessions[t]
  BY DEF TypeInv, Store, SessionsOK
<1>3. SessionsOK'
  BY <1>1, <1>2 DEF TypeInv, Store, SessionsOK, world
<1>4. UsersOK' /\ SettingsOK' /\ WorldOK'
  BY DEF TypeInv, Store, UsersOK, SettingsOK, WorldOK, memory, world, Goto
<1>5. past' \in Past'
  BY <1>1 DEF Past
<1>. QED  BY <1>1, <1>3, <1>4, <1>5 DEF Store, Grows

LEMMA Asks ==
  ASSUME TypeInv, NEW p \in Procs, AskLan(p) \/ AskForward(p)
  PROVE  TypeInv'
<1>1. CASE AskLan(p)
  <2>1. PICK c \in Calls \ {Asked("me", None, None)} :
          Goto(p, "ensure", [c EXCEPT !.handle = Owner, !.role = "admin"])
          /\ UNCHANGED <<tables, memory, world, past>>
    BY <1>1 DEF AskLan
  <2>. DEFINE r == [c EXCEPT !.handle = Owner, !.role = "admin"]
  <2>2. Local(c) /\ Sane(c) /\ c.op \in OnHandlers \cup {"me"}
    BY Asking
  <2>3. c.op # "me"
    BY <2>1, Asking
  <2>4. Local(r) /\ r.op = c.op /\ r.target = c.target /\ r.to = c.to /\ r.handle = Owner
    BY <2>2, Constants DEF Local
  <2>5. Sane(r)
    <3>. HIDE DEF r
    <3>. QED  BY <2>2, <2>4 DEF Sane
  <2>6. Needs("ensure", r)
    <3>. HIDE DEF r
    <3>. QED  BY <2>2, <2>3, <2>4, Constants DEF Needs
  <2>. HIDE DEF r
  <2>. QED  BY <2>1, <2>4, <2>5, <2>6, Quiet DEF r
<1>2. CASE AskForward(p)
  <2>1. PICK c \in Calls \ {Asked("me", None, None)}, e \in Subs :
          /\ LET r == [c EXCEPT !.handle = idp[e].now, !.boss = e \in Bosses]
             IN  \/ Goto(p, "byExt", [r EXCEPT !.ext = e])
                 \/ Goto(p, "byHandle", [r EXCEPT !.who = e])
          /\ UNCHANGED <<tables, memory, world, past>>
    BY <1>2 DEF AskForward
  <2>. DEFINE b == e \in Bosses
              r == [c EXCEPT !.handle = idp[e].now, !.boss = b]
              x == [r EXCEPT !.ext = e]
              y == [r EXCEPT !.who = e]
  <2>2. Local(c) /\ Sane(c) /\ c.op \in OnHandlers \cup {"me"}
    BY Asking
  <2>3. c.op # "me"
    BY <2>1, Asking
  <2>4. idp[e].now \in Handles /\ e # None
    BY Constants DEF TypeInv, Store, WorldOK
  <2>5. Local(r) /\ r.op = c.op /\ r.target = c.target /\ r.to = c.to /\ r.handle \in Handles
    <3>1. b \in BOOLEAN
      OBVIOUS
    <3>. HIDE DEF b
    <3>. QED  BY <2>2, <2>4, <3>1 DEF Local
  <2>. HIDE DEF r
  <2>6. /\ Local(x) /\ x.op = r.op /\ x.target = r.target /\ x.to = r.to
        /\ x.handle \in Handles /\ x.ext # None
        /\ Local(y) /\ y.op = r.op /\ y.target = r.target /\ y.to = r.to /\ y.handle \in Handles
    BY <2>4, <2>5 DEF Local
  <2>. HIDE DEF x, y
  <2>7. Sane(x) /\ Sane(y)
    BY <2>2, <2>5, <2>6 DEF Sane
  <2>8. Needs("byExt", x) /\ Needs("byHandle", y)
    BY <2>2, <2>3, <2>5, <2>6, Constants DEF Needs
  <2>. QED  BY <2>1, <2>6, <2>7, <2>8, Quiet DEF r, x, y
<1>. QED  BY <1>1, <1>2

LEMMA CookieAsks ==
  ASSUME TypeInv, NEW p \in Procs, AskCookie(p)
  PROVE  TypeInv'
<1>1. PICK c \in Calls, s \in DOMAIN sessions :
        LET u == users[sessions[s].user]
            next == IF c.op = "me" THEN "idle" ELSE IF u.ext = None THEN "byHandle" ELSE "byExt"
            r == [c EXCEPT !.ext = u.ext, !.handle = u.handle]
        IN  /\ IF ~Answers(s) THEN Done(p)
               ELSE IF clock - sessions[s].seen > Throttle
                    THEN Goto(p, "slide", [r EXCEPT !.row = s])
                    ELSE Goto(p, next, IF next = "idle" THEN Idle ELSE r)
            /\ sessions' = IF Answers(s) THEN [sessions EXCEPT ![s].used = clock] ELSE sessions
  BY DEF AskCookie
<1>2. UNCHANGED <<users, prefs, stored, memory, world, past>>
  BY DEF AskCookie
<1>. DEFINE u == users[sessions[s].user]
            next == IF c.op = "me" THEN "idle" ELSE IF u.ext = None THEN "byHandle" ELSE "byExt"
            r == [c EXCEPT !.ext = u.ext, !.handle = u.handle]
            t == [r EXCEPT !.row = s]
<1>3. Local(c) /\ Sane(c) /\ c.op \in OnHandlers \cup {"me"}
  BY Asking
<1>4. u \in UserRow /\ s \in Nat /\ sessions[s] \in SessionRow
  BY Rows
<1>5. CASE ~Answers(s)
  BY <1>1, <1>2, <1>5, Stops DEF tables
<1>6. CASE Answers(s)
  <2>. DEFINE row == [sessions[s] EXCEPT !.used = clock]
  <2>1. sessions' = [sessions EXCEPT ![s] = row]
    BY <1>1, <1>6
  <2>2. row \in SessionRow /\ row.user = sessions[s].user /\ row.seen <= clock /\ row.used <= clock
    <3>1. clock \in Nat /\ sessions[s].seen <= clock
      BY DEF TypeInv, Store, SessionsOK
    <3>. QED  BY <1>4, <3>1, UsedRow
  <2>3. \E q, l, x : Goto(q, l, x)
    BY <1>1 DEF Done
  <2>4. Store' /\ Grows
    <3>1. past' \in Past
      BY <1>2 DEF TypeInv, Store
    <3>. HIDE DEF row
    <3>. QED  BY <1>2, <2>1, <2>2, <2>3, <3>1, TouchSession
  <2>5. Local(r) /\ r.op = c.op /\ r.target = c.target /\ r.to = c.to /\ r.handle \in Handles
        /\ r.ext = u.ext
    BY <1>3, <1>4 DEF Local, UserRow
  <2>6. Local(t) /\ t.op = c.op /\ t.target = c.target /\ t.to = c.to /\ t.handle \in Handles
        /\ t.row = s
    <3>. HIDE DEF r
    <3>. QED  BY <1>4, <2>5 DEF Local
  <2>7. Sane(r) /\ Sane(t)
    <3>. HIDE DEF r, t
    <3>. QED  BY <1>3, <2>5, <2>6 DEF Sane
  <2>8. Needs("slide", t) /\ (next # "idle" => Needs(next, r))
    <3>. HIDE DEF r, t, u
    <3>. QED  BY <1>3, <2>5, <2>6, Constants DEF Needs
  <2>9. \/ Goto(p, "slide", t) \/ (next # "idle" /\ Goto(p, next, r)) \/ Goto(p, "idle", Idle)
    BY <1>1, <1>6
  <2>. HIDE DEF r, t, next
  <2>. QED  BY <2>4, <2>5, <2>6, <2>7, <2>8, <2>9, IdleFits, Advance
<1>. QED  BY <1>5, <1>6

LEMMA Slides ==
  ASSUME TypeInv, NEW p \in Procs, Slide(p)
  PROVE  TypeInv'
<1>. DEFINE s == loc[p].row
            next == IF loc[p].op = "me" THEN "idle"
                    ELSE IF loc[p].ext = None THEN "byHandle" ELSE "byExt"
            r == [loc[p] EXCEPT !.row = None]
            row == [sessions[s] EXCEPT !.seen = clock, !.expires = clock + Ttl]
<1>1. /\ pc[p] = "slide" /\ Goto(p, next, IF next = "idle" THEN Idle ELSE r)
      /\ sessions' = [sessions EXCEPT ![s].seen = clock, ![s].expires = clock + Ttl]
      /\ past' = [past EXCEPT !.unslid = @ \ {s}]
      /\ UNCHANGED <<users, prefs, stored, memory, world>>
  BY DEF Slide, At
<1>2. Local(loc[p]) /\ Sane(loc[p]) /\ Needs("slide", loc[p])
  BY <1>1 DEF TypeInv, Fits
<1>3. s \in DOMAIN sessions /\ sessions[s] \in SessionRow /\ clock \in Nat
      /\ sessions[s].used <= clock
  BY <1>2, Rows DEF Needs, TypeInv, Store, SessionsOK
<1>4. row \in SessionRow /\ row.user = sessions[s].user /\ row.seen <= clock /\ row.used <= clock
  <2>1. clock + Ttl \in Nat
    BY <1>3, Constants
  <2>2. PICK x : x = sessions[s]
    OBVIOUS
  <2>3. /\ row \in SessionRow /\ row.user = x.user
        /\ row.seen = clock /\ row.used = x.used
    <3>1. PICK till \in Nat : till = clock + Ttl
      BY <2>1
    <3>2. x \in SessionRow /\ clock \in Nat
      BY <1>3, <2>2
    <3>3. [x EXCEPT !.seen = clock, !.expires = till] \in SessionRow
      BY <3>2 DEF SessionRow
    <3>4. row = [x EXCEPT !.seen = clock, !.expires = till]
      BY <2>2, <3>1
    <3>. QED  BY <3>2, <3>3, <3>4 DEF SessionRow
  <2>. HIDE DEF row, s
  <2>. QED  BY <1>3, <2>2, <2>3
<1>5. sessions' = [sessions EXCEPT ![s] = row]
  BY <1>1, <1>3 DEF SessionRow
<1>6. past' \in Past
  BY <1>1 DEF TypeInv, Store, Past
<1>7. Store' /\ Grows
  <2>. HIDE DEF row, r, next, s
  <2>. QED  BY <1>1, <1>3, <1>4, <1>5, <1>6, TouchSession
<1>8. Local(r) /\ r.op = loc[p].op /\ r.target = loc[p].target /\ r.to = loc[p].to
      /\ r.handle = loc[p].handle /\ r.ext = loc[p].ext
  BY <1>2 DEF Local
<1>9. Sane(r) /\ (next # "idle" => Needs(next, r))
  <2>. HIDE DEF r
  <2>. QED  BY <1>2, <1>8, Constants DEF Sane, Needs
<1>10. \/ next # "idle" /\ Goto(p, next, r)
       \/ Goto(p, "idle", Idle)
  BY <1>1
<1>. HIDE DEF r, next
<1>. QED  BY <1>7, <1>8, <1>9, <1>10, IdleFits, Advance

LEMMA Logins ==
  ASSUME TypeInv, NEW p \in Procs, Authorize(p) \/ Callback(p)
  PROVE  TypeInv'
<1>1. CASE Authorize(p)
  <2>1. /\ mix.mode = "oidc" /\ txs' \subseteq [who : Subs, till : Nat]
        /\ UNCHANGED <<tables, cache, world, pc, loc, past>>
    BY <1>1, Constants DEF Authorize, TypeInv, Store, WorldOK, SessionsOK
  <2>2. Store' /\ Grows
    BY <2>1 DEF TypeInv, Store, UsersOK, SessionsOK, SettingsOK, WorldOK, Past, tables, world, Grows
  <2>3. Fits(p)'
    BY <2>1 DEF TypeInv, Fits, Local, Sane, Needs, tables
  <2>. QED  BY <2>1, <2>2, <2>3, OneStep DEF Others
<1>2. CASE Callback(p)
  <2>1. PICK tx \in txs :
          /\ txs' = txs \ {tx} /\ UNCHANGED <<tables, cache, world, past>>
          /\ IF tx.till < clock THEN Done(p)
             ELSE Goto(p, "byExt", [Idle EXCEPT !.op = "callback", !.ext = tx.who,
                                       !.handle = idp[tx.who].now, !.boss = tx.who \in Bosses])
    BY <1>2 DEF Callback
  <2>. DEFINE boss == tx.who \in Bosses
              r == [Idle EXCEPT !.op = "callback", !.ext = tx.who,
                                !.handle = idp[tx.who].now, !.boss = boss]
  <2>2. tx.who \in Subs /\ tx.who # None /\ idp[tx.who].now \in Handles
    BY Constants DEF TypeInv, Store, WorldOK
  <2>3. Local(r) /\ r.op = "callback" /\ r.handle \in Handles /\ r.ext # None
    <3>1. boss \in BOOLEAN
      OBVIOUS
    <3>. HIDE DEF boss
    <3>2. r \in [op : {"callback"}, ext : {tx.who}, who : {None}, handle : {idp[tx.who].now}, boss : BOOLEAN,
                row : {None}, fix : {{}}, role : {None}, on : BOOLEAN, era : {0}, me : {None},
                target : {None}, to : {None}, n : {None}, base : {None}]
      BY <3>1 DEF Idle
    <3>3. r.op = "callback" /\ r.handle = idp[tx.who].now /\ r.ext = tx.who
      BY DEF Idle
    <3>. HIDE DEF r
    <3>4. Local(r)
      BY <2>2, <3>2, <3>3 DEF Local
    <3>. QED  BY <2>2, <3>3, <3>4
  <2>4. Sane(r) /\ Needs("byExt", r)
    <3>. HIDE DEF r
    <3>. QED  BY <2>3 DEF Sane, Needs, OnUser
  <2>5. Store' /\ Grows
    BY <2>1 DEF Done, Goto, TypeInv, Store, UsersOK, SessionsOK, SettingsOK, WorldOK, Past,
       tables, world, Grows
  <2>6. Goto(p, "byExt", r) \/ Goto(p, "idle", Idle)
    BY <2>1 DEF Done
  <2>. HIDE DEF r
  <2>. QED  BY <2>3, <2>4, <2>5, <2>6, IdleFits, Advance
<1>. QED  BY <1>1, <1>2

\* Where a request goes once its row is known.
LEMMA ResolvedFits ==
  ASSUME NEW p, NEW r, Resolved(p, r), Local(r), Sane(r), r.op \in OnHandlers \cup {"callback"},
         r.row \in DOMAIN users, r.handle \in Handles
  PROVE  \E l, x : Goto(p, l, x) /\ Local(x) /\ Sane(x) /\ Needs(l, x)
<1>1. CASE Done(p)
  BY <1>1, IdleFits DEF Done
<1>2. CASE ~Done(p)
  <2>1. PICK l \in {"mint", "ensure"} : Goto(p, l, r) /\ (l = "mint" <=> r.op = "callback")
    BY <1>2 DEF Resolved
  <2>2. Needs(l, r)
    BY <2>1 DEF Needs
  <2>. QED  BY <2>1, <2>2
<1>. QED  BY <1>1, <1>2
\* A row was found: taken as it is, or patched.
LEMMA FoundFits ==
  ASSUME TypeInv, NEW p \in Procs, NEW u \in DOMAIN users, Found(p, u),
         pc[p] = "byExt" \/ (pc[p] = "byHandle" /\ users[u].handle = loc[p].handle),
         UNCHANGED <<tables, memory, world, past>>
  PROVE  TypeInv'
<1>. DEFINE row == users[u]
            fix == {c \in {"ext", "handle"} : /\ row[c] # loc[p][c]
                                              /\ c = "ext" => loc[p].ext # None}
            r == [loc[p] EXCEPT !.row = u, !.fix = fix, !.role = row.role, !.on = row.on,
                                !.era = row.era]
<1>1. IF fix = {} THEN Resolved(p, r) ELSE Goto(p, "patch", r)
  BY DEF Found
<1>2. Local(loc[p]) /\ Sane(loc[p]) /\ Needs(pc[p], loc[p])
  BY DEF TypeInv, Fits
<1>3. row \in UserRow /\ u \in Nat
  BY Rows
<1>4. fix \subseteq {"ext", "handle"}
  OBVIOUS
<1>5. fix # {} => loc[p].ext # None
  BY <1>2 DEF Needs
<1>6. Local(r) /\ r.op = loc[p].op /\ r.target = loc[p].target /\ r.to = loc[p].to
      /\ r.handle = loc[p].handle /\ r.ext = loc[p].ext /\ r.row = u
  <2>1. Local(r)
    <3>. HIDE DEF fix, row
    <3>. QED  BY <1>2, <1>3, <1>4 DEF Local, UserRow
  <2>. QED  BY <1>2, <2>1 DEF Local
<1>7. r.op \in OnHandlers \cup {"callback"} /\ r.handle \in Handles
  <2>. HIDE DEF r
  <2>. QED  BY <1>2, <1>6 DEF Needs
<1>8. Sane(r) /\ (fix # {} => Needs("patch", r))
  <2>. HIDE DEF r, fix
  <2>. QED  BY <1>2, <1>5, <1>6, <1>7 DEF Sane, Needs
<1>. HIDE DEF r, fix
<1>9. \E l, x : Goto(p, l, x) /\ Local(x) /\ Sane(x) /\ Needs(l, x)
  BY <1>1, <1>6, <1>7, <1>8, ResolvedFits
<1>. QED  BY <1>9, Quiet

LEMMA Selects ==
  ASSUME TypeInv, NEW p \in Procs, SelectByExt(p) \/ SelectByHandle(p)
  PROVE  TypeInv'
<1>0. Local(loc[p]) /\ Sane(loc[p]) /\ Needs(pc[p], loc[p])
  BY DEF TypeInv, Fits
<1>1. CASE SelectByExt(p)
  <2>1. pc[p] = "byExt" /\ UNCHANGED <<tables, memory, world, past>>
    BY <1>1 DEF SelectByExt, At
  <2>2. CASE ByExt(loc[p].ext) = {}
    <3>1. Goto(p, "byHandle", loc[p])
      BY <1>1, <2>2 DEF SelectByExt
    <3>2. Needs("byHandle", loc[p])
      BY <1>0, <2>1 DEF Needs
    <3>. QED  BY <1>0, <2>1, <3>1, <3>2, Quiet
  <2>3. CASE ByExt(loc[p].ext) # {}
    <3>1. The(ByExt(loc[p].ext)) \in DOMAIN users /\ Found(p, The(ByExt(loc[p].ext)))
      BY <1>1, <2>3 DEF SelectByExt, The, ByExt
    <3>. QED  BY <2>1, <3>1, FoundFits
  <2>. QED  BY <2>2, <2>3
<1>2. CASE SelectByHandle(p)
  <2>1. pc[p] = "byHandle" /\ UNCHANGED <<tables, memory, world, past>>
    BY <1>2 DEF SelectByHandle, At
  <2>2. CASE ByHandle(loc[p].handle) = {}
    <3>1. Goto(p, "create", loc[p])
      BY <1>2, <2>2 DEF SelectByHandle
    <3>2. Needs("create", loc[p])
      BY <1>0, <2>1 DEF Needs
    <3>. QED  BY <1>0, <2>1, <3>1, <3>2, Quiet
  <2>3. CASE ByHandle(loc[p].handle) # {}
    <3>1. /\ The(ByHandle(loc[p].handle)) \in DOMAIN users
          /\ users[The(ByHandle(loc[p].handle))].handle = loc[p].handle
          /\ Found(p, The(ByHandle(loc[p].handle)))
      BY <1>2, <2>3 DEF SelectByHandle, The, ByHandle
    <3>. QED  BY <2>1, <3>1, FoundFits
  <2>. QED  BY <2>2, <2>3
<1>. QED  BY <1>1, <1>2

\* Tables that a step on users leaves alone.
LEMMA OnlyUsers ==
  ASSUME TypeInv, UsersOK', DOMAIN users \subseteq DOMAIN users', past' \in Past,
         UNCHANGED <<sessions, prefs, stored, memory, world>>,
         DOMAIN pc' = Procs, DOMAIN loc' = Procs
  PROVE  Store' /\ Grows
<1>1. SessionsOK' /\ SettingsOK' /\ WorldOK'
  BY DEF TypeInv, Store, SessionsOK, SettingsOK, WorldOK, memory, world
<1>2. past' \in Past'
  BY DEF Past
<1>. QED  BY <1>1, <1>2 DEF Store, Grows

\* A row of users that is written keeps the columns unique, or throws.
LEMMA TouchUser ==
  ASSUME TypeInv, NEW u \in DOMAIN users, NEW row \in UserRow,
         ~Taken(u, row.ext, row.handle), users' = [users EXCEPT ![u] = row]
  PROVE  UsersOK' /\ DOMAIN users' = DOMAIN users
<1>1. users \in Seq(UserRow)
  BY DEF TypeInv, Store, UsersOK
<1>2. users' \in Seq(UserRow) /\ DOMAIN users' = DOMAIN users
  <2>. HIDE DEF TypeInv
  <2>. QED  BY <1>1, ExceptSeq
<1>3. \A v \in DOMAIN users : users'[v] = IF v = u THEN row ELSE users[v]
  BY <1>1
<1>4. \A v \in DOMAIN users \ {u} :
        /\ users[v].handle # row.handle
        /\ row.ext # None => users[v].ext # row.ext
  BY DEF Taken
<1>. QED  BY <1>2, <1>3, <1>4 DEF TypeInv, Store, UsersOK

LEMMA AddUser ==
  ASSUME TypeInv, NEW row \in UserRow, ~Taken(0, row.ext, row.handle), users' = Append(users, row)
  PROVE  /\ UsersOK' /\ DOMAIN users' = DOMAIN users \cup {Len(users) + 1}
         /\ users'[Len(users) + 1] = row
         /\ Len(users) + 1 \in Nat \ DOMAIN users
         /\ \A v \in DOMAIN users : users'[v] = users[v]
<1>1. users \in Seq(UserRow) /\ Len(users) \in Nat /\ DOMAIN users = 1..Len(users)
  BY Rows DEF TypeInv, Store, UsersOK
<1>2. /\ users' \in Seq(UserRow) /\ Len(users') = Len(users) + 1
      /\ DOMAIN users' = 1..(Len(users) + 1)
      /\ \A v \in 1..Len(users) : users'[v] = users[v]
      /\ users'[Len(users) + 1] = row
  <2>. HIDE DEF TypeInv
  <2>. QED  BY <1>1, AppendProperties, LenProperties
<1>3. DOMAIN users' = DOMAIN users \cup {Len(users) + 1} /\ Len(users) + 1 \in Nat \ DOMAIN users
  BY <1>1, <1>2
<1>4. \A v \in DOMAIN users :
        /\ users[v].handle # row.handle
        /\ row.ext # None => users[v].ext # row.ext
  BY <1>1 DEF Taken
<1>5. \A v \in DOMAIN users : users'[v] = users[v]
  BY <1>1, <1>2
<1>6. UsersOK'
  BY <1>2, <1>3, <1>4, <1>5 DEF TypeInv, Store, UsersOK
<1>. QED  BY <1>2, <1>3, <1>5, <1>6

\* What a patch writes.
Patched(p) ==
  [users[loc[p].row] EXCEPT !.ext = IF "ext" \in loc[p].fix THEN loc[p].ext ELSE @,
                            !.handle = IF "handle" \in loc[p].fix THEN loc[p].handle ELSE @]
Owned(row) == [row EXCEPT !.own = IF @ = None THEN row.ext ELSE @]

LEMMA PatchRow ==
  ASSUME TypeInv, NEW p \in Procs, pc[p] = "patch"
  PROVE  LET old == users[loc[p].row]
             new == Owned(Patched(p))
         IN  /\ loc[p].row \in DOMAIN users /\ new \in UserRow
             /\ new.ext = Patched(p).ext /\ new.handle = Patched(p).handle
             /\ new.ext = IF "ext" \in loc[p].fix THEN loc[p].ext ELSE old.ext
             /\ new.handle = IF "handle" \in loc[p].fix THEN loc[p].handle ELSE old.handle
             /\ new.own = IF old.own = None THEN new.ext ELSE old.own
             /\ new.by = old.by /\ new.role = old.role /\ new.on = old.on /\ new.era = old.era
<1>1. Local(loc[p]) /\ loc[p].row \in DOMAIN users /\ loc[p].handle \in Handles
  BY DEF TypeInv, Fits, Needs
<1>2. users[loc[p].row] \in UserRow
  BY <1>1, Rows
<1>3. Patched(p) \in UserRow /\ Patched(p).own = users[loc[p].row].own
  BY ZenonT(60), <1>1, <1>2 DEF Patched, UserRow, Local
<1>4. /\ Patched(p).ext = IF "ext" \in loc[p].fix THEN loc[p].ext ELSE users[loc[p].row].ext
      /\ Patched(p).handle = IF "handle" \in loc[p].fix THEN loc[p].handle ELSE users[loc[p].row].handle
      /\ Patched(p).by = users[loc[p].row].by /\ Patched(p).role = users[loc[p].row].role
      /\ Patched(p).on = users[loc[p].row].on /\ Patched(p).era = users[loc[p].row].era
  BY <1>2 DEF Patched, UserRow
<1>5. \A row \in UserRow :
         /\ Owned(row) \in UserRow /\ Owned(row).ext = row.ext /\ Owned(row).handle = row.handle
         /\ Owned(row).own = IF row.own = None THEN row.ext ELSE row.own
         /\ Owned(row).by = row.by /\ Owned(row).role = row.role
         /\ Owned(row).on = row.on /\ Owned(row).era = row.era
  BY DEF Owned, UserRow
<1>. QED  BY <1>1, <1>3, <1>4, <1>5

LEMMA PatchIs ==
  ASSUME NEW p \in Procs, Patch(p)
  PROVE  LET u == loc[p].row
             old == users[u]
             new == Patched(p)
             inUse == \E q \in Procs \ {p} : pc[q] # "idle" /\ loc[q].handle = old.handle
         IN  /\ pc[p] = "patch" /\ UNCHANGED <<sessions, prefs, stored, memory, world>>
             /\ \/ Taken(u, new.ext, new.handle) /\ Done(p) /\ UNCHANGED <<users, past>>
                \/ /\ ~Taken(u, new.ext, new.handle)
                   /\ users' = [users EXCEPT ![u] = Owned(new)]
                   /\ past' = IF new.handle # old.handle /\ inUse
                              THEN [past EXCEPT !.crossed = @ \cup {old.handle}] ELSE past
                   /\ Resolved(p, loc[p])
BY DEF Patch, At, Patched, Owned

LEMMA Patches ==
  ASSUME TypeInv, NEW p \in Procs, Patch(p)
  PROVE  TypeInv'
<1>. DEFINE u == loc[p].row
            new == Patched(p)
<1>0. Local(loc[p]) /\ Sane(loc[p]) /\ Needs("patch", loc[p]) /\ pc[p] = "patch"
  BY PatchIs DEF TypeInv, Fits
<1>1. CASE Taken(u, new.ext, new.handle) /\ Done(p) /\ UNCHANGED <<users, past>>
  BY <1>1, PatchIs, Stops DEF tables
<1>2. CASE /\ ~Taken(u, new.ext, new.handle)
           /\ users' = [users EXCEPT ![u] = Owned(new)]
           /\ \/ past' = [past EXCEPT !.crossed = @ \cup {users[u].handle}]
              \/ past' = past
           /\ Resolved(p, loc[p])
  <2>1. /\ u \in DOMAIN users /\ Owned(new) \in UserRow
        /\ Owned(new).ext = new.ext /\ Owned(new).handle = new.handle
    BY <1>0, PatchRow
  <2>2. UsersOK' /\ DOMAIN users' = DOMAIN users
    <3>. HIDE DEF new, u
    <3>. QED  BY <1>2, <2>1, TouchUser
  <2>3. past' \in Past
    <3>1. users[u].handle \in Handles
      BY <2>1, Rows DEF UserRow
    <3>. HIDE DEF u
    <3>. QED  BY <1>2, <3>1 DEF TypeInv, Store, Past
  <2>4. PICK l, x : Goto(p, l, x) /\ Local(x) /\ Sane(x) /\ Needs(l, x)
    BY <1>0, <1>2, <2>1, ResolvedFits DEF Needs
  <2>5. Store' /\ Grows
    BY <2>2, <2>3, <2>4, PatchIs, OnlyUsers DEF Goto, TypeInv, Store, WorldOK
  <2>. QED  BY <2>4, <2>5, Advance
<1>. QED  BY <1>1, <1>2, PatchIs

LEMMA NewRow ==
  ASSUME NEW h \in Handles, NEW e \in Subs \cup {None}, NEW role \in {"admin", "user"},
         NEW w \in Passwords \cup {None}, NEW by \in {"seam", "handler", "admin"}
  PROVE  LET row == NewUser(h, e, role, w, by)
         IN  /\ row \in UserRow /\ row.ext = e /\ row.handle = h /\ row.role = role /\ row.on
             /\ row.era = 0 /\ row.by = by /\ row.own = e
BY DEF NewUser, UserRow

\* One of the seam, which has no password.
LEMMA SeamRow ==
  ASSUME NEW r, Local(r), r.handle \in Handles, NEW role \in {"admin", "user"}
  PROVE  LET row == Made(r, role)
         IN  /\ row \in UserRow /\ row.ext = r.ext /\ row.handle = r.handle /\ row.role = role
             /\ row.on /\ row.era = 0 /\ row.by = "seam"
             /\ row.own = IF r.ext = None THEN r.who ELSE r.ext
<1>1. None \in Passwords \cup {None} /\ r.ext \in Subs \cup {None} /\ r.who \in Subs \cup {None}
  BY DEF Local
<1>2. PICK h, e, w : h = r.handle /\ e = r.ext /\ w = r.who
  OBVIOUS
<1>. DEFINE bare == NewUser(h, e, role, None, "seam")
<1>3. /\ bare \in UserRow /\ bare.ext = e /\ bare.handle = h /\ bare.role = role /\ bare.on
      /\ bare.era = 0 /\ bare.by = "seam" /\ bare.own = e
  BY <1>1, <1>2 DEF NewUser, UserRow
<1>. HIDE DEF bare
<1>4. Made(r, role) = [bare EXCEPT !.own = IF bare.own = None THEN w ELSE bare.own]
  BY <1>2 DEF Made, bare
<1>. QED  BY <1>1, <1>2, <1>3, <1>4 DEF UserRow

\* One without a person, which has no password yet or one that is known.
LEMMA BareRow ==
  ASSUME NEW h \in Handles, NEW role \in {"admin", "user"}, NEW w, w = None \/ w \in Passwords,
         NEW by \in {"seam", "handler", "admin"}
  PROVE  LET row == NewUser(h, None, role, w, by)
         IN  /\ row \in UserRow /\ row.ext = None /\ row.handle = h /\ row.role = role /\ row.on
             /\ row.era = 0 /\ row.by = by /\ row.own = None
<1>1. w \in Passwords \cup {None} /\ None \in Subs \cup {None}
  OBVIOUS
<1>. QED  BY <1>1, NewRow

LEMMA Creates ==
  ASSUME TypeInv, NEW p \in Procs, Create(p)
  PROVE  TypeInv'
<1>. DEFINE role == Role(loc[p].handle, loc[p].boss)
            row == Made(loc[p], role)
            r == [loc[p] EXCEPT !.row = Len(users) + 1, !.role = role]
<1>1. pc[p] = "create" /\ UNCHANGED <<sessions, prefs, stored, memory, world, past>>
  BY DEF Create, At
<1>2. Local(loc[p]) /\ Sane(loc[p]) /\ Needs("create", loc[p])
  BY <1>1 DEF TypeInv, Fits
<1>3. CASE Taken(0, loc[p].ext, loc[p].handle)
  BY <1>1, <1>3, Stops DEF Create, tables
<1>4. CASE ~Taken(0, loc[p].ext, loc[p].handle)
  <2>1. users' = Append(users, row) /\ Resolved(p, r)
    BY <1>4 DEF Create
  <2>2. role \in {"admin", "user"} /\ loc[p].handle \in Handles /\ loc[p].ext \in Subs \cup {None}
    BY <1>2 DEF Role, OwnerRole, Needs, Local
  <2>3. row \in UserRow /\ row.ext = loc[p].ext /\ row.handle = loc[p].handle
    <3>. HIDE DEF role
    <3>. QED  BY <1>2, <2>2, SeamRow
  <2>4. /\ UsersOK' /\ DOMAIN users' = DOMAIN users \cup {Len(users) + 1}
        /\ Len(users) + 1 \in Nat
    <3>. HIDE DEF row
    <3>. QED  BY <1>4, <2>1, <2>3, AddUser
  <2>5. Local(r) /\ r.op = loc[p].op /\ r.target = loc[p].target /\ r.to = loc[p].to
        /\ r.handle = loc[p].handle /\ r.ext = loc[p].ext /\ r.row = Len(users) + 1
    <3>. HIDE DEF role
    <3>. QED  BY <1>2, <2>2, <2>4 DEF Local
  <2>6. Sane(r)
    <3>. HIDE DEF r
    <3>. QED  BY <1>2, <2>5 DEF Sane
  <2>7. DOMAIN pc = Procs /\ DOMAIN loc = Procs
    BY DEF TypeInv, Store, WorldOK
  <2>. HIDE DEF r
  <2>8. Store' /\ Grows
    BY <1>1, <2>1, <2>4, <2>7, OnlyUsers DEF Resolved, Done, Goto, TypeInv, Store
  <2>9. CASE Done(p)
    BY <2>8, <2>9, Ends
  <2>10. CASE ~Done(p)
    <3>1. PICK l \in {"mint", "ensure"} : Goto(p, l, r) /\ (l = "mint" <=> r.op = "callback")
      BY <2>1, <2>10 DEF Resolved
    <3>2. pc'[p] = l /\ loc'[p] = r /\ Others(p)
      BY <2>7, <3>1 DEF Goto, Others
    <3>3. Local(loc[p])'
      BY <2>5, <3>2 DEF Local
    <3>4. Sane(loc[p])'
      BY <2>6, <2>8, <3>2 DEF Sane, Grows
    <3>5. Needs(pc[p], loc[p])'
      BY <1>2, <2>4, <2>5, <3>1, <3>2 DEF Needs
    <3>. QED  BY <2>8, <3>2, <3>3, <3>4, <3>5, OneStep DEF Fits
  <2>. QED  BY <2>9, <2>10
<1>. QED  BY <1>3, <1>4

\* Where the request goes once its user is there.
LEMMA EntryFits ==
  ASSUME NEW r, Needs("ensure", r)
  PROVE  \A x : x.op = r.op /\ x.me \in DOMAIN users => Needs(Entry(r.op), x)
<1>1. r.op \in OnHandlers
  BY DEF Needs
<1>2. Entry(r.op) = IF r.op \in {"prefsGet", "prefsSet"} THEN "prefs"
                    ELSE IF r.op = "global" THEN "global" ELSE "isAdmin"
  BY <1>1 DEF Entry, OnHandlers, AdminOps
<1>3. Entry(r.op) = "isAdmin" => r.op \in AdminOps
  BY <1>1, <1>2 DEF OnHandlers
<1>. QED  BY <1>2, <1>3 DEF Needs

LEMMA Ensures ==
  ASSUME TypeInv, NEW p \in Procs, Ensure(p)
  PROVE  TypeInv'
<1>1. pc[p] = "ensure" /\ UNCHANGED <<tables, memory, world, past>>
  BY DEF Ensure, At
<1>2. Local(loc[p]) /\ Sane(loc[p]) /\ Needs("ensure", loc[p])
  BY <1>1 DEF TypeInv, Fits
<1>3. CASE ByHandle(loc[p].handle) = {}
  <2>1. Goto(p, "ensureInsert", loc[p])
    BY <1>3 DEF Ensure
  <2>2. Needs("ensureInsert", loc[p])
    BY <1>2 DEF Needs
  <2>. QED  BY <1>1, <1>2, <2>1, <2>2, Quiet
<1>4. CASE ByHandle(loc[p].handle) # {}
  <2>. DEFINE me == The(ByHandle(loc[p].handle))
              r == [loc[p] EXCEPT !.me = me]
  <2>1. Goto(p, Entry(loc[p].op), r)
    BY <1>4 DEF Ensure
  <2>2. me \in DOMAIN users /\ me \in Nat
    <3>1. me \in DOMAIN users
      BY <1>4 DEF The, ByHandle
    <3>. HIDE DEF me
    <3>. QED  BY <3>1, Rows
  <2>3. Local(r) /\ r.op = loc[p].op /\ r.target = loc[p].target /\ r.to = loc[p].to /\ r.me = me
    <3>. HIDE DEF me
    <3>. QED  BY <1>2, <2>2 DEF Local
  <2>4. Sane(r) /\ Needs(Entry(loc[p].op), r)
    <3>. HIDE DEF r, me
    <3>1. Sane(r)
      BY <1>2, <2>3 DEF Sane
    <3>. QED  BY <1>2, <2>2, <2>3, <3>1, EntryFits
  <2>. HIDE DEF r
  <2>. QED  BY <1>1, <2>1, <2>3, <2>4, Quiet
<1>. QED  BY <1>3, <1>4

LEMMA EnsureInserts ==
  ASSUME TypeInv, NEW p \in Procs, EnsureInsert(p)
  PROVE  TypeInv'
<1>. DEFINE h == loc[p].handle
            S == ByHandle(h)
            row == NewUser(h, None, OwnerRole(h), None, "handler")
            me == IF S = {} THEN Len(users) + 1 ELSE The(S)
            r == [loc[p] EXCEPT !.me = me]
<1>1. pc[p] = "ensureInsert" /\ UNCHANGED <<sessions, prefs, stored, memory, world, past>>
      /\ Goto(p, Entry(loc[p].op), r)
      /\ users' = IF S = {} THEN Append(users, row) ELSE users
  BY DEF EnsureInsert, At
<1>2. Local(loc[p]) /\ Sane(loc[p]) /\ Needs("ensureInsert", loc[p]) /\ h \in Handles
  BY <1>1 DEF TypeInv, Fits, Needs
<1>3. row \in UserRow /\ row.ext = None /\ row.handle = h
  <2>1. OwnerRole(h) \in {"admin", "user"}
    BY DEF OwnerRole
  <2>. QED  BY <1>2, <2>1, BareRow
<1>4. UsersOK' /\ DOMAIN users \subseteq DOMAIN users' /\ me \in DOMAIN users' /\ me \in Nat
  <2>1. CASE S = {}
    <3>1. ~Taken(0, None, h)
      BY <2>1 DEF Taken, ByHandle
    <3>. HIDE DEF row
    <3>. QED  BY <1>1, <1>3, <2>1, <3>1, AddUser
  <2>2. CASE S # {}
    <3>1. users' = users /\ me \in DOMAIN users
      BY <1>1, <2>2 DEF The, ByHandle
    <3>. HIDE DEF me
    <3>. QED  BY <3>1, Rows DEF TypeInv, Store, UsersOK
  <2>. QED  BY <2>1, <2>2
<1>5. DOMAIN pc = Procs /\ DOMAIN loc = Procs
  BY DEF TypeInv, Store, WorldOK
<1>6. Local(r) /\ r.op = loc[p].op /\ r.target = loc[p].target /\ r.to = loc[p].to /\ r.me = me
  <2>. HIDE DEF me
  <2>. QED  BY <1>2, <1>4 DEF Local
<1>. HIDE DEF r, me
<1>7. Store' /\ Grows
  BY <1>1, <1>4, <1>5, OnlyUsers DEF Goto, TypeInv, Store
<1>8. pc'[p] = Entry(loc[p].op) /\ loc'[p] = r /\ Others(p)
  BY <1>1, <1>5 DEF Goto, Others
<1>9. Local(loc[p])'
  BY <1>6, <1>8 DEF Local
<1>10. Sane(loc[p])'
  BY <1>2, <1>6, <1>7, <1>8 DEF Sane, Grows
<1>11. Needs(pc[p], loc[p])'
  <2>1. loc[p].op \in OnHandlers
    BY <1>2 DEF Needs
  <2>2. Entry(loc[p].op) = IF loc[p].op \in {"prefsGet", "prefsSet"} THEN "prefs"
                           ELSE IF loc[p].op = "global" THEN "global" ELSE "isAdmin"
    BY <2>1 DEF Entry, OnHandlers, AdminOps
  <2>3. Entry(loc[p].op) = "isAdmin" => loc[p].op \in AdminOps
    BY <2>1, <2>2 DEF OnHandlers
  <2>. QED  BY <1>4, <1>6, <1>8, <2>2, <2>3 DEF Needs
<1>. QED  BY <1>7, <1>8, <1>9, <1>10, <1>11, OneStep DEF Fits

LEMMA IdentityStepsKeep ==
  ASSUME TypeInv, NEW p \in Procs, IdentitySteps(p)
  PROVE  TypeInv'
BY Asks, CookieAsks, Logins, Slides, Selects, Patches, Creates, Ensures, EnsureInserts
   DEF IdentitySteps

-----------------------------------------------------------------------------
(***************************************************************************)
(* What administrators do.                                                 *)
(***************************************************************************)
\* Enabled administrators.
Seats == {v \in DOMAIN users : users[v].role = "admin" /\ users[v].on}

LEMMA Counts ==
  ASSUME TypeInv, NEW u
  PROVE  /\ OtherAdmins(u) \in Nat
         /\ OtherAdmins(u) = 0 <=> Seats \ {u} = {}
<1>. DEFINE S == {v \in DOMAIN users \ {u} : users[v].role = "admin" /\ users[v].on}
<1>1. IsFiniteSet(S)
  <2>1. DOMAIN users = 1..Len(users) /\ Len(users) \in Int
    BY Rows
  <2>2. S \subseteq 1..Len(users)
    BY <2>1
  <2>. HIDE DEF S
  <2>3. IsFiniteSet(1..Len(users))
    BY <2>1, FS_Interval
  <2>. QED  BY <2>2, <2>3, FS_Subset
<1>2. Cardinality(S) \in Nat /\ (Cardinality(S) = 0 <=> S = {})
  <2>. HIDE DEF S
  <2>. QED  BY <1>1, FS_CardinalityType, FS_EmptySet
<1>3. S = Seats \ {u}
  BY DEF Seats
<1>. QED  BY <1>2, <1>3 DEF OtherAdmins

LEMMA AdminReads ==
  ASSUME TypeInv, NEW p \in Procs,
         IsAdmin(p) \/ LoadUser(p) \/ CountAdmins(p) \/ Sweep(p) \/ Exists(p) \/ Login(p)
  PROVE  TypeInv'
<1>0. Local(loc[p]) /\ Sane(loc[p]) /\ Needs(pc[p], loc[p])
  BY DEF TypeInv, Fits
<1>a. UNCHANGED <<tables, memory, world, past>>
  BY DEF IsAdmin, LoadUser, CountAdmins, Sweep, Exists, Login
<1>1. CASE IsAdmin(p)
  <2>1. pc[p] = "isAdmin" /\ loc[p].op \in AdminOps
    BY <1>0, <1>1 DEF IsAdmin, At, Needs
  <2>2. Done(p) \/ (First(loc[p], loc[p].me) # "idle" /\ Goto(p, First(loc[p], loc[p].me), loc[p]))
    BY <1>1 DEF IsAdmin
  <2>3. First(loc[p], loc[p].me) # "idle" => Needs(First(loc[p], loc[p].me), loc[p])
    <3>1. CASE loc[p].op = "setRole"
      BY <3>1 DEF First, Needs
    <3>2. CASE loc[p].op = "setEnabled"
      BY <3>2 DEF First, Needs
    <3>3. CASE loc[p].op \in {"createUser", "resetPassword", "revokeSession"}
      BY <3>3 DEF First, Needs
    <3>4. CASE loc[p].op \in {"revokeUser", "config"}
      BY <3>4 DEF First, Needs
    <3>. QED  BY <2>1, <3>1, <3>2, <3>3, <3>4 DEF AdminOps
  <2>. QED  BY <1>0, <1>a, <2>2, <2>3, Stops, Quiet
<1>2. CASE LoadUser(p)
  <2>. DEFINE u == users[loc[p].target]
              r == [loc[p] EXCEPT !.role = u.role, !.on = u.on]
  <2>1. pc[p] = "load" /\ \E l \in {"count", "write"} : Goto(p, l, r)
    BY <1>2 DEF LoadUser, At
  <2>2. u \in UserRow
    BY <1>0, <2>1, Rows DEF Needs, Sane, OnUser
  <2>3. Local(r) /\ r.op = loc[p].op /\ r.target = loc[p].target /\ r.to = loc[p].to
    <3>. HIDE DEF u
    <3>. QED  BY <1>0, <2>2 DEF Local, UserRow
  <2>4. Sane(r) /\ Needs("count", r) /\ Needs("write", r)
    <3>. HIDE DEF r
    <3>. QED  BY <1>0, <2>1, <2>3 DEF Sane, Needs
  <2>. HIDE DEF r
  <2>. QED  BY <1>a, <2>1, <2>3, <2>4, Quiet
<1>3. CASE CountAdmins(p)
  <2>. DEFINE n == OtherAdmins(loc[p].target)
              r == [loc[p] EXCEPT !.n = n]
  <2>1. pc[p] = "count" /\ (Done(p) \/ Goto(p, "write", r))
    BY <1>3 DEF CountAdmins, At
  <2>2. Local(r) /\ r.op = loc[p].op /\ r.target = loc[p].target /\ r.to = loc[p].to
    <3>1. n \in Nat
      BY Counts
    <3>. HIDE DEF n
    <3>. QED  BY <1>0, <3>1 DEF Local
  <2>3. Sane(r) /\ Needs("write", r)
    <3>. HIDE DEF r
    <3>. QED  BY <1>0, <2>1, <2>2 DEF Sane, Needs
  <2>. HIDE DEF r
  <2>. QED  BY <1>a, <2>1, <2>2, <2>3, Stops, Quiet
<1>4. CASE Sweep(p) \/ Exists(p)
  <2>1. Done(p) \/ \E l : Goto(p, l, loc[p]) /\ Needs(l, loc[p])
    <3>1. CASE Sweep(p)
      BY <1>0, <3>1 DEF Sweep, At, Needs
    <3>2. CASE Exists(p)
      BY <1>0, <3>2 DEF Exists, At, Needs
    <3>. QED  BY <1>4, <3>1, <3>2
  <2>. QED  BY <1>0, <1>a, <2>1, Stops, Quiet
<1>5. CASE Login(p)
  <2>1. PICK u \in DOMAIN users :
          Goto(p, "mint", [Idle EXCEPT !.op = "login", !.row = u, !.era = users[u].era])
    BY <1>5 DEF Login
  <2>. DEFINE r == [Idle EXCEPT !.op = "login", !.row = u, !.era = users[u].era]
  <2>2. users[u] \in UserRow /\ u \in Nat
    BY Rows
  <2>3. Local(r) /\ r.op = "login" /\ r.row = u
    BY <2>2 DEF Local, Idle, UserRow
  <2>4. Sane(r) /\ Needs("mint", r)
    <3>. HIDE DEF r
    <3>. QED  BY <2>3 DEF Sane, Needs, OnUser
  <2>. HIDE DEF r
  <2>. QED  BY <1>a, <2>1, <2>3, <2>4, Quiet DEF r
<1>. QED  BY <1>1, <1>2, <1>3, <1>4, <1>5

\* The row an administrator leaves.
LEMMA WriteRow ==
  ASSUME TypeInv, NEW p \in Procs, WriteUser(p)
  PROVE  LET r == loc[p]
             u == users[r.target]
             ends == r.op = "resetPassword" \/ (r.op = "setEnabled" /\ ~r.to)
         IN  /\ pc[p] = "write" /\ r.target \in DOMAIN users
             /\ \E row \in UserRow :
                  /\ users' = [users EXCEPT ![r.target] = row]
                  /\ row.handle = u.handle /\ row.ext = u.ext /\ row.by = u.by /\ row.own = u.own
                  /\ row.era = IF ends THEN u.era + 1 ELSE u.era
                  /\ row.role = IF r.op = "setRole" THEN r.to ELSE u.role
                  /\ row.on = IF r.op = "setEnabled" THEN r.to ELSE u.on
<1>. DEFINE r == loc[p]
            u == users[r.target]
            ends == r.op = "resetPassword" \/ (r.op = "setEnabled" /\ ~r.to)
            mid == CASE r.op = "setRole"       -> [u EXCEPT !.role = r.to]
                     [] r.op = "setEnabled"    -> [u EXCEPT !.on = r.to]
                     [] r.op = "resetPassword" -> [u EXCEPT !.pw = r.to]
            row == [mid EXCEPT !.era = IF ends THEN @ + 1 ELSE @]
<1>1. pc[p] = "write" /\ users' = [users EXCEPT ![r.target] = row]
  BY DEF WriteUser, At
<1>2. Sane(r) /\ Needs("write", r)
  BY <1>1 DEF TypeInv, Fits
<1>3. r.op \in {"setRole", "setEnabled", "resetPassword"} /\ r.target \in DOMAIN users
  BY <1>2 DEF Needs, Sane, OnUser
<1>4. u \in UserRow
  BY <1>3, Rows
<1>5. /\ mid \in UserRow /\ mid.era = u.era
      /\ mid.handle = u.handle /\ mid.ext = u.ext /\ mid.by = u.by /\ mid.own = u.own
      /\ mid.role = IF r.op = "setRole" THEN r.to ELSE u.role
      /\ mid.on = IF r.op = "setEnabled" THEN r.to ELSE u.on
  <2>1. CASE r.op = "setRole"
    <3>1. mid = [u EXCEPT !.role = r.to] /\ r.to \in {"admin", "user"}
      BY <1>2, <2>1 DEF Sane
    <3>. QED  BY <1>4, <2>1, <3>1 DEF UserRow
  <2>2. CASE r.op = "setEnabled"
    <3>1. mid = [u EXCEPT !.on = r.to] /\ r.to \in BOOLEAN
      BY <1>2, <2>2 DEF Sane
    <3>. QED  BY <1>4, <2>2, <3>1 DEF UserRow
  <2>3. CASE r.op = "resetPassword"
    <3>1. mid = [u EXCEPT !.pw = r.to] /\ r.to \in Passwords
      BY <1>2, <2>3 DEF Sane
    <3>. QED  BY <1>4, <2>3, <3>1 DEF UserRow
  <2>. QED  BY <1>3, <2>1, <2>2, <2>3
<1>6. /\ row \in UserRow /\ row.era = IF ends THEN u.era + 1 ELSE u.era
      /\ row.handle = mid.handle /\ row.ext = mid.ext /\ row.by = mid.by /\ row.own = mid.own
      /\ row.role = mid.role /\ row.on = mid.on
  <2>. HIDE DEF mid, ends, u
  <2>. QED  BY <1>5 DEF UserRow
<1>. QED  BY <1>1, <1>3, <1>5, <1>6

LEMMA Writes ==
  ASSUME TypeInv, NEW p \in Procs, WriteUser(p)
  PROVE  TypeInv'
<1>1. PICK row \in UserRow :
        /\ users' = [users EXCEPT ![loc[p].target] = row]
        /\ row.handle = users[loc[p].target].handle /\ row.ext = users[loc[p].target].ext
  BY WriteRow
<1>2. /\ pc[p] = "write" /\ loc[p].target \in DOMAIN users
      /\ UNCHANGED <<sessions, prefs, stored, memory, world>>
  BY WriteRow DEF WriteUser
<1>3. ~Taken(loc[p].target, row.ext, row.handle)
  BY <1>1, <1>2 DEF Taken, TypeInv, Store, UsersOK
<1>4. UsersOK' /\ DOMAIN users' = DOMAIN users
  BY <1>1, <1>2, <1>3, TouchUser
<1>5. past' \in Past
  <2>1. PICK b \in BOOLEAN : past' = [past EXCEPT !.unseated = @ \/ b]
    BY DEF WriteUser
  <2>. QED  BY <2>1 DEF TypeInv, Store, Past
<1>6. Goto(p, "sweep", loc[p]) \/ Done(p)
  BY DEF WriteUser
<1>7. Goto(p, "sweep", loc[p]) => loc[p].op \in {"setEnabled", "resetPassword"} \/ Done(p)
  BY DEF WriteUser
<1>8. Store' /\ Grows
  BY <1>2, <1>4, <1>5, <1>6, OnlyUsers DEF Goto, Done, TypeInv, Store, WorldOK
<1>9. Local(loc[p]) /\ Sane(loc[p])
  BY DEF TypeInv, Fits
<1>10. CASE Done(p)
  BY <1>8, <1>10, Ends
<1>11. CASE ~Done(p)
  <2>1. Needs("sweep", loc[p])
    BY <1>6, <1>7, <1>11 DEF Needs
  <2>. QED  BY <1>6, <1>8, <1>9, <1>11, <2>1, Advance
<1>. QED  BY <1>10, <1>11

\* A revocation keeps the rows.
LEMMA RevokeSessions ==
  ASSUME TypeInv, NEW f, DOMAIN f = DOMAIN sessions,
         \A s \in DOMAIN sessions : f[s] = sessions[s] \/ f[s] = [sessions[s] EXCEPT !.revoked = TRUE],
         f \in Seq(SessionRow), sessions' = f, DOMAIN pc' = Procs, DOMAIN loc' = Procs,
         UNCHANGED <<users, prefs, stored, memory, world, past>>
  PROVE  Store' /\ Grows
<1>1. \A s \in DOMAIN sessions :
        /\ f[s].user = sessions[s].user /\ f[s].seen = sessions[s].seen /\ f[s].used = sessions[s].used
  BY Rows DEF SessionRow
<1>2. SessionsOK'
  BY <1>1 DEF TypeInv, Store, SessionsOK, world
<1>3. UsersOK' /\ SettingsOK' /\ WorldOK'
  BY DEF TypeInv, Store, UsersOK, SettingsOK, WorldOK, memory, world
<1>4. past' \in Past'
  BY DEF TypeInv, Store, Past
<1>. QED  BY <1>2, <1>3, <1>4 DEF Store, Grows

LEMMA Revokes ==
  ASSUME TypeInv, NEW p \in Procs, SweepWrite(p) \/ Revoke(p) \/ Logout(p)
  PROVE  TypeInv'
<1>0. DOMAIN pc = Procs /\ DOMAIN loc = Procs /\ sessions \in Seq(SessionRow)
  BY DEF TypeInv, Store, WorldOK, SessionsOK
<1>1. Local(loc[p]) /\ Sane(loc[p]) /\ Needs(pc[p], loc[p])
  BY DEF TypeInv, Fits
<1>2. DOMAIN sessions = 1..Len(sessions) /\ \A s \in DOMAIN sessions : sessions[s] \in SessionRow
  BY Rows
<1>3. CASE SweepWrite(p)
  <2>. DEFINE f == [s \in DOMAIN sessions |->
                      [sessions[s] EXCEPT !.revoked = @ \/ sessions[s].user = loc[p].target]]
  <2>1. sessions' = f /\ Done(p) /\ UNCHANGED <<users, prefs, stored, memory, world, past>>
    BY <1>3 DEF SweepWrite
  <2>2. \A s \in DOMAIN sessions :
          f[s] = sessions[s] \/ f[s] = [sessions[s] EXCEPT !.revoked = TRUE]
    BY <1>2 DEF SessionRow
  <2>3. f \in Seq(SessionRow)
    <3>1. \A s \in 1..Len(sessions) : f[s] \in SessionRow
      BY <1>2 DEF SessionRow
    <3>2. f = [s \in 1..Len(sessions) |-> f[s]]
      BY <1>2
    <3>. HIDE DEF f
    <3>. QED  BY <3>1, <3>2, Rows, IsASeq
  <2>4. DOMAIN f = DOMAIN sessions
    OBVIOUS
  <2>. HIDE DEF f
  <2>5. Store' /\ Grows
    BY <1>0, <2>1, <2>2, <2>3, <2>4, RevokeSessions DEF Done, Goto
  <2>. QED  BY <2>1, <2>5, Ends
<1>4. ASSUME NEW s \in DOMAIN sessions, sessions' = [sessions EXCEPT ![s].revoked = TRUE],
             DOMAIN pc' = Procs, DOMAIN loc' = Procs,
             UNCHANGED <<users, prefs, stored, memory, world, past>>
      PROVE  Store' /\ Grows
  <2>. DEFINE f == [sessions EXCEPT ![s].revoked = TRUE]
              row == [sessions[s] EXCEPT !.revoked = TRUE]
  <2>1. row \in SessionRow
    BY <1>2 DEF SessionRow
  <2>2. f = [sessions EXCEPT ![s] = row]
    OBVIOUS
  <2>3. f \in Seq(SessionRow) /\ DOMAIN f = DOMAIN sessions
    <3>. HIDE DEF row, f
    <3>. QED  BY <1>0, <2>1, <2>2, ExceptSeq
  <2>4. \A t \in DOMAIN sessions :
          f[t] = sessions[t] \/ f[t] = [sessions[t] EXCEPT !.revoked = TRUE]
    OBVIOUS
  <2>. HIDE DEF f
  <2>. QED  BY <1>4, <2>3, <2>4, RevokeSessions DEF f
<1>5. CASE Revoke(p)
  <2>1. loc[p].target \in DOMAIN sessions
    BY <1>1, <1>5 DEF Revoke, At, Needs, Sane
  <2>2. sessions' = [sessions EXCEPT ![loc[p].target].revoked = TRUE] /\ Done(p)
        /\ UNCHANGED <<users, prefs, stored, memory, world, past>>
    BY <1>5 DEF Revoke
  <2>3. DOMAIN pc' = Procs /\ DOMAIN loc' = Procs
    BY <1>0, <2>2 DEF Done, Goto
  <2>4. Store' /\ Grows
    BY <1>4, <2>1, <2>2, <2>3
  <2>. QED  BY <2>2, <2>4, Ends
<1>6. CASE Logout(p)
  <2>1. PICK s \in DOMAIN sessions : sessions' = [sessions EXCEPT ![s].revoked = TRUE]
    BY <1>6 DEF Logout
  <2>2. UNCHANGED <<users, prefs, stored, memory, world, past, pc, loc>>
    BY <1>6 DEF Logout
  <2>3. Store' /\ Grows
    BY <1>0, <1>4, <2>1, <2>2
  <2>4. Fits(p)'
    <3>1. PICK l, r : l = pc[p] /\ r = loc[p]
      OBVIOUS
    <3>2. (Sane(r) /\ Needs(l, r))'
      BY <1>1, <2>3, <3>1, StillFits
    <3>3. Local(loc[p])'
      BY <1>1, <2>2 DEF Local
    <3>. QED  BY <2>2, <3>1, <3>2, <3>3 DEF Fits
  <2>. QED  BY <2>2, <2>3, <2>4, OneStep DEF Others
<1>. QED  BY <1>3, <1>5, <1>6

LEMMA UserInserts ==
  ASSUME TypeInv, NEW p \in Procs, InsertUser(p)
  PROVE  TypeInv'
<1>1. PICK role \in {"admin", "user"} :
        users' = IF Taken(0, None, loc[p].target) THEN users
                 ELSE Append(users, NewUser(loc[p].target, None, role, loc[p].to, "admin"))
  BY DEF InsertUser
<1>2. pc[p] = "insertUser" /\ Done(p) /\ UNCHANGED <<sessions, prefs, stored, memory, world, past>>
  BY DEF InsertUser, At
<1>3. loc[p].target \in Handles /\ loc[p].to \in Passwords
  BY <1>2 DEF TypeInv, Fits, Needs, Sane
<1>. DEFINE row == NewUser(loc[p].target, None, role, loc[p].to, "admin")
<1>4. row \in UserRow /\ row.ext = None /\ row.handle = loc[p].target
  BY <1>3, BareRow
<1>5. UsersOK' /\ DOMAIN users \subseteq DOMAIN users'
  <2>1. CASE Taken(0, None, loc[p].target)
    BY <1>1, <2>1 DEF TypeInv, Store, UsersOK
  <2>2. CASE ~Taken(0, None, loc[p].target)
    <3>. HIDE DEF row
    <3>. QED  BY <1>1, <1>4, <2>2, AddUser DEF row
  <2>. QED  BY <2>1, <2>2
<1>6. Store' /\ Grows
  BY <1>2, <1>5, OnlyUsers DEF Done, Goto, TypeInv, Store, WorldOK
<1>. QED  BY <1>2, <1>6, Ends

\* The row of a session that is minted.
Minted(p) ==
  [user |-> loc[p].row, revoked |-> FALSE, seen |-> clock, used |-> clock,
   expires |-> clock + Ttl, era |-> loc[p].era]

LEMMA MintRow ==
  ASSUME TypeInv, NEW p \in Procs, Mint(p)
  PROVE  /\ pc[p] = "mint" /\ loc[p].row \in DOMAIN users /\ Minted(p) \in SessionRow
         /\ Len(sessions) + 1 \in Nat \ DOMAIN sessions
         /\ sessions' \in Seq(SessionRow) /\ DOMAIN sessions' = DOMAIN sessions \cup {Len(sessions) + 1}
         /\ sessions'[Len(sessions) + 1] = Minted(p)
         /\ \A s \in DOMAIN sessions : sessions'[s] = sessions[s]
<1>1. pc[p] = "mint" /\ sessions' = Append(sessions, Minted(p))
  BY DEF Mint, At, Minted
<1>2. loc[p].row \in DOMAIN users /\ Local(loc[p])
  BY <1>1 DEF TypeInv, Fits, Needs
<1>3. Minted(p) \in SessionRow
  <2>1. clock \in Nat /\ loc[p].row \in Nat
    BY <1>2, Rows DEF TypeInv, Store, SessionsOK
  <2>. QED  BY <1>2, <2>1, Constants DEF Minted, SessionRow, Local
<1>4. sessions \in Seq(SessionRow) /\ Len(sessions) \in Nat /\ DOMAIN sessions = 1..Len(sessions)
  BY Rows DEF TypeInv, Store, SessionsOK
<1>5. /\ sessions' \in Seq(SessionRow) /\ Len(sessions') = Len(sessions) + 1
      /\ DOMAIN sessions' = 1..(Len(sessions) + 1)
      /\ \A s \in 1..Len(sessions) : sessions'[s] = sessions[s]
      /\ sessions'[Len(sessions) + 1] = Minted(p)
  <2>. HIDE DEF TypeInv
  <2>. QED  BY <1>1, <1>3, <1>4, AppendProperties, LenProperties
<1>. QED  BY <1>1, <1>2, <1>3, <1>4, <1>5

LEMMA Mints ==
  ASSUME TypeInv, NEW p \in Procs, Mint(p)
  PROVE  TypeInv'
<1>1. Done(p) /\ UNCHANGED <<users, prefs, stored, memory, world>>
      /\ past' \in {past, [past EXCEPT !.raced = @ \cup {Len(sessions) + 1}]}
  BY DEF Mint
<1>2. SessionsOK'
  <2>1. clock' \in Nat /\ sessions' \in Seq(SessionRow)
    BY <1>1, MintRow DEF TypeInv, Store, SessionsOK, world
  <2>2. ASSUME NEW s \in DOMAIN sessions'
        PROVE  /\ sessions'[s].user \in DOMAIN users'
               /\ sessions'[s].seen <= clock' /\ sessions'[s].used <= clock'
    <3>1. CASE s \in DOMAIN sessions
      BY <1>1, <3>1, MintRow DEF TypeInv, Store, SessionsOK, world
    <3>2. CASE s = Len(sessions) + 1
      <4>1. Minted(p).user = loc[p].row /\ Minted(p).seen = clock /\ Minted(p).used = clock
        BY DEF Minted
      <4>2. sessions'[s] = Minted(p) /\ loc[p].row \in DOMAIN users
        BY <3>2, MintRow
      <4>. QED  BY <1>1, <4>1, <4>2 DEF TypeInv, Store, SessionsOK, world
    <3>. QED  BY <3>1, <3>2, MintRow
  <2>. QED  BY <2>1, <2>2 DEF SessionsOK
<1>3. UsersOK' /\ SettingsOK' /\ WorldOK'
  BY <1>1 DEF TypeInv, Store, UsersOK, SettingsOK, WorldOK, memory, world, Done, Goto
<1>4. past' \in Past'
  BY <1>1, MintRow DEF TypeInv, Store, Past
<1>5. Grows
  BY <1>1, MintRow DEF Grows
<1>. QED  BY <1>1, <1>2, <1>3, <1>4, <1>5, Ends DEF Store

LEMMA AdminStepsKeep ==
  ASSUME TypeInv, NEW p \in Procs, AdminSteps(p)
  PROVE  TypeInv'
BY AdminReads, Writes, Revokes, UserInserts, Mints DEF AdminSteps

-----------------------------------------------------------------------------
(***************************************************************************)
(* Settings, the clock, the provider and restarts.                         *)
(***************************************************************************)
LEMMA OnlySettings ==
  ASSUME TypeInv, SettingsOK', past' \in Past, UNCHANGED <<users, sessions, txs, world>>,
         DOMAIN pc' = Procs, DOMAIN loc' = Procs
  PROVE  Store' /\ Grows
<1>1. UsersOK' /\ SessionsOK' /\ WorldOK'
  BY DEF TypeInv, Store, UsersOK, SessionsOK, WorldOK, world
<1>2. past' \in Past'
  BY DEF Past
<1>. QED  BY <1>1, <1>2 DEF Store, Grows

LEMMA SettingsStepsKeep ==
  ASSUME TypeInv, NEW p \in Procs, SettingsSteps(p)
  PROVE  TypeInv'
<1>0. Local(loc[p]) /\ Sane(loc[p]) /\ Needs(pc[p], loc[p])
  BY DEF TypeInv, Fits
<1>a. DOMAIN pc = Procs /\ DOMAIN loc = Procs
  BY DEF TypeInv, Store, WorldOK
<1>1. CASE ReadPrefs(p)
  <2>1. pc[p] = "prefs" /\ UNCHANGED <<tables, memory, world, past>>
        /\ (Done(p) \/ \E l \in {"prefsInsert", "prefsWrite"} : Goto(p, l, loc[p]))
    BY <1>1 DEF ReadPrefs, At
  <2>2. Needs("prefsInsert", loc[p]) /\ Needs("prefsWrite", loc[p])
    BY <1>0, <2>1 DEF Needs
  <2>. QED  BY <1>0, <2>1, <2>2, Stops, Quiet
<1>2. CASE InsertPrefs(p)
  <2>1. pc[p] = "prefsInsert" /\ UNCHANGED <<users, sessions, stored, memory, world, past>>
        /\ DOMAIN prefs' \subseteq DOMAIN prefs \cup {loc[p].me}
        /\ (Done(p) \/ Goto(p, "prefsWrite", loc[p]))
    BY <1>2 DEF InsertPrefs, At, Put
  <2>2. Needs("prefsWrite", loc[p]) /\ loc[p].me \in DOMAIN users
    BY <1>0, <2>1 DEF Needs
  <2>3. Store' /\ Grows
    BY <1>a, <2>1, <2>2, OnlySettings DEF TypeInv, Store, SettingsOK, memory, Done, Goto
  <2>. QED  BY <1>0, <2>1, <2>2, <2>3, Ends, Advance
<1>3. CASE WritePrefs(p)
  <2>1. pc[p] = "prefsWrite" /\ UNCHANGED <<users, sessions, stored, memory, world, past>>
        /\ DOMAIN prefs' \subseteq DOMAIN prefs \cup {loc[p].me} /\ Done(p)
    BY <1>3 DEF WritePrefs, At, Put
  <2>2. loc[p].me \in DOMAIN users
    BY <1>0, <2>1 DEF Needs
  <2>3. Store' /\ Grows
    BY <1>a, <2>1, <2>2, OnlySettings DEF TypeInv, Store, SettingsOK, memory, Done, Goto
  <2>. QED  BY <2>1, <2>3, Ends
<1>4. CASE MergeConfig(p)
  <2>. DEFINE r == [loc[p] EXCEPT !.base = stored]
  <2>1. pc[p] = "merge" /\ Goto(p, "upsert", r) /\ UNCHANGED <<tables, memory, world, past>>
    BY <1>4 DEF MergeConfig, At
  <2>2. Local(r) /\ r.op = loc[p].op /\ r.target = loc[p].target /\ r.to = loc[p].to /\ r.base = stored
    BY <1>0 DEF Local
  <2>3. Sane(r) /\ Needs("upsert", r)
    <3>. HIDE DEF r
    <3>. QED  BY <1>0, <2>1, <2>2 DEF Sane, Needs, TypeInv, Store, SettingsOK
  <2>. HIDE DEF r
  <2>. QED  BY <2>1, <2>2, <2>3, Quiet
<1>5. CASE UpsertConfig(p)
  <2>1. /\ pc[p] = "upsert" /\ Goto(p, "reload", loc[p])
        /\ stored' = [loc[p].base EXCEPT ![loc[p].target] = loc[p].to]
        /\ past' = [past EXCEPT !.wanted[loc[p].target] = loc[p].to,
                                !.clashed = @ \/ loc[p].base # stored]
        /\ UNCHANGED <<users, sessions, prefs, memory, world>>
    BY <1>5 DEF UpsertConfig, At
  <2>2. /\ loc[p].target \in Fields /\ loc[p].to \in Values
        /\ loc[p].base \in [Fields -> Values \cup {None}] /\ Needs("reload", loc[p])
    BY <1>0, <2>1 DEF Needs, Sane
  <2>3. past' \in Past
    BY <2>1, <2>2 DEF TypeInv, Store, Past
  <2>4. Store' /\ Grows
    BY <1>a, <2>1, <2>2, <2>3, OnlySettings DEF TypeInv, Store, SettingsOK, memory, Goto
  <2>. QED  BY <1>0, <2>1, <2>2, <2>4, Advance
<1>6. CASE Reload(p)
  <2>1. Done(p) /\ cache' = Layer(stored) /\ past' = [past EXCEPT !.direct = FALSE]
        /\ UNCHANGED <<tables, txs, world>>
    BY <1>6 DEF Reload
  <2>2. Layer(stored) \in [Fields -> Values]
    BY Constants DEF Layer, TypeInv, Store, SettingsOK
  <2>3. past' \in Past
    BY <2>1 DEF TypeInv, Store, Past
  <2>4. Store' /\ Grows
    BY <1>a, <2>1, <2>2, <2>3, OnlySettings DEF TypeInv, Store, SettingsOK, tables, Done, Goto
  <2>. QED  BY <2>1, <2>4, Ends
<1>7. CASE SetGlobal(p)
  <2>1. /\ pc[p] = "global" /\ Done(p)
        /\ stored' = [f \in Fields |-> IF f = loc[p].target THEN loc[p].to ELSE None]
        /\ past' = [past EXCEPT !.wanted = stored', !.direct = TRUE]
        /\ UNCHANGED <<users, sessions, prefs, memory, world>>
    BY <1>7 DEF SetGlobal, At
  <2>2. stored' \in [Fields -> Values \cup {None}]
    BY <1>0, <2>1 DEF Needs, Sane
  <2>3. past' \in Past
    BY <2>1, <2>2 DEF TypeInv, Store, Past
  <2>4. Store' /\ Grows
    BY <1>a, <2>1, <2>2, <2>3, OnlySettings DEF TypeInv, Store, SettingsOK, memory, Done, Goto
  <2>. QED  BY <2>1, <2>4, Ends
<1>. QED  BY <1>1, <1>2, <1>3, <1>4, <1>5, <1>6, <1>7 DEF SettingsSteps
\* The start sets a password that is missing, or makes the owner.
SeededOwner == NewUser(Owner, None, "admin", Initial, "handler")
SameUser(new, old) ==
  /\ new.handle = old.handle /\ new.ext = old.ext /\ new.role = old.role /\ new.on = old.on
  /\ new.era = old.era /\ new.by = old.by /\ new.own = old.own

LEMMA SeedIs ==
  ASSUME NEW us \in Seq(UserRow)
  PROVE  /\ Seeded(us) \in Seq(UserRow)
         /\ DOMAIN us \subseteq DOMAIN Seeded(us)
         /\ \A u \in DOMAIN us : SameUser(Seeded(us)[u], us[u])
         /\ \A u \in DOMAIN Seeded(us) \ DOMAIN us :
              /\ Seeded(us)[u] = SeededOwner /\ DOMAIN Seeded(us) = DOMAIN us \cup {u}
              /\ \A v \in DOMAIN us : us[v].handle # Owner
         /\ mix.mode = "local" /\ (\A v \in DOMAIN us : us[v].handle # Owner)
              => DOMAIN Seeded(us) # DOMAIN us
<1>. DEFINE S == {u \in DOMAIN us : us[u].handle = Owner}
<1>1. Len(us) \in Nat /\ DOMAIN us = 1..Len(us) /\ \A u \in DOMAIN us : us[u] \in UserRow
  BY LenProperties, ElementOfSeq
<1>2. SeededOwner \in UserRow
  BY Constants, NewRow DEF SeededOwner
<1>3. CASE mix.mode # "local"
  BY <1>3 DEF Seeded, SameUser
<1>4. CASE mix.mode = "local" /\ S = {}
  <2>1. Seeded(us) = Append(us, SeededOwner)
    BY <1>4 DEF Seeded, SeededOwner
  <2>2. /\ Seeded(us) \in Seq(UserRow) /\ Len(Seeded(us)) = Len(us) + 1
        /\ DOMAIN Seeded(us) = 1..(Len(us) + 1)
        /\ \A u \in 1..Len(us) : Seeded(us)[u] = us[u]
        /\ Seeded(us)[Len(us) + 1] = SeededOwner
    BY <1>1, <1>2, <2>1, AppendProperties, LenProperties
  <2>3. DOMAIN Seeded(us) = DOMAIN us \cup {Len(us) + 1} /\ Len(us) + 1 \notin DOMAIN us
    BY <1>1, <2>2
  <2>. QED  BY <1>1, <1>4, <2>2, <2>3 DEF SameUser
<1>5. CASE mix.mode = "local" /\ S # {}
  <2>. DEFINE o == The(S)
              row == [us[o] EXCEPT !.pw = IF @ = None THEN Initial ELSE @]
  <2>1. o \in DOMAIN us /\ us[o].handle = Owner
    BY <1>5 DEF The
  <2>2. row \in UserRow /\ SameUser(row, us[o])
    <3>. HIDE DEF o
    <3>. QED  BY <1>1, <2>1, Constants DEF UserRow, SameUser
  <2>3. Seeded(us) = [us EXCEPT ![o] = row]
    BY <1>5 DEF Seeded
  <2>. HIDE DEF row, o
  <2>4. Seeded(us) \in Seq(UserRow) /\ DOMAIN Seeded(us) = DOMAIN us
    BY <1>1, <2>1, <2>2, <2>3, ExceptSeq
  <2>5. \A u \in DOMAIN us : SameUser(Seeded(us)[u], us[u])
    BY <2>1, <2>2, <2>3 DEF SameUser
  <2>. QED  BY <2>1, <2>4, <2>5
<1>. QED  BY <1>3, <1>4, <1>5

LEMMA SeedsUnique ==
  ASSUME NEW us \in Seq(UserRow),
         \A u, v \in DOMAIN us : u # v => /\ us[u].handle # us[v].handle
                                          /\ us[u].ext # None => us[u].ext # us[v].ext
  PROVE  \A u, v \in DOMAIN Seeded(us) :
           u # v => /\ Seeded(us)[u].handle # Seeded(us)[v].handle
                    /\ Seeded(us)[u].ext # None => Seeded(us)[u].ext # Seeded(us)[v].ext
<1>1. SeededOwner.handle = Owner /\ SeededOwner.ext = None
  BY DEF SeededOwner, NewUser
<1>. SUFFICES ASSUME NEW u \in DOMAIN Seeded(us), NEW v \in DOMAIN Seeded(us), u # v
     PROVE  /\ Seeded(us)[u].handle # Seeded(us)[v].handle
            /\ Seeded(us)[u].ext # None => Seeded(us)[u].ext # Seeded(us)[v].ext
  OBVIOUS
<1>2. CASE u \in DOMAIN us /\ v \in DOMAIN us
  BY <1>2, SeedIs DEF SameUser
<1>3. CASE u \notin DOMAIN us
  <2>1. Seeded(us)[u] = SeededOwner /\ v \in DOMAIN us /\ us[v].handle # Owner
    <3>1. u \in DOMAIN Seeded(us) \ DOMAIN us
      BY <1>3
    <3>2. /\ Seeded(us)[u] = SeededOwner /\ DOMAIN Seeded(us) = DOMAIN us \cup {u}
          /\ \A w \in DOMAIN us : us[w].handle # Owner
      BY <3>1, SeedIs
    <3>. QED  BY <3>2
  <2>2. Seeded(us)[v].handle = us[v].handle
    BY <2>1, SeedIs DEF SameUser
  <2>. QED  BY <1>1, <2>1, <2>2
<1>4. CASE v \notin DOMAIN us
  <2>1. Seeded(us)[v] = SeededOwner /\ u \in DOMAIN us /\ us[u].handle # Owner
    <3>1. v \in DOMAIN Seeded(us) \ DOMAIN us
      BY <1>4
    <3>2. /\ Seeded(us)[v] = SeededOwner /\ DOMAIN Seeded(us) = DOMAIN us \cup {v}
          /\ \A w \in DOMAIN us : us[w].handle # Owner
      BY <3>1, SeedIs
    <3>. QED  BY <3>2
  <2>2. Seeded(us)[u].handle = us[u].handle
    BY <2>1, SeedIs DEF SameUser
  <2>. QED  BY <1>1, <2>1, <2>2
<1>. QED  BY <1>2, <1>3, <1>4

LEMMA WorldKeeps ==
  ASSUME TypeInv, Tick \/ Rename
  PROVE  TypeInv'
<1>1. /\ UNCHANGED <<tables, memory, mix, pc, loc, past>>
      /\ clock \in Nat /\ clock' \in Nat /\ clock <= clock'
      /\ idp' \in [Subs -> [now : Handles, had : SUBSET Handles]]
  <2>1. CASE Tick
    BY <2>1 DEF Tick, TypeInv, Store, SessionsOK, WorldOK
  <2>2. CASE Rename
    <3>1. PICK e \in Subs, h \in Handles : idp' = [idp EXCEPT ![e] = [now |-> h, had |-> @.had \cup {h}]]
      BY <2>2 DEF Rename
    <3>2. UNCHANGED <<tables, memory, clock, mix, pc, loc, past>>
      BY <2>2 DEF Rename
    <3>. QED  BY <3>1, <3>2 DEF TypeInv, Store, SessionsOK, WorldOK
  <2>. QED  BY <2>1, <2>2
<1>2. SessionsOK'
  <2>1. \A s \in DOMAIN sessions : sessions[s].seen \in Nat /\ sessions[s].used \in Nat
    BY Rows DEF SessionRow
  <2>2. \A s \in DOMAIN sessions : sessions[s].seen <= clock' /\ sessions[s].used <= clock'
    BY <1>1, <2>1 DEF TypeInv, Store, SessionsOK
  <2>. QED  BY <1>1, <2>2 DEF TypeInv, Store, SessionsOK, tables
<1>3. UsersOK' /\ SettingsOK' /\ WorldOK'
  BY <1>1 DEF TypeInv, Store, UsersOK, SettingsOK, WorldOK, tables, memory
<1>4. past' \in Past'
  BY <1>1 DEF TypeInv, Store, Past, tables
<1>5. \A q \in Procs : Fits(q)'
  BY <1>1 DEF TypeInv, Fits, Local, Sane, Needs, tables
<1>. QED  BY <1>2, <1>3, <1>4, <1>5 DEF TypeInv, Store

LEMMA RestartKeeps ==
  ASSUME TypeInv, Restart
  PROVE  TypeInv'
<1>1. /\ users' = Seeded(users) /\ cache' = Layer(stored) /\ txs' = {}
      /\ pc' = [p \in Procs |-> "idle"] /\ loc' = [p \in Procs |-> Idle]
      /\ past' = [past EXCEPT !.direct = FALSE,
            !.unswept = @ \cup {loc[p].target : p \in {q \in Procs : pc[q] \in {"sweep", "sweepWrite"}}},
            !.unslid  = @ \cup {loc[p].row : p \in {q \in Procs : pc[q] = "slide"}}]
      /\ UNCHANGED <<sessions, prefs, stored, idp, clock, mix>>
  BY DEF Restart, At
<1>2. users \in Seq(UserRow)
  BY DEF TypeInv, Store, UsersOK
<1>3. UsersOK' /\ DOMAIN users \subseteq DOMAIN users'
  BY <1>1, <1>2, SeedIs, SeedsUnique DEF TypeInv, Store, UsersOK
<1>4. SessionsOK'
  BY <1>1, <1>3 DEF TypeInv, Store, SessionsOK
<1>5. SettingsOK'
  <2>1. Layer(stored) \in [Fields -> Values]
    BY Constants DEF Layer, TypeInv, Store, SettingsOK
  <2>. QED  BY <1>1, <1>3, <2>1 DEF TypeInv, Store, SettingsOK
<1>6. WorldOK'
  BY <1>1 DEF TypeInv, Store, WorldOK
<1>7. past' \in Past'
  <2>1. \A q \in Procs : /\ pc[q] \in {"sweep", "sweepWrite"} => loc[q].target \in DOMAIN users
                         /\ pc[q] = "slide" => loc[q].row \in DOMAIN sessions
    BY DEF TypeInv, Fits, Needs, Sane, OnUser
  <2>2. {loc[p].target : p \in {q \in Procs : pc[q] \in {"sweep", "sweepWrite"}}} \subseteq DOMAIN users
        /\ {loc[p].row : p \in {q \in Procs : pc[q] = "slide"}} \subseteq DOMAIN sessions
    BY <2>1
  <2>. QED  BY <1>1, <1>3, <2>2 DEF TypeInv, Store, Past
<1>8. \A q \in Procs : Fits(q)'
  <2>. SUFFICES ASSUME NEW q \in Procs PROVE Fits(q)'
    OBVIOUS
  <2>1. pc'[q] = "idle" /\ loc'[q] = Idle
    BY <1>1
  <2>2. Local(loc[q])'
    BY <2>1, IdleFits DEF Local
  <2>3. Sane(loc[q])'
    BY <2>1, Constants DEF Sane, Idle, OnUser, Verbs
  <2>4. Needs(pc[q], loc[q])'
    BY <2>1 DEF Needs
  <2>. QED  BY <2>2, <2>3, <2>4 DEF Fits
<1>. QED  BY <1>3, <1>4, <1>5, <1>6, <1>7, <1>8 DEF TypeInv, Store

-----------------------------------------------------------------------------
(***************************************************************************)
(* The columns.                                                            *)
(***************************************************************************)
LEMMA TypeInit == Init => TypeInv
<1>. SUFFICES ASSUME Init PROVE TypeInv
  OBVIOUS
<1>1. mix \in Mixes /\ FirstUsers(mix) /\ mix.names \in [Subs -> Handles]
  BY AccountsAssumption DEF Init
<1>2. UsersOK
  <2>1. users = Seeded(mix.users)
    BY DEF Init
  <2>. QED  BY <1>1, <2>1, SeedIs, SeedsUnique DEF FirstUsers, UsersOK
<1>3. SessionsOK
  <2>1. sessions = <<>> /\ clock = 0
    BY DEF Init
  <2>2. sessions \in Seq(SessionRow) /\ DOMAIN sessions = {}
    BY <2>1, EmptySeq
  <2>. QED  BY <2>1, <2>2 DEF SessionsOK
<1>4. SettingsOK
  <2>1. prefs = <<>> /\ stored = [f \in Fields |-> None] /\ cache = Layer(stored)
    BY DEF Init
  <2>2. DOMAIN prefs = {}
    BY <2>1
  <2>. QED  BY <2>1, <2>2, Constants DEF SettingsOK, Layer
<1>5. WorldOK
  BY <1>1 DEF Init, WorldOK
<1>6. past \in Past
  BY DEF Init, Past
<1>7. \A q \in Procs : Fits(q)
  BY IdleFits DEF Init, Fits
<1>. QED  BY <1>2, <1>3, <1>4, <1>5, <1>6, <1>7 DEF TypeInv, Store

LEMMA TypeStep == TypeInv /\ [Next]_accVars => TypeInv'
<1>. SUFFICES ASSUME TypeInv, [Next]_accVars PROVE TypeInv'
  OBVIOUS
<1>1. CASE Next
  BY <1>1, IdentityStepsKeep, AdminStepsKeep, SettingsStepsKeep, WorldKeeps, RestartKeeps DEF Next
<1>2. CASE UNCHANGED accVars
  BY <1>2 DEF accVars, tables, memory, world, TypeInv, Store, UsersOK, SessionsOK, SettingsOK,
     WorldOK, Past, Fits, Local, Sane, Needs
<1>. QED  BY <1>1, <1>2

\* The columns hold what they should, handles and subjects stay unique and every
\* session and every setting belongs to a row, for any requests, renames, races and
\* restarts.
THEOREM TypeCorrect == Spec => []TypeOK
<1>1. TypeInv => TypeOK
  <2>. SUFFICES ASSUME TypeInv PROVE TypeOK
    OBVIOUS
  <2>1. \A s \in DOMAIN sessions :
          sessions[s] \in [user : DOMAIN users, revoked : BOOLEAN, seen : 0..clock,
                           used : 0..clock, expires : Nat, era : Nat]
    BY Rows DEF SessionRow, TypeInv, Store, SessionsOK
  <2>2. \A u \in DOMAIN users : users[u] \in UserRow
    BY Rows
  <2>. QED  BY <2>1, <2>2 DEF TypeInv, Store, UsersOK, SettingsOK, TypeOK
<1>. QED  BY <1>1, TypeInit, TypeStep, PTL DEF Spec

-----------------------------------------------------------------------------
(***************************************************************************)
(* The safety properties.  Each rests on the type invariant and on an      *)
(* inductive invariant of its own.                                         *)
(***************************************************************************)
\* What expires is what was seen plus the lifetime; a use that is not seen yet is a
\* slide that is under way in this tick, or one the server died on.
SlidesOK ==
  /\ \A s \in DOMAIN sessions :
        /\ sessions[s].expires = sessions[s].seen + Ttl
        /\ sessions[s].seen <= sessions[s].used
        /\ \/ sessions[s].used <= sessions[s].seen + Throttle
           \/ s \in past.unslid
           \/ \E p \in Procs : pc[p] = "slide" /\ loc[p].row = s
  /\ \A p \in Procs : pc[p] = "slide" => sessions[loc[p].row].used = clock

\* A session of an earlier era is revoked, or about to be.
Sweeps(p, u) == pc[p] \in {"sweep", "sweepWrite"} /\ loc[p].target = u
ErasOK ==
  \A s \in DOMAIN sessions :
     ~sessions[s].revoked =>
        \/ s \in past.raced \/ sessions[s].user \in past.unswept
        \/ sessions[s].era = users[sessions[s].user].era
        \/ \E p \in Procs : Sweeps(p, sessions[s].user)

Takes(r) == (r.op = "setRole" /\ r.to = "user") \/ (r.op = "setEnabled" /\ ~r.to)

\* Whoever is about to take one away has counted others.
SeatsOK ==
  /\ mix.seated /\ ~past.unseated => Seats # {}
  /\ \A p \in Procs : pc[p] = "write" /\ Takes(loc[p]) =>
        (loc[p].role = "admin" /\ loc[p].on => loc[p].n \in Nat \ {0})

\* The provider gave a name of e to somebody else, or the other way round.
PassedOn(e) == \E f \in Subs \ {e} : idp[e].had \cap idp[f].had # {}

\* Somebody had the name h; e had it, or is in such a swap; and so is everybody else
\* who had it.
Plausible(e, h) ==
  /\ \E x \in Subs : h \in idp[x].had
  /\ h \in idp[e].had \/ PassedOn(e)
  /\ \A x \in Subs \ {e} : h \in idp[x].had => PassedOn(x)

\* The name h is one e had, unless names were passed on.
Named(e, h) == h \in idp[e].had \/ PassedOn(e)

\* A person found for a row that is linked to another: both swapped names.
Swapped(e, f) == f \in {None, e} \/ (PassedOn(e) /\ PassedOn(f))

\* A row and the people it was made for or linked to.
Belongs(r) ==
  /\ r.ext # None => Plausible(r.ext, r.handle)
  /\ r.own # None => /\ Named(r.own, r.handle)
                     /\ \/ r.ext = r.own \/ PassedOn(r.own)
                        \/ r.ext = None /\ r.own \in mix.nameless
  /\ r.by = "seam" /\ mix.mode # "local" => r.own # None
  /\ r.by = "handler" /\ r.handle \notin past.crossed => r.handle = Owner \/ r.own # None

PeopleOK ==
  /\ \A e \in Subs : idp[e].now \in idp[e].had
  /\ \A u \in DOMAIN users : Belongs(users[u])
  /\ mix.mode = "oidc" => \A s \in DOMAIN sessions : users[sessions[s].user].ext # None

\* What a request on its way to a row knows of the person it came for.
Resolving == {"slide", "byExt", "byHandle", "patch", "create"}
Person(l, r) ==
  /\ l \in Resolving /\ mix.mode = "oidc" => r.ext # None
  /\ l \in Resolving /\ mix.mode # "local" /\ r.ext = None => r.who # None
  /\ l \in Resolving /\ r.who # None => r.who \in mix.nameless /\ Named(r.who, r.handle)
  /\ l \in Resolving /\ r.op = "callback" => r.ext # None
  /\ l \in Resolving /\ r.ext # None => Plausible(r.ext, r.handle)
  /\ l = "patch" =>
        LET row == users[r.row]
        IN  /\ r.fix \in {{"ext"}, {"handle"}}
            /\ Swapped(r.ext, row.ext)
            /\ "ext" \in r.fix => /\ Plausible(r.ext, row.handle)
                                  /\ row.handle = r.handle \/ r.handle \in past.crossed
            /\ "ext" \notin r.fix => row.ext # None
  /\ l \in {"ensure", "ensureInsert"} /\ r.handle \notin past.crossed =>
        r.handle = Owner \/ ByHandle(r.handle) # {}
  /\ l = "mint" /\ mix.mode = "oidc" => users[r.row].ext # None

PeopleInv == PeopleOK /\ \A q \in Procs : Person(pc[q], loc[q])

-----------------------------------------------------------------------------
(***************************************************************************)
(* What a request leaves alone.                                            *)
(***************************************************************************)
Step(p) == IdentitySteps(p) \/ AdminSteps(p) \/ SettingsSteps(p)

LEMMA GotoIs ==
  ASSUME TypeInv, NEW p \in Procs, NEW l, NEW r, Goto(p, l, r)
  PROVE  pc'[p] = l /\ loc'[p] = r /\ Others(p)
<1>1. DOMAIN pc = Procs /\ DOMAIN loc = Procs
  BY DEF TypeInv, Store, WorldOK
<1>. QED  BY <1>1 DEF Goto, Others

\* Its own place and memory are all it moves.
LEMMA StepMoves ==
  ASSUME TypeInv, NEW p \in Procs, Step(p)
  PROVE  Others(p)
<1>1. \A l, r : Goto(p, l, r) => Others(p)
  BY GotoIs
<1>2. \A r : Resolved(p, r) => Others(p)
  BY <1>1 DEF Resolved, Done
<1>3. UNCHANGED <<pc, loc>> => Others(p)
  BY DEF Others
<1>4. CASE IdentitySteps(p)
  <2>1. CASE AskLan(p) \/ AskForward(p) \/ Slide(p)
    BY <1>1, <2>1 DEF AskLan, AskForward, Slide
  <2>2. CASE AskCookie(p)
    BY <1>1, <2>2 DEF AskCookie, Done
  <2>3. CASE Authorize(p) \/ Callback(p)
    BY <1>1, <1>3, <2>3 DEF Authorize, Callback, Done
  <2>4. CASE SelectByExt(p) \/ SelectByHandle(p)
    BY <1>1, <1>2, <2>4 DEF SelectByExt, SelectByHandle, Found
  <2>5. CASE Patch(p) \/ Create(p)
    BY <1>1, <1>2, <2>5, PatchIs DEF Create, Done
  <2>6. CASE Ensure(p) \/ EnsureInsert(p)
    BY <1>1, <2>6 DEF Ensure, EnsureInsert
  <2>. QED  BY <1>4, <2>1, <2>2, <2>3, <2>4, <2>5, <2>6 DEF IdentitySteps
<1>5. CASE AdminSteps(p)
  <2>1. CASE IsAdmin(p) \/ LoadUser(p) \/ CountAdmins(p) \/ Sweep(p) \/ Exists(p)
    BY <1>1, <2>1 DEF IsAdmin, LoadUser, CountAdmins, Sweep, Exists, Done
  <2>2. CASE WriteUser(p)
    BY <1>1, <2>2 DEF WriteUser, Done
  <2>3. CASE SweepWrite(p) \/ Revoke(p) \/ InsertUser(p) \/ Mint(p)
    BY <1>1, <2>3 DEF SweepWrite, Revoke, InsertUser, Mint, Done
  <2>4. CASE Login(p) \/ Logout(p)
    BY <1>1, <1>3, <2>4 DEF Login, Logout
  <2>. QED  BY <1>5, <2>1, <2>2, <2>3, <2>4 DEF AdminSteps
<1>6. CASE SettingsSteps(p)
  <2>1. CASE ReadPrefs(p) \/ InsertPrefs(p) \/ WritePrefs(p)
    BY <1>1, <2>1 DEF ReadPrefs, InsertPrefs, WritePrefs, Done
  <2>2. CASE MergeConfig(p) \/ UpsertConfig(p) \/ Reload(p) \/ SetGlobal(p)
    BY <1>1, <2>2 DEF MergeConfig, UpsertConfig, Reload, SetGlobal, Done
  <2>. QED  BY <1>6, <2>1, <2>2 DEF SettingsSteps
<1>. QED  BY <1>4, <1>5, <1>6 DEF Step

\* A row that joins the table.
Adds(row) ==
  /\ Len(users) + 1 \in Nat \ DOMAIN users /\ DOMAIN users' = DOMAIN users \cup {Len(users) + 1}
  /\ users'[Len(users) + 1] = row
  /\ \A u \in DOMAIN users : users'[u] = users[u]

LEMMA CreateIs ==
  ASSUME TypeInv, NEW p \in Procs, Create(p)
  PROVE  /\ pc[p] = "create" /\ UNCHANGED <<sessions, prefs, stored, memory, world, past>>
         /\ \/ users' = users /\ Done(p)
            \/ \E row \in UserRow, role \in {"admin", "user"} :
                 /\ Adds(row) /\ row.ext = loc[p].ext /\ row.handle = loc[p].handle /\ row.on
                 /\ row.by = "seam"
                 /\ row.own = IF loc[p].ext = None THEN loc[p].who ELSE loc[p].ext
                 /\ Resolved(p, [loc[p] EXCEPT !.row = Len(users) + 1, !.role = role])
<1>1. pc[p] = "create" /\ UNCHANGED <<sessions, prefs, stored, memory, world, past>>
  BY DEF Create, At
<1>2. CASE Taken(0, loc[p].ext, loc[p].handle)
  BY <1>1, <1>2 DEF Create
<1>3. CASE ~Taken(0, loc[p].ext, loc[p].handle)
  <2>1. Local(loc[p]) /\ loc[p].handle \in Handles
    BY <1>1 DEF TypeInv, Fits, Needs
  <2>2. PICK role \in {"admin", "user"} : role = Role(loc[p].handle, loc[p].boss)
    BY DEF Role, OwnerRole
  <2>3. PICK row : row = Made(loc[p], role)
    OBVIOUS
  <2>5. /\ row \in UserRow /\ row.ext = loc[p].ext /\ row.handle = loc[p].handle /\ row.on
        /\ row.by = "seam"
        /\ row.own = IF loc[p].ext = None THEN loc[p].who ELSE loc[p].ext
    BY <2>1, <2>3, SeamRow
  <2>6. users' = Append(users, row)
        /\ Resolved(p, [loc[p] EXCEPT !.row = Len(users) + 1, !.role = role])
    BY <1>3, <2>2, <2>3 DEF Create
  <2>7. Adds(row)
    BY <1>3, <2>5, <2>6, AddUser DEF Adds
  <2>. QED  BY <1>1, <2>5, <2>6, <2>7
<1>. QED  BY <1>2, <1>3

LEMMA EnsureInsertIs ==
  ASSUME TypeInv, NEW p \in Procs, EnsureInsert(p)
  PROVE  /\ pc[p] = "ensureInsert" /\ UNCHANGED <<sessions, prefs, stored, memory, world, past>>
         /\ \E l \in {"prefs", "global", "isAdmin"} : \E r : Goto(p, l, r)
         /\ \/ users' = users
            \/ \E row \in UserRow :
                 /\ Adds(row) /\ row.ext = None /\ row.handle = loc[p].handle
                 /\ row.by = "handler" /\ row.own = None /\ ByHandle(row.handle) = {}
<1>1. pc[p] = "ensureInsert" /\ UNCHANGED <<sessions, prefs, stored, memory, world, past>>
  BY DEF EnsureInsert, At
<1>2. loc[p].handle \in Handles /\ loc[p].op \in OnHandlers
  BY <1>1 DEF TypeInv, Fits, Needs
<1>3. Entry(loc[p].op) \in {"prefs", "global", "isAdmin"}
  BY <1>2 DEF Entry, OnHandlers, AdminOps
<1>4. CASE ByHandle(loc[p].handle) # {}
  BY <1>1, <1>3, <1>4 DEF EnsureInsert
<1>5. CASE ByHandle(loc[p].handle) = {}
  <2>1. PICK row : row = NewUser(loc[p].handle, None, OwnerRole(loc[p].handle), None, "handler")
    OBVIOUS
  <2>2. OwnerRole(loc[p].handle) \in {"admin", "user"}
    BY DEF OwnerRole
  <2>3. /\ row \in UserRow /\ row.ext = None /\ row.handle = loc[p].handle
        /\ row.by = "handler" /\ row.own = None
    BY <1>2, <2>1, <2>2, BareRow
  <2>4. users' = Append(users, row)
    BY <1>5, <2>1 DEF EnsureInsert
  <2>5. ~Taken(0, row.ext, row.handle)
    BY <1>5, <2>3 DEF Taken, ByHandle
  <2>6. Adds(row)
    BY <2>3, <2>4, <2>5, AddUser DEF Adds
  <2>7. \E l \in {"prefs", "global", "isAdmin"} : \E r : Goto(p, l, r)
    BY <1>3 DEF EnsureInsert
  <2>. QED  BY <1>1, <1>5, <2>3, <2>6, <2>7
<1>. QED  BY <1>4, <1>5

LEMMA InsertUserIs ==
  ASSUME TypeInv, NEW p \in Procs, InsertUser(p)
  PROVE  /\ pc[p] = "insertUser" /\ UNCHANGED <<sessions, prefs, stored, memory, world, past>>
         /\ Done(p)
         /\ \/ users' = users
            \/ \E row \in UserRow : Adds(row) /\ row.ext = None /\ row.by = "admin" /\ row.own = None
<1>1. pc[p] = "insertUser" /\ Done(p) /\ UNCHANGED <<sessions, prefs, stored, memory, world, past>>
  BY DEF InsertUser, At
<1>2. loc[p].target \in Handles /\ loc[p].to \in Passwords
  BY <1>1 DEF TypeInv, Fits, Needs, Sane
<1>3. CASE Taken(0, None, loc[p].target)
  BY <1>1, <1>3 DEF InsertUser
<1>4. CASE ~Taken(0, None, loc[p].target)
  <2>1. PICK role \in {"admin", "user"} :
          users' = Append(users, NewUser(loc[p].target, None, role, loc[p].to, "admin"))
    BY <1>4 DEF InsertUser
  <2>2. PICK row : row = NewUser(loc[p].target, None, role, loc[p].to, "admin")
    OBVIOUS
  <2>3. /\ row \in UserRow /\ row.ext = None /\ row.handle = loc[p].target
        /\ row.by = "admin" /\ row.own = None
    BY <1>2, <2>2, BareRow
  <2>4. Adds(row)
    BY <1>4, <2>1, <2>2, <2>3, AddUser DEF Adds
  <2>. QED  BY <1>1, <2>3, <2>4
<1>. QED  BY <1>3, <1>4

\* The rest write no row of users, except for the patch and what an administrator does.
LEMMA NoRow ==
  ASSUME NEW p \in Procs, Step(p), ~Patch(p), ~Create(p), ~EnsureInsert(p), ~InsertUser(p),
         ~WriteUser(p)
  PROVE  users' = users
<1>1. CASE IdentitySteps(p)
  BY <1>1 DEF IdentitySteps, AskLan, AskCookie, AskForward, Authorize, Callback, Slide,
     SelectByExt, SelectByHandle, Ensure, tables
<1>2. CASE AdminSteps(p)
  BY <1>2 DEF AdminSteps, IsAdmin, LoadUser, CountAdmins, Sweep, SweepWrite, Revoke, Exists,
     Login, Mint, Logout, tables
<1>3. CASE SettingsSteps(p)
  BY <1>3 DEF SettingsSteps, ReadPrefs, InsertPrefs, WritePrefs, MergeConfig, UpsertConfig,
     Reload, SetGlobal, tables
<1>. QED  BY <1>1, <1>2, <1>3 DEF Step

\* Role, lock and era are what administrators write.
LEMMA SeatStays ==
  ASSUME TypeInv, NEW p \in Procs, Step(p), ~WriteUser(p), NEW u \in DOMAIN users
  PROVE  /\ u \in DOMAIN users' /\ users'[u].role = users[u].role /\ users'[u].on = users[u].on
         /\ users'[u].era = users[u].era /\ users'[u].by = users[u].by
<1>1. CASE Patch(p)
  <2>1. CASE users' = users
    BY <2>1
  <2>2. CASE users' = [users EXCEPT ![loc[p].row] = Owned(Patched(p))]
    <3>1. pc[p] = "patch"
      BY <1>1, PatchIs
    <3>2. LET old == users[loc[p].row]
              new == Owned(Patched(p))
          IN  new.by = old.by /\ new.role = old.role /\ new.on = old.on /\ new.era = old.era
      BY <3>1, PatchRow
    <3>3. u \in DOMAIN users' /\ users'[u] = IF u = loc[p].row THEN Owned(Patched(p)) ELSE users[u]
      BY <2>2, Rows
    <3>. QED  BY <3>2, <3>3
  <2>. QED  BY <1>1, <2>1, <2>2, PatchIs
<1>2. CASE Create(p) \/ EnsureInsert(p) \/ InsertUser(p)
  <2>1. users' = users \/ \E row : Adds(row)
    BY <1>2, CreateIs, EnsureInsertIs, InsertUserIs
  <2>. QED  BY <2>1 DEF Adds
<1>. QED  BY <1>1, <1>2, NoRow

-----------------------------------------------------------------------------
(***************************************************************************)
(* The settings.                                                           *)
(***************************************************************************)
Settings == <<stored, cache, past.wanted, past.clashed, past.direct>>

LEMMA SettingsStay ==
  ASSUME TypeInv, NEW p \in Procs, Step(p), ~UpsertConfig(p), ~Reload(p), ~SetGlobal(p)
  PROVE  UNCHANGED Settings /\ pc[p] # "reload"
<1>1. past \in Past
  BY DEF TypeInv, Store
<1>2. \A l, r : Goto(p, l, r) => pc'[p] = l
  BY GotoIs
<1>3. CASE IdentitySteps(p)
  <2>1. CASE AskLan(p) \/ AskCookie(p) \/ AskForward(p) \/ Authorize(p) \/ Callback(p)
    BY <2>1 DEF AskLan, AskCookie, AskForward, Authorize, Callback, Begin, At, tables, memory, Settings
  <2>2. CASE Slide(p)
    BY <1>1, <2>2 DEF Slide, At, tables, memory, Settings, Past
  <2>3. CASE SelectByExt(p) \/ SelectByHandle(p) \/ Ensure(p)
    BY <2>3 DEF SelectByExt, SelectByHandle, Ensure, At, tables, memory, Settings
  <2>4. CASE Patch(p)
    BY <1>1, <2>4, PatchIs DEF memory, Settings, Past
  <2>5. CASE Create(p) \/ EnsureInsert(p)
    BY <2>5, CreateIs, EnsureInsertIs DEF memory, Settings
  <2>. QED  BY <1>3, <2>1, <2>2, <2>3, <2>4, <2>5 DEF IdentitySteps
<1>4. CASE AdminSteps(p)
  <2>1. CASE IsAdmin(p) \/ LoadUser(p) \/ CountAdmins(p) \/ Sweep(p) \/ Exists(p) \/ Login(p)
             \/ Logout(p)
    BY <2>1 DEF IsAdmin, LoadUser, CountAdmins, Sweep, Exists, Login, Logout, Begin, At,
       tables, memory, Settings
  <2>2. CASE WriteUser(p)
    <3>1. PICK b : past' = [past EXCEPT !.unseated = @ \/ b]
      BY <2>2 DEF WriteUser
    <3>2. pc[p] = "write" /\ UNCHANGED <<stored, memory>>
      BY <2>2 DEF WriteUser, At
    <3>. QED  BY <1>1, <3>1, <3>2 DEF memory, Settings, Past
  <2>3. CASE SweepWrite(p) \/ Revoke(p) \/ InsertUser(p)
    BY <2>3 DEF SweepWrite, Revoke, InsertUser, At, memory, Settings
  <2>4. CASE Mint(p)
    BY <1>1, <2>4 DEF Mint, At, memory, Settings, Past
  <2>. QED  BY <1>4, <2>1, <2>2, <2>3, <2>4 DEF AdminSteps
<1>5. CASE SettingsSteps(p)
  BY <1>5 DEF SettingsSteps, ReadPrefs, InsertPrefs, WritePrefs, MergeConfig, At,
     tables, memory, Settings
<1>. QED  BY <1>3, <1>4, <1>5 DEF Step

LEMMA ConfigInit == Init => ConfigIsCurrent
BY DEF Init, ConfigIsCurrent

LEMMA ConfigStep == TypeInv /\ ConfigIsCurrent /\ [Next]_accVars => ConfigIsCurrent'
<1>. SUFFICES ASSUME TypeInv, ConfigIsCurrent, [Next]_accVars PROVE ConfigIsCurrent'
  OBVIOUS
<1>1. past \in Past /\ stored \in [Fields -> Values \cup {None}]
  BY DEF TypeInv, Store, SettingsOK
<1>2. ASSUME NEW p \in Procs, Step(p) PROVE ConfigIsCurrent'
  <2>1. CASE ~UpsertConfig(p) /\ ~Reload(p) /\ ~SetGlobal(p)
    <3>1. UNCHANGED Settings /\ pc[p] # "reload" /\ Others(p)
      BY <1>2, <2>1, SettingsStay, StepMoves
    <3>2. \A q \in Procs : pc[q] = "reload" => pc'[q] = "reload"
      BY <3>1 DEF Others
    <3>. QED  BY <3>1, <3>2 DEF ConfigIsCurrent, Settings, At, Layer
  <2>2. CASE UpsertConfig(p)
    <3>. DEFINE r == loc[p]
    <3>1. /\ stored' = [r.base EXCEPT ![r.target] = r.to]
          /\ past' = [past EXCEPT !.wanted[r.target] = r.to, !.clashed = @ \/ r.base # stored]
          /\ pc'[p] = "reload"
      BY <2>2, GotoIs DEF UpsertConfig
    <3>2. past'.wanted = [past.wanted EXCEPT ![r.target] = r.to]
          /\ (past'.clashed <=> past.clashed \/ r.base # stored)
      BY <1>1, <3>1 DEF Past
    <3>. QED  BY <3>1, <3>2 DEF ConfigIsCurrent, At
  <2>3. CASE Reload(p)
    <3>1. cache' = Layer(stored) /\ past' = [past EXCEPT !.direct = FALSE] /\ UNCHANGED stored
      BY <2>3 DEF Reload, tables
    <3>2. past'.wanted = past.wanted /\ past'.clashed = past.clashed
      BY <1>1, <3>1 DEF Past
    <3>. QED  BY <3>1, <3>2 DEF ConfigIsCurrent, Layer
  <2>4. CASE SetGlobal(p)
    <3>1. past' = [past EXCEPT !.wanted = stored', !.direct = TRUE]
      BY <2>4 DEF SetGlobal
    <3>2. past'.wanted = stored' /\ past'.direct
      BY <1>1, <3>1 DEF Past
    <3>. QED  BY <3>2 DEF ConfigIsCurrent
  <2>. QED  BY <2>1, <2>2, <2>3, <2>4
<1>3. CASE Tick \/ Rename
  BY <1>3 DEF Tick, Rename, tables, memory, ConfigIsCurrent, At, Layer
<1>4. CASE Restart
  <2>1. cache' = Layer(stored) /\ UNCHANGED stored
    BY <1>4 DEF Restart
  <2>2. past'.wanted = past.wanted /\ past'.clashed = past.clashed
    BY <1>1, <1>4 DEF Restart, Past
  <2>. QED  BY <2>1, <2>2 DEF ConfigIsCurrent, Layer
<1>5. CASE UNCHANGED accVars
  BY <1>5 DEF accVars, tables, memory, ConfigIsCurrent, At, Layer
<1>. QED  BY <1>2, <1>3, <1>4, <1>5 DEF Next, Step

\* The process answers with the settings the tables hold and they are the last
\* overrides, whatever updates, reloads, restarts and other requests come in between.
\* It is inductive given what a request remembers: between the upsert and the reload
\* there is always a request that is about to reload.
THEOREM SettingsAreCurrent == Spec => []ConfigIsCurrent
<1>. QED  BY TypeInit, TypeStep, ConfigInit, ConfigStep, PTL DEF Spec

-----------------------------------------------------------------------------
(***************************************************************************)
(* The last administrator.                                                 *)
(***************************************************************************)
\* Who comes to a write, to a slide and to a sweep, and who leaves one.
LEMMA Lands ==
  ASSUME TypeInv, NEW p \in Procs, Step(p)
  PROVE  /\ pc'[p] = "write" => IsAdmin(p) \/ LoadUser(p) \/ CountAdmins(p)
         /\ pc'[p] = "slide" => AskCookie(p)
<1>1. \A l, r : Goto(p, l, r) => pc'[p] = l
  BY GotoIs
<1>2. Done(p) => pc'[p] = "idle"
  BY <1>1 DEF Done
<1>3. \A r : Resolved(p, r) => pc'[p] \in {"idle", "mint", "ensure"}
  BY <1>1, <1>2 DEF Resolved
<1>4. Needs(pc[p], loc[p])
  BY DEF TypeInv, Fits
<1>5. CASE IdentitySteps(p) /\ ~AskCookie(p)
  <2>1. CASE AskLan(p) \/ AskForward(p) \/ Authorize(p) \/ Callback(p)
    BY <1>1, <1>2, <2>1 DEF AskLan, AskForward, Authorize, Callback, Begin, At
  <2>2. CASE Slide(p)
    BY <1>1, <2>2 DEF Slide
  <2>3. CASE SelectByExt(p) \/ SelectByHandle(p)
    BY <1>1, <1>3, <2>3 DEF SelectByExt, SelectByHandle, Found
  <2>4. CASE Patch(p) \/ Create(p)
    BY <1>2, <1>3, <2>4, PatchIs, CreateIs
  <2>5. CASE Ensure(p)
    <3>1. loc[p].op \in OnHandlers
      BY <1>4, <2>5 DEF Ensure, At, Needs
    <3>2. Entry(loc[p].op) \in {"prefs", "global", "isAdmin"}
      BY <3>1 DEF Entry, OnHandlers, AdminOps
    <3>. QED  BY <1>1, <2>5, <3>2 DEF Ensure
  <2>6. CASE EnsureInsert(p)
    BY <1>1, <2>6, EnsureInsertIs
  <2>. QED  BY <1>5, <2>1, <2>2, <2>3, <2>4, <2>5, <2>6 DEF IdentitySteps
<1>6. CASE AskCookie(p)
  <2>1. PICK c, l, r : c \in Calls /\ l \in {"idle", "slide", "byHandle", "byExt"} /\ Goto(p, l, r)
    BY <1>6 DEF AskCookie, Done
  <2>. QED  BY <1>1, <1>6, <2>1
<1>7. CASE AdminSteps(p) /\ ~IsAdmin(p) /\ ~LoadUser(p) /\ ~CountAdmins(p)
  BY <1>1, <1>2, <1>7 DEF AdminSteps, WriteUser, Sweep, SweepWrite, Revoke, Exists, InsertUser,
     Login, Mint, Logout, Begin, At
<1>8. CASE IsAdmin(p) \/ LoadUser(p) \/ CountAdmins(p)
  <2>1. First(loc[p], loc[p].me) # "slide" \/ ~IsAdmin(p)
    <3>1. IsAdmin(p) => loc[p].op \in AdminOps
      BY <1>4 DEF IsAdmin, At, Needs
    <3>. QED  BY <3>1 DEF First, AdminOps
  <2>. QED  BY <1>1, <1>2, <1>8, <2>1 DEF IsAdmin, LoadUser, CountAdmins
<1>9. CASE SettingsSteps(p)
  BY <1>1, <1>2, <1>9 DEF SettingsSteps, ReadPrefs, InsertPrefs, WritePrefs, MergeConfig,
     UpsertConfig, Reload, SetGlobal
<1>. QED  BY <1>5, <1>6, <1>7, <1>8, <1>9 DEF Step

LEMMA SeatedStay ==
  ASSUME TypeInv, NEW p \in Procs, Step(p), ~WriteUser(p)
  PROVE  mix' = mix /\ past'.unseated = past.unseated
<1>1. past \in Past
  BY DEF TypeInv, Store
<1>2. CASE IdentitySteps(p)
  <2>1. CASE Slide(p)
    BY <1>1, <2>1 DEF Slide, world, Past
  <2>2. CASE Patch(p)
    BY <1>1, <2>2, PatchIs DEF world, Past
  <2>. QED  BY <1>2, <2>1, <2>2 DEF IdentitySteps, AskLan, AskCookie, AskForward, Authorize,
       Callback, SelectByExt, SelectByHandle, Create, Ensure, EnsureInsert, world
<1>3. CASE AdminSteps(p)
  <2>1. CASE Mint(p)
    BY <1>1, <2>1 DEF Mint, world, Past
  <2>. QED  BY <1>3, <2>1 DEF AdminSteps, IsAdmin, LoadUser, CountAdmins, Sweep, SweepWrite,
       Revoke, Exists, InsertUser, Login, Logout, world
<1>4. CASE SettingsSteps(p)
  <2>1. CASE UpsertConfig(p) \/ Reload(p) \/ SetGlobal(p)
    BY <1>1, <2>1 DEF UpsertConfig, Reload, SetGlobal, world, Past
  <2>. QED  BY <1>4, <2>1 DEF SettingsSteps, ReadPrefs, InsertPrefs, WritePrefs, MergeConfig, world
<1>. QED  BY <1>2, <1>3, <1>4 DEF Step

\* The write leaves a seat unless it acted on what no longer held.
LEMMA WriteSeats ==
  ASSUME TypeInv, SeatsOK, NEW p \in Procs, WriteUser(p), mix.seated, ~past'.unseated
  PROVE  Seats' # {}
<1>. DEFINE r == loc[p]
            u == users[r.target]
            stale == Takes(r) /\ (r.role # u.role \/ r.on # u.on
                                  \/ (r.n # None /\ r.n # OtherAdmins(r.target)))
<1>1. past'.unseated = (past.unseated \/ stale)
  BY DEF WriteUser, Takes, TypeInv, Store, Past
<1>2. Seats # {} /\ ~stale
  BY <1>1 DEF SeatsOK
<1>3. pc[p] = "write" /\ r.target \in DOMAIN users
  BY WriteRow
<1>4. PICK row \in UserRow :
        /\ users' = [users EXCEPT ![r.target] = row]
        /\ row.role = IF r.op = "setRole" THEN r.to ELSE u.role
        /\ row.on = IF r.op = "setEnabled" THEN r.to ELSE u.on
  BY WriteRow
<1>5. \A v \in Seats : v # r.target => v \in Seats'
  BY <1>4 DEF Seats
<1>6. Sane(r) /\ Needs("write", r) /\ u \in UserRow
  BY <1>3, Rows DEF TypeInv, Fits
<1>7. CASE r.target \notin Seats
  BY <1>2, <1>5, <1>7
<1>8. CASE r.target \in Seats /\ ~Takes(r)
  <2>1. row.role = "admin" /\ row.on
    BY <1>4, <1>6, <1>8 DEF Seats, Takes, Sane
  <2>. QED  BY <1>3, <1>4, <2>1 DEF Seats
<1>9. CASE r.target \in Seats /\ Takes(r)
  <2>1. r.role = "admin" /\ r.on
    BY <1>2, <1>9 DEF Seats
  <2>2. r.n \in Nat \ {0}
    BY <1>3, <1>9, <2>1 DEF SeatsOK
  <2>3. OtherAdmins(r.target) # 0
    BY <1>2, <1>9, <2>2, Constants
  <2>4. Seats \ {r.target} # {}
    BY <2>3, Counts
  <2>. QED  BY <1>5, <2>4
<1>. QED  BY <1>7, <1>8, <1>9

\* The start keeps every seat.
LEMMA SeededSeats ==
  ASSUME NEW us \in Seq(UserRow)
  PROVE  /\ \A u \in DOMAIN us : us[u].role = "admin" /\ us[u].on =>
              u \in DOMAIN Seeded(us) /\ Seeded(us)[u].role = "admin" /\ Seeded(us)[u].on
         /\ mix.mode = "local" /\ (\A v \in DOMAIN us : us[v].handle # Owner) =>
              \E u \in DOMAIN Seeded(us) : Seeded(us)[u].role = "admin" /\ Seeded(us)[u].on
<1>1. \A u \in DOMAIN us : u \in DOMAIN Seeded(us) /\ SameUser(Seeded(us)[u], us[u])
  BY SeedIs
<1>2. SeededOwner.role = "admin" /\ SeededOwner.on
  BY DEF SeededOwner, NewUser
<1>3. ASSUME mix.mode = "local", \A v \in DOMAIN us : us[v].handle # Owner
      PROVE  \E u \in DOMAIN Seeded(us) : Seeded(us)[u].role = "admin" /\ Seeded(us)[u].on
  <2>1. PICK u : u \in DOMAIN Seeded(us) \ DOMAIN us
    BY <1>3, SeedIs
  <2>2. Seeded(us)[u] = SeededOwner
    BY <2>1, SeedIs
  <2>. QED  BY <1>2, <2>1, <2>2
<1>. QED  BY <1>1, <1>3 DEF SameUser

LEMMA SeatsInit == Init => SeatsOK
<1>. SUFFICES ASSUME Init PROVE SeatsOK
  OBVIOUS
<1>1. FirstUsers(mix) /\ users = Seeded(mix.users) /\ mix.users \in Seq(UserRow)
  BY AccountsAssumption DEF Init, FirstUsers
<1>2. ASSUME mix.seated PROVE Seats # {}
  <2>1. CASE \E u \in DOMAIN mix.users : mix.users[u].role = "admin" /\ mix.users[u].on
    BY <1>1, <2>1, SeededSeats DEF Seats
  <2>2. CASE mix.mode = "local" /\ \A u \in DOMAIN mix.users : mix.users[u].handle # Owner
    BY <1>1, <2>2, SeededSeats DEF Seats
  <2>. QED  BY <1>1, <1>2, <2>1, <2>2 DEF FirstUsers
<1>3. \A p \in Procs : pc[p] = "idle"
  BY DEF Init
<1>. QED  BY <1>2, <1>3 DEF SeatsOK

\* Whoever comes to a write that takes a seat has counted others.
LEMMA WriteIsCounted ==
  ASSUME TypeInv, NEW p \in Procs, Step(p), pc'[p] = "write", Takes(loc'[p]),
         loc'[p].role = "admin", loc'[p].on
  PROVE  loc'[p].n \in Nat \ {0}
<1>1. \A l, r : Goto(p, l, r) => pc'[p] = l /\ loc'[p] = r
  BY GotoIs
<1>2. Done(p) => pc'[p] = "idle"
  BY <1>1 DEF Done
<1>3. Local(loc[p]) /\ Sane(loc[p]) /\ Needs(pc[p], loc[p])
  BY DEF TypeInv, Fits
<1>4. CASE IsAdmin(p)
  <2>1. pc[p] = "isAdmin" /\ loc[p].op \in AdminOps
    BY <1>3, <1>4 DEF IsAdmin, At, Needs
  <2>2. First(loc[p], loc[p].me) = "write" /\ loc'[p] = loc[p]
    BY <1>1, <1>2, <1>4 DEF IsAdmin
  <2>3. ~Takes(loc[p])
    <3>1. CASE loc[p].op = "setRole"
      BY <2>2, <3>1 DEF First, Takes
    <3>2. CASE loc[p].op = "setEnabled"
      BY <2>2, <3>2 DEF First, Takes
    <3>. QED  BY <3>1, <3>2 DEF Takes
  <2>. QED  BY <2>2, <2>3
<1>5. CASE LoadUser(p)
  <2>. DEFINE u == users[loc[p].target]
              r == [loc[p] EXCEPT !.role = u.role, !.on = u.on]
  <2>1. Goto(p, IF u.role = "admin" /\ u.on THEN "count" ELSE "write", r)
    BY <1>5 DEF LoadUser
  <2>2. r.role = u.role /\ r.on = u.on
    <3>. HIDE DEF u
    <3>. QED  BY <1>3 DEF Local
  <2>. HIDE DEF r
  <2>. QED  BY <1>1, <2>1, <2>2
<1>6. CASE CountAdmins(p)
  <2>. DEFINE n == OtherAdmins(loc[p].target)
              r == [loc[p] EXCEPT !.n = n]
  <2>1. n # 0 /\ Goto(p, "write", r)
    BY <1>2, <1>6 DEF CountAdmins
  <2>2. n \in Nat
    BY Counts
  <2>3. r.n = n
    <3>. HIDE DEF n
    <3>. QED  BY <1>3 DEF Local
  <2>. HIDE DEF r, n
  <2>. QED  BY <1>1, <2>1, <2>2, <2>3
<1>. QED  BY <1>4, <1>5, <1>6, Lands

LEMMA SeatsStep == TypeInv /\ SeatsOK /\ [Next]_accVars => SeatsOK'
<1>. SUFFICES ASSUME TypeInv, SeatsOK, [Next]_accVars PROVE SeatsOK'
  OBVIOUS
<1>1. ASSUME NEW p \in Procs, Step(p) PROVE SeatsOK'
  <2>1. mix.seated /\ ~past'.unseated => Seats' # {}
    <3>1. CASE WriteUser(p)
      BY <3>1, WriteSeats
    <3>2. CASE ~WriteUser(p)
      <4>1. Seats \subseteq Seats'
        BY <1>1, <3>2, SeatStays DEF Seats
      <4>. QED  BY <1>1, <3>2, <4>1, SeatedStay DEF SeatsOK
    <3>. QED  BY <3>1, <3>2
  <2>2. mix' = mix
    BY <1>1, SeatedStay DEF WriteUser, world
  <2>3. Others(p)
    BY <1>1, StepMoves
  <2>4. ASSUME NEW q \in Procs, pc'[q] = "write", Takes(loc'[q]), loc'[q].role = "admin", loc'[q].on
        PROVE  loc'[q].n \in Nat \ {0}
    <3>1. CASE q = p
      BY <1>1, <2>4, <3>1, WriteIsCounted
    <3>2. CASE q # p
      BY <2>3, <2>4, <3>2 DEF Others, SeatsOK
    <3>. QED  BY <3>1, <3>2
  <2>. QED  BY <2>1, <2>2, <2>4 DEF SeatsOK, Takes
<1>2. CASE Tick \/ Rename \/ UNCHANGED accVars
  <2>1. UNCHANGED <<users, mix, pc, loc, past>>
    BY <1>2 DEF Tick, Rename, accVars, tables, world
  <2>. QED  BY <2>1 DEF SeatsOK, Seats, Takes
<1>3. CASE Restart
  <2>1. users' = Seeded(users) /\ mix' = mix /\ pc' = [p \in Procs |-> "idle"]
        /\ past'.unseated = past.unseated
    BY <1>3 DEF Restart, TypeInv, Store, Past
  <2>2. users \in Seq(UserRow)
    BY DEF TypeInv, Store, UsersOK
  <2>3. Seats \subseteq Seats'
    BY <2>1, <2>2, SeededSeats DEF Seats
  <2>. QED  BY <2>1, <2>3 DEF SeatsOK
<1>. QED  BY <1>1, <1>2, <1>3 DEF Next, Step

\* Administrators cannot leave the server without an enabled administrator, in any
\* order of their reads, counts and writes, as long as none acts on a row or a count
\* that another has changed since.  The invariant says in addition that a request at
\* its write has counted somebody else if it is about to take a seat away.
THEOREM SomebodyRemains == Spec => []AnAdminRemains
<1>1. TypeInv /\ SeatsOK => AnAdminRemains
  <2>. SUFFICES ASSUME TypeInv, SeatsOK, mix.seated, ~past.unseated PROVE OtherAdmins(0) > 0
    BY DEF AnAdminRemains
  <2>1. 0 \notin DOMAIN users
    BY Rows
  <2>2. Seats \ {0} # {}
    BY <2>1 DEF SeatsOK, Seats
  <2>. QED  BY <2>2, Counts
<1>. QED  BY <1>1, TypeInit, TypeStep, SeatsInit, SeatsStep, PTL DEF Spec

-----------------------------------------------------------------------------
(***************************************************************************)
(* The end of a session.                                                   *)
(***************************************************************************)
Marks == <<past.raced, past.unswept, past.unslid>>
Endings(p) == SweepWrite(p) \/ Revoke(p) \/ Logout(p)

\* Only a slide leaves a slide, only a sweep leaves a sweep.
LEMMA Leaves ==
  ASSUME TypeInv, NEW p \in Procs, Step(p)
  PROVE  /\ pc[p] = "slide" => Slide(p)
         /\ pc[p] \in {"sweep", "sweepWrite"} => Sweep(p) \/ SweepWrite(p)
<1>1. CASE IdentitySteps(p)
  <2>1. CASE Patch(p) \/ Create(p) \/ EnsureInsert(p)
    BY <2>1, PatchIs, CreateIs, EnsureInsertIs
  <2>2. CASE Callback(p)
    BY <2>2 DEF Callback, At
  <2>. QED  BY <1>1, <2>1, <2>2 DEF IdentitySteps, AskLan, AskCookie, AskForward, Authorize,
       Slide, SelectByExt, SelectByHandle, Ensure, Begin, At
<1>2. CASE AdminSteps(p)
  <2>1. CASE WriteUser(p) \/ InsertUser(p) \/ Mint(p)
    BY <2>1, WriteRow, InsertUserIs, MintRow
  <2>2. CASE IsAdmin(p) \/ LoadUser(p) \/ CountAdmins(p) \/ Revoke(p) \/ Exists(p)
    BY <2>2 DEF IsAdmin, LoadUser, CountAdmins, Revoke, Exists, At
  <2>3. CASE Login(p) \/ Logout(p)
    BY <2>3 DEF Login, Logout, Begin, At
  <2>4. CASE Sweep(p) \/ SweepWrite(p)
    BY <2>4 DEF Sweep, SweepWrite, At
  <2>. QED  BY <1>2, <2>1, <2>2, <2>3, <2>4 DEF AdminSteps
<1>3. CASE SettingsSteps(p)
  BY <1>3 DEF SettingsSteps, ReadPrefs, InsertPrefs, WritePrefs, MergeConfig, UpsertConfig,
     Reload, SetGlobal, At
<1>. QED  BY <1>1, <1>2, <1>3 DEF Step

LEMMA SessionsStay ==
  ASSUME TypeInv, NEW p \in Procs, Step(p)
  PROVE  /\ clock' = clock
         /\ ~Slide(p) /\ ~Mint(p) => UNCHANGED Marks
         /\ ~AskCookie(p) /\ ~Slide(p) /\ ~Endings(p) /\ ~Mint(p) => sessions' = sessions
<1>1. past \in Past
  BY DEF TypeInv, Store
<1>2. CASE IdentitySteps(p)
  <2>1. CASE Patch(p)
    BY <1>1, <2>1, PatchIs DEF world, Past, Marks
  <2>2. CASE AskCookie(p) \/ Slide(p)
    BY <2>2 DEF AskCookie, Slide, world, Marks
  <2>. QED  BY <1>2, <2>1, <2>2 DEF IdentitySteps, AskLan, AskForward, Authorize, Callback,
       SelectByExt, SelectByHandle, Create, Ensure, EnsureInsert, tables, world, Marks
<1>3. CASE AdminSteps(p)
  <2>1. CASE WriteUser(p)
    <3>1. PICK b : past' = [past EXCEPT !.unseated = @ \/ b]
      BY <2>1 DEF WriteUser
    <3>2. UNCHANGED <<sessions, world>>
      BY <2>1 DEF WriteUser
    <3>. QED  BY <1>1, <3>1, <3>2 DEF world, Past, Marks
  <2>2. CASE SweepWrite(p) \/ Revoke(p) \/ Logout(p) \/ Mint(p)
    BY <2>2 DEF SweepWrite, Revoke, Logout, Mint, world, Marks, Endings
  <2>. QED  BY <1>3, <2>1, <2>2 DEF AdminSteps, IsAdmin, LoadUser, CountAdmins, Sweep, Exists,
       InsertUser, Login, tables, world, Marks
<1>4. CASE SettingsSteps(p)
  <2>1. CASE UpsertConfig(p) \/ Reload(p) \/ SetGlobal(p)
    BY <1>1, <2>1 DEF UpsertConfig, Reload, SetGlobal, tables, world, Past, Marks
  <2>. QED  BY <1>4, <2>1 DEF SettingsSteps, ReadPrefs, InsertPrefs, WritePrefs, MergeConfig,
       tables, world, Marks
<1>. QED  BY <1>2, <1>3, <1>4 DEF Step

\* What a revocation leaves of the rows.
LEMMA EndingIs ==
  ASSUME TypeInv, NEW p \in Procs, Endings(p)
  PROVE  /\ DOMAIN sessions' = DOMAIN sessions
         /\ \A s \in DOMAIN sessions :
              LET old == sessions[s]
                  new == sessions'[s]
              IN  /\ new.user = old.user /\ new.era = old.era /\ new.seen = old.seen
                  /\ new.used = old.used /\ new.expires = old.expires
                  /\ old.revoked => new.revoked
                  /\ SweepWrite(p) /\ old.user = loc[p].target => new.revoked
<1>1. \A s \in DOMAIN sessions : sessions[s] \in SessionRow
  BY Rows
<1>2. CASE SweepWrite(p)
  <2>1. sessions' = [s \in DOMAIN sessions |->
          [sessions[s] EXCEPT !.revoked = @ \/ sessions[s].user = loc[p].target]]
    BY <1>2 DEF SweepWrite
  <2>. QED  BY <1>1, <2>1 DEF SessionRow
<1>3. CASE ~SweepWrite(p)
  <2>1. PICK t : sessions' = [sessions EXCEPT ![t].revoked = TRUE]
    BY <1>3 DEF Endings, Revoke, Logout
  <2>. QED  BY <1>1, <1>3, <2>1 DEF SessionRow
<1>. QED  BY <1>2, <1>3

LEMMA SameTimes ==
  ASSUME SlidesOK, clock' = clock, DOMAIN sessions' = DOMAIN sessions,
         \A s \in DOMAIN sessions :
            /\ sessions'[s].seen = sessions[s].seen /\ sessions'[s].used = sessions[s].used
            /\ sessions'[s].expires = sessions[s].expires,
         past'.unslid = past.unslid,
         \A q \in Procs : pc[q] = "slide" => loc[q].row \in DOMAIN sessions,
         \A q \in Procs : pc[q] = "slide" \/ pc'[q] = "slide" => pc'[q] = pc[q] /\ loc'[q] = loc[q]
  PROVE  SlidesOK'
<1>1. \A s \in DOMAIN sessions : (\E q \in Procs : pc[q] = "slide" /\ loc[q].row = s) =>
        \E q \in Procs : pc'[q] = "slide" /\ loc'[q].row = s
  OBVIOUS
<1>2. \A q \in Procs : pc'[q] = "slide" => sessions'[loc'[q].row].used = clock'
  BY DEF SlidesOK
<1>3. \A s \in DOMAIN sessions' :
        /\ sessions'[s].expires = sessions'[s].seen + Ttl
        /\ sessions'[s].seen <= sessions'[s].used
        /\ \/ sessions'[s].used <= sessions'[s].seen + Throttle
           \/ s \in past'.unslid
           \/ \E q \in Procs : pc'[q] = "slide" /\ loc'[q].row = s
  BY <1>1 DEF SlidesOK
<1>. QED  BY <1>2, <1>3 DEF SlidesOK

\* A use that calls for a slide is the start of one.
LEMMA UseKeeps ==
  ASSUME TypeInv, SlidesOK, NEW p \in Procs, AskCookie(p)
  PROVE  SlidesOK'
<1>1. PICK c \in Calls, s \in DOMAIN sessions :
        LET u == users[sessions[s].user]
            next == IF c.op = "me" THEN "idle" ELSE IF u.ext = None THEN "byHandle" ELSE "byExt"
            r == [c EXCEPT !.ext = u.ext, !.handle = u.handle]
        IN  /\ IF ~Answers(s) THEN Done(p)
               ELSE IF clock - sessions[s].seen > Throttle
                    THEN Goto(p, "slide", [r EXCEPT !.row = s])
                    ELSE Goto(p, next, IF next = "idle" THEN Idle ELSE r)
            /\ sessions' = IF Answers(s) THEN [sessions EXCEPT ![s].used = clock] ELSE sessions
  BY DEF AskCookie
<1>2. pc[p] = "idle" /\ UNCHANGED <<clock, past>>
  BY DEF AskCookie, Begin, At, world
<1>3. \A l, r : Goto(p, l, r) => pc'[p] = l /\ loc'[p] = r /\ Others(p)
  BY GotoIs
<1>4. \A q \in Procs : pc[q] = "slide" => loc[q].row \in DOMAIN sessions
  BY DEF TypeInv, Fits, Needs
<1>5. Others(p)
  BY StepMoves DEF Step, IdentitySteps
<1>6. CASE ~Answers(s)
  <2>1. pc'[p] = "idle" /\ sessions' = sessions
    BY <1>1, <1>3, <1>6 DEF Done
  <2>. QED  BY <1>2, <1>4, <1>5, <2>1, SameTimes DEF Others
<1>7. CASE Answers(s)
  <2>1. /\ clock \in Nat /\ sessions[s] \in SessionRow
        /\ sessions[s].seen <= clock
    BY Rows DEF TypeInv, Store, SessionsOK
  <2>2. /\ DOMAIN sessions' = DOMAIN sessions
        /\ \A t \in DOMAIN sessions :
             /\ sessions'[t].seen = sessions[t].seen /\ sessions'[t].expires = sessions[t].expires
             /\ sessions'[t].used = IF t = s THEN clock ELSE sessions[t].used
    BY <1>1, <1>7, Rows DEF SessionRow
  <2>3. /\ pc'[p] = "slide" => loc'[p].row = s
        /\ pc'[p] = "slide" \/ clock - sessions[s].seen <= Throttle
    <3>1. CASE clock - sessions[s].seen > Throttle
      <4>. DEFINE u == users[sessions[s].user]
                  r == [c EXCEPT !.ext = u.ext, !.handle = u.handle]
      <4>1. Goto(p, "slide", [r EXCEPT !.row = s])
        BY <1>1, <1>7, <3>1
      <4>2. Local(c)
        BY Asking
      <4>3. [r EXCEPT !.row = s].row = s
        BY <4>2 DEF Local
      <4>. HIDE DEF r
      <4>. QED  BY <1>3, <4>1, <4>3
    <3>2. CASE ~(clock - sessions[s].seen > Throttle)
      <4>1. \E l, r : l \in {"idle", "byHandle", "byExt"} /\ Goto(p, l, r)
        BY <1>1, <1>7, <3>2
      <4>. QED  BY <1>3, <2>1, <3>2, <4>1, Constants DEF SessionRow
    <3>. QED  BY <3>1, <3>2
  <2>4. ASSUME NEW t \in DOMAIN sessions'
        PROVE  /\ sessions'[t].expires = sessions'[t].seen + Ttl
               /\ sessions'[t].seen <= sessions'[t].used
               /\ \/ sessions'[t].used <= sessions'[t].seen + Throttle
                  \/ t \in past'.unslid
                  \/ \E q \in Procs : pc'[q] = "slide" /\ loc'[q].row = t
    <3>1. CASE t = s
      BY <2>1, <2>2, <2>3, <3>1, Constants DEF SlidesOK, SessionRow
    <3>2. CASE t # s
      <4>1. \A q \in Procs : pc[q] = "slide" => pc'[q] = "slide" /\ loc'[q] = loc[q]
        BY <1>2, <1>5 DEF Others
      <4>. QED  BY <1>2, <2>2, <3>2, <4>1 DEF SlidesOK
    <3>. QED  BY <3>1, <3>2
  <2>5. ASSUME NEW q \in Procs, pc'[q] = "slide" PROVE sessions'[loc'[q].row].used = clock'
    <3>1. CASE q = p
      BY <1>2, <2>2, <2>3, <2>5, <3>1
    <3>2. CASE q # p
      <4>1. pc[q] = "slide" /\ loc'[q] = loc[q] /\ loc[q].row \in DOMAIN sessions
        BY <1>4, <1>5, <2>5, <3>2 DEF Others
      <4>. QED  BY <1>2, <2>2, <4>1 DEF SlidesOK
    <3>. QED  BY <3>1, <3>2
  <2>. QED  BY <2>4, <2>5 DEF SlidesOK
<1>. QED  BY <1>6, <1>7

\* A slide brings its row up to date.
LEMMA SlideKeeps ==
  ASSUME TypeInv, SlidesOK, NEW p \in Procs, Slide(p)
  PROVE  SlidesOK'
<1>. DEFINE s == loc[p].row
<1>1. /\ pc[p] = "slide" /\ clock' = clock
      /\ sessions' = [sessions EXCEPT ![s].seen = clock, ![s].expires = clock + Ttl]
      /\ past' = [past EXCEPT !.unslid = @ \ {s}]
  BY DEF Slide, At, world
<1>2. Others(p) /\ pc'[p] # "slide"
  <2>1. \E l, r : l \in {"idle", "byHandle", "byExt"} /\ Goto(p, l, r)
    BY DEF Slide
  <2>. QED  BY <2>1, GotoIs
<1>3. \A q \in Procs : pc[q] = "slide" =>
        loc[q].row \in DOMAIN sessions /\ sessions[loc[q].row].used = clock
  BY DEF TypeInv, Fits, Needs, SlidesOK
<1>4. /\ clock \in Nat /\ clock + Ttl \in Nat /\ s \in DOMAIN sessions
      /\ \A t \in DOMAIN sessions : sessions[t] \in SessionRow
  BY <1>1, <1>3, Rows, Constants DEF TypeInv, Store, SessionsOK
<1>5. /\ DOMAIN sessions' = DOMAIN sessions
      /\ \A t \in DOMAIN sessions :
           /\ sessions'[t].used = sessions[t].used
           /\ sessions'[t].seen = IF t = s THEN clock ELSE sessions[t].seen
           /\ sessions'[t].expires = IF t = s THEN clock + Ttl ELSE sessions[t].expires
  <2>. HIDE DEF s
  <2>. QED  BY <1>1, <1>4 DEF SessionRow
<1>6. past'.unslid = past.unslid \ {s}
  BY <1>1 DEF TypeInv, Store, Past
<1>7. ASSUME NEW t \in DOMAIN sessions'
      PROVE  /\ sessions'[t].expires = sessions'[t].seen + Ttl
             /\ sessions'[t].seen <= sessions'[t].used
             /\ \/ sessions'[t].used <= sessions'[t].seen + Throttle
                \/ t \in past'.unslid
                \/ \E q \in Procs : pc'[q] = "slide" /\ loc'[q].row = t
  <2>1. CASE t = s
    <3>1. sessions[s].used = clock
      BY <1>1, <1>3
    <3>. HIDE DEF s
    <3>. QED  BY <1>4, <1>5, <2>1, <3>1, Constants
  <2>2. CASE t # s
    <3>1. \A q \in Procs : pc[q] = "slide" /\ loc[q].row = t => pc'[q] = "slide" /\ loc'[q] = loc[q]
      BY <1>2, <2>2 DEF Others
    <3>. HIDE DEF s
    <3>. QED  BY <1>5, <1>6, <2>2, <3>1 DEF SlidesOK
  <2>. QED  BY <2>1, <2>2
<1>8. ASSUME NEW q \in Procs, pc'[q] = "slide" PROVE sessions'[loc'[q].row].used = clock'
  <2>1. pc[q] = "slide" /\ loc'[q] = loc[q]
    BY <1>2, <1>8 DEF Others
  <2>. HIDE DEF s
  <2>. QED  BY <1>1, <1>3, <1>5, <2>1
<1>. QED  BY <1>7, <1>8 DEF SlidesOK

LEMMA MintKeepsSlides ==
  ASSUME TypeInv, SlidesOK, NEW p \in Procs, Mint(p)
  PROVE  SlidesOK'
<1>. DEFINE n == Len(sessions) + 1
<1>1. /\ pc[p] = "mint" /\ DOMAIN sessions' = DOMAIN sessions \cup {n} /\ n \notin DOMAIN sessions
      /\ sessions'[n] = Minted(p) /\ \A s \in DOMAIN sessions : sessions'[s] = sessions[s]
  BY MintRow
<1>2. clock' = clock /\ clock \in Nat /\ past'.unslid = past.unslid
  BY DEF Mint, world, TypeInv, Store, SessionsOK, Past
<1>3. Others(p) /\ pc'[p] = "idle"
  BY GotoIs DEF Mint, Done
<1>4. \A q \in Procs : pc[q] = "slide" =>
        loc[q].row \in DOMAIN sessions /\ sessions[loc[q].row].used = clock
  BY DEF TypeInv, Fits, Needs, SlidesOK
<1>5. \A q \in Procs : pc[q] = "slide" \/ pc'[q] = "slide" => pc'[q] = pc[q] /\ loc'[q] = loc[q]
  BY <1>1, <1>3 DEF Others
<1>. HIDE DEF n
<1>6. ASSUME NEW t \in DOMAIN sessions'
      PROVE  /\ sessions'[t].expires = sessions'[t].seen + Ttl
             /\ sessions'[t].seen <= sessions'[t].used
             /\ \/ sessions'[t].used <= sessions'[t].seen + Throttle
                \/ t \in past'.unslid
                \/ \E q \in Procs : pc'[q] = "slide" /\ loc'[q].row = t
  <2>1. CASE t = n
    <3>1. /\ sessions'[t].expires = clock + Ttl /\ sessions'[t].seen = clock
          /\ sessions'[t].used = clock
      BY <1>1, <2>1 DEF Minted
    <3>. QED  BY <1>2, <3>1, Constants
  <2>2. CASE t # n
    BY <1>1, <1>2, <1>5, <2>2 DEF SlidesOK
  <2>. QED  BY <2>1, <2>2
<1>7. \A q \in Procs : pc'[q] = "slide" => sessions'[loc'[q].row].used = clock'
  BY <1>1, <1>2, <1>4, <1>5
<1>. QED  BY <1>6, <1>7 DEF SlidesOK

LEMMA SlidesStep == TypeInv /\ SlidesOK /\ [Next]_accVars => SlidesOK'
<1>. SUFFICES ASSUME TypeInv, SlidesOK, [Next]_accVars PROVE SlidesOK'
  OBVIOUS
<1>1. \A q \in Procs : pc[q] = "slide" => loc[q].row \in DOMAIN sessions
  BY DEF TypeInv, Fits, Needs
<1>2. ASSUME NEW p \in Procs, Step(p), ~AskCookie(p), ~Slide(p), ~Mint(p) PROVE SlidesOK'
  <2>1. Others(p) /\ pc[p] # "slide" /\ pc'[p] # "slide"
    BY <1>2, StepMoves, Leaves, Lands
  <2>2. clock' = clock /\ past'.unslid = past.unslid
    BY <1>2, SessionsStay DEF Marks
  <2>3. /\ DOMAIN sessions' = DOMAIN sessions
        /\ \A s \in DOMAIN sessions :
             /\ sessions'[s].seen = sessions[s].seen /\ sessions'[s].used = sessions[s].used
             /\ sessions'[s].expires = sessions[s].expires
    BY <1>2, SessionsStay, EndingIs
  <2>4. \A q \in Procs : pc[q] = "slide" \/ pc'[q] = "slide" => pc'[q] = pc[q] /\ loc'[q] = loc[q]
    BY <2>1 DEF Others
  <2>. QED  BY <1>1, <2>2, <2>3, <2>4, SameTimes
<1>3. CASE Tick
  <2>1. UNCHANGED <<sessions, pc, loc, past>> /\ \A q \in Procs : pc[q] # "slide"
    BY <1>3 DEF Tick, tables, At
  <2>. QED  BY <2>1 DEF SlidesOK
<1>4. CASE Rename \/ UNCHANGED accVars
  <2>1. UNCHANGED <<sessions, clock, pc, loc, past>>
    BY <1>4 DEF Rename, accVars, tables, world
  <2>. QED  BY <1>1, <2>1, SameTimes
<1>5. CASE Restart
  <2>1. /\ sessions' = sessions /\ \A q \in Procs : pc'[q] = "idle"
        /\ past'.unslid = past.unslid \cup {loc[p].row : p \in {q \in Procs : pc[q] = "slide"}}
    BY <1>5 DEF Restart, At, TypeInv, Store, Past
  <2>. QED  BY <2>1 DEF SlidesOK
<1>. QED  BY <1>2, <1>3, <1>4, <1>5, UseKeeps, SlideKeeps, MintKeepsSlides DEF Next, Step

\* A revocation, a new password or a lock in between: the sweep stays on its way.
LEMMA SameEras ==
  ASSUME TypeInv, ErasOK, DOMAIN sessions' = DOMAIN sessions,
         \A s \in DOMAIN sessions :
            /\ sessions'[s].user = sessions[s].user /\ sessions'[s].era = sessions[s].era
            /\ sessions[s].revoked => sessions'[s].revoked,
         past'.raced = past.raced, past.unswept \subseteq past'.unswept,
         \A s \in DOMAIN sessions :
            LET u == sessions[s].user
            IN  ~sessions'[s].revoked =>
                  /\ \/ users'[u].era = users[u].era
                     \/ \E q \in Procs : pc'[q] \in {"sweep", "sweepWrite"} /\ loc'[q].target = u
                  /\ (\E q \in Procs : Sweeps(q, u)) =>
                        \/ u \in past'.unswept
                        \/ \E q \in Procs : pc'[q] \in {"sweep", "sweepWrite"} /\ loc'[q].target = u
  PROVE  ErasOK'
<1>. SUFFICES ASSUME NEW s \in DOMAIN sessions, ~sessions'[s].revoked
     PROVE  \/ s \in past'.raced \/ sessions'[s].user \in past'.unswept
            \/ sessions'[s].era = users'[sessions'[s].user].era
            \/ \E q \in Procs : pc'[q] \in {"sweep", "sweepWrite"} /\ loc'[q].target = sessions'[s].user
  BY DEF ErasOK, Sweeps
<1>. DEFINE u == sessions[s].user
<1>1. /\ sessions'[s].user = u /\ sessions'[s].era = sessions[s].era /\ ~sessions[s].revoked
  <2>1. sessions[s].revoked \in BOOLEAN
    BY Rows DEF SessionRow
  <2>. QED  BY <2>1
<1>2. /\ \/ users'[u].era = users[u].era
         \/ \E q \in Procs : pc'[q] \in {"sweep", "sweepWrite"} /\ loc'[q].target = u
      /\ (\E q \in Procs : Sweeps(q, u)) =>
            \/ u \in past'.unswept
            \/ \E q \in Procs : pc'[q] \in {"sweep", "sweepWrite"} /\ loc'[q].target = u
  OBVIOUS
<1>3. \/ s \in past.raced \/ u \in past.unswept \/ sessions[s].era = users[u].era
      \/ \E q \in Procs : Sweeps(q, u)
  BY <1>1 DEF ErasOK
<1>. HIDE DEF u
<1>. QED  BY <1>1, <1>2, <1>3

\* A write that ends an era goes on to the sweep.
LEMMA WriteSweeps ==
  ASSUME TypeInv, ErasOK, NEW p \in Procs, WriteUser(p)
  PROVE  ErasOK'
<1>. DEFINE r == loc[p]
            ends == r.op = "resetPassword" \/ (r.op = "setEnabled" /\ ~r.to)
<1>1. PICK row \in UserRow :
        /\ users' = [users EXCEPT ![r.target] = row]
        /\ row.era = IF ends THEN users[r.target].era + 1 ELSE users[r.target].era
  BY WriteRow
<1>2. pc[p] = "write" /\ UNCHANGED sessions /\ (IF ends THEN Goto(p, "sweep", r) ELSE Done(p))
  BY DEF WriteUser, At
<1>3. Others(p) /\ UNCHANGED Marks
  BY StepMoves, SessionsStay DEF Step, AdminSteps, WriteUser, Slide, Mint, At
<1>4. \A u : (\E q \in Procs : Sweeps(q, u)) =>
        \E q \in Procs : pc'[q] \in {"sweep", "sweepWrite"} /\ loc'[q].target = u
  BY <1>2, <1>3 DEF Sweeps, Others
<1>5. ends => pc'[p] = "sweep" /\ loc'[p] = r
  BY <1>2, GotoIs
<1>6. \A u \in DOMAIN users : users'[u].era = users[u].era \/ (u = r.target /\ ends)
  <2>. HIDE DEF ends
  <2>. QED  BY <1>1
<1>7. \A s \in DOMAIN sessions : sessions[s].user \in DOMAIN users
  BY Rows
<1>. HIDE DEF ends
<1>. QED  BY <1>2, <1>3, <1>4, <1>5, <1>6, <1>7, SameEras DEF Marks

LEMMA MintKeepsEras ==
  ASSUME TypeInv, ErasOK, NEW p \in Procs, Mint(p)
  PROVE  ErasOK'
<1>. DEFINE n == Len(sessions) + 1
<1>1. /\ pc[p] = "mint" /\ DOMAIN sessions' = DOMAIN sessions \cup {n} /\ n \notin DOMAIN sessions
      /\ sessions'[n] = Minted(p) /\ \A s \in DOMAIN sessions : sessions'[s] = sessions[s]
  BY MintRow
<1>2. /\ users' = users
      /\ past' = IF loc[p].era = users[loc[p].row].era THEN past
                 ELSE [past EXCEPT !.raced = @ \cup {n}]
  BY DEF Mint
<1>3. /\ past'.unswept = past.unswept
      /\ past'.raced = IF loc[p].era = users[loc[p].row].era THEN past.raced ELSE past.raced \cup {n}
  BY <1>2 DEF TypeInv, Store, Past
<1>4. Others(p)
  BY StepMoves DEF Step, AdminSteps
<1>5. \A u : (\E q \in Procs : Sweeps(q, u)) =>
        \E q \in Procs : pc'[q] \in {"sweep", "sweepWrite"} /\ loc'[q].target = u
  BY <1>1, <1>4 DEF Sweeps, Others
<1>. HIDE DEF n
<1>6. ASSUME NEW s \in DOMAIN sessions', ~sessions'[s].revoked
      PROVE  \/ s \in past'.raced \/ sessions'[s].user \in past'.unswept
             \/ sessions'[s].era = users'[sessions'[s].user].era
             \/ \E q \in Procs : pc'[q] \in {"sweep", "sweepWrite"} /\ loc'[q].target = sessions'[s].user
  <2>1. CASE s = n
    <3>1. sessions'[s].era = loc[p].era /\ sessions'[s].user = loc[p].row
      BY <1>1, <2>1 DEF Minted
    <3>. QED  BY <1>2, <1>3, <2>1, <3>1
  <2>2. CASE s # n
    <3>1. s \in DOMAIN sessions /\ sessions'[s] = sessions[s]
      BY <1>1, <2>2
    <3>2. \/ s \in past.raced \/ sessions[s].user \in past.unswept
          \/ sessions[s].era = users[sessions[s].user].era
          \/ \E q \in Procs : Sweeps(q, sessions[s].user)
      BY <1>6, <3>1 DEF ErasOK
    <3>. QED  BY <1>2, <1>3, <1>5, <3>1, <3>2
  <2>. QED  BY <2>1, <2>2
<1>. QED  BY <1>6 DEF ErasOK, Sweeps

LEMMA ErasStep == TypeInv /\ ErasOK /\ [Next]_accVars => ErasOK'
<1>. SUFFICES ASSUME TypeInv, ErasOK, [Next]_accVars PROVE ErasOK'
  OBVIOUS
<1>0. \A s \in DOMAIN sessions : sessions[s].user \in DOMAIN users
  BY Rows
<1>1. ASSUME NEW p \in Procs, Step(p), ~WriteUser(p), ~Mint(p) PROVE ErasOK'
  <2>1. Others(p) /\ \A u \in DOMAIN users : users'[u].era = users[u].era
    BY <1>1, StepMoves, SeatStays
  <2>2. past'.raced = past.raced /\ past'.unswept = past.unswept
    <3>1. CASE Slide(p)
      BY <3>1 DEF Slide, TypeInv, Store, Past
    <3>. QED  BY <1>1, <3>1, SessionsStay DEF Marks
  <2>3. /\ DOMAIN sessions' = DOMAIN sessions
        /\ \A s \in DOMAIN sessions :
             /\ sessions'[s].user = sessions[s].user /\ sessions'[s].era = sessions[s].era
             /\ sessions[s].revoked => sessions'[s].revoked
    <3>1. CASE AskCookie(p)
      <4>1. \/ sessions' = sessions
            \/ \E s \in DOMAIN sessions : sessions' = [sessions EXCEPT ![s].used = clock]
        BY <3>1 DEF AskCookie
      <4>. QED  BY ZenonT(60), <4>1, Rows DEF SessionRow
    <3>2. CASE Slide(p)
      <4>1. sessions' = [sessions EXCEPT ![loc[p].row].seen = clock,
                                         ![loc[p].row].expires = clock + Ttl]
        BY <3>2 DEF Slide
      <4>. QED  BY <4>1, Rows DEF SessionRow
    <3>. QED  BY <1>1, <3>1, <3>2, SessionsStay, EndingIs
  <2>4. ASSUME NEW s \in DOMAIN sessions, ~sessions'[s].revoked,
               NEW q \in Procs, Sweeps(q, sessions[s].user)
        PROVE  \E x \in Procs : pc'[x] \in {"sweep", "sweepWrite"} /\ loc'[x].target = sessions[s].user
    <3>1. CASE q # p
      BY <2>1, <2>4, <3>1 DEF Others, Sweeps
    <3>2. CASE q = p /\ Sweep(p)
      <4>1. s \in Unrevoked(loc[p].target)
        BY <2>3, <2>4, <3>2 DEF Unrevoked, Sweeps
      <4>2. Goto(p, "sweepWrite", loc[p])
        BY <3>2, <4>1 DEF Sweep
      <4>. QED  BY <2>4, <3>2, <4>2, GotoIs DEF Sweeps
    <3>3. CASE q = p /\ SweepWrite(p)
      BY <2>4, <3>3, EndingIs DEF Sweeps, Endings
    <3>. QED  BY <1>1, <2>4, <3>1, <3>2, <3>3, Leaves DEF Sweeps
  <2>. QED  BY <1>0, <2>1, <2>2, <2>3, <2>4, SameEras
<1>2. CASE Tick \/ Rename \/ UNCHANGED accVars
  <2>1. UNCHANGED <<users, sessions, pc, loc, past>>
    BY <1>2 DEF Tick, Rename, accVars, tables
  <2>. QED  BY <2>1 DEF ErasOK, Sweeps
<1>3. CASE Restart
  <2>1. /\ sessions' = sessions /\ users' = Seeded(users)
        /\ past'.raced = past.raced
        /\ past'.unswept = past.unswept \cup
             {loc[p].target : p \in {q \in Procs : pc[q] \in {"sweep", "sweepWrite"}}}
    BY <1>3 DEF Restart, TypeInv, Store, Past
  <2>2. users \in Seq(UserRow)
    BY DEF TypeInv, Store, UsersOK
  <2>3. \A u \in DOMAIN users : users'[u].era = users[u].era
    BY <2>1, <2>2, SeedIs DEF SameUser
  <2>4. \A u : (\E q \in Procs : Sweeps(q, u)) => u \in past'.unswept
    BY <2>1 DEF Sweeps
  <2>. QED  BY <1>0, <2>1, <2>3, <2>4, SameEras
<1>. QED  BY <1>1, <1>2, <1>3, WriteSweeps, MintKeepsEras DEF Next, Step

LEMMA SessionsInit == Init => SlidesOK /\ ErasOK
BY DEF Init, SlidesOK, ErasOK

\* A lock or a new password ends every session a login before it minted, and a session
\* answers for as long after its last use as the throttle allows and no longer, in any
\* order of logins, requests, slides, sweeps, renames and restarts.  The invariant adds
\* where a session's times can be between its use and its slide, and that a session of
\* an earlier era is revoked or has its sweep under way.
THEOREM SessionsDoEnd == Spec => []SessionsEnd
<1>1. TypeInv /\ SlidesOK /\ ErasOK => SessionsEnd
  <2>. SUFFICES ASSUME TypeInv, SlidesOK, ErasOK, NEW s \in DOMAIN sessions
       PROVE  LET u == sessions[s].user
              IN  /\ Answers(s) /\ s \notin past.raced /\ u \notin past.unswept
                        => \/ sessions[s].era = users[u].era
                           \/ \E p \in Procs : /\ pc[p] \in {"sweep", "sweepWrite"}
                                               /\ loc[p].target = u
                  /\ Answers(s) => clock < sessions[s].used + Ttl
                  /\ (\A p \in Procs : ~At(p, "slide")) /\ s \notin past.unslid
                        /\ users[u].on /\ ~sessions[s].revoked
                        => (clock < sessions[s].used + Ttl - Throttle => Answers(s))
    BY DEF SessionsEnd
  <2>1. sessions[s] \in SessionRow /\ clock \in Nat
    BY Rows DEF TypeInv, Store, SessionsOK
  <2>2. /\ sessions[s].expires = sessions[s].seen + Ttl /\ sessions[s].seen <= sessions[s].used
        /\ \/ sessions[s].used <= sessions[s].seen + Throttle
           \/ s \in past.unslid
           \/ \E p \in Procs : pc[p] = "slide" /\ loc[p].row = s
    BY DEF SlidesOK
  <2>3. sessions[s].seen \in Nat /\ sessions[s].used \in Nat
    BY <2>1 DEF SessionRow
  <2>4. Answers(s) => clock < sessions[s].used + Ttl
    BY <2>1, <2>2, <2>3, Constants DEF Answers
  <2>5. ASSUME \A p \in Procs : ~At(p, "slide"), s \notin past.unslid, users[sessions[s].user].on,
               ~sessions[s].revoked, clock < sessions[s].used + Ttl - Throttle
        PROVE  Answers(s)
    <3>1. sessions[s].used <= sessions[s].seen + Throttle
      BY <2>2, <2>5 DEF At
    <3>2. clock < sessions[s].expires
      BY <2>1, <2>2, <2>3, <2>5, <3>1, Constants
    <3>. QED  BY <2>5, <3>2 DEF Answers
  <2>. QED  BY <2>4, <2>5 DEF ErasOK, Sweeps, Answers
<1>. QED  BY <1>1, TypeInit, TypeStep, SessionsInit, SlidesStep, ErasStep, PTL DEF Spec

-----------------------------------------------------------------------------
(***************************************************************************)
(* One tenant per person.                                                  *)
(***************************************************************************)
\* Two who could both have a name have passed one on.
LEMMA Both ==
  ASSUME NEW e \in Subs, NEW f \in Subs, e # f, NEW h, Plausible(e, h), Plausible(f, h)
  PROVE  PassedOn(e) /\ PassedOn(f)
BY DEF Plausible

\* The name a person has now could be nobody else's.
LEMMA Now ==
  ASSUME NEW e \in Subs, NEW h, h \in idp[e].had
  PROVE  Plausible(e, h)
BY DEF Plausible, PassedOn

\* What one of two who swapped could be called, the other could be.
LEMMA Swap ==
  ASSUME NEW e \in Subs, NEW f \in Subs, NEW h, Plausible(e, h), PassedOn(e), PassedOn(f)
  PROVE  Plausible(f, h)
BY DEF Plausible

\* Names are only added.
Grown ==
  /\ \A e \in Subs : \A h : Plausible(e, h) => Plausible(e, h)'
  /\ \A e \in Subs : PassedOn(e) => PassedOn(e)'
  /\ \A e \in Subs : \A h : Named(e, h) => Named(e, h)'

LEMMA SameNames == idp' = idp => Grown
BY DEF Grown, Plausible, PassedOn, Named

LEMMA NewName ==
  ASSUME TypeInv, PeopleInv, Rename
  PROVE  Grown /\ \A e \in Subs : idp'[e].now \in idp'[e].had
<1>1. PICK x \in Subs, n \in Handles : idp' = [idp EXCEPT ![x] = [now |-> n, had |-> @.had \cup {n}]]
  BY DEF Rename
<1>2. \A e \in Subs : /\ idp'[e].had = IF e = x THEN idp[e].had \cup {n} ELSE idp[e].had
                      /\ idp'[e].now = IF e = x THEN n ELSE idp[e].now
  BY <1>1 DEF TypeInv, Store, WorldOK
<1>3. ASSUME NEW e \in Subs, PassedOn(e) PROVE PassedOn(e)'
  <2>1. PICK f \in Subs \ {e} : idp[e].had \cap idp[f].had # {}
    BY <1>3 DEF PassedOn
  <2>2. idp'[e].had \cap idp'[f].had # {}
    BY <1>2, <2>1
  <2>. QED  BY <2>2 DEF PassedOn
<1>4. ASSUME NEW e \in Subs, NEW h, Plausible(e, h) PROVE Plausible(e, h)'
  <2>1. \E y \in Subs : h \in idp'[y].had
    BY <1>2, <1>4 DEF Plausible
  <2>2. h \in idp'[e].had \/ PassedOn(e)'
    BY <1>2, <1>3, <1>4 DEF Plausible
  <2>3. ASSUME NEW y \in Subs \ {e}, h \in idp'[y].had PROVE PassedOn(y)'
    <3>1. CASE h \in idp[y].had
      BY <1>3, <1>4, <3>1 DEF Plausible
    <3>2. CASE h \notin idp[y].had
      <4>1. PICK z \in Subs : h \in idp[z].had
        BY <1>4 DEF Plausible
      <4>2. z # y /\ h \in idp'[z].had
        BY <1>2, <3>2, <4>1
      <4>. QED  BY <2>3, <4>2 DEF PassedOn
    <3>. QED  BY <3>1, <3>2
  <2>. QED  BY <2>1, <2>2, <2>3 DEF Plausible
<1>5. \A e \in Subs : idp'[e].now \in idp'[e].had
  BY <1>2 DEF PeopleInv, PeopleOK
<1>6. ASSUME NEW e \in Subs, NEW h, Named(e, h) PROVE Named(e, h)'
  BY <1>2, <1>3, <1>6 DEF Named
<1>. QED  BY <1>3, <1>4, <1>5, <1>6 DEF Grown

LEMMA BelongsStill ==
  ASSUME Grown, mix' = mix, past.crossed \subseteq past'.crossed, NEW r \in UserRow, Belongs(r)
  PROVE  Belongs(r)'
<1>1. r.ext \in Subs \cup {None} /\ r.own \in Subs \cup {None}
  BY DEF UserRow
<1>. QED  BY <1>1 DEF Belongs, Grown

\* What a request knows stays true of a row that keeps its name and its person.
LEMMA PersonStill ==
  ASSUME Grown, mix' = mix, past.crossed \subseteq past'.crossed,
         NEW l, NEW r, Local(r), Person(l, r), l = "patch" => users[r.row] \in UserRow /\ r.ext # None,
         l \in {"patch", "mint"} => /\ users'[r.row].ext = users[r.row].ext
                                    /\ users'[r.row].handle = users[r.row].handle,
         l \in {"ensure", "ensureInsert"} /\ ByHandle(r.handle) # {} /\ r.handle \notin past'.crossed
            => ByHandle(r.handle)' # {}
  PROVE  Person(l, r)'
<1>1. r.ext \in Subs \cup {None} /\ r.who \in Subs \cup {None}
  BY DEF Local
<1>2. /\ l \in Resolving /\ mix.mode = "oidc" => r.ext # None
      /\ l \in Resolving /\ mix.mode # "local" /\ r.ext = None => r.who # None
      /\ l \in Resolving /\ r.who # None => r.who \in mix.nameless /\ Named(r.who, r.handle)'
      /\ l \in Resolving /\ r.op = "callback" => r.ext # None
      /\ l \in Resolving /\ r.ext # None => Plausible(r.ext, r.handle)'
  BY <1>1 DEF Person, Grown
<1>3. ASSUME l = "patch"
      PROVE  LET row == users'[r.row]
             IN  /\ r.fix \in {{"ext"}, {"handle"}}
                 /\ Swapped(r.ext, users[r.row].ext)'
                 /\ "ext" \in r.fix => /\ Plausible(r.ext, users[r.row].handle)'
                                       /\ row.handle = r.handle \/ r.handle \in past'.crossed
                 /\ "ext" \notin r.fix => row.ext # None
  <2>1. users[r.row].ext \in Subs \cup {None} /\ r.ext \in Subs
    BY <1>1, <1>3 DEF UserRow
  <2>2. PICK f, h : f = users[r.row].ext /\ h = users[r.row].handle
    OBVIOUS
  <2>3. /\ r.fix \in {{"ext"}, {"handle"}} /\ Swapped(r.ext, f)
        /\ "ext" \in r.fix => Plausible(r.ext, h) /\ (h = r.handle \/ r.handle \in past.crossed)
        /\ "ext" \notin r.fix => f # None
    BY <1>3, <2>2 DEF Person
  <2>4. users'[r.row].ext = f /\ users'[r.row].handle = h
    BY <1>3, <2>2
  <2>5. Swapped(r.ext, f)'
    BY <2>1, <2>2, <2>3 DEF Swapped, Grown
  <2>6. "ext" \in r.fix => Plausible(r.ext, h)'
    BY <2>1, <2>3 DEF Grown
  <2>7. Swapped(r.ext, users[r.row].ext)'
    BY <2>4, <2>5 DEF Swapped
  <2>8. "ext" \in r.fix => Plausible(r.ext, users[r.row].handle)'
    BY <2>4, <2>6 DEF Plausible
  <2>. QED  BY <2>3, <2>4, <2>7, <2>8
<1>4. l \in {"ensure", "ensureInsert"} /\ r.handle \notin past'.crossed =>
        r.handle = Owner \/ ByHandle(r.handle)' # {}
  BY DEF Person
<1>5. l = "mint" /\ mix.mode = "oidc" => users'[r.row].ext # None
  BY DEF Person
<1>. QED  BY <1>2, <1>3, <1>4, <1>5 DEF Person

\* A request that writes no row but new ones, and goes on knowing what it should.
Kept == \A u \in DOMAIN users :
          /\ u \in DOMAIN users' /\ users'[u].handle = users[u].handle /\ users'[u].ext = users[u].ext
          /\ users'[u].own = users[u].own /\ users'[u].by = users[u].by

LEMMA PeopleFrame ==
  ASSUME TypeInv, TypeInv', PeopleInv, NEW p \in Procs, Others(p), UNCHANGED <<idp, mix>>,
         past.crossed \subseteq past'.crossed, Kept,
         \A u \in DOMAIN users' \ DOMAIN users : \A r : r = users'[u] => Belongs(r)',
         mix.mode = "oidc" => \A s \in DOMAIN sessions' :
              \/ s \in DOMAIN sessions /\ sessions'[s].user = sessions[s].user
              \/ users'[sessions'[s].user].ext # None,
         \A l, r : l = pc'[p] /\ r = loc'[p] => Person(l, r)'
  PROVE  PeopleInv'
<1>1. Grown
  BY SameNames
<1>2. \A e \in Subs : idp'[e].now \in idp'[e].had
  BY DEF PeopleInv, PeopleOK
<1>3. ASSUME NEW u \in DOMAIN users' PROVE Belongs(users[u])'
  <2>1. CASE u \in DOMAIN users
    <3>1. PICK r : r = users[u]
      OBVIOUS
    <3>2. r \in UserRow /\ Belongs(r)
      BY <2>1, <3>1, Rows DEF PeopleInv, PeopleOK
    <3>3. Belongs(r)'
      BY <1>1, <3>2, BelongsStill
    <3>4. /\ users'[u].handle = r.handle /\ users'[u].ext = r.ext
          /\ users'[u].own = r.own /\ users'[u].by = r.by
      BY <2>1, <3>1 DEF Kept
    <3>. QED  BY <3>3, <3>4 DEF Belongs
  <2>2. CASE u \notin DOMAIN users
    <3>1. PICK r : r = users'[u]
      OBVIOUS
    <3>2. Belongs(r)'
      BY <2>2, <3>1
    <3>. QED  BY <3>1, <3>2 DEF Belongs
  <2>. QED  BY <2>1, <2>2
<1>4. mix'.mode = "oidc" => \A s \in DOMAIN sessions' : users'[sessions'[s].user].ext # None
  <2>1. \A s \in DOMAIN sessions : sessions[s].user \in DOMAIN users
    BY Rows
  <2>. QED  BY <2>1 DEF PeopleInv, PeopleOK, Kept
<1>5. ASSUME NEW q \in Procs PROVE Person(pc[q], loc[q])'
  <2>1. CASE q = p
    <3>1. PICK l, r : l = pc'[p] /\ r = loc'[p]
      OBVIOUS
    <3>2. Person(l, r)'
      BY <3>1
    <3>. QED  BY <2>1, <3>1, <3>2 DEF Person
  <2>2. CASE q # p
    <3>1. PICK l, r : l = pc[q] /\ r = loc[q]
      OBVIOUS
    <3>2. Local(r) /\ Person(l, r) /\ Needs(l, r) /\ pc'[q] = l /\ loc'[q] = r
      BY <2>2, <3>1 DEF Others, TypeInv, Fits, PeopleInv
    <3>3. l \in {"patch", "mint"} => r.row \in DOMAIN users
      BY <3>2 DEF Needs
    <3>4. l = "patch" => r.ext # None /\ users[r.row] \in UserRow
      BY <3>2, <3>3, Rows DEF Needs
    <3>5. l \in {"patch", "mint"} => /\ users'[r.row].ext = users[r.row].ext
                                     /\ users'[r.row].handle = users[r.row].handle
      BY <3>3 DEF Kept
    <3>6. ByHandle(r.handle) # {} => ByHandle(r.handle)' # {}
      BY DEF Kept, ByHandle
    <3>7. Person(l, r)'
      BY <1>1, <3>2, <3>4, <3>5, <3>6, PersonStill
    <3>. QED  BY <3>2, <3>7 DEF Person
  <2>. QED  BY <2>1, <2>2
<1>. QED  BY <1>2, <1>3, <1>4, <1>5 DEF PeopleInv, PeopleOK

\* One that writes no row at all.
LEMMA PeopleQuiet ==
  ASSUME TypeInv, TypeInv', PeopleInv, NEW p \in Procs, Others(p),
         UNCHANGED <<users, idp, mix, past>>, DOMAIN sessions' = DOMAIN sessions,
         \A s \in DOMAIN sessions : sessions'[s].user = sessions[s].user,
         NEW l, NEW r, pc'[p] = l, loc'[p] = r, Person(l, r)
  PROVE  PeopleInv'
<1>1. Person(l, r)'
  BY DEF Person, Plausible, PassedOn, Named, Swapped, ByHandle
<1>2. Kept
  BY DEF Kept
<1>. QED  BY <1>1, <1>2, PeopleFrame

\* Most labels ask nothing of the person.
LEMMA NoPerson ==
  ASSUME NEW l, NEW r, l \notin Resolving \cup {"ensure", "ensureInsert", "mint"}
  PROVE  Person(l, r)
BY DEF Person, Resolving

\* A request that has its row: the name is there, and the row is somebody's.
LEMMA ResolvedPerson ==
  ASSUME TypeInv, NEW p \in Procs, NEW r, Resolved(p, r),
         r.handle \notin past.crossed => r.handle = Owner \/ ByHandle(r.handle) # {},
         r.op = "callback" /\ mix.mode = "oidc" => users[r.row].ext # None
  PROVE  \E l, x : pc'[p] = l /\ loc'[p] = x /\ Person(l, x)
<1>1. CASE Done(p)
  BY <1>1, GotoIs, NoPerson DEF Done, Resolving
<1>2. CASE ~Done(p)
  <2>1. PICK l \in {"mint", "ensure"} : Goto(p, l, r) /\ (l = "mint" <=> r.op = "callback")
    BY <1>2 DEF Resolved
  <2>2. Person(l, r)
    BY <2>1 DEF Person, Resolving
  <2>. QED  BY <2>1, <2>2, GotoIs
<1>. QED  BY <1>1, <1>2

LEMMA PeopleAsks ==
  ASSUME TypeInv, TypeInv', PeopleInv, NEW p \in Procs, AskLan(p) \/ AskForward(p) \/ Callback(p)
  PROVE  PeopleInv'
<1>1. Others(p)
  BY StepMoves DEF Step, IdentitySteps
<1>2. UNCHANGED <<users, sessions, idp, mix, past>>
  BY DEF AskLan, AskForward, Callback, tables, world
<1>3. \A c \in Calls : Local(c) /\ c.op \in OnHandlers \cup {"me"}
  BY Asking
<1>4. CASE AskLan(p)
  <2>1. PICK c \in Calls : Goto(p, "ensure", [c EXCEPT !.handle = Owner, !.role = "admin"])
    BY <1>4 DEF AskLan
  <2>. DEFINE r == [c EXCEPT !.handle = Owner, !.role = "admin"]
  <2>2. r.handle = Owner
    BY <1>3 DEF Local
  <2>. HIDE DEF r
  <2>3. Person("ensure", r)
    BY <2>2 DEF Person, Resolving
  <2>. QED  BY <1>1, <1>2, <2>1, <2>3, GotoIs, PeopleQuiet DEF r
<1>5. ASSUME NEW e \in Subs, NEW r, Goto(p, "byExt", r), r.ext = e, r.handle = idp[e].now,
             r.who = None
      PROVE  PeopleInv'
  <2>1. Plausible(e, idp[e].now) /\ e # None
    BY Now, Constants DEF PeopleInv, PeopleOK
  <2>2. Person("byExt", r)
    BY <1>5, <2>1 DEF Person, Resolving
  <2>. QED  BY <1>1, <1>2, <1>5, <2>2, GotoIs, PeopleQuiet
<1>6. CASE AskForward(p)
  <2>1. PICK c \in Calls, e \in Subs :
          LET r == [c EXCEPT !.handle = idp[e].now, !.boss = e \in Bosses]
          IN  \/ Goto(p, "byExt", [r EXCEPT !.ext = e])
              \/ e \in mix.nameless /\ Goto(p, "byHandle", [r EXCEPT !.who = e])
    BY <1>6 DEF AskForward
  <2>. DEFINE b == e \in Bosses
              r == [c EXCEPT !.handle = idp[e].now, !.boss = b]
              x == [r EXCEPT !.ext = e]
              y == [r EXCEPT !.who = e]
  <2>2. Local(r) /\ r.ext = c.ext /\ r.handle = idp[e].now /\ r.op = c.op /\ r.who = c.who
    <3>1. b \in BOOLEAN
      OBVIOUS
    <3>. HIDE DEF b
    <3>2. idp[e].now \in Handles
      BY DEF TypeInv, Store, WorldOK
    <3>3. Local(c)
      BY <1>3
    <3>4. r.ext = c.ext /\ r.handle = idp[e].now /\ r.op = c.op /\ r.who = c.who
      BY <3>3 DEF Local
    <3>5. Local(r)
      BY <3>1, <3>2, <3>3 DEF Local
    <3>. QED  BY <3>4, <3>5
  <2>3. c.ext = None /\ c.who = None /\ c.op # "callback"
    BY Unnamed
  <2>. HIDE DEF r
  <2>4. /\ x.ext = e /\ x.handle = idp[e].now /\ x.who = None
        /\ y.ext = None /\ y.handle = idp[e].now /\ y.who = e /\ y.op # "callback"
    BY <2>2, <2>3 DEF Local
  <2>. HIDE DEF x, y
  <2>5. CASE Goto(p, "byExt", x)
    BY <1>5, <2>4, <2>5
  <2>6. CASE e \in mix.nameless /\ Goto(p, "byHandle", y)
    <3>1. Named(e, idp[e].now) /\ mix.mode = "forward-header"
      BY <1>6 DEF PeopleInv, PeopleOK, Named, AskForward
    <3>2. Person("byHandle", y)
      BY <2>4, <2>6, <3>1, Constants DEF Person, Resolving
    <3>. QED  BY <1>1, <1>2, <2>6, <3>2, GotoIs, PeopleQuiet
  <2>. QED  BY <2>1, <2>5, <2>6 DEF r, x, y
<1>7. CASE Callback(p)
  <2>1. PICK tx \in txs :
          \/ Done(p)
          \/ Goto(p, "byExt", [Idle EXCEPT !.op = "callback", !.ext = tx.who,
                                 !.handle = idp[tx.who].now, !.boss = tx.who \in Bosses])
    BY <1>7 DEF Callback
  <2>. DEFINE r == [Idle EXCEPT !.op = "callback", !.ext = tx.who,
                                !.handle = idp[tx.who].now, !.boss = tx.who \in Bosses]
  <2>2. r.ext = tx.who /\ r.handle = idp[tx.who].now /\ r.who = None
    BY DEF Idle
  <2>3. tx.who \in Subs
    BY DEF TypeInv, Store, WorldOK
  <2>. HIDE DEF r
  <2>4. CASE Done(p)
    <3>1. Person("idle", Idle)
      BY NoPerson DEF Resolving
    <3>. QED  BY <1>1, <1>2, <2>4, <3>1, GotoIs, PeopleQuiet DEF Done
  <2>. QED  BY <1>5, <2>1, <2>2, <2>3, <2>4 DEF r
<1>. QED  BY <1>4, <1>6, <1>7

LEMMA PeopleCookies ==
  ASSUME TypeInv, TypeInv', PeopleInv, NEW p \in Procs, AskCookie(p)
  PROVE  PeopleInv'
<1>1. Others(p) /\ UNCHANGED <<users, idp, mix, past>> /\ mix.mode \in {"local", "oidc"}
  BY StepMoves DEF Step, IdentitySteps, AskCookie, world
<1>2. PICK c \in Calls, s \in DOMAIN sessions :
        LET u == users[sessions[s].user]
            next == IF c.op = "me" THEN "idle" ELSE IF u.ext = None THEN "byHandle" ELSE "byExt"
            r == [c EXCEPT !.ext = u.ext, !.handle = u.handle]
        IN  /\ IF ~Answers(s) THEN Done(p)
               ELSE IF clock - sessions[s].seen > Throttle
                    THEN Goto(p, "slide", [r EXCEPT !.row = s])
                    ELSE Goto(p, next, IF next = "idle" THEN Idle ELSE r)
            /\ sessions' = IF Answers(s) THEN [sessions EXCEPT ![s].used = clock] ELSE sessions
  BY DEF AskCookie
<1>. DEFINE u == users[sessions[s].user]
            r == [c EXCEPT !.ext = u.ext, !.handle = u.handle]
            t == [r EXCEPT !.row = s]
<1>3. Local(c) /\ c.op \in OnHandlers \cup {"me"}
  BY Asking
<1>4. /\ DOMAIN sessions' = DOMAIN sessions
      /\ \A x \in DOMAIN sessions : sessions'[x].user = sessions[x].user
  BY <1>2, Rows DEF SessionRow
<1>5. \/ Goto(p, "idle", Idle) \/ Goto(p, "slide", t)
      \/ \E l \in {"byHandle", "byExt"} : Goto(p, l, r)
  BY <1>2 DEF Done
<1>6. /\ r.ext = u.ext /\ r.handle = u.handle /\ r.op = c.op /\ r.who = None
      /\ t.ext = u.ext /\ t.handle = u.handle /\ t.op = c.op /\ t.who = None
  <2>1. r.ext = u.ext /\ r.handle = u.handle /\ r.op = c.op /\ r.who = None
    <3>. HIDE DEF u
    <3>. QED  BY <1>3, Unnamed DEF Local
  <2>2. t.ext = r.ext /\ t.handle = r.handle /\ t.op = r.op /\ t.who = r.who
    <3>. HIDE DEF u
    <3>. QED  BY <1>3 DEF Local
  <2>. QED  BY <2>1, <2>2
<1>7. /\ u.ext # None => Plausible(u.ext, u.handle)
      /\ mix.mode = "oidc" => u.ext # None
  BY Rows DEF PeopleInv, PeopleOK, Belongs
<1>8. c.op # "callback"
  BY <1>3 DEF OnHandlers, AdminOps
<1>. HIDE DEF r, t, u
<1>9. Person("idle", Idle) /\ Person("slide", t) /\ Person("byHandle", r) /\ Person("byExt", r)
  BY <1>1, <1>6, <1>7, <1>8, NoPerson DEF Person, Resolving
<1>10. \A l, x : Goto(p, l, x) => pc'[p] = l /\ loc'[p] = x
  BY GotoIs
<1>. QED  BY <1>1, <1>4, <1>5, <1>9, <1>10, PeopleQuiet

LEMMA PeopleSlides ==
  ASSUME TypeInv, TypeInv', PeopleInv, NEW p \in Procs, Slide(p)
  PROVE  PeopleInv'
<1>. DEFINE r == [loc[p] EXCEPT !.row = None]
<1>1. /\ pc[p] = "slide" /\ UNCHANGED <<users, idp, mix>>
      /\ \/ Goto(p, "idle", Idle) \/ \E l \in {"byHandle", "byExt"} : Goto(p, l, r)
  BY DEF Slide, At, world
<1>2. Others(p)
  BY StepMoves DEF Step, IdentitySteps
<1>3. /\ DOMAIN sessions' = DOMAIN sessions
      /\ \A x \in DOMAIN sessions : sessions'[x].user = sessions[x].user
  BY Rows DEF Slide, SessionRow
<1>4. past'.crossed = past.crossed
  BY DEF Slide, TypeInv, Store, Past
<1>5. Local(loc[p]) /\ Person("slide", loc[p])
  BY <1>1 DEF TypeInv, Fits, PeopleInv
<1>6. r.ext = loc[p].ext /\ r.handle = loc[p].handle /\ r.op = loc[p].op /\ r.who = loc[p].who
  BY <1>5 DEF Local
<1>. HIDE DEF r
<1>7. Person("idle", Idle) /\ Person("byHandle", r) /\ Person("byExt", r)
  BY <1>5, <1>6, NoPerson DEF Person, Resolving
<1>8. PICK l, x : pc'[p] = l /\ loc'[p] = x /\ Person(l, x) /\ l \notin {"ensure", "ensureInsert"}
  BY <1>1, <1>7, GotoIs
<1>9. Person(l, x)'
  BY <1>1, <1>4, <1>8 DEF Person, Plausible, PassedOn, Named, Swapped
<1>. QED  BY <1>1, <1>2, <1>3, <1>4, <1>8, <1>9, PeopleFrame DEF Kept

\* What has to be fixed in a row that was found.
LEMMA FixIs ==
  ASSUME NEW row, NEW r
  PROVE  LET fix == {c \in {"ext", "handle"} : /\ row[c] # r[c]
                                               /\ c = "ext" => r.ext # None}
         IN  /\ fix \subseteq {"ext", "handle"}
             /\ "ext" \in fix <=> row.ext # r.ext /\ r.ext # None
             /\ "handle" \in fix <=> row.handle # r.handle
OBVIOUS

\* A row found by its person, or by a name the person came with.
LEMMA FoundPerson ==
  ASSUME TypeInv, TypeInv', PeopleInv, NEW p \in Procs, NEW u \in DOMAIN users, Found(p, u),
         UNCHANGED <<tables, world, past>>,
         \/ pc[p] = "byExt" /\ users[u].ext = loc[p].ext
         \/ pc[p] = "byHandle" /\ users[u].handle = loc[p].handle
  PROVE  PeopleInv'
<1>. DEFINE row == users[u]
            fix == {c \in {"ext", "handle"} : /\ row[c] # loc[p][c]
                                              /\ c = "ext" => loc[p].ext # None}
            r == [loc[p] EXCEPT !.row = u, !.fix = fix, !.role = row.role, !.on = row.on,
                                !.era = row.era]
            e == loc[p].ext
            h == loc[p].handle
<1>1. IF fix = {} THEN Resolved(p, r) ELSE Goto(p, "patch", r)
  BY DEF Found
<1>2. Local(loc[p]) /\ Needs(pc[p], loc[p]) /\ Person(pc[p], loc[p])
  BY DEF TypeInv, Fits, PeopleInv
<1>3. row \in UserRow /\ Belongs(row)
  BY Rows DEF PeopleInv, PeopleOK
<1>4. /\ fix \subseteq {"ext", "handle"}
      /\ "ext" \in fix <=> row.ext # e /\ e # None
      /\ "handle" \in fix <=> row.handle # h
  BY FixIs
<1>5. /\ r.op = loc[p].op /\ r.handle = h /\ r.ext = e /\ r.row = u /\ r.fix = fix
      /\ r.who = loc[p].who
  <2>. HIDE DEF fix, row
  <2>. QED  BY <1>2 DEF Local
<1>. HIDE DEF r, fix, row
<1>6. /\ mix.mode = "oidc" => e # None
      /\ mix.mode # "local" /\ e = None => loc[p].who # None
      /\ loc[p].who # None => loc[p].who \in mix.nameless /\ Named(loc[p].who, h)
      /\ loc[p].op = "callback" => e # None
      /\ e # None => Plausible(e, h)
      /\ e \in Subs \cup {None} /\ row.ext \in Subs \cup {None}
      /\ row.ext # None => Plausible(row.ext, row.handle)
  BY <1>2, <1>3 DEF Person, Resolving, Local, Belongs, UserRow
<1>7. pc[p] = "byExt" => row.ext = e /\ e # None
  BY <1>2 DEF Needs, row
<1>8. pc[p] = "byHandle" => row.handle = h
  BY DEF row
<1>9. u \in ByHandle(row.handle)
  BY DEF ByHandle, row
<1>10. \E l, x : pc'[p] = l /\ loc'[p] = x /\ Person(l, x)
  <2>1. CASE fix = {}
    <3>1. ByHandle(r.handle) # {}
      BY <1>4, <1>5, <1>9, <2>1
    <3>2. r.op = "callback" => users[r.row].ext # None
      BY <1>4, <1>5, <1>6, <2>1 DEF row
    <3>. QED  BY <1>1, <2>1, <3>1, <3>2, ResolvedPerson
  <2>2. CASE fix # {}
    <3>1. fix \in {{"ext"}, {"handle"}}
      BY <1>4, <1>7, <1>8, <2>2
    <3>2. Swapped(e, row.ext)
      <4>1. CASE pc[p] = "byExt"
        BY <1>7, <4>1 DEF Swapped
      <4>2. CASE pc[p] = "byHandle" /\ row.ext \notin {None, e}
        <5>1. e # None
          BY <1>4, <1>8, <2>2, <4>2
        <5>2. e \in Subs /\ row.ext \in Subs /\ Plausible(e, h) /\ Plausible(row.ext, h)
          BY <1>6, <1>8, <4>2, <5>1
        <5>. QED  BY <4>2, <5>2, Both DEF Swapped
      <4>. QED  BY <4>1, <4>2 DEF Swapped
    <3>3. "ext" \in fix => Plausible(e, row.handle) /\ row.handle = h
      BY <1>4, <1>6, <1>7, <1>8
    <3>4. "ext" \notin fix => row.ext # None
      BY <1>4, <1>7, <1>8, <2>2
    <3>5. Person("patch", r)
      BY <1>5, <1>6, <3>1, <3>2, <3>3, <3>4 DEF Person, Resolving, row
    <3>. QED  BY <1>1, <2>2, <3>5, GotoIs
  <2>. QED  BY <2>1, <2>2
<1>11. Others(p)
  <2>1. \A l, x : Goto(p, l, x) => Others(p)
    BY GotoIs
  <2>. QED  BY <1>1, <2>1 DEF Resolved, Done
<1>12. UNCHANGED <<users, sessions, idp, mix, past>>
  BY DEF tables, world
<1>. QED  BY <1>10, <1>11, <1>12, PeopleQuiet

LEMMA PeopleSelects ==
  ASSUME TypeInv, TypeInv', PeopleInv, NEW p \in Procs, SelectByExt(p) \/ SelectByHandle(p)
  PROVE  PeopleInv'
<1>1. UNCHANGED <<tables, world, past>>
  BY DEF SelectByExt, SelectByHandle
<1>2. Person(pc[p], loc[p]) /\ Others(p)
  BY StepMoves DEF PeopleInv, Step, IdentitySteps
<1>3. CASE SelectByExt(p) /\ ByExt(loc[p].ext) # {}
  <2>1. /\ The(ByExt(loc[p].ext)) \in DOMAIN users /\ Found(p, The(ByExt(loc[p].ext)))
        /\ users[The(ByExt(loc[p].ext))].ext = loc[p].ext /\ pc[p] = "byExt"
    BY <1>3 DEF SelectByExt, The, ByExt, At
  <2>. QED  BY <1>1, <2>1, FoundPerson
<1>4. CASE SelectByHandle(p) /\ ByHandle(loc[p].handle) # {}
  <2>1. /\ The(ByHandle(loc[p].handle)) \in DOMAIN users /\ Found(p, The(ByHandle(loc[p].handle)))
        /\ users[The(ByHandle(loc[p].handle))].handle = loc[p].handle /\ pc[p] = "byHandle"
    BY <1>4 DEF SelectByHandle, The, ByHandle, At
  <2>. QED  BY <1>1, <2>1, FoundPerson
<1>5. CASE \E l \in {"byHandle", "create"} : Goto(p, l, loc[p]) /\ pc[p] \in {"byExt", "byHandle"}
  <2>1. PICK l \in {"byHandle", "create"} : Goto(p, l, loc[p]) /\ pc[p] \in {"byExt", "byHandle"}
    BY <1>5
  <2>2. Person(l, loc[p])
    BY <1>2, <2>1 DEF Person, Resolving
  <2>. QED  BY <1>1, <1>2, <2>1, <2>2, GotoIs, PeopleQuiet DEF tables, world
<1>. QED  BY <1>3, <1>4, <1>5 DEF SelectByExt, SelectByHandle, At

LEMMA PeopleCreates ==
  ASSUME TypeInv, TypeInv', PeopleInv, NEW p \in Procs, Create(p)
  PROVE  PeopleInv'
<1>. DEFINE n == Len(users) + 1
            e == loc[p].ext
            h == loc[p].handle
<1>1. pc[p] = "create" /\ UNCHANGED <<sessions, idp, mix, past>>
  BY CreateIs DEF world
<1>2. Others(p) /\ Local(loc[p]) /\ Person("create", loc[p])
  BY <1>1, StepMoves DEF Step, IdentitySteps, TypeInv, Fits, PeopleInv
<1>3. Person("idle", Idle)
  BY NoPerson DEF Resolving
<1>4. CASE users' = users /\ Done(p)
  BY <1>1, <1>2, <1>3, <1>4, GotoIs, PeopleQuiet DEF Done
<1>5. ASSUME NEW row \in UserRow, NEW role, role \in {"admin", "user"},
             Adds(row), row.ext = e, row.handle = h, row.by = "seam",
             row.own = IF e = None THEN loc[p].who ELSE e,
             Resolved(p, [loc[p] EXCEPT !.row = n, !.role = role])
      PROVE  PeopleInv'
  <2>. DEFINE r == [loc[p] EXCEPT !.row = n, !.role = role]
  <2>1. r.op = loc[p].op /\ r.handle = h /\ r.ext = e /\ r.row = n
    <3>. HIDE DEF n
    <3>. QED  BY <1>2 DEF Local
  <2>2. /\ n \in DOMAIN users' /\ n \notin DOMAIN users /\ DOMAIN users' = DOMAIN users \cup {n}
        /\ users'[n] = row /\ \A u \in DOMAIN users : users'[u] = users[u]
    BY <1>5 DEF Adds
  <2>. HIDE DEF r, n
  <2>3. /\ mix.mode # "local" /\ e = None => loc[p].who # None
        /\ loc[p].who # None => loc[p].who \in mix.nameless /\ Named(loc[p].who, h)
        /\ loc[p].op = "callback" => e # None
        /\ e # None => Plausible(e, h)
    BY <1>2 DEF Person, Resolving
  <2>4. Belongs(row)'
    <3>1. Belongs(row)
      BY <1>5, <2>3 DEF Belongs, Plausible, Named
    <3>. QED  BY <1>1, <1>5, <3>1, SameNames, BelongsStill
  <2>5. \A l, x : l = pc'[p] /\ x = loc'[p] => Person(l, x)'
    <3>1. CASE Done(p)
      <4>1. pc'[p] = "idle"
        BY <3>1, GotoIs DEF Done
      <4>. QED  BY <4>1 DEF Person, Resolving
    <3>2. CASE ~Done(p)
      <4>1. PICK x : x = r
        OBVIOUS
      <4>2. PICK l \in {"mint", "ensure"} : Goto(p, l, x) /\ (l = "mint" <=> x.op = "callback")
        BY <1>5, <3>2, <4>1 DEF Resolved, r
      <4>3. ByHandle(x.handle)' # {}
        BY <1>5, <2>1, <2>2, <4>1 DEF ByHandle
      <4>4. x.op = "callback" => users'[x.row].ext # None
        BY <1>5, <2>1, <2>2, <2>3, <4>1
      <4>5. Person(l, x)'
        BY <4>2, <4>3, <4>4 DEF Person, Resolving
      <4>. QED  BY <4>2, <4>5, GotoIs
    <3>. QED  BY <3>1, <3>2
  <2>6. Kept
    BY <2>2 DEF Kept
  <2>7. \A u \in DOMAIN users' \ DOMAIN users : \A x : x = users'[u] => Belongs(x)'
    BY <2>2, <2>4
  <2>. QED  BY <1>1, <1>2, <2>5, <2>6, <2>7, PeopleFrame
<1>. QED  BY <1>4, <1>5, CreateIs

LEMMA PeopleEnsures ==
  ASSUME TypeInv, TypeInv', PeopleInv, NEW p \in Procs, Ensure(p) \/ EnsureInsert(p)
  PROVE  PeopleInv'
<1>1. Others(p) /\ Person(pc[p], loc[p])
  BY StepMoves DEF Step, IdentitySteps, PeopleInv
<1>2. CASE Ensure(p)
  <2>1. UNCHANGED <<users, sessions, idp, mix, past>> /\ pc[p] = "ensure"
    BY <1>2 DEF Ensure, tables, world, At
  <2>2. loc[p].op \in OnHandlers
    BY <2>1 DEF TypeInv, Fits, Needs
  <2>3. Entry(loc[p].op) \in {"prefs", "global", "isAdmin"}
    BY <2>2 DEF Entry, OnHandlers, AdminOps
  <2>4. \A r : Person(Entry(loc[p].op), r)
    BY <2>3, NoPerson DEF Resolving
  <2>5. Person("ensureInsert", loc[p])
    BY <1>1, <2>1 DEF Person, Resolving
  <2>6. Goto(p, "ensureInsert", loc[p]) \/ \E r : Goto(p, Entry(loc[p].op), r)
    BY <1>2 DEF Ensure
  <2>7. PICK l, r : pc'[p] = l /\ loc'[p] = r /\ Person(l, r)
    BY <2>4, <2>5, <2>6, GotoIs
  <2>. QED  BY <1>1, <2>1, <2>7, PeopleQuiet
<1>3. CASE EnsureInsert(p)
  <2>1. pc[p] = "ensureInsert" /\ UNCHANGED <<sessions, idp, mix, past>>
    BY <1>3, EnsureInsertIs DEF world
  <2>2. PICK l, r : l \in {"prefs", "global", "isAdmin"} /\ pc'[p] = l /\ loc'[p] = r
    BY <1>3, EnsureInsertIs, GotoIs
  <2>3. Person(l, r)
    BY <2>2, NoPerson DEF Resolving
  <2>4. CASE users' = users
    BY <1>1, <2>1, <2>2, <2>3, <2>4, PeopleQuiet
  <2>5. ASSUME NEW row \in UserRow, Adds(row), row.ext = None, row.handle = loc[p].handle,
               row.by = "handler", row.own = None, ByHandle(row.handle) = {}
        PROVE  PeopleInv'
    <3>1. row.handle \notin past.crossed => row.handle = Owner
      BY <1>1, <2>1, <2>5 DEF Person
    <3>2. Belongs(row)'
      BY <2>1, <2>5, <3>1 DEF Belongs
    <3>3. \A x, y : x = pc'[p] /\ y = loc'[p] => Person(x, y)'
      BY <2>2 DEF Person, Resolving
    <3>4. /\ Kept
          /\ \A u \in DOMAIN users' \ DOMAIN users : \A x : x = users'[u] => Belongs(x)'
      BY <2>5, <3>2 DEF Kept, Adds
    <3>. QED  BY <1>1, <2>1, <3>3, <3>4, PeopleFrame
  <2>. QED  BY <1>3, <2>4, <2>5, EnsureInsertIs
<1>. QED  BY <1>2, <1>3

\* What the other requests know when a row gets another person or another name.
LEMMA PatchPerson ==
  ASSUME UNCHANGED <<idp, mix>>, past.crossed \subseteq past'.crossed,
         NEW u \in DOMAIN users, NEW old, NEW new, users[u] = old, users'[u] = new,
         \A v \in DOMAIN users \ {u} : v \in DOMAIN users' /\ users'[v] = users[v],
         u \in DOMAIN users',
         old.ext \in Subs \cup {None}, new.ext \in Subs, Swapped(new.ext, old.ext),
         new.handle # old.handle => new.ext = old.ext /\ Plausible(new.ext, new.handle),
         new.ext # old.ext => Plausible(new.ext, old.handle),
         NEW l, NEW r, Local(r), Needs(l, r), Person(l, r),
         l # "idle" /\ r.handle = old.handle /\ new.handle # old.handle
            => old.handle \in past'.crossed
  PROVE  Person(l, r)'
<1>0. None \notin Subs
  BY Constants
<1>1. /\ l \in Resolving /\ mix.mode = "oidc" => r.ext # None
      /\ l \in Resolving /\ mix.mode # "local" /\ r.ext = None => r.who # None
      /\ l \in Resolving /\ r.who # None => r.who \in mix.nameless /\ Named(r.who, r.handle)
      /\ l \in Resolving /\ r.op = "callback" => r.ext # None
      /\ l \in Resolving /\ r.ext # None => Plausible(r.ext, r.handle)
  BY DEF Person
<1>2. ASSUME l = "patch", r.row = u
      PROVE  /\ r.fix \in {{"ext"}, {"handle"}}
             /\ Swapped(r.ext, new.ext)
             /\ "ext" \in r.fix => /\ Plausible(r.ext, new.handle)
                                   /\ new.handle = r.handle \/ r.handle \in past'.crossed
  <2>1. r.ext \in Subs
    BY <1>2 DEF Local, Needs
  <2>2. /\ r.fix \in {{"ext"}, {"handle"}} /\ Swapped(r.ext, old.ext)
        /\ "ext" \in r.fix => /\ Plausible(r.ext, old.handle)
                              /\ old.handle = r.handle \/ r.handle \in past.crossed
        /\ "ext" \notin r.fix => old.ext # None
    BY <1>2 DEF Person
  <2>3. Swapped(r.ext, new.ext)
    <3>1. CASE new.ext = old.ext \/ new.ext = r.ext
      BY <2>2, <3>1 DEF Swapped
    <3>2. CASE new.ext # old.ext /\ new.ext # r.ext /\ "ext" \in r.fix
      BY <2>1, <2>2, <3>2, Both DEF Swapped
    <3>3. CASE new.ext # old.ext /\ new.ext # r.ext /\ "ext" \notin r.fix
      BY <2>2, <3>3 DEF Swapped
    <3>. QED  BY <3>1, <3>2, <3>3
  <2>4. ASSUME "ext" \in r.fix
        PROVE  /\ Plausible(r.ext, new.handle)
               /\ new.handle = r.handle \/ r.handle \in past'.crossed
    <3>1. CASE new.handle = old.handle
      BY <2>2, <2>4, <3>1
    <3>2. CASE new.handle # old.handle
      <4>1. Plausible(r.ext, new.handle)
        BY <1>0, <2>1, <2>2, <3>2, Swap DEF Swapped
      <4>. QED  BY <1>2, <2>2, <2>4, <3>2, <4>1
    <3>. QED  BY <3>1, <3>2
  <2>. QED  BY <2>2, <2>3, <2>4
<1>3. ASSUME l = "patch"
      PROVE  LET row == users'[r.row]
             IN  /\ r.fix \in {{"ext"}, {"handle"}}
                 /\ Swapped(r.ext, row.ext)
                 /\ "ext" \in r.fix => /\ Plausible(r.ext, row.handle)
                                       /\ row.handle = r.handle \/ r.handle \in past'.crossed
                 /\ "ext" \notin r.fix => row.ext # None
  <2>1. CASE r.row = u
    BY <1>0, <1>2, <1>3, <2>1
  <2>2. CASE r.row # u
    <3>1. users'[r.row] = users[r.row]
      BY <1>3, <2>2 DEF Needs
    <3>. QED  BY <1>3, <3>1 DEF Person
  <2>. QED  BY <2>1, <2>2
<1>4. PICK x : x = users'[r.row]
  OBVIOUS
<1>5. l = "patch" =>
         /\ r.fix \in {{"ext"}, {"handle"}}
         /\ Swapped(r.ext, x.ext)'
         /\ "ext" \in r.fix => /\ Plausible(r.ext, x.handle)'
                               /\ x.handle = r.handle \/ r.handle \in past'.crossed
         /\ "ext" \notin r.fix => x.ext # None
  BY <1>3, <1>4 DEF Swapped, Plausible, PassedOn
<1>6. ASSUME l \in {"ensure", "ensureInsert"}, r.handle \notin past'.crossed
      PROVE  r.handle = Owner \/ ByHandle(r.handle)' # {}
  <2>1. CASE r.handle # Owner
    <3>1. PICK v \in DOMAIN users : users[v].handle = r.handle
      BY <1>6, <2>1 DEF Person, ByHandle
    <3>2. v \in DOMAIN users' /\ users'[v].handle = r.handle
      BY <1>6, <3>1
    <3>. QED  BY <3>2 DEF ByHandle
  <2>. QED  BY <2>1
<1>7. l = "mint" /\ mix.mode = "oidc" => x.ext # None
  BY <1>0, <1>4 DEF Person, Needs
<1>8. /\ l \in Resolving /\ r.ext # None => Plausible(r.ext, r.handle)'
      /\ l \in Resolving /\ r.who # None => Named(r.who, r.handle)'
  BY <1>1 DEF Plausible, PassedOn, Named
<1>9. l = "patch" =>
         /\ Swapped(r.ext, users[r.row].ext)'
         /\ "ext" \in r.fix => Plausible(r.ext, users[r.row].handle)'
  BY <1>4, <1>5 DEF Swapped, Plausible
<1>. QED  BY <1>1, <1>4, <1>5, <1>6, <1>7, <1>8, <1>9 DEF Person

LEMMA PeoplePatch ==
  ASSUME TypeInv, TypeInv', PeopleInv, NEW p \in Procs, Patch(p)
  PROVE  PeopleInv'
<1>. DEFINE inUse == \E q \in Procs \ {p} : pc[q] # "idle" /\ loc[q].handle = users[loc[p].row].handle
<1>1. PICK u, r, old, new : u = loc[p].row /\ r = loc[p] /\ old = users[u] /\ new = Owned(Patched(p))
  OBVIOUS
<1>2. pc[p] = "patch" /\ UNCHANGED <<sessions, idp, mix>>
  BY PatchIs DEF world
<1>3. Others(p) /\ Local(r) /\ Needs("patch", r) /\ Person("patch", r)
  BY <1>1, <1>2, StepMoves DEF Step, IdentitySteps, TypeInv, Fits, PeopleInv
<1>4. /\ u \in DOMAIN users /\ new \in UserRow
      /\ new.ext = IF "ext" \in r.fix THEN r.ext ELSE old.ext
      /\ new.handle = IF "handle" \in r.fix THEN r.handle ELSE old.handle
      /\ new.own = IF old.own = None THEN new.ext ELSE old.own
      /\ new.by = old.by
      /\ new.handle = Patched(p).handle
  BY <1>1, <1>2, PatchRow
<1>5. old \in UserRow /\ Belongs(old)
  BY <1>1, <1>4, Rows DEF PeopleInv, PeopleOK
<1>6. CASE Done(p) /\ UNCHANGED <<users, past>>
  <2>1. Person("idle", Idle)
    BY NoPerson DEF Resolving
  <2>. QED  BY <1>2, <1>3, <1>6, <2>1, GotoIs, PeopleQuiet DEF Done
<1>7. CASE /\ users' = [users EXCEPT ![u] = new]
           /\ past' = IF new.handle # old.handle /\ inUse
                      THEN [past EXCEPT !.crossed = @ \cup {old.handle}] ELSE past
           /\ Resolved(p, r)
  <2>0. None \notin Subs
    BY Constants
  <2>1. past'.crossed = IF new.handle # old.handle /\ inUse
                        THEN past.crossed \cup {old.handle} ELSE past.crossed
    BY <1>7 DEF TypeInv, Store, Past
  <2>2. /\ DOMAIN users' = DOMAIN users /\ users'[u] = new
        /\ \A v \in DOMAIN users \ {u} : users'[v] = users[v]
    BY <1>4, <1>7
  <2>3. past.crossed \subseteq past'.crossed
    BY <2>1
  <2>4. ASSUME NEW q \in Procs \ {p}, pc[q] # "idle", loc[q].handle = old.handle,
               new.handle # old.handle
        PROVE  old.handle \in past'.crossed
    BY <1>1, <2>1, <2>4
  <2>. HIDE DEF inUse
  <2>5. /\ r.ext \in Subs /\ Plausible(r.ext, r.handle) /\ Swapped(r.ext, old.ext)
        /\ r.fix \in {{"ext"}, {"handle"}}
        /\ "ext" \in r.fix => /\ Plausible(r.ext, old.handle)
                              /\ old.handle = r.handle \/ r.handle \in past.crossed
        /\ "ext" \notin r.fix => old.ext # None
    BY <1>1, <1>3 DEF Person, Local, Needs, Resolving
  <2>6. old.ext \in Subs \cup {None}
    BY <1>5 DEF UserRow
  <2>7. /\ new.ext \in Subs /\ Swapped(new.ext, old.ext) /\ Plausible(new.ext, new.handle)
        /\ new.handle # old.handle => new.ext = old.ext
        /\ new.ext # old.ext => Plausible(new.ext, old.handle)
        /\ new.handle = r.handle \/ r.handle \in past.crossed
    <3>1. CASE r.fix = {"ext"}
      <4>1. new.ext = r.ext /\ new.handle = old.handle
        BY <1>4, <3>1
      <4>. QED  BY <2>5, <3>1, <4>1
    <3>2. CASE r.fix = {"handle"}
      <4>1. new.ext = old.ext /\ new.handle = r.handle /\ old.ext \in Subs
        BY <1>4, <2>5, <2>6, <3>2
      <4>2. Plausible(old.ext, r.handle)
        BY <2>5, <4>1, <2>0, Swap DEF Swapped
      <4>. QED  BY <4>1, <4>2 DEF Swapped
    <3>. QED  BY <2>5, <3>1, <3>2
  <2>8. Belongs(new)
    <3>1. /\ new.own # None /\ Named(new.own, new.handle)
          /\ new.ext = new.own \/ PassedOn(new.own)
      <4>1. CASE old.own = None
        BY <1>4, <2>0, <2>7, <4>1 DEF Named, Plausible
      <4>2. CASE old.own # None /\ new.ext = old.own
        BY <1>4, <2>0, <2>7, <4>2 DEF Named, Plausible
      <4>3. CASE old.own # None /\ new.ext # old.own
        <5>1. old.own \in Subs /\ new.own = old.own
          BY <1>4, <1>5, <4>3 DEF UserRow
        <5>2. /\ Named(old.own, old.handle)
              /\ \/ old.ext = old.own \/ PassedOn(old.own)
                 \/ old.ext = None
          BY <1>5, <4>3 DEF Belongs
        <5>3. CASE old.ext = old.own
          BY <2>7, <4>3, <5>1, <5>3, <2>0 DEF Swapped, Named
        <5>4. CASE old.ext = None /\ ~PassedOn(old.own)
          <6>1. old.own # new.ext /\ Plausible(new.ext, old.handle)
            BY <2>0, <2>7, <4>3, <5>4
          <6>. QED  BY <5>1, <5>2, <5>4, <6>1 DEF Named, Plausible
        <5>. QED  BY <4>3, <5>1, <5>2, <5>3, <5>4 DEF Named
      <4>. QED  BY <4>1, <4>2, <4>3
    <3>. QED  BY <2>0, <2>7, <3>1 DEF Belongs
  <2>9. Grown /\ mix' = mix
    BY <1>2, SameNames
  <2>10. ASSUME NEW v \in DOMAIN users' PROVE Belongs(users[v])'
    <3>1. PICK x : x = users'[v]
      OBVIOUS
    <3>2. x \in UserRow /\ Belongs(x)
      BY <1>4, <2>2, <2>8, <3>1, Rows DEF PeopleInv, PeopleOK
    <3>3. Belongs(x)'
      BY <2>3, <2>9, <3>2, BelongsStill
    <3>. QED  BY <3>1, <3>3 DEF Belongs
  <2>11. mix'.mode = "oidc" => \A s \in DOMAIN sessions' : users'[sessions'[s].user].ext # None
    <3>1. \A s \in DOMAIN sessions : sessions[s].user \in DOMAIN users
      BY Rows
    <3>. QED  BY <1>2, <2>0, <2>2, <2>7, <3>1 DEF PeopleInv, PeopleOK
  <2>12. ASSUME NEW q \in Procs PROVE Person(pc[q], loc[q])'
    <3>1. PICK l, x : l = pc'[q] /\ x = loc'[q]
      OBVIOUS
    <3>2. CASE q = p
      <4>1. CASE Done(p)
        <5>1. l = "idle"
          BY <3>1, <3>2, <4>1, GotoIs DEF Done
        <5>2. Person(l, x)'
          BY <5>1 DEF Person, Resolving
        <5>. QED  BY <3>1, <5>2 DEF Person
      <4>2. CASE ~Done(p)
        <5>1. PICK k \in {"mint", "ensure"} : Goto(p, k, r) /\ (k = "mint" <=> r.op = "callback")
          BY <1>7, <4>2 DEF Resolved
        <5>2. l = k /\ x = r
          BY <3>1, <3>2, <5>1, GotoIs
        <5>3. x.handle \notin past'.crossed => ByHandle(x.handle)' # {}
          <6>1. x.handle \notin past'.crossed => new.handle = x.handle
            BY <2>3, <2>7, <5>2
          <6>. QED  BY <1>4, <2>2, <6>1 DEF ByHandle
        <5>4. users'[x.row].ext # None
          BY <1>1, <2>0, <2>2, <2>7, <5>2
        <5>5. l \notin Resolving
          BY <5>2 DEF Resolving
        <5>6. Person(l, x)'
          BY <5>1, <5>2, <5>3, <5>4, <5>5 DEF Person
        <5>. QED  BY <3>1, <5>6 DEF Person
      <4>. QED  BY <4>1, <4>2
    <3>3. CASE q # p
      <4>1. l = pc[q] /\ x = loc[q] /\ Local(x) /\ Needs(l, x) /\ Person(l, x)
        BY <1>3, <3>1, <3>3 DEF Others, TypeInv, Fits, PeopleInv
      <4>2. l # "idle" /\ x.handle = old.handle /\ new.handle # old.handle
               => old.handle \in past'.crossed
        BY <2>4, <3>3, <4>1
      <4>3. Person(l, x)'
        BY <1>1, <1>2, <1>4, <2>2, <2>3, <2>6, <2>7, <4>1, <4>2, PatchPerson
      <4>. QED  BY <3>1, <4>3 DEF Person
    <3>. QED  BY <3>2, <3>3
  <2>13. \A e \in Subs : idp'[e].now \in idp'[e].had
    BY <1>2 DEF PeopleInv, PeopleOK
  <2>. QED  BY <2>10, <2>11, <2>12, <2>13 DEF PeopleInv, PeopleOK
<1>8. \/ Done(p) /\ UNCHANGED <<users, past>>
      \/ /\ users' = [users EXCEPT ![u] = new]
         /\ past' = IF new.handle # old.handle /\ inUse
                    THEN [past EXCEPT !.crossed = @ \cup {old.handle}] ELSE past
         /\ Resolved(p, r)
  BY <1>1, <1>4, PatchIs
<1>. QED  BY <1>6, <1>7, <1>8

\* What administrators and the settings do comes after the row is known.
LEMMA AfterPerson ==
  ASSUME TypeInv, NEW p \in Procs, Authorize(p) \/ AdminSteps(p) \/ SettingsSteps(p)
  PROVE  /\ UNCHANGED <<idp, mix>> /\ past'.crossed = past.crossed
         /\ \/ Login(p) /\ pc'[p] = "mint" /\ mix.mode = "local"
            \/ pc'[p] \notin Resolving \cup {"ensure", "ensureInsert", "mint"}
<1>1. past \in Past
  BY DEF TypeInv, Store
<1>2. \A l, r : Goto(p, l, r) => pc'[p] = l
  BY GotoIs
<1>3. Done(p) => pc'[p] = "idle"
  BY <1>2 DEF Done
<1>4. CASE Authorize(p) \/ Logout(p)
  BY <1>4 DEF Authorize, Logout, Begin, At, world, Resolving
<1>5. CASE IsAdmin(p)
  <2>1. loc[p].op \in AdminOps
    BY <1>5 DEF TypeInv, Fits, Needs, IsAdmin, At
  <2>2. First(loc[p], loc[p].me) \in {"load", "write", "idle", "exists", "revoke", "sweep", "merge"}
    BY <2>1 DEF First, AdminOps
  <2>. QED  BY <1>2, <1>3, <1>5, <2>2 DEF IsAdmin, world, Resolving
<1>6. CASE LoadUser(p) \/ CountAdmins(p) \/ Sweep(p) \/ Exists(p)
  BY <1>2, <1>3, <1>6 DEF LoadUser, CountAdmins, Sweep, Exists, world, Resolving
<1>7. CASE WriteUser(p)
  <2>1. PICK b : past' = [past EXCEPT !.unseated = @ \/ b]
    BY <1>7 DEF WriteUser
  <2>2. past'.crossed = past.crossed
    BY <1>1, <2>1 DEF Past
  <2>. QED  BY <1>2, <1>3, <1>7, <2>2 DEF WriteUser, world, Resolving
<1>8. CASE SweepWrite(p) \/ Revoke(p) \/ InsertUser(p)
  BY <1>3, <1>8 DEF SweepWrite, Revoke, InsertUser, world, Resolving
<1>9. CASE Mint(p)
  BY <1>1, <1>3, <1>9 DEF Mint, world, Resolving, Past
<1>10. CASE Login(p)
  BY <1>2, <1>10 DEF Login, world
<1>11. CASE SettingsSteps(p)
  <2>1. CASE ReadPrefs(p) \/ InsertPrefs(p) \/ WritePrefs(p) \/ MergeConfig(p)
    BY <1>2, <1>3, <2>1 DEF ReadPrefs, InsertPrefs, WritePrefs, MergeConfig, world, Resolving
  <2>2. CASE UpsertConfig(p) \/ Reload(p) \/ SetGlobal(p)
    BY <1>1, <1>2, <1>3, <2>2 DEF UpsertConfig, Reload, SetGlobal, world, Resolving, Past
  <2>. QED  BY <1>11, <2>1, <2>2 DEF SettingsSteps
<1>. QED  BY <1>4, <1>5, <1>6, <1>7, <1>8, <1>9, <1>10, <1>11 DEF AdminSteps

\* None of them takes a row from its person, and a session is minted for a person.
LEMMA PeopleStay ==
  ASSUME TypeInv, TypeInv', PeopleInv, NEW p \in Procs,
         Authorize(p) \/ AdminSteps(p) \/ SettingsSteps(p)
  PROVE  PeopleInv'
<1>1. Others(p) /\ Step(p)
  BY StepMoves DEF Step, IdentitySteps
<1>2. UNCHANGED <<idp, mix>> /\ past'.crossed = past.crossed
  BY AfterPerson
<1>3. \A l, r : l = pc'[p] /\ r = loc'[p] => Person(l, r)'
  <2>. SUFFICES ASSUME NEW l, NEW r, l = pc'[p], r = loc'[p] PROVE Person(l, r)'
    OBVIOUS
  <2>1. \/ l = "mint" /\ mix'.mode = "local"
        \/ l \notin Resolving \cup {"ensure", "ensureInsert", "mint"}
    BY AfterPerson
  <2>. QED  BY <2>1 DEF Person, Resolving
<1>4. \/ users' = users
      \/ \E t \in DOMAIN users, row \in UserRow :
           /\ users' = [users EXCEPT ![t] = row]
           /\ row.handle = users[t].handle /\ row.ext = users[t].ext
           /\ row.by = users[t].by /\ row.own = users[t].own
      \/ \E row \in UserRow : Adds(row) /\ row.ext = None /\ row.by = "admin" /\ row.own = None
  <2>1. CASE WriteUser(p)
    BY <2>1, WriteRow
  <2>2. CASE InsertUser(p)
    BY <2>2, InsertUserIs
  <2>3. ~InsertUser(p) /\ ~WriteUser(p) => users' = users
    <3>1. Authorize(p) => users' = users
      BY DEF Authorize, tables
    <3>2. SettingsSteps(p) => users' = users
      BY DEF SettingsSteps, ReadPrefs, InsertPrefs, WritePrefs, MergeConfig, UpsertConfig,
         Reload, SetGlobal, tables
    <3>3. ~InsertUser(p) /\ ~WriteUser(p) /\ AdminSteps(p) => users' = users
      BY DEF AdminSteps, IsAdmin, LoadUser, CountAdmins, Sweep, SweepWrite, Revoke, Exists,
         Login, Mint, Logout, tables
    <3>. QED  BY <3>1, <3>2, <3>3
  <2>. QED  BY <2>1, <2>2, <2>3
<1>5. Kept
  <2>1. CASE users' = users
    BY <2>1 DEF Kept
  <2>2. ASSUME NEW t \in DOMAIN users, NEW row \in UserRow, users' = [users EXCEPT ![t] = row],
               row.handle = users[t].handle, row.ext = users[t].ext,
               row.by = users[t].by, row.own = users[t].own
        PROVE  Kept
    BY <2>2 DEF Kept
  <2>. QED  BY <1>4, <2>1, <2>2 DEF Kept, Adds
<1>6. \A u \in DOMAIN users' \ DOMAIN users : \A r : r = users'[u] => Belongs(r)'
  <2>1. ASSUME NEW row \in UserRow, Adds(row), row.ext = None, row.by = "admin", row.own = None
        PROVE  \A u \in DOMAIN users' \ DOMAIN users : \A r : r = users'[u] => Belongs(r)'
    <3>1. Belongs(row)'
      BY <2>1 DEF Belongs
    <3>. QED  BY <2>1, <3>1 DEF Adds
  <2>2. CASE DOMAIN users' = DOMAIN users
    BY <2>2
  <2>. QED  BY <1>4, <2>1, <2>2
<1>7. mix.mode = "oidc" => \A s \in DOMAIN sessions' :
         \/ s \in DOMAIN sessions /\ sessions'[s].user = sessions[s].user
         \/ users'[sessions'[s].user].ext # None
  <2>1. CASE Mint(p)
    <3>1. /\ pc[p] = "mint" /\ loc[p].row \in DOMAIN users
          /\ DOMAIN sessions' = DOMAIN sessions \cup {Len(sessions) + 1}
          /\ sessions'[Len(sessions) + 1] = Minted(p)
          /\ \A s \in DOMAIN sessions : sessions'[s] = sessions[s]
      BY <2>1, MintRow
    <3>2. Minted(p).user = loc[p].row
      BY DEF Minted
    <3>3. mix.mode = "oidc" => users[loc[p].row].ext # None
      BY <3>1 DEF PeopleInv, Person
    <3>. QED  BY <1>5, <3>1, <3>2, <3>3 DEF Kept
  <2>2. CASE SweepWrite(p) \/ Revoke(p) \/ Logout(p)
    BY <2>2, EndingIs DEF Endings
  <2>3. CASE sessions' = sessions
    BY <2>3
  <2>4. ~Mint(p) /\ ~SweepWrite(p) /\ ~Revoke(p) /\ ~Logout(p) => sessions' = sessions
    <3>1. Authorize(p) => sessions' = sessions
      BY DEF Authorize, tables
    <3>2. SettingsSteps(p) => sessions' = sessions
      BY DEF SettingsSteps, ReadPrefs, InsertPrefs, WritePrefs, MergeConfig, UpsertConfig,
         Reload, SetGlobal, tables
    <3>3. AdminSteps(p) /\ ~Mint(p) /\ ~SweepWrite(p) /\ ~Revoke(p) /\ ~Logout(p)
             => sessions' = sessions
      BY DEF AdminSteps, IsAdmin, LoadUser, CountAdmins, WriteUser, Sweep, Exists, InsertUser,
         Login, tables
    <3>. QED  BY <3>1, <3>2, <3>3
  <2>. QED  BY <2>1, <2>2, <2>3, <2>4
<1>. QED  BY <1>1, <1>2, <1>3, <1>5, <1>6, <1>7, PeopleFrame

LEMMA PeopleRename ==
  ASSUME TypeInv, TypeInv', PeopleInv, Rename
  PROVE  PeopleInv'
<1>1. UNCHANGED <<users, sessions, pc, loc, mix, past>>
  BY DEF Rename, tables
<1>2. Grown /\ \A e \in Subs : idp'[e].now \in idp'[e].had
  BY NewName
<1>3. ASSUME NEW u \in DOMAIN users' PROVE Belongs(users[u])'
  <2>1. PICK r : r = users[u]
    OBVIOUS
  <2>2. r \in UserRow /\ Belongs(r)
    BY <1>1, <2>1, Rows DEF PeopleInv, PeopleOK
  <2>3. Belongs(r)'
    BY <1>1, <1>2, <2>2, BelongsStill
  <2>. QED  BY <1>1, <2>1, <2>3 DEF Belongs
<1>4. mix'.mode = "oidc" => \A s \in DOMAIN sessions' : users'[sessions'[s].user].ext # None
  BY <1>1 DEF PeopleInv, PeopleOK
<1>5. ASSUME NEW q \in Procs PROVE Person(pc[q], loc[q])'
  <2>1. PICK l, r : l = pc[q] /\ r = loc[q]
    OBVIOUS
  <2>2. Local(r) /\ Person(l, r) /\ Needs(l, r)
    BY <2>1 DEF TypeInv, Fits, PeopleInv
  <2>3. l = "patch" => r.ext # None /\ users[r.row] \in UserRow
    BY <2>2, Rows DEF Needs
  <2>4. ByHandle(r.handle)' = ByHandle(r.handle)
    BY <1>1 DEF ByHandle
  <2>5. Person(l, r)'
    BY <1>1, <1>2, <2>2, <2>3, <2>4, PersonStill
  <2>. QED  BY <1>1, <2>1, <2>5 DEF Person
<1>. QED  BY <1>2, <1>3, <1>4, <1>5 DEF PeopleInv, PeopleOK

\* The owner the start makes needs no person.
LEMMA OwnerBelongs == Belongs(SeededOwner)
BY DEF Belongs, SeededOwner, NewUser

LEMMA PeopleRestart ==
  ASSUME TypeInv, TypeInv', PeopleInv, Restart
  PROVE  PeopleInv'
<1>1. /\ UNCHANGED <<sessions, idp, mix>> /\ users' = Seeded(users)
      /\ \A q \in Procs : pc'[q] = "idle"
      /\ past'.crossed = past.crossed
  BY DEF Restart, TypeInv, Store, Past
<1>2. Grown
  BY <1>1, SameNames
<1>3. users \in Seq(UserRow)
  BY DEF TypeInv, Store, UsersOK
<1>4. /\ DOMAIN users \subseteq DOMAIN users'
      /\ \A u \in DOMAIN users : SameUser(users'[u], users[u])
      /\ \A u \in DOMAIN users' \ DOMAIN users : users'[u] = SeededOwner
  BY <1>1, <1>3, SeedIs
<1>5. ASSUME NEW u \in DOMAIN users' PROVE Belongs(users[u])'
  <2>1. CASE u \in DOMAIN users
    <3>1. PICK r : r = users[u]
      OBVIOUS
    <3>2. r \in UserRow /\ Belongs(r)
      BY <2>1, <3>1, Rows DEF PeopleInv, PeopleOK
    <3>3. Belongs(r)'
      BY <1>1, <1>2, <3>2, BelongsStill
    <3>4. /\ users'[u].handle = r.handle /\ users'[u].ext = r.ext
          /\ users'[u].own = r.own /\ users'[u].by = r.by
      BY <1>4, <2>1, <3>1 DEF SameUser
    <3>. QED  BY <3>3, <3>4 DEF Belongs
  <2>2. CASE u \notin DOMAIN users
    <3>1. /\ users'[u].ext = None /\ users'[u].own = None
          /\ users'[u].by = "handler" /\ users'[u].handle = Owner
      BY <1>4, <2>2 DEF SeededOwner, NewUser
    <3>. QED  BY <3>1 DEF Belongs
  <2>. QED  BY <2>1, <2>2
<1>6. mix'.mode = "oidc" => \A s \in DOMAIN sessions' : users'[sessions'[s].user].ext # None
  <2>1. \A s \in DOMAIN sessions : sessions[s].user \in DOMAIN users
    BY Rows
  <2>. QED  BY <1>1, <1>4, <2>1 DEF PeopleInv, PeopleOK, SameUser
<1>7. \A q \in Procs : Person(pc[q], loc[q])'
  BY <1>1 DEF Person, Resolving
<1>8. \A e \in Subs : idp'[e].now \in idp'[e].had
  BY <1>1 DEF PeopleInv, PeopleOK
<1>. QED  BY <1>5, <1>6, <1>7, <1>8 DEF PeopleInv, PeopleOK

LEMMA PeopleInit == Init => PeopleInv
<1>. SUFFICES ASSUME Init PROVE PeopleInv
  OBVIOUS
<1>1. /\ mix \in Mixes /\ users = Seeded(mix.users) /\ sessions = <<>>
      /\ \A e \in Subs : idp[e].now = mix.names[e] /\ idp[e].had = {mix.names[e]}
      /\ \A q \in Procs : pc[q] = "idle"
  BY DEF Init
<1>2. /\ mix.users \in Seq(UserRow)
      /\ \A u \in DOMAIN mix.users :
            LET r == mix.users[u]
            IN  r.by = "admin" /\ r.own = r.ext /\ (r.ext # None => r.handle = mix.names[r.ext])
  BY <1>1, AccountsAssumption DEF FirstUsers
<1>3. /\ \A u \in DOMAIN mix.users : SameUser(users[u], mix.users[u])
      /\ \A u \in DOMAIN users \ DOMAIN mix.users : users[u] = SeededOwner
  <2>1. PICK us \in Seq(UserRow) : us = mix.users
    BY <1>2
  <2>2. /\ \A u \in DOMAIN us : SameUser(Seeded(us)[u], us[u])
        /\ \A u \in DOMAIN Seeded(us) \ DOMAIN us : Seeded(us)[u] = SeededOwner
    BY SeedIs
  <2>. QED  BY <1>1, <2>1, <2>2
<1>4. ASSUME NEW u \in DOMAIN users PROVE Belongs(users[u])
  <2>1. CASE u \in DOMAIN mix.users
    <3>1. PICK r, row : r = mix.users[u] /\ row = users[u]
      OBVIOUS
    <3>2. /\ row.by = "admin" /\ row.own = row.ext /\ row.handle = r.handle /\ row.ext = r.ext
          /\ r.ext # None => r.handle = mix.names[r.ext]
      BY <1>2, <1>3, <2>1, <3>1 DEF SameUser
    <3>3. r.ext \in Subs \cup {None}
      <4>1. \A v \in DOMAIN mix.users : mix.users[v] \in UserRow
        BY <1>2, ElementOfSeq, LenProperties
      <4>. QED  BY <2>1, <3>1, <4>1 DEF UserRow
    <3>4. r.ext # None => Plausible(r.ext, r.handle)
      BY <1>1, <3>2, <3>3, Now
    <3>. QED  BY <3>1, <3>2, <3>4 DEF Belongs, Plausible, Named
  <2>2. CASE u \notin DOMAIN mix.users
    BY <1>3, <2>2, OwnerBelongs
  <2>. QED  BY <2>1, <2>2
<1>5. \A q \in Procs : Person(pc[q], loc[q])
  BY <1>1, NoPerson DEF Resolving
<1>. QED  BY <1>1, <1>4, <1>5 DEF PeopleInv, PeopleOK

LEMMA PeopleStep == TypeInv /\ PeopleInv /\ [Next]_accVars => PeopleInv'
<1>. SUFFICES ASSUME TypeInv, PeopleInv, [Next]_accVars PROVE PeopleInv'
  OBVIOUS
<1>1. TypeInv'
  BY TypeStep
<1>2. CASE Tick \/ UNCHANGED accVars
  <2>1. UNCHANGED <<users, sessions, pc, loc, idp, mix, past>>
    BY <1>2 DEF Tick, accVars, tables, world
  <2>2. \A l, r : Person(l, r)' <=> Person(l, r)
    BY <2>1 DEF Person, Plausible, PassedOn, Named, Swapped, ByHandle
  <2>3. \A q \in Procs : Person(pc[q], loc[q])'
    <3>. SUFFICES ASSUME NEW q \in Procs PROVE Person(pc[q], loc[q])'
      OBVIOUS
    <3>1. PICK l, r : l = pc[q] /\ r = loc[q]
      OBVIOUS
    <3>2. Person(l, r)'
      BY <2>2, <3>1 DEF PeopleInv
    <3>. QED  BY <2>1, <3>1, <3>2 DEF Person
  <2>4. PeopleOK'
    BY <2>1 DEF PeopleInv, PeopleOK, Belongs, Plausible, PassedOn, Named
  <2>. QED  BY <2>3, <2>4 DEF PeopleInv
<1>3. ASSUME NEW p \in Procs, IdentitySteps(p) PROVE PeopleInv'
  BY <1>1, <1>3, PeopleAsks, PeopleCookies, PeopleSlides, PeopleSelects, PeoplePatch,
     PeopleCreates, PeopleEnsures, PeopleStay DEF IdentitySteps
<1>. QED  BY <1>1, <1>2, <1>3, PeopleStay, PeopleRename, PeopleRestart DEF Next

\* Two rows of one person: the second was made for a name the person got later, by a
\* request that carried no id.
LEMMA NoTwins ==
  ASSUME TypeInv, PeopleInv, NEW u \in DOMAIN users, NEW v \in DOMAIN users \ {u},
         users[u].own # None, users[v].own = users[u].own
  PROVE  \/ PassedOn(users[u].own)
         \/ /\ users[u].own \in mix.nameless
            /\ idp[users[u].own].had # {idp[users[u].own].now}
<1>1. PICK a, b, e : a = users[u] /\ b = users[v] /\ e = a.own
  OBVIOUS
<1>2. /\ a \in UserRow /\ b \in UserRow /\ Belongs(a) /\ Belongs(b)
      /\ a.handle # b.handle /\ (a.ext # None => a.ext # b.ext)
  BY <1>1, Rows DEF PeopleInv, PeopleOK, TypeInv, Store, UsersOK
<1>3. e \in Subs /\ e # None /\ b.own = e
  BY <1>1, <1>2 DEF UserRow
<1>4. ASSUME ~PassedOn(e) PROVE e \in mix.nameless /\ idp[e].had # {idp[e].now}
  <2>1. a.handle \in idp[e].had /\ b.handle \in idp[e].had
    BY <1>1, <1>2, <1>3, <1>4 DEF Belongs, Named
  <2>2. e \in mix.nameless
    BY <1>1, <1>2, <1>3, <1>4 DEF Belongs
  <2>. QED  BY <1>2, <2>1, <2>2
<1>. QED  BY <1>1, <1>4

\* One tenant per person, whatever names the provider gives to whom, whoever it vouches
\* for without an id, and however the requests that look a row up, link it, rename it and
\* make it overlap.  The invariant adds what a row's name says of its person: somebody had
\* that name, and whoever else had it is one of those the provider gave each other's
\* names; that the person the row was made for had it; and that a request on its way to a
\* row knows as much of the person it came for.
THEOREM OneTenantPerPerson == Spec => []TenantsArePersons
<1>1. TypeInv /\ PeopleInv => TenantsArePersons
  <2>. SUFFICES ASSUME TypeInv, PeopleInv, NEW u \in DOMAIN users
                PROVE  LET r == users[u]
                           passedOn(e) == \E f \in Subs \ {e} : idp[e].had \cap idp[f].had # {}
                           renamed(e)  == idp[e].had # {idp[e].now}
                       IN  /\ r.by = "seam" /\ mix.mode # "local" => r.own # None
                           /\ r.by = "handler" /\ r.handle \notin past.crossed
                                 => r.handle = Owner \/ r.own # None
                           /\ r.own # None => \/ r.ext = r.own \/ passedOn(r.own)
                                              \/ r.ext = None /\ r.own \in mix.nameless
                           /\ \A v \in DOMAIN users \ {u} :
                                 r.own # None /\ users[v].own = r.own
                                    => passedOn(r.own) \/ (r.own \in mix.nameless /\ renamed(r.own))
    BY DEF TenantsArePersons
  <2>1. Belongs(users[u])
    BY DEF PeopleInv, PeopleOK
  <2>. QED  BY <2>1, NoTwins DEF Belongs, PassedOn
<1>. QED  BY <1>1, TypeInit, TypeStep, PeopleInit, PeopleStep, PTL DEF Spec
=============================================================================
