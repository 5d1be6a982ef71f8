---------------------------- MODULE AccountsStore ----------------------------
(***************************************************************************)
(* Who may use the server: the tables users, sessions, settings and        *)
(* user_settings, the copy of the settings the process keeps, the logins   *)
(* that wait for the identity provider, and the requests on all of these.  *)
(*                                                                         *)
(* A request is a process that awaits one statement after the other; a     *)
(* step is one statement with what is done about its result.  loc holds    *)
(* what a request has read and has not used yet.                           *)
(***************************************************************************)
EXTENDS Integers, Sequences, FiniteSets

CONSTANTS
    Procs,      \* requests in flight at the same time
    Owner,      \* the handle of DEFAULT_USER_HANDLE, the one of OWNER_HANDLES
    Handles,    \* names of users
    Subs,       \* persons the identity provider knows, each its stable subject
    Bosses,     \* those it has in OWNER_GROUP
    Passwords,
    Initial,    \* LOCAL_INITIAL_PASSWORD
    Fields,     \* the settings an administrator can override
    Values,
    EnvOf,      \* what the environment says of each
    Ttl, Throttle, TxTtl,   \* lifetimes, in ticks of the clock
    Mixes,      \* bounds: mode, requests started together and how many, what there
                \* is at first, how far the clock goes, how often people are renamed, and
                \* those the proxy may vouch for by name alone, with no stable id
    None

\* The row of a user.  own and by are history: the first person the row was made for or
\* linked to, and whether the seam, a handler or an administrator made it.
UserRow == [handle : Handles, ext : Subs \cup {None}, role : {"admin", "user"},
            on : BOOLEAN, pw : Passwords \cup {None}, era : Nat,
            by : {"seam", "handler", "admin"}, own : Subs \cup {None}]

\* The rows that are there at first: made by an administrator, the columns unique,
\* and if one is linked then to the person who has its name.  Where an administrator
\* must remain there is one, or the start makes the owner.
FirstUsers(m) ==
    /\ m.users \in Seq(UserRow)
    /\ \A u, v \in DOMAIN m.users :
          u # v => /\ m.users[u].handle # m.users[v].handle
                   /\ m.users[u].ext # None => m.users[u].ext # m.users[v].ext
    /\ \A u \in DOMAIN m.users :
          LET r == m.users[u]
          IN  r.by = "admin" /\ r.own = r.ext /\ (r.ext # None => r.handle = m.names[r.ext])
    /\ m.seated => \/ \E u \in DOMAIN m.users : m.users[u].role = "admin" /\ m.users[u].on
                   \/ m.mode = "local" /\ \A u \in DOMAIN m.users : m.users[u].handle # Owner

\* What a request can be about.
Verbs == {"setRole", "setEnabled", "createUser", "resetPassword", "revokeSession", "revokeUser",
          "config", "global", "prefsGet", "prefsSet", "me", "login", "callback"}

ASSUME AccountsAssumption ==
    /\ Owner \in Handles /\ Initial \in Passwords /\ Bosses \subseteq Subs
    /\ EnvOf \in [Fields -> Values]
    /\ None \notin Values \cup Passwords \cup Handles \cup Subs \cup Nat \cup Verbs
    /\ Ttl \in Nat /\ Throttle \in Nat /\ TxTtl \in Nat
    /\ 0 < Throttle /\ Throttle < Ttl
    /\ \A m \in Mixes : /\ m.mode \in {"local", "oidc", "forward-header"}
                        /\ m.names \in [Subs -> Handles] /\ m.nameless \subseteq Subs
                        /\ FirstUsers(m)

VARIABLES
    users,      \* id -> row
    sessions,   \* id -> row; the id stands for the token as well
    prefs,      \* user id -> config, the rows of user_settings
    stored,     \* field -> override, the row "app" of settings
    cache,      \* field -> value, what getAppConfig answers
    txs,        \* OIDC logins that wait for their callback
    idp,        \* person -> [now, had], the names the provider gives it
    clock, pc, loc,
    mix, ops, crashes,
    past        \* history, see Past

tables  == <<users, sessions, prefs, stored>>
memory  == <<cache, txs>>
world   == <<idp, clock, mix, crashes>>
accVars == <<tables, memory, world, pc, loc, ops, past>>

(* raced: sessions whose login overlapped a disable or a new password of its user;
   unswept: users whose sessions stayed because the server died; unslid: sessions
   whose slide it died on; unseated: a role or lock was written on a count that no
   longer held; crossed: names that went while a request still used them; wanted,
   clashed: the last override of each field, and whether one was merged into a row
   that had changed; direct: the row was set as a global setting and not reloaded
   since.                                                                       *)
Past == [raced : SUBSET DOMAIN sessions, unswept : SUBSET DOMAIN users,
         unslid : SUBSET DOMAIN sessions,
         unseated : BOOLEAN, crossed : SUBSET Handles,
         wanted : [Fields -> Values \cup {None}], clashed : BOOLEAN,
         direct : BOOLEAN]

\* Mutant: the insert forgets the subject.
Unlinked(handle, ext, role, pw, by) ==
    [handle |-> handle, ext |-> None, role |-> role, on |-> TRUE, pw |-> pw,
     era |-> 0, by |-> by, own |-> None]

\* A fresh row is enabled.
NewUser(handle, ext, role, pw, by) ==
    [handle |-> handle, ext |-> ext, role |-> role, on |-> TRUE, pw |-> pw,
     era |-> 0, by |-> by, own |-> ext]

ByHandle(h) == {u \in DOMAIN users : users[u].handle = h}
ByExt(e)    == {u \in DOMAIN users : users[u].ext = e}
The(S)      == CHOOSE x \in S : TRUE

Unrevoked(u) == {s \in DOMAIN sessions : sessions[s].user = u /\ ~sessions[s].revoked}
Answers(s)   == ~sessions[s].revoked /\ clock < sessions[s].expires
                /\ users[sessions[s].user].on
OtherAdmins(u) == Cardinality({v \in DOMAIN users \ {u} : users[v].role = "admin" /\ users[v].on})

OwnerRole(handle) == IF handle = Owner THEN "admin" ELSE "user"
Role(handle, boss) == IF boss THEN "admin" ELSE OwnerRole(handle)
Layer(over) == [f \in Fields |-> IF over[f] = None THEN EnvOf[f] ELSE over[f]]

\* who is history: the person of a request that carries no id.
Idle == [op |-> None, ext |-> None, who |-> None, handle |-> None, boss |-> FALSE, row |-> None,
         fix |-> {}, role |-> None, on |-> TRUE, era |-> 0, me |-> None,
         target |-> None, to |-> None, n |-> None, base |-> None]
At(p, label) == pc[p] = label
Goto(p, label, r) == pc' = [pc EXCEPT ![p] = label] /\ loc' = [loc EXCEPT ![p] = r]
Done(p) == Goto(p, "idle", Idle)
Begin(p) == At(p, "idle") /\ ops < mix.ops /\ ops' = ops + 1
=============================================================================
