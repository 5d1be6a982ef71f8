------------------------------- MODULE Accounts -------------------------------
(***************************************************************************)
(* The settings, and all of the accounts together: requests of every kind, *)
(* a clock, a provider that renames people and a server that restarts.     *)
(***************************************************************************)
EXTENDS AccountsAdmin

\* getUserSettings: the first touch inserts, and of two first touches one fails.
ReadPrefs(p) ==
    /\ At(p, "prefs")
    /\ IF loc[p].me \notin DOMAIN prefs THEN Goto(p, "prefsInsert", loc[p])
       ELSE IF loc[p].op = "prefsGet" THEN Done(p) ELSE Goto(p, "prefsWrite", loc[p])
    /\ UNCHANGED <<tables, memory, world, ops, past>>

Put(f, k, v) == [x \in DOMAIN f \cup {k} |-> IF x = k THEN v ELSE f[x]]
InsertPrefs(p) ==
    /\ At(p, "prefsInsert")
    /\ IF loc[p].me \in DOMAIN prefs THEN Done(p) /\ UNCHANGED prefs
       ELSE /\ prefs' = Put(prefs, loc[p].me, None)
            /\ IF loc[p].op = "prefsGet" THEN Done(p) ELSE Goto(p, "prefsWrite", loc[p])
    /\ UNCHANGED <<users, sessions, stored, memory, world, ops, past>>

WritePrefs(p) ==
    /\ At(p, "prefsWrite")
    /\ prefs' = Put(prefs, loc[p].me, loc[p].to)
    /\ Done(p)
    /\ UNCHANGED <<users, sessions, stored, memory, world, ops, past>>

\* updateAppSettings: read, merge, upsert the whole row, read it again for the cache.
MergeConfig(p) ==
    /\ At(p, "merge")
    /\ Goto(p, "upsert", [loc[p] EXCEPT !.base = stored])
    /\ UNCHANGED <<tables, memory, world, ops, past>>

\* Mutant: the override is written without what was there.
UpsertPartial(p) ==
    /\ At(p, "upsert")
    /\ stored' = [f \in Fields |-> IF f = loc[p].target THEN loc[p].to ELSE None]
    /\ past' = [past EXCEPT !.wanted[loc[p].target] = loc[p].to,
                            !.clashed = @ \/ loc[p].base # stored]
    /\ Goto(p, "reload", loc[p])
    /\ UNCHANGED <<users, sessions, prefs, memory, world, ops>>

UpsertConfig(p) ==
    /\ At(p, "upsert")
    /\ stored' = [loc[p].base EXCEPT ![loc[p].target] = loc[p].to]
    /\ past' = [past EXCEPT !.wanted[loc[p].target] = loc[p].to,
                            !.clashed = @ \/ loc[p].base # stored]
    /\ Goto(p, "reload", loc[p])
    /\ UNCHANGED <<users, sessions, prefs, memory, world, ops>>

Reload(p) ==
    /\ At(p, "reload")
    /\ cache' = Layer(stored)
    /\ past' = [past EXCEPT !.direct = FALSE]
    /\ Done(p)
    /\ UNCHANGED <<tables, txs, world, ops>>

\* setGlobalSetting, which takes any key: the one of the overrides too, and then it
\* replaces them and the cache stays.
SetGlobal(p) ==
    /\ At(p, "global")
    /\ stored' = [f \in Fields |-> IF f = loc[p].target THEN loc[p].to ELSE None]
    /\ past' = [past EXCEPT !.wanted = stored', !.direct = TRUE]
    /\ Done(p)
    /\ UNCHANGED <<users, sessions, prefs, memory, world, ops>>

SettingsSteps(p) ==
    \/ ReadPrefs(p) \/ InsertPrefs(p) \/ WritePrefs(p)
    \/ MergeConfig(p) \/ UpsertConfig(p) \/ Reload(p) \/ SetGlobal(p)

-----------------------------------------------------------------------------

\* seedLocalOwner, which only ever sets a password that is missing.
Seeded(us) ==
    LET S == {u \in DOMAIN us : us[u].handle = Owner}
    IN  IF mix.mode # "local" THEN us
        ELSE IF S = {} THEN Append(us, NewUser(Owner, None, "admin", Initial, "handler"))
        ELSE [us EXCEPT ![The(S)].pw = IF @ = None THEN Initial ELSE @]

\* Five minutes pass.  That long, no statement waits: a slide reaches its row in the
\* tick it was decided in.
Tick ==
    /\ clock < mix.till
    /\ \A p \in Procs : ~At(p, "slide")
    /\ clock' = clock + 1
    /\ UNCHANGED <<tables, memory, idp, mix, crashes, pc, loc, ops, past>>

\* Somebody gets another name at the provider, one nobody has.
Rename ==
    /\ \E e \in Subs, h \in Handles \ {idp[x].now : x \in Subs} :
          /\ Cardinality(idp[e].had) <= mix.renames
          /\ idp' = [idp EXCEPT ![e] = [now |-> h, had |-> @.had \cup {h}]]
    /\ UNCHANGED <<tables, memory, clock, mix, crashes, pc, loc, ops, past>>

\* The server dies with its requests and comes up again.
Restart ==
    /\ crashes < mix.crashes
    /\ crashes' = crashes + 1
    /\ users' = Seeded(users)
    /\ cache' = Layer(stored) /\ txs' = {}
    /\ pc' = [p \in Procs |-> "idle"] /\ loc' = [p \in Procs |-> Idle]
    /\ past' = [past EXCEPT !.direct = FALSE,
                   !.unswept = @ \cup {loc[p].target : p \in {q \in Procs : pc[q] \in {"sweep", "sweepWrite"}}},
                   !.unslid  = @ \cup {loc[p].row : p \in {q \in Procs : At(q, "slide")}}]
    /\ UNCHANGED <<sessions, prefs, stored, idp, clock, mix, ops>>

Init ==
    /\ mix \in Mixes
    /\ users = Seeded(mix.users) /\ sessions = <<>> /\ prefs = <<>>
    /\ stored = [f \in Fields |-> None] /\ cache = Layer(stored) /\ txs = {}
    /\ idp = [e \in Subs |-> [now |-> mix.names[e], had |-> {mix.names[e]}]]
    /\ clock = 0 /\ ops = 0 /\ crashes = 0
    /\ pc = [p \in Procs |-> "idle"] /\ loc = [p \in Procs |-> Idle]
    /\ past = [raced |-> {}, unswept |-> {}, unslid |-> {}, unseated |-> FALSE, crossed |-> {},
               wanted |-> stored, clashed |-> FALSE, direct |-> FALSE]

Next ==
    \/ \E p \in Procs : IdentitySteps(p) \/ AdminSteps(p) \/ SettingsSteps(p)
    \/ Tick \/ Rename \/ Restart

Spec == Init /\ [][Next]_accVars

-----------------------------------------------------------------------------
(* Type invariant: the columns, their uniqueness, the foreign keys.        *)
TypeOK ==
    /\ \A u \in DOMAIN users : users[u] \in UserRow
    /\ \A u, v \in DOMAIN users :
          u # v => /\ users[u].handle # users[v].handle
                   /\ users[u].ext # None => users[u].ext # users[v].ext
    /\ \A s \in DOMAIN sessions :
          sessions[s] \in [user : DOMAIN users, revoked : BOOLEAN, seen : 0..clock,
                           used : 0..clock, expires : Nat, era : Nat]
    /\ DOMAIN prefs \subseteq DOMAIN users
    /\ stored \in [Fields -> Values \cup {None}] /\ cache \in [Fields -> Values]
    /\ past \in Past

\* "Disable kills the user's live sessions now", and a new password does: once the
\* request that disabled a user or set the password is through, no session answers that
\* a login before it minted, not even when the user is enabled again.  Only one whose
\* login was under way meanwhile escapes, and those of a user whose server died
\* between the two writes.  A session that is not revoked ends within the lifetime
\* after its last use, and not a throttle's length earlier unless the server died
\* between that use and the slide it called for.
SessionsEnd ==
    \A s \in DOMAIN sessions :
        LET u == sessions[s].user
        IN  /\ Answers(s) /\ s \notin past.raced /\ u \notin past.unswept
                  => \/ sessions[s].era = users[u].era
                     \/ \E p \in Procs : /\ pc[p] \in {"sweep", "sweepWrite"}
                                         /\ loc[p].target = u
            /\ Answers(s) => clock < sessions[s].used + Ttl
            /\ (\A p \in Procs : ~At(p, "slide")) /\ s \notin past.unslid
                  /\ users[u].on /\ ~sessions[s].revoked
                  => (clock < sessions[s].used + Ttl - Throttle => Answers(s))

\* Whatever administrators do to each other's role and lock, an enabled one remains,
\* unless a guard acted on a row or a count another had changed meanwhile.
AnAdminRemains ==
    mix.seated /\ ~past.unseated => OtherAdmins(0) > 0

\* One tenant per person, under every rename: a row the seam made belongs to a person,
\* a handler makes none but the owner's, a row stays with the person it was first made
\* for or linked to, and no two are the same person's.  Excluded are the names that went
\* while a request still used them, and rows of people whose former name the provider
\* gave to somebody else.  A person the proxy vouches for without an id has a row that is
\* linked to nobody, and another after a rename, as only the name says whose it is.
TenantsArePersons ==
    LET passedOn(e) == \E f \in Subs \ {e} : idp[e].had \cap idp[f].had # {}
        renamed(e)  == idp[e].had # {idp[e].now}
    IN  \A u \in DOMAIN users :
          LET r == users[u]
          IN  /\ r.by = "seam" /\ mix.mode # "local" => r.own # None
              /\ r.by = "handler" /\ r.handle \notin past.crossed
                    => r.handle = Owner \/ r.own # None
              /\ r.own # None => \/ r.ext = r.own \/ passedOn(r.own)
                                 \/ r.ext = None /\ r.own \in mix.nameless
              /\ \A v \in DOMAIN users \ {u} :
                    r.own # None /\ users[v].own = r.own
                       => passedOn(r.own) \/ (r.own \in mix.nameless /\ renamed(r.own))

\* The process answers with the settings the tables hold, and the tables hold the last
\* override of every field, unless two updates merged into the same row.  The row set
\* past the merge, as a global setting, waits for the next reload.
ConfigIsCurrent ==
    /\ ~past.direct /\ (\A p \in Procs : ~At(p, "reload")) => cache = Layer(stored)
    /\ past.clashed \/ stored = past.wanted
=============================================================================
