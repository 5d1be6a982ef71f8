------------------------------ MODULE MCAccounts ------------------------------
EXTENDS Accounts, AccessRules, TLC

CONSTANTS p1, p2, h0, h1, h2, e1, e2, w1, w2, f1, f2, on, off

\* What is there at first, what is asked, and how much of it.
Row(h, ext, role, w) == NewUser(h, ext, role, w, "admin")
Base == [mode |-> "local", verbs |-> {}, ops |-> 3, lan |-> FALSE, users |-> <<>>, seated |-> TRUE,
         names |-> (e1 :> h1) @@ (e2 :> h2), nameless |-> {}, till |-> 0, renames |-> 0,
         logins |-> 0, crashes |-> 0]
Two == <<Row(h0, None, "admin", None), Row(h1, None, "admin", w2)>>

Locks    == [Base EXCEPT !.verbs = {"setEnabled", "logout"}, !.ops = 4, !.lan = TRUE,
                         !.users = SubSeq(Two, 1, 1) \o <<Row(h1, None, "user", w2)>>, !.crashes = 1]
Resets   == [Base EXCEPT !.verbs = {"resetPassword", "revokeUser", "revokeSession"},
                         !.lan = TRUE, !.crashes = 1]
Admins   == [Base EXCEPT !.verbs = {"setRole", "setEnabled"}, !.ops = 4, !.lan = TRUE, !.users = Two]
Sliding  == [Base EXCEPT !.verbs = {"me", "prefsGet"}, !.till = 6, !.crashes = 1]
Hires    == [Base EXCEPT !.verbs = {"createUser", "setRole"}]
Provider == [Base EXCEPT !.mode = "oidc", !.verbs = {"prefsSet"}, !.ops = 4, !.seated = FALSE,
                         !.renames = 1, !.logins = 2]
Expiring == [Base EXCEPT !.mode = "oidc", !.verbs = {"me"}, !.seated = FALSE, !.till = 3, !.logins = 2]
Proxied  == [Base EXCEPT !.mode = "forward-header", !.verbs = {"prefsGet"}, !.ops = 4,
                         !.seated = FALSE, !.renames = 1, !.nameless = {e1, e2}]
Settings == [Base EXCEPT !.verbs = {"config", "global", "prefsSet"}, !.lan = TRUE, !.crashes = 1]
MCMixes == {Locks, Resets, Admins, Sliding, Hires, Provider, Expiring, Proxied, Settings}

\* AccessDecided speaks of no state; it is looked at before the first request.
AccessHolds == ops = 0 => AccessDecided

MCEnvOf == (f1 :> on) @@ (f2 :> off)
Same    == Permutations({p1, p2})
=============================================================================
