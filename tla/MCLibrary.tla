------------------------------ MODULE MCLibrary ------------------------------
EXTENDS Library, ImportFormats, TLC

CONSTANTS p1, p2, h1, h2, k1, k2, f1, f2, n1, n2, t1, t2, u1

\* Editors and chats; presets; the same files and cards again and again; edits
\* between imports; characters and chats that go; pictures and what sweeps them.
Mix(kinds, n, handles, cards, bundles) ==
    [kinds |-> kinds, ops |-> n, handles |-> handles, cards |-> cards, bundles |-> bundles]

Editing   == Mix({"create", "update", "remove", "open", "delete"}, 4, {h1, h2}, {}, {})
Presets   == Mix({"create", "preset", "update", "open", "remove"}, 4, {h1}, {}, {})
Files12   == Mix({"import", "loose"}, 3, {}, {k2}, {<<f2, f1>>, <<f1>>})
Reimports == Mix({"import", "update", "open"}, 3, {}, {k1, k2}, {<<>>})
Removals  == Mix({"import", "loose", "delete", "remove"}, 3, {}, {k2}, {<<f1>>, <<f2>>})
Pictures  == Mix({"import", "remove", "gc", "backfill", "persona", "rebuild"}, 5, {}, {k1}, {<<>>})
MCMixes == {Editing, Presets, Files12, Reimports, Removals, Pictures}

\* FormatsWhole speaks of no state; it is looked at before the first request.
FormatsHold == ops = 0 => FormatsWhole

MCCardHandle == (k1 :> h1) @@ (k2 :> h1)
MCLoreOf     == (k1 :> 1) @@ (k2 :> 0)
MCFileName   == (f1 :> n1) @@ (f2 :> n2)
MCParentRef  == (f1 :> None) @@ (f2 :> n1)
Same         == Permutations({p1, p2})
MCLinesOf    == (f1 :> 2) @@ (f2 :> 0)
=============================================================================
