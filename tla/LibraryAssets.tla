---------------------------- MODULE LibraryAssets ----------------------------
(***************************************************************************)
(* Binaries live once, under the hash of their bytes, in a tree of files;  *)
(* assets indexes them.  The garbage collector is a job of its own: it     *)
(* reads which hashes are referenced, walks the tree, and removes what is  *)
(* neither referenced nor younger than the grace window.                   *)
(***************************************************************************)
EXTENDS LibraryStore

\* putBytes: nothing to write if the bytes are there already, and then the file
\* keeps its age.
PutBytes(h) == blobs' = IF h \in DOMAIN blobs THEN blobs ELSE Row(blobs, h, "young")

\* The upsert of the index row; its id stands for the hash.
StoreRow(h) == assets' = assets \cup {h}

-----------------------------------------------------------------------------
(* backfillAvatars, for one card                                           *)

BackfillRead(p) ==
    \E k \in PngCards \cap mix.cards, i \in DOMAIN items :
        LET cur == items[i].cur
        IN  /\ items[i].handle = CardHandle[k]
            /\ cur # None /\ vers[cur].avatar = None
            /\ Begin(p, "backfill", "backfill.put",
                     [Idle EXCEPT !.ver = cur, !.card = k, !.text = items[i].hash])
            /\ UNCHANGED <<tables, disk, history>>

BackfillPut(p) ==
    /\ pc[p] = "backfill.put"
    /\ PutBytes(loc[p].card)
    /\ Goto(p, "backfill.row", loc[p])
    /\ UNCHANGED <<tables, assets, budget, history>>

BackfillRow(p) ==
    /\ pc[p] = "backfill.row"
    /\ StoreRow(loc[p].card)
    /\ Goto(p, "backfill.link", loc[p])
    /\ UNCHANGED <<tables, blobs, budget, history>>

\* Not linked if the character was imported from other bytes; the id of a row
\* that was swept meanwhile breaks the foreign key.
BackfillLink(p) ==
    LET r == loc[p]
        link == r.text \in {None, r.card} /\ r.ver \in DOMAIN vers /\ r.card \in assets
    IN  /\ pc[p] = "backfill.link"
        /\ Finish(p)
        /\ vers' = IF link THEN [vers EXCEPT ![r.ver].avatar = r.card] ELSE vers
        /\ exposed' = IF link THEN Exposes(r.card) ELSE exposed
        /\ UNCHANGED <<last, items, chats, personas, disk, budget, tangled, torn>>

-----------------------------------------------------------------------------
(* collectGarbage                                                          *)

\* Mutant: old files are garbage, referenced or not.
GcStartAll(p) ==
    /\ Sweeping = {}
    /\ Begin(p, "gc", "gc.stat",
             [Idle EXCEPT !.todo = {h \in DOMAIN blobs : blobs[h] = "old"}])
    /\ UNCHANGED <<tables, disk, history>>

\* The references, and the clock, are read once: todo is what the walk will find
\* unreferenced and old.
GcStart(p) ==
    /\ Sweeping = {}
    /\ \E h \in DOMAIN blobs : blobs[h] = "old" /\ h \notin Referenced
    /\ Begin(p, "gc", "gc.stat",
             [Idle EXCEPT !.todo = {h \in DOMAIN blobs : blobs[h] = "old"} \ Referenced])
    /\ UNCHANGED <<tables, disk, history>>

\* One file of the walk: its age is read again, then it is removed.
GcRemove(p) ==
    LET r == loc[p]
        h == CHOOSE x \in r.todo : TRUE
        rest == [r EXCEPT !.todo = @ \ {h}]
    IN  /\ pc[p] = "gc.stat"
        /\ r.todo # {}
        /\ IF h \in DOMAIN blobs /\ blobs[h] = "old"
           THEN /\ blobs' = Without(blobs, {h})
                /\ exposed' = IF Storing(h) = {} THEN exposed ELSE exposed \cup {h}
                /\ Goto(p, "gc.row", [rest EXCEPT !.card = h])
           ELSE Goto(p, "gc.stat", rest) /\ UNCHANGED <<blobs, exposed>>
        /\ UNCHANGED <<tables, assets, budget, tangled, torn>>

\* The row goes after the file: avatars that point to it become null.
GcRow(p) ==
    LET h == loc[p].card
    IN  /\ pc[p] = "gc.row"
        /\ assets' = assets \ {h}
        /\ vers' = [v \in DOMAIN vers |-> [vers[v] EXCEPT !.avatar = IF @ = h THEN None ELSE @]]
        /\ personas' = [u \in DOMAIN personas |->
                           IF personas[u] = h THEN None ELSE personas[u]]
        /\ Goto(p, "gc.stat", [loc[p] EXCEPT !.card = None])
        /\ UNCHANGED <<last, items, chats, blobs, budget, history>>

GcEnd(p) ==
    /\ pc[p] = "gc.stat" /\ loc[p].todo = {}
    /\ Finish(p)
    /\ UNCHANGED <<tables, disk, budget, history>>

\* An hour passes.  A sweep compares with the clock it started from, and an
\* import links what it stored well within the hour.
Age ==
    /\ Sweeping = {}
    /\ \E h \in DOMAIN blobs :
        /\ blobs[h] = "young" /\ Storing(h) = {}
        /\ blobs' = [blobs EXCEPT ![h] = "old"]
    /\ UNCHANGED <<tables, assets, pc, loc, budget, history>>

-----------------------------------------------------------------------------
(* rebuildFromTree, for one blob without a row                             *)

RebuildRead(p) ==
    \E h \in DOMAIN blobs \ assets :
        /\ Begin(p, "rebuild", "rebuild.row", [Idle EXCEPT !.card = h])
        /\ UNCHANGED <<tables, disk, history>>

RebuildRow(p) ==
    /\ pc[p] = "rebuild.row"
    /\ StoreRow(loc[p].card)
    /\ Finish(p)
    /\ UNCHANGED <<tables, blobs, budget, history>>

-----------------------------------------------------------------------------
(* Personas: one row each, written in one statement.                       *)

PersonaWrite(p, u, a) ==
    /\ a \in {None} \cup assets
    /\ Request(p, "persona")
    /\ personas' = Row(personas, u, a)
    /\ exposed' = Exposes(a)
    /\ UNCHANGED <<last, items, vers, chats, disk, pc, loc, tangled, torn>>

PersonaCreate(p) ==
    \E u \in Personas \ DOMAIN personas, a \in {None} \cup assets : PersonaWrite(p, u, a)
PersonaUpdate(p) ==
    \E u \in DOMAIN personas, a \in {None} \cup assets : a # personas[u] /\ PersonaWrite(p, u, a)
PersonaRemove(p) ==
    \E u \in DOMAIN personas :
        /\ Request(p, "persona")
        /\ personas' = Without(personas, {u})
        /\ UNCHANGED <<last, items, vers, chats, disk, pc, loc, history>>

AssetSteps(p) ==
    \/ BackfillRead(p) \/ BackfillPut(p) \/ BackfillRow(p) \/ BackfillLink(p)
    \/ GcStart(p) \/ GcRemove(p) \/ GcRow(p) \/ GcEnd(p)
    \/ RebuildRead(p) \/ RebuildRow(p)
    \/ PersonaCreate(p) \/ PersonaUpdate(p) \/ PersonaRemove(p)
=============================================================================
