--------------------------- MODULE LibraryVersions ---------------------------
(***************************************************************************)
(* Characters and presets: identity rows whose contents are versions.  A   *)
(* version no chat pins is edited in place, a pinned one is forked (copy   *)
(* on write).  Both services are the same sequence of statements; a preset *)
(* has no handle and no avatar.                                            *)
(***************************************************************************)
EXTENDS LibraryStore

IsCharacter(p) == loc[p].item \in DOMAIN items /\ items[loc[p].item].kind = "character"
Kinds == {"character", "preset"}

\* A version row; seeded by an edit, a fork or a card.
Version(i, n, text, avatar) ==
    [of |-> i, num |-> n, text |-> text, avatar |-> avatar, lore |-> 0]

\* Insert the version loc[p] describes, or throw; then go to label l.
InsertVersion(p, l) ==
    LET r == loc[p]
        v == NewVer
    IN  IF VersionFits(r.item, r.num, r.avatar)
        THEN /\ vers' = Row(vers, v, Version(r.item, r.num, r.text, r.avatar))
             /\ Counts("ver")
             /\ Goto(p, l, [r EXCEPT !.ver = v])
             /\ exposed' = Exposes(r.avatar)
             /\ UNCHANGED tangled
        ELSE /\ Finish(p)
             /\ tangled' = tangled \cup {r.item}
             /\ UNCHANGED <<vers, last, exposed>>

\* The last statement of a write: the pointer, and the handle if it is edited.
SetPointer(p) ==
    LET r == loc[p]
        throws == r.handle # None /\ HandleTaken(r.handle)
    IN  /\ Finish(p)
        /\ IF r.item \notin DOMAIN items THEN UNCHANGED <<items, tangled>>
           ELSE IF throws THEN tangled' = tangled \cup {r.item} /\ UNCHANGED items
           ELSE /\ items' = [items EXCEPT ![r.item].cur = r.ver,
                                          ![r.item].handle = IF r.handle = None THEN @ ELSE r.handle]
                /\ UNCHANGED tangled

-----------------------------------------------------------------------------
(* create                                                                  *)

\* checkHandleConflict, with the owner's own characters.
CharacterCreate(p) ==
    \E h \in mix.handles, t \in Texts, a \in {None} \cup assets :
        /\ ~HandleTaken(h)
        /\ Begin(p, "create", "create.insert", [Idle EXCEPT !.handle = h, !.text = t, !.avatar = a])
        /\ UNCHANGED <<tables, disk, history>>

PresetCreate(p) ==
    \E t \in Texts :
        /\ Begin(p, "preset", "create.insert", [Idle EXCEPT !.text = t])
        /\ UNCHANGED <<tables, disk, history>>

\* The identity row; a handle taken since the check makes the statement throw.
CreateInsert(p) ==
    LET r == loc[p]
        i == NewItem
        kind == IF r.handle = None THEN "preset" ELSE "character"
    IN  /\ pc[p] = "create.insert"
        /\ IF r.handle # None /\ HandleTaken(r.handle)
           THEN Finish(p) /\ UNCHANGED <<items, last>>
           ELSE /\ Counts("item")
                /\ items' = Row(items, i, [kind |-> kind, handle |-> r.handle,
                                           cur |-> None, hash |-> None])
                /\ Goto(p, "create.version", [r EXCEPT !.item = i, !.num = 1, !.handle = None])
        /\ UNCHANGED <<vers, chats, personas, disk, budget, history>>

CreateVersion(p) ==
    /\ pc[p] = "create.version"
    /\ InsertVersion(p, "create.point")
    /\ UNCHANGED <<items, chats, personas, disk, budget, torn>>

CreatePoint(p) ==
    /\ pc[p] = "create.point"
    /\ SetPointer(p)
    /\ UNCHANGED <<last, vers, chats, personas, disk, budget, torn, exposed>>

-----------------------------------------------------------------------------
(* update                                                                  *)

\* The row is read once; its pointer is what the rest of the request uses.
UpdateRead(p, i, t, h, a) ==
    LET row == items[i]
        rename == IF h = row.handle THEN None ELSE h
    IN  /\ Begin(p, "update", IF t # None THEN "update.pinned" ELSE "update.identity",
                 [Idle EXCEPT !.item = i, !.cur = row.cur, !.text = t,
                              !.handle = rename, !.avatar = a])
        /\ rename # None => ~HandleTaken(rename)
        /\ Meets(p, i)
        /\ UNCHANGED <<tables, disk, torn, exposed>>

\* Content, an avatar and a new handle: any of them may come in one edit.
CharacterUpdate(p) ==
    \E i \in DOMAIN items, t \in Texts \cup {None}, h \in mix.handles \cup {None},
       a \in {None} \cup assets :
        /\ items[i].kind = "character"
        /\ t # None \/ (a = None /\ h \notin {None, items[i].handle})
        /\ UpdateRead(p, i, t, h, a)

PresetUpdate(p) ==
    \E i \in DOMAIN items, t \in Texts :
        /\ items[i].kind = "preset"
        /\ UpdateRead(p, i, t, None, None)

\* Mutant: edits in place whether or not a chat pins the version.
UpdatePinnedNever(p) ==
    LET r == loc[p]
    IN  /\ pc[p] = "update.pinned"
        /\ Goto(p, IF r.cur = None THEN "update.mint" ELSE "update.mutate", [r EXCEPT !.num = 1])
        /\ UNCHANGED <<tables, disk, budget, history>>

\* versionPinned, of the version that was current when the row was read.
UpdatePinned(p) ==
    LET r == loc[p]
    IN  /\ pc[p] = "update.pinned"
        /\ Goto(p, IF r.cur = None THEN "update.mint"
                   ELSE IF Pinned(r.cur) THEN "update.fork" ELSE "update.mutate",
                [r EXCEPT !.num = 1])
        /\ UNCHANGED <<tables, disk, budget, history>>

\* No current version: mint number 1.
UpdateMint(p) ==
    /\ pc[p] = "update.mint"
    /\ InsertVersion(p, "update.point")
    /\ UNCHANGED <<items, chats, personas, disk, budget, torn>>

\* Read all versions: the highest number, and what the edit leaves as it was.
ForkRead(p, keepsAvatar) ==
    LET r == loc[p]
        lost == keepsAvatar /\ r.cur \notin VersionsOf(r.item)   \* "Current version missing"
        old == IF r.cur \in DOMAIN vers THEN vers[r.cur].avatar ELSE None
    IN  /\ pc[p] = "update.fork"
        /\ IF lost THEN Finish(p)
           ELSE Goto(p, "update.insert",
                     [r EXCEPT !.num = MaxNumber(r.item) + 1,
                               !.avatar = IF @ = None THEN old ELSE @])
        /\ UNCHANGED <<tables, disk, budget, history>>

CharacterFork(p) == (IsCharacter(p) \/ loc[p].item \notin DOMAIN items) /\ ForkRead(p, TRUE)
PresetFork(p) == ~IsCharacter(p) /\ loc[p].item \in DOMAIN items /\ ForkRead(p, FALSE)

UpdateInsert(p) ==
    /\ pc[p] = "update.insert"
    /\ InsertVersion(p, "update.point")
    /\ UNCHANGED <<items, chats, personas, disk, budget, torn>>

UpdatePoint(p) ==
    /\ pc[p] = "update.point"
    /\ SetPointer(p)
    /\ UNCHANGED <<last, vers, chats, personas, disk, budget, torn, exposed>>

\* Nobody pinned the version when it was looked up: edit it in place.
UpdateMutate(p) ==
    LET r == loc[p]
        next == IF r.handle = None THEN "idle" ELSE "update.identity"
        fits == r.avatar \in assets \cup {None}
    IN  /\ pc[p] = "update.mutate"
        /\ IF r.cur \in DOMAIN vers /\ fits
           THEN /\ vers' = [vers EXCEPT ![r.cur].text = r.text,
                                        ![r.cur].avatar = IF r.avatar = None THEN @ ELSE r.avatar]
                /\ exposed' = Exposes(r.avatar)
           ELSE UNCHANGED <<vers, exposed>>
        /\ IF fits THEN Goto(p, next, IF next = "idle" THEN Idle ELSE r) ELSE Finish(p)
        /\ UNCHANGED <<last, items, chats, personas, disk, budget, tangled, torn>>

\* Identity edits that come alone, or after an edit in place.
UpdateIdentity(p) ==
    LET r == loc[p]
    IN  /\ pc[p] = "update.identity"
        /\ Finish(p)
        /\ items' = IF r.item \in DOMAIN items /\ ~HandleTaken(r.handle)
                    THEN [items EXCEPT ![r.item].handle = r.handle] ELSE items
        /\ UNCHANGED <<last, vers, chats, personas, disk, budget, history>>

-----------------------------------------------------------------------------
(* remove                                                                  *)

RemoveRead(p) ==
    \E i \in DOMAIN items :
        /\ Begin(p, "remove", "remove.list", [Idle EXCEPT !.item = i])
        /\ Meets(p, i)
        /\ UNCHANGED <<tables, disk, torn, exposed>>

RemoveList(p) ==
    /\ pc[p] = "remove.list"
    /\ Goto(p, "remove.check", [loc[p] EXCEPT !.todo = VersionsOf(loc[p].item)])
    /\ UNCHANGED <<tables, disk, budget, history>>

\* One version after the other: pinned refuses the deletion.
RemoveCheck(p) ==
    LET r == loc[p]
        v == Min(r.todo)
    IN  /\ pc[p] = "remove.check"
        /\ IF r.todo = {} THEN Goto(p, "remove.unpoint", r)
           ELSE IF Pinned(v) THEN Finish(p)
           ELSE Goto(p, "remove.check", [r EXCEPT !.todo = @ \ {v}])
        /\ UNCHANGED <<tables, disk, budget, history>>

\* Break the circular pointer first ...
RemoveUnpoint(p) ==
    LET i == loc[p].item
    IN  /\ pc[p] = "remove.unpoint"
        /\ items' = IF i \in DOMAIN items THEN [items EXCEPT ![i].cur = None] ELSE items
        /\ Goto(p, "remove.delete", loc[p])
        /\ UNCHANGED <<last, vers, chats, personas, disk, budget, history>>

\* Mutant: the versions do not go with their item.
RemoveDeleteAlone(p) ==
    LET i == loc[p].item
    IN  /\ pc[p] = "remove.delete"
        /\ Finish(p)
        /\ items' = Without(items, {i})
        /\ tangled' = tangled \ {i}
        /\ UNCHANGED <<last, vers, chats, personas, disk, budget, torn, exposed>>

\* ... then delete: versions cascade, and a version pinned meanwhile refuses.
RemoveDelete(p) ==
    LET i == loc[p].item
    IN  /\ pc[p] = "remove.delete"
        /\ Finish(p)
        /\ IF \E v \in VersionsOf(i) : Pinned(v)
           THEN tangled' = tangled \cup {i} /\ UNCHANGED <<items, vers>>
           ELSE /\ items' = Without(items, {i})
                /\ vers' = Without(vers, VersionsOf(i))
                /\ tangled' = tangled \ {i}
        /\ UNCHANGED <<last, chats, personas, disk, budget, torn, exposed>>

-----------------------------------------------------------------------------
(* Chats: startChat takes any version of the library the client names.     *)

OpenLook(p) ==
    \E v \in DOMAIN vers, s \in {None} \cup DOMAIN items :
        /\ items[vers[v].of].kind = "character"
        /\ s # None => items[s].kind = "preset"
        /\ Begin(p, "open", "open.preset", [Idle EXCEPT !.ver = v, !.item = s])
        /\ UNCHANGED <<tables, disk, history>>

\* resolveOwnedPresetVersion: a preset that is gone, or has no version, is null.
OpenPreset(p) ==
    LET s == loc[p].item
    IN  /\ pc[p] = "open.preset"
        /\ Goto(p, "open.insert",
                [loc[p] EXCEPT !.cur = IF s \in DOMAIN items THEN items[s].cur ELSE None])
        /\ UNCHANGED <<tables, disk, budget, history>>

OpenInsert(p) ==
    LET r == loc[p]
    IN  /\ pc[p] = "open.insert"
        /\ Finish(p)
        /\ IF {r.ver, r.cur} \subseteq DOMAIN vers \cup {None}
           THEN /\ Counts("chat")
                /\ chats' = Row(chats, NewChat,
                             [ver |-> r.ver, preset |-> r.cur, file |-> None, parent |-> None,
                              have |-> 0, seen |-> Seen(r.ver), config |-> Seen(r.cur)])
           ELSE UNCHANGED <<chats, last>>
        /\ UNCHANGED <<items, vers, personas, disk, budget, history>>

\* deleteChat: its messages go with it, and its branches keep no parent.
ChatRemove(p) ==
    \E c \in DOMAIN chats :
        /\ Request(p, "delete")
        /\ chats' = [d \in DOMAIN chats \ {c} |->
                        [chats[d] EXCEPT !.parent = IF @ = c THEN None ELSE @]]
        /\ torn' = torn \cup {d \in DOMAIN chats : chats[d].parent = c}
        /\ UNCHANGED <<last, items, vers, personas, disk, pc, loc, tangled, exposed>>

VersionSteps(p) ==
    \/ CharacterCreate(p) \/ PresetCreate(p)
    \/ CreateInsert(p) \/ CreateVersion(p) \/ CreatePoint(p)
    \/ CharacterUpdate(p) \/ PresetUpdate(p)
    \/ UpdatePinned(p) \/ UpdateMint(p) \/ CharacterFork(p) \/ PresetFork(p)
    \/ UpdateInsert(p) \/ UpdatePoint(p) \/ UpdateMutate(p) \/ UpdateIdentity(p)
    \/ RemoveRead(p) \/ RemoveList(p) \/ RemoveCheck(p)
    \/ RemoveUnpoint(p) \/ RemoveDelete(p)
    \/ OpenLook(p) \/ OpenPreset(p) \/ OpenInsert(p) \/ ChatRemove(p)
=============================================================================
