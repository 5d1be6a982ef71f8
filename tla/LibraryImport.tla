---------------------------- MODULE LibraryImport ----------------------------
(***************************************************************************)
(* Importing a card with its chats, or loose chats into a character.  The  *)
(* card is matched by its handle, a chat by the hash of its file; both are *)
(* many statements without a transaction.                                  *)
(***************************************************************************)
EXTENDS LibraryStore

ImportCard(p) ==
    \E k \in mix.cards, fs \in mix.bundles :
        /\ Begin(p, "import", IF k \in PngCards THEN "import.put" ELSE "import.read",
                 [Idle EXCEPT !.card = k, !.files = fs, !.text = k,
                              !.avatar = IF k \in PngCards THEN k ELSE None])
        /\ UNCHANGED <<tables, disk, history>>

\* The composition root stores the picture before it calls importCharacter.
ImportPut(p) ==
    /\ pc[p] = "import.put"
    /\ blobs' = IF loc[p].card \in DOMAIN blobs THEN blobs ELSE Row(blobs, loc[p].card, "young")
    /\ Goto(p, "import.row", loc[p])
    /\ UNCHANGED <<tables, assets, budget, history>>

ImportRow(p) ==
    /\ pc[p] = "import.row"
    /\ assets' = assets \cup {loc[p].card}
    /\ Goto(p, "import.read", loc[p])
    /\ UNCHANGED <<tables, blobs, budget, history>>

\* Match by handle: new, unchanged (same bytes and a current version), or changed.
ImportRead(p) ==
    LET r == loc[p]
        found == {i \in DOMAIN items : items[i].handle = CardHandle[r.card]}
        i == CHOOSE x \in found : TRUE
        same == items[i].hash = r.card /\ items[i].cur # None
    IN  /\ pc[p] = "import.read"
        /\ IF found = {} THEN Goto(p, "import.char", r) /\ UNCHANGED tangled
           ELSE IF same THEN Goto(p, "chats.dup", [r EXCEPT !.item = i, !.ver = items[i].cur])
                             /\ UNCHANGED tangled
           ELSE Goto(p, "import.max", [r EXCEPT !.item = i]) /\ Meets(p, i)
        /\ UNCHANGED <<tables, disk, budget, torn, exposed>>

ImportCharacter(p) ==
    LET r == loc[p]
        i == NewItem
        h == CardHandle[r.card]
    IN  /\ pc[p] = "import.char"
        /\ IF HandleTaken(h) THEN Finish(p) /\ UNCHANGED <<items, last>>
           ELSE /\ Counts("item")
                /\ items' = Row(items, i, [kind |-> "character", handle |-> h,
                                           cur |-> None, hash |-> r.card])
                /\ Goto(p, "import.version", [r EXCEPT !.item = i, !.num = 1])
        /\ UNCHANGED <<vers, chats, personas, disk, budget, history>>

ImportMax(p) ==
    /\ pc[p] = "import.max"
    /\ Goto(p, "import.version", [loc[p] EXCEPT !.num = MaxNumber(loc[p].item) + 1])
    /\ UNCHANGED <<tables, disk, budget, history>>

\* Mutant: the pointer moves before the lorebook is there.
AfterVersionPoint(p, done) == "import.point"

\* After the version, its lorebook entry by entry, and only then the pointer.
AfterVersion(p, done) == IF done < LoreOf[loc[p].card] THEN "import.lore" ELSE "import.point"

ImportVersion(p) ==
    LET r == loc[p]
        v == NewVer
    IN  /\ pc[p] = "import.version"
        /\ IF VersionFits(r.item, r.num, r.avatar)
           THEN /\ vers' = Row(vers, v, [of |-> r.item, num |-> r.num, text |-> r.text,
                                         avatar |-> r.avatar, lore |-> 0])
                /\ Counts("ver")
                /\ Goto(p, AfterVersion(p, 0), [r EXCEPT !.ver = v])
                /\ exposed' = Exposes(r.avatar)
                /\ UNCHANGED tangled
           ELSE /\ Finish(p)
                /\ tangled' = tangled \cup {r.item}
                /\ UNCHANGED <<vers, last, exposed>>
        /\ UNCHANGED <<items, chats, personas, disk, budget, torn>>

ImportLore(p) ==
    LET r == loc[p]
    IN  /\ pc[p] = "import.lore"
        /\ IF r.ver \in DOMAIN vers
           THEN /\ vers' = [vers EXCEPT ![r.ver].lore = @ + 1]
                /\ Goto(p, AfterVersion(p, vers[r.ver].lore + 1), r)
           ELSE Finish(p) /\ UNCHANGED vers
        /\ UNCHANGED <<last, items, chats, personas, disk, budget, history>>

ImportPoint(p) ==
    LET r == loc[p]
    IN  /\ pc[p] = "import.point"
        /\ items' = IF r.item \in DOMAIN items
                    THEN [items EXCEPT ![r.item].cur = r.ver, ![r.item].hash = r.card] ELSE items
        /\ Goto(p, "chats.dup", r)
        /\ UNCHANGED <<last, vers, chats, personas, disk, budget, history>>

\* The standalone path: loose files into a character the user chose.
ImportLoose(p) ==
    \E i \in DOMAIN items, fs \in mix.bundles \ {<<>>} :
        /\ items[i].kind = "character" /\ items[i].cur # None
        /\ Begin(p, "loose", "chats.dup", [Idle EXCEPT !.item = i, !.ver = items[i].cur, !.files = fs])
        /\ UNCHANGED <<tables, disk, history>>

-----------------------------------------------------------------------------
(* importChatsIntoVersion: todo collects the chats whose parent is to be   *)
(* resolved.                                                               *)

\* Mutant: a chat is imported whether or not it was before.
ChatDupAgain(p) ==
    LET r == loc[p]
    IN  /\ pc[p] = "chats.dup"
        /\ Goto(p, IF r.files = <<>> THEN "chats.branch" ELSE "chats.insert", r)
        /\ UNCHANGED <<tables, disk, budget, history>>

\* Skipped if a chat with the file's hash is there, whatever state it is in.
ChatDup(p) ==
    LET r == loc[p]
        f == Head(r.files)
        dup == \E c \in DOMAIN chats : chats[c].file = f
        meets == {g \in Pending(p) : Importing(g) \ {p} # {}}
    IN  /\ pc[p] = "chats.dup"
        /\ IF r.files = <<>> THEN Goto(p, "chats.branch", r)
           ELSE IF dup THEN Goto(p, "chats.dup", [r EXCEPT !.files = Tail(@)])
           ELSE Goto(p, "chats.insert", r)
        /\ torn' = torn \cup meets
        /\ UNCHANGED <<tables, disk, budget, tangled, exposed>>

NextFile(p, r) == Goto(p, "chats.dup", [r EXCEPT !.files = Tail(@), !.chat = None])

\* A file may have a header and no messages.
ChatInsert(p) ==
    LET r == loc[p]
        c == NewChat
        f == Head(r.files)
        todo == IF ParentRef[f] = None THEN r.todo ELSE r.todo \cup {c}
    IN  /\ pc[p] = "chats.insert"
        /\ IF r.ver \in DOMAIN vers
           THEN /\ chats' = Row(chats, c, [ver |-> r.ver, preset |-> None, file |-> f,
                                           parent |-> None, have |-> 0,
                                           seen |-> Seen(r.ver), config |-> None])
                /\ Counts("chat")
                /\ IF LinesOf[f] = 0 THEN NextFile(p, [r EXCEPT !.todo = todo])
                   ELSE Goto(p, "chats.message", [r EXCEPT !.chat = c, !.todo = todo])
           ELSE Finish(p) /\ UNCHANGED <<chats, last>>
        /\ UNCHANGED <<items, vers, personas, disk, budget, history>>

\* Message after message; a chat that is deleted meanwhile makes the insert throw.
ChatMessage(p) ==
    LET r == loc[p]
        c == r.chat
        f == Head(r.files)
    IN  /\ pc[p] = "chats.message"
        /\ IF c \in DOMAIN chats
           THEN /\ chats' = [chats EXCEPT ![c].have = @ + 1]
                /\ IF chats[c].have + 1 < LinesOf[f] THEN Goto(p, "chats.message", r)
                   ELSE NextFile(p, r)
                /\ UNCHANGED torn
           ELSE /\ Finish(p)
                /\ torn' = torn \cup Pending(p)
                /\ UNCHANGED chats
        /\ UNCHANGED <<last, items, vers, personas, disk, budget, tangled, exposed>>

\* byFile, over the chats of every version of the character.
ByFile(i, n) == {c \in DOMAIN chats : /\ vers[chats[c].ver].of = i
                                      /\ chats[c].file # None
                                      /\ FileName[chats[c].file] = n}

\* The last row of a name wins; the query does not say in which order rows come.
Winners(i) ==
    LET ours == {c \in DOMAIN chats : vers[chats[c].ver].of = i /\ chats[c].file # None}
        name(c) == FileName[chats[c].file]
    IN  {W \in SUBSET ours : \A c \in ours : \E w \in W : {x \in W : name(x) = name(c)} = {w}}

\* A chat that would be its own parent gets none.
ChatBranches(p) ==
    LET r == loc[p]
    IN  /\ pc[p] = "chats.branch"
        /\ \E byFile \in Winners(r.item) :
              Goto(p, "chats.link",
                   [r EXCEPT !.todo = {},
                             !.links = {l \in (r.todo \cap DOMAIN chats) \X byFile :
                                          /\ FileName[chats[l[2]].file] = ParentRef[chats[l[1]].file]
                                          /\ l[1] # l[2]}])
        /\ UNCHANGED <<tables, disk, budget, history>>

\* One update per branch; a parent deleted since breaks the foreign key.
ChatLink(p) ==
    LET r == loc[p]
        l == CHOOSE x \in r.links : TRUE
    IN  /\ pc[p] = "chats.link"
        /\ IF r.links = {} THEN Finish(p) /\ UNCHANGED <<chats, torn>>
           ELSE IF l[1] \in DOMAIN chats /\ l[2] \notin DOMAIN chats
           THEN /\ Finish(p)
                /\ torn' = torn \cup Pending(p) \cup {chats[l[1]].file}
                /\ UNCHANGED chats
           ELSE /\ chats' = IF l[1] \in DOMAIN chats
                            THEN [chats EXCEPT ![l[1]].parent = l[2]] ELSE chats
                /\ Goto(p, "chats.link", [r EXCEPT !.links = @ \ {l}])
                /\ UNCHANGED torn
        /\ UNCHANGED <<last, items, vers, personas, disk, budget, tangled, exposed>>

ImportSteps(p) ==
    \/ ImportCard(p) \/ ImportPut(p) \/ ImportRow(p) \/ ImportRead(p)
    \/ ImportCharacter(p) \/ ImportMax(p) \/ ImportVersion(p) \/ ImportLore(p)
    \/ ImportPoint(p) \/ ImportLoose(p)
    \/ ChatDup(p) \/ ChatInsert(p) \/ ChatMessage(p) \/ ChatBranches(p) \/ ChatLink(p)
=============================================================================
