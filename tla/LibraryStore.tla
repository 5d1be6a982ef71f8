---------------------------- MODULE LibraryStore ----------------------------
(***************************************************************************)
(* The tables of the library and the blob tree beside them: characters and *)
(* presets (identity rows), their versions, the chats that pin a version,  *)
(* personas, the index of assets and the content-addressed files.          *)
(*                                                                         *)
(* Every request, and every command-line job, is a process that awaits one *)
(* statement after the other: a step of a process is what happens between  *)
(* two awaits.  loc holds the values it read and has not used yet.         *)
(***************************************************************************)
EXTENDS Integers, Sequences, FiniteSets, FiniteSetsExt

CONSTANTS
    Procs,      \* requests and jobs in flight at the same time
    Handles,    \* slugs of characters
    Cards,      \* card files; a card file stands for its bytes and their hash
    PngCards,   \* those that are pictures, and so their own avatar
    CardHandle, \* the slug of a card's file name
    LoreOf,     \* how many lorebook entries a card carries
    Files,      \* chat files, each standing for its bytes and their hash
    FileName,   \* the name a chat file has, which branches refer to
    ParentRef,  \* the name of the file it branched from, or None
    LinesOf,    \* how many messages it holds
    Texts,      \* contents a user can give a version
    Personas,   \* ids of personas
    Mixes,      \* bounds: which operations are started together, how many, and
                \* with which cards and bundles of chat files
    MaxCrashes, \* bound: times processes die
    None

ASSUME LibraryAssumption ==
    /\ PngCards \subseteq Cards
    /\ CardHandle \in [Cards -> Handles]
    /\ LoreOf \in [Cards -> Nat]
    /\ LinesOf \in [Files -> Nat]
    /\ \A f \in Files : FileName[f] # None
    /\ \A m \in Mixes : /\ m.handles \subseteq Handles /\ m.cards \subseteq Cards
                        /\ m.bundles \subseteq Seq(Files) /\ m.ops \in Nat
    /\ None \notin Nat \cup Handles \cup Texts \cup Cards \cup Files
    /\ Texts \cap Cards = {}
    /\ MaxCrashes \in Nat

VARIABLES
    items,      \* id -> identity row of a character or preset
    vers,       \* id -> version row
    chats,      \* id -> chat row
    personas,   \* id -> the avatar of the persona
    assets,     \* hashes that have a row in assets
    blobs,      \* hash -> "young" or "old" (older than the grace window)
    last,       \* the last id given in each table
    pc, loc,    \* where each process is, and what it remembers
    mix, ops, crashes,
    tangled,    \* history: items two writers met on, or one died on
    torn,       \* history: chat files whose import died or met another, and
                \* branches that lost their parent
    exposed     \* history: hashes linked while a sweep took them for garbage

tables  == <<items, vers, chats, personas, last>>
disk    == <<assets, blobs>>
history == <<tangled, torn, exposed>>
budget  == <<mix, ops, crashes>>
libVars == <<tables, disk, pc, loc, budget, history>>

Hash  == Cards \cup {None}
Idle  == [item |-> None, cur |-> None, ver |-> None, num |-> 0, text |-> None,
          handle |-> None, avatar |-> None, card |-> None, files |-> <<>>,
          chat |-> None, todo |-> {}, links |-> {}]

\* Ids are random in the code; here each table counts, and reuses none.
NewItem == last.item + 1
NewVer  == last.ver + 1
NewChat == last.chat + 1
Counts(t) == last' = [last EXCEPT ![t] = @ + 1]
Row(t, id, r) == [x \in DOMAIN t \cup {id} |-> IF x = id THEN r ELSE t[x]]
Without(t, S) == [x \in DOMAIN t \ S |-> t[x]]

\* The versions of an identity row, and the highest number among them.
VersionsOf(i) == {v \in DOMAIN vers : vers[v].of = i}
MaxNumber(i) == Max({0} \cup {vers[v].num : v \in VersionsOf(i)})

\* The unique index on (character, number) and the foreign keys of a version.
VersionFits(i, n, avatar) ==
    /\ i \in DOMAIN items
    /\ \A v \in VersionsOf(i) : vers[v].num # n
    /\ avatar \in assets \cup {None}

\* characters.handle is unique in the whole table.
HandleTaken(h) == \E i \in DOMAIN items : items[i].handle = h

\* versionPinned: some chat records the version as the basis of its turns.
Pinned(v) == \E c \in DOMAIN chats : v \in {chats[c].ver, chats[c].preset}

\* Hashes a version or a persona shows as its avatar.
Referenced == {vers[v].avatar : v \in DOMAIN vers}
              \cup {personas[u] : u \in DOMAIN personas}

-----------------------------------------------------------------------------
(* Control.                                                                *)

Goto(p, l, r) == /\ pc' = [pc EXCEPT ![p] = l]
                 /\ loc' = [loc EXCEPT ![p] = r]

\* A request arrives, or a job is started.
Request(p, op) == /\ pc[p] = "idle"
                  /\ op \in mix.kinds
                  /\ ops < mix.ops
                  /\ ops' = ops + 1
                  /\ UNCHANGED <<mix, crashes>>

Begin(p, op, l, r) == Request(p, op) /\ Goto(p, l, r)

\* The answer, or an exception: either way the request is over.
Finish(p) == Goto(p, "idle", Idle)

\* Steps at which a process is about to write versions or the pointer of an item.
Writing == {"create.version", "create.point", "update.pinned", "update.mint",
            "update.fork", "update.insert", "update.point", "update.mutate",
            "remove.list", "remove.check", "remove.unpoint", "remove.delete",
            "import.max", "import.version", "import.lore", "import.point"}
Writers(i) == {p \in Procs : pc[p] \in Writing /\ loc[p].item = i}

\* History: a process that takes up item i while another writes it.
Meets(p, i) == tangled' = IF Writers(i) \ {p} = {} THEN tangled ELSE tangled \cup {i}

\* Chat files a process still has to write, or to link to their parents.
ImportsChats == {"chats.dup", "chats.insert", "chats.message", "chats.branch",
                 "chats.link"}
Pending(p) == {loc[p].files[n] : n \in DOMAIN loc[p].files}
              \cup {chats[c].file : c \in {d \in DOMAIN chats :
                       d \in loc[p].todo \/ \E l \in loc[p].links : l[1] = d}}
Importing(f) == {p \in Procs : pc[p] \in ImportsChats /\ f \in Pending(p)}

\* Editors that found version v unpinned and have not written it yet; what a
\* chat that pins v at this moment may rely on.
Mutating(v) == \E q \in Procs : pc[q] = "update.mutate" /\ loc[q].cur = v
Seen(v) == IF v = None \/ Mutating(v) THEN None ELSE vers[v].text

Jobs == {"gc.stat", "gc.row"}
Sweeping == {q \in Procs : pc[q] \in Jobs}

\* History: linking h while a sweep counts it as garbage.
Exposes(h) == IF \E q \in Sweeping : h \in loc[q].todo \cup {loc[q].card}
              THEN exposed \cup ({h} \ {None}) ELSE exposed

\* Processes that have looked for h in the tree and have not linked it yet.
Storing(h) == {q \in Procs : /\ pc[q] \in {"backfill.row", "backfill.link", "rebuild.row",
                                           "import.row", "import.read", "import.char",
                                           "import.max", "import.version"}
                             /\ loc[q].card = h}
=============================================================================
