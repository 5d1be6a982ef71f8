------------------------------- MODULE Library -------------------------------
(***************************************************************************)
(* The library: editors, importers, chats that open, the backfill and the  *)
(* garbage collector, all on the same tables, and processes that die.      *)
(***************************************************************************)
EXTENDS LibraryVersions, LibraryAssets, LibraryImport

Init ==
    /\ items = <<>> /\ vers = <<>> /\ chats = <<>> /\ personas = <<>>
    /\ last = [item |-> 0, ver |-> 0, chat |-> 0]
    /\ assets = {} /\ blobs = <<>>
    /\ pc = [p \in Procs |-> "idle"]
    /\ loc = [p \in Procs |-> Idle]
    /\ mix \in Mixes /\ ops = 0 /\ crashes = 0
    /\ tangled = {} /\ torn = {} /\ exposed = {}

\* The server, or a job, dies with what it was doing.
Crash ==
    \E S \in SUBSET {p \in Procs : pc[p] # "idle"} :
        LET cut == {loc[p].item : p \in {q \in S : pc[q] \in Writing}} \ {None}
        IN  /\ S # {}
            /\ crashes < MaxCrashes
            /\ crashes' = crashes + 1
            /\ pc' = [p \in Procs |-> IF p \in S THEN "idle" ELSE pc[p]]
            /\ loc' = [p \in Procs |-> IF p \in S THEN Idle ELSE loc[p]]
            /\ tangled' = tangled \cup cut
            /\ torn' = torn \cup UNION {Pending(p) : p \in {q \in S : pc[q] \in ImportsChats}}
            /\ exposed' = exposed \cup {loc[p].card : p \in {q \in S : pc[q] = "gc.row"}}
            /\ UNCHANGED <<tables, disk, mix, ops>>

Next ==
    \/ \E p \in Procs : VersionSteps(p) \/ AssetSteps(p) \/ ImportSteps(p)
    \/ Age
    \/ Crash

Spec == Init /\ [][Next]_libVars

-----------------------------------------------------------------------------
(* Type invariant: what the columns and the locals of a request hold.      *)
TypeOK ==
    /\ \A i \in DOMAIN items :
          items[i] \in [kind : Kinds, handle : Handles \cup {None},
                        cur : DOMAIN vers \cup {None}, hash : Hash]
    /\ \A v \in DOMAIN vers :
          vers[v] \in [of : DOMAIN items, num : Nat \ {0}, text : Texts \cup Cards,
                       avatar : assets \cup {None}, lore : Nat]
    /\ \A c \in DOMAIN chats :
          chats[c] \in [ver : DOMAIN vers, preset : DOMAIN vers \cup {None},
                        file : Files \cup {None}, parent : DOMAIN chats \cup {None},
                        have : Nat, seen : Texts \cup Cards \cup {None},
                        config : Texts \cup {None}]
    /\ DOMAIN personas \subseteq Personas
    /\ \A u \in DOMAIN personas : personas[u] \in assets \cup {None}
    /\ assets \subseteq PngCards /\ DOMAIN blobs \subseteq PngCards
    /\ \A h \in DOMAIN blobs : blobs[h] \in {"young", "old"}
    /\ DOMAIN pc = Procs /\ DOMAIN loc = Procs
    /\ mix \in Mixes /\ ops \in 0..mix.ops /\ crashes \in 0..MaxCrashes

\* "A version freezes once a chat pins it" (schema of character_versions and
\* preset_versions): the text a chat was opened on is the text its version has,
\* whatever is edited, forked, imported or removed since.  The one window the
\* code leaves is excluded by Seen: a chat that pins a version while an editor
\* that found it unpinned is about to write it.
PinnedFrozen ==
    \A c \in DOMAIN chats :
        /\ chats[c].seen # None => vers[chats[c].ver].text = chats[c].seen
        /\ chats[c].config # None => vers[chats[c].preset].text = chats[c].config

\* What a new chat is offered is whole and the latest.  Whole, whatever dies: the
\* version an identity row points to is its own and, imported, has the lorebook of
\* its card to the last entry.  The latest, unless two writers met on the item or
\* one died on it (tangled): it has the highest number, and no number is missing.
CurrentIsWhole ==
    /\ \A i \in DOMAIN items :
          LET v == items[i].cur
          IN  v # None => /\ vers[v].of = i
                          /\ vers[v].text \in Cards => vers[v].lore = LoreOf[vers[v].text]
    /\ \A i \in DOMAIN items \ tangled :
          LET v == items[i].cur
              all == VersionsOf(i)
          IN  Writers(i) = {} =>
                /\ {vers[w].num : w \in all} = 1..Cardinality(all)
                /\ IF v = None THEN all = {} ELSE vers[v].num = MaxNumber(i)

\* Importing the same files again, after any edits and in any order, adds
\* nothing and leaves nothing half written: a chat file is one chat with all its
\* messages, and a branch hangs on a chat of the name it branched from if one was
\* there first.  Files whose import died or met another (torn) are excluded, and
\* branches whose parent was deleted or has their own name.
ImportOnce ==
    \A c \in DOMAIN chats :
        LET f == chats[c].file
        IN  f # None /\ f \notin torn /\ Importing(f) = {} =>
              /\ \A d \in DOMAIN chats : chats[d].file = f => d = c
              /\ chats[c].have = LinesOf[f]
              /\ LET named == ByFile(vers[chats[c].ver].of, ParentRef[f])
                 IN  c \notin torn \cup named /\ (\E d \in named : d < c)
                       => chats[c].parent \in named

\* An avatar that is shown has its file: neither the sweep nor a crash between
\* its two deletions takes the bytes of a picture that is linked.  exposed are
\* the hashes linked while a sweep that started earlier already counted them as
\* garbage, and those a sweep died on.
ReferencedKept ==
    Referenced \ (exposed \cup {None}) \subseteq DOMAIN blobs
=============================================================================
